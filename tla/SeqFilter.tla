------------------------------ MODULE SeqFilter -----------------------------
(***************************************************************************)
(* JavaScript's array.filter(x => ...) with the set of the elements it      *)
(* keeps: SelectSeq() with a set for its test, which proofs can speak of.    *)
(***************************************************************************)
EXTENDS Naturals, Sequences

Kept(s, T) ==
    LET kept[n \in 0..Len(s)] ==
          CASE n = 0              -> <<>>
            [] n > 0 /\ s[n] \in T -> Append(kept[n - 1], s[n])
            [] OTHER              -> kept[n - 1]
    IN  kept[Len(s)]

=============================================================================
