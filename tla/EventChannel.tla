---------------------------- MODULE EventChannel ----------------------------
(***************************************************************************)
(* What a Stream promises to a well-behaved producer and consumer: a queue  *)
(* that hands every event over in the order it was sent, and at most once.  *)
(* It holds events until a consumer attaches, and it loses them only when   *)
(* the consumer stops, or when the consumer fails while the queue is being  *)
(* emptied into it.  Once the consumer has stopped nothing more is handed   *)
(* over.  An event is its position among those sent.                        *)
(* StreamChannel.tla shows that a disciplined Stream implements this module. *)
(***************************************************************************)
EXTENDS Naturals, Sequences

VARIABLES
    sent,               \* number of events sent
    pending,            \* sent, not yet handed over, oldest first
    got,                \* handed over, in order
    attached,           \* a consumer takes events as they come
    stopped             \* the consumer refuses everything from now on

cvars == <<sent, pending, got, attached, stopped>>

CInit ==
    /\ sent = 0
    /\ pending = <<>>
    /\ got = <<>>
    /\ attached = FALSE
    /\ stopped = FALSE

Send ==
    /\ ~stopped
    /\ sent' = sent + 1

Queue ==
    /\ Send
    /\ pending' = Append(pending, sent')
    /\ UNCHANGED <<got, attached, stopped>>

\* An event sent to an idle attached consumer goes straight to it.
Pass ==
    /\ attached
    /\ pending = <<>>
    /\ Send
    /\ got' = Append(got, sent')
    /\ UNCHANGED <<pending, attached, stopped>>

HandOver ==
    /\ pending # <<>>
    /\ got' = Append(got, Head(pending))
    /\ pending' = Tail(pending)

Deliver ==
    /\ attached
    /\ HandOver
    /\ UNCHANGED <<sent, attached, stopped>>

Attach ==
    /\ ~attached
    /\ attached' = TRUE
    /\ \/ HandOver
       \/ pending = <<>> /\ UNCHANGED <<pending, got>>
    /\ UNCHANGED <<sent, stopped>>

\* The queue forgets its consumer once the last event has been handed over.
Detach ==
    /\ attached
    /\ pending = <<>>
    /\ attached' = FALSE
    /\ UNCHANGED <<sent, pending, got, stopped>>

\* The consumer takes the whole queue instead of attaching.
Take ==
    /\ ~attached
    /\ got' = got \o pending
    /\ pending' = <<>>
    /\ UNCHANGED <<sent, attached, stopped>>

Stop ==
    /\ stopped' = TRUE
    /\ attached' = FALSE
    /\ pending' = <<>>
    /\ UNCHANGED <<sent, got>>

\* A consumer that fails while the queue is emptied into it loses the rest.
Fail ==
    /\ attached
    /\ pending' = <<>>
    /\ UNCHANGED <<sent, got, attached, stopped>>

CNext ==
    \/ Queue \/ Pass
    \/ Deliver \/ Attach \/ Detach \/ Take \/ Stop \/ Fail

CSpec == CInit /\ [][CNext]_cvars /\ WF_cvars(Deliver)

=============================================================================
