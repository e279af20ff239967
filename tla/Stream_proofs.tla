---------------------------- MODULE Stream_proofs ---------------------------
(***************************************************************************)
(* Theorems about Stream, for every set of receivers, every choice of the   *)
(* calls that callbacks make and every bound; and about StreamChannel: a    *)
(* disciplined stream implements EventChannel, but for the channel's        *)
(* fairness, which is left to TLC.                                          *)
(***************************************************************************)
EXTENDS StreamChannel, SequenceTheorems, TLAPS

\* TypeOK in two parts: Zenon is good at the flags, SMT at the rest.
FlagsOK ==
    /\ closedByUpstream \in BOOLEAN
    /\ closedByDownstream \in BOOLEAN
    /\ hasBacklog \in BOOLEAN
    /\ receiverFailed \in BOOLEAN

DataOK ==
    /\ receiver \in Receiver \cup {NoReceiver}
    /\ backlog \in Seq(Nat)
    /\ stack \in Seq(Frame)
    /\ thrown \in Exceptions
    /\ accepted \in Nat
    /\ handed \in Seq(Handed)
    /\ lost \subseteq Nat
    /\ late \subseteq Nat

\* The two parts are the whole, in this state and in the next.
LEMMA TypeParts ==
    /\ TypeOK <=> FlagsOK /\ DataOK
    /\ TypeOK' <=> FlagsOK' /\ DataOK'
  BY Zenon DEF TypeOK, FlagsOK, DataOK

\* Every step leaves the flags TRUE or FALSE.
LEMMA FlagsStep ==
    FlagsOK /\ [Next]_vars => FlagsOK'
  <1> SUFFICES ASSUME FlagsOK, [Next]_vars PROVE FlagsOK'
    OBVIOUS
  <1> USE DEF FlagsOK
  <1>1. ASSUME NEW isClose \in BOOLEAN, Accept(isClose)
        PROVE  FlagsOK'
    <2>1. closedByUpstream' \in BOOLEAN
      BY <1>1 DEF Accept
    <2> QED BY <1>1, <2>1, Zenon DEF Accept
  <1>2. ASSUME NEW isClose \in BOOLEAN,
               \/ ReceiveDeliver(isClose)
               \/ ReceiveToBacklog(isClose)
               \/ ReceiveDropped(isClose)
        PROVE  FlagsOK'
    BY <1>1, <1>2, Zenon DEF ReceiveDeliver, ReceiveToBacklog, ReceiveDropped
  <1>3. ASSUME UNCHANGED state, UNCHANGED receiverFailed
        PROVE  FlagsOK'
    BY <1>3, Zenon DEF state
  <1>4. ASSUME NEW isClose \in BOOLEAN, ReceiveRefused(isClose)
        PROVE  FlagsOK'
    BY <1>3, <1>4, Zenon DEF ReceiveRefused, history
  <1>5. ASSUME NEW call \in {"sendTo", "takeBacklog"}, CallRefused(call)
        PROVE  FlagsOK'
    BY <1>3, <1>5, Zenon DEF CallRefused, history
  <1>6. ASSUME NEW r \in Receiver, SendTo(r)
        PROVE  FlagsOK'
    BY <1>6, Zenon DEF SendTo
  <1>7. CASE TakeBacklog
    BY <1>7, Zenon DEF TakeBacklog
  <1>8. CASE CloseByDownstream
    BY <1>8, Zenon DEF CloseByDownstream
  <1>9. CASE CallbackReturns
    BY <1>9, Zenon DEF CallbackReturns
  <1>10. CASE CallbackStops
    BY <1>10, Zenon DEF CallbackStops
  <1>11. CASE CallbackThrows
    BY <1>11, Zenon DEF CallbackThrows, state
  <1>12. CASE UNCHANGED vars
    BY <1>3, <1>12, Zenon DEF vars, history
  <1> QED
    BY <1>2, <1>4, <1>5, <1>6, <1>7, <1>8, <1>9, <1>10, <1>11, <1>12
    DEF Next, CallbackEnds

\* The last frame of a nonempty stack, and the stack without it.
LEMMA StackFacts ==
    ASSUME stack \in Seq(Frame), stack # <<>>
    PROVE  /\ Len(stack) \in Nat \ {0}
           /\ Top \in Frame
           /\ Top.rest \in Seq(Nat)
           /\ Front(stack) \in Seq(Frame)
  <1>1. Len(stack) \in Nat \ {0} /\ Top \in Frame
    BY DEF Top, Last
  <1>2. Top.rest \in Seq(Nat)
    BY <1>1 DEF Frame
  <1>3. \A i \in 1 .. Len(stack) - 1 : stack[i] \in Frame
    BY <1>1
  <1>4. Front(stack) \in Seq(Frame)
    BY <1>1, <1>3, SubSeqProperties DEF Front
  <1> QED BY <1>1, <1>2, <1>4

\* The elements of a sequence of numbers are numbers.
LEMMA ElementsAreNat ==
    ASSUME NEW s \in Seq(Nat)
    PROVE  ToSet(s) \subseteq Nat
  BY DEF ToSet

\* Handing an event over and pushing a frame keep the types.
LEMMA HandToTyped ==
    ASSUME DataOK, NEW r \in Receiver \cup {NoReceiver}, NEW e \in Nat, HandTo(r, e)
    PROVE  handed' \in Seq(Handed)
  BY DEF DataOK, HandTo, Handed

LEMMA PushTyped ==
    ASSUME DataOK, NEW call \in {"receive", "sendTo"}, NEW rest \in Seq(Nat), Push(call, rest)
    PROVE  stack' \in Seq(Frame)
  BY DEF DataOK, Push, Frame

\* The four ways a waiting call goes on keep the types of what they change.
LEMMA ContinueTyped ==
    ASSUME DataOK, stack # <<>>, NEW r \in Receiver \cup {NoReceiver},
           NEW gone \in SUBSET Nat, Continue(r, gone)
    PROVE  /\ receiver' \in Receiver \cup {NoReceiver}
           /\ stack' \in Seq(Frame)
           /\ thrown' \in Exceptions
           /\ handed' \in Seq(Handed)
           /\ lost' \subseteq Nat
  <1> USE DEF DataOK
  <1>1. /\ Len(stack) \in Nat \ {0}
        /\ Top \in Frame
        /\ Top.rest \in Seq(Nat)
        /\ Front(stack) \in Seq(Frame)
    BY StackFacts
  <1>2. CASE FinishReceive(r, gone)
    BY <1>1, <1>2 DEF FinishReceive, Pop, Exceptions
  <1>3. CASE FinishSendTo(r, gone)
    BY <1>1, <1>3 DEF FinishSendTo, Pop, Exceptions
  <1>4. CASE FlushNext(r, gone)
    <2>1. Head(Top.rest) \in Nat /\ Tail(Top.rest) \in Seq(Nat)
      BY <1>1, <1>4, HeadTailProperties DEF FlushNext
    <2>2. handed' \in Seq(Handed)
      BY <1>4, <2>1, HandToTyped DEF FlushNext
    <2>3. stack' \in Seq(Frame)
      <3>1. stack[Len(stack)] \in Frame /\ Top = stack[Len(stack)]
        BY <1>1 DEF Top, Last
      <3>2. [stack[Len(stack)] EXCEPT !.rest = Tail(@)] \in Frame
        BY <2>1, <3>1 DEF Frame
      <3>3. stack' = [stack EXCEPT ![Len(stack)] = [stack[Len(stack)] EXCEPT !.rest = Tail(@)]]
        BY <1>4 DEF FlushNext
      <3> QED BY <1>1, <3>2, <3>3
    <2> QED BY <1>4, <2>2, <2>3 DEF FlushNext, Exceptions
  <1>5. CASE FlushBreaks(r, gone)
    BY <1>1, <1>5, ElementsAreNat DEF FlushBreaks, Pop, Exceptions
  <1> QED BY <1>2, <1>3, <1>4, <1>5 DEF Continue

\* receive() keeps the types of what it changes before it looks for a receiver.
LEMMA AcceptTyped ==
    ASSUME DataOK, NEW isClose \in BOOLEAN, Accept(isClose)
    PROVE  /\ receiver' \in Receiver \cup {NoReceiver}
           /\ thrown' \in Exceptions
           /\ accepted' \in Nat
           /\ late' \subseteq Nat
  <1>1. accepted \in Nat /\ accepted' = accepted + 1 /\ late \subseteq Nat
    BY DEF Accept, DataOK
  <1>2. late' \subseteq late \cup {accepted'}
    BY Zenon DEF Accept
  <1>3. thrown' \in Exceptions /\ receiver' \in Receiver \cup {NoReceiver}
    BY DEF Accept, DataOK, Exceptions
  <1> QED BY <1>1, <1>2, <1>3

\* Every step keeps the types of the variables that are not flags.
LEMMA DataStep ==
    DataOK /\ [Next]_vars => DataOK'
  <1> SUFFICES ASSUME DataOK, [Next]_vars PROVE DataOK'
    OBVIOUS
  <1>1. ASSUME NEW isClose \in BOOLEAN, ReceiveRefused(isClose)
        PROVE  DataOK'
    BY <1>1 DEF ReceiveRefused, DataOK, Exceptions, state, history
  <1>2. ASSUME NEW isClose \in BOOLEAN, ReceiveDeliver(isClose)
        PROVE  DataOK'
    <2>1. Accept(isClose)
      BY <1>2 DEF ReceiveDeliver
    <2>2. stack' \in Seq(Frame)
      <3>1. <<>> \in Seq(Nat)
        OBVIOUS
      <3>2. Push("receive", <<>>)
        BY <1>2 DEF ReceiveDeliver
      <3> QED BY <3>1, <3>2, PushTyped
    <2>3. handed' \in Seq(Handed)
      BY <1>2, <2>1, AcceptTyped, HandToTyped DEF ReceiveDeliver, DataOK
    <2> QED BY <1>2, <2>1, <2>2, <2>3, AcceptTyped DEF ReceiveDeliver, DataOK
  <1>3. ASSUME NEW isClose \in BOOLEAN, ReceiveToBacklog(isClose)
        PROVE  DataOK'
    BY <1>3, AcceptTyped DEF ReceiveToBacklog, DataOK
  <1>4. ASSUME NEW isClose \in BOOLEAN, ReceiveDropped(isClose)
        PROVE  DataOK'
    BY <1>4, AcceptTyped DEF ReceiveDropped, DataOK
  <1>5. ASSUME NEW call \in {"sendTo", "takeBacklog"}, CallRefused(call)
        PROVE  DataOK'
    BY <1>5 DEF CallRefused, DataOK, Exceptions, state, history
  <1>6. ASSUME NEW r \in Receiver, SendTo(r)
        PROVE  DataOK'
    <2>1. CASE backlog = <<>>
      BY <1>6, <2>1 DEF SendTo, DataOK, Exceptions
    <2>2. CASE backlog # <<>>
      <3>1. Head(backlog) \in Nat /\ Tail(backlog) \in Seq(Nat)
        BY <2>2, HeadTailProperties DEF DataOK
      <3>2. Push("sendTo", Tail(backlog)) /\ HandTo(r, Head(backlog))
        BY <1>6, <2>2 DEF SendTo
      <3>3. stack' \in Seq(Frame)
        BY <3>1, <3>2, PushTyped
      <3>4. handed' \in Seq(Handed)
        BY <3>1, <3>2, HandToTyped
      <3>5. /\ receiver' = r /\ backlog' = <<>> /\ thrown' = "none"
            /\ UNCHANGED <<accepted, lost, late>>
        BY <1>6 DEF SendTo
      <3>6. thrown' \in Exceptions /\ backlog' \in Seq(Nat)
        BY <3>5 DEF Exceptions
      <3> QED BY <3>3, <3>4, <3>5, <3>6 DEF DataOK
    <2> QED BY <2>1, <2>2
  <1>7. CASE TakeBacklog
    <2> DEFINE taken == [i \in DOMAIN backlog |-> [event |-> backlog[i], to |-> NoReceiver]]
    <2>1. Len(backlog) \in Nat /\ DOMAIN backlog = 1..Len(backlog)
      BY DEF DataOK
    <2>2. \A i \in DOMAIN backlog : [event |-> backlog[i], to |-> NoReceiver] \in Handed
      BY <2>1 DEF DataOK, Handed
    <2>3. taken \in [1..Len(backlog) -> Handed]
      BY <2>1, <2>2
    <2>4. taken \in Seq(Handed)
      BY <2>1, <2>3, SeqDef
    <2>5. handed' \in Seq(Handed)
      BY <1>7, <2>4, ConcatProperties DEF TakeBacklog, DataOK
    <2>6. /\ backlog' = <<>> /\ thrown' = "none"
          /\ UNCHANGED <<receiver, stack, accepted, lost, late>>
      BY <1>7 DEF TakeBacklog
    <2>7. thrown' \in Exceptions /\ backlog' \in Seq(Nat)
      BY <2>6 DEF Exceptions
    <2> QED BY <2>5, <2>6, <2>7 DEF DataOK
  <1>8. CASE CloseByDownstream
    <2>1. receiver' \in Receiver \cup {NoReceiver} /\ backlog' \in Seq(Nat)
      BY <1>8 DEF CloseByDownstream, ReceiverOnceClosed, BacklogOnceClosed, DataOK
    <2>2. lost' \subseteq Nat
      BY <1>8, ElementsAreNat DEF CloseByDownstream, Discarded, DataOK
    <2> QED BY <1>8, <2>1, <2>2 DEF CloseByDownstream, DataOK, Exceptions
  <1>9. CASE CallbackReturns
    BY <1>9, ContinueTyped DEF CallbackReturns, DataOK
  <1>10. CASE CallbackStops
    <2>1. ReceiverOnceClosed \in Receiver \cup {NoReceiver} /\ BacklogOnceClosed \in Seq(Nat)
      BY DEF ReceiverOnceClosed, BacklogOnceClosed, DataOK
    <2>2. Discarded \in SUBSET Nat
      BY ElementsAreNat DEF Discarded, DataOK
    <2> QED BY <1>10, <2>1, <2>2, ContinueTyped DEF CallbackStops, DataOK
  <1>11. CASE CallbackThrows
    <2>1. Front(stack) \in Seq(Frame) /\ ToSet(Top.rest) \subseteq Nat
      BY <1>11, StackFacts, ElementsAreNat DEF CallbackThrows, DataOK
    <2> QED BY <1>11, <2>1 DEF CallbackThrows, Pop, DataOK, Exceptions, state
  <1>12. CASE UNCHANGED vars
    BY <1>12 DEF vars, state, history, DataOK
  <1> QED
    BY <1>1, <1>2, <1>3, <1>4, <1>5, <1>6, <1>7, <1>8, <1>9, <1>10, <1>11, <1>12
    DEF Next, CallbackEnds

\* Every variable keeps its type, whatever the callers of the stream do.
THEOREM TypeCorrect == Spec => []TypeOK
  <1>1. Init => FlagsOK
    BY DEF Init, FlagsOK
  <1>2. Init => DataOK
    BY DEF Init, DataOK, Exceptions
  <1>3. TypeOK /\ [Next]_vars => TypeOK'
    BY FlagsStep, DataStep, TypeParts
  <1> QED BY <1>1, <1>2, <1>3, TypeParts, PTL DEF Spec

-----------------------------------------------------------------------------
Closed == closedByUpstream \/ closedByDownstream

\* Why nothing is lost while the stream is open: a stream that has had a
\* receiver (its backlog is deleted, or a callback is running) and has none now
\* was closed by one side.
LossInv ==
    /\ NothingLostWhileOpen
    /\ receiver = NoReceiver /\ (~hasBacklog \/ stack # <<>>) => Closed

\* Neither side's close is ever undone, nor a receiver's failure forgotten.
LEMMA EndIsFinal ==
    ASSUME Next
    PROVE  /\ closedByUpstream => closedByUpstream'
           /\ closedByDownstream => closedByDownstream'
           /\ receiverFailed => receiverFailed'
  <1>1. ASSUME NEW isClose \in BOOLEAN, Accept(isClose)
        PROVE  /\ closedByUpstream => closedByUpstream'
               /\ UNCHANGED closedByDownstream /\ UNCHANGED receiverFailed
    BY <1>1, Zenon DEF Accept
  <1>2. \/ \E isClose \in BOOLEAN : Accept(isClose)
        \/ /\ UNCHANGED closedByUpstream
           /\ closedByDownstream => closedByDownstream'
           /\ receiverFailed => receiverFailed'
    BY Zenon DEF Next, ReceiveRefused, ReceiveDeliver, ReceiveToBacklog, ReceiveDropped,
         CallRefused, SendTo, TakeBacklog, CloseByDownstream, CallbackEnds,
         CallbackReturns, CallbackStops, CallbackThrows, state, history
  <1>3. CASE \E isClose \in BOOLEAN : Accept(isClose)
    BY <1>1, <1>3
  <1>4. CASE UNCHANGED closedByUpstream
    BY <1>1, <1>2, <1>4
  <1> QED BY <1>2, <1>3, <1>4

\* A waiting call that goes on sets the receiver to null only on a closed
\* stream, and loses events only when it finds no receiver.
LEMMA ContinueLoses ==
    ASSUME NEW r, NEW gone, Continue(r, gone)
    PROVE  /\ receiver' = r \/ (receiver' = NoReceiver /\ closedByUpstream)
           /\ r # NoReceiver => lost' = lost \cup gone /\ thrown' = "none"
  BY DEF Continue, FinishReceive, FinishSendTo, FlushNext, FlushBreaks

\* On a stream that is still open after the step, what the step may not do.
Lossless ==
    /\ receiver' = NoReceiver => hasBacklog' /\ stack' = <<>>
    /\ receiverFailed' \/ (lost' \subseteq lost /\ thrown' # "TypeError")

LEMMA OpenStep ==
    ASSUME LossInv, Next, ~Closed, ~Closed'
    PROVE  Lossless
  <1>1. receiver = NoReceiver => hasBacklog /\ stack = <<>>
    BY DEF LossInv
  <1>2. ASSUME NEW isClose \in BOOLEAN, ReceiveRefused(isClose)
        PROVE  Lossless
    BY <1>2 DEF ReceiveRefused, Refuses, Closed
  <1>3. ASSUME NEW isClose \in BOOLEAN, ReceiveDeliver(isClose)
        PROVE  Lossless
    BY <1>3 DEF ReceiveDeliver, Accept, Lossless
  <1>4. ASSUME NEW isClose \in BOOLEAN, ReceiveToBacklog(isClose)
        PROVE  Lossless
    BY <1>1, <1>4 DEF ReceiveToBacklog, Accept, Lossless
  <1>5. ASSUME NEW isClose \in BOOLEAN, ReceiveDropped(isClose)
        PROVE  Lossless
    BY <1>1, <1>5 DEF ReceiveDropped
  <1>6. ASSUME NEW call \in {"sendTo", "takeBacklog"}, CallRefused(call)
        PROVE  Lossless
    BY <1>6 DEF CallRefused, state, history, Lossless
  <1>7. ASSUME NEW r \in Receiver, SendTo(r)
        PROVE  Lossless
    BY <1>7, NoReceiverAssumption DEF SendTo, Lossless
  <1>8. CASE TakeBacklog
    BY <1>1, <1>8 DEF TakeBacklog, Lossless
  <1>9. CASE CloseByDownstream
    BY <1>9 DEF CloseByDownstream, Closed
  <1>10. CASE CallbackReturns
    <2>1. receiver # NoReceiver /\ Continue(receiver, {})
      BY <1>1, <1>10 DEF CallbackReturns
    <2> QED BY <2>1, ContinueLoses DEF Lossless, Closed
  <1>11. CASE CallbackStops
    BY <1>11 DEF CallbackStops, Closed
  <1>12. CASE CallbackThrows
    BY <1>1, <1>12 DEF CallbackThrows, state, Lossless
  <1> QED
    BY <1>2, <1>3, <1>4, <1>5, <1>6, <1>7, <1>8, <1>9, <1>10, <1>11, <1>12
    DEF Next, CallbackEnds

LEMMA LossStep ==
    LossInv /\ [Next]_vars => LossInv'
  <1> SUFFICES ASSUME LossInv, [Next]_vars PROVE LossInv'
    OBVIOUS
  <1>1. CASE UNCHANGED vars
    BY <1>1 DEF vars, state, history, LossInv, NothingLostWhileOpen, Closed
  <1>2. CASE Next /\ Closed'
    BY <1>2 DEF LossInv, NothingLostWhileOpen, Closed
  <1>3. CASE Next /\ ~Closed'
    <2>1. ~Closed /\ Lossless
      BY <1>3, EndIsFinal, OpenStep DEF Closed
    <2>2. receiverFailed => receiverFailed'
      BY <1>3, EndIsFinal
    <2> QED BY <2>1, <2>2 DEF Lossless, LossInv, NothingLostWhileOpen, Closed
  <1> QED BY <1>1, <1>2, <1>3

\* Whatever the callers and callbacks do, an event is lost, and sendTo() breaks
\* off with a TypeError, only on a stream that one side has closed or whose
\* receiver has thrown.
THEOREM NothingLost == Spec => []NothingLostWhileOpen
  <1>1. Init => LossInv
    BY DEF Init, LossInv, NothingLostWhileOpen
  <1>2. LossInv => NothingLostWhileOpen
    BY DEF LossInv
  <1> QED BY <1>1, <1>2, LossStep, PTL DEF Spec

-----------------------------------------------------------------------------
\* What is handed over

\* What HandedEvents is when handed is well typed.
LEMMA HandedEventsFacts ==
    ASSUME NEW h \in Seq(Handed)
    PROVE  LET events == [i \in DOMAIN h |-> h[i].event]
           IN  /\ events \in Seq(Nat)
               /\ Len(events) = Len(h)
               /\ \A i \in 1..Len(h) : events[i] = h[i].event
  <1> DEFINE events == [i \in DOMAIN h |-> h[i].event]
  <1>1. Len(h) \in Nat /\ DOMAIN h = 1..Len(h)
    BY LenProperties
  <1>2. \A i \in 1..Len(h) : h[i] \in Handed
    BY ElementOfSeq
  <1>3. \A i \in 1..Len(h) : h[i].event \in Nat
    BY <1>2 DEF Handed
  <1>4. events \in [1..Len(h) -> Nat]
    BY <1>1, <1>3
  <1>5. events \in Seq(Nat)
    BY <1>1, <1>4, SeqDef
  <1>6. Len(events) = Len(h)
    BY <1>1, <1>4, <1>5, LenProperties
  <1> QED BY <1>1, <1>5, <1>6

\* Handing one event over appends it to the events handed over.
LEMMA HandedAppend ==
    ASSUME TypeOK, NEW r \in Receiver \cup {NoReceiver}, NEW e \in Nat, HandTo(r, e)
    PROVE  HandedEvents' = Append(HandedEvents, e)
  <1> DEFINE x == [event |-> e, to |-> r]
             s == HandedEvents'
             t == Append(HandedEvents, e)
  <1>1. handed \in Seq(Handed) /\ x \in Handed /\ handed' = Append(handed, x)
    BY DEF TypeOK, HandTo, Handed
  <1>2. /\ handed' \in Seq(Handed)
        /\ Len(handed') = Len(handed) + 1
        /\ \A i \in 1..Len(handed) : handed'[i] = handed[i]
        /\ handed'[Len(handed) + 1] = x
    BY <1>1, AppendProperties
  <1>3. /\ Len(handed) \in Nat
        /\ HandedEvents \in Seq(Nat)
        /\ Len(HandedEvents) = Len(handed)
        /\ \A i \in 1..Len(handed) : HandedEvents[i] = handed[i].event
    BY <1>1, HandedEventsFacts, LenProperties DEF HandedEvents
  <1>4. /\ s \in Seq(Nat)
        /\ Len(s) = Len(handed) + 1
        /\ \A i \in 1..Len(handed) + 1 : s[i] = handed'[i].event
    BY <1>2, HandedEventsFacts DEF HandedEvents
  <1>5. /\ t \in Seq(Nat)
        /\ Len(t) = Len(handed) + 1
        /\ \A i \in 1..Len(handed) : t[i] = HandedEvents[i]
        /\ t[Len(handed) + 1] = e
    BY <1>3, AppendProperties
  <1>6. \A i \in 1..Len(s) : s[i] = t[i]
    <2> SUFFICES ASSUME NEW i \in 1..Len(handed) + 1 PROVE s[i] = t[i]
      BY <1>4
    <2>1. CASE i = Len(handed) + 1
      BY <1>2, <1>4, <1>5, <2>1
    <2>2. CASE i \in 1..Len(handed)
      BY <1>2, <1>3, <1>4, <1>5, <2>2
    <2> QED BY <1>3, <2>1, <2>2
  <1> QED BY <1>4, <1>5, <1>6, SeqEqual

\* The element-wise form of concatenation, for the two kinds of sequence used.
LEMMA ConcatHanded ==
    ASSUME NEW a \in Seq(Handed), NEW b \in Seq(Handed),
           NEW n, NEW m, n = Len(a), m = Len(b)
    PROVE  /\ a \o b \in Seq(Handed)
           /\ Len(a \o b) = n + m
           /\ \A i \in 1..n + m : (a \o b)[i] = IF i <= n THEN a[i] ELSE b[i - n]
  BY ConcatProperties

LEMMA ConcatNat ==
    ASSUME NEW a \in Seq(Nat), NEW b \in Seq(Nat),
           NEW n, NEW m, n = Len(a), m = Len(b)
    PROVE  /\ a \o b \in Seq(Nat)
           /\ Len(a \o b) = n + m
           /\ \A i \in 1..n + m : (a \o b)[i] = IF i <= n THEN a[i] ELSE b[i - n]
  BY ConcatProperties

\* What takeBacklog() returns, as entries of the history.
Taken(events) == [i \in DOMAIN events |-> [event |-> events[i], to |-> NoReceiver]]

LEMMA TakenFacts ==
    ASSUME NEW b \in Seq(Nat), NEW m, m = Len(b)
    PROVE  /\ Taken(b) \in Seq(Handed)
           /\ Len(Taken(b)) = m
           /\ \A i \in 1..m : Taken(b)[i].event = b[i]
  <1>1. m \in Nat /\ DOMAIN b = 1..m
    BY LenProperties
  <1>2. \A i \in 1..m : b[i] \in Nat
    BY ElementOfSeq
  <1>3. \A i \in 1..m : [event |-> b[i], to |-> NoReceiver] \in Handed
    BY <1>2 DEF Handed
  <1>4. Taken(b) \in [1..m -> Handed]
    BY <1>1, <1>3 DEF Taken
  <1>5. Taken(b) \in Seq(Handed)
    BY <1>1, <1>4, SeqDef
  <1>6. Len(Taken(b)) = m
    BY <1>1, <1>4, <1>5, LenProperties
  <1> QED BY <1>1, <1>5, <1>6 DEF Taken

\* Taking the backlog appends all of it.
LEMMA EventsOfConcat ==
    ASSUME NEW h \in Seq(Handed), NEW b \in Seq(Nat), NEW n, NEW m, n = Len(h), m = Len(b)
    PROVE  LET events(x) == [i \in DOMAIN x |-> x[i].event]
           IN  events(h \o Taken(b)) = events(h) \o b
  <1> DEFINE events(x) == [i \in DOMAIN x |-> x[i].event]
             k == Taken(b)
             s == events(h \o k)
             t == events(h) \o b
  <1>1. n \in Nat /\ m \in Nat
    BY LenProperties
  <1>2. k \in Seq(Handed) /\ m = Len(k) /\ \A i \in 1..m : k[i].event = b[i]
    BY TakenFacts
  <1>3. /\ events(h) \in Seq(Nat) /\ n = Len(events(h))
        /\ \A i \in 1..n : events(h)[i] = h[i].event
    BY HandedEventsFacts
  <1> HIDE DEF k
  <1>4. /\ h \o k \in Seq(Handed)
        /\ Len(h \o k) = n + m
        /\ \A i \in 1..n + m : (h \o k)[i] = IF i <= n THEN h[i] ELSE k[i - n]
    BY <1>2, ConcatHanded
  <1>5. /\ s \in Seq(Nat) /\ Len(s) = n + m
        /\ \A i \in 1..n + m : s[i] = (h \o k)[i].event
    BY <1>4, HandedEventsFacts
  <1> HIDE DEF s
  <1>6. /\ t \in Seq(Nat) /\ Len(t) = n + m
        /\ \A i \in 1..n + m : t[i] = IF i <= n THEN events(h)[i] ELSE b[i - n]
    <2> HIDE DEF events
    <2> QED BY <1>3, ConcatNat
  <1> HIDE DEF t
  <1>7. \A i \in 1..Len(s) : s[i] = t[i]
    <2> SUFFICES ASSUME NEW i \in 1..n + m PROVE s[i] = t[i]
      BY <1>5
    <2>1. CASE i <= n
      <3>1. i \in 1..n
        BY <1>1, <2>1
      <3> QED BY <1>3, <1>4, <1>5, <1>6, <2>1, <3>1
    <2>2. CASE ~(i <= n)
      <3>1. i - n \in 1..m
        BY <1>1, <2>2
      <3> QED BY <1>2, <1>4, <1>5, <1>6, <2>2, <3>1
    <2> QED BY <2>1, <2>2
  <1>8. s = t
    <2>1. Len(s) = Len(t)
      BY <1>5, <1>6
    <2> QED BY <1>5, <1>6, <1>7, <2>1, SeqEqual
  <1> QED BY <1>8 DEF s, t, k

LEMMA HandedTaken ==
    ASSUME TypeOK, TakeBacklog
    PROVE  HandedEvents' = HandedEvents \o backlog
  <1>1. handed \in Seq(Handed) /\ backlog \in Seq(Nat)
    BY DEF TypeOK
  <1>2. handed' = handed \o Taken(backlog)
    BY DEF TakeBacklog, Taken
  <1> QED BY <1>1, <1>2, EventsOfConcat DEF HandedEvents

-----------------------------------------------------------------------------
\* Every event in one place, and in order

Increasing(s) == \A i, j \in DOMAIN s : i < j => s[i] < s[j]

\* The order of what waits: a call is made while the loops of the calls around it are
\* under way, so what accumulates meanwhile is younger than what they still have to send.
RestOf(k, p) == ToSet(k[p].rest)
AllRest(k) == UNION {RestOf(k, p) : p \in DOMAIN k}
RestBelow(k, n) == UNION {RestOf(k, p) : p \in 1..n}

InOrder(k, l) ==
    /\ \A p \in DOMAIN k : Increasing(k[p].rest)
    /\ \A p \in DOMAIN k : k[p].call = "receive" => k[p].rest = <<>>
    /\ \A p, q \in DOMAIN k : p < q =>
          \A w \in RestOf(k, p), x \in RestOf(k, q) : w < x /\ x \in l

LoopsInOrder == InOrder(stack, late)

BacklogInOrder ==
    /\ Increasing(backlog)
    /\ \A w \in Looping, x \in ToSet(backlog) : w < x /\ x \in late
    /\ receiver # NoReceiver => backlog = <<>>

\* Every event is in exactly one place.
PlaceInv ==
    /\ IsInjective(HandedEvents)
    /\ Given \cap Waiting = {}
    /\ lost \cap (Given \cup Waiting) = {}
    /\ Given \cup Waiting \cup lost = 1..accepted

\* An event that was handed over before an older one that waits is late, too.
OvertakeInv ==
    /\ OvertakesOnlyDuringFlush
    /\ \A w \in Waiting, x \in Given : w < x => x \in late

PlacesInv == LoopsInOrder /\ BacklogInOrder /\ PlaceInv /\ OvertakeInv

\* The definitions in terms of the stack, in this state and in the next.
LEMMA InTermsOfStack ==
    /\ Looping = AllRest(stack) /\ Looping' = AllRest(stack')
    /\ Waiting' = AllRest(stack') \cup ToSet(backlog')
    /\ LoopsInOrder' = InOrder(stack', late')
    /\ Increasing(backlog)' = Increasing(backlog')
    /\ ToSet(backlog)' = ToSet(backlog')
    /\ \A p : InLoop(p) = RestOf(stack, p)
  <1>1. Looping = AllRest(stack) /\ \A p : InLoop(p) = RestOf(stack, p)
    BY DEF Looping, AllRest, InLoop, RestOf
  <1>2. Looping' = AllRest(stack')
    BY DEF Looping, AllRest, InLoop, RestOf, ToSet
  <1>3. LoopsInOrder' = InOrder(stack', late')
    BY Zenon DEF LoopsInOrder, InOrder, Increasing, RestOf, ToSet
  <1>4. Increasing(backlog)' = Increasing(backlog') /\ ToSet(backlog)' = ToSet(backlog')
    BY Zenon DEF Increasing, ToSet
  <1>5. Waiting' = AllRest(stack') \cup ToSet(backlog')
    BY <1>2, <1>4 DEF Waiting
  <1> QED BY <1>1, <1>2, <1>3, <1>4, <1>5

\* The frames of the calls under way and the events in their loops.
LEMMA FrameFacts ==
    ASSUME NEW k \in Seq(Frame), NEW p \in DOMAIN k
    PROVE  /\ p \in Nat
           /\ k[p] \in Frame
           /\ k[p].rest \in Seq(Nat)
           /\ RestOf(k, p) \subseteq Nat
           /\ RestOf(k, p) \subseteq AllRest(k)
  <1>1. p \in Nat /\ k[p] \in Frame
    BY ElementOfSeq, LenProperties
  <1>2. k[p].rest \in Seq(Nat)
    BY <1>1 DEF Frame
  <1>3. RestOf(k, p) \subseteq Nat
    BY <1>2, ElementsAreNat DEF RestOf
  <1> QED BY <1>1, <1>2, <1>3 DEF AllRest

LEMMA PlacesImplyOnce == TypeOK /\ PlacesInv => EachEventOnce
  <1> SUFFICES ASSUME TypeOK, PlacesInv PROVE EachEventOnce
    OBVIOUS
  <1>1. ASSUME NEW s \in Seq(Nat), Increasing(s)
        PROVE  IsInjective(s)
    <2> SUFFICES ASSUME NEW i \in 1..Len(s), NEW j \in 1..Len(s), s[i] = s[j]
                 PROVE  i = j
      BY LenProperties DEF IsInjective
    <2>1. /\ DOMAIN s = 1..Len(s) /\ Len(s) \in Nat /\ s[i] \in Nat /\ s[j] \in Nat
      BY LenProperties, ElementOfSeq
    <2> QED BY <1>1, <2>1 DEF Increasing
  <1>2. \A p \in DOMAIN stack :
          /\ p \in Nat /\ stack[p].rest \in Seq(Nat)
          /\ InLoop(p) \subseteq Nat /\ InLoop(p) = RestOf(stack, p)
    BY FrameFacts, InTermsOfStack DEF TypeOK
  <1>3. \A p, q \in DOMAIN stack : p # q => InLoop(p) \cap InLoop(q) = {}
    <2>1. ASSUME NEW p \in DOMAIN stack, NEW q \in DOMAIN stack, p < q
          PROVE  InLoop(p) \cap InLoop(q) = {}
      BY <1>2, <2>1 DEF PlacesInv, LoopsInOrder, InOrder
    <2> QED BY <1>2, <2>1
  <1>4. Looping \cap ToSet(backlog) = {}
    <2>1. ToSet(backlog) \subseteq Nat
      BY ElementsAreNat DEF TypeOK
    <2> QED BY <2>1 DEF PlacesInv, BacklogInOrder
  <1>5. IsInjective(backlog) /\ \A p \in DOMAIN stack : IsInjective(stack[p].rest)
    BY <1>1, <1>2 DEF PlacesInv, LoopsInOrder, InOrder, BacklogInOrder, TypeOK
  <1> QED BY <1>3, <1>4, <1>5 DEF EachEventOnce, PlacesInv, PlaceInv

\* The elements of a sequence, of its tail and of a longer one.
LEMMA Elements ==
    ASSUME NEW s \in Seq(Nat), s # <<>>, Increasing(s)
    PROVE  /\ Increasing(Tail(s))
           /\ ToSet(Tail(s)) = ToSet(s) \ {Head(s)}
           /\ Head(s) \in ToSet(s)
           /\ \A e \in ToSet(Tail(s)) : Head(s) < e
  <1>1. /\ Len(s) \in Nat \ {0} /\ DOMAIN s = 1..Len(s)
        /\ Tail(s) \in Seq(Nat) /\ Len(Tail(s)) = Len(s) - 1
        /\ \A i \in 1..Len(s) - 1 : Tail(s)[i] = s[i + 1]
        /\ Head(s) = s[1] /\ \A i \in 1..Len(s) : s[i] \in Nat
    BY LenProperties, HeadTailProperties, EmptySeq, ElementOfSeq
  <1>2. DOMAIN Tail(s) = 1..Len(s) - 1
    BY <1>1, LenProperties
  <1>3. \A i \in 1..Len(s) - 1 : i + 1 \in 1..Len(s) /\ 1 < i + 1
    BY <1>1
  <1>4. \A i \in 1..Len(s) : i = 1 \/ (i - 1 \in 1..Len(s) - 1 /\ (i - 1) + 1 = i)
    BY <1>1
  <1>5. 1 \in 1..Len(s)
    BY <1>1
  <1>6. \A e \in ToSet(Tail(s)) : e \in ToSet(s) /\ Head(s) < e
    BY <1>1, <1>2, <1>3, <1>5 DEF ToSet, Increasing
  <1>7. \A e \in ToSet(s) : e = Head(s) \/ e \in ToSet(Tail(s))
    <2> SUFFICES ASSUME NEW i \in 1..Len(s), i # 1 PROVE s[i] \in ToSet(Tail(s))
      BY <1>1 DEF ToSet
    <2>1. i - 1 \in DOMAIN Tail(s) /\ Tail(s)[i - 1] = s[i]
      BY <1>1, <1>2, <1>4
    <2> QED BY <2>1 DEF ToSet
  <1>8. Increasing(Tail(s))
    BY <1>1, <1>2, <1>3, SMTT(40) DEF Increasing
  <1>9. Head(s) \in ToSet(s) /\ ToSet(s) \subseteq Nat
    BY <1>1, <1>5, ElementsAreNat DEF ToSet
  <1> QED BY <1>6, <1>7, <1>8, <1>9

LEMMA AppendElements ==
    ASSUME NEW s \in Seq(Nat), Increasing(s), NEW e \in Nat, \A x \in ToSet(s) : x < e
    PROVE  /\ Increasing(Append(s, e))
           /\ ToSet(Append(s, e)) = ToSet(s) \cup {e}
  <1>1. /\ Len(s) \in Nat /\ DOMAIN s = 1..Len(s) /\ \A i \in 1..Len(s) : s[i] \in ToSet(s)
        /\ DOMAIN Append(s, e) = 1..Len(s) + 1
        /\ \A i \in 1..Len(s) : Append(s, e)[i] = s[i]
        /\ Append(s, e)[Len(s) + 1] = e
    BY LenProperties, AppendProperties DEF ToSet
  <1>2. \A i \in 1..Len(s) + 1 : i = Len(s) + 1 \/ i \in 1..Len(s)
    BY <1>1
  <1>3. Len(s) + 1 \in 1..Len(s) + 1 /\ \A i \in 1..Len(s) : i \in 1..Len(s) + 1
    BY <1>1
  <1>4. ToSet(Append(s, e)) = ToSet(s) \cup {e}
    BY <1>1, <1>2, <1>3 DEF ToSet
  <1>5. Increasing(Append(s, e))
    <2> SUFFICES ASSUME NEW i \in 1..Len(s) + 1, NEW j \in 1..Len(s) + 1, i < j
                 PROVE  Append(s, e)[i] < Append(s, e)[j]
      BY <1>1 DEF Increasing
    <2>1. i \in 1..Len(s)
      BY <1>1
    <2>2. CASE j = Len(s) + 1
      BY <1>1, <2>1, <2>2
    <2>3. CASE j \in 1..Len(s)
      BY <1>1, <2>1, <2>3 DEF Increasing
    <2> QED BY <1>2, <2>2, <2>3
  <1> QED BY <1>4, <1>5

LEMMA ConcatElements ==
    ASSUME NEW s \in Seq(Nat), NEW t \in Seq(Nat)
    PROVE  ToSet(s \o t) = ToSet(s) \cup ToSet(t)
  <1> DEFINE n == Len(s)
             m == Len(t)
  <1>1. /\ n \in Nat /\ m \in Nat /\ DOMAIN s = 1..n /\ DOMAIN t = 1..m
    BY LenProperties
  <1>2. /\ s \o t \in Seq(Nat) /\ Len(s \o t) = n + m
        /\ \A i \in 1..n + m : (s \o t)[i] = IF i <= n THEN s[i] ELSE t[i - n]
    BY ConcatNat
  <1>3. DOMAIN (s \o t) = 1..n + m
    BY <1>2, LenProperties
  <1> HIDE DEF n, m
  <1>4. \A i \in 1..n : i \in 1..n + m /\ (s \o t)[i] = s[i]
    BY <1>1, <1>2
  <1>5. \A i \in 1..m : n + i \in 1..n + m /\ (s \o t)[n + i] = t[i]
    <2> SUFFICES ASSUME NEW i \in 1..m PROVE n + i \in 1..n + m /\ (s \o t)[n + i] = t[i]
      OBVIOUS
    <2>1. n + i \in 1..n + m /\ ~(n + i <= n) /\ (n + i) - n = i
      BY <1>1
    <2> QED BY <1>2, <2>1
  <1>6. \A i \in 1..n + m : i \in 1..n \/ (i - n \in 1..m /\ (s \o t)[i] = t[i - n])
    BY <1>1, <1>2
  <1>7. ToSet(s) \subseteq ToSet(s \o t)
    BY <1>1, <1>3, <1>4 DEF ToSet
  <1>8. ToSet(t) \subseteq ToSet(s \o t)
    <2> SUFFICES ASSUME NEW i \in 1..m PROVE t[i] \in ToSet(s \o t)
      BY <1>1 DEF ToSet
    <2> QED BY <1>3, <1>5 DEF ToSet
  <1>9. ToSet(s \o t) \subseteq ToSet(s) \cup ToSet(t)
    <2> SUFFICES ASSUME NEW i \in 1..n + m PROVE (s \o t)[i] \in ToSet(s) \cup ToSet(t)
      BY <1>3 DEF ToSet
    <2> QED BY <1>1, <1>4, <1>6 DEF ToSet
  <1> QED BY <1>7, <1>8, <1>9

\* Events that are handed over after others: no repeats, and what is overtaken is late.
LEMMA HandedMore ==
    ASSUME NEW h \in Seq(Nat), IsInjective(h), NEW s \in Seq(Nat), Increasing(s),
           NEW g, g = h \o s, NEW later,
           \A i, j \in DOMAIN h : i < j /\ h[j] < h[i] => h[i] \in later,
           \A x \in ToSet(h), y \in ToSet(s) : x # y /\ (y < x => x \in later)
    PROVE  /\ IsInjective(g)
           /\ \A i, j \in DOMAIN g : i < j /\ g[j] < g[i] => g[i] \in later
  <1> DEFINE n == Len(h)
             m == Len(s)
  <1>1. /\ n \in Nat /\ m \in Nat /\ DOMAIN h = 1..n /\ DOMAIN s = 1..m
        /\ \A k \in 1..n : h[k] \in Nat /\ h[k] \in ToSet(h)
        /\ \A k \in 1..m : s[k] \in Nat /\ s[k] \in ToSet(s)
    BY LenProperties, ElementOfSeq DEF ToSet
  <1>2. /\ g \in Seq(Nat) /\ Len(g) = n + m
        /\ \A k \in 1..n + m : g[k] = IF k <= n THEN h[k] ELSE s[k - n]
    BY ConcatNat
  <1>3. DOMAIN g = 1..n + m
    BY <1>2, LenProperties
  <1> HIDE DEF n, m
  <1>4. ASSUME NEW i \in 1..n + m, NEW j \in 1..n + m, i < j
        PROVE  g[i] # g[j] /\ (g[j] < g[i] => g[i] \in later)
    <2>1. CASE i <= n /\ j <= n
      <3>1. i \in 1..n /\ j \in 1..n /\ i # j /\ g[i] = h[i] /\ g[j] = h[j]
        BY <1>1, <1>2, <1>4, <2>1
      <3>2. h[i] # h[j]
        BY <1>1, <3>1 DEF IsInjective
      <3> QED BY <1>1, <1>4, <3>1, <3>2
    <2>2. CASE i <= n /\ ~(j <= n)
      <3>1. i \in 1..n /\ j - n \in 1..m /\ g[i] = h[i] /\ g[j] = s[j - n]
        BY <1>1, <1>2, <1>4, <2>2
      <3> QED BY <1>1, <3>1
    <2>3. CASE ~(i <= n)
      <3>1. /\ i - n \in 1..m /\ j - n \in 1..m /\ i - n < j - n
            /\ ~(j <= n)
        BY <1>1, <1>4, <2>3
      <3>2. g[i] = s[i - n] /\ g[j] = s[j - n]
        BY <1>2, <2>3, <3>1
      <3>3. s[i - n] < s[j - n] /\ s[i - n] \in Nat /\ s[j - n] \in Nat
        BY <1>1, <3>1 DEF Increasing
      <3>4. g[i] # g[j] /\ ~(g[j] < g[i])
        BY <3>2, <3>3, SMTT(40)
      <3> QED BY <3>4, Zenon
    <2> QED BY <2>1, <2>2, <2>3
  <1>5. IsInjective(g)
    <2> SUFFICES ASSUME NEW i \in 1..n + m, NEW j \in 1..n + m, g[i] = g[j], i # j
                 PROVE  FALSE
      BY <1>3 DEF IsInjective
    <2>1. i < j \/ j < i
      BY <1>1
    <2> QED BY <1>4, <2>1
  <1> QED BY <1>3, <1>4, <1>5

\* A step that takes the events of s out of those that wait (n are new among them) and
\* hands them over, in order, and loses those in l.
LEMMA Moves ==
    ASSUME TypeOK, TypeOK', PlaceInv, OvertakeInv,
           NEW s \in Seq(Nat), Increasing(s), NEW l, NEW n,
           HandedEvents' = HandedEvents \o s,
           lost' = lost \cup l,
           \/ accepted' = accepted /\ n = {}
           \/ accepted' = accepted + 1 /\ n = {accepted'},
           Waiting' = (Waiting \cup n) \ (ToSet(s) \cup l),
           ToSet(s) \cup l \subseteq Waiting \cup n,
           ToSet(s) \cap l = {},
           late \subseteq late',
           \A w \in Waiting', x \in ToSet(s) : w < x => x \in late'
    PROVE  PlaceInv' /\ OvertakeInv'
  <1> DEFINE h == HandedEvents
  <1>1. /\ h \in Seq(Nat) /\ DOMAIN h = DOMAIN handed
        /\ \A i \in DOMAIN handed : h[i] = handed[i].event
    BY HandedEventsFacts DEF HandedEvents, TypeOK
  <1>2. /\ h' = h \o s /\ DOMAIN h' = DOMAIN handed'
        /\ \A i \in DOMAIN handed' : h'[i] = handed'[i].event
    BY DEF HandedEvents
  <1>3. Given' = Given \cup ToSet(s) /\ Given = ToSet(h)
    BY <1>1, <1>2, ConcatElements DEF Given
  <1>4. /\ accepted \in Nat /\ 1..accepted' = (1..accepted) \cup n
        /\ \A e \in 1..accepted, f \in n : e < f
    BY DEF TypeOK
  <1>5. Given \cup Waiting \cup lost \subseteq 1..accepted
    BY DEF PlaceInv
  <1>6. /\ Given' \cap Waiting' = {}
        /\ lost' \cap (Given' \cup Waiting') = {}
        /\ Given' \cup Waiting' \cup lost' = 1..accepted'
        /\ ToSet(s) \cap Given = {}
    <2>1. n \cap (Given \cup Waiting \cup lost) = {}
      BY <1>4, <1>5
    <2>2. /\ Given \cap Waiting = {} /\ lost \cap (Given \cup Waiting) = {}
          /\ Given \cup Waiting \cup lost = 1..accepted
      BY DEF PlaceInv
    <2> QED BY <1>3, <1>4, <2>1, <2>2
  <1>7. ASSUME NEW x \in Given, NEW y \in ToSet(s)
        PROVE  x # y /\ (y < x => x \in late')
    <2>1. x # y /\ x \in Nat /\ y \in Nat
      BY <1>4, <1>5, <1>6, <1>7, ElementsAreNat
    <2>2. CASE y \in Waiting
      BY <2>1, <2>2 DEF OvertakeInv
    <2>3. CASE y \in n
      <3>1. x < y
        BY <1>4, <1>5, <2>3
      <3> QED BY <2>1, <3>1
    <2> QED BY <2>2, <2>3
  <1>8. IsInjective(h') /\ \A i, j \in DOMAIN h' : i < j /\ h'[j] < h'[i] => h'[i] \in late'
    <2>1. IsInjective(h)
      BY DEF PlaceInv
    <2>2. \A i, j \in DOMAIN h : i < j /\ h[j] < h[i] => h[i] \in late'
      BY <1>1 DEF OvertakeInv, OvertakesOnlyDuringFlush
    <2> HIDE DEF h
    <2> QED BY <1>1, <1>2, <1>3, <1>7, <2>1, <2>2, HandedMore
  <1>9. IsInjective(HandedEvents)'
    BY <1>8 DEF IsInjective
  <1>10. OvertakesOnlyDuringFlush'
    BY <1>2, <1>8 DEF OvertakesOnlyDuringFlush
  <1>11. ASSUME NEW w \in Waiting', NEW x \in Given', w < x
         PROVE  x \in late'
    <2>1. CASE x \in ToSet(s)
      BY <1>11, <2>1
    <2>2. CASE x \in Given /\ w \in Waiting
      BY <1>11, <2>2 DEF OvertakeInv
    <2>3. CASE x \in Given /\ w \in n
      BY <1>4, <1>5, <1>11, <2>3
    <2> QED BY <1>3, <2>1, <2>2, <2>3
  <1> QED BY <1>6, <1>9, <1>10, <1>11 DEF PlaceInv, OvertakeInv

\* More late events do no harm.
LEMMA MoreLate ==
    ASSUME NEW k, NEW l, NEW l2, l \subseteq l2, InOrder(k, l)
    PROVE  InOrder(k, l2)
  BY DEF InOrder

\* A stack that is different in its last frame only, or has one more.
LEMMA LastFrame ==
    ASSUME NEW k \in Seq(Frame), NEW l, InOrder(k, l),
           NEW n \in Nat, n <= Len(k),
           NEW f \in Frame, Increasing(f.rest), f.call = "receive" => f.rest = <<>>,
           \A p \in 1..n : \A w \in RestOf(k, p), x \in ToSet(f.rest) : w < x /\ x \in l,
           NEW k2, DOMAIN k2 = 1..n + 1, \A p \in 1..n : k2[p] = k[p], k2[n + 1] = f
    PROVE  /\ InOrder(k2, l)
           /\ AllRest(k2) = RestBelow(k, n) \cup ToSet(f.rest)
  <1>1. \A p \in 1..n : p \in DOMAIN k
    BY LenProperties
  <1>2. \A p \in 1..n : RestOf(k2, p) = RestOf(k, p)
    BY DEF RestOf
  <1>3. RestOf(k2, n + 1) = ToSet(f.rest)
    BY DEF RestOf
  <1>4. \A p \in 1..n + 1 : p \in 1..n \/ p = n + 1
    OBVIOUS
  <1>5. n + 1 \in 1..n + 1 /\ \A p \in 1..n : p \in 1..n + 1
    OBVIOUS
  <1>6. AllRest(k2) = RestBelow(k, n) \cup ToSet(f.rest)
    <2>1. \A y : y \in AllRest(k2) <=> \E p \in 1..n + 1 : y \in RestOf(k2, p)
      BY DEF AllRest
    <2>2. \A y : y \in RestBelow(k, n) <=> \E p \in 1..n : y \in RestOf(k, p)
      BY DEF RestBelow
    <2> QED BY <1>2, <1>3, <1>4, <1>5, <2>1, <2>2
  <1>7. ASSUME NEW p \in 1..n + 1, NEW q \in 1..n + 1, p < q,
               NEW w \in RestOf(k2, p), NEW x \in RestOf(k2, q)
        PROVE  w < x /\ x \in l
    <2>1. p \in 1..n
      BY <1>7
    <2>2. CASE q \in 1..n
      BY <1>1, <1>2, <1>7, <2>1, <2>2 DEF InOrder
    <2>3. CASE q = n + 1
      BY <1>2, <1>3, <1>7, <2>1, <2>3
    <2> QED BY <1>4, <2>2, <2>3
  <1>8. \A p \in 1..n + 1 : /\ Increasing(k2[p].rest)
                          /\ k2[p].call = "receive" => k2[p].rest = <<>>
    BY <1>1, <1>4 DEF InOrder
  <1> QED BY <1>6, <1>7, <1>8 DEF InOrder

LEMMA PushInOrder ==
    ASSUME NEW k \in Seq(Frame), NEW l, InOrder(k, l),
           NEW f \in Frame, Increasing(f.rest), f.call = "receive" => f.rest = <<>>,
           \A w \in AllRest(k), x \in ToSet(f.rest) : w < x /\ x \in l
    PROVE  /\ InOrder(Append(k, f), l)
           /\ AllRest(Append(k, f)) = AllRest(k) \cup ToSet(f.rest)
  <1> DEFINE n == Len(k)
             k2 == Append(k, f)
  <1>1. n \in Nat /\ n <= Len(k) /\ DOMAIN k = 1..n
    BY LenProperties
  <1>2. DOMAIN k2 = 1..n + 1 /\ (\A p \in 1..n : k2[p] = k[p]) /\ k2[n + 1] = f
    BY AppendProperties, LenProperties
  <1>3. \A p \in 1..n : \A w \in RestOf(k, p), x \in ToSet(f.rest) : w < x /\ x \in l
    BY <1>1, FrameFacts
  <1>4. AllRest(k) = RestBelow(k, n)
    BY <1>1 DEF AllRest, RestBelow
  <1> HIDE DEF n, k2
  <1>5. /\ InOrder(k2, l)
        /\ AllRest(k2) = RestBelow(k, n) \cup ToSet(f.rest)
    BY <1>1, <1>2, <1>3, LastFrame
  <1> QED BY <1>4, <1>5 DEF k2

\* The last frame of the stack is the youngest: what it waits with is above the rest.
LEMMA TopOfStack ==
    ASSUME NEW k \in Seq(Frame), k # <<>>, NEW l, InOrder(k, l), NEW n, n = Len(k)
    PROVE  /\ n \in Nat \ {0} /\ n - 1 \in Nat /\ (n - 1) + 1 = n /\ DOMAIN k = 1..n
           /\ \A p \in 1..n - 1 : \A w \in RestOf(k, p), x \in RestOf(k, n) : w < x /\ x \in l
           /\ AllRest(k) = RestBelow(k, n - 1) \cup RestOf(k, n)
           /\ RestOf(k, n) \cap RestBelow(k, n - 1) = {}
  <1>1. n \in Nat \ {0} /\ DOMAIN k = 1..n
    BY LenProperties, EmptySeq
  <1>2. n - 1 \in Nat /\ (n - 1) + 1 = n /\ n \in 1..n /\ \A p \in 1..n - 1 : p \in 1..n /\ p < n
    BY <1>1
  <1>3. \A p \in 1..n : p \in 1..n - 1 \/ p = n
    BY <1>1
  <1>4. \A p \in 1..n - 1 : \A w \in RestOf(k, p), x \in RestOf(k, n) : w < x /\ x \in l
    BY <1>1, <1>2 DEF InOrder
  <1>5. AllRest(k) = RestBelow(k, n - 1) \cup RestOf(k, n)
    <2>1. \A y : y \in AllRest(k) <=> \E p \in 1..n : y \in RestOf(k, p)
      BY <1>1 DEF AllRest
    <2>2. \A y : y \in RestBelow(k, n - 1) <=> \E p \in 1..n - 1 : y \in RestOf(k, p)
      BY DEF RestBelow
    <2> QED BY <1>2, <1>3, <2>1, <2>2
  <1>6. RestOf(k, n) \cap RestBelow(k, n - 1) = {}
    <2>1. RestOf(k, n) \subseteq Nat
      BY <1>1, <1>2, FrameFacts
    <2> QED BY <1>4, <2>1 DEF RestBelow
  <1> QED BY <1>1, <1>2, <1>4, <1>5, <1>6

LEMMA PopInOrder ==
    ASSUME NEW k \in Seq(Frame), k # <<>>, NEW l, InOrder(k, l)
    PROVE  /\ InOrder(Front(k), l)
           /\ AllRest(Front(k)) = AllRest(k) \ ToSet(Last(k).rest)
           /\ ToSet(Last(k).rest) \subseteq AllRest(k)
  <1> DEFINE n == Len(k)
             k2 == Front(k)
  <1>1. /\ n \in Nat \ {0} /\ DOMAIN k = 1..n
        /\ AllRest(k) = RestBelow(k, n - 1) \cup RestOf(k, n)
        /\ RestOf(k, n) \cap RestBelow(k, n - 1) = {}
    BY TopOfStack
  <1>2. DOMAIN k2 = 1..n - 1 /\ \A p \in 1..n - 1 : k2[p] = k[p]
    <2>1. /\ 1 \in 1..n + 1 /\ n - 1 \in 0..n
      BY <1>1
    <2>2. /\ SubSeq(k, 1, n - 1) \in Seq(Frame)
          /\ Len(SubSeq(k, 1, n - 1)) = n - 1
          /\ \A p \in 1..n - 1 : SubSeq(k, 1, n - 1)[p] = k[p]
      <3>1. \A p \in 1..n - 1 : k[p] \in Frame
        BY <1>1
      <3> QED BY <1>1, <3>1, SubSeqProperties
    <2> QED BY <2>2, LenProperties DEF Front
  <1>3. ToSet(Last(k).rest) = RestOf(k, n)
    BY DEF Last, RestOf
  <1> HIDE DEF n, k2
  <1>4. \A p \in 1..n - 1 : p \in 1..n /\ RestOf(k2, p) = RestOf(k, p)
    BY <1>1, <1>2 DEF RestOf
  <1>5. AllRest(k2) = RestBelow(k, n - 1)
    BY <1>2, <1>4 DEF AllRest, RestBelow
  <1>6. InOrder(k2, l)
    BY <1>1, <1>2, <1>4 DEF InOrder
  <1> QED BY <1>1, <1>3, <1>5, <1>6 DEF k2

\* The last frame with fewer events to hand over.
LEMMA ReplaceInOrder ==
    ASSUME NEW k \in Seq(Frame), k # <<>>, NEW l, InOrder(k, l),
           NEW f \in Frame, Increasing(f.rest), f.call = "receive" => f.rest = <<>>,
           ToSet(f.rest) \subseteq RestOf(k, Len(k))
    PROVE  LET k2 == [k EXCEPT ![Len(k)] = f]
           IN  InOrder(k2, l) /\ AllRest(k2) = RestBelow(k, Len(k) - 1) \cup ToSet(f.rest)
  <1> DEFINE n == Len(k)
             k2 == [k EXCEPT ![n] = f]
  <1>1. /\ n \in Nat \ {0} /\ n - 1 \in Nat /\ (n - 1) + 1 = n /\ DOMAIN k = 1..n
        /\ \A p \in 1..n - 1 : \A w \in RestOf(k, p), y \in RestOf(k, n) : w < y /\ y \in l
    BY TopOfStack
  <1>2. DOMAIN k2 = 1..(n - 1) + 1 /\ (\A p \in 1..n - 1 : k2[p] = k[p]) /\ k2[(n - 1) + 1] = f
    <2> HIDE DEF n
    <2> QED BY <1>1
  <1> HIDE DEF k2
  <1>3. PICK m \in Nat : m = n - 1
    BY <1>1
  <1>4. /\ DOMAIN k2 = 1..m + 1 /\ (\A p \in 1..m : k2[p] = k[p]) /\ k2[m + 1] = f
        /\ \A p \in 1..m : \A w \in RestOf(k, p), y \in ToSet(f.rest) : w < y /\ y \in l
        /\ m <= Len(k)
    BY <1>1, <1>2, <1>3
  <1>5. InOrder(k2, l) /\ AllRest(k2) = RestBelow(k, m) \cup ToSet(f.rest)
    BY <1>4, LastFrame
  <1> QED BY <1>3, <1>5 DEF k2

\* The next turn of the loop of the last frame.
LEMMA TurnInOrder ==
    ASSUME NEW k \in Seq(Frame), k # <<>>, NEW l, InOrder(k, l), Last(k).rest # <<>>,
           NEW x, x = Head(Last(k).rest)
    PROVE  LET k2 == [k EXCEPT ![Len(k)].rest = Tail(@)]
           IN  /\ InOrder(k2, l)
               /\ AllRest(k2) = AllRest(k) \ {x}
               /\ x \in AllRest(k)
               /\ \A w \in AllRest(k2) : w < x => x \in l
  <1> DEFINE k2 == [k EXCEPT ![Len(k)].rest = Tail(@)]
             n == Len(k)
             s == Last(k).rest
             f == [Last(k) EXCEPT !.rest = Tail(@)]
             outer == RestBelow(k, n - 1)
  <1>1. /\ n \in Nat \ {0} /\ DOMAIN k = 1..n
        /\ \A p \in 1..n - 1 : \A w \in RestOf(k, p), y \in RestOf(k, n) : w < y /\ y \in l
        /\ AllRest(k) = outer \cup RestOf(k, n)
        /\ RestOf(k, n) \cap outer = {}
    BY TopOfStack
  <1>2. /\ Last(k) = k[n] /\ n \in 1..n /\ k[n] \in Frame /\ s \in Seq(Nat)
        /\ ToSet(s) = RestOf(k, n)
    BY <1>1, FrameFacts DEF Last, RestOf
  <1>3. Increasing(s) /\ (Last(k).call = "receive" => s = <<>>)
    BY <1>1, <1>2 DEF InOrder
  <1>4. /\ Increasing(Tail(s)) /\ ToSet(Tail(s)) = ToSet(s) \ {x} /\ x \in ToSet(s)
        /\ \A e \in ToSet(Tail(s)) : x < e
    BY <1>2, <1>3, Elements
  <1>5. Tail(s) \in Seq(Nat)
    BY <1>2, HeadTailProperties
  <1>6. f \in Frame /\ f.rest = Tail(s) /\ f.call = Last(k).call
    BY <1>2, <1>5 DEF Frame
  <1>7. k2 = [k EXCEPT ![n] = f]
    BY <1>2
  <1> HIDE DEF n, s, f, k2
  <1>8. Increasing(f.rest) /\ (f.call = "receive" => f.rest = <<>>)
    <2>1. f.call # "receive"
      BY <1>3, <1>6 DEF s
    <2> QED BY <1>4, <1>6, <2>1
  <1>9. InOrder(k2, l) /\ AllRest(k2) = outer \cup ToSet(f.rest)
    <2>1. ToSet(f.rest) \subseteq RestOf(k, n)
      BY <1>2, <1>4, <1>6
    <2> QED BY <1>6, <1>7, <1>8, <2>1, ReplaceInOrder DEF n
  <1>10. AllRest(k2) = AllRest(k) \ {x} /\ x \in AllRest(k)
    <2> HIDE DEF outer
    <2>1. AllRest(k) = outer \cup ToSet(s) /\ ToSet(s) \cap outer = {}
      BY <1>1, <1>2
    <2>2. AllRest(k2) = outer \cup (ToSet(s) \ {x}) /\ x \in ToSet(s)
      BY <1>4, <1>6, <1>9
    <2> QED BY <2>1, <2>2
  <1>11. ASSUME NEW w \in AllRest(k2), w < x PROVE x \in l
    <2>1. CASE w \in outer
      BY <1>1, <1>2, <1>4, <2>1 DEF RestBelow
    <2>2. CASE w \in ToSet(Tail(s))
      <3>1. x < w /\ x \in Nat /\ w \in Nat
        BY <1>2, <1>4, <2>2, ElementsAreNat
      <3> QED BY <1>11, <3>1
    <2> QED BY <1>6, <1>9, <2>1, <2>2
  <1> QED BY <1>9, <1>10, <1>11 DEF k2

\* A sequence of none and of one event.
LEMMA ShortSequences ==
    /\ <<>> \in Seq(Nat) /\ Increasing(<<>>) /\ ToSet(<<>>) = {}
    /\ \A e \in Nat : <<e>> \in Seq(Nat) /\ Increasing(<<e>>) /\ ToSet(<<e>>) = {e}
  <1>1. <<>> \in Seq(Nat) /\ Increasing(<<>>) /\ ToSet(<<>>) = {}
    BY DEF Increasing, ToSet
  <1>2. ASSUME NEW e \in Nat
        PROVE  <<e>> \in Seq(Nat) /\ Increasing(<<e>>) /\ ToSet(<<e>>) = {e}
    <2>1. <<e>> \in Seq(Nat) /\ DOMAIN <<e>> = {1} /\ <<e>>[1] = e
      OBVIOUS
    <2> QED BY <2>1 DEF Increasing, ToSet
  <1> QED BY <1>1, <1>2

\* Handing one event over.
LEMMA OneMore ==
    ASSUME TypeOK, NEW r \in Receiver \cup {NoReceiver}, NEW e \in Nat, HandTo(r, e)
    PROVE  HandedEvents' = HandedEvents \o <<e>>
  <1>1. handed \in Seq(Handed) /\ [event |-> e, to |-> r] \in Handed
    BY DEF TypeOK, Handed
  <1>2. HandedEvents' = Append(HandedEvents, e) /\ HandedEvents \in Seq(Nat)
    BY <1>1, HandedAppend, HandedEventsFacts DEF HandTo, HandedEvents
  <1> QED BY <1>2, AppendIsConcat

\* closeByDownstream() discards the whole backlog or, called again, nothing.
LEMMA Closing ==
    ASSUME TypeOK, BacklogInOrder
    PROVE  /\ BacklogOnceClosed \in Seq(Nat) /\ Increasing(BacklogOnceClosed)
           /\ ToSet(BacklogOnceClosed) = ToSet(backlog) \ Discarded
           /\ Discarded \subseteq ToSet(backlog)
           /\ ReceiverOnceClosed # NoReceiver => BacklogOnceClosed = <<>>
  <1>1. CASE closedByDownstream
    BY <1>1 DEF TypeOK, BacklogInOrder, BacklogOnceClosed, ReceiverOnceClosed, Discarded
  <1>2. CASE ~closedByDownstream
    BY <1>2, ShortSequences DEF BacklogOnceClosed, ReceiverOnceClosed, Discarded
  <1> QED BY <1>1, <1>2 DEF TypeOK

\* A step that changes nothing the invariant speaks of.
LEMMA PlacesKept ==
    ASSUME PlacesInv, UNCHANGED <<stack, state, history>>
    PROVE  PlacesInv'
  <1>1. UNCHANGED <<stack, backlog, receiver, accepted, handed, lost, late>>
    BY DEF state, history
  <1>2. Looping' = Looping /\ ToSet(backlog)' = ToSet(backlog)
    BY <1>1, InTermsOfStack
  <1>3. LoopsInOrder'
    BY <1>1, InTermsOfStack DEF PlacesInv, LoopsInOrder
  <1>4. BacklogInOrder'
    BY <1>1, <1>2, InTermsOfStack DEF PlacesInv, BacklogInOrder
  <1>5. HandedEvents' = HandedEvents
    BY <1>1 DEF HandedEvents
  <1>6. Given' = Given /\ Waiting' = Waiting
    BY <1>2, <1>5 DEF Given, Waiting, ToSet
  <1>7. PlaceInv'
    BY <1>1, <1>5, <1>6, Zenon DEF PlacesInv, PlaceInv, IsInjective
  <1>8. OvertakeInv'
    BY <1>1, <1>6, Zenon DEF PlacesInv, OvertakeInv, OvertakesOnlyDuringFlush
  <1> QED BY <1>3, <1>4, <1>7, <1>8 DEF PlacesInv

\* The event that receive() accepts is above all that wait, and late if a loop is under way.
LEMMA Accepting ==
    ASSUME TypeOK, PlacesInv, NEW isClose, Accept(isClose)
    PROVE  /\ accepted' \in Nat /\ accepted' = accepted + 1
           /\ late \subseteq late'
           /\ \A w \in Waiting : w < accepted' /\ w \in Nat
           /\ Looping # {} => accepted' \in late'
           /\ UNCHANGED receiver
  <1>1. accepted \in Nat /\ accepted' = accepted + 1 /\ UNCHANGED receiver
    BY DEF Accept, TypeOK
  <1>2. \A w \in Waiting : w < accepted' /\ w \in Nat
    <2>1. Waiting \subseteq 1..accepted
      BY DEF PlacesInv, PlaceInv
    <2> QED BY <1>1, <2>1
  <1>3. Looping # {} => FlushUnderWay
    <2> SUFFICES ASSUME NEW p \in DOMAIN stack, NEW w \in InLoop(p) PROVE FlushUnderWay
      BY DEF Looping
    <2> QED BY ShortSequences DEF FlushUnderWay, InLoop
  <1>4. late \subseteq late' /\ (FlushUnderWay => accepted' \in late')
    BY DEF Accept
  <1> QED BY <1>1, <1>2, <1>3, <1>4

\* receive() keeps every event in one place.
LEMMA DeliverStep ==
    ASSUME TypeOK, TypeOK', PlacesInv, NEW isClose, ReceiveDeliver(isClose)
    PROVE  PlacesInv'
  <1> DEFINE e == accepted'
             f == [call |-> "receive", rest |-> <<>>]
  <1>1. /\ e \in Nat /\ e = accepted + 1 /\ late \subseteq late'
        /\ \A w \in Waiting : w < e /\ w \in Nat
        /\ Looping # {} => e \in late'
        /\ UNCHANGED receiver
    BY Accepting DEF ReceiveDeliver
  <1>2. /\ backlog = <<>> /\ UNCHANGED <<backlog, lost>> /\ stack' = Append(stack, f)
        /\ HandTo(receiver, e)
    BY DEF ReceiveDeliver, Push, PlacesInv, BacklogInOrder
  <1>3. HandedEvents' = HandedEvents \o <<e>>
    BY <1>1, <1>2, OneMore DEF TypeOK
  <1>4. InOrder(stack', late') /\ AllRest(stack') = AllRest(stack)
    <2>1. f \in Frame /\ Increasing(f.rest) /\ f.rest = <<>>
      BY ShortSequences DEF Frame
    <2>2. InOrder(stack, late')
      BY <1>1, MoreLate DEF PlacesInv, LoopsInOrder
    <2> HIDE DEF f
    <2> QED BY <1>2, <2>1, <2>2, PushInOrder, ShortSequences DEF TypeOK
  <1>5. LoopsInOrder' /\ Looping' = Looping /\ Waiting' = Waiting /\ Waiting = Looping
    BY <1>2, <1>4, InTermsOfStack, ShortSequences DEF Waiting
  <1>6. BacklogInOrder'
    BY <1>2, <1>5, InTermsOfStack, ShortSequences DEF BacklogInOrder
  <1> HIDE DEF e
  <1>7. /\ <<e>> \in Seq(Nat) /\ Increasing(<<e>>) /\ ToSet(<<e>>) = {e}
        /\ e \notin Waiting
    BY <1>1, ShortSequences
  <1>8. /\ lost' = lost \cup {} /\ e = accepted'
        /\ Waiting' = (Waiting \cup {e}) \ ({e} \cup {})
        /\ {e} \cup {} \subseteq Waiting \cup {e} /\ {e} \cap {} = {}
        /\ \A w \in Waiting', x \in {e} : w < x => x \in late'
    BY <1>1, <1>2, <1>5, <1>7 DEF e
  <1>9. PlaceInv' /\ OvertakeInv'
    BY <1>1, <1>3, <1>7, <1>8, Moves DEF PlacesInv
  <1> QED BY <1>5, <1>6, <1>9 DEF PlacesInv

LEMMA ToBacklogStep ==
    ASSUME TypeOK, TypeOK', PlacesInv, NEW isClose, ReceiveToBacklog(isClose)
    PROVE  PlacesInv'
  <1> DEFINE e == accepted'
  <1>1. /\ e \in Nat /\ e = accepted + 1 /\ late \subseteq late'
        /\ \A w \in Waiting : w < e /\ w \in Nat
        /\ Looping # {} => e \in late'
        /\ UNCHANGED receiver
    BY Accepting DEF ReceiveToBacklog
  <1>2. /\ receiver = NoReceiver /\ backlog' = Append(backlog, e)
        /\ UNCHANGED <<stack, handed, lost>>
    BY DEF ReceiveToBacklog
  <1>3. HandedEvents' = HandedEvents \o <<>>
    <2>1. HandedEvents' = HandedEvents
      BY <1>2 DEF HandedEvents
    <2>2. HandedEvents \in Seq(Nat)
      BY HandedEventsFacts DEF TypeOK, HandedEvents
    <2> QED BY <2>1, <2>2
  <1>4. LoopsInOrder' /\ Looping' = Looping
    BY <1>1, <1>2, MoreLate, InTermsOfStack DEF PlacesInv, LoopsInOrder
  <1> HIDE DEF e
  <1>5. Increasing(backlog') /\ ToSet(backlog') = ToSet(backlog) \cup {e}
    <2>1. \A x \in ToSet(backlog) : x < e
      BY <1>1 DEF Waiting
    <2> QED BY <1>1, <1>2, <2>1, AppendElements DEF TypeOK, PlacesInv, BacklogInOrder
  <1>6. BacklogInOrder'
    <2>1. \A w \in Looping, x \in ToSet(backlog) : w < x /\ x \in late'
      BY <1>1 DEF PlacesInv, BacklogInOrder
    <2>2. \A w \in Looping : w < e /\ e \in late'
      BY <1>1 DEF Waiting
    <2> QED BY <1>1, <1>2, <1>4, <1>5, <2>1, <2>2, InTermsOfStack DEF BacklogInOrder
  <1>7. Waiting' = Waiting \cup {e}
    BY <1>4, <1>5, InTermsOfStack DEF Waiting
  <1>8. /\ lost' = lost \cup {} /\ e = accepted'
        /\ Waiting' = (Waiting \cup {e}) \ (ToSet(<<>>) \cup {})
        /\ ToSet(<<>>) \cup {} \subseteq Waiting \cup {e} /\ ToSet(<<>>) \cap {} = {}
        /\ \A w \in Waiting', x \in ToSet(<<>>) : w < x => x \in late'
    BY <1>2, <1>7, ShortSequences DEF e
  <1>9. PlaceInv' /\ OvertakeInv'
    BY <1>1, <1>3, <1>8, ShortSequences, Moves DEF PlacesInv
  <1> QED BY <1>4, <1>6, <1>9 DEF PlacesInv

LEMMA DroppedStep ==
    ASSUME TypeOK, TypeOK', PlacesInv, NEW isClose, ReceiveDropped(isClose)
    PROVE  PlacesInv'
  <1> DEFINE e == accepted'
  <1>1. /\ e \in Nat /\ e = accepted + 1 /\ late \subseteq late'
        /\ \A w \in Waiting : w < e /\ w \in Nat
        /\ UNCHANGED receiver
    BY Accepting DEF ReceiveDropped
  <1>2. lost' = lost \cup {e} /\ UNCHANGED <<stack, handed, backlog>>
    BY DEF ReceiveDropped
  <1>3. HandedEvents' = HandedEvents \o <<>>
    <2>1. HandedEvents' = HandedEvents
      BY <1>2 DEF HandedEvents
    <2>2. HandedEvents \in Seq(Nat)
      BY HandedEventsFacts DEF TypeOK, HandedEvents
    <2> QED BY <2>1, <2>2
  <1>4. LoopsInOrder' /\ Looping' = Looping
    BY <1>1, <1>2, MoreLate, InTermsOfStack DEF PlacesInv, LoopsInOrder
  <1>5. BacklogInOrder' /\ Waiting' = Waiting
    <2>1. \A w \in Looping, x \in ToSet(backlog) : w < x /\ x \in late'
      BY <1>1 DEF PlacesInv, BacklogInOrder
    <2> QED BY <1>1, <1>2, <1>4, <2>1, InTermsOfStack DEF PlacesInv, BacklogInOrder, Waiting
  <1> HIDE DEF e
  <1>6. /\ e \notin Waiting /\ e = accepted'
        /\ Waiting' = (Waiting \cup {e}) \ (ToSet(<<>>) \cup {e})
        /\ ToSet(<<>>) \cup {e} \subseteq Waiting \cup {e} /\ ToSet(<<>>) \cap {e} = {}
        /\ \A w \in Waiting', x \in ToSet(<<>>) : w < x => x \in late'
    <2>1. e \notin Waiting
      BY <1>1
    <2> QED BY <1>5, <2>1, ShortSequences DEF e
  <1>7. PlaceInv' /\ OvertakeInv'
    BY <1>1, <1>2, <1>3, <1>6, ShortSequences, Moves DEF PlacesInv
  <1> QED BY <1>4, <1>5, <1>7 DEF PlacesInv

\* A step that hands nothing over and keeps the calls under way.
LEMMA SameHanded ==
    ASSUME TypeOK, UNCHANGED handed
    PROVE  HandedEvents' = HandedEvents \o <<>>
  <1>1. HandedEvents' = HandedEvents
    BY DEF HandedEvents
  <1>2. HandedEvents \in Seq(Nat)
    BY HandedEventsFacts DEF TypeOK, HandedEvents
  <1> QED BY <1>1, <1>2

\* What waits is made of numbers, and the loops and the backlog are apart.
LEMMA Apart ==
    ASSUME TypeOK, PlacesInv
    PROVE  /\ ToSet(backlog) \subseteq Nat
           /\ Looping \cap ToSet(backlog) = {}
  <1>1. ToSet(backlog) \subseteq Nat
    BY ElementsAreNat DEF TypeOK
  <1> QED BY <1>1 DEF PlacesInv, BacklogInOrder

\* The loop in sendTo() takes the backlog over and hands out its first event.
LEMMA SendToStep ==
    ASSUME TypeOK, TypeOK', PlacesInv, NEW r \in Receiver, SendTo(r)
    PROVE  PlacesInv'
  <1>1. backlog' = <<>> /\ UNCHANGED <<lost, late, accepted>>
    BY DEF SendTo
  <1>2. LoopsInOrder /\ Increasing(backlog)
        /\ \A w \in Looping, x \in ToSet(backlog) : w < x /\ x \in late
    BY DEF PlacesInv, BacklogInOrder
  <1>3. BacklogInOrder'
    BY <1>1, ShortSequences, InTermsOfStack DEF BacklogInOrder
  <1>4. CASE backlog = <<>>
    <2>1. UNCHANGED <<stack, handed>>
      BY <1>4 DEF SendTo
    <2>2. LoopsInOrder' /\ Waiting' = Waiting
      BY <1>1, <1>2, <1>4, <2>1, InTermsOfStack DEF LoopsInOrder, Waiting
    <2>3. /\ lost' = lost \cup {} /\ accepted' = accepted /\ late \subseteq late'
          /\ Waiting' = (Waiting \cup {}) \ (ToSet(<<>>) \cup {})
          /\ ToSet(<<>>) \cup {} \subseteq Waiting \cup {} /\ ToSet(<<>>) \cap {} = {}
          /\ \A w \in Waiting', x \in ToSet(<<>>) : w < x => x \in late'
      BY <1>1, <2>2, ShortSequences
    <2>4. PlaceInv' /\ OvertakeInv'
      BY <2>1, <2>3, ShortSequences, SameHanded, Moves DEF PlacesInv
    <2> QED BY <1>3, <2>2, <2>4 DEF PlacesInv
  <1>5. CASE backlog # <<>>
    <2> DEFINE e == Head(backlog)
               f == [call |-> "sendTo", rest |-> Tail(backlog)]
    <2>1. /\ e \in Nat /\ Tail(backlog) \in Seq(Nat) /\ Increasing(Tail(backlog))
          /\ ToSet(Tail(backlog)) = ToSet(backlog) \ {e} /\ e \in ToSet(backlog)
          /\ \A x \in ToSet(Tail(backlog)) : e < x
      BY <1>2, <1>5, Elements, HeadTailProperties DEF TypeOK
    <2>2. stack' = Append(stack, f) /\ HandTo(r, e)
      BY <1>5 DEF SendTo, Push
    <2>3. HandedEvents' = HandedEvents \o <<e>>
      BY <2>1, <2>2, OneMore
    <2>4. /\ f \in Frame /\ Increasing(f.rest) /\ (f.call = "receive" => f.rest = <<>>)
          /\ ToSet(f.rest) = ToSet(backlog) \ {e}
      BY <2>1 DEF Frame
    <2> HIDE DEF e, f
    <2>5. InOrder(stack', late') /\ AllRest(stack') = AllRest(stack) \cup (ToSet(backlog) \ {e})
      <3>1. \A w \in AllRest(stack), x \in ToSet(f.rest) : w < x /\ x \in late
        BY <1>2, <2>4, InTermsOfStack
      <3> QED BY <1>1, <1>2, <2>2, <2>4, <3>1, PushInOrder DEF TypeOK, LoopsInOrder
    <2>6. LoopsInOrder' /\ Waiting' = Waiting \ {e} /\ e \in Waiting
      <3>1. Looping' = Looping \cup (ToSet(backlog) \ {e}) /\ Waiting' = Looping'
        BY <1>1, <2>5, InTermsOfStack, ShortSequences
      <3>2. e \notin Looping
        BY <2>1, Apart
      <3> QED BY <2>1, <2>5, <3>1, <3>2, InTermsOfStack DEF Waiting
    <2>7. ASSUME NEW w \in Waiting', w < e PROVE e \in late'
      <3>1. w \in Looping \/ w \in ToSet(Tail(backlog))
        BY <2>1, <2>6 DEF Waiting
      <3>2. CASE w \in Looping
        BY <1>1, <1>2, <2>1, <3>2
      <3>3. CASE w \in ToSet(Tail(backlog))
        <4>1. e < w /\ w \in Nat
          BY <2>1, <3>3, Apart
        <4> QED BY <2>1, <2>7, <4>1
      <3> QED BY <3>1, <3>2, <3>3
    <2>8. /\ lost' = lost \cup {} /\ accepted' = accepted /\ late \subseteq late'
          /\ Waiting' = (Waiting \cup {}) \ ({e} \cup {})
          /\ {e} \cup {} \subseteq Waiting \cup {} /\ {e} \cap {} = {}
          /\ \A w \in Waiting', x \in {e} : w < x => x \in late'
      BY <1>1, <2>6, <2>7
    <2>9. <<e>> \in Seq(Nat) /\ Increasing(<<e>>) /\ ToSet(<<e>>) = {e}
      BY <2>1, ShortSequences
    <2>10. PlaceInv' /\ OvertakeInv'
      BY <2>3, <2>8, <2>9, Moves DEF PlacesInv
    <2> QED BY <1>3, <2>6, <2>10 DEF PlacesInv
  <1> QED BY <1>4, <1>5

LEMMA TakeStep ==
    ASSUME TypeOK, TypeOK', PlacesInv, TakeBacklog
    PROVE  PlacesInv'
  <1>1. backlog' = <<>> /\ UNCHANGED <<stack, lost, late, accepted>>
    BY DEF TakeBacklog
  <1>2. LoopsInOrder /\ Increasing(backlog) /\ backlog \in Seq(Nat)
        /\ \A w \in Looping, x \in ToSet(backlog) : w < x /\ x \in late
    BY DEF PlacesInv, BacklogInOrder, TypeOK
  <1>3. BacklogInOrder' /\ LoopsInOrder'
    BY <1>1, <1>2, ShortSequences, InTermsOfStack DEF BacklogInOrder, LoopsInOrder
  <1>4. Waiting' = Looping /\ Waiting' = Waiting \ ToSet(backlog)
    <2>1. Waiting' = Looping
      BY <1>1, InTermsOfStack, ShortSequences
    <2> QED BY <2>1, Apart DEF Waiting
  <1>5. /\ lost' = lost \cup {} /\ accepted' = accepted /\ late \subseteq late'
        /\ Waiting' = (Waiting \cup {}) \ (ToSet(backlog) \cup {})
        /\ ToSet(backlog) \cup {} \subseteq Waiting \cup {} /\ ToSet(backlog) \cap {} = {}
        /\ \A w \in Waiting', x \in ToSet(backlog) : w < x => x \in late'
    BY <1>1, <1>2, <1>4 DEF Waiting
  <1>6. PlaceInv' /\ OvertakeInv'
    BY <1>2, <1>5, HandedTaken, Moves DEF PlacesInv
  <1> QED BY <1>3, <1>6 DEF PlacesInv

LEMMA CloseStep ==
    ASSUME TypeOK, TypeOK', PlacesInv, CloseByDownstream
    PROVE  PlacesInv'
  <1>1. /\ backlog' = BacklogOnceClosed /\ receiver' = ReceiverOnceClosed
        /\ lost' = lost \cup Discarded /\ UNCHANGED <<stack, handed, late, accepted>>
    BY DEF CloseByDownstream
  <1>2. /\ Increasing(backlog') /\ ToSet(backlog') = ToSet(backlog) \ Discarded
        /\ Discarded \subseteq ToSet(backlog)
        /\ receiver' # NoReceiver => backlog' = <<>>
    BY <1>1, Closing DEF PlacesInv
  <1>3. LoopsInOrder' /\ BacklogInOrder'
    BY <1>1, <1>2, InTermsOfStack DEF PlacesInv, BacklogInOrder, LoopsInOrder
  <1>4. Waiting' = Waiting \ Discarded /\ Discarded \subseteq Waiting
    BY <1>1, <1>2, Apart, InTermsOfStack DEF Waiting
  <1>5. /\ accepted' = accepted /\ late \subseteq late'
        /\ Waiting' = (Waiting \cup {}) \ (ToSet(<<>>) \cup Discarded)
        /\ ToSet(<<>>) \cup Discarded \subseteq Waiting \cup {}
        /\ ToSet(<<>>) \cap Discarded = {}
        /\ \A w \in Waiting', x \in ToSet(<<>>) : w < x => x \in late'
    BY <1>1, <1>4, ShortSequences
  <1>6. PlaceInv' /\ OvertakeInv'
    BY <1>1, <1>5, ShortSequences, SameHanded, Moves DEF PlacesInv
  <1> QED BY <1>3, <1>6 DEF PlacesInv

\* What a step does to the backlog and to the receiver that callbacks return to:
\* nothing, or closeByDownstream() discards `gone'.
BacklogStep(gone) ==
    /\ Increasing(backlog')
    /\ ToSet(backlog') = ToSet(backlog) \ gone
    /\ gone \subseteq ToSet(backlog)
    /\ receiver' # NoReceiver => backlog' = <<>>
    /\ UNCHANGED <<late, accepted>>

\* A call returns or breaks off: what its loop had left is lost.
LEMMA PopStep ==
    ASSUME TypeOK, TypeOK', PlacesInv, stack # <<>>, Pop, NEW gone, BacklogStep(gone),
           lost' = lost \cup (gone \cup ToSet(Top.rest)), UNCHANGED handed
    PROVE  PlacesInv'
  <1> DEFINE rest == ToSet(Top.rest)
  <1>1. /\ InOrder(Front(stack), late)
        /\ AllRest(Front(stack)) = AllRest(stack) \ rest
        /\ rest \subseteq AllRest(stack)
    BY PopInOrder DEF PlacesInv, LoopsInOrder, TypeOK, Top
  <1> HIDE DEF rest
  <1>2. /\ LoopsInOrder' /\ Looping' = Looping \ rest /\ rest \subseteq Looping
        /\ Waiting' = Looping' \cup (ToSet(backlog) \ gone)
    BY <1>1, InTermsOfStack DEF Pop, BacklogStep
  <1>3. BacklogInOrder'
    <2>1. \A w \in Looping, x \in ToSet(backlog) : w < x /\ x \in late
      BY DEF PlacesInv, BacklogInOrder
    <2> QED BY <1>2, <2>1, InTermsOfStack DEF BacklogInOrder, BacklogStep
  <1>4. Waiting' = Waiting \ (gone \cup rest) /\ gone \cup rest \subseteq Waiting
    <2>1. gone \subseteq ToSet(backlog) /\ Looping \cap ToSet(backlog) = {}
      BY Apart DEF BacklogStep
    <2> QED BY <1>2, <2>1 DEF Waiting
  <1>5. /\ accepted' = accepted /\ late \subseteq late' /\ lost' = lost \cup (gone \cup rest)
        /\ Waiting' = (Waiting \cup {}) \ (ToSet(<<>>) \cup (gone \cup rest))
        /\ ToSet(<<>>) \cup (gone \cup rest) \subseteq Waiting \cup {}
        /\ ToSet(<<>>) \cap (gone \cup rest) = {}
        /\ \A w \in Waiting', x \in ToSet(<<>>) : w < x => x \in late'
    BY <1>4, ShortSequences DEF BacklogStep, rest
  <1>6. PlaceInv' /\ OvertakeInv'
    BY <1>5, ShortSequences, SameHanded, Moves DEF PlacesInv
  <1> QED BY <1>2, <1>3, <1>6 DEF PlacesInv

\* The loop goes on: the event it hands over is older than all that waits, but for
\* what the loops around it have left, and then it is late.
LEMMA TurnStep ==
    ASSUME TypeOK, TypeOK', PlacesInv, stack # <<>>, NEW r, NEW gone, FlushNext(r, gone),
           BacklogStep(gone), r \in Receiver \cup {NoReceiver}
    PROVE  PlacesInv'
  <1> DEFINE x == Head(Top.rest)
             k2 == [stack EXCEPT ![Len(stack)].rest = Tail(@)]
  <1>1. /\ stack' = k2 /\ HandTo(r, x) /\ lost' = lost \cup gone /\ Top.rest # <<>>
    BY DEF FlushNext
  <1>2. /\ InOrder(k2, late)
        /\ AllRest(k2) = AllRest(stack) \ {x}
        /\ x \in AllRest(stack)
        /\ \A w \in AllRest(k2) : w < x => x \in late
    BY <1>1, TurnInOrder DEF PlacesInv, LoopsInOrder, TypeOK, Top
  <1>3. x \in Nat
    BY <1>1, StackFacts, HeadTailProperties DEF TypeOK
  <1> HIDE DEF x, k2
  <1>4. /\ LoopsInOrder' /\ Looping' = Looping \ {x} /\ x \in Looping
        /\ Waiting' = Looping' \cup (ToSet(backlog) \ gone)
        /\ \A w \in Looping' : w < x => x \in late
    BY <1>1, <1>2, InTermsOfStack DEF BacklogStep
  <1>5. \A w \in Looping, y \in ToSet(backlog) : w < y /\ y \in late
    BY DEF PlacesInv, BacklogInOrder
  <1>6. BacklogInOrder'
    BY <1>4, <1>5, InTermsOfStack DEF BacklogInOrder, BacklogStep
  <1>7. ToSet(backlog) \subseteq Nat /\ Looping \cap ToSet(backlog) = {} /\ gone \subseteq ToSet(backlog)
    BY Apart DEF BacklogStep
  <1>8. Waiting' = Waiting \ ({x} \cup gone) /\ {x} \cup gone \subseteq Waiting /\ x \notin gone
    BY <1>4, <1>7 DEF Waiting
  <1>9. ASSUME NEW w \in Waiting', w < x PROVE x \in late
    <2>1. CASE w \in Looping'
      BY <1>4, <1>9, <2>1
    <2>2. CASE w \in ToSet(backlog)
      <3>1. x < w /\ w \in Nat
        BY <1>4, <1>5, <1>7, <2>2
      <3> QED BY <1>3, <1>9, <3>1
    <2> QED BY <1>4, <2>1, <2>2
  <1>10. /\ <<x>> \in Seq(Nat) /\ Increasing(<<x>>) /\ ToSet(<<x>>) = {x}
         /\ HandedEvents' = HandedEvents \o <<x>>
    BY <1>1, <1>3, OneMore, ShortSequences
  <1>11. /\ accepted' = accepted /\ late \subseteq late' /\ lost' = lost \cup gone
         /\ Waiting' = (Waiting \cup {}) \ ({x} \cup gone)
         /\ {x} \cup gone \subseteq Waiting \cup {} /\ {x} \cap gone = {}
         /\ \A w \in Waiting', y \in {x} : w < y => y \in late'
    BY <1>1, <1>8, <1>9 DEF BacklogStep
  <1>12. PlaceInv' /\ OvertakeInv'
    BY <1>10, <1>11, Moves DEF PlacesInv
  <1> QED BY <1>4, <1>6, <1>12 DEF PlacesInv

\* The four ways in which a waiting call goes on.
LEMMA ContinueStep ==
    ASSUME TypeOK, TypeOK', PlacesInv, stack # <<>>, NEW gone, BacklogStep(gone),
           NEW r \in Receiver \cup {NoReceiver}, Continue(r, gone)
    PROVE  PlacesInv'
  <1>1. Top.call = "receive" => Top.rest = <<>>
    <2>1. Len(stack) \in DOMAIN stack
      BY LenProperties, EmptySeq DEF TypeOK
    <2> QED BY <2>1 DEF PlacesInv, LoopsInOrder, InOrder, Top, Last
  <1>2. CASE FinishReceive(r, gone)
    <2>1. ToSet(Top.rest) = {}
      BY <1>1, <1>2, ShortSequences DEF FinishReceive
    <2> QED BY <1>2, <2>1, PopStep DEF FinishReceive
  <1>3. CASE FinishSendTo(r, gone)
    <2>1. ToSet(Top.rest) = {}
      BY <1>3, ShortSequences DEF FinishSendTo
    <2> QED BY <1>3, <2>1, PopStep DEF FinishSendTo
  <1>4. CASE FlushNext(r, gone)
    BY <1>4, TurnStep
  <1>5. CASE FlushBreaks(r, gone)
    <2>1. lost' = lost \cup (gone \cup ToSet(Top.rest))
      BY <1>5 DEF FlushBreaks
    <2> QED BY <1>5, <2>1, PopStep DEF FlushBreaks
  <1> QED BY <1>2, <1>3, <1>4, <1>5 DEF Continue

LEMMA CallbackStep ==
    ASSUME TypeOK, TypeOK', PlacesInv, CallbackEnds
    PROVE  PlacesInv'
  <1>1. Increasing(backlog) /\ (receiver # NoReceiver => backlog = <<>>)
    BY DEF PlacesInv, BacklogInOrder
  <1>2. CASE CallbackReturns
    <2>1. receiver' \in {receiver, NoReceiver}
      BY <1>2 DEF CallbackReturns, Continue, FinishReceive, FinishSendTo, FlushNext, FlushBreaks
    <2>2. BacklogStep({})
      BY <1>1, <1>2, <2>1 DEF CallbackReturns, BacklogStep
    <2> QED BY <1>2, <2>2, ContinueStep DEF CallbackReturns, TypeOK
  <1>3. CASE CallbackStops
    <2>1. receiver' \in {ReceiverOnceClosed, NoReceiver}
      BY <1>3 DEF CallbackStops, Continue, FinishReceive, FinishSendTo, FlushNext, FlushBreaks
    <2>2. BacklogStep(Discarded)
      BY <1>3, <2>1, Closing DEF CallbackStops, BacklogStep, PlacesInv
    <2>3. ReceiverOnceClosed \in Receiver \cup {NoReceiver}
      BY DEF ReceiverOnceClosed, TypeOK
    <2> QED BY <1>3, <2>2, <2>3, ContinueStep DEF CallbackStops
  <1>4. CASE CallbackThrows
    <2>1. BacklogStep({})
      BY <1>1, <1>4 DEF CallbackThrows, BacklogStep, state
    <2> QED BY <1>4, <2>1, PopStep DEF CallbackThrows
  <1> QED BY <1>2, <1>3, <1>4 DEF CallbackEnds

LEMMA PlacesStep ==
    TypeOK /\ TypeOK' /\ PlacesInv /\ [Next]_vars => PlacesInv'
  <1> SUFFICES ASSUME TypeOK, TypeOK', PlacesInv, [Next]_vars PROVE PlacesInv'
    OBVIOUS
  <1>1. ASSUME NEW isClose \in BOOLEAN, ReceiveRefused(isClose)
        PROVE  PlacesInv'
    BY <1>1, PlacesKept DEF ReceiveRefused
  <1>2. ASSUME NEW isClose \in BOOLEAN, ReceiveDeliver(isClose)
        PROVE  PlacesInv'
    BY <1>2, DeliverStep
  <1>3. ASSUME NEW isClose \in BOOLEAN, ReceiveToBacklog(isClose)
        PROVE  PlacesInv'
    BY <1>3, ToBacklogStep
  <1>4. ASSUME NEW isClose \in BOOLEAN, ReceiveDropped(isClose)
        PROVE  PlacesInv'
    BY <1>4, DroppedStep
  <1>5. ASSUME NEW call \in {"sendTo", "takeBacklog"}, CallRefused(call)
        PROVE  PlacesInv'
    BY <1>5, PlacesKept DEF CallRefused
  <1>6. ASSUME NEW r \in Receiver, SendTo(r)
        PROVE  PlacesInv'
    BY <1>6, SendToStep
  <1>7. CASE UNCHANGED vars
    BY <1>7, PlacesKept DEF vars
  <1> QED
    BY <1>1, <1>2, <1>3, <1>4, <1>5, <1>6, <1>7, TakeStep, CloseStep, CallbackStep
    DEF Next

LEMMA PlacesInit == Init => PlacesInv
  <1> SUFFICES ASSUME Init PROVE PlacesInv
    OBVIOUS
  <1>1. stack = <<>> /\ backlog = <<>> /\ handed = <<>> /\ lost = {} /\ accepted = 0
    BY DEF Init
  <1>2. HandedEvents = <<>> /\ DOMAIN stack = {} /\ DOMAIN HandedEvents = {}
    BY <1>1 DEF HandedEvents
  <1>3. Given = {} /\ Looping = {} /\ Waiting = {} /\ Increasing(backlog)
    BY <1>1, <1>2, ShortSequences DEF Given, Looping, Waiting
  <1>4. LoopsInOrder /\ BacklogInOrder
    BY <1>1, <1>2, <1>3 DEF LoopsInOrder, InOrder, BacklogInOrder
  <1>5. PlaceInv /\ OvertakeInv
    BY <1>1, <1>2, <1>3 DEF PlaceInv, OvertakeInv, OvertakesOnlyDuringFlush, IsInjective
  <1> QED BY <1>4, <1>5 DEF PlacesInv

\* However receive, sendTo, takeBacklog and close calls are nested in the callbacks of
\* one another, every accepted event is in exactly one place.
THEOREM NothingTwiceOrMislaid == Spec => []EachEventOnce
  <1> QED BY TypeCorrect, PlacesInit, PlacesStep, PlacesImplyOnce, PTL DEF Spec

\* An event that is handed over before an older one was accepted while a sendTo() was
\* still handing out the backlog.
THEOREM OvertakersAreLate == Spec => []OvertakesOnlyDuringFlush
  <1>1. PlacesInv => OvertakesOnlyDuringFlush
    BY DEF PlacesInv, OvertakeInv
  <1> QED BY <1>1, TypeCorrect, PlacesInit, PlacesStep, PTL DEF Spec

-----------------------------------------------------------------------------
\* Disciplined streams

\* The shape of a disciplined stream: at most one call is waiting for a callback;
\* while one is waiting, or a receiver is set, the backlog is empty; the receiver
\* goes away under a waiting call only when the consumer stops.
DisciplineInv ==
    /\ Len(stack) \in {0, 1}
    /\ stack # <<>> => (Top.call = "receive" => Top.rest = <<>>)
    /\ stack # <<>> \/ receiver # NoReceiver \/ closedByDownstream => backlog = <<>>
    /\ stack # <<>> => (receiver = NoReceiver <=> closedByDownstream)

ChannelInv == TypeOK /\ LossInv /\ DisciplineInv

\* Pushing on an empty stack and popping from a stack of one frame.
LEMMA PushOne ==
    ASSUME NEW call, NEW rest, stack = <<>>, Push(call, rest)
    PROVE  /\ Len(stack') = 1 /\ stack' # <<>>
           /\ Top' = [call |-> call, rest |-> rest]
  <1>1. stack' = <<[call |-> call, rest |-> rest]>>
    BY DEF Push
  <1>2. Len(stack') = 1 /\ stack'[1] = [call |-> call, rest |-> rest] /\ stack' # <<>>
    BY <1>1
  <1> QED BY <1>2 DEF Top, Last

LEMMA PopOne ==
    ASSUME stack \in Seq(Frame), Len(stack) \in {0, 1}, stack # <<>>, Pop
    PROVE  stack' = <<>>
  <1>0. Len(stack) \in Nat \ {0}
    BY StackFacts
  <1>1. Len(stack) = 1
    BY <1>0
  <1>2. stack' = SubSeq(stack, 1, 0)
    BY <1>1 DEF Pop, Front
  <1> QED BY <1>2, SubSeqEmpty

\* The next turn of the loop replaces the only frame.
LEMMA FlushOne ==
    ASSUME stack \in Seq(Frame), Len(stack) \in {0, 1}, stack # <<>>,
           stack' = [stack EXCEPT ![Len(stack)].rest = Tail(@)]
    PROVE  /\ Len(stack') = 1 /\ stack' # <<>>
           /\ Top'.call = Top.call
           /\ Top'.rest = Tail(Top.rest)
  <1>0. Len(stack) \in Nat \ {0} /\ stack[Len(stack)] \in Frame
    BY StackFacts DEF Top, Last
  <1>1. Len(stack) = 1 /\ stack[1] \in Frame
    <2>1. Len(stack) = 1
      BY <1>0
    <2> QED BY <1>0, <2>1
  <1>2. stack' = [stack EXCEPT ![1] = [stack[1] EXCEPT !.rest = Tail(@)]]
    BY <1>1
  <1>3. Len(stack') = 1 /\ stack'[1] = [stack[1] EXCEPT !.rest = Tail(@)]
    BY <1>1, <1>2
  <1>4. stack' # <<>>
    BY <1>3
  <1> QED BY <1>1, <1>3, <1>4 DEF Top, Last, Frame

\* Nothing but closeByDownstream() is called from inside a callback.
LEMMA OnlyStopsInside ==
    ASSUME Disciplined, NEW call, CanCall(call), call # "closeByDownstream"
    PROVE  stack = <<>>
  BY DEF CanCall, Disciplined

\* The invariant is kept by every step of a disciplined stream.
LEMMA DisciplineStep ==
    ASSUME Disciplined PROVE ChannelInv /\ [Next]_vars => DisciplineInv'
  <1> SUFFICES ASSUME ChannelInv, [Next]_vars PROVE DisciplineInv'
    OBVIOUS
  <1>0. stack \in Seq(Frame) /\ Len(stack) \in {0, 1}
    BY DEF ChannelInv, TypeOK, DisciplineInv
  <1>1. ASSUME NEW isClose \in BOOLEAN, ReceiveRefused(isClose)
        PROVE  DisciplineInv'
    BY <1>1 DEF ReceiveRefused, state, history, ChannelInv, DisciplineInv, Top, Last
  <1>2. ASSUME NEW isClose \in BOOLEAN, ReceiveDeliver(isClose)
        PROVE  DisciplineInv'
    <2>1. stack = <<>>
      BY <1>2, OnlyStopsInside DEF ReceiveDeliver, Accept
    <2>2. Len(stack') = 1 /\ stack' # <<>> /\ Top' = [call |-> "receive", rest |-> <<>>]
      BY <1>2, <2>1, PushOne DEF ReceiveDeliver
    <2>3. /\ receiver' = receiver /\ receiver # NoReceiver /\ backlog' = backlog
          /\ ~closedByDownstream /\ closedByDownstream' = closedByDownstream
      BY <1>2 DEF ReceiveDeliver, Accept, Refuses
    <2> QED BY <2>2, <2>3 DEF ChannelInv, DisciplineInv
  <1>3. ASSUME NEW isClose \in BOOLEAN, ReceiveToBacklog(isClose)
        PROVE  DisciplineInv'
    <2>1. stack = <<>> /\ stack' = <<>>
      BY <1>3, OnlyStopsInside DEF ReceiveToBacklog, Accept
    <2>2. receiver' = NoReceiver /\ ~closedByDownstream'
      BY <1>3 DEF ReceiveToBacklog, Accept, Refuses
    <2> QED BY <2>1, <2>2 DEF DisciplineInv
  <1>4. ASSUME NEW isClose \in BOOLEAN, ReceiveDropped(isClose)
        PROVE  DisciplineInv'
    BY <1>4 DEF ReceiveDropped, Accept, ChannelInv, DisciplineInv, Top, Last
  <1>5. ASSUME NEW call \in {"sendTo", "takeBacklog"}, CallRefused(call)
        PROVE  DisciplineInv'
    BY <1>5 DEF CallRefused, state, history, ChannelInv, DisciplineInv, Top, Last
  <1>6. ASSUME NEW r \in Receiver, SendTo(r)
        PROVE  DisciplineInv'
    <2>1. stack = <<>>
      BY <1>6, OnlyStopsInside DEF SendTo
    <2>2. /\ receiver' = r /\ r # NoReceiver /\ backlog' = <<>>
          /\ closedByDownstream' = closedByDownstream
      BY <1>6, NoReceiverAssumption DEF SendTo
    <2>3. CASE backlog = <<>>
      <3>1. stack' = <<>>
        BY <1>6, <2>1, <2>3 DEF SendTo
      <3> QED BY <3>1, <2>2 DEF DisciplineInv
    <2>4. CASE backlog # <<>>
      <3>1. Len(stack') = 1 /\ stack' # <<>> /\ Top' = [call |-> "sendTo", rest |-> Tail(backlog)]
        BY <1>6, <2>1, <2>4, PushOne DEF SendTo
      <3>2. ~closedByDownstream
        BY <2>4 DEF ChannelInv, DisciplineInv
      <3> QED BY <2>2, <3>1, <3>2 DEF DisciplineInv
    <2> QED BY <2>3, <2>4
  <1>7. CASE TakeBacklog
    <2>1. stack = <<>> /\ stack' = <<>>
      BY <1>7, OnlyStopsInside DEF TakeBacklog
    <2> QED BY <1>7, <2>1 DEF TakeBacklog, DisciplineInv
  <1>8. CASE CloseByDownstream
    <2>1. stack' = stack /\ Top' = Top /\ closedByDownstream'
      BY <1>8 DEF CloseByDownstream, Top, Last
    <2>2. backlog' = <<>>
      BY <1>8 DEF CloseByDownstream, BacklogOnceClosed, ChannelInv, DisciplineInv
    <2>3. stack # <<>> => receiver' = NoReceiver
      BY <1>8 DEF CloseByDownstream, ReceiverOnceClosed, ChannelInv, DisciplineInv
    <2> QED BY <2>1, <2>2, <2>3 DEF ChannelInv, DisciplineInv
  <1>9. ASSUME NEW r, NEW gone, stack # <<>>, Continue(r, gone),
               backlog' = <<>>, r = NoReceiver <=> closedByDownstream'
        PROVE  DisciplineInv'
    <2>1. CASE Pop
      BY <1>0, <1>9, <2>1, PopOne DEF DisciplineInv
    <2>2. CASE FlushNext(r, gone)
      <3>1. Len(stack') = 1 /\ stack' # <<>> /\ Top'.call = "sendTo" /\ receiver' = r
        BY <1>0, <1>9, <2>2, FlushOne DEF FlushNext
      <3> QED BY <1>9, <3>1 DEF DisciplineInv
    <2> QED BY <1>9, <2>1, <2>2 DEF Continue, FinishReceive, FinishSendTo, FlushBreaks
  <1>10. CASE CallbackReturns
    BY <1>9, <1>10 DEF CallbackReturns, ChannelInv, DisciplineInv
  <1>11. CASE CallbackStops
    BY <1>9, <1>11
    DEF CallbackStops, ReceiverOnceClosed, BacklogOnceClosed, ChannelInv, DisciplineInv
  <1>12. CASE CallbackThrows
    <2>1. stack' = <<>> /\ backlog' = <<>>
      BY <1>0, <1>12, PopOne DEF CallbackThrows, state, ChannelInv, DisciplineInv
    <2> QED BY <2>1 DEF DisciplineInv
  <1>13. CASE UNCHANGED vars
    BY <1>13 DEF vars, state, history, ChannelInv, DisciplineInv, Top, Last
  <1> QED
    BY <1>1, <1>2, <1>3, <1>4, <1>5, <1>6, <1>7, <1>8, <1>10, <1>11, <1>12, <1>13
    DEF Next, CallbackEnds

\* The strengthened invariant holds of every disciplined stream.
LEMMA ChannelInvariant == ASSUME Disciplined PROVE Spec => []ChannelInv
  <1>1. Init => DisciplineInv
    BY DEF Init, DisciplineInv
  <1>2. Spec => [](TypeOK /\ LossInv)
    <2>1. Init => LossInv
      BY DEF Init, LossInv, NothingLostWhileOpen
    <2> QED BY <2>1, TypeCorrect, LossStep, PTL DEF Spec
  <1>3. ChannelInv /\ [Next]_vars => DisciplineInv'
    BY DisciplineStep
  <1> QED BY <1>1, <1>2, <1>3, PTL DEF Spec, ChannelInv

-----------------------------------------------------------------------------
\* The refinement

\* The queue of the channel, as the stream stores it.
Pending == IF closedByDownstream THEN <<>> ELSE Rest \o backlog

\* With no call waiting the queue is the backlog, with one it is the rest of its loop.
PendingShape ==
    /\ stack = <<>> => Pending = backlog
    /\ stack # <<>> => Pending = IF closedByDownstream THEN <<>> ELSE Top.rest
    /\ receiver # NoReceiver /\ stack = <<>> => Pending = <<>>
    /\ closedByDownstream => Pending = <<>>

LEMMA PendingFacts == ChannelInv => PendingShape
  <1> SUFFICES ASSUME ChannelInv PROVE PendingShape
    OBVIOUS
  <1>1. backlog \in Seq(Nat) /\ stack \in Seq(Frame)
    BY DEF ChannelInv, TypeOK
  <1>2. stack # <<>> => Top.rest \in Seq(Nat)
    BY <1>1, StackFacts
  <1>3. stack # <<>> \/ receiver # NoReceiver \/ closedByDownstream => backlog = <<>>
    BY DEF ChannelInv, DisciplineInv
  <1>4. stack = <<>> => Rest \o backlog = backlog
    BY <1>1, ConcatEmptySeq DEF Rest
  <1>5. stack # <<>> => Rest \o backlog = Top.rest
    BY <1>2, <1>3, ConcatEmptySeq DEF Rest
  <1> QED BY <1>3, <1>4, <1>5 DEF Pending, PendingShape

LEMMA InitMaps == Init => Channel!CInit
  <1> SUFFICES ASSUME Init PROVE Channel!CInit
    OBVIOUS
  <1>1. Rest \o backlog = <<>>
    BY ConcatEmptySeq DEF Init, Rest
  <1>2. HandedEvents = <<>>
    BY DEF Init, HandedEvents
  <1> QED BY <1>1, <1>2 DEF Init, Channel!CInit

\* Steps that hand nothing over, and steps that change nothing the channel sees.
LEMMA HandedUnchanged ==
    ASSUME handed' = handed
    PROVE  HandedEvents' = HandedEvents
  BY DEF HandedEvents

LEMMA ChannelUnchanged ==
    ASSUME UNCHANGED <<accepted, handed, closedByDownstream>>, Pending' = Pending,
           receiver = NoReceiver <=> receiver' = NoReceiver
    PROVE  UNCHANGED Channel!cvars
  <1>1. HandedEvents' = HandedEvents
    BY HandedUnchanged
  <1>2. (receiver # NoReceiver)' = (receiver # NoReceiver)
    OBVIOUS
  <1> QED BY <1>1, <1>2 DEF Channel!cvars, Pending

\* Every step of a disciplined stream is a step of the channel, or none.
LEMMA StepMaps ==
    ASSUME Disciplined PROVE ChannelInv /\ [Next]_vars => [Channel!CNext]_(Channel!cvars)
  <1> SUFFICES ASSUME ChannelInv, [Next]_vars
               PROVE  Channel!CNext \/ UNCHANGED Channel!cvars
    OBVIOUS
  <1>0. ChannelInv'
    BY DisciplineStep, LossStep, DataStep, FlagsStep, TypeParts DEF ChannelInv
  <1>1. /\ TypeOK /\ stack \in Seq(Frame) /\ accepted \in Nat
        /\ stack # <<>> => (Top.call = "receive" => Top.rest = <<>>)
        /\ stack # <<>> => (receiver = NoReceiver <=> closedByDownstream)
        /\ Len(stack) \in {0, 1}
    BY DEF ChannelInv, TypeOK, DisciplineInv
  <1>2. /\ stack = <<>> => Pending = backlog
        /\ stack # <<>> => Pending = IF closedByDownstream THEN <<>> ELSE Top.rest
        /\ receiver # NoReceiver /\ stack = <<>> => Pending = <<>>
        /\ closedByDownstream => Pending = <<>>
    BY PendingFacts DEF PendingShape
  <1>3. /\ stack' = <<>> => Pending' = backlog'
        /\ stack' # <<>> => Pending' = IF closedByDownstream' THEN <<>> ELSE Top'.rest
        /\ receiver' # NoReceiver /\ stack' = <<>> => Pending' = <<>>
        /\ closedByDownstream' => Pending' = <<>>
    <2>1. PendingShape'
      BY <1>0, PendingFacts, PTL
    <2> QED BY <2>1 DEF PendingShape
  <1>4. ASSUME UNCHANGED <<state, history, stack>>
        PROVE  UNCHANGED Channel!cvars
    <2>1. Pending' = Pending
      BY <1>4 DEF Pending, Rest, Top, Last, state
    <2> QED BY <1>4, <2>1, ChannelUnchanged DEF state, history
  <1>5. ASSUME NEW isClose \in BOOLEAN, ReceiveDeliver(isClose)
        PROVE  Channel!Pass
    <2>1. stack = <<>>
      BY <1>5, OnlyStopsInside DEF ReceiveDeliver, Accept
    <2>2. stack' # <<>> /\ Top'.rest = <<>>
      BY <1>5, <2>1, PushOne DEF ReceiveDeliver
    <2>3. /\ receiver # NoReceiver /\ receiver' = receiver /\ accepted' = accepted + 1
          /\ ~closedByDownstream /\ closedByDownstream' = closedByDownstream
      BY <1>5 DEF ReceiveDeliver, Accept, Refuses
    <2>4. Pending = <<>> /\ Pending' = <<>>
      BY <1>2, <1>3, <2>1, <2>2, <2>3
    <2>5. HandedEvents' = Append(HandedEvents, accepted')
      <3>1. receiver \in Receiver \cup {NoReceiver} /\ accepted' \in Nat
        BY <1>1, <2>3 DEF TypeOK
      <3> QED BY <1>1, <1>5, <3>1, HandedAppend DEF ReceiveDeliver
    <2> QED BY <2>3, <2>4, <2>5 DEF Channel!Pass, Channel!Send, Pending
  <1>6. ASSUME NEW isClose \in BOOLEAN, ReceiveToBacklog(isClose)
        PROVE  Channel!Queue
    <2>1. stack = <<>> /\ stack' = <<>>
      BY <1>6, OnlyStopsInside DEF ReceiveToBacklog, Accept
    <2>2. /\ receiver = NoReceiver /\ receiver' = receiver /\ accepted' = accepted + 1
          /\ ~closedByDownstream /\ closedByDownstream' = closedByDownstream
          /\ backlog' = Append(backlog, accepted')
      BY <1>6 DEF ReceiveToBacklog, Accept, Refuses
    <2>3. Pending' = Append(Pending, accepted')
      BY <1>2, <1>3, <2>1, <2>2
    <2>4. HandedEvents' = HandedEvents
      BY <1>6, HandedUnchanged DEF ReceiveToBacklog
    <2> QED BY <2>2, <2>3, <2>4 DEF Channel!Queue, Channel!Send, Pending
  <1>7. ASSUME NEW isClose \in BOOLEAN, ReceiveDropped(isClose)
        PROVE  FALSE
    <2>1. closedByUpstream \/ closedByDownstream
      BY <1>7 DEF ReceiveDropped, ChannelInv, LossInv, Closed
    <2> QED BY <1>7, <2>1 DEF Disciplined, ReceiveDropped, Accept, Refuses
  <1>8. ASSUME NEW r \in Receiver, SendTo(r)
        PROVE  Channel!Attach
    <2>1. stack = <<>>
      BY <1>8, OnlyStopsInside DEF SendTo
    <2>2. /\ receiver = NoReceiver /\ receiver' # NoReceiver
          /\ UNCHANGED <<accepted, closedByDownstream>> /\ backlog' = <<>>
      BY <1>8, NoReceiverAssumption DEF SendTo, SendToAllowed
    <2>3. Pending = backlog
      BY <1>2, <2>1
    <2>4. CASE backlog = <<>>
      <3>1. stack' = <<>> /\ HandedEvents' = HandedEvents
        BY <1>8, <2>1, <2>4, HandedUnchanged DEF SendTo
      <3>2. Pending' = Pending /\ Pending = <<>>
        BY <1>3, <2>2, <2>3, <2>4, <3>1
      <3> QED BY <2>2, <3>1, <3>2 DEF Channel!Attach, Pending
    <2>5. CASE backlog # <<>>
      <3>1. stack' # <<>> /\ Top'.rest = Tail(backlog)
        <4>1. stack' # <<>> /\ Top' = [call |-> "sendTo", rest |-> Tail(backlog)]
          BY <1>8, <2>1, <2>5, PushOne DEF SendTo
        <4> QED BY <4>1
      <3>2. ~closedByDownstream
        BY <2>5 DEF ChannelInv, DisciplineInv
      <3>3. Pending' = Tail(Pending)
        BY <1>3, <2>2, <2>3, <3>1, <3>2
      <3>4. HandedEvents' = Append(HandedEvents, Head(Pending))
        <4>1. backlog \in Seq(Nat) /\ Head(backlog) \in Nat
          BY <1>1, <2>5 DEF TypeOK
        <4> QED BY <1>1, <1>8, <2>3, <2>5, <4>1, HandedAppend DEF SendTo
      <3> QED BY <2>2, <2>3, <2>5, <3>3, <3>4
              DEF Channel!Attach, Channel!HandOver, Pending
    <2> QED BY <2>4, <2>5
  <1>9. CASE TakeBacklog
    <2>1. stack = <<>> /\ stack' = <<>>
      BY <1>9, OnlyStopsInside DEF TakeBacklog
    <2>2. receiver = NoReceiver /\ UNCHANGED <<receiver, accepted, closedByDownstream>>
      BY <1>9 DEF TakeBacklog
    <2>3. Pending = backlog /\ Pending' = <<>>
      BY <1>2, <1>3, <1>9, <2>1 DEF TakeBacklog
    <2>4. HandedEvents' = HandedEvents \o Pending
      BY <1>1, <1>9, <2>3, HandedTaken
    <2> QED BY <2>2, <2>3, <2>4 DEF Channel!Take, Channel!CNext, Pending
  <1>10. CASE CloseByDownstream
    <2>1. HandedEvents' = HandedEvents /\ Pending' = <<>>
      BY <1>3, <1>10, HandedUnchanged DEF CloseByDownstream
    <2>2. CASE ~closedByDownstream
      <3>1. receiver' = NoReceiver /\ closedByDownstream' = TRUE /\ accepted' = accepted
        BY <1>10, <2>2 DEF CloseByDownstream, ReceiverOnceClosed
      <3> QED BY <2>1, <3>1 DEF Channel!Stop, Channel!CNext, Pending
    <2>3. CASE closedByDownstream
      <3>1. /\ receiver' = receiver /\ UNCHANGED <<accepted, handed>>
            /\ closedByDownstream' = closedByDownstream
        BY <1>1, <1>10, <2>3 DEF CloseByDownstream, ReceiverOnceClosed, TypeOK
      <3>2. Pending' = Pending
        BY <1>2, <2>1, <2>3
      <3> QED BY <3>1, <3>2, ChannelUnchanged
    <2> QED BY <2>2, <2>3
  <1>11. ASSUME Pop, stack # <<>>
         PROVE  stack' = <<>> /\ Pending' = backlog'
    BY <1>1, <1>3, <1>11, PopOne
  <1>12. CASE CallbackReturns
    <2>1. /\ stack # <<>> /\ Continue(receiver, {}) /\ backlog = <<>>
          /\ UNCHANGED <<closedByDownstream, accepted, backlog>>
      BY <1>12 DEF CallbackReturns, ChannelInv, DisciplineInv
    <2>2. CASE FinishReceive(receiver, {})
      <3>1. /\ Pending = <<>> /\ Pending' = <<>> /\ UNCHANGED handed
            /\ receiver' = receiver \/ receiver' = NoReceiver
        BY <1>1, <1>2, <1>11, <2>1, <2>2 DEF FinishReceive
      <3>2. HandedEvents' = HandedEvents
        BY <3>1, HandedUnchanged
      <3>3. CASE receiver = NoReceiver <=> receiver' = NoReceiver
        BY <2>1, <3>1, <3>3, ChannelUnchanged
      <3>4. CASE receiver # NoReceiver /\ receiver' = NoReceiver
        BY <2>1, <3>1, <3>2, <3>4 DEF Channel!Detach, Channel!CNext, Pending
      <3> QED BY <3>1, <3>3, <3>4
    <2>3. CASE FinishSendTo(receiver, {})
      <3>1. /\ Pending = <<>> /\ Pending' = <<>> /\ UNCHANGED handed /\ receiver' = receiver
        BY <1>2, <1>11, <2>1, <2>3 DEF FinishSendTo
      <3> QED BY <2>1, <3>1, ChannelUnchanged
    <2>4. CASE FlushNext(receiver, {})
      <3>1. receiver # NoReceiver /\ receiver' = receiver /\ ~closedByDownstream /\ Top.rest # <<>>
        BY <1>1, <2>1, <2>4 DEF FlushNext
      <3>2. stack' # <<>> /\ Top'.rest = Tail(Top.rest)
        BY <1>1, <2>1, <2>4, FlushOne DEF FlushNext
      <3>3. Pending = Top.rest /\ Pending' = Tail(Pending)
        BY <1>2, <1>3, <2>1, <3>1, <3>2
      <3>4. HandedEvents' = Append(HandedEvents, Head(Pending))
        <4>1. Top.rest \in Seq(Nat)
          BY <1>1, <2>1, StackFacts
        <4>2. Head(Top.rest) \in Nat /\ receiver \in Receiver \cup {NoReceiver}
          BY <1>1, <3>1, <4>1 DEF TypeOK
        <4> QED BY <1>1, <2>4, <3>3, <4>2, HandedAppend DEF FlushNext
      <3> QED BY <2>1, <3>1, <3>3, <3>4
              DEF Channel!Deliver, Channel!HandOver, Channel!CNext, Pending
    <2>5. CASE FlushBreaks(receiver, {})
      <3>1. receiver = NoReceiver /\ receiver' = receiver /\ UNCHANGED handed /\ Pop
        BY <2>5 DEF FlushBreaks
      <3>2. Pending = <<>> /\ Pending' = <<>>
        BY <1>1, <1>2, <1>11, <2>1, <3>1
      <3> QED BY <2>1, <3>1, <3>2, ChannelUnchanged
    <2> QED BY <2>1, <2>2, <2>3, <2>4, <2>5 DEF Continue
  <1>13. CASE CallbackStops
    <2>1. /\ stack # <<>> /\ Continue(ReceiverOnceClosed, Discarded)
          /\ ReceiverOnceClosed = NoReceiver
          /\ closedByDownstream' = TRUE /\ accepted' = accepted
      BY <1>1, <1>13 DEF CallbackStops, ReceiverOnceClosed
    <2>2. receiver' = NoReceiver /\ UNCHANGED handed
      BY <2>1 DEF Continue, FinishReceive, FinishSendTo, FlushNext, FlushBreaks
    <2>3. Pending' = <<>> /\ HandedEvents' = HandedEvents
      BY <1>3, <2>1, <2>2, HandedUnchanged
    <2> QED BY <2>1, <2>2, <2>3 DEF Channel!Stop, Channel!CNext, Pending
  <1>14. CASE CallbackThrows
    <2>1. /\ stack # <<>> /\ Pop
          /\ UNCHANGED <<receiver, closedByDownstream, backlog, accepted, handed>>
      BY <1>14 DEF CallbackThrows, state
    <2>2. Pending' = <<>>
      BY <1>11, <2>1 DEF ChannelInv, DisciplineInv
    <2>3. HandedEvents' = HandedEvents
      BY <2>1, HandedUnchanged
    <2>4. CASE receiver # NoReceiver
      BY <2>1, <2>2, <2>3, <2>4 DEF Channel!Fail, Channel!CNext, Pending
    <2>5. CASE receiver = NoReceiver
      <3>1. Pending = <<>>
        BY <1>1, <1>2, <2>1, <2>5
      <3> QED BY <2>1, <2>2, <3>1, ChannelUnchanged
    <2> QED BY <2>4, <2>5
  <1>15. ASSUME NEW isClose \in BOOLEAN, ReceiveRefused(isClose)
         PROVE  UNCHANGED Channel!cvars
    BY <1>4, <1>15 DEF ReceiveRefused
  <1>16. ASSUME NEW call \in {"sendTo", "takeBacklog"}, CallRefused(call)
         PROVE  UNCHANGED Channel!cvars
    BY <1>4, <1>16 DEF CallRefused
  <1>17. CASE UNCHANGED vars
    BY <1>4, <1>17 DEF vars
  <1> QED
    BY <1>5, <1>6, <1>7, <1>8, <1>9, <1>10, <1>12, <1>13, <1>14, <1>15, <1>16, <1>17
    DEF Next, CallbackEnds, Channel!CNext

\* What ImplementsChannel says of single steps.
ChannelSafety == Channel!CInit /\ [][Channel!CNext]_(Channel!cvars)

\* Every disciplined stream, with any receivers and bounds, hands its events over
\* in the order receive() accepted them, each at most once, keeps those that wait
\* until a consumer takes them, stops or fails, and hands over nothing after a stop.
THEOREM ImplementsChannelSafety == Disciplined => (Spec => ChannelSafety)
  <1> SUFFICES ASSUME Disciplined PROVE Spec => ChannelSafety
    OBVIOUS
  <1>1. Spec => []ChannelInv
    BY ChannelInvariant
  <1>2. ChannelInv /\ [Next]_vars => [Channel!CNext]_(Channel!cvars)
    BY StepMaps
  <1> QED BY <1>1, <1>2, InitMaps, PTL DEF Spec, ChannelSafety

-----------------------------------------------------------------------------
\* One receiver

\* Receiver r has been handed an event.
To(r) == \E i \in DOMAIN handed : handed[i].to = r

\* While a callback runs the receiver that is set is the one that has had events, so
\* the loop goes on with it; and once a receiver has had an event nothing waits any
\* more, so the one that follows it, set after the stream was closed, gets nothing.
ReceiverInv ==
    /\ \A q, r \in Receiver : To(q) /\ To(r) => q = r
    /\ stack # <<>> => receiver = NoReceiver \/ To(receiver)
    /\ \A r \in Receiver : To(r) => backlog = <<>> /\ (receiver = r \/ Closed)

LEMMA HandToAdds ==
    ASSUME TypeOK, NEW r \in Receiver \cup {NoReceiver}, NEW e \in Nat, HandTo(r, e)
    PROVE  \A q : To(q)' <=> To(q) \/ q = r
  <1> DEFINE x == [event |-> e, to |-> r]
  <1>1. handed \in Seq(Handed) /\ x \in Handed /\ handed' = Append(handed, x)
    BY DEF TypeOK, HandTo, Handed
  <1>2. /\ Len(handed) \in Nat /\ DOMAIN handed = 1..Len(handed)
        /\ DOMAIN handed' = 1..Len(handed) + 1
        /\ \A i \in 1..Len(handed) : handed'[i] = handed[i]
        /\ handed'[Len(handed) + 1] = x
    BY <1>1, AppendProperties, LenProperties
  <1>3. Len(handed) + 1 \in DOMAIN handed' /\ x.to = r
    BY <1>2
  <1>4. \A i \in DOMAIN handed' : i \in DOMAIN handed \/ i = Len(handed) + 1
    BY <1>2
  <1>5. \A i \in DOMAIN handed : i \in DOMAIN handed' /\ handed'[i] = handed[i]
    BY <1>2
  <1> HIDE DEF x
  <1> QED BY <1>2, <1>3, <1>4, <1>5 DEF To

\* What takeBacklog() hands out goes to no receiver.
LEMMA TakeAdds ==
    ASSUME TypeOK, TakeBacklog
    PROVE  \A q \in Receiver : To(q)' => To(q)
  <1> DEFINE n == Len(handed)
             m == Len(backlog)
             k == Taken(backlog)
  <1>1. handed \in Seq(Handed) /\ backlog \in Seq(Nat) /\ handed' = handed \o k
    BY DEF TypeOK, TakeBacklog, Taken
  <1>2. n \in Nat /\ m \in Nat /\ DOMAIN handed = 1..n /\ DOMAIN backlog = 1..m
    BY <1>1, LenProperties
  <1>3. k \in Seq(Handed) /\ Len(k) = m
    BY <1>1, TakenFacts
  <1>4. \A i \in 1..m : k[i].to = NoReceiver
    BY <1>2 DEF Taken
  <1> HIDE DEF k, n, m
  <1>5. /\ handed' \in Seq(Handed) /\ Len(handed') = n + m
        /\ \A i \in 1..n + m : handed'[i] = IF i <= n THEN handed[i] ELSE k[i - n]
    <2>1. n = Len(handed) /\ m = Len(k)
      BY <1>3 DEF n
    <2> QED BY <1>1, <1>3, <2>1, ConcatHanded
  <1>6. DOMAIN handed' = 1..n + m
    BY <1>5, LenProperties
  <1> SUFFICES ASSUME NEW q \in Receiver, NEW i \in 1..n + m, handed'[i].to = q
               PROVE  To(q)
    BY <1>6 DEF To
  <1>7. CASE i <= n
    <2>1. i \in DOMAIN handed /\ handed[i].to = q
      BY <1>2, <1>5, <1>7
    <2> QED BY <2>1 DEF To
  <1>8. CASE ~(i <= n)
    <2>1. i - n \in 1..m /\ handed'[i] = k[i - n]
      BY <1>2, <1>5, <1>8
    <2> QED BY <1>4, <2>1, NoReceiverAssumption
  <1> QED BY <1>7, <1>8

\* The invariant is kept by every step of a disciplined stream.
LEMMA ReceiverStep ==
    ASSUME Disciplined PROVE ChannelInv /\ ReceiverInv /\ [Next]_vars => ReceiverInv'
  <1> SUFFICES ASSUME ChannelInv, ReceiverInv, [Next]_vars PROVE ReceiverInv'
    OBVIOUS
  <1>0. /\ TypeOK /\ stack \in Seq(Frame) /\ Len(stack) \in {0, 1} /\ accepted \in Nat
        /\ receiver \in Receiver \cup {NoReceiver}
    BY DEF ChannelInv, TypeOK, DisciplineInv
  \* Steps that hand nothing to a receiver and keep, or close, what is set.
  <1>1. ASSUME \A q \in Receiver : To(q)' => To(q),
               backlog' = backlog \/ backlog' = <<>>,
               Closed => Closed',
               receiver' = receiver \/ Closed',
               stack' # <<>> => receiver' = NoReceiver \/
                                (stack # <<>> /\ receiver' = receiver /\ handed' = handed)
        PROVE  ReceiverInv'
    <2>1. stack' # <<>> => receiver' = NoReceiver \/ To(receiver)'
      BY <1>1 DEF ReceiverInv, To
    <2>2. \A r \in Receiver : To(r)' => backlog' = <<>> /\ (receiver' = r \/ Closed')
      BY <1>1 DEF ReceiverInv
    <2> QED BY <1>1, <2>1, <2>2 DEF ReceiverInv
  \* Steps that hand an event to the only receiver there has been.
  <1>2. ASSUME NEW r \in Receiver, NEW e \in Nat, HandTo(r, e),
               \A q \in Receiver : To(q) => q = r,
               receiver' = r, backlog' = <<>>
        PROVE  ReceiverInv'
    <2>1. \A q : To(q)' <=> To(q) \/ q = r
      BY <1>0, <1>2, HandToAdds
    <2> QED BY <1>2, <2>1 DEF ReceiverInv
  <1>3. ASSUME handed' = handed
        PROVE  \A q \in Receiver : To(q)' => To(q)
    BY <1>3 DEF To
  <1>4. ASSUME UNCHANGED <<state, history, stack>>
        PROVE  ReceiverInv'
    BY <1>4 DEF ReceiverInv, To, Closed, state, history
  <1>5. ASSUME NEW isClose \in BOOLEAN, Accept(isClose)
        PROVE  ~Closed /\ (Closed => Closed') /\ receiver' = receiver /\ accepted' \in Nat
    BY <1>0, <1>5 DEF Disciplined, Accept, Refuses, Closed
  <1>6. ASSUME NEW isClose \in BOOLEAN, ReceiveDeliver(isClose)
        PROVE  ReceiverInv'
    <2>1. /\ receiver \in Receiver /\ receiver' = receiver /\ ~Closed
          /\ accepted' \in Nat /\ HandTo(receiver, accepted')
      BY <1>0, <1>5, <1>6 DEF ReceiveDeliver
    <2>2. backlog' = <<>>
      BY <1>6, <2>1 DEF ReceiveDeliver, ChannelInv, DisciplineInv
    <2>3. \A q \in Receiver : To(q) => q = receiver
      BY <2>1 DEF ReceiverInv
    <2> QED BY <1>2, <2>1, <2>2, <2>3
  <1>7. ASSUME NEW isClose \in BOOLEAN, ReceiveToBacklog(isClose)
        PROVE  ReceiverInv'
    <2>1. ~Closed /\ receiver = NoReceiver /\ receiver' = receiver /\ UNCHANGED <<stack, handed>>
      BY <1>5, <1>7 DEF ReceiveToBacklog
    <2>2. \A q \in Receiver : ~To(q)
      BY <2>1, NoReceiverAssumption DEF ReceiverInv
    <2> QED BY <1>3, <2>1, <2>2 DEF ReceiverInv
  <1>8. ASSUME NEW isClose \in BOOLEAN, ReceiveDropped(isClose)
        PROVE  ReceiverInv'
    <2>1. UNCHANGED <<handed, backlog, stack, receiver>> /\ (Closed => Closed')
      BY <1>5, <1>8 DEF ReceiveDropped
    <2> QED BY <1>1, <1>3, <2>1, <1>5, <1>8 DEF ReceiveDropped, ChannelInv, LossInv, Closed
  <1>9. ASSUME NEW r \in Receiver, SendTo(r)
        PROVE  ReceiverInv'
    <2>1. /\ stack = <<>> /\ receiver = NoReceiver /\ receiver' = r /\ backlog' = <<>>
          /\ (Closed => Closed')
      BY <1>9, OnlyStopsInside DEF SendTo, SendToAllowed, Closed
    <2>2. CASE backlog = <<>>
      <3>1. stack' = <<>> /\ handed' = handed
        BY <1>9, <2>1, <2>2 DEF SendTo
      <3>2. \A q \in Receiver : To(q) => Closed
        BY <2>1, NoReceiverAssumption DEF ReceiverInv
      <3> QED BY <1>3, <2>1, <3>1, <3>2 DEF ReceiverInv
    <2>3. CASE backlog # <<>>
      <3>1. HandTo(r, Head(backlog)) /\ Head(backlog) \in Nat
        BY <1>0, <1>9, <2>3 DEF SendTo, TypeOK
      <3>2. \A q \in Receiver : ~To(q)
        BY <2>3 DEF ReceiverInv
      <3> QED BY <1>2, <2>1, <3>1, <3>2
    <2> QED BY <2>2, <2>3
  <1>10. CASE TakeBacklog
    <2>1. stack' = <<>> /\ backlog' = <<>> /\ receiver' = receiver /\ (Closed => Closed')
      BY <1>10, OnlyStopsInside DEF TakeBacklog, Closed
    <2>2. \A q \in Receiver : To(q)' => To(q)
      BY <1>0, <1>10, TakeAdds
    <2> QED BY <1>1, <2>1, <2>2
  <1>11. CASE CloseByDownstream
    <2>1. Closed' /\ (receiver' = receiver \/ receiver' = NoReceiver)
      BY <1>11 DEF CloseByDownstream, ReceiverOnceClosed, Closed
    <2>2. UNCHANGED <<stack, handed>> /\ (backlog' = backlog \/ backlog' = <<>>)
      BY <1>11 DEF CloseByDownstream, BacklogOnceClosed
    <2> QED BY <1>1, <1>3, <2>1, <2>2
  <1>12. ASSUME NEW r, NEW gone, stack # <<>>, Continue(r, gone),
                backlog' = backlog \/ backlog' = <<>>, Closed => Closed',
                r = receiver \/ (r = NoReceiver /\ Closed'),
                closedByUpstream' = closedByUpstream
         PROVE  ReceiverInv'
    <2>1. CASE FinishReceive(r, gone) \/ FinishSendTo(r, gone) \/ FlushBreaks(r, gone)
      <3>1. /\ handed' = handed /\ stack' = <<>>
            /\ receiver' = r \/ (receiver' = NoReceiver /\ closedByUpstream)
        BY <1>0, <1>12, <2>1, PopOne DEF FinishReceive, FinishSendTo, FlushBreaks
      <3>2. receiver' = receiver \/ Closed'
        BY <1>12, <3>1 DEF Closed
      <3> QED BY <1>1, <1>3, <1>12, <3>1, <3>2
    <2>2. CASE FlushNext(r, gone)
      <3>1. r = receiver /\ r \in Receiver /\ receiver' = r /\ HandTo(r, Head(Top.rest))
        BY <1>0, <1>12, <2>2 DEF FlushNext
      <3>2. Head(Top.rest) \in Nat
        <4>1. Top.rest \in Seq(Nat)
          BY <1>0, <1>12, StackFacts
        <4> QED BY <2>2, <4>1 DEF FlushNext
      <3>3. To(r)
        BY <1>12, <3>1, NoReceiverAssumption DEF ReceiverInv
      <3>4. backlog' = <<>> /\ \A q \in Receiver : To(q) => q = r
        BY <1>12, <3>1, <3>3 DEF ReceiverInv
      <3> QED BY <1>2, <3>1, <3>2, <3>4
    <2> QED BY <1>12, <2>1, <2>2 DEF Continue
  <1>13. CASE CallbackReturns
    <2>1. Closed => Closed'
      BY <1>13 DEF CallbackReturns, Closed
    <2> QED BY <1>12, <1>13, <2>1 DEF CallbackReturns
  <1>14. CASE CallbackStops
    <2>1. Closed' /\ (ReceiverOnceClosed = receiver \/ ReceiverOnceClosed = NoReceiver)
      BY <1>14 DEF CallbackStops, ReceiverOnceClosed, Closed
    <2> QED BY <1>12, <1>14, <2>1 DEF CallbackStops, BacklogOnceClosed
  <1>15. CASE CallbackThrows
    <2>1. stack' = <<>> /\ UNCHANGED <<state, handed>>
      BY <1>0, <1>15, PopOne DEF CallbackThrows
    <2> QED BY <1>1, <1>3, <2>1 DEF state, Closed
  <1>16. ASSUME NEW isClose \in BOOLEAN, ReceiveRefused(isClose)
         PROVE  ReceiverInv'
    BY <1>4, <1>16 DEF ReceiveRefused
  <1>17. ASSUME NEW call \in {"sendTo", "takeBacklog"}, CallRefused(call)
         PROVE  ReceiverInv'
    BY <1>4, <1>17 DEF CallRefused
  <1>18. CASE UNCHANGED vars
    BY <1>4, <1>18 DEF vars
  <1> QED
    BY <1>6, <1>7, <1>8, <1>9, <1>10, <1>11, <1>13, <1>14, <1>15, <1>16, <1>17, <1>18
    DEF Next, CallbackEnds

\* The invariant says that the events were handed to one receiver.
LEMMA ReceiverInvImplies == ReceiverInv => OneReceiver
  <1> SUFFICES ASSUME ReceiverInv, NEW i \in DOMAIN handed, NEW j \in DOMAIN handed,
                      {handed[i].to, handed[j].to} \subseteq Receiver
               PROVE  handed[i].to = handed[j].to
    BY DEF OneReceiver
  <1>1. To(handed[i].to) /\ To(handed[j].to)
    BY DEF To
  <1> QED BY <1>1 DEF ReceiverInv

\* Of every disciplined stream, with any receivers and bounds: the events are never
\* split between two receivers, although a closed stream lets sendTo() set another.
THEOREM ReceiversNeverShare == Disciplined => (Spec => []OneReceiver)
  <1> SUFFICES ASSUME Disciplined PROVE Spec => []OneReceiver
    OBVIOUS
  <1>1. Init => ReceiverInv
    BY DEF Init, ReceiverInv, To
  <1>2. ChannelInv /\ ReceiverInv /\ [Next]_vars => ReceiverInv'
    BY ReceiverStep
  <1>3. ReceiverInv => OneReceiver
    BY ReceiverInvImplies
  <1>4. Spec => []ChannelInv
    BY ChannelInvariant
  <1> QED BY <1>1, <1>2, <1>3, <1>4, PTL DEF Spec

=============================================================================
