------------------------------- MODULE Stream -------------------------------
(***************************************************************************)
(* One Stream object (src/rqe/Stream.ts): a push channel between a producer *)
(* that calls receive() and a consumer that calls sendTo(), takeBacklog()   *)
(* and closeByDownstream().  Everything is synchronous: receive() and the   *)
(* loop that empties the backlog in sendTo() call the consumer's callback,  *)
(* and whatever that callback calls on the same stream runs inside them.    *)
(* `stack' holds the calls that are waiting for a callback to return; its   *)
(* last frame is the running callback, which (like the caller when the      *)
(* stack is empty) may make the next call.                                  *)
(*                                                                          *)
(* An event is the position at which receive() accepted it.                 *)
(***************************************************************************)
EXTENDS Naturals, FiniteSets, SequencesExt

CONSTANTS
    Receiver,           \* objects with a receive() function
    NoReceiver,         \* null
    Reentrant,          \* the calls a callback makes on the stream that runs it
    AfterClose,         \* the producer may go on after its close event
    MaxEvents,          \* bound: accepted events
    MaxDepth            \* bound: nested callbacks

Calls == {"receive", "sendTo", "takeBacklog", "closeByDownstream"}

ASSUME NoReceiverAssumption == NoReceiver \notin Receiver
ASSUME ReentrantAssumption == Reentrant \subseteq Calls
ASSUME AfterCloseAssumption == AfterClose \in BOOLEAN
ASSUME BoundAssumption == MaxEvents \in Nat /\ MaxDepth \in Nat

VARIABLES
    receiver, closedByUpstream, closedByDownstream,
    hasBacklog,         \* FALSE once `delete this.backlog' has run
    backlog,
    stack,              \* calls whose callback has not returned
    thrown,             \* what the last call threw to its caller
    \* history
    accepted,           \* number of events receive() did not refuse
    handed,             \* events given to a receiver or taken, in order
    lost,               \* events nobody will be given
    late,               \* events accepted while older ones waited in a sendTo
    receiverFailed      \* a callback threw something other than BackpressureStop

state == <<receiver, closedByUpstream, closedByDownstream, hasBacklog, backlog>>
history == <<accepted, handed, lost, late, receiverFailed>>
vars == <<state, stack, thrown, history>>

Exceptions == {"none", "BackpressureStop", "ProtocolError", "UsageError",
               "TypeError", "receiver error"}
Frame == [call : {"receive", "sendTo"}, rest : Seq(Nat)]
Handed == [event : Nat, to : Receiver \cup {NoReceiver}]

Init ==
    /\ receiver = NoReceiver
    /\ closedByUpstream = FALSE
    /\ closedByDownstream = FALSE
    /\ hasBacklog = TRUE
    /\ backlog = <<>>
    /\ stack = <<>>
    /\ thrown = "none"
    /\ accepted = 0
    /\ handed = <<>>
    /\ lost = {}
    /\ late = {}
    /\ receiverFailed = FALSE

-----------------------------------------------------------------------------
\* Calls made by whoever has control

CanCall(call) == stack = <<>> \/ call \in Reentrant

HandTo(r, e) == handed' = Append(handed, [event |-> e, to |-> r])

\* Mutant: the loop in sendTo() starts over at the event it has just sent.
PushFromFirst(call, rest) ==
    /\ Len(stack) < MaxDepth
    /\ stack' = Append(stack, [call |-> call, rest |-> IF call = "sendTo" THEN backlog ELSE rest])

Push(call, rest) ==
    /\ Len(stack) < MaxDepth
    /\ stack' = Append(stack, [call |-> call, rest |-> rest])

FlushUnderWay == \E i \in DOMAIN stack : stack[i].rest # <<>>

Refuses(isClose) == closedByDownstream \/ (isClose /\ closedByUpstream)

\* receive() throws: the consumer has stopped, or this is a second close event.
ReceiveRefused(isClose) ==
    /\ CanCall("receive")
    /\ Refuses(isClose)
    /\ thrown' = IF closedByDownstream THEN "BackpressureStop" ELSE "ProtocolError"
    /\ UNCHANGED <<state, stack, history>>

Accept(isClose) ==
    /\ CanCall("receive")
    /\ ~Refuses(isClose)
    /\ closedByUpstream => AfterClose
    /\ accepted < MaxEvents
    /\ accepted' = accepted + 1
    /\ closedByUpstream' = (closedByUpstream \/ isClose)
    /\ late' = IF FlushUnderWay THEN late \cup {accepted'} ELSE late
    /\ thrown' = "none"
    /\ UNCHANGED <<closedByDownstream, hasBacklog, receiver, receiverFailed>>

\* receive() up to the receiver's callback.
ReceiveDeliver(isClose) ==
    /\ receiver # NoReceiver
    /\ Accept(isClose)
    /\ Push("receive", <<>>)
    /\ HandTo(receiver, accepted')
    /\ UNCHANGED <<backlog, lost>>

\* Mutant: unshift() for push().
ReceiveToFront(isClose) ==
    /\ receiver = NoReceiver
    /\ hasBacklog
    /\ Accept(isClose)
    /\ backlog' = <<accepted'>> \o backlog
    /\ UNCHANGED <<stack, handed, lost>>

ReceiveToBacklog(isClose) ==
    /\ receiver = NoReceiver
    /\ hasBacklog
    /\ Accept(isClose)
    /\ backlog' = Append(backlog, accepted')
    /\ UNCHANGED <<stack, handed, lost>>

\* No receiver and no backlog: the event goes nowhere and nobody is told.
ReceiveDropped(isClose) ==
    /\ receiver = NoReceiver
    /\ ~hasBacklog
    /\ Accept(isClose)
    /\ lost' = lost \cup {accepted'}
    /\ UNCHANGED <<backlog, stack, handed>>

\* sendTo() or takeBacklog() throws: the stream has a receiver.
CallRefused(call) ==
    /\ CanCall(call)
    /\ receiver # NoReceiver
    /\ thrown' = "UsageError"
    /\ UNCHANGED <<state, stack, history>>

\* Mutant: sendTo() does not look at the receiver it replaces.
SendToAlways == TRUE

SendToAllowed == receiver = NoReceiver

\* sendTo() up to the callback for the first event of the backlog, if any.
SendTo(r) ==
    /\ CanCall("sendTo")
    /\ SendToAllowed
    /\ receiver' = r
    /\ hasBacklog' = FALSE
    /\ backlog' = <<>>
    /\ \/ backlog = <<>> /\ UNCHANGED <<stack, handed>>
       \/ /\ backlog # <<>>
          /\ Push("sendTo", Tail(backlog))
          /\ HandTo(r, Head(backlog))
    /\ thrown' = "none"
    /\ UNCHANGED <<closedByUpstream, closedByDownstream, accepted, lost, late, receiverFailed>>

TakeBacklog ==
    /\ CanCall("takeBacklog")
    /\ receiver = NoReceiver
    /\ handed' = handed \o [i \in DOMAIN backlog |-> [event |-> backlog[i], to |-> NoReceiver]]
    /\ hasBacklog' = TRUE
    /\ backlog' = <<>>
    /\ thrown' = "none"
    /\ UNCHANGED <<receiver, closedByUpstream, closedByDownstream, stack,
                   accepted, lost, late, receiverFailed>>

\* Mutants: `this.receiver = false', and a backlog that is kept.
ReceiverFalse == IF closedByDownstream THEN receiver ELSE FALSE
BacklogKept == backlog

\* What closeByDownstream() leaves of the receiver and of the backlog; a second
\* call returns at once.
ReceiverOnceClosed == IF closedByDownstream THEN receiver ELSE NoReceiver
BacklogOnceClosed == IF closedByDownstream THEN backlog ELSE <<>>
Discarded == ToSet(backlog) \ ToSet(BacklogOnceClosed)

CloseByDownstream ==
    /\ CanCall("closeByDownstream")
    /\ closedByDownstream' = TRUE
    /\ receiver' = ReceiverOnceClosed
    /\ backlog' = BacklogOnceClosed
    /\ lost' = lost \cup Discarded
    /\ thrown' = "none"
    /\ UNCHANGED <<closedByUpstream, hasBacklog, stack, accepted, handed, late, receiverFailed>>

-----------------------------------------------------------------------------
\* The running callback returns or throws, and the call that made it goes on
\* with receiver r; `gone' are events discarded on the way.

Top == Last(stack)
Pop == stack' = Front(stack)

\* Mutant: receive() forgets the receiver after every event.
ForgetReceiver(r, gone) ==
    /\ Top.call = "receive"
    /\ Pop
    /\ receiver' = NoReceiver
    /\ lost' = lost \cup gone
    /\ thrown' = "none"
    /\ UNCHANGED handed

\* The rest of receive(): `if (this.closedByUpstream) this.receiver = null'.
FinishReceive(r, gone) ==
    /\ Top.call = "receive"
    /\ Pop
    /\ receiver' = IF closedByUpstream THEN NoReceiver ELSE r
    /\ lost' = lost \cup gone
    /\ thrown' = "none"
    /\ UNCHANGED handed

\* sendTo() returns to its caller.
FinishSendTo(r, gone) ==
    /\ Top.call = "sendTo"
    /\ Top.rest = <<>>
    /\ Pop
    /\ receiver' = r
    /\ lost' = lost \cup gone
    /\ thrown' = "none"
    /\ UNCHANGED handed

\* The next turn of the loop in sendTo(), to whatever receiver the stream has now.
FlushNext(r, gone) ==
    /\ Top.call = "sendTo"
    /\ Top.rest # <<>>
    /\ r # NoReceiver
    /\ stack' = [stack EXCEPT ![Len(stack)].rest = Tail(@)]
    /\ receiver' = r
    /\ HandTo(r, Head(Top.rest))
    /\ lost' = lost \cup gone
    /\ thrown' = "none"

\* this.receiver.receive(event) with no receiver left: a TypeError out of sendTo().
FlushBreaks(r, gone) ==
    /\ Top.call = "sendTo"
    /\ Top.rest # <<>>
    /\ r = NoReceiver
    /\ Pop
    /\ receiver' = r
    /\ lost' = lost \cup gone \cup ToSet(Top.rest)
    /\ thrown' = "TypeError"
    /\ UNCHANGED handed

Continue(r, gone) ==
    \/ FinishReceive(r, gone)
    \/ FinishSendTo(r, gone)
    \/ FlushNext(r, gone)
    \/ FlushBreaks(r, gone)

CallbackReturns ==
    /\ stack # <<>>
    /\ Continue(receiver, {})
    /\ UNCHANGED <<closedByUpstream, closedByDownstream, hasBacklog, backlog,
                   accepted, late, receiverFailed>>

\* _sendToReceiver() catches a BackpressureStop and runs closeByDownstream().
CallbackStops ==
    /\ stack # <<>>
    /\ Continue(ReceiverOnceClosed, Discarded)
    /\ closedByDownstream' = TRUE
    /\ backlog' = BacklogOnceClosed
    /\ UNCHANGED <<closedByUpstream, hasBacklog, accepted, late, receiverFailed>>

\* Any other exception leaves receive() or sendTo() where it stands.
CallbackThrows ==
    /\ stack # <<>>
    /\ Pop
    /\ lost' = lost \cup ToSet(Top.rest)
    /\ receiverFailed' = TRUE
    /\ thrown' = "receiver error"
    /\ UNCHANGED <<state, accepted, handed, late>>

CallbackEnds == CallbackReturns \/ CallbackStops \/ CallbackThrows

Next ==
    \/ \E isClose \in BOOLEAN :
         \/ ReceiveRefused(isClose)
         \/ ReceiveDeliver(isClose)
         \/ ReceiveToBacklog(isClose)
         \/ ReceiveDropped(isClose)
    \/ \E call \in {"sendTo", "takeBacklog"} : CallRefused(call)
    \/ \E r \in Receiver : SendTo(r)
    \/ TakeBacklog
    \/ CloseByDownstream
    \/ CallbackEnds

Spec == Init /\ [][Next]_vars

\* A callback is a synchronous JavaScript function: it returns or throws.
FairSpec == Spec /\ WF_vars(CallbackEnds)

-----------------------------------------------------------------------------
\* Properties

TypeOK ==
    /\ receiver \in Receiver \cup {NoReceiver}
    /\ closedByUpstream \in BOOLEAN
    /\ closedByDownstream \in BOOLEAN
    /\ hasBacklog \in BOOLEAN
    /\ backlog \in Seq(Nat)
    /\ stack \in Seq(Frame)
    /\ thrown \in Exceptions
    /\ accepted \in Nat
    /\ handed \in Seq(Handed)
    /\ lost \subseteq Nat
    /\ late \subseteq Nat
    /\ receiverFailed \in BOOLEAN

HandedEvents == [i \in DOMAIN handed |-> handed[i].event]

\* The events that have been handed over, and those that wait in the loops of the
\* calls under way and in the backlog.
Given == ToSet(HandedEvents)
InLoop(p) == ToSet(stack[p].rest)
Looping == UNION {InLoop(p) : p \in DOMAIN stack}
Waiting == Looping \cup ToSet(backlog)

\* Every event receive() did not refuse is in exactly one place: handed over
\* once, waiting in a sendTo() loop or in the backlog once, or lost.  No order of
\* nested receive, sendTo, takeBacklog and close calls duplicates or mislays one.
EachEventOnce ==
    /\ IsInjective(HandedEvents)
    /\ \A p \in DOMAIN stack : IsInjective(stack[p].rest)
    /\ IsInjective(backlog)
    /\ \A p, q \in DOMAIN stack : p # q => InLoop(p) \cap InLoop(q) = {}
    /\ Looping \cap ToSet(backlog) = {}
    /\ Given \cap Waiting = {}
    /\ lost \cap (Given \cup Waiting) = {}
    /\ Given \cup Waiting \cup lost = 1..accepted

\* receive() does not look at the backlog a sendTo() is still emptying, so an
\* event can be handed over before an older one; it is then always an event that
\* a callback of that loop caused.
OvertakesOnlyDuringFlush ==
    \A i, j \in DOMAIN handed :
        i < j /\ handed[j].event < handed[i].event => handed[i].event \in late

\* An event is lost, or sendTo() breaks off with a TypeError, only on a stream
\* that one side has closed or whose receiver has thrown.
NothingLostWhileOpen ==
    lost # {} \/ thrown = "TypeError"
        => closedByUpstream \/ closedByDownstream \/ receiverFailed

=============================================================================
