---------------------------- MODULE DurableClient ---------------------------
(***************************************************************************)
(* A DurableWebSocketClient (src/rqe/remote/DurableWebSocketClient.ts): it   *)
(* opens a socket, and a new one when that is lost, after a delay that       *)
(* doubles with every attempt of the last Window; after five it gives up.    *)
(*                                                                          *)
(* Time is kept as ages and as what is left of timers, in units of 500 ms,   *)
(* so it has no bound.  A timer fires within its unit, before or after what  *)
(* else happens in it.  WebSocketBridge has the requests of a connection.    *)
(***************************************************************************)
EXTENDS Naturals, FiniteSets, SequencesExt, Functions, SeqFilter

CONSTANTS
    Window,             \* ReconnectionRecentWindowTime, 60 units in the code
    MaxStrays           \* bound: timers nobody refers to

ASSUME WindowAssumption == Window \in Nat /\ Window >= 8
ASSUME StraysAssumption == MaxStrays \in Nat

GiveUp == 5
Delay(n) == 2 ^ (n - 1)
Left == 0..Window               \* what can be left of a timer
None == Window + 1              \* no timer

VARIABLES
    connection,         \* this.connection is not null
    permanentClose,
    reconnectTimer,     \* what is left of it, None when it has fired or was cleared
    strays,             \* how many other timers are pending, by what is left of them
    attempts,           \* the ages of the rows of `attempts'
    sockets             \* sockets that are open or opening

vars == <<connection, permanentClose, reconnectTimer, strays, attempts, sockets>>

-----------------------------------------------------------------------------
\* The calls, on the fields that they change.

Fields == [connection |-> connection, reconnectTimer |-> reconnectTimer,
           strays |-> strays, attempts |-> attempts, sockets |-> sockets]

\* Mutant: the rows that are old are counted.
AllRows(rows) == rows

\* The rows countRecentReconnects() leaves; it deletes the others.
Recent(rows) == Kept(rows, 0..Window)

\* mostRecentAttempt, as an age
MostRecent(rows) == Min(ToSet(rows))

\* _reconnect(), if not closed for good: getSocket() may throw.
Reconnect(f, throws) ==
    [f EXCEPT !.reconnectTimer = None,
              !.attempts = Append(@, 0),
              !.connection = ~throws,
              !.sockets = IF throws THEN @ ELSE @ + 1]

\* this.reconnectTimer = setTimeout(...): a timer it held goes on without a name.
OneMore(timers, left) == [timers EXCEPT ![left] = @ + 1]
Schedule(f, left) ==
    [f EXCEPT !.reconnectTimer = left,
              !.strays = IF f.reconnectTimer = None THEN @ ELSE OneMore(@, f.reconnectTimer)]

\* Mutant: it is never time to try.
NeverDue(rows) == FALSE

\* Mutant: the attempt waits for one unit more than its delay.
DueLater(rows) == Delay(Len(rows)) < MostRecent(rows)

\* timeToAttempt is 0.
Due(rows) == Delay(Len(rows)) <= MostRecent(rows)

\* Mutant: the connection there is is not looked at.
ConnectedNever(f) == FALSE

Connected(f) == f.connection

\* Mutant: one attempt more.
TooManyLater(n) == n > GiveUp

TooMany(n) == n >= GiveUp

\* tryReconnect(), with what getSocket() does if it is called.
TryReconnect(f, throws) ==
    LET recent == Recent(f.attempts)
        counted == [f EXCEPT !.attempts = recent]
    IN  CASE Connected(f) \/ permanentClose -> f
          [] OTHER ->
             CASE recent = <<>>        -> Reconnect(counted, throws)
               [] TooMany(Len(recent)) -> counted
               [] OTHER ->
                  IF Due(recent)
                  THEN Schedule(Reconnect(counted, throws), 0)
                  ELSE Schedule(counted, Delay(Len(recent)) - MostRecent(recent))

Strays == FoldFunction(LAMBDA n, m : n + m, 0, strays)

Become(f) ==
    /\ connection' = f.connection
    /\ reconnectTimer' = f.reconnectTimer
    /\ strays' = f.strays
    /\ attempts' = f.attempts
    /\ sockets' = f.sockets

-----------------------------------------------------------------------------
\* The constructor ends in tryReconnect(), for which nothing is recent.
Init ==
    /\ permanentClose = FALSE
    /\ reconnectTimer = None
    /\ strays = [d \in Left |-> 0]
    /\ attempts = <<0>>
    /\ connection \in BOOLEAN
    /\ sockets = IF connection THEN 1 ELSE 0

OneSocketLess == [Fields EXCEPT !.sockets = sockets - 1]

\* onDisconnect: a socket was lost, or its connection attempt failed.
SocketCloses ==
    /\ sockets > 0
    /\ reconnectTimer = None \/ Strays < MaxStrays
    /\ \E throws \in BOOLEAN :
          Become(TryReconnect([OneSocketLess EXCEPT !.connection = FALSE], throws))
    /\ UNCHANGED permanentClose

TimerFires ==
    /\ reconnectTimer = 0
    /\ \E throws \in BOOLEAN :
          Become(TryReconnect([Fields EXCEPT !.reconnectTimer = None], throws))
    /\ UNCHANGED permanentClose

StrayFires ==
    /\ strays[0] > 0
    /\ \E throws \in BOOLEAN :
          Become(TryReconnect([Fields EXCEPT !.strays[0] = @ - 1], throws))
    /\ UNCHANGED permanentClose

\* close(): the socket's close event comes later, timers go on.
CloseClient ==
    /\ ~permanentClose
    /\ permanentClose' = TRUE
    /\ connection' = FALSE
    /\ UNCHANGED <<reconnectTimer, strays, attempts, sockets>>

\* Time passes.  An attempt that is too old to count does not get older.
Tick ==
    /\ reconnectTimer # 0 /\ strays[0] = 0
    /\ attempts' = [i \in DOMAIN attempts |-> Min({attempts[i] + 1, Window + 1})]
    /\ reconnectTimer' = IF reconnectTimer \in {None, 0} THEN reconnectTimer ELSE reconnectTimer - 1
    /\ strays' = [d \in Left |->
                     (IF d = 0 THEN strays[0] ELSE 0)
                     + (IF d + 1 \in Left THEN strays[d + 1] ELSE 0)]
    /\ UNCHANGED <<connection, permanentClose, sockets>>

Next == SocketCloses \/ TimerFires \/ StrayFires \/ CloseClient \/ Tick

Spec == Init /\ [][Next]_vars

\* Time passes and due timers fire.
Fairness == WF_vars(Tick) /\ WF_vars(TimerFires) /\ WF_vars(StrayFires)

FairSpec == Spec /\ Fairness

-----------------------------------------------------------------------------
\* Properties

TypeOK ==
    /\ connection \in BOOLEAN
    /\ permanentClose \in BOOLEAN
    /\ reconnectTimer \in Left \cup {None}
    /\ strays \in [Left -> Nat]
    /\ attempts \in Seq(0..(Window + 1))
    /\ sockets \in Nat

\* One socket at a time: a lost one is not replaced twice, whatever timers are left
\* over, and there is none without a connection but the one close() is closing.
OneSocket ==
    /\ sockets <= 1
    /\ connection => sockets = 1
    /\ sockets = 1 => connection \/ permanentClose

AttemptsInWindow(rows) == Cardinality({i \in DOMAIN rows : rows[i] <= Window})

\* At most five attempts in any Window, however they were started.
FiveInWindow == AttemptsInWindow(attempts) <= GiveUp

\* No connection, and nothing will try to get one.
Stopped ==
    /\ ~connection
    /\ ~permanentClose
    /\ reconnectTimer = None
    /\ \A d \in Left : strays[d] = 0

\* The client stops trying only after five attempts, all of them recent, or when
\* getSocket() throws on an attempt before which none was recent.
StopsOnlyWhen ==
    [][Stopped' /\ ~Stopped =>
        AttemptsInWindow(attempts') >= GiveUp \/ attempts' = <<0>>]_vars

\* A client without a connection gets one, or stops trying.
Reconnects == ~connection ~> connection \/ permanentClose \/ Stopped

=============================================================================
