------------------------ MODULE DurableClient_proofs ------------------------
(***************************************************************************)
(* A DurableWebSocketClient never has two sockets, never makes more than     *)
(* five attempts in a Window and stops trying for two reasons only, whatever *)
(* its delays are and however many timers are left over.                    *)
(***************************************************************************)
EXTENDS DurableClient, NumberLemmas

SocketInv ==
    /\ connection \in BOOLEAN
    /\ permanentClose \in BOOLEAN
    /\ sockets \in Nat
    /\ OneSocket

SameSockets(f, new) == new.connection = f.connection /\ new.sockets = f.sockets
NewSocket(f, new) == new.connection = TRUE /\ new.sockets = f.sockets + 1

\* tryReconnect() opens a socket only where there is no connection, and makes it
\* the connection; nothing at all happens after close().
LEMMA TryReconnectOpens ==
    ASSUME NEW f, f.connection \in BOOLEAN, NEW throws \in BOOLEAN,
           f = [connection |-> f.connection, reconnectTimer |-> f.reconnectTimer,
                strays |-> f.strays, attempts |-> f.attempts, sockets |-> f.sockets]
    PROVE  \/ SameSockets(f, TryReconnect(f, throws))
           \/ ~f.connection /\ ~permanentClose /\ NewSocket(f, TryReconnect(f, throws))
<1> DEFINE recent == Recent(f.attempts)
           counted == [f EXCEPT !.attempts = recent]
           opened == Reconnect(counted, throws)
           later == Delay(Len(recent)) - MostRecent(recent)
<1> SUFFICES ASSUME ~(Connected(f) \/ permanentClose)
             PROVE  \/ SameSockets(f, TryReconnect(f, throws))
                    \/ NewSocket(f, TryReconnect(f, throws))
  BY DEF TryReconnect, Connected, SameSockets
<1>1. \/ TryReconnect(f, throws) = opened
      \/ TryReconnect(f, throws) = counted
      \/ TryReconnect(f, throws) = Schedule(opened, 0)
      \/ TryReconnect(f, throws) = Schedule(counted, later)
  BY DEF TryReconnect
<1>2. counted.connection = f.connection /\ counted.sockets = f.sockets
  OBVIOUS
<1>3. \/ SameSockets(f, opened)
      \/ NewSocket(f, opened)
  <2>1. f.connection = FALSE
    BY DEF Connected
  <2>2. CASE throws = TRUE
    BY <2>1, <2>2 DEF Reconnect, SameSockets
  <2>3. CASE throws = FALSE
    BY <2>3 DEF Reconnect, NewSocket
  <2> QED BY <2>2, <2>3
<1>4. ASSUME NEW left
      PROVE  /\ Schedule(counted, left).connection = counted.connection
             /\ Schedule(counted, left).sockets = counted.sockets
             /\ Schedule(opened, left).connection = opened.connection
             /\ Schedule(opened, left).sockets = opened.sockets
  BY DEF Schedule, Reconnect
<1> HIDE DEF opened, counted, later
<1> QED BY <1>1, <1>2, <1>3, <1>4 DEF SameSockets, NewSocket

\* So does a callback that ends in tryReconnect().
LEMMA BecomeKeepsOneSocket ==
    ASSUME NEW f, NEW throws \in BOOLEAN, SocketInv,
           f = [connection |-> f.connection, reconnectTimer |-> f.reconnectTimer,
                strays |-> f.strays, attempts |-> f.attempts, sockets |-> f.sockets],
           f.connection \in BOOLEAN, f.sockets \in Nat,
           f.sockets <= 1,
           f.connection => f.sockets = 1,
           f.sockets = 1 => f.connection \/ permanentClose,
           Become(TryReconnect(f, throws)), permanentClose' = permanentClose
    PROVE  SocketInv'
<1> DEFINE new == TryReconnect(f, throws)
<1>1. \/ SameSockets(f, new)
      \/ ~f.connection /\ ~permanentClose /\ NewSocket(f, new)
  BY TryReconnectOpens
<1>2. connection' = new.connection /\ sockets' = new.sockets
  BY DEF Become
<1> HIDE DEF new
<1>3. CASE SameSockets(f, new)
  BY <1>2, <1>3 DEF SocketInv, OneSocket, SameSockets
<1>4. CASE ~f.connection /\ ~permanentClose /\ NewSocket(f, new)
  <2>1. f.sockets = 0
    BY <1>4
  <2>2. connection' = TRUE /\ sockets' = 1
    BY <1>2, <1>4, <2>1 DEF NewSocket
  <2> QED BY <2>2 DEF SocketInv, OneSocket
<1> QED BY <1>1, <1>3, <1>4

\* A lost socket is replaced once, and there is none without a connection but the
\* one close() is closing.
THEOREM ClientHasOneSocket == Spec => []OneSocket
<1>1. Init => SocketInv
  <2> SUFFICES ASSUME Init PROVE SocketInv
    OBVIOUS
  <2>1. CASE connection = TRUE
    <3>1. sockets = 1
      BY <2>1 DEF Init
    <3>2. sockets \in Nat /\ sockets <= 1 /\ sockets = 1
      BY <3>1
    <3> QED BY <2>1, <3>2 DEF Init, SocketInv, OneSocket
  <2>2. CASE connection = FALSE
    <3>1. sockets = 0
      BY <2>2 DEF Init
    <3>2. sockets \in Nat /\ sockets <= 1 /\ sockets # 1
      BY <3>1
    <3> QED BY <2>2, <3>2 DEF Init, SocketInv, OneSocket
  <2> QED BY <2>1, <2>2 DEF Init
<1>2. SocketInv /\ [Next]_vars => SocketInv'
  <2> SUFFICES ASSUME SocketInv, [Next]_vars PROVE SocketInv'
    OBVIOUS
  <2>1. CASE SocketCloses
    <3> DEFINE f == [OneSocketLess EXCEPT !.connection = FALSE]
    <3>1. PICK throws \in BOOLEAN : Become(TryReconnect(f, throws))
      BY <2>1 DEF SocketCloses
    <3>2. /\ f = [connection |-> f.connection, reconnectTimer |-> f.reconnectTimer,
                  strays |-> f.strays, attempts |-> f.attempts, sockets |-> f.sockets]
          /\ f.connection = FALSE /\ f.sockets = sockets - 1
      <4>1. OneSocketLess =
               [connection |-> connection, reconnectTimer |-> reconnectTimer,
                strays |-> strays, attempts |-> attempts, sockets |-> sockets - 1]
        BY DEF OneSocketLess, Fields
      <4>2. ASSUME NEW value, value = FALSE
            PROVE  [OneSocketLess EXCEPT !.connection = value] =
                      [connection |-> value, reconnectTimer |-> reconnectTimer,
                       strays |-> strays, attempts |-> attempts, sockets |-> sockets - 1]
        BY <4>1
      <4> HIDE DEF f
      <4>3. ASSUME NEW value, value = FALSE, f = [OneSocketLess EXCEPT !.connection = value]
            PROVE  /\ f = [connection |-> f.connection, reconnectTimer |-> f.reconnectTimer,
                            strays |-> f.strays, attempts |-> f.attempts, sockets |-> f.sockets]
                   /\ f.connection = value /\ f.sockets = sockets - 1
        BY <4>2, <4>3
      <4>4. f = [OneSocketLess EXCEPT !.connection = FALSE]
        BY DEF f
      <4> QED BY <4>3, <4>4
    <3>3. sockets = 1 /\ permanentClose' = permanentClose
      BY <2>1 DEF SocketCloses, SocketInv, OneSocket
    <3> HIDE DEF f
    <3>4. f.connection \in BOOLEAN /\ ~f.connection
      BY <3>2, Zenon
    <3>5. f.sockets \in Nat /\ f.sockets <= 1 /\ f.sockets # 1
      BY <3>2, <3>3
    <3> QED BY <3>1, <3>2, <3>3, <3>4, <3>5, BecomeKeepsOneSocket, Zenon
  <2>2. CASE TimerFires
    <3> DEFINE f == [Fields EXCEPT !.reconnectTimer = None]
    <3>1. PICK throws \in BOOLEAN : Become(TryReconnect(f, throws))
      BY <2>2 DEF TimerFires
    <3>2. /\ f = [connection |-> f.connection, reconnectTimer |-> f.reconnectTimer,
                  strays |-> f.strays, attempts |-> f.attempts, sockets |-> f.sockets]
          /\ f.connection = connection /\ f.sockets = sockets
      BY DEF Fields
    <3>3. permanentClose' = permanentClose
      BY <2>2 DEF TimerFires
    <3> HIDE DEF f
    <3> QED BY <3>1, <3>2, <3>3, BecomeKeepsOneSocket DEF SocketInv, OneSocket
  <2>3. CASE StrayFires
    <3> DEFINE f == [Fields EXCEPT !.strays[0] = @ - 1]
    <3>1. PICK throws \in BOOLEAN : Become(TryReconnect(f, throws))
      BY <2>3 DEF StrayFires
    <3>2. /\ f = [connection |-> f.connection, reconnectTimer |-> f.reconnectTimer,
                  strays |-> f.strays, attempts |-> f.attempts, sockets |-> f.sockets]
          /\ f.connection = connection /\ f.sockets = sockets
      BY DEF Fields
    <3>3. permanentClose' = permanentClose
      BY <2>3 DEF StrayFires
    <3> HIDE DEF f
    <3> QED BY <3>1, <3>2, <3>3, BecomeKeepsOneSocket DEF SocketInv, OneSocket
  <2>4. CASE CloseClient
    BY <2>4 DEF CloseClient, SocketInv, OneSocket
  <2>5. CASE Tick
    BY <2>5 DEF Tick, SocketInv, OneSocket
  <2>6. CASE UNCHANGED vars
    BY <2>6 DEF vars, SocketInv, OneSocket
  <2> QED BY <2>1, <2>2, <2>3, <2>4, <2>5, <2>6 DEF Next
<1>3. SocketInv => OneSocket
  BY DEF SocketInv
<1> QED BY <1>1, <1>2, <1>3, PTL DEF Spec

-----------------------------------------------------------------------------
\* The types, and how many attempts there are.

Records == [connection : BOOLEAN, reconnectTimer : Left \cup {None}, strays : [Left -> Nat],
            attempts : Seq(0..(Window + 1)), sockets : Nat]

\* The fields, of which the table of attempts has at most five rows.
Few(f) == f \in Records /\ Len(f.attempts) <= GiveUp

LEMMA RecordParts ==
    ASSUME NEW f \in Records
    PROVE  /\ f = [connection |-> f.connection, reconnectTimer |-> f.reconnectTimer,
                   strays |-> f.strays, attempts |-> f.attempts, sockets |-> f.sockets]
           /\ f.connection \in BOOLEAN /\ f.reconnectTimer \in Left \cup {None}
           /\ f.strays \in [Left -> Nat] /\ f.attempts \in Seq(0..(Window + 1)) /\ f.sockets \in Nat
  BY DEF Records

LEMMA ReconnectParts ==
    ASSUME NEW f \in Records, NEW throws \in BOOLEAN
    PROVE  /\ Reconnect(f, throws) \in Records
           /\ Reconnect(f, throws).connection = ~throws
           /\ Reconnect(f, throws).reconnectTimer = None
           /\ Reconnect(f, throws).attempts = Append(f.attempts, 0)
  <1> DEFINE rows == Append(f.attempts, 0)
             opened == ~throws
             count == IF throws THEN f.sockets ELSE f.sockets + 1
             f1 == [f EXCEPT !.reconnectTimer = None]
             f2 == [f1 EXCEPT !.attempts = rows]
             f3 == [f2 EXCEPT !.connection = opened]
             f4 == [f3 EXCEPT !.sockets = count]
  <1>1. /\ f = [connection |-> f.connection, reconnectTimer |-> f.reconnectTimer,
                   strays |-> f.strays, attempts |-> f.attempts, sockets |-> f.sockets]
        /\ f.strays \in [Left -> Nat] /\ f.attempts \in Seq(0..(Window + 1)) /\ f.sockets \in Nat
    BY RecordParts
  <1>2. rows \in Seq(0..(Window + 1))
    <2>1. 0 \in 0..(Window + 1)
      BY WindowAssumption
    <2> QED BY <1>1, <2>1, AppendProperties
  <1>3. opened \in BOOLEAN /\ count \in Nat
    BY <1>1
  <1>4. Reconnect(f, throws) = [f EXCEPT !.reconnectTimer = None, !.attempts = rows,
                                         !.connection = opened, !.sockets = count]
    BY DEF Reconnect
  <1> HIDE DEF rows, opened, count
  <1>5. Reconnect(f, throws) = f4
    BY <1>4
  <1>6. f1 = [connection |-> f.connection, reconnectTimer |-> None,
              strays |-> f.strays, attempts |-> f.attempts, sockets |-> f.sockets]
    BY <1>1
  <1> HIDE DEF f1
  <1>7. f2 = [connection |-> f.connection, reconnectTimer |-> None,
              strays |-> f.strays, attempts |-> rows, sockets |-> f.sockets]
    BY ONLY <1>6
  <1> HIDE DEF f2
  <1>8. f3 = [connection |-> opened, reconnectTimer |-> None,
              strays |-> f.strays, attempts |-> rows, sockets |-> f.sockets]
    BY ONLY <1>7
  <1> HIDE DEF f3
  <1>9. f4 = [connection |-> opened, reconnectTimer |-> None,
              strays |-> f.strays, attempts |-> rows, sockets |-> count]
    BY ONLY <1>8
  <1> HIDE DEF f4
  <1>10. f4 \in Records
    BY <1>1, <1>2, <1>3, <1>9 DEF Records
  <1>11. f4.connection = opened /\ f4.reconnectTimer = None /\ f4.attempts = rows
    BY <1>9
  <1> QED BY <1>5, <1>10, <1>11 DEF opened, rows

LEMMA ScheduleParts ==
    ASSUME NEW f \in Records, NEW left \in Left
    PROVE  /\ Schedule(f, left) \in Records
           /\ Schedule(f, left).reconnectTimer = left
           /\ Schedule(f, left).attempts = f.attempts
  <1> DEFINE named == [f EXCEPT !.reconnectTimer = left]
             strays2 == IF f.reconnectTimer = None THEN f.strays
                        ELSE OneMore(f.strays, f.reconnectTimer)
             new == [named EXCEPT !.strays = strays2]
  <1>1. /\ f = [connection |-> f.connection, reconnectTimer |-> f.reconnectTimer,
                   strays |-> f.strays, attempts |-> f.attempts, sockets |-> f.sockets]
        /\ f.reconnectTimer \in Left \cup {None} /\ f.strays \in [Left -> Nat]
        /\ f.connection \in BOOLEAN /\ f.attempts \in Seq(0..(Window + 1)) /\ f.sockets \in Nat
    BY RecordParts
  <1>2. strays2 \in [Left -> Nat]
    BY <1>1 DEF OneMore
  <1>3. Schedule(f, left) = [f EXCEPT !.reconnectTimer = left, !.strays = strays2]
    <2>1. CASE f.reconnectTimer = None
      BY <2>1 DEF Schedule
    <2>2. CASE f.reconnectTimer # None
      BY <2>2 DEF Schedule
    <2> QED BY <2>1, <2>2
  <1> HIDE DEF strays2
  <1>4. Schedule(f, left) = new
    BY <1>3
  <1>5. named = [connection |-> f.connection, reconnectTimer |-> left,
                 strays |-> f.strays, attempts |-> f.attempts, sockets |-> f.sockets]
    BY <1>1
  <1> HIDE DEF named
  <1>6. new = [connection |-> f.connection, reconnectTimer |-> left,
               strays |-> strays2, attempts |-> f.attempts, sockets |-> f.sockets]
    BY ONLY <1>5
  <1> HIDE DEF new
  <1>7. new \in Records
    BY <1>1, <1>2, <1>6 DEF Records
  <1> QED BY <1>4, <1>6, <1>7

\* The delay before the next attempt fits into the Window.
LEMMA DelayInWindow ==
    ASSUME NEW rows \in Seq(0..Window), rows # <<>>, ~TooMany(Len(rows)), ~Due(rows)
    PROVE  Delay(Len(rows)) - MostRecent(rows) \in Left
  <1>1. Len(rows) \in 1..4
    <2>1. Len(rows) \in Nat /\ (Len(rows) = 0 => rows = <<>>)
      BY LenProperties, EmptySeq, SeqEqual
    <2>2. Len(rows) # 0 /\ Len(rows) < 5
      BY <2>1 DEF TooMany, GiveUp
    <2>3. \A n \in Nat : n # 0 /\ n < 5 => n \in 1..4
      OBVIOUS
    <2>4. Len(rows) \in Nat
      BY LenProperties
    <2> QED BY ONLY <2>2, <2>3, <2>4
  <1>2. Delay(Len(rows)) \in 1..8
    <2>1. Delay(1) \in 1..8 /\ Delay(2) \in 1..8
      <3>1. 1 - 1 = 0 /\ 2 - 1 = 1 /\ 2^0 = 1 /\ 2^1 = 2
        OBVIOUS
      <3> QED BY <3>1 DEF Delay
    <2>2. Delay(3) \in 1..8 /\ Delay(4) \in 1..8
      <3>1. 3 - 1 = 2 /\ 4 - 1 = 3 /\ 2^2 = 4 /\ 2^3 = 8
        OBVIOUS
      <3> QED BY <3>1 DEF Delay
    <2>3. \A n \in 1..4 : Delay(n) \in 1..8
      BY <2>1, <2>2
    <2> QED BY <1>1, <2>3
  <1>3. MostRecent(rows) \in Nat
    <2>1. \A i \in DOMAIN rows : rows[i] \in Nat
      <3>1. \A i \in 1..Len(rows) : rows[i] \in 0..Window
        BY ElementOfSeq
      <3> QED BY <3>1, LenProperties, WindowAssumption
    <2>2. 1 \in DOMAIN rows
      BY <1>1, LenProperties
    <2>3. ToSet(rows) \in SUBSET Nat /\ ToSet(rows) # {}
      BY <2>1, <2>2 DEF ToSet
    <2> QED BY <2>3, MinOfNumbers DEF MostRecent
  <1>4. Delay(Len(rows)) > MostRecent(rows)
    BY <1>2, <1>3 DEF Due
  <1> QED BY <1>2, <1>3, <1>4, WindowAssumption, SMTT(40) DEF Left

LEMMA AllInWindow ==
    ASSUME NEW rows \in Seq(0..Window)
    PROVE  AttemptsInWindow(rows) = Len(rows)
  <1>1. Len(rows) \in Nat /\ DOMAIN rows = 1..Len(rows) /\ \A i \in 1..Len(rows) : rows[i] \in 0..Window
    BY LenProperties, ElementOfSeq
  <1>2. {i \in DOMAIN rows : rows[i] <= Window} = 1..Len(rows)
    BY <1>1, WindowAssumption
  <1>3. Cardinality(1..Len(rows)) = Len(rows)
    BY <1>1, FS_Interval
  <1> QED BY <1>2, <1>3 DEF AttemptsInWindow

\* tryReconnect() leaves at most five rows.  If it sets no timer, there was a
\* connection or none is wanted, or five recent attempts, or none.
LEMMA TryReconnectFew ==
    ASSUME NEW f, Few(f), NEW throws \in BOOLEAN
    PROVE  /\ Few(TryReconnect(f, throws))
           /\ \/ TryReconnect(f, throws) = f /\ (f.connection \/ permanentClose)
              \/ TryReconnect(f, throws).reconnectTimer # None
              \/ AttemptsInWindow(TryReconnect(f, throws).attempts) >= GiveUp
              \/ TryReconnect(f, throws).attempts = <<0>>
  <1> DEFINE recent == Recent(f.attempts)
             counted == [f EXCEPT !.attempts = recent]
             opened == Reconnect(counted, throws)
             later == Delay(Len(recent)) - MostRecent(recent)
             new == TryReconnect(f, throws)
  <1>1. f \in Records /\ Len(f.attempts) <= GiveUp /\ f.attempts \in Seq(0..(Window + 1))
        /\ Len(f.attempts) \in Nat
    BY RecordParts, LenProperties DEF Few
  <1>2. /\ recent \in Seq(0..Window) /\ recent \in Seq(0..(Window + 1))
        /\ Len(recent) \in Nat /\ Len(recent) <= GiveUp
    <2>1. recent \in Seq((0..(Window + 1)) \cap (0..Window)) /\ Len(recent) <= Len(f.attempts)
      BY <1>1, KeptType DEF Recent
    <2>2. Seq((0..(Window + 1)) \cap (0..Window)) \subseteq Seq(0..Window)
      BY SeqMonotonic
    <2>3. 0..Window \subseteq 0..(Window + 1)
      BY WindowAssumption
    <2>4. Seq(0..Window) \subseteq Seq(0..(Window + 1))
      BY <2>3, SeqMonotonic
    <2>5. Len(recent) \in Nat
      BY <2>1, LenProperties
    <2> HIDE DEF recent
    <2> QED BY <1>1, <2>1, <2>2, <2>4, <2>5 DEF GiveUp
  <1>3. counted \in Records /\ counted.attempts = recent
    <2> HIDE DEF recent
    <2> QED BY <1>1, <1>2 DEF Records
  <1>4. Few(counted)
    <2> HIDE DEF counted
    <2> QED BY <1>2, <1>3 DEF Few
  <1>5. /\ opened \in Records /\ opened.attempts = Append(recent, 0)
        /\ Len(opened.attempts) = Len(recent) + 1
    <2> HIDE DEF counted, recent
    <2>1. opened \in Records /\ opened.attempts = Append(recent, 0)
      BY <1>3, ReconnectParts
    <2>2. Len(Append(recent, 0)) = Len(recent) + 1
      BY <1>2, WindowAssumption, AppendProperties
    <2> QED BY <2>1, <2>2
  <1>6. ~TooMany(Len(recent)) => Few(opened)
    <2> HIDE DEF opened, recent
    <2> QED BY <1>2, <1>5 DEF Few, TooMany, GiveUp
  <1>7. 0 \in Left /\ 0 # None /\ \A left \in Left : left # None
    BY WindowAssumption DEF Left, None
  <1> HIDE DEF opened, counted, recent
  <1>8. CASE Connected(f) \/ permanentClose
    BY <1>8 DEF TryReconnect, Connected
  <1>9. CASE ~(Connected(f) \/ permanentClose) /\ recent = <<>>
    <2>1. new = opened
      <3>1. Len(recent) = 0
        BY <1>9
      <3>2. ~TooMany(Len(recent))
        BY <3>1 DEF TooMany, GiveUp
      <3> QED BY <1>9, <3>2 DEF TryReconnect, opened, counted, recent
    <2>2. opened.attempts = <<0>> /\ ~TooMany(Len(recent))
      BY <1>5, <1>9 DEF TooMany, GiveUp
    <2> QED BY <1>6, <2>1, <2>2
  <1>10. CASE ~(Connected(f) \/ permanentClose) /\ recent # <<>> /\ TooMany(Len(recent))
    <2>1. new = counted
      BY <1>10 DEF TryReconnect, counted, recent
    <2>2. AttemptsInWindow(recent) >= GiveUp
      BY <1>2, <1>10, AllInWindow DEF TooMany
    <2> QED BY <1>3, <1>4, <2>1, <2>2
  <1>11. CASE ~(Connected(f) \/ permanentClose) /\ recent # <<>> /\ ~TooMany(Len(recent)) /\ Due(recent)
    <2>1. new = Schedule(opened, 0)
      BY <1>11 DEF TryReconnect, opened, counted, recent
    <2>2. /\ Schedule(opened, 0) \in Records /\ Schedule(opened, 0).reconnectTimer = 0
          /\ Schedule(opened, 0).attempts = opened.attempts
      BY <1>5, <1>7, ScheduleParts
    <2> QED BY <1>6, <1>7, <1>11, <2>1, <2>2 DEF Few
  <1>12. CASE ~(Connected(f) \/ permanentClose) /\ recent # <<>> /\ ~TooMany(Len(recent)) /\ ~Due(recent)
    <2>1. new = Schedule(counted, later)
      BY <1>12 DEF TryReconnect, counted, recent
    <2>2. later \in Left
      BY <1>2, <1>12, DelayInWindow
    <2> HIDE DEF later
    <2>3. /\ Schedule(counted, later) \in Records /\ Schedule(counted, later).reconnectTimer = later
          /\ Schedule(counted, later).attempts = recent
      BY <1>3, <2>2, ScheduleParts
    <2> QED BY <1>2, <1>7, <2>1, <2>2, <2>3 DEF Few
  <1> QED BY <1>8, <1>9, <1>10, <1>11, <1>12

ClientInv == Few(Fields) /\ permanentClose \in BOOLEAN

LEMMA FewParts ==
    Few(Fields) <=> /\ connection \in BOOLEAN /\ reconnectTimer \in Left \cup {None}
                    /\ strays \in [Left -> Nat] /\ attempts \in Seq(0..(Window + 1))
                    /\ sockets \in Nat /\ Len(attempts) <= GiveUp
  BY DEF Few, Fields, Records

\* A callback that ends in tryReconnect().
LEMMA CallbackFew ==
    ASSUME NEW f, Few(f), NEW throws \in BOOLEAN, Become(TryReconnect(f, throws)),
           permanentClose' = permanentClose, permanentClose \in BOOLEAN
    PROVE  /\ ClientInv'
           /\ Stopped' => AttemptsInWindow(attempts') >= GiveUp \/ attempts' = <<0>>
  <1> DEFINE new == TryReconnect(f, throws)
  <1>1. /\ Few(new)
        /\ \/ new = f /\ (f.connection \/ permanentClose)
           \/ new.reconnectTimer # None
           \/ AttemptsInWindow(new.attempts) >= GiveUp
           \/ new.attempts = <<0>>
    BY TryReconnectFew
  <1>2. /\ connection' = new.connection /\ reconnectTimer' = new.reconnectTimer
        /\ strays' = new.strays /\ attempts' = new.attempts /\ sockets' = new.sockets
    BY DEF Become
  <1> HIDE DEF new
  <1>3. /\ connection' \in BOOLEAN /\ reconnectTimer' \in Left \cup {None}
        /\ strays' \in [Left -> Nat] /\ attempts' \in Seq(0..(Window + 1))
        /\ sockets' \in Nat /\ Len(attempts') <= GiveUp
    BY <1>1, <1>2, RecordParts DEF Few
  <1>4. Few(Fields)'
    BY <1>3 DEF Few, Fields, Records
  <1>5. ASSUME Stopped' PROVE AttemptsInWindow(attempts') >= GiveUp \/ attempts' = <<0>>
    <2>1. ~connection' /\ ~permanentClose /\ reconnectTimer' = None
      BY <1>5 DEF Stopped
    <2>2. CASE new = f /\ (f.connection \/ permanentClose)
      BY <2>1, <2>2, <1>2
    <2>3. CASE new.reconnectTimer # None
      BY <2>1, <2>3, <1>2
    <2> QED BY <1>1, <1>2, <2>2, <2>3
  <1> QED BY <1>4, <1>5 DEF ClientInv

LEMMA TickFew ==
    ASSUME ClientInv, Tick
    PROVE  ClientInv' /\ (Stopped' => Stopped)
  <1>1. /\ connection \in BOOLEAN /\ reconnectTimer \in Left \cup {None}
        /\ strays \in [Left -> Nat] /\ attempts \in Seq(0..(Window + 1))
        /\ sockets \in Nat /\ Len(attempts) <= GiveUp /\ permanentClose \in BOOLEAN
    BY FewParts DEF ClientInv
  <1>2. Len(attempts) \in Nat /\ DOMAIN attempts = 1..Len(attempts)
        /\ \A i \in 1..Len(attempts) : attempts[i] \in 0..(Window + 1)
    BY <1>1, LenProperties, ElementOfSeq
  <1>3. ASSUME NEW a \in 0..(Window + 1) PROVE Min({a + 1, Window + 1}) \in 0..(Window + 1)
    <2> DEFINE S == {a + 1, Window + 1}
    <2>1. S \in SUBSET Nat /\ S # {} /\ \A x \in S : x > Window + 1 => Window + 1 \in S
      BY WindowAssumption
    <2> HIDE DEF S
    <2>2. Min(S) \in S /\ \A y \in S : Min(S) <= y
      BY <2>1, MinOfNumbers
    <2>3. Window + 1 \in S
      BY DEF S
    <2>4. Min(S) \in Nat /\ Min(S) <= Window + 1
      BY <2>1, <2>2, <2>3
    <2>5. Min(S) \in 0..(Window + 1)
      BY <2>4, WindowAssumption
    <2> QED BY <2>5 DEF S
  <1>4. attempts' \in Seq(0..(Window + 1)) /\ Len(attempts') = Len(attempts)
    <2> DEFINE older(i) == Min({attempts[i] + 1, Window + 1})
    <2>1. \A i \in 1..Len(attempts) : older(i) \in 0..(Window + 1)
      BY <1>2, <1>3
    <2> HIDE DEF older
    <2>2. attempts' = [i \in 1..Len(attempts) |-> older(i)]
      BY <1>2 DEF Tick, older
    <2>3. attempts' \in [1..Len(attempts) -> 0..(Window + 1)]
      BY <2>1, <2>2
    <2> DEFINE n == Len(attempts)
    <2>4. n \in Nat /\ attempts' \in [1..n -> 0..(Window + 1)]
      BY <1>2, <2>3
    <2> HIDE DEF n
    <2>5. attempts' \in Seq(0..(Window + 1))
      BY <2>4, SeqDef
    <2>6. Len(attempts') \in Nat /\ DOMAIN attempts' = 1..Len(attempts')
      BY <2>5, LenProperties
    <2>7. 1..Len(attempts') = 1..n
      BY <2>4, <2>6
    <2>8. Len(attempts') = n
      BY <2>4, <2>6, <2>7
    <2> QED BY <2>5, <2>8 DEF n
  <1>5. reconnectTimer' \in Left \cup {None} /\ (reconnectTimer' = None => reconnectTimer = None)
    BY <1>1, WindowAssumption DEF Tick, Left, None
  <1>6. strays' \in [Left -> Nat]
    <2> DEFINE left(d) == (IF d = 0 THEN strays[0] ELSE 0) + (IF d + 1 \in Left THEN strays[d + 1] ELSE 0)
    <2>1. \A d \in Left : left(d) \in Nat
      BY <1>1, WindowAssumption DEF Left
    <2> HIDE DEF left
    <2>2. strays' = [d \in Left |-> left(d)]
      BY DEF Tick, left
    <2> QED BY <2>1, <2>2
  <1>7. ClientInv'
    <2>1. connection' = connection /\ permanentClose' = permanentClose /\ sockets' = sockets
      BY DEF Tick
    <2>2. Few(Fields)'
      BY <1>1, <1>4, <1>5, <1>6, <2>1 DEF Few, Fields, Records
    <2> QED BY <1>1, <2>1, <2>2 DEF ClientInv
  <1>8. ASSUME Stopped' PROVE Stopped
    <2>1. \A d \in Left : strays[d] = 0
      <3> TAKE d \in Left
      <3>1. CASE d = 0
        BY <3>1 DEF Tick
      <3>2. CASE d # 0
        <4>1. d - 1 \in Left /\ (d - 1) + 1 = d
          BY <3>2, WindowAssumption DEF Left
        <4>2. strays'[d - 1] = (IF d - 1 = 0 THEN strays[0] ELSE 0)
                                 + (IF (d - 1) + 1 \in Left THEN strays[(d - 1) + 1] ELSE 0)
          BY <4>1 DEF Tick
        <4>3. strays'[d - 1] = 0 /\ strays[0] = 0
          BY <4>1, <1>8 DEF Stopped, Tick
        <4>4. strays'[d - 1] = 0 + strays[d]
          BY <4>1, <4>2, <4>3
        <4> QED BY <4>3, <4>4, <1>1
      <3> QED BY <3>1, <3>2
    <2> QED BY <1>5, <1>8, <2>1 DEF Stopped, Tick
  <1> QED BY <1>7, <1>8

\* Which steps stop the client, and what they leave.
LEMMA ClientStep ==
    ASSUME ClientInv, [Next]_vars
    PROVE  /\ ClientInv'
           /\ Stopped' /\ ~Stopped =>
                 AttemptsInWindow(attempts') >= GiveUp \/ attempts' = <<0>>
  <1>0. /\ connection \in BOOLEAN /\ reconnectTimer \in Left \cup {None}
        /\ strays \in [Left -> Nat] /\ attempts \in Seq(0..(Window + 1))
        /\ sockets \in Nat /\ Len(attempts) <= GiveUp /\ permanentClose \in BOOLEAN
    BY FewParts DEF ClientInv
  <1>1. CASE SocketCloses
    <2> DEFINE f == [OneSocketLess EXCEPT !.connection = FALSE]
    <2>1. PICK throws \in BOOLEAN : Become(TryReconnect(f, throws))
      BY <1>1 DEF SocketCloses
    <2>2. Few(f)
      <3>1. OneSocketLess = [connection |-> connection, reconnectTimer |-> reconnectTimer,
                             strays |-> strays, attempts |-> attempts, sockets |-> sockets - 1]
        BY DEF OneSocketLess, Fields
      <3>2. sockets - 1 \in Nat
        BY <1>0, <1>1 DEF SocketCloses
      <3>3. OneSocketLess \in Records /\ OneSocketLess.attempts = attempts
        BY <1>0, <3>1, <3>2 DEF Records
      <3>4. f \in Records /\ f.attempts = attempts
        <4> DEFINE off == FALSE
        <4>1. off \in BOOLEAN
          OBVIOUS
        <4> HIDE DEF off
        <4>2. [OneSocketLess EXCEPT !.connection = off] \in Records
              /\ [OneSocketLess EXCEPT !.connection = off].attempts = attempts
          BY <3>3, <4>1 DEF Records
        <4> QED BY <4>2 DEF off
      <3> QED BY <1>0, <3>4 DEF Few
    <2>3. permanentClose' = permanentClose
      BY <1>1 DEF SocketCloses
    <2> HIDE DEF f
    <2> QED BY <1>0, <2>1, <2>2, <2>3, CallbackFew
  <1>2. CASE TimerFires
    <2> DEFINE f == [Fields EXCEPT !.reconnectTimer = None]
    <2>1. PICK throws \in BOOLEAN : Become(TryReconnect(f, throws))
      BY <1>2 DEF TimerFires
    <2>2. Few(f)
      BY <1>0 DEF Fields, Few, Records
    <2>3. permanentClose' = permanentClose
      BY <1>2 DEF TimerFires
    <2> HIDE DEF f
    <2> QED BY <1>0, <2>1, <2>2, <2>3, CallbackFew
  <1>3. CASE StrayFires
    <2> DEFINE f == [Fields EXCEPT !.strays[0] = @ - 1]
    <2>1. PICK throws \in BOOLEAN : Become(TryReconnect(f, throws))
      BY <1>3 DEF StrayFires
    <2>2. Few(f)
      <3> DEFINE fewer == [strays EXCEPT ![0] = @ - 1]
      <3>1. fewer \in [Left -> Nat]
        <4>1. 0 \in Left /\ strays[0] - 1 \in Nat
          BY <1>0, <1>3, WindowAssumption DEF StrayFires, Left
        <4> QED BY <1>0, <4>1
      <3>2. f = [Fields EXCEPT !.strays = fewer]
        BY DEF Fields
      <3> HIDE DEF fewer, f
      <3>3. f = [connection |-> connection, reconnectTimer |-> reconnectTimer,
                 strays |-> fewer, attempts |-> attempts, sockets |-> sockets]
        BY <3>2 DEF Fields
      <3> QED BY <1>0, <3>1, <3>3 DEF Few, Records
    <2>3. permanentClose' = permanentClose
      BY <1>3 DEF StrayFires
    <2> HIDE DEF f
    <2> QED BY <1>0, <2>1, <2>2, <2>3, CallbackFew
  <1>4. CASE CloseClient
    <2>1. ~Stopped'
      BY <1>4 DEF CloseClient, Stopped
    <2>2. Few(Fields)'
      BY <1>0, <1>4 DEF CloseClient, Few, Fields, Records
    <2> QED BY <1>4, <2>1, <2>2 DEF CloseClient, ClientInv
  <1>5. CASE Tick
    BY <1>5, TickFew
  <1>6. CASE UNCHANGED vars
    BY <1>6 DEF vars, ClientInv, Few, Fields, Stopped
  <1> QED BY <1>1, <1>2, <1>3, <1>4, <1>5, <1>6 DEF Next

LEMMA InitClient == Init => ClientInv
  <1> SUFFICES ASSUME Init PROVE ClientInv
    OBVIOUS
  <1>1. 0 \in 0..(Window + 1) /\ 0 \in Left
    BY WindowAssumption DEF Left
  <1>2. <<0>> \in Seq(0..(Window + 1)) /\ Len(<<0>>) = 1
    BY <1>1
  <1>3. sockets \in Nat
    BY DEF Init
  <1>4. connection \in BOOLEAN /\ reconnectTimer = None /\ strays = [d \in Left |-> 0]
        /\ attempts = <<0>> /\ permanentClose = FALSE
    BY DEF Init
  <1>5. strays \in [Left -> Nat]
    BY <1>4
  <1>6. Few(Fields)
    <2>1. attempts \in Seq(0..(Window + 1)) /\ Len(attempts) <= GiveUp
      BY <1>2, <1>4 DEF GiveUp
    <2> QED BY <1>3, <1>4, <1>5, <2>1, FewParts
  <1> QED BY <1>4, <1>6 DEF ClientInv

\* The timers, the ages of the attempts and the sockets have the right types, for
\* any Window that holds the longest delay.
THEOREM ClientTypeCorrect == Spec => []TypeOK
  <1>1. ClientInv => TypeOK
    BY FewParts DEF ClientInv, TypeOK
  <1> QED BY <1>1, InitClient, ClientStep, PTL DEF Spec

\* At most five attempts are made in any Window, however they were started: by lost
\* sockets, by the timer or by timers that tryReconnect() has overwritten.
THEOREM AtMostFiveInWindow == Spec => []FiveInWindow
  <1>1. ClientInv => FiveInWindow
    <2> SUFFICES ASSUME ClientInv PROVE FiveInWindow
      OBVIOUS
    <2>1. Len(attempts) \in Nat /\ DOMAIN attempts = 1..Len(attempts) /\ Len(attempts) <= GiveUp
      BY FewParts, LenProperties DEF ClientInv
    <2>2. IsFiniteSet(1..Len(attempts)) /\ Cardinality(1..Len(attempts)) = Len(attempts)
      <3> DEFINE n == Len(attempts)
      <3>1. n \in Nat
        BY <2>1
      <3> HIDE DEF n
      <3>2. IsFiniteSet(1..n) /\ Cardinality(1..n) = n
        BY <3>1, FS_Interval
      <3> QED BY <3>2 DEF n
    <2> DEFINE S == {i \in 1..Len(attempts) : attempts[i] <= Window}
    <2>3. IsFiniteSet(S) /\ Cardinality(S) <= Len(attempts)
      BY <2>2, FS_Subset
    <2>4. Cardinality(S) \in Nat /\ AttemptsInWindow(attempts) = Cardinality(S)
      BY <2>1, <2>3, FS_CardinalityType DEF AttemptsInWindow
    <2> QED BY <2>1, <2>3, <2>4 DEF FiveInWindow, GiveUp
  <1> QED BY <1>1, InitClient, ClientStep, PTL DEF Spec

\* The client stops trying only after five recent attempts, or when getSocket()
\* threw on an attempt before which none was recent.
THEOREM GivesUpOnlyThen == Spec => StopsOnlyWhen
  <1>1. ClientInv /\ [Next]_vars => ClientInv'
    BY ClientStep
  <1>2. ClientInv /\ [Next]_vars =>
           [Stopped' /\ ~Stopped =>
               AttemptsInWindow(attempts') >= GiveUp \/ attempts' = <<0>>]_vars
    BY ClientStep
  <1> QED BY <1>1, <1>2, InitClient, PTL DEF Spec, StopsOnlyWhen

=============================================================================
