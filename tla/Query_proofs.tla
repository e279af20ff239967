---------------------------- MODULE Query_proofs ----------------------------
(***************************************************************************)
(* Theorems about GraphQuery, for any handlers, queries, parameters and     *)
(* results of callbacks; and, in the second half, about LexedText, for any  *)
(* letters, pieces and lengths of texts.                                    *)
(***************************************************************************)
EXTENDS GraphQuery, LexedText, NumberLemmas

-----------------------------------------------------------------------------
\* Chains of streams

Streams(E) == [attached : BOOLEAN, hasBacklog : BOOLEAN, backlog : Seq(E), up : BOOLEAN, down : BOOLEAN]
OutEvent(shape) == {Reshaped(shape, e) : e \in {x \in Event : Shows(shape, x)}}
Reader == {"none", "listener", "items"}
Chains(shape) ==
    [source : Streams(Event), result : Streams(Event), task : Streams(Event),
     output : Streams(OutEvent(shape)), shape : {shape}, reader : Reader, ended : BOOLEAN,
     got : Seq(OutEvent(shape)), thrown : Exceptions]

\* What TypeOK says of a stream.
Held(s) == (s.attached => ~s.hasBacklog /\ ~s.down) /\ (~s.hasBacklog => s.backlog = <<>>)

\* A chain between any two calls.
Sound(d) ==
    /\ d \in Chains(d.shape)
    /\ Held(d.source) /\ Held(d.result) /\ Held(d.task) /\ Held(d.output)
    /\ d.reader = "none" => ~d.output.attached /\ d.output.hasBacklog /\ ~d.ended /\ d.got = <<>>

\* What no call changes but the caller's own.
Onward(d, r) ==
    /\ Sound(r) /\ r.shape = d.shape /\ r.reader = d.reader /\ r.output.down = d.output.down

\* What receive() does after its receiver.
AfterCall(d, k) == AfterReceive(AfterSend(d, k), k)

LEMMA TheOne == \A x : The({x}) = x
  BY DEF The

LEMMA TheAfter == \A x, k : The({AfterReceive(AfterSend(d, k), k) : d \in {x}}) = AfterCall(x, k)
  <1> TAKE x, k
  <1>1. {AfterReceive(AfterSend(d, k), k) : d \in {x}} = {AfterCall(x, k)}
    BY DEF AfterCall
  <1> QED BY <1>1, TheOne

LEMMA ThrewSound ==
    ASSUME NEW d, Sound(d), NEW what \in Exceptions
    PROVE  /\ Onward(d, Threw(d, what))
           /\ Threw(d, what).thrown = what /\ Threw(d, what).got = d.got /\ Threw(d, what).ended = d.ended
           /\ Threw(d, what).source = d.source /\ Threw(d, what).result = d.result
           /\ Threw(d, what).task = d.task /\ Threw(d, what).output = d.output
  BY DEF Threw, Sound, Onward, Chains

\* Another state of a stream.
LEMMA SourceSound ==
    ASSUME NEW d, Sound(d), NEW s \in Streams(Event), Held(s)
    PROVE  LET r == [d EXCEPT !.source = s]
           IN  /\ Onward(d, r)
               /\ r.source = s /\ r.result = d.result /\ r.task = d.task /\ r.output = d.output
               /\ r.got = d.got /\ r.ended = d.ended /\ r.thrown = d.thrown
  BY DEF Sound, Onward, Chains

LEMMA ResultSound ==
    ASSUME NEW d, Sound(d), NEW s \in Streams(Event), Held(s)
    PROVE  LET r == [d EXCEPT !.result = s]
           IN  /\ Onward(d, r)
               /\ r.source = d.source /\ r.result = s /\ r.task = d.task /\ r.output = d.output
               /\ r.got = d.got /\ r.ended = d.ended /\ r.thrown = d.thrown
  BY DEF Sound, Onward, Chains

LEMMA TaskSound ==
    ASSUME NEW d, Sound(d), NEW s \in Streams(Event), Held(s)
    PROVE  LET r == [d EXCEPT !.task = s]
           IN  /\ Onward(d, r)
               /\ r.source = d.source /\ r.result = d.result /\ r.task = s /\ r.output = d.output
               /\ r.got = d.got /\ r.ended = d.ended /\ r.thrown = d.thrown
  BY DEF Sound, Onward, Chains

LEMMA OutputSound ==
    ASSUME NEW d, Sound(d), NEW s \in Streams(OutEvent(d.shape)), Held(s),
           d.reader = "none" => ~s.attached /\ s.hasBacklog
    PROVE  LET r == [d EXCEPT !.output = s]
           IN  /\ Sound(r) /\ r.shape = d.shape /\ r.reader = d.reader
               /\ r.source = d.source /\ r.result = d.result /\ r.task = d.task /\ r.output = s
               /\ r.got = d.got /\ r.ended = d.ended /\ r.thrown = d.thrown
  BY DEF Sound, Chains

\* A chain that is the same but for what was thrown.
Same(d, r) ==
    /\ Onward(d, r) /\ r.got = d.got /\ r.ended = d.ended
    /\ r.source = d.source /\ r.result = d.result /\ r.task = d.task /\ r.output = d.output

-----------------------------------------------------------------------------
\* Events

LEMMA EventKinds ==
    /\ {Schema, Done, Error, Close} \subseteq Event
    /\ \A e \in Event :
        /\ e.t = "close" <=> e = Close
        /\ e.t = "done" <=> e = Done
        /\ e.t # "item" => e \in {Schema, Done, Error, Close}
        /\ e.t = "item" => e.item \in Items /\ e = Item(e.item)
  BY DEF Event, Schema, Done, Error, Close, Item

\* The filter lets items become others, and nothing else.
LEMMA ShownEvent ==
    ASSUME NEW shape, NEW e \in Event, Shows(shape, e)
    PROVE  /\ Reshaped(shape, e) \in OutEvent(shape)
           /\ Reshaped(shape, e).t = e.t
           /\ Reshaped(shape, e) = Done <=> e = Done
           /\ Reshaped(shape, e) = Close <=> e = Close
  <1>1. Reshaped(shape, e) \in OutEvent(shape)
    BY DEF OutEvent
  <1>2. CASE e.t = "item"
    <2>1. Reshaped(shape, e).t = "item"
      BY <1>2 DEF Reshaped, Item
    <2>2. Done.t # "item" /\ Close.t # "item"
      BY DEF Done, Close
    <2> QED BY <1>1, <1>2, <2>1, <2>2
  <1>3. CASE e.t # "item"
    BY <1>1, <1>3 DEF Reshaped
  <1> QED BY <1>2, <1>3

LEMMA OutEventKinds ==
    ASSUME NEW shape, NEW x \in OutEvent(shape)
    PROVE  \E e \in Event : Shows(shape, e) /\ x = Reshaped(shape, e)
  BY DEF OutEvent

-----------------------------------------------------------------------------
\* The output and its reader

\* What a reader of promiseItems() does to an item that comes after done.
Overrun(d, r, e) ==
    /\ Same(d, r) /\ r.thrown = "failed"
    /\ d.reader = "items" /\ d.ended /\ e.t = "item"

LEMMA ReadDoes ==
    ASSUME NEW d, Sound(d), d.thrown = "none", d.reader # "none", NEW e \in OutEvent(d.shape)
    PROVE  LET r == Read(d, e)
           IN  \/ Overrun(d, r, e)
               \/ /\ Onward(d, r) /\ r.thrown = "none" /\ r.got = Append(d.got, e)
                  /\ r.ended <=> d.ended \/ e \in {Done, Close}
                  /\ r.source = d.source /\ r.result = d.result /\ r.task = d.task /\ r.output = d.output
  <1> DEFINE r == Read(d, e)
  <1>1. CASE d.reader = "items" /\ d.ended /\ e.t = "item"
    <2>1. r = Threw(d, "failed")
      BY <1>1 DEF Read
    <2>2. "failed" \in Exceptions
      BY DEF Exceptions
    <2>3. Same(d, Threw(d, "failed")) /\ Threw(d, "failed").thrown = "failed"
      BY <2>2, ThrewSound DEF Same
    <2> QED BY <1>1, <2>1, <2>3 DEF Overrun
  <1>2. CASE ~(d.reader = "items" /\ d.ended /\ e.t = "item")
    <2> DEFINE ended == d.ended \/ e \in {Done, Close}
               got == Append(d.got, e)
    <2>1. r = [d EXCEPT !.got = got, !.ended = ended]
      BY <1>2 DEF Read
    <2>2. ended \in BOOLEAN
      BY DEF Sound, Chains
    <2>3. got \in Seq(OutEvent(d.shape))
      BY AppendProperties DEF Sound, Chains
    <2> HIDE DEF ended, got
    <2>4. /\ r \in Chains(d.shape) /\ r.shape = d.shape
          /\ r.reader = d.reader /\ r.thrown = "none" /\ r.got = got
          /\ r.source = d.source /\ r.result = d.result /\ r.task = d.task /\ r.output = d.output
      BY <2>1, <2>2, <2>3 DEF Sound, Chains
    <2>5. r.ended = ended
      BY <2>1 DEF Sound, Chains
    <2>6. Onward(d, r)
      BY <2>4 DEF Sound, Onward
    <2> QED BY <2>4, <2>5, <2>6 DEF got, ended
  <1> QED BY <1>1, <1>2

-----------------------------------------------------------------------------
\* What receive() does to a stream, whatever its receiver does.

Open(s) == ~s.up /\ ~s.down /\ (s.attached \/ s.hasBacklog)
Marked(s, e) == [s EXCEPT !.up = s.up \/ e = Close]
LetGo(s) == [s EXCEPT !.attached = FALSE]
Pushed(s, e) == [Marked(s, e) EXCEPT !.backlog = Append(@, e)]

LEMMA MarkedDoes ==
    ASSUME NEW E, NEW s \in Streams(E), Held(s), NEW e
    PROVE  /\ Marked(s, e) \in Streams(E) /\ Held(Marked(s, e))
           /\ Marked(s, e).attached = s.attached /\ Marked(s, e).hasBacklog = s.hasBacklog
           /\ Marked(s, e).backlog = s.backlog /\ Marked(s, e).down = s.down
           /\ e = Close => Marked(s, e).up
           /\ e # Close => Marked(s, e) = s
  <1> DEFINE up == s.up \/ e = Close
             m == [s EXCEPT !.up = up]
  <1>1. up \in BOOLEAN
    BY DEF Streams
  <1>2. e # Close => up = s.up
    BY DEF Streams
  <1>3. e = Close => up = TRUE
    OBVIOUS
  <1> HIDE DEF up
  <1>4. m \in Streams(E) /\ m.attached = s.attached /\ m.hasBacklog = s.hasBacklog
        /\ m.backlog = s.backlog /\ m.down = s.down /\ m.up = up
    BY <1>1 DEF Streams
  <1>5. up = s.up => m = s
    BY DEF Streams
  <1>6. Marked(s, e) = m
    BY DEF Marked, up
  <1> QED BY <1>2, <1>3, <1>4, <1>5, <1>6 DEF Held

LEMMA LetGoDoes ==
    ASSUME NEW E, NEW s \in Streams(E), Held(s)
    PROVE  /\ LetGo(s) \in Streams(E) /\ Held(LetGo(s)) /\ ~LetGo(s).attached
           /\ LetGo(s).hasBacklog = s.hasBacklog /\ LetGo(s).backlog = s.backlog
           /\ LetGo(s).up = s.up /\ LetGo(s).down = s.down
  BY DEF LetGo, Streams, Held

LEMMA PushedDoes ==
    ASSUME NEW E, NEW s \in Streams(E), Held(s), s.hasBacklog, NEW e \in E
    PROVE  /\ Pushed(s, e) \in Streams(E) /\ Held(Pushed(s, e))
           /\ Pushed(s, e).attached = s.attached /\ Pushed(s, e).hasBacklog
           /\ Pushed(s, e).backlog = Append(s.backlog, e) /\ Pushed(s, e).down = s.down
           /\ Pushed(s, e).up = Marked(s, e).up
           /\ e # Close => Pushed(s, e).up = s.up
  <1> DEFINE m == Marked(s, e)
             b == Append(m.backlog, e)
  <1>1. /\ m \in Streams(E) /\ Held(m) /\ m.hasBacklog /\ m.attached = s.attached
        /\ m.backlog = s.backlog /\ m.down = s.down /\ (e # Close => m.up = s.up)
    BY MarkedDoes
  <1>2. b \in Seq(E)
    BY <1>1, AppendProperties DEF Streams
  <1>3. Pushed(s, e) = [m EXCEPT !.backlog = b]
    BY DEF Pushed
  <1> HIDE DEF m
  <1>4. b = Append(s.backlog, e)
    BY <1>1
  <1> HIDE DEF b
  <1>5. /\ [m EXCEPT !.backlog = b] \in Streams(E)
        /\ [m EXCEPT !.backlog = b].attached = m.attached
        /\ [m EXCEPT !.backlog = b].hasBacklog = m.hasBacklog
        /\ [m EXCEPT !.backlog = b].backlog = b
        /\ [m EXCEPT !.backlog = b].down = m.down /\ [m EXCEPT !.backlog = b].up = m.up
    BY <1>1, <1>2 DEF Streams
  <1> QED BY <1>1, <1>3, <1>4, <1>5 DEF m, Held

LEMMA ClosedDoes ==
    ASSUME NEW E, NEW s \in Streams(E), Held(s)
    PROVE  ClosedByDownstream(s) \in Streams(E) /\ Held(ClosedByDownstream(s)) /\ ClosedByDownstream(s).down
  <1>1. <<>> \in Seq(E)
    BY EmptySeq
  <1> QED BY <1>1 DEF ClosedByDownstream, Streams, Held

-----------------------------------------------------------------------------
\* Into the output

Out(d) == d.got \o d.output.backlog

LEMMA JoinAppend ==
    ASSUME NEW A, NEW a \in Seq(A), NEW b \in Seq(A), NEW e \in A
    PROVE  /\ a \o b \in Seq(A)
           /\ a \o Append(b, e) = Append(a \o b, e)
           /\ b = <<>> => Append(a, e) \o b = Append(a \o b, e)
  <1>1. a \o b \in Seq(A) /\ Append(a, e) \in Seq(A)
    BY ConcatProperties, AppendProperties
  <1>2. a \o <<>> = a
    BY ConcatEmptySeq
  <1>3. Append(a, e) \o <<>> = Append(a, e)
    BY <1>1, ConcatEmptySeq
  <1> QED BY <1>1, <1>2, <1>3, ConcatAppend

LEMMA OutAppend ==
    ASSUME NEW d, Sound(d), NEW e \in OutEvent(d.shape)
    PROVE  /\ d.got \o Append(d.output.backlog, e) = Append(Out(d), e)
           /\ d.output.backlog = <<>> => Append(d.got, e) \o d.output.backlog = Append(Out(d), e)
           /\ Out(d) \in Seq(OutEvent(d.shape))
  <1>1. d.got \in Seq(OutEvent(d.shape)) /\ d.output.backlog \in Seq(OutEvent(d.shape))
    BY DEF Sound, Chains, Streams
  <1> DEFINE a == d.got
             b == d.output.backlog
             E == OutEvent(d.shape)
  <1>2. a \in Seq(E) /\ b \in Seq(E) /\ e \in E /\ Out(d) = a \o b
    BY <1>1 DEF Out
  <1> HIDE DEF a, b, E
  <1>3. /\ a \o b \in Seq(E) /\ a \o Append(b, e) = Append(a \o b, e)
        /\ b = <<>> => Append(a, e) \o b = Append(a \o b, e)
    BY ONLY <1>2, JoinAppend
  <1> QED BY <1>2, <1>3 DEF a, b, E

\* An event is added to what the reader has or will have.
Added(d, r, e) ==
    /\ r.thrown = "none" /\ Out(r) = Append(Out(d), e)
    /\ r.ended => d.ended \/ e \in {Done, Close}
    /\ e # Close => Open(r.output)

LEMMA ToOutputDoes ==
    ASSUME NEW d, Sound(d), d.thrown = "none", NEW e \in OutEvent(d.shape), NEW r, r = ToOutput(d, e)
    PROVE  /\ Onward(d, r)
           /\ r.source = d.source /\ r.result = d.result /\ r.task = d.task
           /\ Open(d.output) => Overrun(d, r, e) \/ Added(d, r, e)
  <1> DEFINE s == d.output
             S == Streams(OutEvent(d.shape))
  <1>1. s \in S /\ Held(s) /\ (d.reader = "none" => ~s.attached /\ s.hasBacklog)
    BY DEF Sound, Chains
  <1>2. {"stop", "protocol"} \subseteq Exceptions
    BY DEF Exceptions
  <1>3. CASE s.down
    <2>1. r = Threw(d, "stop")
      BY <1>3 DEF ToOutput, ReceiveWith
    <2> QED BY <1>2, <1>3, <2>1, ThrewSound DEF Open
  <1>4. CASE ~s.down /\ e = Close /\ s.up
    <2>1. r = Threw(d, "protocol")
      BY <1>4 DEF ToOutput, ReceiveWith
    <2> QED BY <1>2, <1>4, <2>1, ThrewSound DEF Open
  <1>5. CASE ~s.down /\ ~(e = Close /\ s.up)
    <2> DEFINE m == [d EXCEPT !.output = Marked(s, e)]
    <2>1. [d EXCEPT !.output.up = s.up \/ e = Close] = m
      BY DEF Marked
    <2>2. /\ Onward(d, m) /\ m.output = Marked(s, e) /\ m.got = d.got /\ m.ended = d.ended /\ m.thrown = "none"
          /\ m.source = d.source /\ m.result = d.result /\ m.task = d.task
      BY <1>1, MarkedDoes, OutputSound DEF Onward
    <2>3. m.output.attached = s.attached /\ m.output.hasBacklog = s.hasBacklog
          /\ m.output.backlog = s.backlog /\ (e # Close => m.output = s) /\ Held(m.output)
          /\ m.output \in S
      BY <1>1, <2>2, MarkedDoes
    <2>4. CASE s.attached
      <3> DEFINE x == Read(m, e)
      <3>1. r = AfterCall(x, "output")
        <4>1. r = The({AfterReceive(AfterSend(y, "output"), "output") : y \in {x}})
          BY <1>5, <2>1, <2>4 DEF ToOutput, ReceiveWith
        <4> QED BY <4>1, TheAfter
      <3>2. /\ Sound(m) /\ m.shape = d.shape /\ m.reader = d.reader /\ d.reader # "none"
        BY <1>1, <2>2, <2>4 DEF Onward
      <3> HIDE DEF m
      <3>3. \/ Overrun(m, x, e)
            \/ /\ Onward(m, x) /\ x.thrown = "none" /\ x.got = Append(m.got, e)
               /\ x.ended <=> m.ended \/ e \in {Done, Close}
               /\ x.source = m.source /\ x.result = m.result /\ x.task = m.task /\ x.output = m.output
        BY <2>2, <3>2, ReadDoes
      <3> HIDE DEF x
      <3>4. CASE Overrun(m, x, e)
        <4>1. r = x /\ x.thrown = "failed"
          BY <3>1, <3>4 DEF Overrun, AfterCall, AfterSend, AfterReceive
        <4>2. e # Close
          BY <3>4 DEF Overrun, Close
        <4>3. Overrun(d, r, e)
          BY <2>2, <2>3, <3>4, <4>1, <4>2 DEF Overrun, Same, Onward
        <4> QED BY <4>3 DEF Overrun, Same
      <3>5. CASE ~Overrun(m, x, e)
        <4>1. /\ Onward(d, x) /\ x.thrown = "none" /\ x.got = Append(d.got, e)
              /\ x.ended <=> d.ended \/ e \in {Done, Close}
              /\ x.source = d.source /\ x.result = d.result /\ x.task = d.task /\ x.output = m.output
          BY <2>2, <3>3, <3>5 DEF Onward
        <4>2. r = IF m.output.up THEN [x EXCEPT !.output = LetGo(m.output)] ELSE x
          BY <3>1, <4>1 DEF AfterCall, AfterSend, AfterReceive, LetGo
        <4>3. s.backlog = <<>>
          BY <1>1, <2>4 DEF Held
        <4>4. CASE m.output.up
          <5> DEFINE g == LetGo(m.output)
          <5>1. /\ g \in S /\ Held(g) /\ g.backlog = <<>> /\ g.down = m.output.down
            BY <2>3, <4>3, LetGoDoes
          <5>2. Sound(x) /\ x.shape = d.shape /\ x.reader # "none" /\ x.output.down = d.output.down
            BY <3>2, <4>1 DEF Onward
          <5> HIDE DEF g
          <5>3. /\ Sound(r) /\ r.shape = x.shape /\ r.reader = x.reader /\ r.output = g
                /\ r.source = x.source /\ r.result = x.result /\ r.task = x.task
                /\ r.got = x.got /\ r.ended = x.ended /\ r.thrown = x.thrown
            BY <4>2, <4>4, <5>1, <5>2, OutputSound DEF g
          <5>4. Onward(d, r)
            BY <4>1, <5>1, <5>2, <5>3 DEF Onward
          <5>5. Open(s) => e = Close
            BY <2>3, <4>4 DEF Open
          <5>6. Out(r) = Append(Out(d), e)
            <6>1. Out(r) = Append(d.got, e) \o d.output.backlog
              BY <4>1, <4>3, <5>1, <5>3 DEF Out
            <6>2. Append(d.got, e) \o d.output.backlog = Append(Out(d), e)
              BY <4>3, OutAppend
            <6> QED BY <6>1, <6>2
          <5> QED BY <4>1, <5>3, <5>4, <5>5, <5>6 DEF Added
        <4>5. CASE ~m.output.up
          <5>1. r = x
            BY <4>2, <4>5
          <5>2. Out(r) = Append(Out(d), e)
            <6>1. Out(r) = Append(d.got, e) \o d.output.backlog
              BY <2>3, <4>1, <4>3, <5>1 DEF Out
            <6>2. Append(d.got, e) \o d.output.backlog = Append(Out(d), e)
              BY <4>3, OutAppend
            <6> QED BY <6>1, <6>2
          <5>3. Open(s) /\ e # Close => Open(r.output)
            BY <2>3, <4>1, <5>1
          <5> QED BY <4>1, <5>1, <5>2, <5>3 DEF Added
        <4> QED BY <4>4, <4>5
      <3> QED BY <3>4, <3>5
    <2>5. CASE ~s.attached /\ s.hasBacklog
      <3> DEFINE p == Pushed(s, e)
      <3>1. r = [d EXCEPT !.output = p]
        <4>1. r = [m EXCEPT !.output.backlog = Append(@, e)]
          BY <1>5, <2>1, <2>5 DEF ToOutput, ReceiveWith
        <4>2. [m EXCEPT !.output.backlog = Append(@, e)] = [d EXCEPT !.output = p]
          BY <2>2 DEF Pushed, Sound, Chains
        <4> QED BY <4>1, <4>2
      <3>2. /\ p \in S /\ Held(p) /\ ~p.attached /\ p.hasBacklog
            /\ p.backlog = Append(s.backlog, e) /\ p.down = s.down
            /\ e # Close => p.up = s.up
        BY <1>1, <2>5, PushedDoes
      <3> HIDE DEF p, m
      <3>3. /\ Onward(d, r) /\ r.output = p /\ r.got = d.got /\ r.ended = d.ended /\ r.thrown = "none"
            /\ r.source = d.source /\ r.result = d.result /\ r.task = d.task
        BY <3>1, <3>2, OutputSound DEF Onward
      <3>4. Out(r) = Append(Out(d), e)
        BY <3>2, <3>3, OutAppend DEF Out
      <3>5. Open(s) /\ e # Close => Open(r.output)
        BY <3>2, <3>3 DEF Open
      <3> QED BY <3>3, <3>4, <3>5 DEF Added
    <2>6. CASE ~s.attached /\ ~s.hasBacklog
      <3>1. r = m
        BY <1>5, <2>1, <2>6 DEF ToOutput, ReceiveWith
      <3> QED BY <2>2, <2>6, <3>1 DEF Open
    <2> QED BY <2>4, <2>5, <2>6
  <1> QED BY <1>3, <1>4, <1>5

-----------------------------------------------------------------------------
\* Through the filter

\* What a reader has or will have of an event.
Shown(shape, seq, e) == IF Shows(shape, e) THEN Append(seq, Reshaped(shape, e)) ELSE seq

\* An event passes the filter.
Filtered(d, r, e) ==
    /\ r.thrown = "none" /\ Out(r) = Shown(d.shape, Out(d), e)
    /\ r.ended => d.ended \/ e \in {Done, Close}
    /\ e # Close => Open(r.output)

LEMMA FilterDoes ==
    ASSUME NEW d, Sound(d), d.thrown = "none", NEW e \in Event, NEW r, r = Filter(d, e)
    PROVE  /\ Onward(d, r)
           /\ r.source = d.source /\ r.result = d.result /\ r.task = d.task
           /\ Open(d.output) => Overrun(d, r, e) \/ Filtered(d, r, e)
  <1>1. CASE Shows(d.shape, e)
    <2> DEFINE x == Reshaped(d.shape, e)
    <2>1. /\ x \in OutEvent(d.shape) /\ x.t = e.t /\ (x = Done <=> e = Done) /\ (x = Close <=> e = Close)
      BY <1>1, ShownEvent
    <2>2. r = ToOutput(d, x)
      BY <1>1 DEF Filter
    <2> HIDE DEF x
    <2>3. /\ Onward(d, r)
          /\ r.source = d.source /\ r.result = d.result /\ r.task = d.task
          /\ Open(d.output) => Overrun(d, r, x) \/ Added(d, r, x)
      BY <2>1, <2>2, ToOutputDoes
    <2>4. Overrun(d, r, x) => Overrun(d, r, e)
      BY <2>1 DEF Overrun
    <2>5. Added(d, r, x) => Filtered(d, r, e)
      BY <1>1, <2>1 DEF Added, Filtered, Shown, x
    <2> QED BY <2>3, <2>4, <2>5
  <1>2. CASE ~Shows(d.shape, e)
    BY <1>2 DEF Filter, Onward, Filtered, Shown
  <1> QED BY <1>1, <1>2

\* Nothing but the caller's own calls stops the events.
TaskReady(d) == d.thrown = "none" /\ Open(d.task) /\ d.task.attached /\ Open(d.output)
ResultReady(d) == TaskReady(d) /\ Open(d.result)
SourceReady(d) == ResultReady(d) /\ d.result.attached /\ Open(d.source) /\ d.source.attached

-----------------------------------------------------------------------------
\* task

LEMMA SentTask ==
    ASSUME NEW x, Sound(x), NEW y, y = AfterSend(x, "task")
    PROVE  /\ Onward(x, y)
           /\ y.source = x.source /\ y.result = x.result /\ y.output = x.output
           /\ y.got = x.got /\ y.ended = x.ended /\ y.task.up = x.task.up
           /\ x.thrown = "none" => y.thrown = "none"
           /\ x.thrown # "stop" => y = x
  <1>1. CASE x.thrown = "stop"
    <2> DEFINE s == ClosedByDownstream(x.task)
               z == [x EXCEPT !.task = s]
    <2>1. s \in Streams(Event) /\ Held(s) /\ s.up = x.task.up
      <3>1. x.task \in Streams(Event) /\ Held(x.task)
        BY DEF Sound, Chains
      <3>2. s.up = x.task.up
        BY <3>1 DEF ClosedByDownstream, Streams
      <3> QED BY <3>1, <3>2, ClosedDoes
    <2> HIDE DEF s
    <2>2. /\ Onward(x, z) /\ z.source = x.source /\ z.result = x.result /\ z.output = x.output
          /\ z.task = s /\ z.got = x.got /\ z.ended = x.ended
      BY <2>1, TaskSound
    <2>3. y = Threw(z, "none")
      BY <1>1 DEF AfterSend, Caught, s
    <2> HIDE DEF z
    <2>4. /\ Onward(z, y) /\ y.source = z.source /\ y.result = z.result /\ y.output = z.output
          /\ y.task = z.task /\ y.got = z.got /\ y.ended = z.ended
      <3>1. "none" \in Exceptions
        BY DEF Exceptions
      <3> QED BY <2>2, <2>3, <3>1, ThrewSound DEF Onward
    <2> QED BY <1>1, <2>1, <2>2, <2>4 DEF Onward
  <1>2. CASE x.thrown # "stop"
    BY <1>2 DEF AfterSend, Onward
  <1> QED BY <1>1, <1>2

LEMMA AfterTask ==
    ASSUME NEW x, Sound(x), NEW r, r = AfterCall(x, "task")
    PROVE  /\ Onward(x, r)
           /\ r.source = x.source /\ r.result = x.result /\ r.output = x.output
           /\ r.got = x.got /\ r.ended = x.ended
           /\ x.thrown = "none" => r.thrown = "none"
           /\ x.thrown # "stop" /\ ~(x.thrown = "none" /\ x.task.up) => r = x
           /\ r.task.up = x.task.up
  <1> DEFINE y == AfterSend(x, "task")
  <1>1. /\ Onward(x, y)
        /\ y.source = x.source /\ y.result = x.result /\ y.output = x.output
        /\ y.got = x.got /\ y.ended = x.ended /\ y.task.up = x.task.up
        /\ x.thrown = "none" => y.thrown = "none"
        /\ x.thrown # "stop" => y = x
    BY SentTask
  <1>2. r = IF y.thrown = "none" /\ y.task.up THEN [y EXCEPT !.task = LetGo(y.task)] ELSE y
    BY DEF AfterCall, AfterReceive, LetGo
  <1> HIDE DEF y
  <1>3. CASE y.thrown = "none" /\ y.task.up
    <2> DEFINE g == LetGo(y.task)
    <2>1. g \in Streams(Event) /\ Held(g) /\ g.up = y.task.up
      BY <1>1, LetGoDoes DEF Onward, Sound, Chains
    <2>2. Sound(y)
      BY <1>1 DEF Onward
    <2> DEFINE z == [y EXCEPT !.task = g]
    <2>3. r = z
      BY <1>2, <1>3
    <2> HIDE DEF g
    <2>4. /\ Onward(y, z) /\ z.source = y.source /\ z.result = y.result /\ z.output = y.output
          /\ z.task = g /\ z.got = y.got /\ z.ended = y.ended /\ z.thrown = y.thrown
      BY <2>1, <2>2, TaskSound
    <2> HIDE DEF z
    <2> QED BY <1>1, <1>3, <2>1, <2>3, <2>4 DEF Onward
  <1>4. CASE ~(y.thrown = "none" /\ y.task.up)
    BY <1>1, <1>2, <1>4
  <1> QED BY <1>3, <1>4

LEMMA ToTaskCases ==
    ASSUME NEW d, Sound(d), d.thrown = "none", NEW e \in Event, NEW r, r = ToTask(d, e)
    PROVE  \/ ~Open(d.task) /\ Same(d, r) /\ r.thrown # "none"
           \/ \E m :
                /\ Onward(d, m) /\ m.source = d.source /\ m.result = d.result /\ m.output = d.output
                /\ m.got = d.got /\ m.ended = d.ended /\ m.thrown = "none"
                /\ m.task = Marked(d.task, e) /\ (e # Close => m.task = d.task)
                /\ \/ d.task.attached /\ \E x : x = Filter(m, e) /\ r = AfterCall(x, "task")
                   \/ ~d.task.attached /\ ~Open(d.task) /\ r = m
           \/ /\ ~d.task.attached /\ d.task.hasBacklog
              /\ Onward(d, r) /\ r.source = d.source /\ r.result = d.result /\ r.output = d.output
              /\ r.got = d.got /\ r.ended = d.ended /\ r.thrown = "none"
              /\ r.task = Pushed(d.task, e)
  <1> DEFINE s == d.task
             m == [d EXCEPT !.task = Marked(s, e)]
  <1>1. s \in Streams(Event) /\ Held(s)
    BY DEF Sound, Chains
  <1>2. {"stop", "protocol"} \subseteq Exceptions
    BY DEF Exceptions
  <1>3. CASE s.down
    <2>1. r = Threw(d, "stop")
      BY <1>3 DEF ToTask, ReceiveWith
    <2> QED BY <1>2, <1>3, <2>1, ThrewSound DEF Open, Same
  <1>4. CASE ~s.down /\ e = Close /\ s.up
    <2>1. r = Threw(d, "protocol")
      BY <1>4 DEF ToTask, ReceiveWith
    <2> QED BY <1>2, <1>4, <2>1, ThrewSound DEF Open, Same
  <1>5. CASE ~s.down /\ ~(e = Close /\ s.up)
    <2>1. [d EXCEPT !.task.up = s.up \/ e = Close] = m
      BY DEF Marked
    <2>2. Marked(s, e) \in Streams(Event) /\ Held(Marked(s, e)) /\ (e # Close => Marked(s, e) = s)
      BY <1>1, MarkedDoes
    <2>3. /\ Onward(d, m) /\ m.source = d.source /\ m.result = d.result /\ m.output = d.output
          /\ m.got = d.got /\ m.ended = d.ended /\ m.thrown = "none" /\ m.task = Marked(s, e)
      BY <2>2, TaskSound
    <2>4. CASE s.attached
      <3> DEFINE x == Filter(m, e)
      <3>1. r = The({AfterReceive(AfterSend(y, "task"), "task") : y \in {x}})
        BY <1>5, <2>1, <2>4 DEF ToTask, ReceiveWith
      <3>2. r = AfterCall(x, "task")
        BY <3>1, TheAfter
      <3> HIDE DEF m
      <3> QED BY <2>2, <2>3, <2>4, <3>2
    <2>5. CASE ~s.attached /\ s.hasBacklog
      <3> DEFINE p == Pushed(s, e)
      <3>1. r = [m EXCEPT !.task.backlog = Append(@, e)]
        BY <1>5, <2>1, <2>5 DEF ToTask, ReceiveWith
      <3>2. [m EXCEPT !.task.backlog = Append(@, e)] = [d EXCEPT !.task = p]
        BY <2>3 DEF Pushed, Sound, Chains
      <3>3. p \in Streams(Event) /\ Held(p)
        BY <1>1, <2>5, PushedDoes
      <3> DEFINE z == [d EXCEPT !.task = p]
      <3>4. r = z
        BY <3>1, <3>2
      <3> HIDE DEF p
      <3>5. /\ Onward(d, z) /\ z.source = d.source /\ z.result = d.result /\ z.output = d.output
            /\ z.got = d.got /\ z.ended = d.ended /\ z.thrown = "none" /\ z.task = p
        BY <3>3, TaskSound
      <3> HIDE DEF z
      <3> QED BY <2>5, <3>4, <3>5 DEF p
    <2>6. CASE ~s.attached /\ ~s.hasBacklog
      <3>1. r = m
        BY <1>5, <2>1, <2>6 DEF ToTask, ReceiveWith
      <3> HIDE DEF m
      <3> QED BY <2>2, <2>3, <2>6, <3>1 DEF Open
    <2> QED BY <2>4, <2>5, <2>6
  <1> QED BY <1>3, <1>4, <1>5

-----------------------------------------------------------------------------
\* result

LEMMA SentResult ==
    ASSUME NEW x, Sound(x), NEW y, y = AfterSend(x, "result")
    PROVE  /\ Onward(x, y)
           /\ y.source = x.source /\ y.task = x.task /\ y.output = x.output
           /\ y.got = x.got /\ y.ended = x.ended /\ y.result.up = x.result.up
           /\ x.thrown = "none" => y.thrown = "none"
           /\ x.thrown # "stop" => y = x
  <1>1. CASE x.thrown = "stop"
    <2> DEFINE s == ClosedByDownstream(x.result)
               z == [x EXCEPT !.result = s]
    <2>1. s \in Streams(Event) /\ Held(s) /\ s.up = x.result.up
      <3>1. x.result \in Streams(Event) /\ Held(x.result)
        BY DEF Sound, Chains
      <3>2. s.up = x.result.up
        BY <3>1 DEF ClosedByDownstream, Streams
      <3> QED BY <3>1, <3>2, ClosedDoes
    <2> HIDE DEF s
    <2>2. /\ Onward(x, z) /\ z.source = x.source /\ z.task = x.task /\ z.output = x.output
          /\ z.result = s /\ z.got = x.got /\ z.ended = x.ended
      BY <2>1, ResultSound
    <2>3. y = Threw(z, "none")
      BY <1>1 DEF AfterSend, Caught, s
    <2> HIDE DEF z
    <2>4. /\ Onward(z, y) /\ y.source = z.source /\ y.task = z.task /\ y.output = z.output
          /\ y.result = z.result /\ y.got = z.got /\ y.ended = z.ended
      <3>1. "none" \in Exceptions
        BY DEF Exceptions
      <3> QED BY <2>2, <2>3, <3>1, ThrewSound DEF Onward
    <2> QED BY <1>1, <2>1, <2>2, <2>4 DEF Onward
  <1>2. CASE x.thrown # "stop"
    BY <1>2 DEF AfterSend, Onward
  <1> QED BY <1>1, <1>2

LEMMA AfterResult ==
    ASSUME NEW x, Sound(x), NEW r, r = AfterCall(x, "result")
    PROVE  /\ Onward(x, r)
           /\ r.source = x.source /\ r.task = x.task /\ r.output = x.output
           /\ r.got = x.got /\ r.ended = x.ended
           /\ x.thrown = "none" => r.thrown = "none"
           /\ x.thrown # "stop" /\ ~(x.thrown = "none" /\ x.result.up) => r = x
           /\ r.result.up = x.result.up
  <1> DEFINE y == AfterSend(x, "result")
  <1>1. /\ Onward(x, y)
        /\ y.source = x.source /\ y.task = x.task /\ y.output = x.output
        /\ y.got = x.got /\ y.ended = x.ended /\ y.result.up = x.result.up
        /\ x.thrown = "none" => y.thrown = "none"
        /\ x.thrown # "stop" => y = x
    BY SentResult
  <1>2. r = IF y.thrown = "none" /\ y.result.up THEN [y EXCEPT !.result = LetGo(y.result)] ELSE y
    BY DEF AfterCall, AfterReceive, LetGo
  <1> HIDE DEF y
  <1>3. CASE y.thrown = "none" /\ y.result.up
    <2> DEFINE g == LetGo(y.result)
    <2>1. g \in Streams(Event) /\ Held(g) /\ g.up = y.result.up
      BY <1>1, LetGoDoes DEF Onward, Sound, Chains
    <2>2. Sound(y)
      BY <1>1 DEF Onward
    <2> DEFINE z == [y EXCEPT !.result = g]
    <2>3. r = z
      BY <1>2, <1>3
    <2> HIDE DEF g
    <2>4. /\ Onward(y, z) /\ z.source = y.source /\ z.task = y.task /\ z.output = y.output
          /\ z.result = g /\ z.got = y.got /\ z.ended = y.ended /\ z.thrown = y.thrown
      BY <2>1, <2>2, ResultSound
    <2> HIDE DEF z
    <2> QED BY <1>1, <1>3, <2>1, <2>3, <2>4 DEF Onward
  <1>4. CASE ~(y.thrown = "none" /\ y.result.up)
    BY <1>1, <1>2, <1>4
  <1> QED BY <1>3, <1>4

LEMMA ToResultCases ==
    ASSUME NEW d, Sound(d), d.thrown = "none", NEW e \in Event, NEW r, r = ToResult(d, e)
    PROVE  \/ ~Open(d.result) /\ Same(d, r) /\ r.thrown # "none"
           \/ \E m :
                /\ Onward(d, m) /\ m.source = d.source /\ m.task = d.task /\ m.output = d.output
                /\ m.got = d.got /\ m.ended = d.ended /\ m.thrown = "none"
                /\ m.result = Marked(d.result, e) /\ (e # Close => m.result = d.result)
                /\ \/ d.result.attached /\ \E x : x = ToTask(m, e) /\ r = AfterCall(x, "result")
                   \/ ~d.result.attached /\ ~Open(d.result) /\ r = m
           \/ /\ ~d.result.attached /\ d.result.hasBacklog
              /\ Onward(d, r) /\ r.source = d.source /\ r.task = d.task /\ r.output = d.output
              /\ r.got = d.got /\ r.ended = d.ended /\ r.thrown = "none"
              /\ r.result = Pushed(d.result, e)
  <1> DEFINE s == d.result
             m == [d EXCEPT !.result = Marked(s, e)]
  <1>1. s \in Streams(Event) /\ Held(s)
    BY DEF Sound, Chains
  <1>2. {"stop", "protocol"} \subseteq Exceptions
    BY DEF Exceptions
  <1>3. CASE s.down
    <2>1. r = Threw(d, "stop")
      BY <1>3 DEF ToResult, ReceiveWith
    <2> QED BY <1>2, <1>3, <2>1, ThrewSound DEF Open, Same
  <1>4. CASE ~s.down /\ e = Close /\ s.up
    <2>1. r = Threw(d, "protocol")
      BY <1>4 DEF ToResult, ReceiveWith
    <2> QED BY <1>2, <1>4, <2>1, ThrewSound DEF Open, Same
  <1>5. CASE ~s.down /\ ~(e = Close /\ s.up)
    <2>1. [d EXCEPT !.result.up = s.up \/ e = Close] = m
      BY DEF Marked
    <2>2. Marked(s, e) \in Streams(Event) /\ Held(Marked(s, e)) /\ (e # Close => Marked(s, e) = s)
      BY <1>1, MarkedDoes
    <2>3. /\ Onward(d, m) /\ m.source = d.source /\ m.task = d.task /\ m.output = d.output
          /\ m.got = d.got /\ m.ended = d.ended /\ m.thrown = "none" /\ m.result = Marked(s, e)
      BY <2>2, ResultSound
    <2>4. CASE s.attached
      <3> DEFINE x == ToTask(m, e)
      <3>1. r = The({AfterReceive(AfterSend(y, "result"), "result") : y \in {x}})
        BY <1>5, <2>1, <2>4 DEF ToResult, ReceiveWith
      <3>2. r = AfterCall(x, "result")
        BY <3>1, TheAfter
      <3> HIDE DEF m
      <3> QED BY <2>2, <2>3, <2>4, <3>2
    <2>5. CASE ~s.attached /\ s.hasBacklog
      <3> DEFINE p == Pushed(s, e)
      <3>1. r = [m EXCEPT !.result.backlog = Append(@, e)]
        BY <1>5, <2>1, <2>5 DEF ToResult, ReceiveWith
      <3>2. [m EXCEPT !.result.backlog = Append(@, e)] = [d EXCEPT !.result = p]
        BY <2>3 DEF Pushed, Sound, Chains
      <3>3. p \in Streams(Event) /\ Held(p)
        BY <1>1, <2>5, PushedDoes
      <3> DEFINE z == [d EXCEPT !.result = p]
      <3>4. r = z
        BY <3>1, <3>2
      <3> HIDE DEF p
      <3>5. /\ Onward(d, z) /\ z.source = d.source /\ z.task = d.task /\ z.output = d.output
            /\ z.got = d.got /\ z.ended = d.ended /\ z.thrown = "none" /\ z.result = p
        BY <3>3, ResultSound
      <3> HIDE DEF z
      <3> QED BY <2>5, <3>4, <3>5 DEF p
    <2>6. CASE ~s.attached /\ ~s.hasBacklog
      <3>1. r = m
        BY <1>5, <2>1, <2>6 DEF ToResult, ReceiveWith
      <3> HIDE DEF m
      <3> QED BY <2>2, <2>3, <2>6, <3>1 DEF Open
    <2> QED BY <2>4, <2>5, <2>6
  <1> QED BY <1>3, <1>4, <1>5

-----------------------------------------------------------------------------
\* source

LEMMA SentSource ==
    ASSUME NEW x, Sound(x), NEW y, y = AfterSend(x, "source")
    PROVE  /\ Onward(x, y)
           /\ y.result = x.result /\ y.task = x.task /\ y.output = x.output
           /\ y.got = x.got /\ y.ended = x.ended /\ y.source.up = x.source.up
           /\ x.thrown = "none" => y.thrown = "none"
           /\ x.thrown # "stop" => y = x
  <1>1. CASE x.thrown = "stop"
    <2> DEFINE s == ClosedByDownstream(x.source)
               z == [x EXCEPT !.source = s]
    <2>1. s \in Streams(Event) /\ Held(s) /\ s.up = x.source.up
      <3>1. x.source \in Streams(Event) /\ Held(x.source)
        BY DEF Sound, Chains
      <3>2. s.up = x.source.up
        BY <3>1 DEF ClosedByDownstream, Streams
      <3> QED BY <3>1, <3>2, ClosedDoes
    <2> HIDE DEF s
    <2>2. /\ Onward(x, z) /\ z.result = x.result /\ z.task = x.task /\ z.output = x.output
          /\ z.source = s /\ z.got = x.got /\ z.ended = x.ended
      BY <2>1, SourceSound
    <2>3. y = Threw(z, "none")
      BY <1>1 DEF AfterSend, Caught, s
    <2> HIDE DEF z
    <2>4. /\ Onward(z, y) /\ y.result = z.result /\ y.task = z.task /\ y.output = z.output
          /\ y.source = z.source /\ y.got = z.got /\ y.ended = z.ended
      <3>1. "none" \in Exceptions
        BY DEF Exceptions
      <3> QED BY <2>2, <2>3, <3>1, ThrewSound DEF Onward
    <2> QED BY <1>1, <2>1, <2>2, <2>4 DEF Onward
  <1>2. CASE x.thrown # "stop"
    BY <1>2 DEF AfterSend, Onward
  <1> QED BY <1>1, <1>2

LEMMA AfterSource ==
    ASSUME NEW x, Sound(x), NEW r, r = AfterCall(x, "source")
    PROVE  /\ Onward(x, r)
           /\ r.result = x.result /\ r.task = x.task /\ r.output = x.output
           /\ r.got = x.got /\ r.ended = x.ended
           /\ x.thrown = "none" => r.thrown = "none"
           /\ x.thrown # "stop" /\ ~(x.thrown = "none" /\ x.source.up) => r = x
           /\ r.source.up = x.source.up
  <1> DEFINE y == AfterSend(x, "source")
  <1>1. /\ Onward(x, y)
        /\ y.result = x.result /\ y.task = x.task /\ y.output = x.output
        /\ y.got = x.got /\ y.ended = x.ended /\ y.source.up = x.source.up
        /\ x.thrown = "none" => y.thrown = "none"
        /\ x.thrown # "stop" => y = x
    BY SentSource
  <1>2. r = IF y.thrown = "none" /\ y.source.up THEN [y EXCEPT !.source = LetGo(y.source)] ELSE y
    BY DEF AfterCall, AfterReceive, LetGo
  <1> HIDE DEF y
  <1>3. CASE y.thrown = "none" /\ y.source.up
    <2> DEFINE g == LetGo(y.source)
    <2>1. g \in Streams(Event) /\ Held(g) /\ g.up = y.source.up
      BY <1>1, LetGoDoes DEF Onward, Sound, Chains
    <2>2. Sound(y)
      BY <1>1 DEF Onward
    <2> DEFINE z == [y EXCEPT !.source = g]
    <2>3. r = z
      BY <1>2, <1>3
    <2> HIDE DEF g
    <2>4. /\ Onward(y, z) /\ z.result = y.result /\ z.task = y.task /\ z.output = y.output
          /\ z.source = g /\ z.got = y.got /\ z.ended = y.ended /\ z.thrown = y.thrown
      BY <2>1, <2>2, SourceSound
    <2> HIDE DEF z
    <2> QED BY <1>1, <1>3, <2>1, <2>3, <2>4 DEF Onward
  <1>4. CASE ~(y.thrown = "none" /\ y.source.up)
    BY <1>1, <1>2, <1>4
  <1> QED BY <1>3, <1>4

LEMMA ToSourceCases ==
    ASSUME NEW d, Sound(d), d.thrown = "none", NEW e \in Event, NEW r, r = ToSource(d, e)
    PROVE  \/ ~Open(d.source) /\ Same(d, r) /\ r.thrown # "none"
           \/ \E m :
                /\ Onward(d, m) /\ m.result = d.result /\ m.task = d.task /\ m.output = d.output
                /\ m.got = d.got /\ m.ended = d.ended /\ m.thrown = "none"
                /\ m.source = Marked(d.source, e) /\ (e # Close => m.source = d.source)
                /\ \/ d.source.attached /\ \E x : x = ToResult(m, e) /\ r = AfterCall(x, "source")
                   \/ ~d.source.attached /\ ~Open(d.source) /\ r = m
           \/ /\ ~d.source.attached /\ d.source.hasBacklog
              /\ Onward(d, r) /\ r.result = d.result /\ r.task = d.task /\ r.output = d.output
              /\ r.got = d.got /\ r.ended = d.ended /\ r.thrown = "none"
              /\ r.source = Pushed(d.source, e)
  <1> DEFINE s == d.source
             m == [d EXCEPT !.source = Marked(s, e)]
  <1>1. s \in Streams(Event) /\ Held(s)
    BY DEF Sound, Chains
  <1>2. {"stop", "protocol"} \subseteq Exceptions
    BY DEF Exceptions
  <1>3. CASE s.down
    <2>1. r = Threw(d, "stop")
      BY <1>3 DEF ToSource, ReceiveWith
    <2> QED BY <1>2, <1>3, <2>1, ThrewSound DEF Open, Same
  <1>4. CASE ~s.down /\ e = Close /\ s.up
    <2>1. r = Threw(d, "protocol")
      BY <1>4 DEF ToSource, ReceiveWith
    <2> QED BY <1>2, <1>4, <2>1, ThrewSound DEF Open, Same
  <1>5. CASE ~s.down /\ ~(e = Close /\ s.up)
    <2>1. [d EXCEPT !.source.up = s.up \/ e = Close] = m
      BY DEF Marked
    <2>2. Marked(s, e) \in Streams(Event) /\ Held(Marked(s, e)) /\ (e # Close => Marked(s, e) = s)
      BY <1>1, MarkedDoes
    <2>3. /\ Onward(d, m) /\ m.result = d.result /\ m.task = d.task /\ m.output = d.output
          /\ m.got = d.got /\ m.ended = d.ended /\ m.thrown = "none" /\ m.source = Marked(s, e)
      BY <2>2, SourceSound
    <2>4. CASE s.attached
      <3> DEFINE x == ToResult(m, e)
      <3>1. r = The({AfterReceive(AfterSend(y, "source"), "source") : y \in {x}})
        BY <1>5, <2>1, <2>4 DEF ToSource, ReceiveWith
      <3>2. r = AfterCall(x, "source")
        BY <3>1, TheAfter
      <3> HIDE DEF m
      <3> QED BY <2>2, <2>3, <2>4, <3>2
    <2>5. CASE ~s.attached /\ s.hasBacklog
      <3> DEFINE p == Pushed(s, e)
      <3>1. r = [m EXCEPT !.source.backlog = Append(@, e)]
        BY <1>5, <2>1, <2>5 DEF ToSource, ReceiveWith
      <3>2. [m EXCEPT !.source.backlog = Append(@, e)] = [d EXCEPT !.source = p]
        BY <2>3 DEF Pushed, Sound, Chains
      <3>3. p \in Streams(Event) /\ Held(p)
        BY <1>1, <2>5, PushedDoes
      <3> DEFINE z == [d EXCEPT !.source = p]
      <3>4. r = z
        BY <3>1, <3>2
      <3> HIDE DEF p
      <3>5. /\ Onward(d, z) /\ z.result = d.result /\ z.task = d.task /\ z.output = d.output
            /\ z.got = d.got /\ z.ended = d.ended /\ z.thrown = "none" /\ z.source = p
        BY <3>3, SourceSound
      <3> HIDE DEF z
      <3> QED BY <2>5, <3>4, <3>5 DEF p
    <2>6. CASE ~s.attached /\ ~s.hasBacklog
      <3>1. r = m
        BY <1>5, <2>1, <2>6 DEF ToSource, ReceiveWith
      <3> HIDE DEF m
      <3> QED BY <2>2, <2>3, <2>6, <3>1 DEF Open
    <2> QED BY <2>4, <2>5, <2>6
  <1> QED BY <1>3, <1>4, <1>5

-----------------------------------------------------------------------------
\* An event on its way from the callback to the reader

Took(d, r, e) ==
    /\ r.thrown = "none" /\ Out(r) = Shown(d.shape, Out(d), e)
    /\ r.ended => d.ended \/ e \in {Done, Close}

LEMMA ToTaskDoes ==
    ASSUME NEW d, Sound(d), d.thrown = "none", NEW e \in Event, NEW r, r = ToTask(d, e)
    PROVE  /\ Onward(d, r)
           /\ r.source = d.source /\ r.result = d.result
           /\ TaskReady(d) =>
                Overrun(d, r, e) \/ (Took(d, r, e) /\ (e # Close => TaskReady(r)))
  <1>1. CASE ~Open(d.task) /\ Same(d, r) /\ r.thrown # "none"
    BY <1>1 DEF Same, TaskReady, ResultReady, SourceReady
  <1>2. CASE \E m :
                /\ Onward(d, m) /\ m.source = d.source /\ m.result = d.result /\ m.output = d.output
                /\ m.got = d.got /\ m.ended = d.ended /\ m.thrown = "none"
                /\ m.task = Marked(d.task, e) /\ (e # Close => m.task = d.task)
                /\ \/ d.task.attached /\ \E x : x = Filter(m, e) /\ r = AfterCall(x, "task")
                   \/ ~d.task.attached /\ ~Open(d.task) /\ r = m
    <2>0. PICK m :
                /\ Onward(d, m) /\ m.source = d.source /\ m.result = d.result /\ m.output = d.output
                /\ m.got = d.got /\ m.ended = d.ended /\ m.thrown = "none"
                /\ m.task = Marked(d.task, e) /\ (e # Close => m.task = d.task)
                /\ \/ d.task.attached /\ \E x : x = Filter(m, e) /\ r = AfterCall(x, "task")
                   \/ ~d.task.attached /\ ~Open(d.task) /\ r = m
      BY <1>2
    <2>1. CASE ~d.task.attached
      BY <2>0, <2>1 DEF TaskReady, ResultReady, SourceReady
    <2>2. CASE d.task.attached
      <3>1. PICK x : x = Filter(m, e) /\ r = AfterCall(x, "task")
        BY <2>0, <2>2
      <3>2. Sound(m) /\ m.shape = d.shape /\ m.reader = d.reader /\ Out(m) = Out(d)
        BY <2>0 DEF Onward, Out
      <3>3. /\ Onward(m, x) /\ x.source = m.source /\ x.result = m.result /\ x.task = m.task
            /\ Open(m.output) => Overrun(m, x, e) \/ Filtered(m, x, e)
        BY <2>0, <3>1, <3>2, FilterDoes
      <3>4. /\ Onward(x, r)
            /\ r.source = x.source /\ r.result = x.result /\ r.output = x.output
            /\ r.got = x.got /\ r.ended = x.ended
            /\ x.thrown = "none" => r.thrown = "none"
            /\ x.thrown # "stop" /\ ~(x.thrown = "none" /\ x.task.up) => r = x
            /\ r.task.up = x.task.up
        BY <3>1, <3>3, AfterTask DEF Onward
      <3>5. Onward(d, r) /\ Out(r) = Out(x)
        BY <2>0, <3>3, <3>4 DEF Onward, Out
      <3>6. ASSUME TaskReady(d) PROVE Overrun(d, r, e) \/ (Took(d, r, e) /\ (e # Close => TaskReady(r)))
        <4>1. Open(m.output)
          BY <2>0, <3>6 DEF TaskReady, ResultReady, SourceReady
        <4>2. CASE Overrun(m, x, e)
          <5>1. r = x /\ e # Close
            BY <3>4, <4>2 DEF Overrun, Close
          <5> QED BY <2>0, <3>2, <3>5, <4>2, <5>1 DEF Overrun, Same
        <4>3. CASE Filtered(m, x, e)
          <5>1. Took(d, r, e)
            BY <2>0, <3>2, <3>4, <3>5, <4>3 DEF Took, Filtered
          <5>2. ASSUME e # Close PROVE TaskReady(r)
            <6>1. x.task = d.task /\ ~d.task.up
              BY <2>0, <3>3, <3>6, <5>2 DEF TaskReady, ResultReady, SourceReady, Open
            <6>2. r = x
              BY <3>4, <4>3, <6>1 DEF Took, Filtered
            <6> QED BY <3>6, <4>3, <5>2, <6>1, <6>2 DEF TaskReady, ResultReady, SourceReady, Took, Filtered
          <5> QED BY <5>1, <5>2
        <4> QED BY <3>3, <4>1, <4>2, <4>3
      <3> QED BY <2>0, <3>3, <3>4, <3>5, <3>6
    <2> QED BY <2>1, <2>2
  <1>3. CASE /\ ~d.task.attached /\ d.task.hasBacklog
             /\ Onward(d, r) /\ r.source = d.source /\ r.result = d.result /\ r.output = d.output
             /\ r.got = d.got /\ r.ended = d.ended /\ r.thrown = "none"
             /\ r.task = Pushed(d.task, e)
    BY <1>3 DEF TaskReady, ResultReady, SourceReady
  <1> QED BY <1>1, <1>2, <1>3, ToTaskCases

LEMMA ToResultDoes ==
    ASSUME NEW d, Sound(d), d.thrown = "none", NEW e \in Event, NEW r, r = ToResult(d, e)
    PROVE  /\ Onward(d, r)
           /\ r.source = d.source
           /\ ResultReady(d) /\ d.result.attached =>
                Overrun(d, r, e) \/ (Took(d, r, e) /\ (e # Close => ResultReady(r) /\ r.result.attached))
           /\ Open(d.result) /\ ~d.result.attached =>
                /\ r.source = d.source /\ r.task = d.task /\ r.output = d.output
                /\ r.got = d.got /\ r.ended = d.ended /\ r.thrown = "none" /\ r.result = Pushed(d.result, e)
  <1>1. CASE ~Open(d.result) /\ Same(d, r) /\ r.thrown # "none"
    BY <1>1 DEF Same, TaskReady, ResultReady, SourceReady
  <1>2. CASE \E m :
                /\ Onward(d, m) /\ m.source = d.source /\ m.task = d.task /\ m.output = d.output
                /\ m.got = d.got /\ m.ended = d.ended /\ m.thrown = "none"
                /\ m.result = Marked(d.result, e) /\ (e # Close => m.result = d.result)
                /\ \/ d.result.attached /\ \E x : x = ToTask(m, e) /\ r = AfterCall(x, "result")
                   \/ ~d.result.attached /\ ~Open(d.result) /\ r = m
    <2>0. PICK m :
                /\ Onward(d, m) /\ m.source = d.source /\ m.task = d.task /\ m.output = d.output
                /\ m.got = d.got /\ m.ended = d.ended /\ m.thrown = "none"
                /\ m.result = Marked(d.result, e) /\ (e # Close => m.result = d.result)
                /\ \/ d.result.attached /\ \E x : x = ToTask(m, e) /\ r = AfterCall(x, "result")
                   \/ ~d.result.attached /\ ~Open(d.result) /\ r = m
      BY <1>2
    <2>1. CASE ~d.result.attached
      BY <2>0, <2>1 DEF TaskReady, ResultReady, SourceReady
    <2>2. CASE d.result.attached
      <3>1. PICK x : x = ToTask(m, e) /\ r = AfterCall(x, "result")
        BY <2>0, <2>2
      <3>2. Sound(m) /\ m.shape = d.shape /\ m.reader = d.reader /\ Out(m) = Out(d)
        BY <2>0 DEF Onward, Out
      <3>3. /\ Onward(m, x) /\ x.source = m.source /\ x.result = m.result
            /\ TaskReady(m) => Overrun(m, x, e) \/ (Took(m, x, e) /\ (e # Close => TaskReady(x)))
        BY <2>0, <3>1, <3>2, ToTaskDoes
      <3>4. /\ Onward(x, r)
            /\ r.source = x.source /\ r.task = x.task /\ r.output = x.output
            /\ r.got = x.got /\ r.ended = x.ended
            /\ x.thrown = "none" => r.thrown = "none"
            /\ x.thrown # "stop" /\ ~(x.thrown = "none" /\ x.result.up) => r = x
            /\ r.result.up = x.result.up
        BY <3>1, <3>3, AfterResult DEF Onward
      <3>5. Onward(d, r) /\ Out(r) = Out(x)
        BY <2>0, <3>3, <3>4 DEF Onward, Out
      <3>6. ASSUME ResultReady(d) /\ d.result.attached
            PROVE  \/ Overrun(d, r, e)
                   \/ (Took(d, r, e) /\ (e # Close => ResultReady(r) /\ r.result.attached))
        <4>1. TaskReady(m)
          BY <2>0, <3>6 DEF TaskReady, ResultReady, SourceReady
        <4>2. CASE Overrun(m, x, e)
          <5>1. r = x /\ e # Close
            BY <3>4, <4>2 DEF Overrun, Close
          <5> QED BY <2>0, <3>2, <3>5, <4>2, <5>1 DEF Overrun, Same
        <4>3. CASE (Took(m, x, e) /\ (e # Close => TaskReady(x)))
          <5>1. Took(d, r, e)
            BY <2>0, <3>2, <3>4, <3>5, <4>3 DEF Took
          <5>2. ASSUME e # Close PROVE ResultReady(r) /\ r.result.attached
            <6>1. x.result = d.result /\ ~d.result.up
              BY <2>0, <3>3, <3>6, <5>2 DEF TaskReady, ResultReady, SourceReady, Open
            <6>2. r = x
              BY <3>4, <4>3, <6>1 DEF Took
            <6> QED BY <3>6, <4>3, <5>2, <6>1, <6>2 DEF TaskReady, ResultReady, SourceReady, Took
          <5> QED BY <5>1, <5>2
        <4> QED BY <3>3, <4>1, <4>2, <4>3
      <3> QED BY <2>0, <3>3, <3>4, <3>5, <3>6
    <2> QED BY <2>1, <2>2
  <1>3. CASE /\ ~d.result.attached /\ d.result.hasBacklog
             /\ Onward(d, r) /\ r.source = d.source /\ r.task = d.task /\ r.output = d.output
             /\ r.got = d.got /\ r.ended = d.ended /\ r.thrown = "none"
             /\ r.result = Pushed(d.result, e)
    BY <1>3 DEF TaskReady, ResultReady, SourceReady
  <1> QED BY <1>1, <1>2, <1>3, ToResultCases

LEMMA ToSourceDoes ==
    ASSUME NEW d, Sound(d), d.thrown = "none", NEW e \in Event, NEW r, r = ToSource(d, e)
    PROVE  /\ Onward(d, r)
           /\ SourceReady(d) =>
                Overrun(d, r, e) \/ (Took(d, r, e) /\ (e # Close => SourceReady(r)) /\ (e = Close => r.source.up))
           /\ Open(d.source) /\ ~d.source.attached =>
                /\ r.result = d.result /\ r.task = d.task /\ r.output = d.output
                /\ r.got = d.got /\ r.ended = d.ended /\ r.thrown = "none" /\ r.source = Pushed(d.source, e)
  <1>1. CASE ~Open(d.source) /\ Same(d, r) /\ r.thrown # "none"
    BY <1>1 DEF Same, TaskReady, ResultReady, SourceReady
  <1>2. CASE \E m :
                /\ Onward(d, m) /\ m.result = d.result /\ m.task = d.task /\ m.output = d.output
                /\ m.got = d.got /\ m.ended = d.ended /\ m.thrown = "none"
                /\ m.source = Marked(d.source, e) /\ (e # Close => m.source = d.source)
                /\ \/ d.source.attached /\ \E x : x = ToResult(m, e) /\ r = AfterCall(x, "source")
                   \/ ~d.source.attached /\ ~Open(d.source) /\ r = m
    <2>0. PICK m :
                /\ Onward(d, m) /\ m.result = d.result /\ m.task = d.task /\ m.output = d.output
                /\ m.got = d.got /\ m.ended = d.ended /\ m.thrown = "none"
                /\ m.source = Marked(d.source, e) /\ (e # Close => m.source = d.source)
                /\ \/ d.source.attached /\ \E x : x = ToResult(m, e) /\ r = AfterCall(x, "source")
                   \/ ~d.source.attached /\ ~Open(d.source) /\ r = m
      BY <1>2
    <2>1. CASE ~d.source.attached
      BY <2>0, <2>1 DEF TaskReady, ResultReady, SourceReady
    <2>2. CASE d.source.attached
      <3>1. PICK x : x = ToResult(m, e) /\ r = AfterCall(x, "source")
        BY <2>0, <2>2
      <3>2. Sound(m) /\ m.shape = d.shape /\ m.reader = d.reader /\ Out(m) = Out(d)
        BY <2>0 DEF Onward, Out
      <3>3. /\ Onward(m, x) /\ x.source = m.source
            /\ ResultReady(m) /\ m.result.attached =>
                 Overrun(m, x, e) \/ (Took(m, x, e) /\ (e # Close => ResultReady(x) /\ x.result.attached))
        BY <2>0, <3>1, <3>2, ToResultDoes
      <3>4. /\ Onward(x, r)
            /\ r.result = x.result /\ r.task = x.task /\ r.output = x.output
            /\ r.got = x.got /\ r.ended = x.ended
            /\ x.thrown = "none" => r.thrown = "none"
            /\ x.thrown # "stop" /\ ~(x.thrown = "none" /\ x.source.up) => r = x
            /\ r.source.up = x.source.up
        BY <3>1, <3>3, AfterSource DEF Onward
      <3>5. Onward(d, r) /\ Out(r) = Out(x)
        BY <2>0, <3>3, <3>4 DEF Onward, Out
      <3>6. ASSUME SourceReady(d)
            PROVE  \/ Overrun(d, r, e)
                   \/ (Took(d, r, e) /\ (e # Close => SourceReady(r)) /\ (e = Close => r.source.up))
        <4>1. ResultReady(m) /\ m.result.attached
          BY <2>0, <3>6 DEF TaskReady, ResultReady, SourceReady
        <4>2. CASE Overrun(m, x, e)
          <5>1. r = x /\ e # Close
            BY <3>4, <4>2 DEF Overrun, Close
          <5> QED BY <2>0, <3>2, <3>5, <4>2, <5>1 DEF Overrun, Same
        <4>3. CASE (Took(m, x, e) /\ (e # Close => ResultReady(x) /\ x.result.attached))
          <5>1. Took(d, r, e)
            BY <2>0, <3>2, <3>4, <3>5, <4>3 DEF Took
          <5>2. ASSUME e # Close PROVE SourceReady(r)
            <6>1. x.source = d.source /\ ~d.source.up
              BY <2>0, <3>3, <3>6, <5>2 DEF TaskReady, ResultReady, SourceReady, Open
            <6>2. r = x
              BY <3>4, <4>3, <6>1 DEF Took
            <6> QED BY <3>6, <4>3, <5>2, <6>1, <6>2 DEF TaskReady, ResultReady, SourceReady, Took
          <5>3. e = Close => r.source.up
            <6>1. Marked(d.source, Close).up
              BY MarkedDoes DEF Sound, Chains
            <6> QED BY <2>0, <3>3, <3>4, <6>1
          <5> QED BY <5>1, <5>2, <5>3
        <4> QED BY <3>3, <4>1, <4>2, <4>3
      <3> QED BY <2>0, <3>3, <3>4, <3>5, <3>6
    <2> QED BY <2>1, <2>2
  <1>3. CASE /\ ~d.source.attached /\ d.source.hasBacklog
             /\ Onward(d, r) /\ r.result = d.result /\ r.task = d.task /\ r.output = d.output
             /\ r.got = d.got /\ r.ended = d.ended /\ r.thrown = "none"
             /\ r.source = Pushed(d.source, e)
    BY <1>3 DEF TaskReady, ResultReady, SourceReady
  <1> QED BY <1>1, <1>2, <1>3, ToSourceCases

-----------------------------------------------------------------------------
\* Rows of calls

\* The events a stream is given.
EventsFor(shape, k) == IF k = "output" THEN OutEvent(shape) ELSE Event

LEMMA ReceiveSound ==
    ASSUME NEW d, Sound(d), d.thrown = "none", NEW k \in {"source", "result", "task", "output"},
           NEW e \in EventsFor(d.shape, k)
    PROVE  Onward(d, Receive(d, k, e))
  <1>1. CASE k = "source"
    <2>1. Receive(d, k, e) = ToSource(d, e) /\ e \in Event
      BY <1>1 DEF Receive, EventsFor
    <2> QED BY <2>1, ToSourceDoes
  <1>2. CASE k = "result"
    <2>1. Receive(d, k, e) = ToResult(d, e) /\ e \in Event
      BY <1>2 DEF Receive, EventsFor
    <2> QED BY <2>1, ToResultDoes
  <1>3. CASE k = "task"
    <2>1. Receive(d, k, e) = ToTask(d, e) /\ e \in Event
      BY <1>3 DEF Receive, EventsFor
    <2> QED BY <2>1, ToTaskDoes
  <1>4. CASE k = "output"
    <2>1. Receive(d, k, e) = ToOutput(d, e) /\ e \in OutEvent(d.shape)
      BY <1>4 DEF Receive, EventsFor
    <2> QED BY <2>1, ToOutputDoes
  <1> QED BY <1>1, <1>2, <1>3, <1>4

LEMMA PutNextSound ==
    ASSUME NEW d, Sound(d), NEW k \in {"source", "result", "task", "output"}, NEW e \in EventsFor(d.shape, k)
    PROVE  /\ Onward(d, PutNext(d, k, e))
           /\ d.thrown # "none" => PutNext(d, k, e) = d
           /\ d.thrown = "none" => PutNext(d, k, e) = Receive(d, k, e)
  <1>1. CASE d.thrown = "none"
    BY <1>1, ReceiveSound DEF PutNext
  <1>2. CASE d.thrown # "none"
    BY <1>2 DEF PutNext, Onward
  <1> QED BY <1>1, <1>2

LEMMA TheSent == \A x, k : The({AfterSend(d, k) : d \in {x}}) = AfterSend(x, k)
  <1> TAKE x, k
  <1>1. {AfterSend(d, k) : d \in {x}} = {AfterSend(x, k)}
    OBVIOUS
  <1> QED BY <1>1, TheOne

\* The backlog of result goes to task ...
LEMMA HandOverResult ==
    ASSUME NEW d, Sound(d), d.thrown = "none", d.result.attached, NEW e \in Event,
           NEW r, r = HandOver(d, "result", e)
    PROVE  /\ Onward(d, r) /\ r.source = d.source
           /\ TaskReady(d) =>
                Overrun(d, r, e) \/ (Took(d, r, e) /\ r.result = d.result /\ (e # Close => TaskReady(r)))
  <1> DEFINE x == ToTask(d, e)
  <1>1. r = The({AfterSend(y, "result") : y \in {x}})
    BY DEF HandOver, Deliver
  <1>2. r = AfterSend(x, "result")
    BY <1>1, TheSent
  <1>3. /\ Onward(d, x) /\ x.source = d.source /\ x.result = d.result
        /\ TaskReady(d) => Overrun(d, x, e) \/ (Took(d, x, e) /\ (e # Close => TaskReady(x)))
    BY ToTaskDoes
  <1> HIDE DEF x
  <1>4. /\ Onward(x, r) /\ r.source = x.source
        /\ x.thrown # "stop" => r = x
    BY <1>2, <1>3, SentResult DEF Onward
  <1>5. Overrun(d, x, e) \/ Took(d, x, e) => r = x
    BY <1>4 DEF Overrun, Took
  <1> QED BY <1>3, <1>4, <1>5 DEF Onward

\* ... that of source to result ...
LEMMA HandOverSource ==
    ASSUME NEW d, Sound(d), d.thrown = "none", d.source.attached, NEW e \in Event,
           NEW r, r = HandOver(d, "source", e)
    PROVE  /\ Onward(d, r) /\ r.source.up = d.source.up
           /\ ResultReady(d) /\ d.result.attached =>
                \/ Overrun(d, r, e)
                \/ /\ Took(d, r, e) /\ r.source = d.source
                   /\ e # Close => ResultReady(r) /\ r.result.attached
           /\ Open(d.result) /\ ~d.result.attached =>
                /\ r.source = d.source /\ r.task = d.task /\ r.output = d.output
                /\ r.got = d.got /\ r.ended = d.ended /\ r.thrown = "none" /\ r.result = Pushed(d.result, e)
  <1> DEFINE x == ToResult(d, e)
  <1>1. r = The({AfterSend(y, "source") : y \in {x}})
    BY DEF HandOver, Deliver
  <1>2. r = AfterSend(x, "source")
    BY <1>1, TheSent
  <1>3. /\ Onward(d, x) /\ x.source = d.source
        /\ ResultReady(d) /\ d.result.attached =>
             Overrun(d, x, e) \/ (Took(d, x, e) /\ (e # Close => ResultReady(x) /\ x.result.attached))
        /\ Open(d.result) /\ ~d.result.attached =>
                /\ x.source = d.source /\ x.task = d.task /\ x.output = d.output
                /\ x.got = d.got /\ x.ended = d.ended /\ x.thrown = "none" /\ x.result = Pushed(d.result, e)
    BY ToResultDoes
  <1> HIDE DEF x
  <1>4. Onward(x, r) /\ (x.thrown # "stop" => r = x) /\ r.source.up = x.source.up
    BY <1>2, <1>3, SentSource DEF Onward
  <1>5. Overrun(d, x, e) \/ Took(d, x, e) => r = x
    BY <1>4 DEF Overrun, Took
  <1> QED BY <1>3, <1>4, <1>5 DEF Onward

\* ... and that of output to the reader.
LEMMA HandOverOutput ==
    ASSUME NEW d, Sound(d), d.thrown = "none", d.output.attached, NEW e \in OutEvent(d.shape),
           NEW r, r = HandOver(d, "output", e)
    PROVE  \/ Overrun(d, r, e)
           \/ /\ Onward(d, r) /\ r.thrown = "none" /\ r.got = Append(d.got, e)
              /\ r.ended <=> d.ended \/ e \in {Done, Close}
              /\ r.source = d.source /\ r.result = d.result /\ r.task = d.task /\ r.output = d.output
  <1> DEFINE x == Read(d, e)
  <1>1. r = The({AfterSend(y, "output") : y \in {x}})
    BY DEF HandOver, Deliver
  <1>2. r = AfterSend(x, "output")
    BY <1>1, TheSent
  <1>3. \/ Overrun(d, x, e)
        \/ /\ Onward(d, x) /\ x.thrown = "none" /\ x.got = Append(d.got, e)
           /\ x.ended <=> d.ended \/ e \in {Done, Close}
           /\ x.source = d.source /\ x.result = d.result /\ x.task = d.task /\ x.output = d.output
    BY ReadDoes DEF Sound
  <1>4. x.thrown \in {"none", "failed"}
    BY <1>3 DEF Overrun
  <1>5. r = x
    BY <1>2, <1>4 DEF AfterSend
  <1> QED BY <1>3, <1>5

LEMMA HandOverSound ==
    ASSUME NEW d, Sound(d), NEW k \in {"source", "result", "output"}, NEW e \in EventsFor(d.shape, k)
    PROVE  /\ Onward(d, HandOver(d, k, e)) /\ HandOver(d, k, e).source.up = d.source.up
           /\ d.thrown # "none" => HandOver(d, k, e) = d
  <1>1. CASE d.thrown # "none"
    BY <1>1 DEF HandOver, Onward
  <1>2. CASE d.thrown = "none" /\ ~d[k].attached
    <2>1. HandOver(d, k, e) = Threw(d, "failed")
      BY <1>2 DEF HandOver
    <2>2. "failed" \in Exceptions
      BY DEF Exceptions
    <2> QED BY <1>2, <2>1, <2>2, ThrewSound
  <1>3. CASE d.thrown = "none" /\ d[k].attached
    <2>1. CASE k = "source"
      BY <1>3, <2>1, HandOverSource DEF EventsFor
    <2>2. CASE k = "result"
      BY <1>3, <2>2, HandOverResult DEF EventsFor
    <2>3. CASE k = "output"
      BY <1>3, <2>3, HandOverOutput DEF EventsFor, Overrun, Same
    <2> QED BY <2>1, <2>2, <2>3
  <1> QED BY <1>1, <1>2, <1>3

\* The chains a row of calls goes through.
Reached(d) == {x \in Chains(d.shape) : Onward(d, x)}

LEMMA OnwardIn ==
    ASSUME NEW d, Sound(d)
    PROVE  /\ d \in Reached(d)
           /\ \A x \in Reached(d) : Onward(d, x) /\ Sound(x) /\ x.shape = d.shape
           /\ \A x \in Reached(d) : \A y : Onward(x, y) => y \in Reached(d)
  <1>1. \A y : Onward(d, y) => y \in Chains(d.shape)
    BY DEF Onward, Sound
  <1>2. Onward(d, d)
    BY DEF Onward
  <1>3. \A x \in Reached(d) : \A y : Onward(x, y) => Onward(d, y)
    BY DEF Onward, Reached
  <1>4. \A x : x \in Reached(d) => Onward(d, x) /\ Sound(x) /\ x.shape = d.shape
    BY DEF Reached, Onward
  <1>5. \A y : Onward(d, y) => y \in Reached(d)
    BY <1>1 DEF Reached
  <1> QED BY <1>2, <1>3, <1>4, <1>5

\* PutAll() as the last of a row of chains.
Puts(f, d, k, events) ==
    /\ PutAll(d, k, events) = f[Len(events)]
    /\ f[0] = d
    /\ \A n \in 1..Len(events) : f[n] = PutNext(f[n - 1], k, events[n])
    /\ \A n \in 0..Len(events) : f[n] \in Reached(d)

LEMMA PutAllUnfolds ==
    ASSUME NEW d, Sound(d), NEW k \in {"source", "result", "task", "output"},
           NEW events \in Seq(EventsFor(d.shape, k))
    PROVE  \E f : Puts(f, d, k, events)
  <1> DEFINE N == Len(events)
             S == Reached(d)
             step == [p \in (1..N) \X S |-> PutNext(p[2], k, events[p[1]])]
             Body(n, x) == IF n = 0 THEN d ELSE PutNext(x, k, events[n])
             after == CHOOSE g : g = [n \in 0..N |-> Body(n, g[n - 1])]
  <1>1. N \in Nat /\ \A n \in 1..N : events[n] \in EventsFor(d.shape, k)
    BY LenProperties, ElementOfSeq
  <1>2. \A n \in 1..N, x \in S : PutNext(x, k, events[n]) \in S
    <2> TAKE n \in 1..N, x \in S
    <2>1. Sound(x) /\ events[n] \in EventsFor(x.shape, k)
      BY <1>1, OnwardIn
    <2>2. Onward(x, PutNext(x, k, events[n]))
      BY <2>1, PutNextSound
    <2> QED BY <2>2, OnwardIn
  <1>3. d \in S
    BY OnwardIn
  <1> HIDE DEF S
  <1>4. /\ step \in [(1..N) \X S -> S]
        /\ \A n \in 1..N, x \in S : step[<<n, x>>] = PutNext(x, k, events[n])
    <2> HIDE DEF N
    <2> QED BY <1>2
  <1>5. PICK f \in [0..N -> S] : Iterates(f, N, d, step)
    <2> HIDE DEF N, step
    <2> QED BY <1>1, <1>3, <1>4, IterationExists
  <1> HIDE DEF step
  <1>6. \A n \in 0..N : f[n] = Body(n, f[n - 1])
    <2> TAKE n \in 0..N
    <2>1. CASE n = 0
      BY <2>1, <1>5 DEF Iterates
    <2>2. CASE n # 0
      <3>1. n \in 1..N /\ n - 1 \in 0..N
        BY <2>2, <1>1
      <3>2. f[n - 1] \in S
        BY <3>1, <1>5
      <3> HIDE DEF N
      <3>3. f[n] = step[<<n, f[n - 1]>>]
        BY <3>1, <1>5 DEF Iterates
      <3> QED BY <3>1, <3>2, <3>3, <1>4, <2>2
    <2> QED BY <2>1, <2>2
  <1>7. f = [n \in 0..N |-> Body(n, f[n - 1])]
    <2> HIDE DEF Body, N
    <2> QED BY <1>5, <1>6
  <1>8. after = [n \in 0..N |-> Body(n, after[n - 1])]
    <2> HIDE DEF Body, N
    <2> QED BY <1>7
  <1>9. PutAll(d, k, events) = after[N]
    BY DEF PutAll
  <1> HIDE DEF after, N
  <1>10. after[0] = d /\ \A n \in 1..N : after[n] = PutNext(after[n - 1], k, events[n])
    <2>1. after[0] = d
      BY <1>8, <1>1
    <2>2. ASSUME NEW n \in 1..N PROVE after[n] = PutNext(after[n - 1], k, events[n])
      <3>1. n \in 0..N /\ n # 0
        BY <1>1
      <3>2. after[n] = Body(n, after[n - 1])
        <4> HIDE DEF Body
        <4> QED BY <1>8, <3>1
      <3> QED BY <3>1, <3>2
    <2> QED BY <2>1, <2>2
  <1> HIDE DEF Body
  <1>11. \A n \in 0..N : after[n] \in S
    <2>1. after[0] \in S /\ \A n \in 1..N : after[n - 1] \in S => after[n] \in S
      BY <1>2, <1>3, <1>10
    <2> QED BY <1>1, <2>1, StaysIn
  <1> QED BY <1>9, <1>10, <1>11 DEF Puts, N, S

\* The flush of a backlog as the last of a row of chains.
Flushes(f, d, k, events) ==
    /\ Flushed(d, k, events) = f[Len(events)]
    /\ f[0] = d
    /\ \A n \in 1..Len(events) : f[n] = HandOver(f[n - 1], k, events[n])
    /\ \A n \in 0..Len(events) : f[n] \in Reached(d)

LEMMA FlushedUnfolds ==
    ASSUME NEW d, Sound(d), NEW k \in {"source", "result", "output"}, NEW events \in Seq(EventsFor(d.shape, k))
    PROVE  \E f : Flushes(f, d, k, events)
  <1> DEFINE N == Len(events)
             S == Reached(d)
             step == [p \in (1..N) \X S |-> HandOver(p[2], k, events[p[1]])]
             Body(n, x) == IF n = 0 THEN d ELSE HandOver(x, k, events[n])
             after == CHOOSE g : g = [n \in 0..N |-> Body(n, g[n - 1])]
  <1>1. N \in Nat /\ \A n \in 1..N : events[n] \in EventsFor(d.shape, k)
    BY LenProperties, ElementOfSeq
  <1>2. \A n \in 1..N, x \in S : HandOver(x, k, events[n]) \in S
    <2> TAKE n \in 1..N, x \in S
    <2>1. Sound(x) /\ events[n] \in EventsFor(x.shape, k)
      BY <1>1, OnwardIn
    <2>2. Onward(x, HandOver(x, k, events[n]))
      BY <2>1, HandOverSound
    <2> QED BY <2>2, OnwardIn
  <1>3. d \in S
    BY OnwardIn
  <1> HIDE DEF S
  <1>4. /\ step \in [(1..N) \X S -> S]
        /\ \A n \in 1..N, x \in S : step[<<n, x>>] = HandOver(x, k, events[n])
    <2> HIDE DEF N
    <2> QED BY <1>2
  <1>5. PICK f \in [0..N -> S] : Iterates(f, N, d, step)
    <2> HIDE DEF N, step
    <2> QED BY <1>1, <1>3, <1>4, IterationExists
  <1> HIDE DEF step
  <1>6. \A n \in 0..N : f[n] = Body(n, f[n - 1])
    <2> TAKE n \in 0..N
    <2>1. CASE n = 0
      BY <2>1, <1>5 DEF Iterates
    <2>2. CASE n # 0
      <3>1. n \in 1..N /\ n - 1 \in 0..N
        BY <2>2, <1>1
      <3>2. f[n - 1] \in S
        BY <3>1, <1>5
      <3> HIDE DEF N
      <3>3. f[n] = step[<<n, f[n - 1]>>]
        BY <3>1, <1>5 DEF Iterates
      <3> QED BY <3>1, <3>2, <3>3, <1>4, <2>2
    <2> QED BY <2>1, <2>2
  <1>7. f = [n \in 0..N |-> Body(n, f[n - 1])]
    <2> HIDE DEF Body, N
    <2> QED BY <1>5, <1>6
  <1>8. after = [n \in 0..N |-> Body(n, after[n - 1])]
    <2> HIDE DEF Body, N
    <2> QED BY <1>7
  <1>9. Flushed(d, k, events) = after[N]
    BY DEF Flushed
  <1> HIDE DEF after, N
  <1>10. after[0] = d /\ \A n \in 1..N : after[n] = HandOver(after[n - 1], k, events[n])
    <2>1. after[0] = d
      BY <1>8, <1>1
    <2>2. ASSUME NEW n \in 1..N PROVE after[n] = HandOver(after[n - 1], k, events[n])
      <3>1. n \in 0..N /\ n # 0
        BY <1>1
      <3>2. after[n] = Body(n, after[n - 1])
        <4> HIDE DEF Body
        <4> QED BY <1>8, <3>1
      <3> QED BY <3>1, <3>2
    <2> QED BY <2>1, <2>2
  <1> HIDE DEF Body
  <1>11. \A n \in 0..N : after[n] \in S
    <2>1. after[0] \in S /\ \A n \in 1..N : after[n - 1] \in S => after[n] \in S
      BY <1>2, <1>3, <1>10
    <2> QED BY <1>1, <2>1, StaysIn
  <1> QED BY <1>9, <1>10, <1>11 DEF Flushes, N, S

LEMMA PutAllSound ==
    ASSUME NEW d, Sound(d), NEW k \in {"source", "result", "task", "output"},
           NEW events \in Seq(EventsFor(d.shape, k))
    PROVE  Onward(d, PutAll(d, k, events))
  <1>1. PICK f : Puts(f, d, k, events)
    BY PutAllUnfolds
  <1>2. Len(events) \in 0..Len(events)
    BY LenProperties
  <1> QED BY <1>1, <1>2, OnwardIn DEF Puts

LEMMA FlushedSound ==
    ASSUME NEW d, Sound(d), NEW k \in {"source", "result", "output"},
           NEW events \in Seq(EventsFor(d.shape, k))
    PROVE  Onward(d, Flushed(d, k, events)) /\ Flushed(d, k, events).source.up = d.source.up
  <1> DEFINE N == Len(events)
             S == {x \in Reached(d) : x.source.up = d.source.up}
  <1>1. PICK f : Flushes(f, d, k, events)
    BY FlushedUnfolds
  <1>2. N \in Nat /\ N \in 0..N /\ \A n \in 1..N : events[n] \in EventsFor(d.shape, k)
    BY LenProperties, ElementOfSeq
  <1>3. f[0] \in S
    BY <1>1, OnwardIn DEF Flushes
  <1>4. ASSUME NEW n \in 1..N, f[n - 1] \in S PROVE f[n] \in S
    <2> DEFINE x == f[n - 1]
    <2>1. Sound(x) /\ x.shape = d.shape /\ f[n] = HandOver(x, k, events[n]) /\ x \in Reached(d)
          /\ x.source.up = d.source.up
      BY <1>1, <1>4, OnwardIn DEF Flushes
    <2>2. events[n] \in EventsFor(x.shape, k)
      BY <1>2, <2>1
    <2> HIDE DEF x
    <2>3. Onward(x, f[n]) /\ f[n].source.up = x.source.up
      BY <2>1, <2>2, HandOverSound
    <2>4. f[n] \in Reached(d)
      BY <2>1, <2>3, OnwardIn
    <2> QED BY <2>1, <2>3, <2>4
  <1>5. f[N] \in S
    <2> HIDE DEF S, N
    <2>1. \A n \in 0..N : f[n] \in S
      BY <1>2, <1>3, <1>4, StaysIn
    <2> QED BY <1>2, <2>1
  <1> QED BY <1>1, <1>5, OnwardIn DEF Flushes

-----------------------------------------------------------------------------
\* The events that pass the filter

Passing(shape, events) == Kept(events, {e \in Event : Shows(shape, e)})

LEMMA PassingType ==
    ASSUME NEW shape, NEW events \in Seq(Event), NEW T, T = {e \in Event : Shows(shape, e)},
           NEW k, k = Kept(events, T)
    PROVE  /\ k \in Seq(T) /\ DOMAIN k = 1..Len(k) /\ Len(k) \in Nat /\ Len(k) <= Len(events)
           /\ Fixed(shape, events) = [i \in 1..Len(k) |-> Reshaped(shape, k[i])]
           /\ Fixed(shape, events) \in Seq(OutEvent(shape))
           /\ Len(Fixed(shape, events)) = Len(k)
  <1> DEFINE U == {e \in ToSet(events) : Shows(shape, e)}
  <1>1. Kept(events, U) = k
    <2>1. \A i \in 1..Len(events) : events[i] \in U <=> events[i] \in T
      <3>1. \A i \in 1..Len(events) : events[i] \in Event /\ events[i] \in ToSet(events)
        BY ElementOfSeq, LenProperties DEF ToSet
      <3> QED BY <3>1
    <2> HIDE DEF U
    <2> QED BY <2>1, KeptSame
  <1>2. k \in Seq(T) /\ Len(k) <= Len(events)
    <2>1. Event \cap T = T
      OBVIOUS
    <2> QED BY <2>1, KeptType
  <1>3. DOMAIN k = 1..Len(k) /\ Len(k) \in Nat /\ \A i \in 1..Len(k) : k[i] \in T
    BY <1>2, LenProperties, ElementOfSeq
  <1>4. Fixed(shape, events) = [i \in 1..Len(k) |-> Reshaped(shape, k[i])]
    BY <1>1, <1>3 DEF Fixed
  <1>5. \A i \in 1..Len(k) : Reshaped(shape, k[i]) \in OutEvent(shape)
    BY <1>3 DEF OutEvent
  <1>6. Fixed(shape, events) \in Seq(OutEvent(shape)) /\ Len(Fixed(shape, events)) = Len(k)
    <2> DEFINE n == Len(k)
               f == [i \in 1..n |-> Reshaped(shape, k[i])]
    <2>1. n \in Nat /\ \A i \in 1..n : Reshaped(shape, k[i]) \in OutEvent(shape)
      BY <1>3, <1>5
    <2>2. f \in [1..n -> OutEvent(shape)]
      BY <2>1
    <2>3. f \in Seq(OutEvent(shape)) /\ DOMAIN f = 1..n
      BY <2>1, <2>2, SeqDef
    <2> HIDE DEF f, n
    <2>4. Len(f) = n
      BY <2>1, <2>3, LenProperties
    <2> QED BY <1>4, <2>3, <2>4 DEF f, n
  <1> QED BY <1>2, <1>3, <1>4, <1>6

LEMMA FixedShown ==
    ASSUME NEW shape, NEW events \in Seq(Event)
    PROVE  LET k == Passing(shape, events)
           IN  /\ k \in Seq({e \in Event : Shows(shape, e)}) /\ Len(k) \in Nat /\ Len(k) <= Len(events)
               /\ Fixed(shape, events) = [i \in 1..Len(k) |-> Reshaped(shape, k[i])]
               /\ Fixed(shape, events) \in Seq(OutEvent(shape))
               /\ Len(Fixed(shape, events)) = Len(k)
  BY PassingType DEF Passing

LEMMA FixedNone == \A shape : Fixed(shape, <<>>) = <<>>
  <1> TAKE shape
  <1>1. <<>> \in Seq(Event) /\ Len(<<>>) = 0
    BY EmptySeq
  <1>2. /\ Fixed(shape, <<>>) \in Seq(OutEvent(shape))
        /\ Len(Passing(shape, <<>>)) \in Nat /\ Len(Passing(shape, <<>>)) <= 0
        /\ Len(Fixed(shape, <<>>)) = Len(Passing(shape, <<>>))
    BY <1>1, FixedShown
  <1>3. Len(Fixed(shape, <<>>)) = 0
    BY <1>2
  <1> QED BY <1>2, <1>3, EmptySeq

LEMMA FixedAppend ==
    ASSUME NEW shape, NEW events \in Seq(Event), NEW e \in Event
    PROVE  Fixed(shape, Append(events, e)) = Shown(shape, Fixed(shape, events), e)
  <1> DEFINE T == {x \in Event : Shows(shape, x)}
             k == Passing(shape, events)
             l == Passing(shape, Append(events, e))
             n == Len(k)
  <1>1. Append(events, e) \in Seq(Event)
    BY AppendProperties
  <1>2. l = IF e \in T THEN Append(k, e) ELSE k
    <2> HIDE DEF T
    <2>1. Kept(Append(events, e), T) = IF e \in T THEN Append(Kept(events, T), e) ELSE Kept(events, T)
      BY KeptAppend
    <2> QED BY <2>1 DEF Passing, T
  <1>3. /\ k \in Seq(T) /\ n \in Nat /\ Fixed(shape, events) = [i \in 1..n |-> Reshaped(shape, k[i])]
        /\ Fixed(shape, events) \in Seq(OutEvent(shape)) /\ Len(Fixed(shape, events)) = n
    BY FixedShown
  <1>4. Fixed(shape, Append(events, e)) = [i \in 1..Len(l) |-> Reshaped(shape, l[i])]
    BY <1>1, FixedShown
  <1> HIDE DEF k, l, n
  <1>5. CASE ~Shows(shape, e)
    <2>1. l = k
      BY <1>2, <1>5
    <2> QED BY <1>3, <1>4, <1>5, <2>1 DEF Shown, n
  <1>6. CASE Shows(shape, e)
    <2> DEFINE x == Reshaped(shape, e)
               a == Append(Fixed(shape, events), x)
               b == [i \in 1..(n + 1) |-> Reshaped(shape, l[i])]
    <2>1. e \in T /\ l = Append(k, e)
      BY <1>2, <1>6
    <2> HIDE DEF T
    <2>2. Len(l) = n + 1 /\ l[n + 1] = e /\ \A i \in 1..n : l[i] = k[i]
      BY <1>3, <2>1, AppendProperties DEF n
    <2>3. x \in OutEvent(shape)
      BY <1>6 DEF OutEvent
    <2> HIDE DEF x
    <2>4. /\ a \in Seq(OutEvent(shape)) /\ Len(a) = n + 1 /\ a[n + 1] = x
          /\ \A i \in 1..n : a[i] = Fixed(shape, events)[i]
      BY <1>3, <2>3, AppendProperties
    <2>5. DOMAIN a = 1..(n + 1) /\ a = [i \in 1..(n + 1) |-> a[i]]
      BY <2>4, LenProperties
    <2>6. \A i \in 1..(n + 1) : a[i] = b[i]
      <3> TAKE i \in 1..(n + 1)
      <3>1. CASE i = n + 1
        BY <1>3, <2>2, <2>4, <3>1 DEF x
      <3>2. CASE i # n + 1
        <4>1. i \in 1..n
          BY <1>3, <3>2
        <4> QED BY <1>3, <2>2, <2>4, <4>1
      <3> QED BY <3>1, <3>2
    <2>7. a = b
      <3> HIDE DEF a
      <3> QED BY <2>5, <2>6
    <2>8. Fixed(shape, Append(events, e)) = b
      BY <1>4, <2>2
    <2> QED BY <1>6, <2>7, <2>8 DEF Shown, x
  <1> QED BY <1>5, <1>6

\* What a row of calls has made of out after the first n events.
Upto(shape, out, events, n) == out \o Fixed(shape, SubSeq(events, 1, n))

LEMMA FirstOf ==
    ASSUME NEW A, NEW s \in Seq(A)
    PROVE  /\ SubSeq(s, 1, 0) = <<>> /\ SubSeq(s, 1, Len(s)) = s
           /\ \A n \in 1..Len(s) : /\ SubSeq(s, 1, n) = Append(SubSeq(s, 1, n - 1), s[n])
                                   /\ SubSeq(s, 1, n - 1) \in Seq(A)
  <1>1. SubSeq(s, 1, 0) = <<>> /\ SubSeq(s, 1, Len(s)) = s
    BY SubSeqEmpty, SubSeqFull
  <1>2. ASSUME NEW n \in 1..Len(s)
        PROVE  /\ SubSeq(s, 1, n) = Append(SubSeq(s, 1, n - 1), s[n])
               /\ SubSeq(s, 1, n - 1) \in Seq(A)
    <2>1. Len(s) \in Nat /\ n \in 1..Len(s) /\ 1 \in 1..Len(s) /\ n - 1 \in Int /\ s[n] \in A
          /\ \A i \in 1..(n - 1) : s[i] \in A
      BY LenProperties, ElementOfSeq
    <2>2. SubSeq(s, 1, n - 1) \in Seq(A)
      BY <2>1, SubSeqProperties
    <2>3. SubSeq(s, 1, n) = SubSeq(s, 1, n - 1) \o <<s[n]>>
      BY <2>1, SubSeqRecursiveSecond
    <2> HIDE DEF Upto
    <2> QED BY <2>1, <2>2, <2>3, AppendIsConcat
  <1> QED BY <1>1, <1>2

LEMMA UptoGrows ==
    ASSUME NEW shape, NEW out \in Seq(OutEvent(shape)), NEW events \in Seq(Event)
    PROVE  /\ Upto(shape, out, events, 0) = out
           /\ Upto(shape, out, events, Len(events)) = out \o Fixed(shape, events)
           /\ \A n \in 1..Len(events) :
                Upto(shape, out, events, n) = Shown(shape, Upto(shape, out, events, n - 1), events[n])
  <1>1. Upto(shape, out, events, 0) = out
    <2>1. SubSeq(events, 1, 0) = <<>> /\ Fixed(shape, <<>>) = <<>> /\ out \o <<>> = out
      BY FirstOf, FixedNone, ConcatEmptySeq
    <2> QED BY <2>1 DEF Upto
  <1>2. Upto(shape, out, events, Len(events)) = out \o Fixed(shape, events)
    BY FirstOf DEF Upto
  <1>3. ASSUME NEW n \in 1..Len(events)
        PROVE  Upto(shape, out, events, n) = Shown(shape, Upto(shape, out, events, n - 1), events[n])
    <2> DEFINE s == SubSeq(events, 1, n - 1)
               e == events[n]
               g == Fixed(shape, s)
    <2>1. s \in Seq(Event) /\ e \in Event /\ SubSeq(events, 1, n) = Append(s, e)
      BY FirstOf, ElementOfSeq
    <2>2. g \in Seq(OutEvent(shape))
      BY <2>1, FixedShown
    <2>3. Fixed(shape, SubSeq(events, 1, n)) = Shown(shape, g, e)
      BY <2>1, FixedAppend
    <2>4. Shows(shape, e) => Reshaped(shape, e) \in OutEvent(shape)
      BY <2>1 DEF OutEvent
    <2> HIDE DEF g, s, e
    <2>5. out \o Shown(shape, g, e) = Shown(shape, out \o g, e)
      <3>1. CASE Shows(shape, e)
        <4> DEFINE x == Reshaped(shape, e)
        <4>1. x \in OutEvent(shape)
          BY <2>4, <3>1
        <4> HIDE DEF x
        <4>2. out \o Append(g, x) = Append(out \o g, x)
          BY <2>2, <4>1, JoinAppend
        <4> QED BY <3>1, <4>2 DEF Shown, x
      <3>2. CASE ~Shows(shape, e)
        BY <3>2 DEF Shown
      <3> QED BY <3>1, <3>2
    <2> QED BY <2>3, <2>5 DEF Upto, g, s, e
  <1> QED BY <1>1, <1>2, <1>3

LEMMA OneShown ==
    ASSUME NEW shape, NEW out \in Seq(OutEvent(shape)), NEW e \in Event
    PROVE  out \o Fixed(shape, <<e>>) = Shown(shape, out, e)
  <1> DEFINE events == <<e>>
  <1>1. events \in Seq(Event) /\ Len(events) = 1 /\ events[1] = e
    OBVIOUS
  <1>2. 1 \in 1..Len(events) /\ 1 - 1 = 0
    BY <1>1
  <1> HIDE DEF events
  <1>3. /\ Upto(shape, out, events, 0) = out
        /\ Upto(shape, out, events, Len(events)) = out \o Fixed(shape, events)
        /\ \A n \in 1..Len(events) :
             Upto(shape, out, events, n) = Shown(shape, Upto(shape, out, events, n - 1), events[n])
    BY <1>1, UptoGrows
  <1>4. Upto(shape, out, events, 1) = Shown(shape, Upto(shape, out, events, 1 - 1), events[1])
    BY <1>2, <1>3
  <1>5. Upto(shape, out, events, 1) = Shown(shape, out, e)
    BY <1>1, <1>2, <1>3, <1>4
  <1> QED BY <1>1, <1>3, <1>5 DEF events

-----------------------------------------------------------------------------
\* Rows of events

CloseLast(events) == \A i \in DOMAIN events : events[i] = Close => i = Len(events)

\* All the events of a row of calls get through ...
AllTook(d, r, events) ==
    /\ r.thrown = "none" /\ Out(r) = Out(d) \o Fixed(d.shape, events)
    /\ r.ended => d.ended \/ \E i \in DOMAIN events : events[i] \in {Done, Close}

\* ... or one of them is an item after done, and the last of R is the last chain.
Overran(d, r, events, R) ==
    \E x \in R, j \in DOMAIN events :
        Overrun(x, r, events[j]) /\ (d.ended \/ \E i \in DOMAIN events : i < j /\ events[i] = Done)

\* f: the chains, R: those where nothing stops the events.
TakingRow(shape, R, events, f) ==
    /\ f[0] \in R
    /\ \A x \in R : Sound(x) /\ x.thrown = "none" /\ x.shape = shape
    /\ \A n \in 1..Len(events) : f[n - 1].thrown # "none" => f[n] = f[n - 1]
    /\ \A n \in 1..Len(events) :
        f[n - 1] \in R =>
            \/ Overrun(f[n - 1], f[n], events[n])
            \/ /\ Took(f[n - 1], f[n], events[n]) /\ f[n].shape = shape
               /\ events[n] # Close => f[n] \in R

LEMMA RowTakes ==
    ASSUME NEW shape, NEW R, NEW events \in Seq(Event), CloseLast(events), NEW f, TakingRow(shape, R, events, f)
    PROVE  LET r == f[Len(events)]
           IN  \/ AllTook(f[0], r, events) /\ ((\A i \in DOMAIN events : events[i] # Close) => r \in R)
               \/ Overran(f[0], r, events, R)
  <1> DEFINE N == Len(events)
             out == Out(f[0])
             Good(n) ==
               /\ f[n].thrown = "none" /\ f[n].shape = shape /\ Out(f[n]) = Upto(shape, out, events, n)
               /\ f[n].ended => f[0].ended \/ \E i \in 1..n : events[i] \in {Done, Close}
               /\ (\A i \in 1..n : events[i] # Close) => f[n] \in R
             Bad(n) ==
               \E x \in R, j \in 1..n :
                 Overrun(x, f[n], events[j]) /\ (f[0].ended \/ \E i \in 1..(j - 1) : events[i] = Done)
             T == {n \in 0..N : Good(n) \/ Bad(n)}
  <1>1. N \in Nat /\ DOMAIN events = 1..N /\ \A n \in 1..N : events[n] \in Event
    BY LenProperties, ElementOfSeq
  <1>2. out \in Seq(OutEvent(shape))
    <2>1. Sound(f[0]) /\ f[0].shape = shape
      BY DEF TakingRow
    <2>2. f[0].got \in Seq(OutEvent(shape)) /\ f[0].output.backlog \in Seq(OutEvent(shape))
      BY <2>1 DEF Sound, Chains, Streams
    <2> QED BY <2>2, ConcatProperties DEF Out
  <1>3. /\ Upto(shape, out, events, 0) = out
        /\ Upto(shape, out, events, N) = out \o Fixed(shape, events)
        /\ \A n \in 1..N : Upto(shape, out, events, n) = Shown(shape, Upto(shape, out, events, n - 1), events[n])
    <2> HIDE DEF out
    <2> QED BY <1>2, UptoGrows
  <1> HIDE DEF out, N
  <1>4. 0 \in T
    <2>1. Good(0)
      BY <1>3 DEF out, TakingRow
    <2> QED BY <1>1, <2>1
  <1>5. ASSUME NEW n \in Nat, n < N, n \in T PROVE n + 1 \in T
    <2>1. n \in 0..N /\ n + 1 \in 1..N /\ n + 1 \in 0..N /\ (n + 1) - 1 = n /\ (n + 1 \in 1..(n + 1))
          /\ \A i \in 1..n : i \in 1..(n + 1) /\ i \in 1..N /\ i # N
      BY <1>1, <1>5
    <2> DEFINE e == events[n + 1]
    <2>2. CASE Bad(n)
      <3>1. PICK x \in R, j \in 1..n :
                Overrun(x, f[n], events[j]) /\ (f[0].ended \/ \E i \in 1..(j - 1) : events[i] = Done)
        BY <2>2
      <3>2. f[n + 1] = f[n]
        <4>1. f[n].thrown # "none"
          BY <3>1 DEF Overrun
        <4> QED BY <2>1, <4>1 DEF N, TakingRow
      <3>3. Bad(n + 1)
        BY <2>1, <3>1, <3>2
      <3> QED BY <2>1, <3>3
    <2>3. CASE Good(n)
      <3>1. \A i \in 1..n : events[i] # Close
        BY <1>1, <2>1 DEF CloseLast, N
      <3>2. f[n] \in R
        BY <2>3, <3>1
      <3>3. \/ Overrun(f[n], f[n + 1], e)
            \/ Took(f[n], f[n + 1], e) /\ f[n + 1].shape = shape /\ (e # Close => f[n + 1] \in R)
        BY <2>1, <3>2 DEF N, TakingRow
      <3>4. CASE Overrun(f[n], f[n + 1], e)
        <4>1. f[n].ended
          BY <3>4 DEF Overrun
        <4>2. f[0].ended \/ \E i \in 1..n : events[i] = Done
          BY <2>3, <3>1, <4>1
        <4>3. Bad(n + 1)
          BY <2>1, <3>2, <3>4, <4>2
        <4> QED BY <2>1, <4>3
      <3>5. CASE Took(f[n], f[n + 1], e) /\ f[n + 1].shape = shape /\ (e # Close => f[n + 1] \in R)
        <4>1. Out(f[n + 1]) = Upto(shape, out, events, n + 1)
          BY <1>3, <2>1, <2>3, <3>5 DEF Took
        <4>2. f[n + 1].ended => f[0].ended \/ \E i \in 1..(n + 1) : events[i] \in {Done, Close}
          BY <2>1, <2>3, <3>5 DEF Took
        <4>3. (\A i \in 1..(n + 1) : events[i] # Close) => f[n + 1] \in R
          BY <2>1, <3>5
        <4>4. Good(n + 1)
          BY <3>5, <4>1, <4>2, <4>3 DEF Took
        <4> QED BY <2>1, <4>4
      <3> QED BY <3>3, <3>4, <3>5
    <2> HIDE DEF Good, Bad
    <2> QED BY <1>5, <2>2, <2>3
  <1>6. N \in T
    <2> HIDE DEF T
    <2>1. \A n \in 0..N : n \in T
      BY <1>1, <1>4, <1>5, NumbersUpTo
    <2> QED BY <1>1, <2>1
  <1>7. CASE Good(N)
    <2>1. f[0].shape = shape
      BY DEF TakingRow
    <2> QED BY <1>1, <1>3, <1>7, <2>1 DEF AllTook, out, N
  <1>8. CASE Bad(N)
    <2>1. PICK x \in R, j \in 1..N :
                Overrun(x, f[N], events[j]) /\ (f[0].ended \/ \E i \in 1..(j - 1) : events[i] = Done)
      BY <1>8
    <2>2. \A i \in 1..(j - 1) : i \in 1..N /\ i < j
      BY <1>1
    <2>3. Overran(f[0], f[N], events, R)
      BY <1>1, <2>1, <2>2 DEF Overran
    <2> QED BY <2>3 DEF N
  <1> QED BY <1>6, <1>7, <1>8

\* The stream of a producer that nobody reads yet.
Fresh(s) == s \in Streams(Event) /\ Open(s) /\ ~s.attached

\* s: the states of a stream that keeps the events.
Keeping(s, events) ==
    /\ s \in Streams(Event) /\ ~s.attached /\ s.hasBacklog /\ ~s.down /\ s.backlog = events
    /\ s.up <=> \E i \in DOMAIN events : events[i] = Close

KeepingRow(R, events, f, s) ==
    /\ f[0] \in R /\ s[0] = NewStream
    /\ \A n \in 1..Len(events) :
        f[n - 1] \in R /\ Fresh(s[n - 1]) => f[n] \in R /\ s[n] = Pushed(s[n - 1], events[n])

LEMMA RowKeeps ==
    ASSUME NEW R, NEW events \in Seq(Event), CloseLast(events), NEW f, NEW s, KeepingRow(R, events, f, s)
    PROVE  f[Len(events)] \in R /\ Keeping(s[Len(events)], events)
  <1> DEFINE N == Len(events)
             Kept1(n) ==
               /\ f[n] \in R
               /\ s[n] \in Streams(Event) /\ ~s[n].attached /\ s[n].hasBacklog /\ ~s[n].down
               /\ s[n].backlog = SubSeq(events, 1, n)
               /\ s[n].up <=> \E i \in 1..n : events[i] = Close
             T == {n \in 0..N : Kept1(n)}
  <1>1. N \in Nat /\ DOMAIN events = 1..N /\ \A n \in 1..N : events[n] \in Event
    BY LenProperties, ElementOfSeq
  <1>2. /\ SubSeq(events, 1, 0) = <<>> /\ SubSeq(events, 1, N) = events
        /\ \A n \in 1..N : SubSeq(events, 1, n) = Append(SubSeq(events, 1, n - 1), events[n])
    BY FirstOf
  <1> HIDE DEF N
  <1>3. 0 \in T
    <2>1. <<>> \in Seq(Event)
      BY EmptySeq
    <2>2. NewStream \in Streams(Event)
      BY <2>1 DEF NewStream, Streams
    <2>3. Kept1(0)
      BY <1>2, <2>2 DEF NewStream, KeepingRow
    <2> QED BY <1>1, <2>3
  <1>4. ASSUME NEW n \in Nat, n < N, n \in T PROVE n + 1 \in T
    <2>1. n \in 0..N /\ n + 1 \in 1..N /\ n + 1 \in 0..N /\ (n + 1) - 1 = n /\ (n + 1 \in 1..(n + 1))
          /\ \A i \in 1..n : i \in 1..(n + 1) /\ i \in 1..N /\ i # N
      BY <1>1, <1>4
    <2>2. \A i \in 1..n : events[i] # Close
      BY <1>1, <2>1 DEF CloseLast, N
    <2> DEFINE e == events[n + 1]
               t == s[n]
    <2>3. Fresh(t) /\ Held(t) /\ t.hasBacklog /\ ~t.up /\ t.backlog = SubSeq(events, 1, n) /\ ~t.down /\ ~t.attached
      BY <1>4, <2>2 DEF Fresh, Open, Held
    <2>4. f[n + 1] \in R /\ s[n + 1] = Pushed(t, e)
      BY <1>4, <2>1, <2>3 DEF N, KeepingRow
    <2>5. e \in Event
      BY <1>1, <2>1
    <2> HIDE DEF t, e
    <2>6. /\ Pushed(t, e) \in Streams(Event) /\ ~Pushed(t, e).attached /\ Pushed(t, e).hasBacklog
          /\ Pushed(t, e).backlog = Append(t.backlog, e) /\ ~Pushed(t, e).down
          /\ Pushed(t, e).up = Marked(t, e).up /\ (e # Close => Pushed(t, e).up = t.up)
      <3>1. t \in Streams(Event) /\ Held(t) /\ t.hasBacklog /\ ~t.attached /\ ~t.down
        BY <2>3 DEF Fresh
      <3>2. /\ Pushed(t, e) \in Streams(Event)
            /\ Pushed(t, e).attached = t.attached /\ Pushed(t, e).hasBacklog
            /\ Pushed(t, e).backlog = Append(t.backlog, e) /\ Pushed(t, e).down = t.down
            /\ Pushed(t, e).up = Marked(t, e).up
            /\ e # Close => Pushed(t, e).up = t.up
        BY <2>5, <3>1, PushedDoes
      <3> QED BY <3>1, <3>2
    <2>7. e = Close => Marked(t, e).up
      BY <2>3, MarkedDoes DEF Fresh
    <2>8. Pushed(t, e).up <=> \E i \in 1..(n + 1) : events[i] = Close
      <3>1. Pushed(t, e).up <=> e = Close
        BY <2>3, <2>6, <2>7
      <3>2. \A i \in 1..(n + 1) : i = n + 1 \/ i \in 1..n
        BY <1>4
      <3> QED BY <2>1, <2>2, <3>1, <3>2 DEF e
    <2>9. Kept1(n + 1)
      BY <1>2, <2>1, <2>3, <2>4, <2>6, <2>8 DEF e
    <2> HIDE DEF Kept1
    <2> QED BY <2>1, <2>9
  <1>5. N \in T
    <2> HIDE DEF T
    <2>1. \A n \in 0..N : n \in T
      BY <1>1, <1>3, <1>4, NumbersUpTo
    <2> QED BY <1>1, <2>1
  <1> QED BY <1>1, <1>2, <1>5 DEF N, Keeping

-----------------------------------------------------------------------------
\* Events that nobody reads yet

\* A callback puts events to the stream it is going to return ...
LEMMA SourceKeeps ==
    ASSUME NEW d, Sound(d), d.thrown = "none", d.source = NewStream, NEW events \in Seq(Event), CloseLast(events),
           NEW r, r = PutAll(d, "source", events)
    PROVE  /\ Onward(d, r) /\ r.thrown = "none"
           /\ r.result = d.result /\ r.task = d.task /\ r.output = d.output /\ r.got = d.got
           /\ r.ended = d.ended /\ Keeping(r.source, events)
  <1> DEFINE N == Len(events)
             R == {x \in Reached(d) : /\ x.thrown = "none" /\ x.got = d.got /\ x.ended = d.ended
                                      /\ x.result = d.result /\ x.task = d.task /\ x.output = d.output}
  <1>1. PICK f : Puts(f, d, "source", events)
    BY PutAllUnfolds DEF EventsFor
  <1> DEFINE s == [n \in 0..N |-> f[n].source]
  <1>2. N \in Nat /\ N \in 0..N /\ 0 \in 0..N /\ \A n \in 1..N : events[n] \in Event
    BY LenProperties, ElementOfSeq
  <1>3. f[0] \in R /\ s[0] = NewStream
    BY <1>1, <1>2, OnwardIn DEF Puts
  <1>4. ASSUME NEW n \in 1..N, f[n - 1] \in R, Fresh(s[n - 1])
        PROVE  f[n] \in R /\ s[n] = Pushed(s[n - 1], events[n])
    <2> DEFINE x == f[n - 1]
               y == f[n]
               e == events[n]
    <2>1. n \in 0..N /\ n - 1 \in 0..N /\ e \in Event
      BY <1>2
    <2>2. s[n] = y.source /\ s[n - 1] = x.source
      BY <2>1
    <2>3. /\ Sound(x) /\ x.thrown = "none" /\ x.got = d.got /\ x.ended = d.ended /\ x \in Reached(d)
          /\ x.result = d.result /\ x.task = d.task /\ x.output = d.output
      BY <1>4, OnwardIn
    <2>4. Open(x.source) /\ ~x.source.attached
      BY <1>4, <2>2 DEF Fresh
    <2>5. y = PutNext(x, "source", e)
      BY <1>1 DEF Puts
    <2> HIDE DEF s, x, y, e
    <2>6. y = ToSource(x, e)
      BY <2>3, <2>5 DEF PutNext, Receive
    <2>7. /\ Onward(x, y) /\ y.thrown = "none" /\ y.got = x.got /\ y.ended = x.ended
          /\ y.result = x.result /\ y.task = x.task /\ y.output = x.output
          /\ y.source = Pushed(x.source, e)
      BY <2>1, <2>3, <2>4, <2>6, ToSourceDoes
    <2>8. y \in Reached(d)
      BY <2>3, <2>7, OnwardIn
    <2> QED BY <2>2, <2>3, <2>7, <2>8 DEF x, y, e
  <1>5. f[N] \in R /\ Keeping(s[N], events)
    <2>1. KeepingRow(R, events, f, s)
      BY <1>3, <1>4 DEF KeepingRow
    <2> HIDE DEF R, s
    <2> QED BY <2>1, RowKeeps
  <1>6. r = f[N] /\ s[N] = r.source
    BY <1>1, <1>2 DEF Puts
  <1> HIDE DEF s
  <1> QED BY <1>5, <1>6, OnwardIn

\* ... declaredFunctionToHandler() puts a list to its own ...
LEMMA ResultKeeps ==
    ASSUME NEW d, Sound(d), d.thrown = "none", d.result = NewStream, NEW events \in Seq(Event), CloseLast(events),
           NEW r, r = PutAll(d, "result", events)
    PROVE  /\ Onward(d, r) /\ r.thrown = "none"
           /\ r.source = d.source /\ r.task = d.task /\ r.output = d.output /\ r.got = d.got
           /\ r.ended = d.ended /\ Keeping(r.result, events)
  <1> DEFINE N == Len(events)
             R == {x \in Reached(d) : /\ x.thrown = "none" /\ x.got = d.got /\ x.ended = d.ended
                                      /\ x.source = d.source /\ x.task = d.task /\ x.output = d.output}
  <1>1. PICK f : Puts(f, d, "result", events)
    BY PutAllUnfolds DEF EventsFor
  <1> DEFINE s == [n \in 0..N |-> f[n].result]
  <1>2. N \in Nat /\ N \in 0..N /\ 0 \in 0..N /\ \A n \in 1..N : events[n] \in Event
    BY LenProperties, ElementOfSeq
  <1>3. f[0] \in R /\ s[0] = NewStream
    BY <1>1, <1>2, OnwardIn DEF Puts
  <1>4. ASSUME NEW n \in 1..N, f[n - 1] \in R, Fresh(s[n - 1])
        PROVE  f[n] \in R /\ s[n] = Pushed(s[n - 1], events[n])
    <2> DEFINE x == f[n - 1]
               y == f[n]
               e == events[n]
    <2>1. n \in 0..N /\ n - 1 \in 0..N /\ e \in Event
      BY <1>2
    <2>2. s[n] = y.result /\ s[n - 1] = x.result
      BY <2>1
    <2>3. /\ Sound(x) /\ x.thrown = "none" /\ x.got = d.got /\ x.ended = d.ended /\ x \in Reached(d)
          /\ x.source = d.source /\ x.task = d.task /\ x.output = d.output
      BY <1>4, OnwardIn
    <2>4. Open(x.result) /\ ~x.result.attached
      BY <1>4, <2>2 DEF Fresh
    <2>5. y = PutNext(x, "result", e)
      BY <1>1 DEF Puts
    <2> HIDE DEF s, x, y, e
    <2>6. y = ToResult(x, e)
      BY <2>3, <2>5 DEF PutNext, Receive
    <2>7. /\ Onward(x, y) /\ y.thrown = "none" /\ y.got = x.got /\ y.ended = x.ended
          /\ y.source = x.source /\ y.task = x.task /\ y.output = x.output
          /\ y.result = Pushed(x.result, e)
      BY <2>1, <2>3, <2>4, <2>6, ToResultDoes
    <2>8. y \in Reached(d)
      BY <2>3, <2>7, OnwardIn
    <2> QED BY <2>2, <2>3, <2>7, <2>8 DEF x, y, e
  <1>5. f[N] \in R /\ Keeping(s[N], events)
    <2>1. KeepingRow(R, events, f, s)
      BY <1>3, <1>4 DEF KeepingRow
    <2> HIDE DEF R, s
    <2> QED BY <2>1, RowKeeps
  <1>6. r = f[N] /\ s[N] = r.result
    BY <1>1, <1>2 DEF Puts
  <1> HIDE DEF s
  <1> QED BY <1>5, <1>6, OnwardIn

\* ... and connects the two.
LEMMA SourceToBacklog ==
    ASSUME NEW d, Sound(d), d.thrown = "none", d.result = NewStream, d.source.attached,
           NEW events \in Seq(Event), CloseLast(events),
           NEW r, r = Flushed(d, "source", events)
    PROVE  /\ Onward(d, r) /\ r.thrown = "none"
           /\ r.source = d.source /\ r.task = d.task /\ r.output = d.output /\ r.got = d.got
           /\ r.ended = d.ended /\ Keeping(r.result, events)
  <1> DEFINE N == Len(events)
             R == {x \in Reached(d) : /\ x.thrown = "none" /\ x.got = d.got /\ x.ended = d.ended
                                      /\ x.source = d.source /\ x.task = d.task /\ x.output = d.output}
  <1>1. PICK f : Flushes(f, d, "source", events)
    BY FlushedUnfolds DEF EventsFor
  <1> DEFINE s == [n \in 0..N |-> f[n].result]
  <1>2. N \in Nat /\ N \in 0..N /\ 0 \in 0..N /\ \A n \in 1..N : events[n] \in Event
    BY LenProperties, ElementOfSeq
  <1>3. f[0] \in R /\ s[0] = NewStream
    BY <1>1, <1>2, OnwardIn DEF Flushes
  <1>4. ASSUME NEW n \in 1..N, f[n - 1] \in R, Fresh(s[n - 1])
        PROVE  f[n] \in R /\ s[n] = Pushed(s[n - 1], events[n])
    <2> DEFINE x == f[n - 1]
               y == f[n]
               e == events[n]
    <2>1. n \in 0..N /\ n - 1 \in 0..N /\ e \in Event
      BY <1>2
    <2>2. s[n] = y.result /\ s[n - 1] = x.result
      BY <2>1
    <2>3. /\ Sound(x) /\ x.thrown = "none" /\ x.got = d.got /\ x.ended = d.ended /\ x \in Reached(d)
          /\ x.source = d.source /\ x.task = d.task /\ x.output = d.output
      BY <1>4, OnwardIn
    <2>4. Open(x.result) /\ ~x.result.attached
      BY <1>4, <2>2 DEF Fresh
    <2>5. y = HandOver(x, "source", e)
      BY <1>1 DEF Flushes
    <2> HIDE DEF s, x, y, e
    <2>7. /\ Onward(x, y) /\ y.thrown = "none" /\ y.got = x.got /\ y.ended = x.ended
          /\ y.source = x.source /\ y.task = x.task /\ y.output = x.output
          /\ y.result = Pushed(x.result, e)
      <3>1. x.source.attached
        BY <2>3
      <3> QED BY <2>1, <2>3, <2>4, <2>5, <3>1, HandOverSource
    <2>8. y \in Reached(d)
      BY <2>3, <2>7, OnwardIn
    <2> QED BY <2>2, <2>3, <2>7, <2>8 DEF x, y, e
  <1>5. f[N] \in R /\ Keeping(s[N], events)
    <2>1. KeepingRow(R, events, f, s)
      BY <1>3, <1>4 DEF KeepingRow
    <2> HIDE DEF R, s
    <2> QED BY <2>1, RowKeeps
  <1>6. r = f[N] /\ s[N] = r.result
    BY <1>1, <1>2 DEF Flushes
  <1> HIDE DEF s
  <1> QED BY <1>5, <1>6, OnwardIn

-----------------------------------------------------------------------------
\* Events that go through

\* Events that the result gets when it has a receiver ...
ResultRow(d) == {x \in Reached(d) : ResultReady(x) /\ x.result.attached}

LEMMA ResultTakes ==
    ASSUME NEW d, Sound(d), d \in ResultRow(d), NEW events \in Seq(Event), CloseLast(events),
           NEW r, r = PutAll(d, "result", events)
    PROVE  /\ Onward(d, r)
           /\ \/ AllTook(d, r, events) /\ ((\A i \in DOMAIN events : events[i] # Close) => r \in ResultRow(d))
              \/ Overran(d, r, events, ResultRow(d))
  <1> DEFINE N == Len(events)
             R == ResultRow(d)
  <1>1. PICK f : Puts(f, d, "result", events)
    BY PutAllUnfolds DEF EventsFor
  <1>2. N \in Nat /\ N \in 0..N /\ \A n \in 1..N : events[n] \in Event
    BY LenProperties, ElementOfSeq
  <1>3. f[0] = d /\ r = f[N]
    BY <1>1 DEF Puts
  <1>4. \A x \in R : Sound(x) /\ x.thrown = "none" /\ x.shape = d.shape
    BY OnwardIn DEF ResultRow, ResultReady, TaskReady
  <1>5. ASSUME NEW n \in 1..N, f[n - 1].thrown # "none" PROVE f[n] = f[n - 1]
    BY <1>1, <1>5 DEF Puts, PutNext
  <1>6. ASSUME NEW n \in 1..N, f[n - 1] \in R
        PROVE  \/ Overrun(f[n - 1], f[n], events[n])
               \/ /\ Took(f[n - 1], f[n], events[n]) /\ f[n].shape = d.shape
                  /\ events[n] # Close => f[n] \in R
    <2> DEFINE x == f[n - 1]
               y == f[n]
               e == events[n]
    <2>1. e \in Event
      BY <1>2
    <2>2. y = PutNext(x, "result", e)
      BY <1>1 DEF Puts
    <2>3. /\ x \in Reached(d) /\ Sound(x) /\ x.shape = d.shape /\ x.thrown = "none" /\ ResultReady(x)
          /\ x.result.attached
      BY <1>4, <1>6 DEF ResultRow
    <2> HIDE DEF x, y, e
    <2>4. y = ToResult(x, e)
      BY <2>2, <2>3 DEF PutNext, Receive
    <2>5. /\ Onward(x, y)
          /\ Overrun(x, y, e) \/ (Took(x, y, e) /\ (e # Close => ResultReady(y) /\ y.result.attached))
      BY <2>1, <2>3, <2>4, ToResultDoes
    <2>6. y \in Reached(d) /\ y.shape = d.shape
      BY <2>3, <2>5, OnwardIn DEF Onward
    <2> QED BY <2>3, <2>5, <2>6 DEF ResultRow, x, y, e
  <1>7. \/ AllTook(d, r, events) /\ ((\A i \in DOMAIN events : events[i] # Close) => r \in R)
        \/ Overran(d, r, events, R)
    <2> HIDE DEF R
    <2>1. TakingRow(d.shape, R, events, f)
      BY <1>3, <1>4, <1>5, <1>6 DEF TakingRow, R
    <2> QED BY <1>3, <2>1, RowTakes
  <1>8. Onward(d, r)
    BY <1>1, <1>2, <1>3, OnwardIn DEF Puts
  <1> QED BY <1>7, <1>8

\* ... those of a stream the callback returned ...
SourceRow(d) ==
    {x \in Reached(d) : ResultReady(x) /\ x.result.attached /\ x.source = d.source /\ d.source.attached}

LEMMA SourceTakes ==
    ASSUME NEW d, Sound(d), d \in SourceRow(d), NEW events \in Seq(Event), CloseLast(events),
           NEW r, r = Flushed(d, "source", events)
    PROVE  /\ Onward(d, r)
           /\ \/ AllTook(d, r, events) /\ ((\A i \in DOMAIN events : events[i] # Close) => r \in SourceRow(d))
              \/ Overran(d, r, events, SourceRow(d))
  <1> DEFINE N == Len(events)
             R == SourceRow(d)
  <1>1. PICK f : Flushes(f, d, "source", events)
    BY FlushedUnfolds DEF EventsFor
  <1>2. N \in Nat /\ N \in 0..N /\ \A n \in 1..N : events[n] \in Event
    BY LenProperties, ElementOfSeq
  <1>3. f[0] = d /\ r = f[N]
    BY <1>1 DEF Flushes
  <1>4. \A x \in R : Sound(x) /\ x.thrown = "none" /\ x.shape = d.shape
    BY OnwardIn DEF SourceRow, ResultReady, TaskReady
  <1>5. ASSUME NEW n \in 1..N, f[n - 1].thrown # "none" PROVE f[n] = f[n - 1]
    BY <1>1, <1>5 DEF Flushes, HandOver
  <1>6. ASSUME NEW n \in 1..N, f[n - 1] \in R
        PROVE  \/ Overrun(f[n - 1], f[n], events[n])
               \/ /\ Took(f[n - 1], f[n], events[n]) /\ f[n].shape = d.shape
                  /\ events[n] # Close => f[n] \in R
    <2> DEFINE x == f[n - 1]
               y == f[n]
               e == events[n]
    <2>1. e \in Event
      BY <1>2
    <2>2. y = HandOver(x, "source", e)
      BY <1>1 DEF Flushes
    <2>3. /\ x \in Reached(d) /\ Sound(x) /\ x.shape = d.shape /\ x.thrown = "none" /\ ResultReady(x)
          /\ x.result.attached /\ x.source = d.source /\ d.source.attached
      BY <1>4, <1>6 DEF SourceRow
    <2> HIDE DEF x, y, e
    <2>4. x.source.attached
      BY <2>3
    <2>5. /\ Onward(x, y)
          /\ \/ Overrun(x, y, e)
             \/ /\ Took(x, y, e) /\ y.source = x.source
                /\ e # Close => ResultReady(y) /\ y.result.attached
      BY <2>1, <2>2, <2>3, <2>4, HandOverSource
    <2>6. y \in Reached(d) /\ y.shape = d.shape
      BY <2>3, <2>5, OnwardIn DEF Onward
    <2> QED BY <2>3, <2>5, <2>6 DEF SourceRow, x, y, e
  <1>7. \/ AllTook(d, r, events) /\ ((\A i \in DOMAIN events : events[i] # Close) => r \in R)
        \/ Overran(d, r, events, R)
    <2> HIDE DEF R
    <2>1. TakingRow(d.shape, R, events, f)
      BY <1>3, <1>4, <1>5, <1>6 DEF TakingRow, R
    <2> QED BY <1>3, <2>1, RowTakes
  <1>8. Onward(d, r)
    BY <1>1, <1>2, <1>3, OnwardIn DEF Flushes
  <1> QED BY <1>7, <1>8

\* ... and those that the result has kept.
BacklogRow(d) ==
    {x \in Reached(d) : TaskReady(x) /\ x.source = d.source /\ x.result = d.result /\ d.result.attached}

LEMMA BacklogTakes ==
    ASSUME NEW d, Sound(d), d \in BacklogRow(d), NEW events \in Seq(Event), CloseLast(events),
           NEW r, r = Flushed(d, "result", events)
    PROVE  /\ Onward(d, r)
           /\ \/ AllTook(d, r, events) /\ ((\A i \in DOMAIN events : events[i] # Close) => r \in BacklogRow(d))
              \/ Overran(d, r, events, BacklogRow(d))
  <1> DEFINE N == Len(events)
             R == BacklogRow(d)
  <1>1. PICK f : Flushes(f, d, "result", events)
    BY FlushedUnfolds DEF EventsFor
  <1>2. N \in Nat /\ N \in 0..N /\ \A n \in 1..N : events[n] \in Event
    BY LenProperties, ElementOfSeq
  <1>3. f[0] = d /\ r = f[N]
    BY <1>1 DEF Flushes
  <1>4. \A x \in R : Sound(x) /\ x.thrown = "none" /\ x.shape = d.shape
    BY OnwardIn DEF BacklogRow, ResultReady, TaskReady
  <1>5. ASSUME NEW n \in 1..N, f[n - 1].thrown # "none" PROVE f[n] = f[n - 1]
    BY <1>1, <1>5 DEF Flushes, HandOver
  <1>6. ASSUME NEW n \in 1..N, f[n - 1] \in R
        PROVE  \/ Overrun(f[n - 1], f[n], events[n])
               \/ /\ Took(f[n - 1], f[n], events[n]) /\ f[n].shape = d.shape
                  /\ events[n] # Close => f[n] \in R
    <2> DEFINE x == f[n - 1]
               y == f[n]
               e == events[n]
    <2>1. e \in Event
      BY <1>2
    <2>2. y = HandOver(x, "result", e)
      BY <1>1 DEF Flushes
    <2>3. /\ x \in Reached(d) /\ Sound(x) /\ x.shape = d.shape /\ x.thrown = "none" /\ TaskReady(x)
          /\ x.source = d.source /\ x.result = d.result /\ d.result.attached
      BY <1>4, <1>6 DEF BacklogRow
    <2> HIDE DEF x, y, e
    <2>4. x.result.attached
      BY <2>3
    <2>5. /\ Onward(x, y) /\ y.source = x.source
          /\ \/ Overrun(x, y, e)
             \/ Took(x, y, e) /\ y.result = x.result /\ (e # Close => TaskReady(y))
      BY <2>1, <2>2, <2>3, <2>4, HandOverResult
    <2>6. y \in Reached(d) /\ y.shape = d.shape
      BY <2>3, <2>5, OnwardIn DEF Onward
    <2> QED BY <2>3, <2>5, <2>6 DEF BacklogRow, x, y, e
  <1>7. \/ AllTook(d, r, events) /\ ((\A i \in DOMAIN events : events[i] # Close) => r \in R)
        \/ Overran(d, r, events, R)
    <2> HIDE DEF R
    <2>1. TakingRow(d.shape, R, events, f)
      BY <1>3, <1>4, <1>5, <1>6 DEF TakingRow, R
    <2> QED BY <1>3, <2>1, RowTakes
  <1>8. Onward(d, r)
    BY <1>1, <1>2, <1>3, OnwardIn DEF Flushes
  <1> QED BY <1>7, <1>8

\* Events that the task gets instead.
TaskRow(d) == {x \in Reached(d) : TaskReady(x)}

LEMMA TaskTakes ==
    ASSUME NEW d, Sound(d), d \in TaskRow(d), NEW events \in Seq(Event), CloseLast(events),
           NEW r, r = PutAll(d, "task", events)
    PROVE  /\ Onward(d, r)
           /\ \/ AllTook(d, r, events) /\ ((\A i \in DOMAIN events : events[i] # Close) => r \in TaskRow(d))
              \/ Overran(d, r, events, TaskRow(d))
  <1> DEFINE N == Len(events)
             R == TaskRow(d)
  <1>1. PICK f : Puts(f, d, "task", events)
    BY PutAllUnfolds DEF EventsFor
  <1>2. N \in Nat /\ N \in 0..N /\ \A n \in 1..N : events[n] \in Event
    BY LenProperties, ElementOfSeq
  <1>3. f[0] = d /\ r = f[N]
    BY <1>1 DEF Puts
  <1>4. \A x \in R : Sound(x) /\ x.thrown = "none" /\ x.shape = d.shape
    BY OnwardIn DEF TaskRow, ResultReady, TaskReady
  <1>5. ASSUME NEW n \in 1..N, f[n - 1].thrown # "none" PROVE f[n] = f[n - 1]
    BY <1>1, <1>5 DEF Puts, PutNext
  <1>6. ASSUME NEW n \in 1..N, f[n - 1] \in R
        PROVE  \/ Overrun(f[n - 1], f[n], events[n])
               \/ /\ Took(f[n - 1], f[n], events[n]) /\ f[n].shape = d.shape
                  /\ events[n] # Close => f[n] \in R
    <2> DEFINE x == f[n - 1]
               y == f[n]
               e == events[n]
    <2>1. e \in Event
      BY <1>2
    <2>2. y = PutNext(x, "task", e)
      BY <1>1 DEF Puts
    <2>3. x \in Reached(d) /\ Sound(x) /\ x.shape = d.shape /\ x.thrown = "none" /\ TaskReady(x)
      BY <1>4, <1>6 DEF TaskRow
    <2> HIDE DEF x, y, e
    <2>4. y = ToTask(x, e)
      BY <2>2, <2>3 DEF PutNext, Receive
    <2>5. /\ Onward(x, y)
          /\ Overrun(x, y, e) \/ (Took(x, y, e) /\ (e # Close => TaskReady(y)))
      BY <2>1, <2>3, <2>4, ToTaskDoes
    <2>6. y \in Reached(d) /\ y.shape = d.shape
      BY <2>3, <2>5, OnwardIn DEF Onward
    <2> QED BY <2>3, <2>5, <2>6 DEF TaskRow, x, y, e
  <1>7. \/ AllTook(d, r, events) /\ ((\A i \in DOMAIN events : events[i] # Close) => r \in R)
        \/ Overran(d, r, events, R)
    <2> HIDE DEF R
    <2>1. TakingRow(d.shape, R, events, f)
      BY <1>3, <1>4, <1>5, <1>6 DEF TakingRow, R
    <2> QED BY <1>3, <2>1, RowTakes
  <1>8. Onward(d, r)
    BY <1>1, <1>2, <1>3, OnwardIn DEF Puts
  <1> QED BY <1>7, <1>8

\* Without promiseItems() nothing is too late.
LEMMA NoneOverran ==
    ASSUME NEW d, NEW r, NEW R, NEW events \in Seq(Event), R \subseteq Reached(d),
           \/ d.reader # "items"
           \/ ~d.ended /\ \A i, j \in DOMAIN events : i < j /\ events[i] = Done => events[j].t # "item"
           \/ \A i \in DOMAIN events : events[i].t # "item"
    PROVE  ~Overran(d, r, events, R)
  <1>1. \A x \in R : x.reader = d.reader
    BY DEF Reached, Onward
  <1> QED BY <1>1 DEF Overran, Overrun

LEMMA Failure ==
    LET events == <<Error, Close>>
    IN  /\ events \in Seq(Event) /\ CloseLast(events) /\ DOMAIN events = {1, 2}
        /\ events[1] = Error /\ events[2] = Close
        /\ \A i \in DOMAIN events : events[i].t # "item"
        /\ \E i \in DOMAIN events : events[i] = Close
  <1>1. Error \in Event /\ Close \in Event /\ Error # Close /\ Error.t # "item" /\ Close.t # "item"
    BY EventKinds DEF Error, Close
  <1> DEFINE events == <<Error, Close>>
  <1>2. events \in Seq(Event) /\ DOMAIN events = {1, 2} /\ Len(events) = 2 /\ events[1] = Error /\ events[2] = Close
    BY <1>1
  <1> HIDE DEF events
  <1> QED BY <1>1, <1>2 DEF CloseLast, events

LEMMA ListEventsDo ==
    ASSUME NEW items \in Seq(Items)
    PROVE  LET events == ListEvents(items)
           IN  /\ events \in Seq(Event) /\ CloseLast(events)
               /\ \A i, j \in DOMAIN events : i < j /\ events[i] = Done => events[j].t # "item"
  <1> DEFINE n == Len(items)
             s == [i \in 1..n |-> Item(items[i])]
             t == <<Done, Close>>
             events == s \o t
  <1>1. n \in Nat /\ DOMAIN items = 1..n /\ \A i \in 1..n : items[i] \in Items
    BY LenProperties, ElementOfSeq
  <1>2. \A i \in 1..n : Item(items[i]) \in Event /\ Item(items[i]) # Done /\ Item(items[i]) # Close
    BY <1>1 DEF Item, Event, Done, Close
  <1>3. Done \in Event /\ Close \in Event /\ Done # Close /\ Close.t # "item"
    BY EventKinds DEF Done, Close
  <1> HIDE DEF n
  <1>4. s \in [1..n -> Event]
    BY <1>2
  <1>5. s \in Seq(Event) /\ DOMAIN s = 1..n
    BY <1>1, <1>4, SeqDef
  <1>6. Len(s) = n
    <2> HIDE DEF s
    <2> QED BY <1>1, <1>5, LenProperties
  <1>7. t \in Seq(Event) /\ Len(t) = 2 /\ t[1] = Done /\ t[2] = Close
    BY <1>3
  <1>8. \A i \in 1..n : s[i] = Item(items[i])
    OBVIOUS
  <1> HIDE DEF s, t
  <1>9. /\ events \in Seq(Event) /\ Len(events) = n + 2
        /\ \A i \in 1..(n + 2) : events[i] = IF i <= n THEN s[i] ELSE t[i - n]
    <2>1. /\ s \o t \in Seq(Event) /\ Len(s \o t) = Len(s) + Len(t)
          /\ \A i \in 1..Len(s) + Len(t) : (s \o t)[i] = IF i <= Len(s) THEN s[i] ELSE t[i - Len(s)]
      BY <1>5, <1>7, ConcatProperties
    <2> QED BY <1>6, <1>7, <2>1
  <1>10. DOMAIN events = 1..(n + 2)
    BY <1>9, LenProperties
  <1>11. /\ \A i \in 1..n : events[i] = Item(items[i])
         /\ events[n + 1] = Done /\ events[n + 2] = Close
    <2>1. /\ \A i \in 1..n : i \in 1..(n + 2) /\ i <= n
          /\ n + 1 \in 1..(n + 2) /\ n + 2 \in 1..(n + 2) /\ ~(n + 1 <= n) /\ ~(n + 2 <= n)
          /\ (n + 1) - n = 1 /\ (n + 2) - n = 2
      BY <1>1
    <2> QED BY <1>7, <1>8, <1>9, <2>1
  <1> HIDE DEF events
  <1>12. \A i \in DOMAIN events : i \in 1..n \/ i = n + 1 \/ i = n + 2
    BY <1>1, <1>10
  <1>13. CloseLast(events)
    BY <1>2, <1>3, <1>9, <1>11, <1>12 DEF CloseLast
  <1>14. \A i, j \in DOMAIN events : i < j /\ events[i] = Done => events[j].t # "item"
    <2> TAKE i, j \in DOMAIN events
    <2> SUFFICES ASSUME i < j, events[i] = Done PROVE events[j].t # "item"
      OBVIOUS
    <2>1. i = n + 1
      BY <1>2, <1>3, <1>11, <1>12
    <2>2. j = n + 2
      BY <1>1, <1>12, <2>1
    <2> QED BY <1>3, <1>11, <2>2
  <1>15. events = ListEvents(items)
    BY <1>1 DEF ListEvents, events, s, t
  <1> QED BY <1>9, <1>13, <1>14, <1>15

\* sendTo()
LEMMA AttachedDoes ==
    ASSUME NEW E, NEW s \in Streams(E), ~s.down
    PROVE  /\ Attached(s) \in Streams(E) /\ Held(Attached(s))
           /\ Attached(s).attached /\ Attached(s).backlog = <<>> /\ Attached(s).up = s.up /\ ~Attached(s).down
  <1>1. <<>> \in Seq(E)
    BY EmptySeq
  <1> QED BY <1>1 DEF Attached, Streams, Held

LEMMA SourceConnects ==
    ASSUME NEW d, Sound(d), ~d.source.attached, ~d.source.down, NEW r, r = SendTo(d, "source")
    PROVE  \E m :
             /\ Onward(d, m) /\ m.result = d.result /\ m.task = d.task /\ m.output = d.output
             /\ m.got = d.got /\ m.ended = d.ended /\ m.thrown = d.thrown /\ m.source = Attached(d.source)
             /\ r = Flushed(m, "source", d.source.backlog)
  <1> DEFINE s == Attached(d.source)
             m == [d EXCEPT !.source = s]
  <1>1. s \in Streams(Event) /\ Held(s)
    BY AttachedDoes DEF Sound, Chains
  <1>2. r = Flushed(m, "source", d.source.backlog)
    BY DEF SendTo
  <1> HIDE DEF s
  <1>3. /\ Onward(d, m) /\ m.result = d.result /\ m.task = d.task /\ m.output = d.output
        /\ m.got = d.got /\ m.ended = d.ended /\ m.thrown = d.thrown /\ m.source = s
    BY <1>1, SourceSound
  <1> HIDE DEF m
  <1> QED BY <1>2, <1>3 DEF s

LEMMA ResultConnects ==
    ASSUME NEW d, Sound(d), ~d.result.attached, ~d.result.down, NEW r, r = SendTo(d, "result")
    PROVE  \E m :
             /\ Onward(d, m) /\ m.source = d.source /\ m.task = d.task /\ m.output = d.output
             /\ m.got = d.got /\ m.ended = d.ended /\ m.thrown = d.thrown /\ m.result = Attached(d.result)
             /\ r = Flushed(m, "result", d.result.backlog)
  <1> DEFINE s == Attached(d.result)
             m == [d EXCEPT !.result = s]
  <1>1. s \in Streams(Event) /\ Held(s)
    BY AttachedDoes DEF Sound, Chains
  <1>2. r = Flushed(m, "result", d.result.backlog)
    BY DEF SendTo
  <1> HIDE DEF s
  <1>3. /\ Onward(d, m) /\ m.source = d.source /\ m.task = d.task /\ m.output = d.output
        /\ m.got = d.got /\ m.ended = d.ended /\ m.thrown = d.thrown /\ m.result = s
    BY <1>1, ResultSound
  <1> HIDE DEF m
  <1> QED BY <1>2, <1>3 DEF s

LEMMA CaughtDoes ==
    ASSUME NEW d, Sound(d)
    PROVE  Same(d, Caught(d)) /\ Caught(d).thrown = "none"
  <1>1. "none" \in Exceptions
    BY DEF Exceptions
  <1> QED BY <1>1, ThrewSound DEF Caught, Same

LEMMA CaughtAgain ==
    ASSUME NEW d, Sound(d), d.thrown = "none", NEW what
    PROVE  Caught(Threw(d, what)) = d
  BY DEF Caught, Threw, Sound, Chains

-----------------------------------------------------------------------------
\* A callback that returns at once

\* The result is read at last.
LEMMA BacklogRead ==
    ASSUME NEW d, Sound(d), TaskReady(d), d.reader = "none",
           NEW events \in Seq(Event), CloseLast(events), Keeping(d.result, events),
           NEW r, r = SendTo(d, "result")
    PROVE  /\ Onward(d, r) /\ AllTook(d, r, events) /\ r.source.up = d.source.up
           /\ (\A i \in DOMAIN events : events[i] # Close) =>
                ResultReady(r) /\ r.result.attached /\ r.source = d.source
  <1>1. PICK m :
            /\ Onward(d, m) /\ m.source = d.source /\ m.task = d.task /\ m.output = d.output
            /\ m.got = d.got /\ m.ended = d.ended /\ m.thrown = d.thrown /\ m.result = Attached(d.result)
            /\ r = Flushed(m, "result", events)
    BY ResultConnects DEF Keeping
  <1>2. m.result.attached /\ m.result.up = d.result.up /\ ~m.result.down
    BY <1>1, AttachedDoes DEF Keeping
  <1>3. Sound(m) /\ m.shape = d.shape /\ m.reader = "none" /\ ~m.ended /\ Out(m) = Out(d)
    BY <1>1 DEF Onward, Sound, Out
  <1>4. m \in BacklogRow(m)
    BY <1>1, <1>2, <1>3, OnwardIn DEF BacklogRow, TaskReady
  <1>5. /\ Onward(m, r)
        /\ \/ AllTook(m, r, events) /\ ((\A i \in DOMAIN events : events[i] # Close) => r \in BacklogRow(m))
           \/ Overran(m, r, events, BacklogRow(m))
    BY <1>1, <1>3, <1>4, BacklogTakes
  <1>6. ~Overran(m, r, events, BacklogRow(m))
    <2>1. BacklogRow(m) \subseteq Reached(m)
      BY DEF BacklogRow
    <2> QED BY <1>3, <2>1, NoneOverran
  <1>7. AllTook(d, r, events)
    BY <1>1, <1>3, <1>5, <1>6 DEF AllTook
  <1>8. r.source.up = d.source.up
    BY <1>1, <1>3, FlushedSound DEF EventsFor
  <1>9. ASSUME \A i \in DOMAIN events : events[i] # Close
        PROVE  ResultReady(r) /\ r.result.attached /\ r.source = d.source
    <2>1. TaskReady(r) /\ r.source = m.source /\ r.result = m.result
      BY <1>5, <1>6, <1>9 DEF BacklogRow
    <2>2. Open(m.result)
      BY <1>2, <1>9 DEF Open, Keeping
    <2> QED BY <1>1, <1>2, <2>1, <2>2 DEF ResultReady
  <1> QED BY <1>1, <1>5, <1>7, <1>8, <1>9 DEF Onward

\* What is true when the callback has returned the events.
Ran(d, r, events) ==
    /\ Onward(d, r) /\ AllTook(d, r, events) /\ events \in Seq(Event) /\ CloseLast(events)

LEMMA NewKeeps == Keeping(NewStream, <<>>)
  <1>1. <<>> \in Seq(Event) /\ DOMAIN <<>> = {}
    BY EmptySeq
  <1>2. NewStream \in Streams(Event)
    BY <1>1 DEF NewStream, Streams
  <1> QED BY <1>1, <1>2 DEF NewStream, Keeping

LEMMA OnwardThrough ==
    ASSUME NEW x, NEW y, NEW z, Onward(x, y), Onward(y, z) PROVE Onward(x, z)
  BY DEF Onward

LEMMA EventsOfTypes ==
    ASSUME NEW result \in Results, NEW awaited \in BOOLEAN
    PROVE  EventsOf(result, awaited) \in Seq(Event) /\ CloseLast(EventsOf(result, awaited))
  <1>1. result.t \in {"items", "stream", "taken", "table", "throws", "stops"}
    BY ResultsAssumption
  <1>2. CASE result.t = "items"
    BY <1>2, ResultsAssumption, ListEventsDo DEF EventsOf
  <1>3. CASE result.t = "stream"
    BY <1>3, ResultsAssumption DEF EventsOf, CloseLast
  <1>4. CASE result.t \in {"taken", "table", "throws"}
    BY <1>4, Failure DEF EventsOf
  <1>5. CASE result.t = "stops"
    <2>1. <<>> \in Seq(Event) /\ CloseLast(<<>>) /\ <<Close>> \in Seq(Event) /\ CloseLast(<<Close>>)
      BY EventKinds DEF CloseLast
    <2> QED BY <1>5, <2>1 DEF EventsOf
  <1> QED BY <1>1, <1>2, <1>3, <1>4, <1>5

LEMMA CallbackReturns ==
    ASSUME NEW d, Sound(d), TaskReady(d), d.reader = "none", d.source = NewStream, d.result = NewStream,
           NEW result \in Results,
           NEW x, x = IF result.t = "stream" THEN PutAll(d, "source", result.before) ELSE d,
           NEW r, r = CallbackToStream(x, result),
           NEW events, events = EventsOf(result, FALSE)
    PROVE  /\ Ran(d, r, events)
           /\ result.t = "stream" =>
                /\ r.source.up <=> \E i \in DOMAIN events : events[i] = Close
                /\ (\A i \in DOMAIN events : events[i] # Close) => SourceReady(r)
  <1>0. d.thrown = "none" /\ events \in Seq(Event) /\ CloseLast(events)
    BY EventsOfTypes DEF TaskReady
  <1>1. result.t \in {"items", "stream", "taken", "table", "throws", "stops"}
    BY ResultsAssumption
  <1>2. CASE result.t = "stops"
    <2>1. r = SendTo(d, "result") /\ events = <<>>
      BY <1>2 DEF CallbackToStream, EventsOf
    <2>2. Keeping(d.result, events)
      BY <2>1, NewKeeps
    <2> QED BY <1>0, <1>2, <2>1, <2>2, BacklogRead DEF Ran
  <1>3. CASE result.t = "throws"
    <2> DEFINE y == PutAll(d, "result", events)
    <2>1. r = SendTo(y, "result")
      BY <1>3 DEF CallbackToStream, EventsOf
    <2>2. /\ Onward(d, y) /\ y.thrown = "none"
          /\ y.source = d.source /\ y.task = d.task /\ y.output = d.output /\ y.got = d.got /\ y.ended = d.ended
          /\ Keeping(y.result, events)
      <3>1. d.result = NewStream /\ Sound(d) /\ d.thrown = "none" /\ events \in Seq(Event) /\ CloseLast(events)
        BY <1>0
      <3> QED BY ONLY <3>1, ResultKeeps
    <2> HIDE DEF y
    <2>3. Sound(y) /\ TaskReady(y) /\ y.reader = "none" /\ Out(y) = Out(d) /\ y.shape = d.shape
      BY <2>2 DEF Onward, TaskReady, Out
    <2>4. Onward(y, r) /\ AllTook(y, r, events)
      BY <1>0, <2>1, <2>2, <2>3, BacklogRead
    <2> QED BY <1>0, <1>3, <2>2, <2>3, <2>4, OnwardThrough DEF Ran, AllTook
  <1>4. ASSUME result.t \in {"items", "stream", "taken", "table"} PROVE r = AfterResolve(Resolve(x, result))
    <2>1. r = The({AfterResolve(y) : y \in {Resolve(x, result)}})
      BY <1>4 DEF CallbackToStream
    <2>2. {AfterResolve(y) : y \in {Resolve(x, result)}} = {AfterResolve(Resolve(x, result))}
      OBVIOUS
    <2> QED BY <2>1, <2>2, TheOne
  <1>5. CASE result.t = "items"
    <2> DEFINE y == PutAll(d, "result", events)
    <2>1. y = Resolve(x, result)
      BY <1>5 DEF Resolve, EventsOf
    <2>2. /\ Onward(d, y) /\ y.thrown = "none"
          /\ y.source = d.source /\ y.task = d.task /\ y.output = d.output /\ y.got = d.got /\ y.ended = d.ended
          /\ Keeping(y.result, events)
      <3>1. d.result = NewStream /\ Sound(d) /\ d.thrown = "none" /\ events \in Seq(Event) /\ CloseLast(events)
        BY <1>0
      <3> QED BY ONLY <3>1, ResultKeeps
    <2> HIDE DEF y
    <2>3. Sound(y) /\ TaskReady(y) /\ y.reader = "none" /\ Out(y) = Out(d) /\ y.shape = d.shape
      BY <2>2 DEF Onward, TaskReady, Out
    <2>4. r = SendTo(y, "result")
      BY <1>4, <1>5, <2>1, <2>2 DEF AfterResolve
    <2>5. Onward(y, r) /\ AllTook(y, r, events)
      BY <1>0, <2>2, <2>3, <2>4, BacklogRead
    <2> QED BY <1>0, <1>5, <2>2, <2>3, <2>5, OnwardThrough DEF Ran, AllTook
  <1>6. CASE result.t = "stream"
    <2>1. events = result.before /\ x = PutAll(d, "source", events)
      BY <1>6 DEF EventsOf
    <2>2. /\ Onward(d, x) /\ x.thrown = "none"
          /\ x.result = d.result /\ x.task = d.task /\ x.output = d.output /\ x.got = d.got /\ x.ended = d.ended
          /\ Keeping(x.source, events)
      <3>1. /\ d.source = NewStream /\ Sound(d) /\ d.thrown = "none" /\ events \in Seq(Event)
            /\ CloseLast(events) /\ x = PutAll(d, "source", events)
        BY <1>0, <2>1
      <3> QED BY ONLY <3>1, SourceKeeps
    <2>3. Sound(x) /\ ~x.source.attached /\ ~x.source.down /\ x.source.backlog = events
      BY <2>2 DEF Onward, Keeping
    <2>4. PICK m :
             /\ Onward(x, m) /\ m.result = x.result /\ m.task = x.task /\ m.output = x.output
             /\ m.got = x.got /\ m.ended = x.ended /\ m.thrown = x.thrown /\ m.source = Attached(x.source)
             /\ SendTo(x, "source") = Flushed(m, "source", events)
      <3>1. \E m :
             /\ Onward(x, m) /\ m.result = x.result /\ m.task = x.task /\ m.output = x.output
             /\ m.got = x.got /\ m.ended = x.ended /\ m.thrown = x.thrown /\ m.source = Attached(x.source)
             /\ SendTo(x, "source") = Flushed(m, "source", x.source.backlog)
        BY <2>3, SourceConnects
      <3> QED BY <2>3, <3>1
    <2>5. m.source.attached /\ m.source.up = x.source.up /\ ~m.source.down
      BY <2>2, <2>3, <2>4, AttachedDoes DEF Keeping
    <2> DEFINE y == Flushed(m, "source", events)
    <2>6. Sound(m) /\ m.thrown = "none" /\ m.result = NewStream
      BY <2>2, <2>4 DEF Onward
    <2>7. /\ Onward(m, y) /\ y.thrown = "none"
          /\ y.source = m.source /\ y.task = m.task /\ y.output = m.output /\ y.got = m.got /\ y.ended = m.ended
          /\ Keeping(y.result, events)
      <3>1. m.source.attached /\ Sound(m) /\ m.thrown = "none" /\ m.result = NewStream
        BY <2>5, <2>6
      <3>2. events \in Seq(Event) /\ CloseLast(events)
        BY <1>0
      <3> QED BY ONLY <3>1, <3>2, SourceToBacklog
    <2>8. r = SendTo(y, "result")
      BY <1>4, <1>6, <2>4, <2>7 DEF AfterResolve, Resolve
    <2> HIDE DEF y
    <2>9. Onward(d, y) /\ Sound(y)
      BY <2>2, <2>4, <2>7 DEF Onward
    <2>10. TaskReady(y) /\ y.reader = "none" /\ Out(y) = Out(d) /\ y.shape = d.shape
      BY <2>2, <2>4, <2>7, <2>9 DEF Onward, TaskReady, Out
    <2>11. /\ Onward(y, r) /\ AllTook(y, r, events) /\ r.source.up = y.source.up
           /\ (\A i \in DOMAIN events : events[i] # Close) =>
                ResultReady(r) /\ r.result.attached /\ r.source = y.source
      BY <1>0, <2>7, <2>8, <2>9, <2>10, BacklogRead
    <2>12. Onward(d, r) /\ AllTook(d, r, events)
      BY <2>7, <2>9, <2>10, <2>11, OnwardThrough, <2>2, <2>4 DEF AllTook
    <2>13. r.source.up <=> \E i \in DOMAIN events : events[i] = Close
      BY <2>2, <2>5, <2>7, <2>11 DEF Keeping
    <2>14. ASSUME \A i \in DOMAIN events : events[i] # Close PROVE SourceReady(r)
      BY <2>5, <2>7, <2>11, <2>13, <2>14 DEF SourceReady, Open
    <2> QED BY <1>0, <2>12, <2>13, <2>14 DEF Ran
  <1>7. CASE result.t \in {"taken", "table"}
    <2>1. PICK what : what \in {"usage", "failed"} /\ Resolve(x, result) = Threw(d, what)
      BY <1>7 DEF Resolve
    <2>2. what \in Exceptions /\ what # "none"
      BY <2>1 DEF Exceptions
    <2>3. Threw(d, what).thrown = what
      BY <2>2, ThrewSound
    <2>4. r = PutAll(d, "task", events)
      <3>1. Caught(Threw(d, what)) = d
        BY <1>0, CaughtAgain
      <3>2. events = <<Error, Close>>
        BY <1>7 DEF EventsOf
      <3>3. r = AfterResolve(Threw(d, what))
        BY <1>4, <1>7, <2>1
      <3> QED BY <2>2, <2>3, <3>1, <3>2, <3>3 DEF AfterResolve
    <2>5. d \in TaskRow(d)
      BY OnwardIn DEF TaskRow
    <2>6. /\ Onward(d, r)
          /\ AllTook(d, r, events) \/ Overran(d, r, events, TaskRow(d))
      BY <1>0, <2>4, <2>5, TaskTakes
    <2>7. ~Overran(d, r, events, TaskRow(d))
      <3>1. TaskRow(d) \subseteq Reached(d)
        BY DEF TaskRow
      <3> QED BY <1>0, <3>1, NoneOverran
    <2> QED BY <1>0, <1>7, <2>6, <2>7 DEF Ran
  <1> QED BY <1>1, <1>2, <1>3, <1>5, <1>6, <1>7

-----------------------------------------------------------------------------
\* A callback's promise

LEMMA CatchSound ==
    ASSUME NEW d, Sound(d)
    PROVE  Onward(d, CatchRejection(d))
  <1> DEFINE y == Caught(d)
  <1>1. Onward(d, y) /\ Sound(y) /\ y.thrown = "none"
    BY CaughtDoes DEF Same, Onward
  <1>2. Close \in EventsFor(y.shape, "result") /\ <<Error, Close>> \in Seq(EventsFor(y.shape, "result"))
    BY EventKinds, Failure DEF EventsFor
  <1> HIDE DEF y
  <1>3. Onward(y, Receive(y, "result", Close)) /\ Onward(y, PutAll(y, "result", <<Error, Close>>))
    BY <1>1, <1>2, ReceiveSound, PutAllSound
  <1>4. CatchRejection(d) \in {y, Receive(y, "result", Close), PutAll(y, "result", <<Error, Close>>)}
    BY DEF CatchRejection, y
  <1> QED BY <1>1, <1>3, <1>4, OnwardThrough

\* A rejection ends the query, if nothing else has.
LEMMA CatchTakes ==
    ASSUME NEW d, Sound(d), NEW y, y = Caught(d), ResultReady(y), y.result.attached,
           NEW events, events = IF d.thrown = "stop" THEN <<Close>> ELSE <<Error, Close>>,
           NEW r, r = CatchRejection(d)
    PROVE  AllTook(y, r, events)
  <1>1. Same(d, y) /\ y.thrown = "none" /\ Sound(y) /\ ~d.result.up
    BY CaughtDoes DEF Same, Onward, ResultReady, Open
  <1>2. CASE d.thrown = "stop"
    <2>1. r = ToResult(y, Close) /\ events = <<Close>>
      BY <1>1, <1>2 DEF CatchRejection, Receive
    <2>2. Close \in Event /\ Close.t # "item"
      BY EventKinds DEF Close
    <2>3. Took(y, r, Close)
      BY <1>1, <2>1, <2>2, ToResultDoes DEF Overrun
    <2>4. Out(r) = Out(y) \o Fixed(y.shape, events)
      <3> DEFINE out == Out(y)
      <3>1. y.got \in Seq(OutEvent(y.shape)) /\ y.output.backlog \in Seq(OutEvent(y.shape))
        BY <1>1 DEF Sound, Chains, Streams
      <3>2. out \in Seq(OutEvent(y.shape))
        BY <3>1, ConcatProperties DEF Out
      <3> HIDE DEF out
      <3>3. out \o Fixed(y.shape, <<Close>>) = Shown(y.shape, out, Close)
        BY <2>2, <3>2, OneShown
      <3> QED BY <2>1, <2>3, <3>3 DEF Took, out
    <2>5. DOMAIN events = {1} /\ events[1] = Close
      BY <2>1
    <2> QED BY <2>3, <2>4, <2>5 DEF Took, AllTook
  <1>3. CASE d.thrown # "stop"
    <2>1. r = PutAll(y, "result", events) /\ events = <<Error, Close>>
      BY <1>1, <1>3 DEF CatchRejection
    <2>2. events \in Seq(Event) /\ CloseLast(events) /\ \A i \in DOMAIN events : events[i].t # "item"
      BY <2>1, Failure
    <2>3. y \in ResultRow(y)
      BY <1>1, OnwardIn DEF ResultRow
    <2>4. AllTook(y, r, events) \/ Overran(y, r, events, ResultRow(y))
      BY <1>1, <2>1, <2>2, <2>3, ResultTakes
    <2>5. ~Overran(y, r, events, ResultRow(y))
      <3>1. ResultRow(y) \subseteq Reached(y)
        BY DEF ResultRow
      <3> QED BY <2>2, <3>1, NoneOverran
    <2> QED BY <2>4, <2>5
  <1> QED BY <1>2, <1>3

\* The reader of promiseItems() is given an item after done.
LateItem(d, events) ==
    d.reader = "items" /\ \E i, j \in DOMAIN events : i < j /\ events[i] = Done /\ events[j].t = "item"

\* All the events of a result got through, or an exception rejects the promise.
Resolved(d, r, result, events) ==
    /\ AllTook(d, r, events)
    /\ result.t = "stream" =>
        /\ r.source.up <=> \E i \in DOMAIN events : events[i] = Close
        /\ (\A i \in DOMAIN events : events[i] # Close) => SourceReady(r)

Rejected(d, r, result, events) ==
    /\ r.thrown # "none" /\ ResultReady(Caught(r)) /\ r.result.attached
    /\ \/ LateItem(d, events)
       \/ /\ Caught(r) = d /\ result.t # "stream"
          /\ events = IF r.thrown = "stop" THEN <<Close>> ELSE <<Error, Close>>

LEMMA Resolves ==
    ASSUME NEW d, Sound(d), d.thrown = "none", d.source = NewStream,
           NEW result \in Results,
           NEW x, x = IF result.t = "stream" THEN PutAll(d, "source", result.before) ELSE d,
           NEW r, r = Resolve(x, result),
           NEW events, events = EventsOf(result, TRUE)
    PROVE  /\ Onward(d, r)
           /\ ResultReady(d) /\ d.result.attached /\ ~d.ended =>
                Resolved(d, r, result, events) \/ Rejected(d, r, result, events)
  <1>0. events \in Seq(Event) /\ CloseLast(events)
    BY EventsOfTypes
  <1>1. result.t \in {"items", "stream", "taken", "table", "throws", "stops"}
    BY ResultsAssumption
  <1>2. CASE result.t = "items"
    <2>1. r = PutAll(d, "result", events) /\ events = ListEvents(result.items) /\ result.items \in Seq(Items)
      BY <1>2, ResultsAssumption DEF Resolve, EventsOf
    <2>2. Onward(d, r)
      BY <1>0, <2>1, PutAllSound DEF EventsFor
    <2>3. ASSUME ResultReady(d), d.result.attached, ~d.ended PROVE AllTook(d, r, events)
      <3>1. d \in ResultRow(d)
        BY <2>3, OnwardIn DEF ResultRow
      <3>2. AllTook(d, r, events) \/ Overran(d, r, events, ResultRow(d))
        BY <1>0, <2>1, <3>1, ResultTakes
      <3>3. ResultRow(d) \subseteq Reached(d)
        BY DEF ResultRow
      <3>4. \A i, j \in DOMAIN events : i < j /\ events[i] = Done => events[j].t # "item"
        BY <2>1, ListEventsDo
      <3> QED BY <1>0, <2>3, <3>2, <3>3, <3>4, NoneOverran
    <2> QED BY <1>2, <2>2, <2>3 DEF Resolved
  <1>3. CASE result.t = "stream"
    <2>1. events = result.before /\ x = PutAll(d, "source", events)
      BY <1>3 DEF EventsOf
    <2>2. /\ Onward(d, x) /\ x.thrown = "none"
          /\ x.result = d.result /\ x.task = d.task /\ x.output = d.output /\ x.got = d.got /\ x.ended = d.ended
          /\ Keeping(x.source, events)
      <3>1. /\ d.source = NewStream /\ Sound(d) /\ d.thrown = "none" /\ events \in Seq(Event)
            /\ CloseLast(events) /\ x = PutAll(d, "source", events)
        BY <1>0, <2>1
      <3> QED BY ONLY <3>1, SourceKeeps
    <2>3. Sound(x) /\ ~x.source.attached /\ ~x.source.down /\ x.source.backlog = events
      BY <2>2 DEF Onward, Keeping
    <2>4. PICK m :
             /\ Onward(x, m) /\ m.result = x.result /\ m.task = x.task /\ m.output = x.output
             /\ m.got = x.got /\ m.ended = x.ended /\ m.thrown = x.thrown /\ m.source = Attached(x.source)
             /\ r = Flushed(m, "source", events)
      <3>1. \E m :
             /\ Onward(x, m) /\ m.result = x.result /\ m.task = x.task /\ m.output = x.output
             /\ m.got = x.got /\ m.ended = x.ended /\ m.thrown = x.thrown /\ m.source = Attached(x.source)
             /\ SendTo(x, "source") = Flushed(m, "source", x.source.backlog)
        BY <2>3, SourceConnects
      <3>2. r = SendTo(x, "source")
        BY <1>3 DEF Resolve
      <3> QED BY <2>3, <3>1, <3>2
    <2>5. m.source.attached /\ m.source.up = x.source.up /\ ~m.source.down
      BY <2>2, <2>3, <2>4, AttachedDoes DEF Keeping
    <2>6. /\ Sound(m) /\ m.thrown = "none" /\ Onward(d, m) /\ Out(m) = Out(d) /\ m.ended = d.ended
          /\ m.shape = d.shape /\ m.reader = d.reader
          /\ m.result = d.result /\ m.task = d.task /\ m.output = d.output
      BY <2>2, <2>4 DEF Onward, Out
    <2>7. Onward(m, r) /\ r.source.up = m.source.up
      BY <1>0, <2>4, <2>6, FlushedSound DEF EventsFor
    <2>8. ASSUME ResultReady(d), d.result.attached, ~d.ended
          PROVE  \/ /\ AllTook(d, r, events)
                    /\ (\A i \in DOMAIN events : events[i] # Close) => SourceReady(r)
                 \/ /\ r.thrown # "none" /\ ResultReady(Caught(r)) /\ r.result.attached
                    /\ LateItem(d, events)
      <3>1. m \in SourceRow(m)
        BY <2>5, <2>6, <2>8, OnwardIn DEF SourceRow, ResultReady, TaskReady
      <3>2. \/ AllTook(m, r, events) /\ ((\A i \in DOMAIN events : events[i] # Close) => r \in SourceRow(m))
            \/ Overran(m, r, events, SourceRow(m))
        BY <1>0, <2>4, <2>6, <3>1, SourceTakes
      <3>3. CASE AllTook(m, r, events) /\ ((\A i \in DOMAIN events : events[i] # Close) => r \in SourceRow(m))
        <4>1. AllTook(d, r, events)
          BY <2>6, <3>3 DEF AllTook
        <4>2. ASSUME \A i \in DOMAIN events : events[i] # Close PROVE SourceReady(r)
          <5>1. ResultReady(r) /\ r.result.attached /\ r.source = m.source
            BY <3>3, <4>2 DEF SourceRow
          <5>2. ~m.source.up
            BY <2>2, <2>5, <4>2 DEF Keeping
          <5> QED BY <2>5, <5>1, <5>2 DEF SourceReady, Open
        <4> QED BY <4>1, <4>2
      <3>4. CASE Overran(m, r, events, SourceRow(m))
        <4>1. PICK y \in SourceRow(m), j \in DOMAIN events :
                Overrun(y, r, events[j]) /\ (m.ended \/ \E i \in DOMAIN events : i < j /\ events[i] = Done)
          BY <3>4 DEF Overran
        <4>2. ResultReady(y) /\ y.result.attached /\ y.reader = d.reader /\ Same(y, r) /\ r.thrown # "none"
              /\ d.reader = "items" /\ events[j].t = "item"
          BY <2>6, <4>1 DEF SourceRow, Overrun, Reached, Onward
        <4>3. Sound(r)
          BY <4>2 DEF Same, Onward
        <4>4. Same(r, Caught(r)) /\ Caught(r).thrown = "none"
          BY <4>3, CaughtDoes
        <4>5. ResultReady(Caught(r)) /\ r.result.attached
          BY <4>2, <4>4 DEF ResultReady, TaskReady, Same
        <4> QED BY <2>6, <2>8, <4>1, <4>2, <4>5 DEF LateItem
      <3> QED BY <3>2, <3>3, <3>4
    <2>9. Onward(d, r)
      BY <2>6, <2>7, OnwardThrough
    <2>10. r.source.up <=> \E i \in DOMAIN events : events[i] = Close
      BY <2>2, <2>5, <2>7 DEF Keeping
    <2> QED BY <1>3, <2>8, <2>9, <2>10 DEF Resolved, Rejected
  <1>4. CASE result.t \in {"taken", "table", "throws", "stops"}
    <2>1. PICK what : what \in {"usage", "failed", "stop"} /\ r = Threw(d, what)
                      /\ events = IF what = "stop" THEN <<Close>> ELSE <<Error, Close>>
      BY <1>4 DEF Resolve, EventsOf
    <2>2. what \in Exceptions /\ what # "none"
      BY <2>1 DEF Exceptions
    <2>3. Onward(d, r) /\ r.thrown = what /\ r.result = d.result
      BY <2>1, <2>2, ThrewSound
    <2>4. Caught(r) = d
      BY <2>1, CaughtAgain
    <2> QED BY <1>4, <2>1, <2>2, <2>3, <2>4 DEF Rejected
  <1> QED BY <1>1, <1>2, <1>3, <1>4

LEMMA PromiseSettled ==
    ASSUME NEW d, Sound(d), d.thrown = "none", d.source = NewStream,
           NEW result \in Results,
           NEW x, x = IF result.t = "stream" THEN PutAll(d, "source", result.before) ELSE d,
           NEW r, r = Resolve(x, result),
           NEW f, f = IF r.thrown = "none" THEN r ELSE CatchRejection(r),
           NEW events, events = EventsOf(result, TRUE)
    PROVE  /\ Onward(d, f)
           /\ ResultReady(d) /\ d.result.attached /\ ~d.ended =>
                /\ f.thrown = "none"
                /\ \/ LateItem(d, events)
                   \/ Resolved(d, f, result, events)
  <1>1. /\ Onward(d, r)
        /\ ResultReady(d) /\ d.result.attached /\ ~d.ended =>
                Resolved(d, r, result, events) \/ Rejected(d, r, result, events)
    BY Resolves
  <1>2. Sound(r)
    BY <1>1 DEF Onward
  <1>3. Onward(d, f)
    BY <1>1, <1>2, CatchSound, OnwardThrough
  <1>4. CASE r.thrown = "none"
    BY <1>1, <1>3, <1>4 DEF Rejected, Resolved, AllTook
  <1>5. CASE r.thrown # "none"
    <2> DEFINE y == Caught(r)
    <2>1. f = CatchRejection(r)
      BY <1>5
    <2>2. ASSUME ResultReady(d), d.result.attached, ~d.ended
          PROVE  /\ f.thrown = "none"
                 /\ LateItem(d, events) \/ (AllTook(d, f, events) /\ result.t # "stream")
      <3>1. /\ ResultReady(y) /\ r.result.attached
            /\ \/ LateItem(d, events)
               \/ /\ y = d /\ result.t # "stream"
                  /\ events = IF r.thrown = "stop" THEN <<Close>> ELSE <<Error, Close>>
        BY <1>1, <1>5, <2>2 DEF AllTook, Resolved, Rejected
      <3>2. y.result.attached
        BY <1>2, <3>1, CaughtDoes DEF Same
      <3>3. PICK e : e = IF r.thrown = "stop" THEN <<Close>> ELSE <<Error, Close>>
        OBVIOUS
      <3>4. AllTook(y, f, e)
        BY <1>2, <2>1, <3>1, <3>2, <3>3, CatchTakes
      <3> QED BY <3>1, <3>3, <3>4 DEF AllTook
    <2> QED BY <1>3, <2>2 DEF Resolved
  <1> QED BY <1>4, <1>5

LEMMA FixedFrom ==
    ASSUME NEW shape, NEW events \in Seq(Event), NEW x, x = Fixed(shape, events)
    PROVE  \E pos \in [1..Len(x) -> 1..Len(events)] :
              /\ \A i \in 1..Len(x) : /\ x[i] = Reshaped(shape, events[pos[i]])
                                      /\ Shows(shape, events[pos[i]]) /\ events[pos[i]] \in Event
              /\ \A i, j \in 1..Len(x) : i < j => pos[i] < pos[j]
  <1> DEFINE T == {e \in Event : Shows(shape, e)}
             k == Kept(events, T)
  <1>1. PICK pos : Selects(pos, k, events, Len(events), T)
    <2> HIDE DEF T
    <2> QED BY KeptSelects
  <1>2. Len(k) \in Nat /\ x = [i \in 1..Len(k) |-> Reshaped(shape, k[i])] /\ Len(x) = Len(k)
    BY PassingType
  <1>3. \A i \in 1..Len(k) : k[i] = events[pos[i]] /\ Shows(shape, k[i]) /\ k[i] \in Event
    BY <1>1 DEF Selects
  <1>4. pos \in [1..Len(k) -> 1..Len(events)] /\ \A i, j \in 1..Len(k) : i < j => pos[i] < pos[j]
    BY <1>1 DEF Selects
  <1> HIDE DEF k
  <1>5. \A i \in 1..Len(x) : x[i] = Reshaped(shape, k[i])
    BY <1>2
  <1>6. pos \in [1..Len(x) -> 1..Len(events)] /\ \A i, j \in 1..Len(x) : i < j => pos[i] < pos[j]
    BY <1>2, <1>4
  <1>7. \A i \in 1..Len(x) : /\ x[i] = Reshaped(shape, events[pos[i]])
                             /\ Shows(shape, events[pos[i]]) /\ events[pos[i]] \in Event
    BY <1>2, <1>3, <1>5
  <1> QED BY <1>6, <1>7

-----------------------------------------------------------------------------
\* The reader

\* What has come is handed over in order, up to an item that comes too late.
LEMMA ReaderRow ==
    ASSUME NEW d, Sound(d), d.thrown = "none", d.output.attached, ~d.ended,
           NEW events \in Seq(OutEvent(d.shape)), NEW r, r = Flushed(d, "output", events)
    PROVE  /\ Onward(d, r)
           /\ \/ /\ d.reader = "items"
                 /\ \E i, j \in DOMAIN events : i < j /\ events[i] \in {Done, Close} /\ events[j].t = "item"
              \/ /\ r.thrown = "none" /\ r.got = d.got \o events
                 /\ r.source = d.source /\ r.result = d.result /\ r.task = d.task /\ r.output = d.output
                 /\ r.ended => \E i \in DOMAIN events : events[i] \in {Done, Close}
  <1> DEFINE N == Len(events)
             E == OutEvent(d.shape)
             Good(f, n) ==
               /\ f[n].thrown = "none" /\ f[n].got = d.got \o SubSeq(events, 1, n)
               /\ f[n].source = d.source /\ f[n].result = d.result /\ f[n].task = d.task /\ f[n].output = d.output
               /\ f[n].ended => \E i \in 1..n : events[i] \in {Done, Close}
             Bad == /\ d.reader = "items"
                    /\ \E i, j \in 1..N : i < j /\ events[i] \in {Done, Close} /\ events[j].t = "item"
  <1>1. N \in Nat /\ DOMAIN events = 1..N /\ \A n \in 1..N : events[n] \in E
    BY LenProperties, ElementOfSeq
  <1>2. /\ SubSeq(events, 1, 0) = <<>> /\ SubSeq(events, 1, N) = events
        /\ \A n \in 1..N : SubSeq(events, 1, n) = Append(SubSeq(events, 1, n - 1), events[n])
                           /\ SubSeq(events, 1, n - 1) \in Seq(E)
    BY FirstOf
  <1>3. PICK f : Flushes(f, d, "output", events)
    BY FlushedUnfolds DEF EventsFor
  <1>4. d.got \in Seq(E)
    BY DEF Sound, Chains
  <1>5. f[0] = d /\ r = f[N] /\ \A n \in 0..N : f[n] \in Reached(d)
    BY <1>3 DEF Flushes
  <1> DEFINE T == {n \in 0..N : Good(f, n) \/ Bad}
  <1> HIDE DEF N
  <1>6. 0 \in T
    <2>1. d.got \o <<>> = d.got
      BY <1>4, ConcatEmptySeq
    <2>2. Good(f, 0)
      BY <1>2, <1>5, <2>1
    <2> QED BY <1>1, <2>2
  <1>7. ASSUME NEW n \in Nat, n < N, n \in T PROVE n + 1 \in T
    <2>1. n \in 0..N /\ n + 1 \in 1..N /\ n + 1 \in 0..N /\ (n + 1) - 1 = n /\ (n + 1 \in 1..(n + 1))
          /\ \A i \in 1..n : i \in 1..(n + 1) /\ i \in 1..N /\ i < n + 1
      BY <1>1, <1>7
    <2>2. CASE Bad
      BY <2>1, <2>2
    <2>3. CASE ~Bad
      <3> DEFINE x == f[n]
                 y == f[n + 1]
                 e == events[n + 1]
                 s == SubSeq(events, 1, n)
      <3>1. Good(f, n)
        BY <1>7, <2>3
      <3>2. Sound(x) /\ x.shape = d.shape /\ x.reader = d.reader
        BY <1>5, <2>1, OnwardIn DEF Onward
      <3>3. y = HandOver(x, "output", e) /\ e \in E /\ x.output.attached /\ x.thrown = "none"
        BY <1>1, <1>3, <2>1, <3>1 DEF Flushes, N
      <3> HIDE DEF x, y, e
      <3>4. \/ Overrun(x, y, e)
            \/ /\ Onward(x, y) /\ y.thrown = "none" /\ y.got = Append(x.got, e)
               /\ y.ended <=> x.ended \/ e \in {Done, Close}
               /\ y.source = x.source /\ y.result = x.result /\ y.task = x.task /\ y.output = x.output
        BY <3>2, <3>3, HandOverOutput
      <3>5. CASE Overrun(x, y, e)
        <4>1. d.reader = "items" /\ x.ended /\ e.t = "item"
          BY <3>2, <3>5 DEF Overrun
        <4>2. PICK i \in 1..n : events[i] \in {Done, Close}
          BY <3>1, <4>1 DEF x
        <4>3. i \in 1..N /\ n + 1 \in 1..N /\ i < n + 1 /\ events[n + 1].t = "item"
          BY <2>1, <4>1 DEF e
        <4>4. Bad
          BY <4>1, <4>2, <4>3
        <4> QED BY <2>3, <4>4
      <3>6. CASE ~Overrun(x, y, e)
        <4>1. s \in Seq(E) /\ SubSeq(events, 1, n + 1) = Append(s, e)
          BY <1>2, <2>1 DEF e
        <4> HIDE DEF s
        <4>2. d.got \o Append(s, e) = Append(d.got \o s, e)
          <5> DEFINE a == d.got
          <5>1. a \in Seq(E) /\ s \in Seq(E) /\ e \in E
            BY <1>4, <3>3, <4>1
          <5> HIDE DEF a, E
          <5>2. a \o Append(s, e) = Append(a \o s, e)
            BY <5>1, JoinAppend
          <5> QED BY <5>2 DEF a
        <4>3. y.got = d.got \o SubSeq(events, 1, n + 1)
          BY <3>1, <3>4, <3>6, <4>1, <4>2 DEF x, s
        <4>4. y.ended => \E i \in 1..(n + 1) : events[i] \in {Done, Close}
          BY <2>1, <3>1, <3>4, <3>6 DEF x, e
        <4>5. Good(f, n + 1)
          BY <3>1, <3>4, <3>6, <4>3, <4>4 DEF x, y
        <4> QED BY <2>1, <4>5
      <3> QED BY <3>5, <3>6
    <2> QED BY <2>2, <2>3
  <1>8. N \in T
    <2> HIDE DEF T
    <2>1. \A n \in 0..N : n \in T
      BY <1>1, <1>6, <1>7, NumbersUpTo
    <2> QED BY <1>1, <2>1
  <1>9. Onward(d, r)
    BY <1>1, <1>5, OnwardIn
  <1>10. CASE Bad
    BY <1>1, <1>9, <1>10
  <1>11. CASE Good(f, N)
    BY <1>1, <1>2, <1>5, <1>9, <1>11
  <1> QED BY <1>8, <1>10, <1>11

\* An item that comes after done or close.
TooLate(out) == \E i, j \in DOMAIN out : i < j /\ out[i] \in {Done, Close} /\ out[j].t = "item"
Finished(out) == \E i \in DOMAIN out : out[i] \in {Done, Close}

\* What a reader has that attaches to d.
Attaches(d, r, mode) ==
    /\ Sound(r) /\ r.thrown = "none" /\ r.shape = d.shape /\ r.reader = mode /\ ~r.output.down
    /\ \/ mode = "items" /\ TooLate(Out(d))
       \/ /\ Out(r) = Out(d)
          /\ r.source = d.source /\ r.result = d.result /\ r.task = d.task
          /\ r.output = Attached(d.output)
          /\ r.ended => Finished(Out(d))

\* sendTo() of the caller, or promiseItems().
LEMMA ReaderDoes ==
    ASSUME NEW d, Sound(d), d.thrown = "none", d.reader = "none", ~d.output.down,
           NEW mode \in {"listener", "items"},
           NEW r, r = Caught(SendTo([d EXCEPT !.reader = mode], "output"))
    PROVE  Attaches(d, r, mode)
  <1> DEFINE events == d.output.backlog
             E == OutEvent(d.shape)
             s == Attached(d.output)
             m == [d EXCEPT !.reader = mode, !.output = s]
  <1>1. /\ events \in Seq(E) /\ d.got = <<>> /\ ~d.output.attached /\ ~d.ended
        /\ d.output \in Streams(E)
    BY DEF Sound, Chains, Streams
  <1>2. Out(d) = events
    BY <1>1, ConcatEmptySeq DEF Out
  <1>3. s \in Streams(E) /\ Held(s) /\ s.attached /\ s.backlog = <<>> /\ ~s.down
    BY <1>1, AttachedDoes
  <1>4. SendTo([d EXCEPT !.reader = mode], "output") = Flushed(m, "output", events)
    BY <1>1 DEF SendTo, Sound, Chains
  <1> HIDE DEF s
  <1>5. /\ m \in Chains(d.shape) /\ m.shape = d.shape /\ m.reader = mode /\ m.thrown = "none" /\ m.got = <<>>
        /\ ~m.ended /\ m.output = s /\ m.source = d.source /\ m.result = d.result /\ m.task = d.task
    BY <1>1, <1>3 DEF Sound, Chains, Reader
  <1> HIDE DEF m
  <1>6. Sound(m)
    BY <1>3, <1>5 DEF Sound
  <1> DEFINE f == Flushed(m, "output", events)
  <1>7. /\ Onward(m, f)
        /\ \/ /\ m.reader = "items"
              /\ \E i, j \in DOMAIN events : i < j /\ events[i] \in {Done, Close} /\ events[j].t = "item"
           \/ /\ f.thrown = "none" /\ f.got = m.got \o events
              /\ f.source = m.source /\ f.result = m.result /\ f.task = m.task /\ f.output = m.output
              /\ f.ended => \E i \in DOMAIN events : events[i] \in {Done, Close}
    <2>1. m.output.attached /\ events \in Seq(OutEvent(m.shape))
      BY <1>1, <1>3, <1>5
    <2> HIDE DEF events
    <2> QED BY <1>5, <1>6, <2>1, ReaderRow
  <1> HIDE DEF f
  <1>8. Same(f, r) /\ r.thrown = "none"
    BY <1>4, <1>7, CaughtDoes DEF Onward, f
  <1>9. Sound(r) /\ r.shape = d.shape /\ r.reader = mode /\ ~r.output.down
    BY <1>3, <1>5, <1>7, <1>8 DEF Same, Onward
  <1>10. f.got = m.got \o events /\ f.output = m.output => Out(r) = events
    <2>1. <<>> \o events = events /\ events \o <<>> = events
      BY <1>1, ConcatEmptySeq
    <2> QED BY <1>3, <1>5, <1>8, <2>1 DEF Same, Out
  <1> QED BY <1>2, <1>5, <1>7, <1>8, <1>9, <1>10 DEF Same, s, Attaches, TooLate, Finished

\* What the reader of a query has after the schema comes from the callback.
LEMMA OutLate ==
    ASSUME NEW shape, NEW events \in Seq(Event), CloseLast(events),
           NEW out, out = <<Schema>> \o Fixed(shape, events)
    PROVE  /\ Finished(out) => Finished(events)
           /\ TooLate(out) => \E p, q \in DOMAIN events : p < q /\ events[p] = Done /\ events[q].t = "item"
  <1> DEFINE x == Fixed(shape, events)
             n == Len(x)
  <1>1. x \in Seq(OutEvent(shape)) /\ n \in Nat
    BY FixedShown, LenProperties
  <1>2. PICK pos \in [1..n -> 1..Len(events)] :
              /\ \A i \in 1..n : /\ x[i] = Reshaped(shape, events[pos[i]])
                                 /\ Shows(shape, events[pos[i]]) /\ events[pos[i]] \in Event
              /\ \A i, j \in 1..n : i < j => pos[i] < pos[j]
    BY FixedFrom
  <1>3. DOMAIN events = 1..Len(events) /\ Len(events) \in Nat
    BY LenProperties
  <1>4. /\ DOMAIN out = 1..(n + 1) /\ out[1] = Schema
        /\ \A i \in 1..(n + 1) : i = 1 \/ (i - 1 \in 1..n /\ out[i] = x[i - 1])
    <2> HIDE DEF x, n
    <2>0. out = <<Schema>> \o x
      BY DEF x
    <2> DEFINE A == OutEvent(shape) \cup {Schema}
               first == <<Schema>>
    <2>1. x \in Seq(A) /\ first \in Seq(A) /\ Len(first) = 1 /\ first[1] = Schema /\ out = first \o x
      BY <1>1, <2>0
    <2> HIDE DEF first, A
    <2>2. /\ out \in Seq(A) /\ Len(out) = 1 + n
          /\ \A i \in 1..Len(first) : out[i] = first[i]
          /\ \A i \in 1..n : out[1 + i] = x[i]
      <3>0. Len(first) \in Nat /\ Len(x) \in Nat
        BY <2>1, LenProperties
      <3>1. /\ out \in Seq(A) /\ Len(out) = Len(first) + Len(x)
            /\ \A i \in 1..Len(first) + Len(x) : out[i] = IF i <= Len(first) THEN first[i] ELSE x[i - Len(first)]
        <4>1. /\ first \o x \in Seq(A) /\ Len(first \o x) = Len(first) + Len(x)
              /\ \A i \in 1..Len(first) + Len(x) :
                    (first \o x)[i] = IF i <= Len(first) THEN first[i] ELSE x[i - Len(first)]
          BY ONLY <2>1, ConcatProperties
        <4> QED BY <2>1, <4>1
      <3>2. \A i \in 1..Len(first) : out[i] = first[i]
        BY ONLY <3>0, <3>1
      <3>3. \A i \in 1..Len(x) : out[Len(first) + i] = x[i]
        <4> TAKE i \in 1..Len(x)
        <4>1. /\ Len(first) + i \in 1..Len(first) + Len(x) /\ ~(Len(first) + i <= Len(first))
              /\ (Len(first) + i) - Len(first) = i
          BY ONLY <3>0
        <4> QED BY ONLY <3>1, <4>1
      <3> QED BY <2>1, <3>1, <3>2, <3>3 DEF n
    <2>3. DOMAIN out = 1..(n + 1)
      BY <1>1, <2>2, LenProperties
    <2>4. ASSUME NEW i \in 1..(n + 1), i # 1 PROVE i - 1 \in 1..n /\ out[i] = x[i - 1]
      <3>1. i - 1 \in 1..n /\ 1 + (i - 1) = i
        BY <1>1, <2>4
      <3> QED BY <2>2, <3>1
    <2>5. out[1] = Schema
      <3>1. 1 \in 1..Len(first)
        BY <2>1
      <3> QED BY <2>1, <2>2, <3>1
    <2> QED BY <2>3, <2>4, <2>5
  <1> HIDE DEF x, n
  <1>5. Schema \notin {Done, Close} /\ Schema.t # "item"
    BY DEF Schema, Done, Close
  <1>6. \A i \in 1..n :
            /\ pos[i] \in 1..Len(events)
            /\ x[i] \in {Done, Close} => events[pos[i]] = x[i]
            /\ x[i].t = "item" => events[pos[i]].t = "item"
    <2> TAKE i \in 1..n
    <2> DEFINE e == events[pos[i]]
    <2>1. x[i] = Reshaped(shape, e) /\ Shows(shape, e) /\ e \in Event /\ pos[i] \in 1..Len(events)
      BY <1>2
    <2> HIDE DEF e
    <2>2. x[i].t = e.t /\ (x[i] = Done <=> e = Done) /\ (x[i] = Close <=> e = Close)
      BY <2>1, ShownEvent
    <2> QED BY <2>1, <2>2 DEF e
  <1>7. ASSUME NEW i \in DOMAIN out, out[i] \in {Done, Close}
        PROVE  i - 1 \in 1..n /\ events[pos[i - 1]] = out[i]
    BY <1>4, <1>5, <1>6, <1>7
  <1>8. ASSUME NEW i \in DOMAIN out, NEW j \in DOMAIN out, i < j, out[i] \in {Done, Close}, out[j].t = "item"
        PROVE  \E p, q \in DOMAIN events : p < q /\ events[p] = Done /\ events[q].t = "item"
    <2>1. i - 1 \in 1..n /\ j - 1 \in 1..n /\ i - 1 < j - 1 /\ out[j] = x[j - 1]
      <3>1. i - 1 \in 1..n
        BY <1>7, <1>8
      <3>2. j # 1 /\ j \in 1..(n + 1)
        BY <1>4, <1>5, <1>8
      <3>3. j - 1 \in 1..n /\ out[j] = x[j - 1]
        BY <1>4, <3>2
      <3>4. i \in 1..(n + 1)
        BY <1>4
      <3>5. i - 1 < j - 1
        BY <1>1, <1>8, <3>2, <3>4
      <3> QED BY <3>1, <3>3, <3>5
    <2>2. pos[i - 1] \in 1..Len(events) /\ pos[j - 1] \in 1..Len(events) /\ pos[i - 1] < pos[j - 1]
      BY <1>2, <2>1
    <2>3. events[pos[i - 1]] \in {Done, Close} /\ events[pos[j - 1]].t = "item"
      BY <1>6, <1>7, <1>8, <2>1
    <2>4. events[pos[i - 1]] # Close
      BY <1>3, <2>2 DEF CloseLast
    <2> QED BY <1>3, <2>2, <2>3, <2>4
  <1> QED BY <1>3, <1>6, <1>7, <1>8 DEF Finished, TooLate

-----------------------------------------------------------------------------
\* The beginning of a query

LEMMA NewChainSound ==
    /\ Sound(NewChain) /\ NewChain.thrown = "none" /\ NewChain.reader = "none" /\ Out(NewChain) = <<>>
    /\ NewChain.shape = <<>>
  <1>1. \A A : <<>> \in Seq(A)
    BY EmptySeq
  <1>2. \A E : NewStream \in Streams(E)
    BY <1>1 DEF NewStream, Streams
  <1>3. Held(NewStream) /\ NewStream.backlog = <<>> /\ ~NewStream.attached /\ NewStream.hasBacklog
    BY DEF NewStream, Held
  <1> HIDE DEF NewStream
  <1>4. NewChain \in Chains(<<>>) /\ NewChain.shape = <<>>
    BY <1>1, <1>2 DEF NewChain, Chains, Reader, Exceptions
  <1>5. Sound(NewChain)
    BY <1>3, <1>4 DEF NewChain, Sound
  <1> QED BY <1>3, <1>5, ConcatEmptySeq, <1>1 DEF NewChain, Out

\* The schema is the first event of the output.
LEMMA SchemaSent ==
    ASSUME NEW shape,
           NEW b, b = [NewChain EXCEPT !.shape = shape,
                                       !.task = [@ EXCEPT !.attached = TRUE, !.hasBacklog = FALSE]],
           NEW r, r = Receive(b, "task", Schema)
    PROVE  /\ Sound(r) /\ TaskReady(r) /\ r.reader = "none" /\ r.shape = shape /\ ~r.output.down
           /\ r.source = NewStream /\ r.result = NewStream /\ Out(r) = <<Schema>>
  <1> DEFINE s == [NewStream EXCEPT !.attached = TRUE, !.hasBacklog = FALSE]
  <1>1. \A A : <<>> \in Seq(A)
    BY EmptySeq
  <1>2. \A E : NewStream \in Streams(E) /\ s \in Streams(E)
    BY <1>1 DEF NewStream, Streams
  <1>3. /\ Held(NewStream) /\ NewStream.backlog = <<>> /\ ~NewStream.attached /\ NewStream.hasBacklog
        /\ Open(NewStream)
        /\ Held(s) /\ Open(s) /\ s.attached /\ ~NewStream.down
    BY DEF NewStream, Held, Open
  <1>4. /\ b.source = NewStream /\ b.result = NewStream /\ b.output = NewStream /\ b.task = s /\ b.shape = shape
        /\ b.reader = "none" /\ ~b.ended /\ b.got = <<>> /\ b.thrown = "none"
    BY DEF NewChain
  <1> HIDE DEF NewStream, s
  <1>5. b \in Chains(shape)
    BY <1>1, <1>2, <1>4 DEF NewChain, Chains, Reader, Exceptions, s
  <1>6. Sound(b) /\ TaskReady(b) /\ Out(b) = <<>>
    <2>1. <<>> \o <<>> = <<>>
      BY <1>1, ConcatEmptySeq
    <2> QED BY <1>3, <1>4, <1>5, <2>1 DEF Sound, TaskReady, Out
  <1>7. Schema \in Event /\ Schema # Close /\ Schema.t # "item"
    BY EventKinds DEF Schema, Close
  <1>8. r = ToTask(b, Schema)
    BY DEF Receive
  <1>9. Onward(b, r) /\ Took(b, r, Schema) /\ TaskReady(r) /\ r.source = NewStream /\ r.result = NewStream
    <2>1. Sound(b) /\ b.thrown = "none" /\ TaskReady(b)
      BY <1>4, <1>6
    <2>2. /\ Onward(b, r) /\ r.source = b.source /\ r.result = b.result
          /\ TaskReady(b) => Overrun(b, r, Schema) \/ (Took(b, r, Schema) /\ (Schema # Close => TaskReady(r)))
      BY ONLY <1>7, <1>8, <2>1, ToTaskDoes
    <2>3. ~Overrun(b, r, Schema)
      BY <1>7 DEF Overrun
    <2> QED BY <1>4, <1>7, <2>1, <2>2, <2>3
  <1>10. Out(r) = <<Schema>>
    <2>1. Out(r) = Append(<<>>, Schema)
      BY <1>6, <1>7, <1>9 DEF Took, Shown, Shows, Reshaped
    <2> QED BY <2>1
  <1> QED BY <1>3, <1>4, <1>9, <1>10 DEF Onward

\* A plan with an error.
LEMMA ErrorSent ==
    ASSUME NEW r, r = PutAll(NewChain, "output", <<Error, Done>>)
    PROVE  Sound(r) /\ r.thrown = "none" /\ r.shape = <<>> /\ r.reader = "none" /\ Out(r) = <<Error, Done>>
  <1> DEFINE E == OutEvent(<<>>)
             events == <<Error, Done>>
  <1>1. Error \in E /\ Done \in E /\ Error # Close /\ Done # Close
    <2>1. Error \in Event /\ Done \in Event /\ Error.t # "item" /\ Done.t # "item"
      BY EventKinds DEF Error, Done, Event
    <2>2. \A e \in {Error, Done} : Shows(<<>>, e) /\ Reshaped(<<>>, e) = e
      BY <2>1 DEF Shows, Reshaped
    <2> QED BY <2>1, <2>2 DEF OutEvent, Error, Done, Close
  <1>2. events \in Seq(E) /\ Len(events) = 2 /\ events[1] = Error /\ events[2] = Done
    BY <1>1
  <1>3. PICK f : Puts(f, NewChain, "output", events)
    <2>1. events \in Seq(EventsFor(NewChain.shape, "output"))
      BY <1>2, NewChainSound DEF EventsFor
    <2> HIDE DEF events
    <2> QED BY <2>1, NewChainSound, PutAllUnfolds
  <1> DEFINE x == f[0]
             y == f[1]
             z == f[2]
  <1>4. /\ r = z /\ x = NewChain /\ y = PutNext(x, "output", Error) /\ z = PutNext(y, "output", Done)
    BY <1>2, <1>3 DEF Puts
  <1>5. Open(x.output)
    BY <1>4 DEF NewChain, NewStream, Open
  <1> HIDE DEF x, y, z
  <1>6. Sound(x) /\ x.thrown = "none" /\ x.reader = "none" /\ Out(x) = <<>> /\ x.shape = <<>>
    BY <1>4, NewChainSound
  <1>7. y = ToOutput(x, Error)
    BY <1>4, <1>6 DEF PutNext, Receive
  <1>8. Onward(x, y) /\ Added(x, y, Error)
    BY <1>1, <1>5, <1>6, <1>7, ToOutputDoes DEF Overrun
  <1>9. Sound(y) /\ y.thrown = "none" /\ y.reader = "none" /\ y.shape = <<>> /\ Open(y.output)
    BY <1>1, <1>6, <1>8 DEF Onward, Added
  <1>10. z = ToOutput(y, Done)
    BY <1>4, <1>9 DEF PutNext, Receive
  <1>11. Onward(y, z) /\ Added(y, z, Done)
    BY <1>1, <1>9, <1>10, ToOutputDoes DEF Overrun
  <1>12. Out(z) = Append(Append(<<>>, Error), Done)
    BY <1>6, <1>8, <1>11 DEF Added
  <1> QED BY <1>4, <1>9, <1>11, <1>12 DEF Onward, Added

-----------------------------------------------------------------------------
\* The inductive invariant: the chain between calls ...

Smooth ==
    /\ Out(c) = <<Schema>> \o Fixed(c.shape, made)
    /\ CloseLast(made)
    /\ c.ended => \E i \in DOMAIN made : made[i] \in {Done, Close}
    /\ producer \in {"none", "puts"}
    /\ producer = "puts" => (c.source.up <=> \E i \in DOMAIN made : made[i] = Close)
    /\ producer = "puts" /\ ~c.source.up => SourceReady(c)

\* ... the promise of a callback ...
Waiting ==
    /\ c.source = NewStream /\ producer = "none" /\ made = <<>>
    /\ ~c.output.down => ResultReady(c) /\ c.result.attached /\ ~c.ended

\* ... what has come of a query ...
FlowInv ==
    /\ call.state \in {"idle", "threw", "failed", "ran"}
    /\ promise \in {"none", "pending", "settled"}
    /\ producer \in Exceptions \cup {"puts"} /\ unhandled \in Exceptions
    /\ made \in Seq(Event)
    /\ Sound(c) /\ c.thrown = "none"
    /\ call.state # "ran" => promise = "none" /\ producer = "none" /\ unhandled = "none" /\ c.shape = <<>>
    /\ call.state \in {"idle", "threw"} => c = NewChain
    /\ call.state = "failed" /\ ~c.output.down => Out(c) = <<Error, Done>>
    /\ unhandled # "none" => c.output.down
    /\ promise = "pending" => Waiting
    /\ call.state = "ran" => c.output.down \/ ItemAfterDone \/ Smooth

LEMMA FlowStarts == Init => FlowInv
  <1> SUFFICES ASSUME Init PROVE FlowInv
    OBVIOUS
  <1>1. <<>> \in Seq(Event)
    BY EmptySeq
  <1> QED BY <1>1, NewChainSound DEF Init, NoCall, FlowInv, Exceptions

LEMMA FlowStutters == FlowInv /\ UNCHANGED vars => FlowInv'
  <1> SUFFICES ASSUME FlowInv, UNCHANGED vars PROVE FlowInv'
    OBVIOUS
  <1>1. /\ c' = c /\ call' = call /\ promise' = promise /\ producer' = producer
        /\ unhandled' = unhandled /\ made' = made
    BY DEF vars
  <1>2. (Smooth => Smooth') /\ (Waiting => Waiting') /\ (ItemAfterDone => ItemAfterDone')
    BY <1>1 DEF Smooth, Waiting, ItemAfterDone
  <1> QED BY <1>1, <1>2 DEF FlowInv

LEMMA ExposeFlows == FlowInv /\ ExposeFunc => FlowInv'
  <1> SUFFICES ASSUME FlowInv, ExposeFunc PROVE FlowInv'
    OBVIOUS
  <1>1. /\ c' = c /\ call' = call /\ promise' = promise /\ producer' = producer
        /\ unhandled' = unhandled /\ made' = made
    BY DEF ExposeFunc
  <1>2. (Smooth => Smooth') /\ (Waiting => Waiting') /\ (ItemAfterDone => ItemAfterDone')
    BY <1>1 DEF Smooth, Waiting, ItemAfterDone
  <1> QED BY <1>1, <1>2 DEF FlowInv

LEMMA ThrowFlows ==
    ASSUME FlowInv, call = NoCall, NEW node, NEW params, QueryThrows(node, params)
    PROVE  FlowInv'
  <1>1. /\ c' = c /\ call'.state = "threw" /\ promise' = promise /\ producer' = producer
        /\ unhandled' = unhandled /\ made' = made
    BY DEF QueryThrows, NoCall
  <1>2. call.state = "idle"
    BY DEF NoCall
  <1> QED BY <1>1, <1>2 DEF FlowInv

LEMMA FailFlows ==
    ASSUME FlowInv, call = NoCall, NEW node, NEW params, QueryFails(node, params)
    PROVE  FlowInv'
  <1>1. /\ c' = PutAll(NewChain, "output", <<Error, Done>>) /\ call'.state = "failed"
        /\ promise' = "none" /\ producer' = "none" /\ unhandled' = "none" /\ made' = made /\ made \in Seq(Event)
    BY DEF QueryFails, FlowInv, NoCall
  <1>2. Sound(c') /\ c'.thrown = "none" /\ c'.shape = <<>> /\ Out(c') = <<Error, Done>>
    BY <1>1, ErrorSent
  <1>3. "none" \in Exceptions
    BY DEF Exceptions
  <1> QED BY <1>1, <1>2, <1>3 DEF FlowInv, Out

LEMMA RunFlows ==
    ASSUME FlowInv, call = NoCall, NEW node, NEW params, NEW result, NEW awaited \in BOOLEAN,
           ~awaited => result \in Results, QueryRuns(node, params, result, awaited)
    PROVE  FlowInv' /\ c'.shape = OutputShape(call'.handler, node)
  <1>1. c = NewChain /\ unhandled = "none" /\ unhandled' = "none"
    BY DEF FlowInv, NoCall, QueryRuns
  <1>2. PICK i \in {MatchHandler(handlers, node)} \ {0} :
            /\ call' = [state |-> "ran", node |-> node, handler |-> handlers[i]]
            /\ \E d \in {Receive([c EXCEPT !.shape = OutputShape(handlers[i], node),
                                           !.task = [@ EXCEPT !.attached = TRUE, !.hasBacklog = FALSE]],
                                 "task", Schema)} :
                c' = IF awaited THEN SendTo(d, "result")
                     ELSE CallbackToStream(IF result.t = "stream" THEN PutAll(d, "source", result.before) ELSE d,
                                           result)
    BY DEF QueryRuns
  <1>3. call'.state = "ran" /\ call'.handler = handlers[i]
    BY <1>2
  <1> DEFINE shape == OutputShape(handlers[i], node)
             d == Receive([NewChain EXCEPT !.shape = shape,
                                           !.task = [@ EXCEPT !.attached = TRUE, !.hasBacklog = FALSE]],
                          "task", Schema)
  <1>4. c' = IF awaited THEN SendTo(d, "result")
             ELSE CallbackToStream(IF result.t = "stream" THEN PutAll(d, "source", result.before) ELSE d, result)
    BY <1>1, <1>2
  <1>5. /\ Sound(d) /\ TaskReady(d) /\ d.reader = "none" /\ d.shape = shape /\ ~d.output.down
        /\ d.source = NewStream /\ d.result = NewStream /\ Out(d) = <<Schema>>
    BY SchemaSent
  <1>6. ~d.ended
    BY <1>5 DEF Sound
  <1>7. c'.shape = d.shape => c'.shape = OutputShape(call'.handler, node)
    BY <1>3, <1>5
  <1> HIDE DEF d, shape
  <1>8. {"none", "puts"} \subseteq Exceptions \cup {"puts"} /\ "none" \in Exceptions
    BY DEF Exceptions
  <1>9. CASE awaited
    <2>1. promise' = "pending" /\ made' = <<>> /\ producer' = "none"
      BY <1>9 DEF QueryRuns
    <2>2. c' = SendTo(d, "result")
      BY <1>4, <1>9
    <2>3. <<>> \in Seq(Event) /\ CloseLast(<<>>) /\ Keeping(d.result, <<>>) /\ DOMAIN <<>> = {}
      BY <1>5, NewKeeps, EmptySeq DEF CloseLast
    <2>4. /\ Onward(d, c') /\ AllTook(d, c', <<>>)
          /\ ResultReady(c') /\ c'.result.attached /\ c'.source = NewStream
      BY <1>5, <2>2, <2>3, BacklogRead
    <2>5. /\ Sound(c') /\ c'.thrown = "none" /\ c'.shape = d.shape /\ ~c'.ended
          /\ Out(c') = <<Schema>> \o Fixed(c'.shape, <<>>)
      BY <1>5, <1>6, <2>3, <2>4 DEF Onward, AllTook
    <2>6. Waiting'
      BY <2>1, <2>4, <2>5 DEF Waiting, ResultReady, TaskReady, Open
    <2>7. Smooth'
      BY <2>1, <2>3, <2>5 DEF Smooth, Out
    <2> QED BY <1>1, <1>3, <1>7, <1>8, <2>1, <2>3, <2>5, <2>6, <2>7 DEF FlowInv
  <1>10. CASE ~awaited
    <2> DEFINE events == EventsOf(result, FALSE)
               x == IF result.t = "stream" THEN PutAll(d, "source", result.before) ELSE d
    <2>1. promise' = "none" /\ made' = events /\ producer' = IF result.t = "stream" THEN "puts" ELSE "none"
      BY <1>10 DEF QueryRuns
    <2>2. c' = CallbackToStream(x, result) /\ result \in Results
      BY <1>4, <1>10
    <2>3. /\ Ran(d, c', events)
          /\ result.t = "stream" =>
                /\ c'.source.up <=> \E j \in DOMAIN events : events[j] = Close
                /\ (\A j \in DOMAIN events : events[j] # Close) => SourceReady(c')
      BY <1>5, <2>2, CallbackReturns
    <2> HIDE DEF events, x
    <2>4. Sound(c') /\ c'.thrown = "none" /\ c'.shape = d.shape /\ events \in Seq(Event) /\ CloseLast(events)
      BY <2>3 DEF Ran, Onward, AllTook
    <2>5. /\ Out(c') = <<Schema>> \o Fixed(c'.shape, events)
          /\ (c'.ended => \E j \in DOMAIN events : events[j] \in {Done, Close})
      BY <1>5, <1>6, <2>3, <2>4 DEF Ran, AllTook
    <2>6. Smooth'
      BY <2>1, <2>3, <2>4, <2>5 DEF Smooth, Out, SourceReady, ResultReady, TaskReady, Open
    <2> QED BY <1>1, <1>3, <1>7, <1>8, <2>1, <2>4, <2>6 DEF FlowInv
  <1> QED BY <1>9, <1>10

LEMMA SettleFlows == FlowInv /\ PromiseSettles => FlowInv' /\ c'.shape = c.shape
  <1> SUFFICES ASSUME FlowInv, PromiseSettles PROVE FlowInv' /\ c'.shape = c.shape
    OBVIOUS
  <1>1. PICK result \in Results :
            /\ promise = "pending" /\ promise' = "settled"
            /\ made' = EventsOf(result, TRUE)
            /\ producer' = IF result.t = "stream" THEN "puts" ELSE "none"
            /\ call' = call
            /\ \E d \in {Resolve(IF result.t = "stream" THEN PutAll(c, "source", result.before) ELSE c, result)} :
                \E f \in {IF d.thrown = "none" THEN d ELSE CatchRejection(d)} :
                    c' = Caught(f) /\ unhandled' = f.thrown
    BY DEF PromiseSettles
  <1> DEFINE x == IF result.t = "stream" THEN PutAll(c, "source", result.before) ELSE c
             d == Resolve(x, result)
             f == IF d.thrown = "none" THEN d ELSE CatchRejection(d)
             events == EventsOf(result, TRUE)
  <1>2. c' = Caught(f) /\ unhandled' = f.thrown /\ made' = events
    BY <1>1
  <1>3. /\ Sound(c) /\ c.thrown = "none" /\ c.source = NewStream /\ made = <<>> /\ call.state = "ran"
        /\ ~c.output.down => ResultReady(c) /\ c.result.attached /\ ~c.ended
        /\ ~c.output.down => ItemAfterDone \/ Smooth
    BY <1>1 DEF FlowInv, Waiting
  <1>4. /\ Onward(c, f)
        /\ ResultReady(c) /\ c.result.attached /\ ~c.ended =>
                /\ f.thrown = "none"
                /\ LateItem(c, events) \/ Resolved(c, f, result, events)
    BY <1>3, PromiseSettled
  <1>5. events \in Seq(Event) /\ CloseLast(events)
    BY EventsOfTypes
  <1> HIDE DEF events, f
  <1>6. /\ Sound(f) /\ f.thrown \in Exceptions /\ f.shape = c.shape /\ f.reader = c.reader
        /\ f.output.down = c.output.down
    BY <1>4 DEF Onward, Sound, Chains
  <1>7. Same(f, c') /\ c'.thrown = "none"
    BY <1>2, <1>6, CaughtDoes
  <1>8. /\ Sound(c') /\ c'.shape = c.shape /\ c'.reader = c.reader /\ c'.output.down = c.output.down
        /\ Out(c') = Out(f) /\ c'.ended = f.ended
        /\ c'.source = f.source /\ c'.result = f.result /\ c'.task = f.task /\ c'.output = f.output
    BY <1>6, <1>7 DEF Same, Onward, Out
  <1>9. producer' \in Exceptions \cup {"puts"} /\ producer' \in {"none", "puts"}
    BY <1>1 DEF Exceptions
  <1>10. CASE c.output.down
    BY <1>1, <1>2, <1>3, <1>5, <1>6, <1>7, <1>8, <1>9, <1>10 DEF FlowInv
  <1>11. CASE ~c.output.down
    <2>1. ~c.ended /\ f.thrown = "none" /\ (LateItem(c, events) \/ Resolved(c, f, result, events))
      BY <1>3, <1>4, <1>11
    <2>2. CASE LateItem(c, events)
      <3>1. ItemAfterDone'
        BY <1>2, <1>8, <2>2 DEF LateItem, ItemAfterDone
      <3> QED BY <1>1, <1>2, <1>3, <1>5, <1>6, <1>7, <1>8, <1>9, <2>1, <3>1 DEF FlowInv
    <2>3. CASE Resolved(c, f, result, events)
      <3>1. Out(c) = <<Schema>>
        <4>1. ~ItemAfterDone
          BY <1>3 DEF ItemAfterDone
        <4>2. Out(c) = <<Schema>> \o Fixed(c.shape, <<>>)
          BY <1>3, <1>11, <4>1 DEF Smooth
        <4>3. <<Schema>> \in Seq({Schema})
          OBVIOUS
        <4> QED BY <4>2, <4>3, FixedNone, ConcatEmptySeq
      <3>2. Out(c') = <<Schema>> \o Fixed(c'.shape, events)
        BY <1>8, <2>3, <3>1 DEF Resolved, AllTook
      <3>3. c'.ended => \E i \in DOMAIN events : events[i] \in {Done, Close}
        BY <1>8, <2>1, <2>3 DEF Resolved, AllTook
      <3>4. ASSUME result.t = "stream"
            PROVE  /\ c'.source.up <=> \E i \in DOMAIN events : events[i] = Close
                   /\ ~c'.source.up => SourceReady(c')
        <4>1. /\ f.source.up <=> \E i \in DOMAIN events : events[i] = Close
              /\ ~f.source.up => SourceReady(f)
          BY <2>3, <3>4 DEF Resolved
        <4>2. SourceReady(f) => SourceReady(c')
          BY <1>7, <1>8 DEF SourceReady, ResultReady, TaskReady
        <4> QED BY <1>8, <4>1, <4>2
      <3>5. Smooth'
        BY <1>1, <1>2, <1>5, <3>2, <3>3, <3>4 DEF Smooth, Out
      <3> QED BY <1>1, <1>2, <1>3, <1>5, <1>6, <1>7, <1>8, <1>9, <2>1, <3>5 DEF FlowInv
    <2> QED BY <2>1, <2>2, <2>3
  <1> QED BY <1>10, <1>11

\* An item after done stays one.
LEMMA StaysLate ==
    ASSUME made \in Seq(Event), NEW e \in Event, made' = Append(made, e), c'.reader = c.reader, ItemAfterDone
    PROVE  ItemAfterDone'
  <1>1. PICK i \in DOMAIN made, j \in DOMAIN made : i < j /\ made[i] = Done /\ made[j].t = "item"
    BY DEF ItemAfterDone
  <1>2. DOMAIN made = 1..Len(made) /\ DOMAIN made' = 1..Len(made') /\ made' \in Seq(Event) /\ Len(made) \in Nat
    BY LenProperties, AppendProperties
  <1>3. Len(made') = Len(made) + 1 /\ \A k \in 1..Len(made) : made'[k] = made[k]
    BY AppendProperties
  <1>4. i \in DOMAIN made' /\ j \in DOMAIN made' /\ made'[i] = Done /\ made'[j].t = "item"
    BY <1>1, <1>2, <1>3
  <1> QED BY <1>1, <1>4 DEF ItemAfterDone

LEMMA PutFlows ==
    ASSUME FlowInv, NEW e \in Event, Put(e)
    PROVE  FlowInv' /\ c'.shape = c.shape
  <1> DEFINE d == Receive(c, "source", e)
  <1>1. /\ producer = "puts" /\ ~c.source.up /\ c' = Caught(d) /\ made' = Append(made, e)
        /\ producer' = IF d.thrown = "none" THEN "puts" ELSE d.thrown
        /\ call' = call /\ promise' = promise /\ unhandled' = unhandled
    BY DEF Put
  <1>2. Sound(c) /\ c.thrown = "none" /\ call.state = "ran" /\ promise # "pending" /\ made \in Seq(Event)
    BY <1>1 DEF FlowInv, Waiting
  <1>3. d = ToSource(c, e)
    BY DEF Receive
  <1> HIDE DEF d
  <1>4. /\ Onward(c, d)
        /\ SourceReady(c) =>
             Overrun(c, d, e) \/ (Took(c, d, e) /\ (e # Close => SourceReady(d)) /\ (e = Close => d.source.up))
    BY <1>2, <1>3, ToSourceDoes
  <1>5. /\ Sound(d) /\ d.thrown \in Exceptions /\ d.shape = c.shape /\ d.reader = c.reader
        /\ d.output.down = c.output.down
    BY <1>4 DEF Onward, Sound, Chains
  <1>6. Same(d, c') /\ c'.thrown = "none"
    BY <1>1, <1>5, CaughtDoes
  <1>7. /\ Sound(c') /\ c'.shape = c.shape /\ c'.reader = c.reader /\ c'.output.down = c.output.down
        /\ Out(c') = Out(d) /\ c'.ended = d.ended
        /\ c'.source = d.source /\ c'.result = d.result /\ c'.task = d.task /\ c'.output = d.output
    BY <1>5, <1>6 DEF Same, Onward, Out
  <1>8. producer' \in Exceptions \cup {"puts"}
    BY <1>1, <1>5
  <1>9. /\ made' \in Seq(Event) /\ DOMAIN made = 1..Len(made) /\ DOMAIN made' = 1..(Len(made) + 1)
        /\ Len(made) \in Nat /\ Len(made') = Len(made) + 1
        /\ made'[Len(made) + 1] = e /\ \A i \in 1..Len(made) : made'[i] = made[i]
    <2>1. made' \in Seq(Event) /\ Len(made') = Len(made) + 1
          /\ made'[Len(made) + 1] = e /\ \A i \in 1..Len(made) : made'[i] = made[i]
      BY <1>1, <1>2, AppendProperties
    <2> QED BY <1>2, <2>1, LenProperties
  <1>10. c.output.down \/ ItemAfterDone \/ Smooth
    BY <1>2 DEF FlowInv
  <1>11. CASE c.output.down
    BY <1>1, <1>2, <1>6, <1>7, <1>8, <1>9, <1>11 DEF FlowInv
  <1>12. ASSUME ItemAfterDone' PROVE FlowInv' /\ c'.shape = c.shape
    BY <1>1, <1>2, <1>6, <1>7, <1>8, <1>9, <1>12 DEF FlowInv
  <1>13. CASE ItemAfterDone
    BY <1>1, <1>2, <1>7, <1>12, <1>13, StaysLate
  <1>14. CASE Smooth
    <2>1. SourceReady(c) /\ \A i \in 1..Len(made) : made[i] # Close
      BY <1>1, <1>9, <1>14 DEF Smooth
    <2>2. CASE Overrun(c, d, e)
      <3>1. c.reader = "items" /\ c.ended /\ e.t = "item"
        BY <2>2 DEF Overrun
      <3>2. PICK i \in 1..Len(made) : made[i] = Done
        BY <1>9, <1>14, <2>1, <3>1 DEF Smooth
      <3>3. /\ i \in DOMAIN made' /\ Len(made) + 1 \in DOMAIN made' /\ i < Len(made) + 1
            /\ made'[i] = Done /\ made'[Len(made) + 1].t = "item"
        BY <1>9, <3>1, <3>2
      <3>4. ItemAfterDone'
        BY <1>7, <3>1, <3>3 DEF ItemAfterDone
      <3> QED BY <1>12, <3>4
    <2>3. CASE Took(c, d, e) /\ (e # Close => SourceReady(d)) /\ (e = Close => d.source.up)
      <3>1. producer' = "puts"
        BY <1>1, <2>3 DEF Took
      <3>2. Out(c') = <<Schema>> \o Fixed(c'.shape, made')
        <4> DEFINE shape == c.shape
                   g == Fixed(shape, made)
                   x == Reshaped(shape, e)
                   first == <<Schema>>
        <4>1. Fixed(shape, made') = Shown(shape, g, e) /\ g \in Seq(OutEvent(shape))
          BY <1>1, <1>2, FixedAppend, FixedShown
        <4>2. Out(c') = Shown(shape, first \o g, e)
          BY <1>7, <1>14, <2>3 DEF Took, Smooth
        <4>3. CASE ~Shows(shape, e)
          BY <1>7, <4>1, <4>2, <4>3 DEF Shown
        <4>4. CASE Shows(shape, e)
          <5> DEFINE A == OutEvent(shape) \cup {Schema}
          <5>1. g \in Seq(A) /\ first \in Seq(A) /\ x \in A
            BY <4>1, <4>4 DEF OutEvent
          <5>2. Out(c') = Append(first \o g, x) /\ Fixed(shape, made') = Append(g, x)
            BY <4>1, <4>2, <4>4 DEF Shown
          <5> HIDE DEF A, g, x, first
          <5>3. first \o Append(g, x) = Append(first \o g, x)
            BY <5>1, JoinAppend
          <5> QED BY <1>7, <5>2, <5>3 DEF first
        <4> QED BY <4>3, <4>4
      <3>3. CloseLast(made')
        BY <1>9, <2>1 DEF CloseLast
      <3>4. c'.ended => \E i \in DOMAIN made' : made'[i] \in {Done, Close}
        <4>1. ASSUME c'.ended PROVE c.ended \/ e \in {Done, Close}
          BY <1>7, <2>3, <4>1 DEF Took
        <4>2. CASE e \in {Done, Close}
          BY <1>9, <4>2
        <4>3. CASE c.ended
          <5>1. PICK i \in 1..Len(made) : made[i] \in {Done, Close}
            BY <1>9, <1>14, <4>3 DEF Smooth
          <5> QED BY <1>9, <5>1
        <4> QED BY <4>1, <4>2, <4>3
      <3>5. c'.source.up <=> \E i \in DOMAIN made' : made'[i] = Close
        <4>1. CASE e = Close
          BY <1>7, <1>9, <2>3, <4>1
        <4>2. CASE e # Close
          <5>1. ~d.source.up
            BY <2>3, <4>2 DEF SourceReady, Open
          <5> QED BY <1>7, <1>9, <2>1, <4>2, <5>1
        <4> QED BY <4>1, <4>2
      <3>6. ~c'.source.up => SourceReady(c')
        BY <1>6, <1>7, <2>3 DEF SourceReady, ResultReady, TaskReady
      <3>7. Smooth'
        BY <3>1, <3>2, <3>3, <3>4, <3>5, <3>6 DEF Smooth, Out
      <3> QED BY <1>1, <1>2, <1>6, <1>7, <1>8, <1>9, <3>7 DEF FlowInv
    <2> QED BY <1>4, <2>1, <2>2, <2>3
  <1> QED BY <1>10, <1>11, <1>13, <1>14

LEMMA ReadFlows ==
    ASSUME FlowInv, NEW mode \in {"listener", "items"}, ReaderAttaches(mode)
    PROVE  FlowInv' /\ c'.shape = c.shape
  <1>1. /\ call.state \in {"failed", "ran"} /\ c.reader = "none" /\ ~c.output.down
        /\ c' = Caught(SendTo([c EXCEPT !.reader = mode], "output"))
        /\ call' = call /\ promise' = promise /\ producer' = producer /\ unhandled' = unhandled /\ made' = made
    BY DEF ReaderAttaches
  <1>2. Sound(c) /\ c.thrown = "none" /\ made \in Seq(Event)
    BY DEF FlowInv
  <1>3. Attaches(c, c', mode)
    BY <1>1, <1>2, ReaderDoes
  <1> DEFINE out == Out(c)
  <1>4. CASE call.state = "failed"
    <2>1. out = <<Error, Done>>
      BY <1>1, <1>4 DEF FlowInv
    <2>2. DOMAIN out = {1, 2} /\ out[1] = Error /\ out[2] = Done /\ Error.t # "item" /\ Done.t # "item"
      BY <2>1 DEF Error, Done
    <2>3. ~TooLate(out)
      BY <2>2 DEF TooLate
    <2>4. Sound(c') /\ c'.thrown = "none" /\ c'.shape = c.shape /\ Out(c') = <<Error, Done>>
      BY <1>3, <2>1, <2>3 DEF Attaches
    <2> QED BY <1>1, <1>2, <1>4, <2>4 DEF FlowInv
  <1>5. CASE call.state = "ran"
    <2>1. ~ItemAfterDone /\ Smooth
      BY <1>1, <1>5 DEF FlowInv, ItemAfterDone
    <2>2. out = <<Schema>> \o Fixed(c.shape, made) /\ CloseLast(made)
      BY <2>1 DEF Smooth
    <2>3. /\ Finished(out) => Finished(made)
          /\ TooLate(out) => \E p, q \in DOMAIN made : p < q /\ made[p] = Done /\ made[q].t = "item"
      BY <1>2, <2>2, OutLate
    <2>4. promise = "pending" => Waiting
      BY DEF FlowInv
    <2>5. CASE mode = "items" /\ TooLate(out)
      <3>1. ItemAfterDone'
        BY <1>1, <1>3, <2>3, <2>5 DEF Attaches, ItemAfterDone
      <3>2. promise # "pending"
        BY <1>1, <2>4, <3>1 DEF Waiting, ItemAfterDone
      <3> QED BY <1>1, <1>2, <1>3, <1>5, <3>1, <3>2 DEF Attaches, FlowInv
    <2>6. CASE ~(mode = "items" /\ TooLate(out))
      <3>0. /\ Sound(c') /\ c'.thrown = "none" /\ c'.shape = c.shape /\ ~c'.output.down /\ Out(c') = out
            /\ c'.source = c.source /\ c'.result = c.result /\ c'.task = c.task /\ c'.output = Attached(c.output)
            /\ c'.ended => Finished(out)
        BY <1>3, <2>6 DEF Attaches
      <3>1. Out(c') = <<Schema>> \o Fixed(c'.shape, made)
        BY <2>2, <3>0
      <3>2. c'.ended => \E i \in DOMAIN made : made[i] \in {Done, Close}
        BY <2>3, <3>0 DEF Finished
      <3>3. Open(c.output) => Open(c'.output)
        BY <1>2, <3>0 DEF Open, Attached, Sound, Chains, Streams
      <3>4. ResultReady(c) => ResultReady(c')
        BY <3>0, <3>3 DEF ResultReady, TaskReady
      <3>5. SourceReady(c) => SourceReady(c')
        BY <3>0, <3>4 DEF SourceReady
      <3>6. Smooth'
        BY <1>1, <2>1, <2>2, <3>0, <3>1, <3>2, <3>5 DEF Smooth, Out
      <3>7. Waiting => Waiting'
        BY <1>1, <3>0, <3>2, <3>4 DEF Waiting
      <3> QED BY <1>1, <1>2, <1>5, <2>4, <3>0, <3>6, <3>7 DEF FlowInv
    <2> QED BY <2>5, <2>6
  <1> QED BY <1>1, <1>4, <1>5

LEMMA StopFlows == FlowInv /\ ReaderStops => FlowInv' /\ c'.shape = c.shape
  <1> SUFFICES ASSUME FlowInv, ReaderStops PROVE FlowInv' /\ c'.shape = c.shape
    OBVIOUS
  <1> DEFINE s == ClosedByDownstream(c.output)
  <1>1. /\ call.state \in {"failed", "ran"} /\ ~c.output.down /\ c' = [c EXCEPT !.output = s]
        /\ call' = call /\ promise' = promise /\ producer' = producer /\ unhandled' = unhandled /\ made' = made
    BY DEF ReaderStops
  <1>2. Sound(c) /\ c.thrown = "none" /\ c.output \in Streams(OutEvent(c.shape)) /\ Held(c.output)
    BY DEF FlowInv, Sound, Chains
  <1>3. /\ s \in Streams(OutEvent(c.shape)) /\ Held(s) /\ s.down
        /\ c.reader = "none" => ~s.attached /\ s.hasBacklog
    <2>1. s \in Streams(OutEvent(c.shape)) /\ Held(s) /\ s.down
      BY <1>2, ClosedDoes
    <2>2. ~s.attached /\ s.hasBacklog = c.output.hasBacklog
      BY <1>1, <1>2 DEF ClosedByDownstream, Streams
    <2> QED BY <1>2, <2>1, <2>2 DEF Sound
  <1> HIDE DEF s
  <1>4. /\ Sound(c') /\ c'.shape = c.shape /\ c'.source = c.source /\ c'.thrown = "none" /\ c'.output.down
    BY <1>1, <1>2, <1>3, OutputSound
  <1>5. Waiting => Waiting'
    BY <1>1, <1>4 DEF Waiting
  <1> QED BY <1>1, <1>4, <1>5 DEF FlowInv

-----------------------------------------------------------------------------
\* Matching and planning

LEMMA MatchFound ==
    ASSUME NEW hs, IsList(hs), NEW q, IsList(q.tags), NEW i, i = MatchHandler(hs, q), i # 0
    PROVE  i \in DOMAIN hs /\ Matches(hs[i], q)
  <1> DEFINE unused(j) == Cardinality(UnusedOptionals(hs[j], q))
             matching == {j \in DOMAIN hs : Matches(hs[j], q)}
             least == {j \in matching : \A k \in matching : unused(j) <= unused(k)}
  <1>1. matching # {} /\ i = Min(least)
    BY DEF MatchHandler
  <1>2. \A j \in DOMAIN hs : unused(j) \in Nat
    <2> TAKE j \in DOMAIN hs
    <2> DEFINE U == UnusedOptionals(hs[j], q)
    <2>1. U \subseteq 1..Len(q.tags) /\ Len(q.tags) \in Nat
      BY LenProperties DEF IsList, UnusedOptionals, Named
    <2> HIDE DEF U
    <2>2. IsFiniteSet(U)
      <3>1. IsFiniteSet(1..Len(q.tags))
        BY <2>1, FS_Interval
      <3> QED BY <2>1, <3>1, FS_Subset
    <2>3. Cardinality(U) \in Nat
      BY <2>2, FS_CardinalityType
    <2> QED BY <2>3 DEF U
  <1>3. DOMAIN hs \subseteq Nat
    BY LenProperties DEF IsList
  <1>4. matching \subseteq DOMAIN hs
    OBVIOUS
  <1> HIDE DEF unused
  <1>5. least # {}
    <2> DEFINE S == {unused(j) : j \in matching}
    <2>1. S \in SUBSET Nat /\ S # {}
      BY <1>1, <1>2, <1>4
    <2> HIDE DEF S
    <2>2. Min(S) \in S /\ \A y \in S : Min(S) <= y
      BY <2>1, MinOfNumbers
    <2> HIDE DEF matching
    <2>3. PICK j \in matching : Min(S) = unused(j)
      BY <2>2 DEF S
    <2>4. \A k \in matching : unused(j) <= unused(k)
      BY <2>2, <2>3 DEF S
    <2> QED BY <2>3, <2>4
  <1>6. least \in SUBSET Nat /\ least \subseteq matching
    BY <1>3
  <1> HIDE DEF least
  <1>7. Min(least) \in least
    BY <1>5, <1>6, MinOfNumbers
  <1> QED BY <1>1, <1>6, <1>7

\* The last of the tags with an attribute.
LEMMA LastTag ==
    ASSUME NEW s, IsList(s), NEW attr \in Attrs(s), NEW m, m = Max({i \in DOMAIN s : s[i].attr = attr})
    PROVE  m \in DOMAIN s /\ s[m].attr = attr /\ \A i \in DOMAIN s : s[i].attr = attr => i <= m
  <1> DEFINE S == {i \in DOMAIN s : s[i].attr = attr}
  <1>1. DOMAIN s = 1..Len(s) /\ Len(s) \in Nat
    BY LenProperties DEF IsList
  <1>2. S \in SUBSET (0..Len(s)) /\ S # {}
    BY <1>1 DEF Attrs
  <1> HIDE DEF S
  <1>3. Max(S) \in S /\ \A i \in S : i <= Max(S)
    BY <1>1, <1>2, MaxOfNumbers
  <1>4. m = Max(S)
    BY DEF S
  <1> QED BY <1>3, <1>4 DEF S

\* The tags that are shown are those of the attributes the handler has: the last of
\* them with an attribute is the last in the query.
LEMMA ShapeOf ==
    ASSUME NEW h, NEW q, IsList(q.tags), NEW shape, shape = OutputShape(h, q)
    PROVE  /\ Attrs(shape) = {attr \in Attrs(q.tags) : HasAttr(h, attr)}
           /\ \A attr \in Attrs(shape) :
                LastWith(shape, attr).t = IF HasValue(LastWith(q.tags, attr)) THEN "constant" ELSE "from_item"
           /\ \A i \in DOMAIN shape : shape[i].t \in {"constant", "from_item"}
  <1> DEFINE tags == q.tags
             N == Len(tags)
             T == {tag \in ToSet(tags) : HasAttr(h, tag.attr)}
             shown == Kept(tags, T)
             n == Len(shown)
  <1>1. tags \in Seq(ToSet(tags)) /\ DOMAIN tags = 1..N /\ N \in Nat
    BY LenProperties DEF IsList
  <1>2. PICK pos : Selects(pos, shown, tags, N, T)
    BY <1>1, KeptSelects
  <1>3. shown \in Seq(ToSet(tags) \cap T)
    BY <1>1, KeptType
  <1>4. n \in Nat /\ DOMAIN shown = 1..n
    BY <1>3, LenProperties
  <1>5. shape = [i \in 1..n |-> [attr |-> shown[i].attr,
                                 t |-> IF HasValue(shown[i]) THEN "constant" ELSE "from_item"]]
    BY <1>4 DEF OutputShape, ShownTags
  <1>6. \A i \in 1..N : tags[i] \in T <=> HasAttr(h, tags[i].attr)
    BY <1>1 DEF ToSet
  <1> HIDE DEF shown, T, tags, N
  <1>7. /\ \A i \in 1..n : pos[i] \in 1..N /\ shown[i] = tags[pos[i]] /\ shown[i] \in T
        /\ \A i, j \in 1..n : i < j => pos[i] < pos[j]
        /\ \A k \in 1..N : tags[k] \in T => \E i \in 1..n : pos[i] = k
    BY <1>2 DEF Selects
  <1> HIDE DEF n
  <1>8. /\ DOMAIN shape = 1..n
        /\ \A i \in 1..n : /\ shape[i].attr = tags[pos[i]].attr /\ HasAttr(h, shape[i].attr)
                           /\ shape[i].t = IF HasValue(tags[pos[i]]) THEN "constant" ELSE "from_item"
    BY <1>5, <1>6, <1>7
  <1>9. ASSUME NEW k \in 1..N, HasAttr(h, tags[k].attr)
        PROVE  \E i \in 1..n : pos[i] = k /\ shape[i].attr = tags[k].attr
    BY <1>6, <1>7, <1>8, <1>9
  <1>10. Attrs(shape) = {attr \in Attrs(tags) : HasAttr(h, attr)}
    <2>1. ASSUME NEW attr \in Attrs(shape) PROVE attr \in Attrs(tags) /\ HasAttr(h, attr)
      <3>1. PICK i \in 1..n : attr = shape[i].attr
        BY <1>8 DEF Attrs
      <3> QED BY <1>1, <1>7, <1>8, <3>1 DEF Attrs
    <2>2. ASSUME NEW attr \in Attrs(tags), HasAttr(h, attr) PROVE attr \in Attrs(shape)
      <3>1. PICK k \in 1..N : attr = tags[k].attr
        BY <1>1 DEF Attrs
      <3>2. PICK i \in 1..n : shape[i].attr = attr
        BY <1>9, <2>2, <3>1
      <3> QED BY <1>8, <3>2 DEF Attrs
    <2> QED BY <2>1, <2>2
  <1>11. ASSUME NEW attr \in Attrs(shape)
         PROVE  LastWith(shape, attr).t = IF HasValue(LastWith(tags, attr)) THEN "constant" ELSE "from_item"
    <2> DEFINE m == Max({i \in DOMAIN tags : tags[i].attr = attr})
               l == Max({i \in DOMAIN shape : shape[i].attr = attr})
    <2>1. IsList(tags) /\ IsList(shape)
      <3>1. \A i \in 1..n : shape[i] \in ToSet(shape)
        BY <1>8 DEF ToSet
      <3>2. shape \in [1..n -> ToSet(shape)]
        BY <1>5, <3>1
      <3>3. shape \in Seq(ToSet(shape))
        BY <1>4, <3>2, SeqDef DEF n
      <3> QED BY <1>1, <3>3 DEF IsList
    <2>2. attr \in Attrs(tags) /\ HasAttr(h, attr)
      BY <1>10
    <2>3. m \in 1..N /\ tags[m].attr = attr /\ \A i \in 1..N : tags[i].attr = attr => i <= m
      BY <1>1, <2>1, <2>2, LastTag
    <2>4. l \in 1..n /\ shape[l].attr = attr /\ \A i \in 1..n : shape[i].attr = attr => i <= l
      <3>1. l \in DOMAIN shape /\ shape[l].attr = attr /\ \A i \in DOMAIN shape : shape[i].attr = attr => i <= l
        BY ONLY <1>11, <2>1, LastTag
      <3> QED BY <1>8, <3>1
    <2>5. LastWith(tags, attr) = tags[m] /\ LastWith(shape, attr) = shape[l]
      BY DEF LastWith
    <2> HIDE DEF m, l
    <2>6. PICK i \in 1..n : pos[i] = m /\ shape[i].attr = attr
      BY <1>9, <2>2, <2>3
    <2>7. pos[l] <= m /\ i <= l /\ pos[l] \in 1..N
      BY <1>7, <1>8, <2>3, <2>4, <2>6
    <2>8. i = l
      <3>1. ~(i < l)
        BY <1>7, <2>3, <2>4, <2>6, <2>7
      <3> QED BY <2>4, <2>7, <3>1
    <2> QED BY <1>8, <2>4, <2>5, <2>6, <2>8
  <1>12. \A i \in DOMAIN shape : shape[i].t \in {"constant", "from_item"}
    BY <1>8
  <1> QED BY <1>10, <1>11, <1>12 DEF tags

\* ... and the match it was planned with.
MatchInv ==
    /\ handlers \in Graphs
    /\ call.state = "ran" =>
        /\ call.node \in Queries /\ call.node.t = "query"
        /\ \E i \in DOMAIN handlers : call.handler = handlers[i]
        /\ Matches(call.handler, call.node) /\ ~MissingParameter(call.handler, call.node)
        /\ c.shape = OutputShape(call.handler, call.node)
        /\ \E params \in SUBSET Params : args = ArgsOf(call.handler, call.node, params)

LEMMA MatchStays ==
    ASSUME MatchInv, handlers' = handlers, call' = call, args' = args, c'.shape = c.shape
    PROVE  MatchInv'
  BY DEF MatchInv

LEMMA NotRun == ASSUME handlers' \in Graphs, call'.state # "ran" PROVE MatchInv'
  BY DEF MatchInv

LEMMA RunMatches ==
    ASSUME MatchInv, NEW node \in Queries, NEW params \in SUBSET Params, NEW result, NEW awaited,
           QueryRuns(node, params, result, awaited), c'.shape = OutputShape(call'.handler, node)
    PROVE  MatchInv'
  <1>1. PICK i \in {MatchHandler(handlers, node)} \ {0} :
            /\ ~MissingParameter(handlers[i], node)
            /\ call' = [state |-> "ran", node |-> node, handler |-> handlers[i]]
            /\ args' = ArgsOf(handlers[i], node, params)
    BY DEF QueryRuns
  <1>2. handlers' = handlers /\ handlers \in Graphs /\ node.t = "query"
    BY DEF QueryRuns, Plannable, MatchInv
  <1>3. IsList(handlers) /\ IsList(node.tags)
    BY <1>2, GraphsAssumption, QueriesAssumption
  <1>4. i \in DOMAIN handlers /\ Matches(handlers[i], node)
    BY <1>1, <1>3, MatchFound
  <1>5. call'.node = node /\ call'.handler = handlers[i]
    BY <1>1
  <1> QED BY <1>1, <1>2, <1>4, <1>5 DEF MatchInv

Inv == FlowInv /\ MatchInv

LEMMA InvStarts == Init => Inv
  <1> SUFFICES ASSUME Init PROVE Inv
    OBVIOUS
  <1>1. FlowInv
    BY FlowStarts
  <1>2. MatchInv
    BY GraphsAssumption DEF Init, NoCall, MatchInv
  <1> QED BY <1>1, <1>2 DEF Inv

LEMMA InvKept == Inv /\ [Next]_vars => Inv'
  <1> SUFFICES ASSUME FlowInv, MatchInv, [Next]_vars PROVE FlowInv' /\ MatchInv'
    BY DEF Inv
  <1>1. CASE ExposeFunc
    <2>1. handlers' \in Graphs /\ call'.state # "ran"
      BY <1>1 DEF ExposeFunc, NoCall
    <2> QED BY <1>1, <2>1, ExposeFlows, NotRun
  <1>2. CASE Query
    <2>1. PICK node \in Queries, params \in SUBSET Params :
            /\ call = NoCall
            /\ \/ QueryThrows(node, params)
               \/ QueryFails(node, params)
               \/ QueryRuns(node, params, [t |-> "items", items |-> <<>>], TRUE)
               \/ \E result \in Results : QueryRuns(node, params, result, FALSE)
      BY <1>2 DEF Query
    <2>2. handlers \in Graphs
      BY DEF MatchInv
    <2>3. CASE QueryThrows(node, params)
      <3>1. handlers' = handlers /\ call'.state = "threw"
        BY <2>3 DEF QueryThrows, NoCall
      <3> QED BY <2>1, <2>2, <2>3, <3>1, ThrowFlows, NotRun
    <2>4. CASE QueryFails(node, params)
      <3>1. handlers' = handlers /\ call'.state = "failed"
        BY <2>4 DEF QueryFails
      <3> QED BY <2>1, <2>2, <2>4, <3>1, FailFlows, NotRun
    <2>5. CASE QueryRuns(node, params, [t |-> "items", items |-> <<>>], TRUE)
      BY <2>1, <2>5, RunFlows, RunMatches
    <2>6. CASE \E result \in Results : QueryRuns(node, params, result, FALSE)
      <3>1. PICK result \in Results : QueryRuns(node, params, result, FALSE)
        BY <2>6
      <3> QED BY <2>1, <3>1, RunFlows, RunMatches
    <2> QED BY <2>1, <2>3, <2>4, <2>5, <2>6
  <1>3. CASE PromiseSettles
    <2>1. handlers' = handlers /\ call' = call /\ args' = args
      BY <1>3 DEF PromiseSettles
    <2> QED BY <1>3, <2>1, SettleFlows, MatchStays
  <1>4. CASE SourcePuts \/ SourceCloses
    <2>1. PICK e \in Event : Put(e)
      <3>1. Done \in Event /\ Error \in Event /\ Close \in Event /\ \A item \in Items : Item(item) \in Event
        BY EventKinds DEF Event, Error, Item
      <3>2. CASE SourceCloses
        BY <3>1, <3>2 DEF SourceCloses
      <3>3. CASE SourcePuts
        BY <3>1, <3>3 DEF SourcePuts
      <3> QED BY <1>4, <3>2, <3>3
    <2>2. handlers' = handlers /\ call' = call /\ args' = args
      BY <2>1 DEF Put
    <2> QED BY <2>1, <2>2, PutFlows, MatchStays
  <1>5. CASE \E mode \in {"listener", "items"} : ReaderAttaches(mode)
    <2>1. PICK mode \in {"listener", "items"} : ReaderAttaches(mode)
      BY <1>5
    <2>2. handlers' = handlers /\ call' = call /\ args' = args
      BY <2>1 DEF ReaderAttaches
    <2> QED BY <2>1, <2>2, ReadFlows, MatchStays
  <1>6. CASE ReaderStops
    <2>1. handlers' = handlers /\ call' = call /\ args' = args
      BY <1>6 DEF ReaderStops
    <2> QED BY <1>6, <2>1, StopFlows, MatchStays
  <1>7. CASE UNCHANGED vars
    <2>1. handlers' = handlers /\ call' = call /\ args' = args /\ c'.shape = c.shape
      BY <1>7 DEF vars
    <2> QED BY <1>7, <2>1, FlowStutters, MatchStays
  <1> QED BY <1>1, <1>2, <1>3, <1>4, <1>5, <1>6, <1>7 DEF Next

LEMMA QueriesHold == Spec => []Inv
  BY InvStarts, InvKept, PTL DEF Spec

-----------------------------------------------------------------------------
\* Theorems

\* The state of a query is always of its types: no exception stays in the chain, and a
\* stream with a receiver keeps nothing (Graph.query(), Stream.ts).
THEOREM QueryTypeCorrect == Spec => []TypeOK
  <1>1. Inv => TypeOK
    <2> SUFFICES ASSUME Inv PROVE TypeOK
      OBVIOUS
    <2>1. Held(c.source) /\ Held(c.result) /\ Held(c.task) /\ Held(c.output)
      BY DEF Inv, FlowInv, Sound
    <2> QED BY <2>1 DEF Inv, FlowInv, MatchInv, Held, TypeOK
  <1> QED BY <1>1, QueriesHold, PTL

\* The caller is given the schema and then, in order and once, every event of the
\* callback's result that the filter shows (NativeCallback, reshapingFilter, Stream.ts).
THEOREM ResultsDelivered == Spec => []ResultDelivered
  <1>1. Inv => ResultDelivered
    BY DEF Inv, FlowInv, Smooth, ItemAfterDone, ResultDelivered, Delivered, Out
  <1> QED BY <1>1, QueriesHold, PTL

\* A callback's puts throw, and the catch() of its promise throws, only because the
\* caller has stopped reading, or promiseItems() is given an item after done.
THEOREM ExceptionsHaveReasons == Spec => []ExceptionsExplained
  <1>1. Inv => ExceptionsExplained
    BY DEF Inv, FlowInv, Smooth, ExceptionsExplained
  <1> QED BY <1>1, QueriesHold, PTL

\* A callback has a value for every parameter that requires one and that its declaration
\* requires or the query names (FindMatch, createPlan(), Task.getValue()).
THEOREM ArgumentsGiven == Spec => []ArgsGiven
  <1>1. Inv => ArgsGiven
    <2> SUFFICES ASSUME Inv, call.state = "ran", NEW i \in DOMAIN call.handler,
                        call.handler[i].requiresValue,
                        call.handler[i].required \/ call.handler[i].attr \in Attrs(call.node.tags)
                 PROVE  args[call.handler[i].attr] # "null"
      BY DEF ArgsGiven
    <2> DEFINE h == call.handler
               q == call.node
               attr == h[i].attr
    <2>1. /\ handlers \in Graphs /\ q \in Queries /\ q.t = "query" /\ Matches(h, q) /\ ~MissingParameter(h, q)
          /\ \E j \in DOMAIN handlers : h = handlers[j]
          /\ \E params \in SUBSET Params : args = ArgsOf(h, q, params)
      BY DEF Inv, MatchInv
    <2>2. h[i].isParameter
      BY <2>1, GraphsAssumption
    <2>3. IsList(q.tags)
      BY <2>1, QueriesAssumption
    <2> HIDE DEF h, q
    <2>4. attr \in Attrs(q.tags)
      <3>1. CASE h[i].required
        BY <2>1, <3>1 DEF Matches, Named, Attrs, h
      <3> QED BY <3>1 DEF h, q
    <2>5. PICK params : args = ArgsOf(h, q, params)
      BY <2>1
    <2>6. args[attr] = ArgOf(q, params, attr)
      BY <2>2, <2>5 DEF ArgsOf, h
    <2> DEFINE m == Max({j \in DOMAIN q.tags : q.tags[j].attr = attr})
    <2>7. m \in DOMAIN q.tags /\ q.tags[m].attr = attr
      BY <2>3, <2>4, LastTag
    <2>8. LastWith(q.tags, attr) = q.tags[m]
      BY DEF LastWith
    <2> HIDE DEF m
    <2>9. RequiresValue(h, attr)
      BY DEF RequiresValue, HandlerTags, h
    <2>10. HasValue(q.tags[m])
      BY <2>1, <2>7, <2>9 DEF MissingParameter
    <2>11. args[attr] \in {"parameter", "query"}
      BY <2>4, <2>6, <2>8, <2>10 DEF ArgOf
    <2> QED BY <2>11 DEF h
  <1> QED BY <1>1, QueriesHold, PTL

\* Every item a caller is given answers the query: its attributes, the values it gives,
\* and a value of the callback's item (FindMatch, createPlan(), reshapingFilter).
THEOREM ItemsAnswer == Spec => []ItemsAnswerQuery
  <1>1. Inv => ItemsAnswerQuery
    <2> SUFFICES ASSUME Inv, NEW k \in DOMAIN Delivered, Delivered[k].t = "item"
                 PROVE  LET item == Delivered[k].item
                            tags == call.node.tags
                        IN  /\ DOMAIN item \subseteq Attrs(tags)
                            /\ \E attr \in DOMAIN item : item[attr] = "item"
                            /\ \A j \in Named(call.node) :
                                /\ ~tags[j].isAttrOptional => tags[j].attr \in DOMAIN item
                                /\ tags[j].attr \in DOMAIN item /\ HasValue(LastWith(tags, tags[j].attr))
                                        => item[tags[j].attr] # "null"
      BY DEF ItemsAnswerQuery
    <2> DEFINE shape == c.shape
               x == Delivered[k]
               item == x.item
               h == call.handler
               q == call.node
    <2>1. Delivered \in Seq(OutEvent(shape))
      <3>1. c.got \in Seq(OutEvent(shape)) /\ c.output.backlog \in Seq(OutEvent(shape))
        BY DEF Inv, FlowInv, Sound, Chains, Streams
      <3> QED BY <3>1, ConcatProperties DEF Delivered
    <2>2. x \in OutEvent(shape)
      BY <2>1, LenProperties, ElementOfSeq
    <2>3. PICK e \in Event : Shows(shape, e) /\ x = Reshaped(shape, e)
      BY <2>2, OutEventKinds
    <2>4. e.t = "item" /\ item = FixedItem(shape, e.item) /\ UsesItem(shape, e.item)
      <3>1. x.t = e.t
        BY <2>3, ShownEvent
      <3>2. e.t = "item"
        BY <3>1
      <3> QED BY <2>3, <3>2 DEF Reshaped, Shows, Item
    <2>5. call.state = "ran"
      <3>1. shape # <<>>
        BY <2>4 DEF UsesItem
      <3> QED BY <3>1 DEF Inv, FlowInv
    <2>6. shape = OutputShape(h, q) /\ Matches(h, q) /\ IsList(q.tags)
      BY <2>5, QueriesAssumption DEF Inv, MatchInv
    <2> HIDE DEF shape, x, h, q
    <2>7. /\ Attrs(shape) = {attr \in Attrs(q.tags) : HasAttr(h, attr)}
          /\ \A attr \in Attrs(shape) :
                LastWith(shape, attr).t = IF HasValue(LastWith(q.tags, attr)) THEN "constant" ELSE "from_item"
          /\ \A i \in DOMAIN shape : shape[i].t \in {"constant", "from_item"}
      BY <2>6, ShapeOf
    <2> DEFINE has == e.item
    <2>8. /\ DOMAIN item = Attrs(shape)
          /\ \A attr \in Attrs(shape) :
                /\ attr \in has => item[attr] = "item"
                /\ attr \notin has /\ LastWith(shape, attr).t = "constant" => item[attr] = "query"
      BY <2>4 DEF FixedItem
    <2> HIDE DEF item, has
    <2>9. \E attr \in DOMAIN item : item[attr] = "item"
      BY <2>4, <2>8 DEF UsesItem, Attrs, has
    <2>10. DOMAIN item \subseteq Attrs(q.tags)
      BY <2>7, <2>8
    <2>11. ASSUME NEW j \in Named(q), ~q.tags[j].isAttrOptional PROVE q.tags[j].attr \in DOMAIN item
      <3>1. HasAttr(h, q.tags[j].attr) /\ q.tags[j].attr \in Attrs(q.tags)
        BY <2>6, <2>11 DEF Matches, TagMatches, Named, Attrs
      <3> QED BY <2>7, <2>8, <3>1
    <2>12. ASSUME NEW attr \in DOMAIN item, HasValue(LastWith(q.tags, attr)) PROVE item[attr] # "null"
      <3>1. attr \in Attrs(shape) /\ LastWith(shape, attr).t = "constant"
        BY <2>7, <2>8, <2>12
      <3>2. item[attr] \in {"item", "query"}
        BY <2>8, <3>1
      <3> QED BY <3>2
    <2> QED BY <2>9, <2>10, <2>11, <2>12 DEF q, x, item
  <1> QED BY <1>1, QueriesHold, PTL

-----------------------------------------------------------------------------
\* A token at position i of a text

Match ==
    Compound \cup {<<ch>> : ch \in Single}
        \cup {t_plain_value, t_integer, t_space, t_quoted_string, t_unrecognized}

\* A token that consumeNext() may find: a quoted string, which an escape may
\* carry one character beyond the text; or one character, or several that are
\* no newlines.
Lexed(text, i, next) ==
    /\ next.match \in Match /\ next.len \in Nat \ {0}
    /\ \/ /\ next.match = t_quoted_string /\ text[i + 1] # "nl"
          /\ i + next.len <= Len(text) \/ (i + next.len = Len(text) + 1 /\ text[Len(text)] = "escape")
       \/ /\ i + next.len <= Len(text)
          /\ next.len = 1 \/ \A n \in 1..next.len : text[i + n] # "nl"

QuotedSoFar(text, i) ==
    {s \in [len : Nat \ {0}, closed : BOOLEAN] :
        i + s.len <= Len(text) \/ (i + s.len = Len(text) + 1 /\ text[Len(text)] = "escape")}

LEMMA QuotedNextStays ==
    ASSUME NEW A, NEW text \in Seq(A), NEW i \in Nat, NEW s \in QuotedSoFar(text, i)
    PROVE  QuotedNext(text, i, s) \in QuotedSoFar(text, i)
  <1> DEFINE N == Len(text)
  <1>1. N \in Nat /\ s.len \in Nat \ {0} /\ s.closed \in BOOLEAN
    BY LenProperties DEF QuotedSoFar
  <1>2. CASE s.closed \/ i + s.len >= N
    <2>1. QuotedNext(text, i, s) = s
      BY <1>1, <1>2 DEF QuotedNext
    <2> QED BY <2>1
  <1>3. CASE ~s.closed /\ i + s.len < N
    <2>1. CASE text[i + s.len + 1] = "escape"
      <3>1. QuotedNext(text, i, s) = [len |-> s.len + 2, closed |-> FALSE]
        BY <1>1, <1>3, <2>1 DEF QuotedNext
      <3>2. i + (s.len + 2) <= N \/ (i + (s.len + 2) = N + 1 /\ text[N] = "escape")
        BY <1>1, <1>3, <2>1
      <3> QED BY <1>1, <3>1, <3>2 DEF QuotedSoFar
    <2>2. CASE text[i + s.len + 1] # "escape"
      <3>1. QuotedNext(text, i, s) = [len |-> s.len + 1, closed |-> text[i + s.len + 1] = text[i + 1]]
        BY <1>1, <1>3, <2>2 DEF QuotedNext
      <3> QED BY <1>1, <1>3, <3>1 DEF QuotedSoFar
    <2> QED BY <2>1, <2>2
  <1> QED BY <1>1, <1>2, <1>3

LEMMA QuotedEnds ==
    ASSUME NEW A, NEW text \in Seq(A), NEW i \in 0..Len(text) - 1
    PROVE  LET len == QuotedLength(text, i)
           IN  /\ len \in Nat \ {0}
               /\ i + len <= Len(text) \/ (i + len = Len(text) + 1 /\ text[Len(text)] = "escape")
  <1> DEFINE N == Len(text)
             S == QuotedSoFar(text, i)
             first == [len |-> 1, closed |-> FALSE]
             step == [p \in (1..N) \X S |-> QuotedNext(text, i, p[2])]
             Body(n, x) == IF n = 0 THEN first ELSE QuotedNext(text, i, x)
             scan == CHOOSE g : g = [n \in 0..N |-> Body(n, g[n - 1])]
  <1>1. N \in Nat /\ i \in Nat /\ i < N
    BY LenProperties
  <1>2. \A x \in S : QuotedNext(text, i, x) \in S
    BY <1>1, QuotedNextStays
  <1>3. first \in S
    <2>1. first \in [len : Nat \ {0}, closed : BOOLEAN] /\ first.len = 1 /\ i + 1 <= N
      BY <1>1
    <2> HIDE DEF first
    <2> QED BY <1>1, <2>1 DEF QuotedSoFar
  <1> HIDE DEF S, first
  <1>4. /\ step \in [(1..N) \X S -> S]
        /\ \A n \in 1..N, x \in S : step[<<n, x>>] = QuotedNext(text, i, x)
    <2> HIDE DEF N
    <2> QED BY <1>2
  <1>5. PICK f \in [0..N -> S] : Iterates(f, N, first, step)
    <2> HIDE DEF N, step
    <2> QED BY <1>1, <1>3, <1>4, IterationExists
  <1> HIDE DEF step
  <1>6. \A n \in 0..N : f[n] = Body(n, f[n - 1])
    <2> TAKE n \in 0..N
    <2>1. CASE n = 0
      BY <2>1, <1>5 DEF Iterates
    <2>2. CASE n # 0
      <3>1. n \in 1..N /\ n - 1 \in 0..N
        BY <2>2, <1>1
      <3>2. f[n - 1] \in S
        BY <3>1, <1>5
      <3> HIDE DEF N
      <3>3. f[n] = step[<<n, f[n - 1]>>]
        BY <3>1, <1>5 DEF Iterates
      <3> QED BY <3>1, <3>2, <3>3, <1>4, <2>2
    <2> QED BY <2>1, <2>2
  <1>7. f = [n \in 0..N |-> Body(n, f[n - 1])]
    <2> HIDE DEF Body, N
    <2> QED BY <1>5, <1>6
  <1>8. scan = [n \in 0..N |-> Body(n, scan[n - 1])]
    <2> HIDE DEF Body, N
    <2> QED BY <1>7
  <1>9. QuotedLength(text, i) = scan[N].len
    BY DEF QuotedLength, first
  <1> HIDE DEF scan, N
  <1>10. scan[0] = first /\ \A n \in 1..N : scan[n] = QuotedNext(text, i, scan[n - 1])
    <2>1. scan[0] = first
      BY <1>8, <1>1
    <2>2. ASSUME NEW n \in 1..N PROVE scan[n] = QuotedNext(text, i, scan[n - 1])
      <3>1. n \in 0..N /\ n # 0
        BY <1>1
      <3>2. scan[n] = Body(n, scan[n - 1])
        <4> HIDE DEF Body
        <4> QED BY <1>8, <3>1
      <3> QED BY <3>1, <3>2
    <2> QED BY <2>1, <2>2
  <1> HIDE DEF Body
  <1>11. \A n \in 0..N : scan[n] \in S
    <2>1. scan[0] \in S /\ \A n \in 1..N : scan[n - 1] \in S => scan[n] \in S
      BY <1>2, <1>3, <1>10
    <2> QED BY <1>1, <2>1, StaysIn
  <1>12. scan[N] \in S
    BY <1>1, <1>11
  <1> QED BY <1>9, <1>12 DEF S, QuotedSoFar, N

LEMMA LeastUpTo ==
    ASSUME NEW N \in Nat, NEW W \in SUBSET (0..N), N \in W
    PROVE  Min(W) \in 0..N /\ Min(W) \in W /\ \A n \in 0..Min(W) - 1 : n \notin W
  <1> DEFINE m == Min(W)
  <1>1. W \in SUBSET Nat /\ W # {}
    OBVIOUS
  <1>2. m \in W /\ \A y \in W : m <= y
    BY <1>1, MinOfNumbers
  <1> HIDE DEF m
  <1>3. m \in 0..N
    BY <1>2
  <1>4. \A n \in 0..m - 1 : n \notin W
    BY <1>2, <1>3
  <1>5. m \in 0..N /\ m \in W /\ \A n \in 0..m - 1 : n \notin W
    BY <1>2, <1>3, <1>4
  <1> QED BY <1>5 DEF m

LEMMA PlainValueLexed ==
    ASSUME NEW A, NEW text \in Seq(A), NEW i \in 0..Len(text) - 1, CanStartPlainValue(text[i + 1])
    PROVE  Lexed(text, i, PlainValue(text, i))
  <1> DEFINE N == Len(text)
             W == {n \in 0..N - i : i + n = N \/ ~CanContinuePlainValue(text[i + n + 1])}
             len == Min(W)
  <1>1. N \in Nat /\ i \in Nat /\ i < N
    BY LenProperties
  <1>2. PlainValue(text, i).len = len /\ PlainValue(text, i).match \in {t_integer, t_plain_value}
    BY DEF PlainValue, Lookahead
  <1>3. len \in 0..N - i /\ len \in W /\ \A n \in 0..len - 1 : n \notin W
    <2>1. N - i \in Nat /\ W \in SUBSET (0..N - i) /\ N - i \in W
      BY <1>1
    <2> HIDE DEF W
    <2> QED BY <2>1, LeastUpTo
  <1>4. \A ch : CanContinuePlainValue(ch) => ch # "nl"
    BY WordAssumption DEF CanContinuePlainValue, Digit, Single
  <1>5. len # 0
    <2>1. CanContinuePlainValue(text[i + 0 + 1]) /\ i + 0 # N
      BY <1>1 DEF CanStartPlainValue, CanContinuePlainValue
    <2>2. 0 \notin W
      BY <2>1
    <2> HIDE DEF W
    <2> QED BY <1>3, <2>2
  <1>6. ASSUME NEW n \in 1..len PROVE text[i + n] # "nl"
    <2> HIDE DEF len
    <2>1. n - 1 \in 0..len - 1 /\ n - 1 \in 0..N - i /\ i + (n - 1) + 1 = i + n
      BY <1>1, <1>3
    <2>2. CanContinuePlainValue(text[i + (n - 1) + 1])
      BY <1>3, <2>1
    <2> QED BY <1>4, <2>1, <2>2
  <1> HIDE DEF len
  <1>7. i + len <= N /\ len \in Nat \ {0}
    BY <1>1, <1>3, <1>5
  <1> QED BY <1>2, <1>6, <1>7 DEF Lexed, Match

LEMMA BlankIsNone == Blank # "nl" /\ Blank \notin Quote /\ Blank \notin Single
  <1>1. Blank \notin {"<", ">", "/", ".", ",", ";", ":", "+", "-"}
    BY Zenon DEF Blank
  <1>2. Blank \notin {"*", "=", "#", "%", "$", "~", "!", "|", "&", "?"}
    BY Zenon DEF Blank
  <1>3. Blank \notin {"(", "[", "{", ")", "]", "}", "nl", "quote", "backtick"}
    BY Zenon DEF Blank
  <1> QED BY <1>1, <1>2, <1>3 DEF Quote, Single, Closing, Punctuation, Symbol

LEMMA SpaceLexed ==
    ASSUME NEW A, NEW text \in Seq(A), NEW i \in 0..Len(text) - 1, text[i + 1] = Blank
    PROVE  Lexed(text, i, [match |-> t_space, len |-> Lookahead(text, i, LAMBDA d : d # Blank)])
  <1> DEFINE N == Len(text)
             W == {n \in 0..N - i : i + n = N \/ text[i + n + 1] # Blank}
             len == Min(W)
  <1>1. N \in Nat /\ i \in Nat /\ i < N
    BY LenProperties
  <1>2. Lookahead(text, i, LAMBDA d : d # Blank) = len
    BY DEF Lookahead
  <1>3. len \in 0..N - i /\ len \in W /\ \A n \in 0..len - 1 : n \notin W
    <2>1. N - i \in Nat /\ W \in SUBSET (0..N - i) /\ N - i \in W
      BY <1>1
    <2> HIDE DEF W
    <2> QED BY <2>1, LeastUpTo
  <1>5. len # 0
    <2>1. 0 \notin W
      BY <1>1
    <2> HIDE DEF W
    <2> QED BY <1>3, <2>1
  <1>6. ASSUME NEW n \in 1..len PROVE text[i + n] # "nl"
    <2> HIDE DEF len
    <2>1. n - 1 \in 0..len - 1 /\ n - 1 \in 0..N - i /\ i + (n - 1) + 1 = i + n
      BY <1>1, <1>3
    <2>2. text[i + (n - 1) + 1] = Blank
      BY <1>3, <2>1
    <2> QED BY <2>1, <2>2, BlankIsNone
  <1> HIDE DEF len
  <1>7. i + len <= N /\ len \in Nat \ {0}
    BY <1>1, <1>3, <1>5
  <1> QED BY <1>2, <1>6, <1>7 DEF Lexed, Match

LEMMA ConsumeOneLexed ==
    ASSUME NEW A, NEW text \in Seq(A), NEW i \in 0..Len(text) - 1
    PROVE  Lexed(text, i, ConsumeOne(text, i))
  <1> DEFINE ch == text[i + 1]
  <1>1. Len(text) \in Nat /\ i \in Nat /\ i + 1 <= Len(text)
    BY LenProperties
  <1>2. CASE CanStartPlainValue(ch)
    <2>1. ConsumeOne(text, i) = PlainValue(text, i)
      <3>1. ch \notin Quote /\ ch \notin Single \ {"-"}
        BY <1>2, WordAssumption DEF CanStartPlainValue, Quote, Digit, Single, Closing, Punctuation, Symbol
      <3>2. ch # Blank
        <4>1. Blank # "-" /\ Blank # "0"
          BY Zenon DEF Blank
        <4> QED BY <1>2, <4>1, WordAssumption DEF CanStartPlainValue, Digit
      <3> QED BY <1>2, <3>1, <3>2 DEF ConsumeOne
    <2> QED BY <1>2, <2>1, PlainValueLexed
  <1>3. CASE ~CanStartPlainValue(ch) /\ ch \in Quote
    <2>1. ConsumeOne(text, i) = [match |-> t_quoted_string, len |-> QuotedLength(text, i)]
      <3>1. ch # Blank /\ ch \notin Single \ {"-"}
        BY <1>3, BlankIsNone DEF Quote, Single, Closing, Punctuation, Symbol
      <3> QED BY <1>3, <3>1 DEF ConsumeOne
    <2>2. ch # "nl"
      BY <1>3 DEF Quote
    <2> QED BY <2>1, <2>2, QuotedEnds DEF Lexed, Match
  <1>4. CASE ~CanStartPlainValue(ch) /\ ch = Blank
    <2>1. ConsumeOne(text, i) = [match |-> t_space, len |-> Lookahead(text, i, LAMBDA d : d # Blank)]
      <3>1. ch \notin Quote /\ ch \notin Single \ {"-"}
        BY <1>4, BlankIsNone
      <3> QED BY <1>4, <3>1 DEF ConsumeOne
    <2> QED BY <1>4, <2>1, SpaceLexed
  <1>5. CASE ~CanStartPlainValue(ch) /\ ch \notin Quote /\ ch # Blank
    <2>1. \/ ch \in Single /\ ConsumeOne(text, i) = [match |-> <<ch>>, len |-> 1]
          \/ ConsumeOne(text, i) = [match |-> t_unrecognized, len |-> 1]
      BY <1>5 DEF ConsumeOne
    <2> QED BY <1>1, <2>1 DEF Lexed, Match
  <1> QED BY <1>2, <1>3, <1>4, <1>5

LEMMA CompoundTexts ==
    \A op \in Compound : Len(op) \in {2, 3} /\ \A n \in 1..Len(op) : op[n] # "nl" /\ op[n] # "end"
  BY DEF Compound

LEMMA ConsumeNextLexed ==
    ASSUME NEW A, NEW text \in Seq(A), NEW i \in 0..Len(text) - 1
    PROVE  Lexed(text, i, ConsumeNext(text, i))
  <1> DEFINE operators == {op \in Compound : \A n \in 1..Len(op) : Next0(text, i + n - 1) = op[n]}
             longest == CHOOSE o \in operators : \A p \in operators : Len(p) <= Len(o)
  <1>1. CASE operators = {}
    BY <1>1, ConsumeOneLexed DEF ConsumeNext
  <1>2. CASE operators # {}
    <2>1. ConsumeNext(text, i) = [match |-> longest, len |-> Len(longest)]
      BY <1>2 DEF ConsumeNext
    <2>2. \E o \in operators : \A p \in operators : Len(p) <= Len(o)
      <3>1. \A o \in operators : Len(o) \in {2, 3}
        BY CompoundTexts
      <3> HIDE DEF operators
      <3>2. CASE \E o \in operators : Len(o) = 3
        BY <3>1, <3>2
      <3>3. CASE ~\E o \in operators : Len(o) = 3
        BY <1>2, <3>1, <3>3
      <3> QED BY <3>2, <3>3
    <2>3. longest \in operators
      <3> HIDE DEF operators
      <3> QED BY <2>2
    <2> HIDE DEF longest
    <2>4. longest \in Compound /\ Len(longest) \in {2, 3}
      BY <2>3, CompoundTexts
    <2>5. ASSUME NEW n \in 1..Len(longest) PROVE i + n <= Len(text) /\ text[i + n] # "nl"
      <3>1. Next0(text, i + n - 1) = longest[n] /\ longest[n] # "end" /\ longest[n] # "nl"
        BY <2>3, <2>4, CompoundTexts
      <3>2. i + n - 1 < Len(text) /\ text[i + n - 1 + 1] = longest[n]
        BY <3>1 DEF Next0
      <3>3. i + n - 1 + 1 = i + n /\ Len(text) \in Nat /\ n \in Nat /\ i \in Nat
        BY <2>4, LenProperties
      <3> QED BY <3>1, <3>2, <3>3
    <2>6. i + Len(longest) <= Len(text)
      BY <2>4, <2>5
    <2> QED BY <2>1, <2>4, <2>5, <2>6 DEF Lexed, Match
  <1> QED BY <1>1, <1>2

-----------------------------------------------------------------------------
\* Lines and columns

Newlines(text, p) == {i \in 1..p : text[i] = "nl"}
AtPlace(text, p, line, column) ==
    /\ line = Cardinality(Newlines(text, p)) + 1
    /\ column = p + 1 - Max(Newlines(text, p) \cup {0})

LEMMA NewlinesFinite ==
    ASSUME NEW text, NEW p \in Nat
    PROVE  /\ IsFiniteSet(Newlines(text, p)) /\ Cardinality(Newlines(text, p)) \in Nat
           /\ Max(Newlines(text, p) \cup {0}) \in 0..p
  <1> DEFINE W == Newlines(text, p)
             m == Max(W \cup {0})
  <1>1. W \subseteq 1..p
    BY DEF Newlines
  <1> HIDE DEF W
  <1>2. IsFiniteSet(1..p)
    BY FS_Interval
  <1>3. IsFiniteSet(W)
    BY <1>1, <1>2, FS_Subset
  <1>4. W \cup {0} \in SUBSET (0..p) /\ W \cup {0} # {}
    BY <1>1
  <1>5. m \in W \cup {0}
    BY <1>4, MaxOfNumbers
  <1> HIDE DEF m
  <1>6. m \in 0..p
    BY <1>4, <1>5
  <1> QED BY <1>3, <1>6, FS_CardinalityType DEF W, m

\* A token without a newline moves the column on.
LEMMA SameLine ==
    ASSUME NEW text, NEW p \in Nat, NEW len \in Nat, \A n \in 1..len : text[p + n] # "nl",
           NEW line, NEW column, AtPlace(text, p, line, column)
    PROVE  AtPlace(text, p + len, line, column + len)
  <1>1. Newlines(text, p + len) = Newlines(text, p)
    <2>1. ASSUME NEW j \in 1..p + len, text[j] = "nl" PROVE j \in 1..p
      <3>1. CASE j > p
        <4>1. j - p \in 1..len /\ p + (j - p) = j
          BY <3>1
        <4> QED BY <2>1, <4>1
      <3> QED BY <3>1
    <2>2. 1..p \subseteq 1..p + len
      OBVIOUS
    <2> QED BY <2>1, <2>2 DEF Newlines
  <1> DEFINE m == Max(Newlines(text, p) \cup {0})
  <1>2. m \in Nat
    BY NewlinesFinite
  <1>3. line = Cardinality(Newlines(text, p)) + 1 /\ column = p + 1 - m
    BY DEF AtPlace
  <1>4. Max(Newlines(text, p + len) \cup {0}) = m /\ Cardinality(Newlines(text, p + len)) = Cardinality(Newlines(text, p))
    BY <1>1
  <1> HIDE DEF m
  <1>5. column + len = (p + len) + 1 - m
    BY <1>2, <1>3
  <1> QED BY <1>3, <1>4, <1>5 DEF AtPlace

\* A newline starts a line.
LEMMA NextLine ==
    ASSUME NEW text, NEW p \in Nat, text[p + 1] = "nl",
           NEW line, NEW column, AtPlace(text, p, line, column)
    PROVE  AtPlace(text, p + 1, line + 1, 1)
  <1> DEFINE W == Newlines(text, p)
             X == Newlines(text, p + 1)
             m == Max(X \cup {0})
  <1>1. X = W \cup {p + 1} /\ p + 1 \notin W /\ X \subseteq 1..p + 1
    BY DEF Newlines
  <1>2. IsFiniteSet(W) /\ Cardinality(W) \in Nat
    BY NewlinesFinite
  <1>3. line = Cardinality(W) + 1
    BY DEF AtPlace
  <1> HIDE DEF W, X
  <1>4. Cardinality(X) = Cardinality(W) + 1
    BY <1>1, <1>2, FS_AddElement
  <1>5. m = p + 1
    <2>1. X \cup {0} \in SUBSET (0..p + 1) /\ X \cup {0} # {} /\ p + 1 \in X
      BY <1>1
    <2>2. m \in X \cup {0} /\ \A y \in X \cup {0} : y <= m
      <3> DEFINE N == p + 1
                 V == X \cup {0}
      <3>1. N \in Nat /\ V \in SUBSET (0..N) /\ V # {}
        BY <2>1
      <3> HIDE DEF N, V
      <3> QED BY ONLY <3>1, MaxOfNumbers DEF V, m
    <2> HIDE DEF m
    <2>3. m \in 0..p + 1 /\ p + 1 <= m
      BY <2>1, <2>2
    <2> QED BY <2>3
  <1> HIDE DEF m
  <1>6. line + 1 = Cardinality(X) + 1 /\ 1 = (p + 1) + 1 - m
    BY <1>3, <1>4, <1>5
  <1> QED BY <1>6 DEF AtPlace, X, m

LEMMA NoNewlineIn ==
    ASSUME NEW A, NEW text \in Seq(A), NEW p \in Nat, NEW len \in Nat, p + len <= Len(text),
           "nl" \notin ToSet(SubSeq(text, p + 1, p + len))
    PROVE  \A n \in 1..len : text[p + n] # "nl"
  <1> DEFINE t == SubSeq(text, p + 1, p + len)
  <1> TAKE n \in 1..len
  <1>1. Len(text) \in Nat
    BY LenProperties
  <1>2. Len(t) = len /\ t \in Seq(A) /\ \A i \in 1..len : t[i] = text[(p + 1) + i - 1]
    BY <1>1, SubSeqProperties
  <1> HIDE DEF t
  <1>3. n \in DOMAIN t /\ (p + 1) + n - 1 = p + n
    BY <1>2, LenProperties
  <1>4. t[n] # "nl"
    BY <1>3 DEF ToSet, t
  <1> QED BY <1>2, <1>3, <1>4

-----------------------------------------------------------------------------
\* Context.consume()

Token == [match : Match, start : Nat, end : Nat, line : Nat, column : Nat, pairs : Nat]
Context == [index : Nat, line : Nat, column : Nat, tokens : Seq(Token), brackets : Seq(Nat)]

\* All but the pair.
SameToken(t, u) ==
    t.match = u.match /\ t.start = u.start /\ t.end = u.end /\ t.line = u.line /\ t.column = u.column

LEMMA NotBothSides == \A match : ~(Left(match) /\ Right(match))
  <1> SUFFICES ASSUME NEW b \in DOMAIN Closing, NEW d \in DOMAIN Closing, <<b>> = <<Closing[d]>> PROVE FALSE
    BY DEF Left, Right
  <1>1. b \in {"(", "[", "{"} /\ Closing[d] \in {")", "]", "}"}
    BY DEF Closing
  <1>2. b = Closing[d]
    OBVIOUS
  <1> QED BY <1>1, <1>2

LEMMA PairsSet ==
    ASSUME NEW t \in Token, NEW n \in Nat
    PROVE  LET u == [t EXCEPT !.pairs = n] IN u \in Token /\ SameToken(u, t) /\ u.pairs = n
  BY DEF Token, SameToken

LEMMA ConsumeDoes ==
    ASSUME NEW ctx \in Context, NEW text, NEW next, next.match \in Match, next.len \in Nat \ {0},
           NEW left, left = MatchingBracket(ctx, next.match), left \in 0..Len(ctx.tokens),
           NEW r, r = Consume(ctx, text, next), NEW N, N = Len(ctx.tokens)
    PROVE  /\ r \in Context /\ N \in Nat /\ Len(r.tokens) = N + 1
           /\ r.index = ctx.index + next.len
           /\ r.line = IF text[ctx.index + 1] = "nl" THEN ctx.line + 1 ELSE ctx.line
           /\ r.column = IF text[ctx.index + 1] = "nl" THEN 1 ELSE ctx.column + next.len
           /\ \A j \in 1..N :
                /\ r.tokens[j] \in Token /\ SameToken(r.tokens[j], ctx.tokens[j])
                /\ r.tokens[j].pairs = IF j = left THEN N + 1 ELSE ctx.tokens[j].pairs
           /\ r.tokens[N + 1] = [match |-> next.match, start |-> ctx.index, end |-> ctx.index + next.len,
                                 line |-> ctx.line, column |-> ctx.column, pairs |-> left]
           /\ r.brackets = CASE Left(next.match) -> Append(ctx.brackets, N + 1)
                             [] left # Unpaired -> Front(ctx.brackets)
                             [] OTHER -> ctx.brackets
  <1> DEFINE ts == ctx.tokens
             us == IF left = Unpaired THEN ts ELSE [ts EXCEPT ![left].pairs = N + 1]
             token == [match |-> next.match, start |-> ctx.index, end |-> ctx.index + next.len,
                       line |-> ctx.line, column |-> ctx.column, pairs |-> left]
  <1>1. /\ ts \in Seq(Token) /\ N \in Nat /\ ctx.index \in Nat /\ ctx.line \in Nat /\ ctx.column \in Nat
        /\ \A j \in 1..N : ts[j] \in Token
    <2>1. ctx.tokens \in Seq(Token) /\ ctx.index \in Nat /\ ctx.line \in Nat /\ ctx.column \in Nat
      BY DEF Context
    <2> QED BY <2>1, LenProperties, ElementOfSeq
  <1>2. token \in Token
    BY <1>1 DEF Token
  <1>3. us \in Seq(Token) /\ Len(us) = N /\ \A j \in 1..N :
            /\ us[j] \in Token /\ SameToken(us[j], ts[j])
            /\ us[j].pairs = IF j = left THEN N + 1 ELSE ts[j].pairs
    <2>1. CASE left = Unpaired
      <3>1. us = ts /\ \A j \in 1..N : j # left
        BY <2>1 DEF Unpaired
      <3> HIDE DEF us
      <3>2. \A j \in 1..N : SameToken(us[j], ts[j])
        BY <3>1 DEF SameToken
      <3> QED BY <1>1, <3>1, <3>2
    <2>2. CASE left # Unpaired
      <3>1. left \in 1..N
        BY <1>1, <2>2 DEF Unpaired
      <3> DEFINE new == [ts[left] EXCEPT !.pairs = N + 1]
      <3>2. us = [ts EXCEPT ![left] = new]
        BY <2>2
      <3>3. new \in Token /\ SameToken(new, ts[left]) /\ new.pairs = N + 1
        <4>1. ts[left] \in Token /\ N + 1 \in Nat
          BY <1>1, <3>1
        <4> HIDE DEF ts
        <4> QED BY <4>1, PairsSet
      <3> HIDE DEF us, new
      <3>4. us \in Seq(Token) /\ Len(us) = N /\ us[left] = new /\ \A j \in 1..N : j # left => us[j] = ts[j]
        BY <1>1, <3>1, <3>2, <3>3, ExceptSeq
      <3>5. ASSUME NEW j \in 1..N
            PROVE  /\ us[j] \in Token /\ SameToken(us[j], ts[j])
                   /\ us[j].pairs = IF j = left THEN N + 1 ELSE ts[j].pairs
        BY <1>1, <3>3, <3>4 DEF SameToken
      <3> QED BY <3>4, <3>5
    <2> QED BY <2>1, <2>2
  <1>4. r = [index |-> ctx.index + next.len,
             line |-> IF text[ctx.index + 1] = "nl" THEN ctx.line + 1 ELSE ctx.line,
             column |-> ColumnAfter(ctx, text, next.len),
             tokens |-> Append(us, token),
             brackets |-> CASE Left(next.match) -> Append(ctx.brackets, N + 1)
                            [] left # Unpaired -> Front(ctx.brackets)
                            [] OTHER -> ctx.brackets]
    BY DEF Consume
  <1> HIDE DEF us, token
  <1>5. Append(us, token) \in Seq(Token) /\ Len(Append(us, token)) = N + 1
        /\ Append(us, token)[N + 1] = token /\ \A j \in 1..N : Append(us, token)[j] = us[j]
    <2>1. us \in Seq(Token) /\ token \in Token /\ Len(us) = N /\ N \in Nat
      BY <1>1, <1>2, <1>3
    <2> QED BY ONLY <2>1, AppendProperties
  <1>6. r.brackets \in Seq(Nat)
    <2>0. r.brackets = CASE Left(next.match) -> Append(ctx.brackets, N + 1)
                         [] left # Unpaired -> Front(ctx.brackets)
                         [] OTHER -> ctx.brackets
      BY <1>4
    <2>1. ctx.brackets \in Seq(Nat) /\ N + 1 \in Nat
      BY <1>1 DEF Context
    <2>2. CASE Left(next.match)
      <3>0. left = Unpaired
        BY <2>2, NotBothSides DEF MatchingBracket
      <3>1. r.brackets = Append(ctx.brackets, N + 1)
        BY <2>0, <2>2, <3>0
      <3> QED BY ONLY <2>1, <3>1, AppendProperties
    <2>3. CASE ~Left(next.match) /\ left # Unpaired
      <3>1. ctx.brackets # <<>>
        BY <2>3 DEF MatchingBracket
      <3>2. Len(ctx.brackets) \in Nat \ {0} /\ \A k \in 1..Len(ctx.brackets) : ctx.brackets[k] \in Nat
        BY <2>1, <3>1, LenProperties, EmptySeq, ElementOfSeq
      <3>3. SubSeq(ctx.brackets, 1, Len(ctx.brackets) - 1) \in Seq(Nat)
        BY <3>2, SubSeqProperties
      <3> QED BY <2>0, <2>3, <3>3 DEF Front
    <2>4. CASE ~Left(next.match) /\ left = Unpaired
      BY <2>0, <2>1, <2>4
    <2> QED BY <2>2, <2>3, <2>4
  <1>7. r \in Context
    <2>1. ColumnAfter(ctx, text, next.len) \in Nat
      BY <1>1 DEF ColumnAfter
    <2>2. ctx.index + next.len \in Nat /\ (IF text[ctx.index + 1] = "nl" THEN ctx.line + 1 ELSE ctx.line) \in Nat
      BY <1>1
    <2> DEFINE index == ctx.index + next.len
               line == IF text[ctx.index + 1] = "nl" THEN ctx.line + 1 ELSE ctx.line
               column == ColumnAfter(ctx, text, next.len)
               appended == Append(us, token)
               brackets == CASE Left(next.match) -> Append(ctx.brackets, N + 1)
                             [] left # Unpaired -> Front(ctx.brackets)
                             [] OTHER -> ctx.brackets
    <2>3. r = [index |-> index, line |-> line, column |-> column, tokens |-> appended, brackets |-> brackets]
      BY <1>4
    <2>4. index \in Nat /\ line \in Nat /\ column \in Nat /\ appended \in Seq(Token)
      BY <1>5, <2>1, <2>2
    <2>5. brackets \in Seq(Nat)
      BY <1>6, <2>3
    <2> HIDE DEF index, line, column, appended, brackets
    <2> QED BY ONLY <2>3, <2>4, <2>5 DEF Context
  <1>8. r.tokens = Append(us, token)
    BY <1>4
  <1>9. \A j \in 1..N :
            /\ r.tokens[j] \in Token /\ SameToken(r.tokens[j], ts[j])
            /\ r.tokens[j].pairs = IF j = left THEN N + 1 ELSE ts[j].pairs
    BY <1>3, <1>5, <1>8
  <1>10. Len(r.tokens) = N + 1 /\ r.tokens[N + 1] = token
    BY <1>5, <1>8
  <1>11. /\ r.index = ctx.index + next.len
         /\ r.line = IF text[ctx.index + 1] = "nl" THEN ctx.line + 1 ELSE ctx.line
         /\ r.column = IF text[ctx.index + 1] = "nl" THEN 1 ELSE ctx.column + next.len
    BY <1>4 DEF ColumnAfter
  <1>12. r.brackets = CASE Left(next.match) -> Append(ctx.brackets, N + 1)
                        [] left # Unpaired -> Front(ctx.brackets)
                        [] OTHER -> ctx.brackets
    BY <1>4
  <1> QED BY <1>1, <1>7, <1>9, <1>10, <1>11, <1>12 DEF token

-----------------------------------------------------------------------------
\* Brackets

\* Every pair is as BracketsPair says ...
WellPaired(ts, i) ==
    LET j == ts[i].pairs
    IN  /\ j \in 1..Len(ts) /\ ts[j].pairs = i
        /\ i < j => /\ Left(ts[i].match) /\ ts[j].match = <<Closing[ts[i].match[1]]>>
                    /\ \A k \in i + 1..j - 1 : Left(ts[k].match) => ts[k].pairs \in k + 1..j - 1

\* ... and the stack has the opening brackets that are open, the innermost last.
Stacked(ts, st) ==
    /\ \A k \in 1..Len(st) : st[k] \in 1..Len(ts) /\ Left(ts[st[k]].match) /\ ts[st[k]].pairs = Unpaired
    /\ \A k, m \in 1..Len(st) : k < m => st[k] < st[m]
    /\ \A i \in 1..Len(ts) : Left(ts[i].match) =>
        (\E k \in 1..Len(st) : st[k] = i) \/ ts[i].pairs \in i + 1..Len(ts)

Nested(ctx) ==
    /\ \A i \in 1..Len(ctx.tokens) : ctx.tokens[i].pairs # Unpaired => WellPaired(ctx.tokens, i)
    /\ Stacked(ctx.tokens, ctx.brackets)

LEMMA LeftIsToken ==
    ASSUME NEW ctx \in Context, Nested(ctx), NEW match
    PROVE  LET left == MatchingBracket(ctx, match)
               n == Len(ctx.brackets)
           IN  \/ left = Unpaired
               \/ /\ n \in Nat \ {0} /\ left = ctx.brackets[n] /\ left \in 1..Len(ctx.tokens)
                  /\ Right(match) /\ match = <<Closing[ctx.tokens[left].match[1]]>>
  <1> DEFINE left == MatchingBracket(ctx, match)
             n == Len(ctx.brackets)
  <1>1. CASE left # Unpaired
    <2>1. /\ Right(match) /\ ctx.brackets # <<>> /\ left = Last(ctx.brackets)
          /\ match = <<Closing[ctx.tokens[left].match[1]]>>
      BY <1>1 DEF MatchingBracket
    <2>2. ctx.brackets \in Seq(Nat)
      BY DEF Context
    <2>3. n \in Nat \ {0}
      BY <2>1, <2>2, LenProperties, EmptySeq
    <2>4. left = ctx.brackets[n]
      BY <2>1 DEF Last
    <2>5. left \in 1..Len(ctx.tokens)
      BY <2>3, <2>4 DEF Nested, Stacked
    <2> QED BY <2>1, <2>3, <2>4, <2>5
  <1> QED BY <1>1

\* The last token is no bracket, or a right one that closes nothing.
LEMMA NestedPlain ==
    ASSUME NEW ts, NEW us, NEW st, NEW N \in Nat, Len(ts) = N, Len(us) = N + 1,
           \A j \in 1..N : ts[j].pairs \in Nat,
           \A j \in 1..N : us[j].match = ts[j].match /\ us[j].pairs = ts[j].pairs,
           us[N + 1].pairs = Unpaired
    PROVE  /\ (\A i \in 1..N : ts[i].pairs # Unpaired => WellPaired(ts, i)) =>
                \A i \in 1..N + 1 : us[i].pairs # Unpaired => WellPaired(us, i)
  <1> SUFFICES ASSUME \A i \in 1..N : ts[i].pairs # Unpaired => WellPaired(ts, i),
                      NEW i \in 1..N + 1, us[i].pairs # Unpaired
               PROVE  WellPaired(us, i)
    OBVIOUS
  <1>1. i \in 1..N
    OBVIOUS
  <1>2. WellPaired(ts, i) /\ us[i].pairs = ts[i].pairs
    BY <1>1
  <1> QED BY <1>1, <1>2 DEF WellPaired

\* What stays of a stack of brackets beside the last token and what that takes off.
LEMMA StackedWith ==
    ASSUME NEW N \in Nat, NEW ts, NEW us, Len(ts) = N, Len(us) = N + 1,
           \A j \in 1..N : us[j].match = ts[j].match /\ us[j].pairs = ts[j].pairs,
           us[N + 1].pairs = Unpaired,
           NEW st \in Seq(Nat), Stacked(ts, st)
    PROVE  /\ Left(us[N + 1].match) => Stacked(us, Append(st, N + 1))
           /\ ~Left(us[N + 1].match) => Stacked(us, st)
  <1> DEFINE n == Len(st)
  <1>1. n \in Nat
    BY LenProperties
  <1>2. \A k \in 1..n : st[k] \in 1..N /\ Left(us[st[k]].match) /\ us[st[k]].pairs = Unpaired
    BY DEF Stacked
  <1>3. \A k, m \in 1..n : k < m => st[k] < st[m]
    BY DEF Stacked
  <1>4. \A i \in 1..N : Left(us[i].match) => (\E k \in 1..n : st[k] = i) \/ us[i].pairs \in i + 1..N + 1
    <2> TAKE i \in 1..N
    <2>1. Left(ts[i].match) => (\E k \in 1..n : st[k] = i) \/ ts[i].pairs \in i + 1..N
      BY DEF Stacked
    <2> QED BY <2>1
  <1> HIDE DEF n
  <1>5. CASE ~Left(us[N + 1].match)
    <2>1. \A i \in 1..N + 1 : Left(us[i].match) => (\E k \in 1..n : st[k] = i) \/ us[i].pairs \in i + 1..N + 1
      <3> TAKE i \in 1..N + 1
      <3>1. i = N + 1 \/ i \in 1..N
        OBVIOUS
      <3> QED BY <1>4, <1>5, <3>1
    <2>2. \A k \in 1..n : st[k] \in 1..N + 1
      BY <1>2
    <2> QED BY <1>2, <1>3, <1>5, <2>1, <2>2 DEF Stacked, n
  <1>6. CASE Left(us[N + 1].match)
    <2> DEFINE tt == Append(st, N + 1)
    <2>1. Len(tt) = n + 1 /\ tt[n + 1] = N + 1 /\ \A k \in 1..n : tt[k] = st[k]
      <3>1. st \in Seq(Nat) /\ N + 1 \in Nat
        OBVIOUS
      <3> QED BY ONLY <3>1, AppendProperties DEF n
    <2> HIDE DEF tt
    <2>2. \A k \in 1..n + 1 : tt[k] \in 1..N + 1 /\ Left(us[tt[k]].match) /\ us[tt[k]].pairs = Unpaired
      <3> TAKE k \in 1..n + 1
      <3>1. CASE k = n + 1
        BY <1>1, <1>6, <2>1, <3>1
      <3>2. CASE k \in 1..n
        BY <1>2, <2>1, <3>2
      <3> QED BY <1>1, <3>1, <3>2
    <2>3. \A k, m \in 1..n + 1 : k < m => tt[k] < tt[m]
      <3> SUFFICES ASSUME NEW k \in 1..n + 1, NEW m \in 1..n + 1, k < m PROVE tt[k] < tt[m]
        OBVIOUS
      <3>1. k \in 1..n
        BY <1>1
      <3>2. CASE m = n + 1
        BY <1>2, <2>1, <3>1, <3>2
      <3>3. CASE m # n + 1
        <4>1. m \in 1..n
          BY <1>1, <3>3
        <4> QED BY <1>3, <2>1, <3>1, <4>1
      <3> QED BY <3>2, <3>3
    <2>4. \A i \in 1..N + 1 :
            Left(us[i].match) => (\E k \in 1..n + 1 : tt[k] = i) \/ us[i].pairs \in i + 1..N + 1
      <3> SUFFICES ASSUME NEW i \in 1..N + 1, Left(us[i].match)
                   PROVE  (\E k \in 1..n + 1 : tt[k] = i) \/ us[i].pairs \in i + 1..N + 1
        OBVIOUS
      <3>1. CASE i = N + 1
        <4>1. n + 1 \in 1..n + 1
          BY <1>1
        <4> QED BY <2>1, <3>1, <4>1
      <3>2. CASE i \in 1..N
        <4>1. (\E k \in 1..n : st[k] = i) \/ us[i].pairs \in i + 1..N + 1
          BY <1>4, <3>2
        <4>2. \A k \in 1..n : k \in 1..n + 1
          BY <1>1
        <4> QED BY <2>1, <4>1, <4>2
      <3> QED BY <3>1, <3>2
    <2> QED BY <1>6, <2>1, <2>2, <2>3, <2>4 DEF Stacked, tt
  <1> QED BY <1>5, <1>6

\* A right bracket and the innermost open one become a pair.
ClosesTop(ts, us, st, left, N) ==
    /\ N \in Nat /\ Len(ts) = N /\ Len(us) = N + 1
    /\ \A j \in 1..N : ts[j].pairs \in Nat /\ us[j].match = ts[j].match
    /\ st \in Seq(Nat) /\ Stacked(ts, st) /\ Len(st) \in Nat \ {0}
    /\ left \in 1..N /\ left = st[Len(st)]
    /\ \A j \in 1..N : us[j].pairs = IF j = left THEN N + 1 ELSE ts[j].pairs
    /\ us[N + 1].pairs = left /\ ~Left(us[N + 1].match)
    /\ us[N + 1].match = <<Closing[ts[left].match[1]]>>
    /\ \A i \in 1..N : ts[i].pairs # Unpaired => WellPaired(ts, i)

LEMMA NestedPair ==
    ASSUME NEW ts, NEW us, NEW st, NEW left, NEW N, ClosesTop(ts, us, st, left, N)
    PROVE  /\ \A i \in 1..N + 1 : us[i].pairs # Unpaired => WellPaired(us, i)
           /\ Stacked(us, SubSeq(st, 1, Len(st) - 1))
  <1> DEFINE n == Len(st)
             tt == SubSeq(st, 1, n - 1)
  <1>0. /\ N \in Nat /\ Len(ts) = N /\ Len(us) = N + 1
        /\ \A j \in 1..N : ts[j].pairs \in Nat /\ us[j].match = ts[j].match
        /\ st \in Seq(Nat) /\ Stacked(ts, st) /\ Len(st) \in Nat \ {0}
        /\ left \in 1..N /\ left = st[Len(st)]
        /\ \A j \in 1..N : us[j].pairs = IF j = left THEN N + 1 ELSE ts[j].pairs
        /\ us[N + 1].pairs = left /\ ~Left(us[N + 1].match)
        /\ us[N + 1].match = <<Closing[ts[left].match[1]]>>
        /\ \A i \in 1..N : ts[i].pairs # Unpaired => WellPaired(ts, i)
    BY DEF ClosesTop
  <1> USE <1>0
  <1>1. /\ \A k \in 1..n : st[k] \in 1..N /\ Left(ts[st[k]].match) /\ ts[st[k]].pairs = Unpaired
        /\ \A k, m \in 1..n : k < m => st[k] < st[m]
        /\ \A i \in 1..N : Left(ts[i].match) => (\E k \in 1..n : st[k] = i) \/ ts[i].pairs \in i + 1..N
    BY DEF Stacked
  <1>2. Left(ts[left].match) /\ ts[left].pairs = Unpaired /\ us[left].pairs = N + 1
    BY <1>1
  <1>3. \A k \in 1..n - 1 : st[k] < left
    BY <1>1
  <1>4. ASSUME NEW k \in left + 1..N, Left(us[k].match) PROVE us[k].pairs \in k + 1..N
    <2>1. k \in 1..N /\ k # left /\ Left(ts[k].match) /\ us[k].pairs = ts[k].pairs
      BY <1>4
    <2>2. ~\E m \in 1..n : st[m] = k
      <3>1. \A m \in 1..n : st[m] <= left
        <4> TAKE m \in 1..n
        <4>1. m = n \/ m \in 1..n - 1
          OBVIOUS
        <4> QED BY <1>1, <1>3, <4>1
      <3>2. left < k /\ \A m \in 1..n : st[m] \in 1..N
        BY <1>1
      <3> QED BY <3>1, <3>2
    <2> QED BY <1>1, <2>1, <2>2
  <1>5. ASSUME NEW i \in 1..N + 1, us[i].pairs # Unpaired PROVE WellPaired(us, i)
    <2>1. CASE i = N + 1
      <3>1. us[i].pairs = left /\ left \in 1..N + 1 /\ ~(i < left)
        BY <2>1
      <3> QED BY <1>2, <2>1, <3>1 DEF WellPaired
    <2>2. CASE i = left
      <3>1. us[i].pairs = N + 1 /\ N + 1 \in 1..N + 1 /\ N + 1 - 1 = N
        BY <1>2, <2>2
      <3>2. us[i].match = ts[left].match
        BY <2>2
      <3>3. \A k \in i + 1..N : Left(us[k].match) => us[k].pairs \in k + 1..N
        BY <1>4, <2>2
      <3> QED BY <1>2, <2>2, <3>1, <3>2, <3>3 DEF WellPaired
    <2>3. CASE i \in 1..N /\ i # left
      <3> DEFINE j == ts[i].pairs
      <3>1. us[i].pairs = j /\ WellPaired(ts, i) /\ i # 0
        BY <1>5, <2>3
      <3>2. /\ j \in 1..N /\ ts[j].pairs = i
            /\ i < j => /\ Left(ts[i].match) /\ ts[j].match = <<Closing[ts[i].match[1]]>>
                        /\ \A k \in i + 1..j - 1 : Left(ts[k].match) => ts[k].pairs \in k + 1..j - 1
        BY <3>1 DEF WellPaired
      <3> HIDE DEF j
      <3>3. j # left
        BY <1>2, <2>3, <3>2 DEF Unpaired
      <3>4. us[j].pairs = i /\ us[j].match = ts[j].match /\ us[i].match = ts[i].match /\ j \in 1..N + 1
        BY <2>3, <3>2, <3>3
      <3>5. ASSUME i < j, NEW k \in i + 1..j - 1, Left(us[k].match) PROVE us[k].pairs \in k + 1..j - 1
        <4>1. k \in 1..N /\ Left(ts[k].match)
          BY <2>3, <3>2, <3>5
        <4>2. ts[k].pairs \in k + 1..j - 1
          BY <3>2, <3>5, <4>1
        <4>3. k # left
          BY <1>2, <4>2 DEF Unpaired
        <4> QED BY <4>1, <4>2, <4>3
      <3> QED BY <3>1, <3>2, <3>4, <3>5 DEF WellPaired
    <2> QED BY <2>1, <2>2, <2>3
  <1>6. Len(tt) = n - 1 /\ \A k \in 1..n - 1 : tt[k] = st[k]
    <2>1. \A k \in 1..n - 1 : st[k] \in Nat
      BY <1>1
    <2>2. n \in Nat \ {0}
      OBVIOUS
    <2> HIDE DEF n
    <2>3. /\ Len(tt) = IF 1 <= n - 1 THEN n - 1 - 1 + 1 ELSE 0
          /\ \A k \in 1..n - 1 - 1 + 1 : tt[k] = st[1 + k - 1]
      BY <2>1, <2>2, SubSeqProperties
    <2> QED BY <2>2, <2>3
  <1> HIDE DEF tt, n
  <1>7. \A k \in 1..n - 1 : tt[k] \in 1..N + 1 /\ Left(us[tt[k]].match) /\ us[tt[k]].pairs = Unpaired
    <2> TAKE k \in 1..n - 1
    <2>0. n \in Nat
      BY DEF n
    <2>1. k \in 1..n /\ tt[k] = st[k]
      BY <1>6, <2>0
    <2>2. st[k] \in 1..N /\ st[k] < left /\ Left(ts[st[k]].match) /\ ts[st[k]].pairs = Unpaired
      BY <1>1, <1>3, <2>1
    <2> DEFINE b == st[k]
    <2> HIDE DEF b
    <2>3. b \in 1..N /\ b < left /\ Left(ts[b].match) /\ ts[b].pairs = Unpaired /\ tt[k] = b
      BY <2>1, <2>2 DEF b
    <2>4. b # left /\ b \in 1..N + 1
      BY <2>3
    <2> QED BY <2>3, <2>4
  <1>8. \A k, m \in 1..n - 1 : k < m => tt[k] < tt[m]
    <2> SUFFICES ASSUME NEW k \in 1..n - 1, NEW m \in 1..n - 1, k < m PROVE tt[k] < tt[m]
      OBVIOUS
    <2>1. k \in 1..n /\ m \in 1..n
      BY DEF n
    <2> QED BY <1>1, <1>6, <2>1
  <1>9. ASSUME NEW i \in 1..N + 1, Left(us[i].match)
        PROVE  (\E k \in 1..n - 1 : tt[k] = i) \/ us[i].pairs \in i + 1..N + 1
    <2>1. i \in 1..N /\ Left(ts[i].match)
      <3>1. i # N + 1
        BY <1>9
      <3>2. i \in 1..N
        BY <3>1
      <3> QED BY <1>9, <3>2
    <2>2. CASE i = left
      BY <1>2, <2>1, <2>2
    <2>3. CASE i # left /\ \E k \in 1..n : st[k] = i
      <3>1. PICK k \in 1..n : st[k] = i
        BY <2>3
      <3>2. k \in 1..n - 1
        BY <2>3, <3>1 DEF n
      <3> QED BY <1>6, <3>1, <3>2
    <2>4. CASE i # left /\ ts[i].pairs \in i + 1..N
      BY <2>1, <2>4
    <2> QED BY <1>1, <2>1, <2>2, <2>3, <2>4
  <1> QED BY <1>5, <1>6, <1>7, <1>8, <1>9 DEF Stacked, tt, n

LEMMA NestedKept ==
    ASSUME NEW ctx \in Context, Nested(ctx), NEW text, NEW next, next.match \in Match, next.len \in Nat \ {0}
    PROVE  Nested(Consume(ctx, text, next))
  <1> DEFINE ts == ctx.tokens
             st == ctx.brackets
             N == Len(ts)
             left == MatchingBracket(ctx, next.match)
             r == Consume(ctx, text, next)
             us == r.tokens
  <1>1. ts \in Seq(Token) /\ st \in Seq(Nat)
    BY DEF Context
  <1>2. N \in Nat /\ \A j \in 1..N : ts[j].pairs \in Nat
    <2>1. \A j \in 1..N : ts[j] \in Token
      BY <1>1, ElementOfSeq
    <2> QED BY <1>1, <2>1, LenProperties DEF Token
  <1>3. \/ left = Unpaired
        \/ /\ Len(st) \in Nat \ {0} /\ left = st[Len(st)] /\ left \in 1..N
           /\ Right(next.match) /\ next.match = <<Closing[ts[left].match[1]]>>
    BY LeftIsToken
  <1>4. left \in 0..N
    BY <1>2, <1>3 DEF Unpaired
  <1>5. /\ Len(us) = N + 1
        /\ \A j \in 1..N : SameToken(us[j], ts[j]) /\ us[j].pairs = IF j = left THEN N + 1 ELSE ts[j].pairs
        /\ us[N + 1] = [match |-> next.match, start |-> ctx.index, end |-> ctx.index + next.len,
                        line |-> ctx.line, column |-> ctx.column, pairs |-> left]
        /\ r.brackets = CASE Left(next.match) -> Append(st, N + 1)
                          [] left # Unpaired -> Front(st)
                          [] OTHER -> st
    <2> HIDE DEF left, r
    <2> QED BY <1>4, ConsumeDoes DEF left, r
  <1>6. us[N + 1].match = next.match /\ us[N + 1].pairs = left /\ \A j \in 1..N : us[j].match = ts[j].match
    BY <1>5 DEF SameToken
  <1>7. Stacked(ts, st) /\ \A i \in 1..N : ts[i].pairs # Unpaired => WellPaired(ts, i)
    BY DEF Nested
  <1>8. Nested(r) <=> Stacked(us, r.brackets) /\ \A i \in 1..N + 1 : us[i].pairs # Unpaired => WellPaired(us, i)
    BY <1>5 DEF Nested
  <1> DEFINE brackets == r.brackets
             length == Len(st)
  <1>9. CASE left = Unpaired
    <2>1. \A j \in 1..N : us[j].pairs = ts[j].pairs
      BY <1>2, <1>5, <1>9 DEF Unpaired
    <2>2. us[N + 1].pairs = Unpaired
      BY <1>6, <1>9
    <2>3. brackets = IF Left(next.match) THEN Append(st, N + 1) ELSE st
      BY <1>5, <1>9
    <2> HIDE DEF us, ts, st, left, brackets
    <2>4. \A i \in 1..N + 1 : us[i].pairs # Unpaired => WellPaired(us, i)
      BY <1>2, <1>5, <1>6, <1>7, <2>1, <2>2, NestedPlain
    <2>5. /\ Left(us[N + 1].match) => Stacked(us, Append(st, N + 1))
          /\ ~Left(us[N + 1].match) => Stacked(us, st)
      BY <1>1, <1>2, <1>5, <1>6, <1>7, <2>1, <2>2, StackedWith
    <2>6. Stacked(us, brackets)
      BY <1>6, <2>3, <2>5
    <2> QED BY <1>8, <2>4, <2>6 DEF brackets
  <1>10. CASE left # Unpaired
    <2>1. ~Left(next.match)
      BY <1>3, <1>10, NotBothSides
    <2>2. brackets = SubSeq(st, 1, length - 1)
      BY <1>5, <1>10, <2>1 DEF Front
    <2>3. length \in Nat \ {0} /\ left = st[length] /\ left \in 1..N /\ next.match = <<Closing[ts[left].match[1]]>>
      BY <1>3, <1>10
    <2>4. \A j \in 1..N : ts[j].pairs \in Nat /\ us[j].match = ts[j].match
      BY <1>2, <1>6
    <2>5. \A j \in 1..N : us[j].pairs = IF j = left THEN N + 1 ELSE ts[j].pairs
      BY <1>5
    <2>6. N \in Nat /\ Len(ts) = N /\ Len(us) = N + 1 /\ length = Len(st)
      BY <1>2, <1>5
    <2>7. us[N + 1].pairs = left /\ ~Left(us[N + 1].match) /\ us[N + 1].match = <<Closing[ts[left].match[1]]>>
      BY <1>6, <2>1, <2>3
    <2> HIDE DEF us, ts, st, left, brackets, N, length
    <2>8. /\ \A i \in 1..N + 1 : us[i].pairs # Unpaired => WellPaired(us, i)
          /\ Stacked(us, SubSeq(st, 1, length - 1))
      <3>1. st \in Seq(Nat) /\ Len(st) \in Nat \ {0} /\ left = st[Len(st)]
        BY <1>1, <2>3, <2>6
      <3>2. ClosesTop(ts, us, st, left, N)
        BY ONLY <1>7, <2>3, <2>4, <2>5, <2>6, <2>7, <3>1 DEF ClosesTop
      <3>3. SubSeq(st, 1, length - 1) = SubSeq(st, 1, Len(st) - 1)
        BY <2>6
      <3> QED BY ONLY <2>6, <3>2, <3>3, NestedPair
    <2> QED BY <1>8, <2>2, <2>8 DEF brackets
  <1> QED BY <1>9, <1>10

-----------------------------------------------------------------------------
\* The tokens so far tile the text up to index

Clean(text, ts, n) ==
    \A j \in 1..n : Quoted(ts[j]) => "nl" \notin ToSet(TokenText(text, ts[j]))

\* The token i, as TokensTile says.
Placed(text, ts, i) ==
    /\ ts[i].start = (IF i = 1 THEN 0 ELSE ts[i - 1].end)
    /\ ts[i].start < ts[i].end /\ ts[i].start < Len(text)
    /\ Clean(text, ts, i - 1) => AtPlace(text, ts[i].start, ts[i].line, ts[i].column)

Tiled(text, ctx) ==
    LET ts == ctx.tokens
        n == Len(ts)
    IN  /\ \A i \in 1..n : Placed(text, ts, i)
        /\ ctx.index = (IF n = 0 THEN 0 ELSE ts[n].end)
        /\ \/ ctx.index <= Len(text)
           \/ n # 0 /\ ctx.index = Len(text) + 1 /\ Quoted(ts[n]) /\ text[Len(text)] = "escape"
        /\ ctx.index <= Len(text) /\ Clean(text, ts, n) => AtPlace(text, ctx.index, ctx.line, ctx.column)

\* What consumeNext() finds ends on the line that consume() says.
LEMMA PlaceAfter ==
    ASSUME NEW A, NEW text \in Seq(A), NEW p \in 0..Len(text) - 1, NEW next, Lexed(text, p, next),
           p + next.len <= Len(text),
           next.match = t_quoted_string => "nl" \notin ToSet(SubSeq(text, p + 1, p + next.len)),
           NEW line, NEW column, AtPlace(text, p, line, column)
    PROVE  AtPlace(text, p + next.len, IF text[p + 1] = "nl" THEN line + 1 ELSE line,
                   IF text[p + 1] = "nl" THEN 1 ELSE column + next.len)
  <1> DEFINE len == next.len
  <1>1. len \in Nat \ {0} /\ p \in Nat /\ Len(text) \in Nat
    BY LenProperties DEF Lexed
  <1>2. CASE text[p + 1] = "nl"
    <2>1. len = 1
      <3>1. len = 1 \/ \A n \in 1..len : text[p + n] # "nl"
        BY <1>2 DEF Lexed
      <3> HIDE DEF len
      <3> QED BY <1>1, <1>2, <3>1
    <2> QED BY <1>1, <1>2, <2>1, NextLine
  <1>3. CASE text[p + 1] # "nl"
    <2>1. \A n \in 1..len : text[p + n] # "nl"
      <3>1. CASE next.match = t_quoted_string
        BY <1>1, <3>1, NoNewlineIn
      <3>2. CASE next.match # t_quoted_string
        <4>1. len = 1 \/ \A n \in 1..len : text[p + n] # "nl"
          BY <3>2 DEF Lexed
        <4> HIDE DEF len
        <4>2. len = 1 => \A n \in 1..len : n = 1
          OBVIOUS
        <4>3. len = 1 => \A n \in 1..len : text[p + n] # "nl"
          <5> SUFFICES ASSUME len = 1, NEW n \in 1..len PROVE text[p + n] # "nl"
            OBVIOUS
          <5>1. p + n = p + 1
            BY <4>2
          <5> QED BY <1>3, <5>1
        <4> QED BY ONLY <4>1, <4>3
      <3> QED BY <3>1, <3>2
    <2> HIDE DEF len
    <2>2. AtPlace(text, p + len, line, column + len)
      BY <1>1, <2>1, SameLine
    <2> QED BY <1>3, <2>2 DEF len
  <1> QED BY <1>2, <1>3

LEMMA CleanSame ==
    ASSUME NEW text, NEW ts, NEW us, NEW n, \A j \in 1..n : SameToken(us[j], ts[j])
    PROVE  Clean(text, us, n) <=> Clean(text, ts, n)
  BY DEF Clean, SameToken, Quoted, TokenText

LEMMA ConsumeMoves ==
    ASSUME NEW ctx \in Context, NEW text, NEW next, next.match \in Match, next.len \in Nat \ {0},
           MatchingBracket(ctx, next.match) \in 0..Len(ctx.tokens)
    PROVE  /\ Consume(ctx, text, next) \in Context
           /\ Consume(ctx, text, next).index = ctx.index + next.len
  <1> DEFINE left == MatchingBracket(ctx, next.match)
             r == Consume(ctx, text, next)
             N == Len(ctx.tokens)
  <1>1. left \in 0..N
    OBVIOUS
  <1>2. left = MatchingBracket(ctx, next.match) /\ r = Consume(ctx, text, next) /\ N = Len(ctx.tokens)
    OBVIOUS
  <1> HIDE DEF left, r, N
  <1>3. left \in 0..Len(ctx.tokens)
    BY <1>1, <1>2
  <1>4. r.index = ctx.index + next.len
    BY <1>2 DEF Consume
  <1>5. r \in Context
    BY <1>2, <1>3, ConsumeDoes, Zenon
  <1> QED BY <1>2, <1>4, <1>5

LEMMA TiledKept ==
    ASSUME NEW A, NEW text \in Seq(A), NEW ctx \in Context, Nested(ctx), Tiled(text, ctx),
           ctx.index < Len(text)
    PROVE  Tiled(text, Consume(ctx, text, ConsumeNext(text, ctx.index)))
  <1> DEFINE p == ctx.index
             ts == ctx.tokens
             N == Len(ts)
             next == ConsumeNext(text, p)
             left == MatchingBracket(ctx, next.match)
             r == Consume(ctx, text, next)
             us == r.tokens
             L == Len(text)
  <1>1. p \in Nat /\ L \in Nat /\ N \in Nat /\ p \in 0..L - 1
    <2>1. ctx.index \in Nat /\ ctx.tokens \in Seq(Token)
      BY DEF Context
    <2> QED BY <2>1, LenProperties
  <1>2. Lexed(text, p, next)
    BY <1>1, ConsumeNextLexed
  <1> HIDE DEF next
  <1>3. next.match \in Match /\ next.len \in Nat \ {0}
    BY <1>2 DEF Lexed
  <1>4. left \in 0..N
    BY <1>1, LeftIsToken DEF Unpaired
  <1>5. /\ Len(us) = N + 1 /\ r.index = p + next.len
        /\ r.line = IF text[p + 1] = "nl" THEN ctx.line + 1 ELSE ctx.line
        /\ r.column = IF text[p + 1] = "nl" THEN 1 ELSE ctx.column + next.len
        /\ \A j \in 1..N : SameToken(us[j], ts[j])
        /\ us[N + 1] = [match |-> next.match, start |-> p, end |-> p + next.len,
                        line |-> ctx.line, column |-> ctx.column, pairs |-> left]
    <2> HIDE DEF left, r
    <2> QED BY <1>3, <1>4, ConsumeDoes DEF left, r
  <1> DEFINE last == us[N + 1]
  <1>6. /\ last.match = next.match /\ last.start = p /\ last.end = p + next.len
        /\ last.line = ctx.line /\ last.column = ctx.column
    BY <1>5
  <1>7. /\ \A i \in 1..N : Placed(text, ts, i)
        /\ p = (IF N = 0 THEN 0 ELSE ts[N].end)
        /\ Clean(text, ts, N) => AtPlace(text, p, ctx.line, ctx.column)
    BY <1>1 DEF Tiled
  <1> HIDE DEF left, r, us, ts, N, last, L
  <1>8. \A n \in 0..N : Clean(text, us, n) <=> Clean(text, ts, n)
    <2> TAKE n \in 0..N
    <2>1. \A j \in 1..n : SameToken(us[j], ts[j])
      BY <1>1, <1>5
    <2> QED BY <2>1, CleanSame
  <1>9. ASSUME NEW i \in 1..N PROVE Placed(text, us, i)
    <2>1. /\ ts[i].start = (IF i = 1 THEN 0 ELSE ts[i - 1].end)
          /\ ts[i].start < ts[i].end /\ ts[i].start < Len(text)
          /\ Clean(text, ts, i - 1) => AtPlace(text, ts[i].start, ts[i].line, ts[i].column)
      BY <1>7 DEF Placed
    <2>2. us[i].start = ts[i].start /\ us[i].end = ts[i].end /\ us[i].line = ts[i].line /\ us[i].column = ts[i].column
      BY <1>5 DEF SameToken
    <2>3. i # 1 => us[i - 1].end = ts[i - 1].end
      <3> SUFFICES ASSUME i # 1 PROVE us[i - 1].end = ts[i - 1].end
        OBVIOUS
      <3>1. i - 1 \in 1..N
        BY <1>1
      <3> QED BY <1>5, <3>1 DEF SameToken
    <2>4. Clean(text, us, i - 1) <=> Clean(text, ts, i - 1)
      <3>1. i - 1 \in 0..N
        BY <1>1
      <3> QED BY <1>8, <3>1
    <2> QED BY <2>1, <2>2, <2>3, <2>4 DEF Placed
  <1>10. Clean(text, us, N) => AtPlace(text, p, ctx.line, ctx.column)
    <2>1. N \in 0..N
      BY <1>1
    <2> QED BY <1>7, <1>8, <2>1
  <1>11. Placed(text, us, N + 1)
    <2>1. p = (IF N + 1 = 1 THEN 0 ELSE us[N + 1 - 1].end)
      <3>1. CASE N = 0
        BY <1>7, <3>1
      <3>2. CASE N # 0
        <4>1. N \in 1..N /\ N + 1 - 1 = N /\ N + 1 # 1
          BY <1>1, <3>2
        <4>2. us[N].end = ts[N].end
          BY <1>5, <4>1 DEF SameToken
        <4> QED BY <1>7, <3>2, <4>1, <4>2
      <3> QED BY <3>1, <3>2
    <2>2. N + 1 - 1 = N
      BY <1>1
    <2>3. p < p + next.len
      BY <1>1, <1>3
    <2> QED BY <1>1, <1>6, <1>10, <2>1, <2>2, <2>3 DEF Placed, last, L
  <1>12. \/ r.index <= L
         \/ r.index = L + 1 /\ Quoted(us[N + 1]) /\ text[L] = "escape"
    <2>1. p + next.len <= L \/ (p + next.len = L + 1 /\ text[L] = "escape" /\ next.match = t_quoted_string)
      BY <1>2 DEF Lexed, L
    <2> QED BY <1>5, <1>6, <2>1 DEF Quoted, last
  <1>13. ASSUME r.index <= L, Clean(text, us, N + 1) PROVE AtPlace(text, r.index, r.line, r.column)
    <2>1. Clean(text, us, N)
      <3>1. \A j \in 1..N : j \in 1..N + 1
        BY <1>1
      <3> QED BY <1>13, <3>1 DEF Clean
    <2>2. AtPlace(text, p, ctx.line, ctx.column)
      BY <1>10, <2>1
    <2>3. p + next.len <= L
      BY <1>5, <1>13
    <2>4. next.match = t_quoted_string => "nl" \notin ToSet(SubSeq(text, p + 1, p + next.len))
      <3> SUFFICES ASSUME next.match = t_quoted_string
                   PROVE  "nl" \notin ToSet(SubSeq(text, p + 1, p + next.len))
        OBVIOUS
      <3>1. Quoted(last)
        BY <1>6 DEF Quoted
      <3>2. N + 1 \in 1..N + 1
        BY <1>1
      <3>3. "nl" \notin ToSet(TokenText(text, last))
        BY <1>13, <3>1, <3>2 DEF Clean, last
      <3>4. TokenText(text, last) = SubSeq(text, p + 1, IF p + next.len < L THEN p + next.len ELSE L)
        BY <1>6 DEF TokenText, Slice, L
      <3>5. (IF p + next.len < L THEN p + next.len ELSE L) = p + next.len
        BY <1>1, <1>3, <2>3
      <3> QED BY <3>3, <3>4, <3>5
    <2>5. AtPlace(text, p + next.len, IF text[p + 1] = "nl" THEN ctx.line + 1 ELSE ctx.line,
                  IF text[p + 1] = "nl" THEN 1 ELSE ctx.column + next.len)
      <3>1. p \in 0..Len(text) - 1 /\ p + next.len <= Len(text)
        BY <1>1, <2>3 DEF L
      <3> HIDE DEF p
      <3> QED BY <1>2, <2>2, <2>4, <3>1, PlaceAfter
    <2> QED BY <1>5, <2>5
  <1>14. r.index = us[N + 1].end /\ N + 1 # 0
    BY <1>1, <1>5, <1>6 DEF last
  <1>15. \A i \in 1..N + 1 : Placed(text, us, i)
    <2> TAKE i \in 1..N + 1
    <2>1. i = N + 1 \/ i \in 1..N
      BY <1>1
    <2> QED BY <1>9, <1>11, <2>1
  <1>16. Len(r.tokens) = N + 1
    BY <1>5 DEF us
  <1>17. Tiled(text, r)
    BY <1>12, <1>13, <1>14, <1>15, <1>16 DEF Tiled, us, L
  <1> QED BY <1>17 DEF r, next

-----------------------------------------------------------------------------
\* tokenizeString()

Going(text) == {ctx \in Context : Nested(ctx) /\ Tiled(text, ctx)}

LEMMA StartGoes == ASSUME NEW A, NEW text \in Seq(A) PROVE Start \in Going(text)
  <1>1. Start \in Context
    <2>1. <<>> \in Seq(Token) /\ <<>> \in Seq(Nat)
      OBVIOUS
    <2> QED BY <2>1 DEF Start, Context
  <1>2. Len(Start.tokens) = 0 /\ Len(Start.brackets) = 0 /\ Start.index = 0 /\ Start.line = 1 /\ Start.column = 1
    BY DEF Start
  <1>3. Nested(Start)
    <2>1. \A i \in 1..0 : FALSE
      OBVIOUS
    <2> QED BY <1>2, <2>1 DEF Nested, Stacked
  <1>4. AtPlace(text, 0, 1, 1)
    <2>1. Newlines(text, 0) = {} /\ Cardinality({}) = 0
      BY FS_EmptySet DEF Newlines
    <2>2. Max(Newlines(text, 0) \cup {0}) \in 0..0
      BY NewlinesFinite
    <2>3. Max(Newlines(text, 0) \cup {0}) = 0
      BY <2>2
    <2>4. Cardinality(Newlines(text, 0)) = 0
      BY <2>1
    <2>5. 1 = Cardinality(Newlines(text, 0)) + 1 /\ 1 = 0 + 1 - Max(Newlines(text, 0) \cup {0})
      BY <2>3, <2>4
    <2> QED BY <2>5 DEF AtPlace
  <1>5. Tiled(text, Start)
    <2>1. \A i \in 1..0 : FALSE
      OBVIOUS
    <2>2. Len(text) \in Nat
      BY LenProperties
    <2> QED BY <1>2, <1>4, <2>1, <2>2 DEF Tiled
  <1> QED BY <1>1, <1>3, <1>5 DEF Going

\* A pass of the loop keeps what was said of a context, and moves on.
LEMMA TokenizeNextGoes ==
    ASSUME NEW A, NEW text \in Seq(A), NEW ctx \in Going(text)
    PROVE  LET r == TokenizeNext(ctx, text)
           IN  r \in Going(text) /\ (r.index > ctx.index \/ r.index >= Len(text))
  <1> DEFINE r == TokenizeNext(ctx, text)
             next == ConsumeNext(text, ctx.index)
             left == MatchingBracket(ctx, next.match)
  <1>1. ctx \in Context /\ Nested(ctx) /\ Tiled(text, ctx) /\ Len(text) \in Nat /\ ctx.index \in Nat
    BY LenProperties DEF Going, Context
  <1>2. CASE ctx.index >= Len(text)
    BY <1>2 DEF TokenizeNext
  <1>3. CASE ~(ctx.index >= Len(text))
    <2>1. r = Consume(ctx, text, next)
      BY <1>3 DEF TokenizeNext
    <2>2. ctx.index < Len(text) /\ ctx.index \in 0..Len(text) - 1
      BY <1>1, <1>3
    <2>3. next.match \in Match /\ next.len \in Nat \ {0}
      BY <2>2, ConsumeNextLexed DEF Lexed
    <2>4. left \in 0..Len(ctx.tokens)
      <3>1. Len(ctx.tokens) \in Nat
        BY <1>1, LenProperties DEF Context
      <3> HIDE DEF next
      <3> QED BY <1>1, <3>1, LeftIsToken DEF Unpaired
    <2>5. Tiled(text, r)
      BY <1>1, <2>1, <2>2, TiledKept
    <2> HIDE DEF next, r, left
    <2>6. Nested(r)
      BY <1>1, <2>1, <2>3, NestedKept
    <2>7. r \in Context /\ r.index = ctx.index + next.len
      <3>1. ctx \in Context /\ MatchingBracket(ctx, next.match) \in 0..Len(ctx.tokens)
        BY <1>1, <2>4 DEF left
      <3> QED BY <2>1, <2>3, <3>1, ConsumeMoves
    <2>8. r \in Going(text) /\ r.index > ctx.index
      BY <1>1, <2>3, <2>5, <2>6, <2>7 DEF Going
    <2> QED BY <2>8 DEF r
  <1> QED BY <1>2, <1>3

LEMMA TokenizeGoes ==
    ASSUME NEW A, NEW text \in Seq(A)
    PROVE  \E ctx \in Going(text) : ctx.index >= Len(text) /\ Tokenize(text) = ctx.tokens
  <1> DEFINE N == Len(text)
             S == Going(text)
             step == [p \in (1..N) \X S |-> TokenizeNext(p[2], text)]
             Body(n, x) == IF n = 0 THEN Start ELSE TokenizeNext(x, text)
             after == CHOOSE g : g = [n \in 0..N |-> Body(n, g[n - 1])]
  <1>1. N \in Nat
    BY LenProperties
  <1>2. \A x \in S : /\ TokenizeNext(x, text) \in S
                     /\ TokenizeNext(x, text).index > x.index \/ TokenizeNext(x, text).index >= N
    BY TokenizeNextGoes
  <1>3. Start \in S
    BY StartGoes
  <1>3a. \A x \in S : x.index \in Nat
    BY DEF Going, Context
  <1> HIDE DEF S
  <1>4. /\ step \in [(1..N) \X S -> S]
        /\ \A n \in 1..N, x \in S : step[<<n, x>>] = TokenizeNext(x, text)
    <2> HIDE DEF N
    <2> QED BY <1>2
  <1>5. PICK f \in [0..N -> S] : Iterates(f, N, Start, step)
    <2> HIDE DEF N, step
    <2> QED BY <1>1, <1>3, <1>4, IterationExists
  <1> HIDE DEF step
  <1>6. \A n \in 0..N : f[n] = Body(n, f[n - 1])
    <2> TAKE n \in 0..N
    <2>1. CASE n = 0
      BY <2>1, <1>5 DEF Iterates
    <2>2. CASE n # 0
      <3>1. n \in 1..N /\ n - 1 \in 0..N
        BY <2>2, <1>1
      <3>2. f[n - 1] \in S
        BY <3>1, <1>5
      <3> HIDE DEF N
      <3>3. f[n] = step[<<n, f[n - 1]>>]
        BY <3>1, <1>5 DEF Iterates
      <3> QED BY <3>1, <3>2, <3>3, <1>4, <2>2
    <2> QED BY <2>1, <2>2
  <1>7. f = [n \in 0..N |-> Body(n, f[n - 1])]
    <2> HIDE DEF Body, N
    <2> QED BY <1>5, <1>6
  <1>8. after = [n \in 0..N |-> Body(n, after[n - 1])]
    <2> HIDE DEF Body, N
    <2> QED BY <1>7
  <1>9. Tokenize(text) = after[N].tokens
    BY DEF Tokenize
  <1> HIDE DEF after, N
  <1>10. after[0] = Start /\ \A n \in 1..N : after[n] = TokenizeNext(after[n - 1], text)
    <2>1. after[0] = Start
      BY <1>8, <1>1
    <2>2. ASSUME NEW n \in 1..N PROVE after[n] = TokenizeNext(after[n - 1], text)
      <3>1. n \in 0..N /\ n # 0
        BY <1>1
      <3>2. after[n] = Body(n, after[n - 1])
        <4> HIDE DEF Body
        <4> QED BY <1>8, <3>1
      <3> QED BY <3>1, <3>2
    <2> QED BY <2>1, <2>2
  <1> HIDE DEF Body
  <1>11. \A n \in 0..N : after[n] \in S
    <2>1. after[0] \in S /\ \A n \in 1..N : after[n - 1] \in S => after[n] \in S
      BY <1>2, <1>3, <1>10
    <2> QED BY <1>1, <2>1, StaysIn
  <1> DEFINE far == [n \in 0..N |-> IF after[n].index >= n \/ after[n].index >= N THEN "far" ELSE "near"]
  <1>12. far[0] \in {"far"} /\ \A n \in 1..N : far[n - 1] \in {"far"} => far[n] \in {"far"}
    <2>1. 0 \in 0..N /\ after[0].index \in Nat
      BY <1>1, <1>3a, <1>11
    <2>2. ASSUME NEW n \in 1..N, far[n - 1] = "far" PROVE far[n] = "far"
      <3>1. n \in 0..N /\ n - 1 \in 0..N
        BY <1>1
      <3>2. after[n - 1].index >= n - 1 \/ after[n - 1].index >= N
        BY <2>2, <3>1
      <3>3. after[n].index > after[n - 1].index \/ after[n].index >= N
        BY <1>2, <1>10, <1>11, <3>1
      <3>4. after[n].index \in Nat /\ after[n - 1].index \in Nat
        BY <1>3a, <1>11, <3>1
      <3>5. after[n].index >= n \/ after[n].index >= N
        BY <1>1, <3>1, <3>2, <3>3, <3>4
      <3> QED BY <3>1, <3>5
    <2>3. far[0] = "far"
      <3>1. after[0].index >= 0
        BY <2>1
      <3> QED BY <2>1, <3>1
    <2> HIDE DEF far
    <2> QED BY <2>2, <2>3
  <1>13. \A n \in 0..N : far[n] \in {"far"}
    <2> DEFINE F == {"far"}
    <2>1. far[0] \in F /\ \A n \in 1..N : far[n - 1] \in F => far[n] \in F
      BY <1>12
    <2> HIDE DEF far, F
    <2>2. \A n \in 0..N : far[n] \in F
      BY <1>1, <2>1, StaysIn
    <2> QED BY <2>2 DEF F
  <1>14. after[N].index >= N
    <2>1. N \in 0..N
      BY <1>1
    <2> QED BY <1>13, <2>1
  <1>15. after[N] \in S
    BY <1>1, <1>11
  <1> QED BY <1>9, <1>14, <1>15 DEF S, N

-----------------------------------------------------------------------------
\* Texts

Char == UNION {UNION {ToSet(piece) : piece \in set} : set \in Alphabets}

TextIInv ==
    /\ alphabet \in Alphabets /\ pieces \in 0..MaxPieces
    /\ src.text \in Seq(Char) /\ src = Lex(src.text)

LEMMA LexText == \A text : Lex(text).text = text /\ Lex(text).tokens = Tokenize(text)
  BY DEF Lex

LEMMA TextInitial == TextInit => TextIInv
  <1> SUFFICES ASSUME TextInit PROVE TextIInv
    OBVIOUS
  <1>1. src = Lex(<<>>) /\ src.text = <<>> /\ <<>> \in Seq(Char)
    BY LexText DEF TextInit
  <1>2. src.text \in Seq(Char) /\ src = Lex(src.text)
    BY <1>1
  <1>3. alphabet \in Alphabets /\ pieces \in 0..MaxPieces
    <2>1. MaxPieces \in Nat
      BY PiecesAssumption
    <2> QED BY <2>1 DEF TextInit
  <1> QED BY <1>2, <1>3 DEF TextIInv

LEMMA TextStep == TextIInv /\ [TextNext]_textVars => TextIInv'
  <1> SUFFICES ASSUME TextIInv, [TextNext]_textVars PROVE TextIInv'
    OBVIOUS
  <1>1. ASSUME NEW piece \in alphabet, Write(piece) PROVE TextIInv'
    <2>1. piece \in Seq(Char)
      <3>1. piece \in Seq(ToSet(piece)) /\ ToSet(piece) \subseteq Char
        BY PiecesAssumption DEF TextIInv, Char
      <3> QED BY <3>1
    <2> DEFINE text == src.text \o piece
    <2>2. text \in Seq(Char)
      BY <2>1 DEF TextIInv
    <2>3. src' = Lex(text) /\ src'.text = text
      BY <1>1, LexText DEF Write
    <2>4. src'.text \in Seq(Char) /\ src' = Lex(src'.text)
      BY <2>2, <2>3
    <2>5. alphabet' = alphabet /\ pieces' \in 0..MaxPieces
      BY <1>1, PiecesAssumption DEF Write, TextIInv
    <2> QED BY <2>4, <2>5 DEF TextIInv
  <1>2. ASSUME UNCHANGED textVars PROVE TextIInv'
    BY <1>2 DEF TextIInv, textVars
  <1> QED BY <1>1, <1>2 DEF TextNext

LEMMA TokensSoFar ==
    ASSUME TextIInv
    PROVE  \E ctx \in Going(src.text) : ctx.index >= Len(src.text) /\ tokens = ctx.tokens
  <1>1. tokens = Tokenize(src.text) /\ src.text \in Seq(Char)
    BY LexText DEF TextIInv, tokens
  <1> QED BY <1>1, TokenizeGoes

LEMMA TokensDomain == ASSUME NEW ctx \in Context PROVE DOMAIN ctx.tokens = 1..Len(ctx.tokens) /\ Len(ctx.tokens) \in Nat
  <1>1. ctx.tokens \in Seq(Token)
    BY DEF Context
  <1> QED BY <1>1, LenProperties

LEMMA PairsNow == TextIInv => BracketsPair
  <1> SUFFICES ASSUME TextIInv, NEW i \in DOMAIN tokens, tokens[i].pairs # Unpaired
               PROVE  LET j == tokens[i].pairs
                      IN  /\ tokens[j].pairs = i
                          /\ i < j => /\ Left(tokens[i].match) /\ tokens[j].match = <<Closing[tokens[i].match[1]]>>
                                      /\ \A k \in i + 1..j - 1 :
                                            Left(tokens[k].match) => tokens[k].pairs \in k + 1..j - 1
    BY DEF BracketsPair
  <1>1. PICK ctx \in Going(src.text) : tokens = ctx.tokens
    BY TokensSoFar
  <1>2. ctx \in Context /\ Nested(ctx)
    BY DEF Going
  <1>3. i \in 1..Len(tokens)
    BY <1>1, <1>2, TokensDomain
  <1>4. WellPaired(tokens, i)
    BY <1>1, <1>2, <1>3 DEF Nested
  <1> QED BY <1>4 DEF WellPaired

LEMMA TilesNow == TextIInv => TokensTile
  <1> SUFFICES ASSUME TextIInv PROVE TokensTile
    OBVIOUS
  <1> DEFINE text == src.text
             N == Len(tokens)
             L == Len(text)
  <1>1. PICK ctx \in Going(text) : ctx.index >= L /\ tokens = ctx.tokens
    BY TokensSoFar
  <1>2. ctx \in Context /\ Tiled(text, ctx)
    BY DEF Going
  <1>3. /\ DOMAIN tokens = 1..N /\ N \in Nat /\ L \in Nat /\ ctx.index \in Nat /\ text \in Seq(Char)
        /\ (text = <<>> <=> L = 0)
    <2>1. text \in Seq(Char) /\ ctx.index \in Nat
      BY <1>2 DEF TextIInv, Context
    <2> QED BY <1>1, <1>2, <2>1, TokensDomain, LenProperties, EmptySeq
  <1>4. /\ \A i \in 1..N : Placed(text, tokens, i)
        /\ ctx.index = (IF N = 0 THEN 0 ELSE tokens[N].end)
        /\ \/ ctx.index <= L
           \/ N # 0 /\ ctx.index = L + 1 /\ Quoted(tokens[N]) /\ text[L] = "escape"
    BY <1>1, <1>2 DEF Tiled
  <1>5. ASSUME NEW i \in DOMAIN tokens
        PROVE  /\ tokens[i].start = (IF i = 1 THEN 0 ELSE tokens[i - 1].end)
               /\ tokens[i].start < tokens[i].end
               /\ (\A j \in 1..i - 1 : Quoted(tokens[j]) => "nl" \notin ToSet(TokenText(text, tokens[j])))
                  => AtPlace(text, tokens[i].start, tokens[i].line, tokens[i].column)
    BY <1>3, <1>4, <1>5 DEF Placed, Clean
  <1>6. ASSUME text # <<>>
        PROVE  \/ tokens[N].end = L
               \/ tokens[N].end = L + 1 /\ Quoted(tokens[N]) /\ Last(text) = "escape"
    <2>1. ctx.index # 0 /\ ctx.index >= L
      BY <1>1, <1>3, <1>6
    <2>2. tokens[N].end = ctx.index
      BY <1>4, <2>1
    <2>3. Last(text) = text[L]
      BY DEF Last
    <2> QED BY <1>3, <1>4, <2>1, <2>2, <2>3
  <1>7. \A p : NewlinesBefore(p) = Newlines(text, p)
    BY DEF NewlinesBefore, Newlines
  <1> HIDE DEF text, N, L
  <1> QED BY <1>5, <1>6, <1>7 DEF TokensTile, AtPlace, text, N, L

\* The tokens of a text cover it from its first character to its last, in
\* order, and each is where its line and column say.
THEOREM TokensCoverText == TextSpec => []TokensTile
  <1>1. TextSpec => []TextIInv
    BY TextInitial, TextStep, PTL DEF TextSpec
  <1>2. TextIInv => TokensTile
    BY TilesNow
  <1> QED BY <1>1, <1>2, PTL

\* The tokenizer's pairs are of two brackets of a kind, both ways, and they nest.
THEOREM BracketsMatch == TextSpec => []BracketsPair
  <1>1. TextSpec => []TextIInv
    BY TextInitial, TextStep, PTL DEF TextSpec
  <1>2. TextIInv => BracketsPair
    BY PairsNow
  <1> QED BY <1>1, <1>2, PTL
=============================================================================
