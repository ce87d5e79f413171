----------------------- MODULE ConnectorServerProofs ------------------------
(***************************************************************************)
(* The two tasks of the connector never wait for each other, and answer    *)
(* the requests in the order of their arrival, for every capacity of the   *)
(* channels.                                                               *)
(***************************************************************************)
EXTENDS ConnectorServer, SequenceTheorems, TLAPS

------------------------------------------------------------------------------
(* The inductive invariant.                                                *)

\* The numbers after m, in order.
Run(s, m) == \A k \in 1 .. Len(s) : s[k] = m + k

\* The requests among the outputs of the controller; a dump comes first.
Coming(e) == IF e # <<>> /\ Head(e) = Dump THEN Tail(e) ELSE e

Busy == IF task.step = "idle" THEN 0 ELSE 1

\* No more dumps wait than were asked for.
DumpsOK ==
  /\ dumps \in [total : Nat, asked : Nat, sent : BOOLEAN, waiting : Nat]
  /\ dumps.asked + dumps.waiting <= dumps.total /\ dumps.total <= MaxDumps

\* The types of the variables.
Types ==
  /\ main \in {"process", "controls", "dumps", "events"}
  /\ events \in Seq(Nat) /\ storageQ \in Seq(Nat) /\ controlQ \in Seq(Nat)
  /\ answered \in Seq(Nat) /\ requests \in Nat
  /\ task \in [req : Nat, step : {"idle", "storage", "send"}]
  /\ task.step = "idle" => task = Idle
  /\ DumpsOK

\* A request is at one place only: answered, in the channel back, at the storage,
\* in the channel to it or still to come, and these follow each other.
Order ==
  LET a == Len(answered)
      c == a + Len(controlQ)
      b == c + Busy
      s == b + Len(storageQ)
  IN /\ Run(answered, 0) /\ Run(controlQ, a) /\ (Busy = 1 => task.req = c + 1)
     /\ Run(storageQ, b) /\ Run(Coming(events), s)
     /\ Coming(events) \in Seq(Nat) /\ requests = s + Len(Coming(events))

\* What the storage, the two channels and the loop hold between two turns: the
\* loop has emptied the channel back before it fills the channel to the storage.
Room ==
  /\ Len(storageQ) <= Capacity /\ Len(controlQ) <= Capacity
  /\ main = "process" => events = <<>>
  /\ main = "controls" => Len(Coming(events)) <= Batch
  /\ main \in {"dumps", "events"} =>
       Len(storageQ) + Busy + Len(controlQ) + Len(Coming(events)) <= Capacity + 1 + Batch

IInv == Types /\ Order /\ Room

------------------------------------------------------------------------------
(* Numbers in order.                                                       *)

\* One more at the end.
LEMMA RunAppend ==
  ASSUME NEW s \in Seq(Nat), NEW m \in Nat, Run(s, m)
  PROVE  /\ Append(s, m + Len(s) + 1) \in Seq(Nat)
         /\ Run(Append(s, m + Len(s) + 1), m) /\ Len(Append(s, m + Len(s) + 1)) = Len(s) + 1
<1> DEFINE x == m + Len(s) + 1
           t == Append(s, x)
<1>1. Len(s) \in Nat /\ x \in Nat
  BY LenProperties
<1>2. /\ t \in Seq(Nat) /\ Len(t) = Len(s) + 1
      /\ \A k \in 1 .. Len(s) : t[k] = s[k]
      /\ t[Len(s) + 1] = x
  <2> HIDE DEF x
  <2> QED BY <1>1, AppendProperties
<1> HIDE DEF t
<1>3. Run(t, m)
  <2> SUFFICES ASSUME NEW k \in 1 .. Len(s) + 1 PROVE t[k] = m + k
    BY <1>2 DEF Run
  <2>1. CASE k = Len(s) + 1
    BY <1>1, <1>2, <2>1
  <2>2. CASE k \in 1 .. Len(s)
    BY <1>2, <2>2 DEF Run
  <2> QED BY <1>1, <2>1, <2>2
<1>4. QED
  BY <1>2, <1>3 DEF t

\* One less at the front.
LEMMA RunTail ==
  ASSUME NEW s \in Seq(Nat), NEW m \in Nat, Run(s, m), s # <<>>
  PROVE  /\ Tail(s) \in Seq(Nat) /\ Head(s) = m + 1
         /\ Run(Tail(s), m + 1) /\ Len(Tail(s)) = Len(s) - 1 /\ Len(s) > 0
<1> DEFINE t == Tail(s)
<1>1. /\ t \in Seq(Nat) /\ Len(t) = Len(s) - 1
      /\ \A k \in 1 .. Len(t) : t[k] = s[k + 1]
  BY HeadTailProperties
<1>2. Len(s) \in Nat \ {0} /\ Head(s) = s[1]
  BY LenProperties, EmptySeq
<1> HIDE DEF t
<1>3. Run(t, m + 1)
  <2> SUFFICES ASSUME NEW k \in 1 .. Len(t) PROVE t[k] = (m + 1) + k
    BY DEF Run
  <2>1. k + 1 \in 1 .. Len(s) /\ k \in Nat
    BY <1>1, <1>2
  <2>2. s[k + 1] = m + (k + 1)
    BY <2>1 DEF Run
  <2> QED BY <1>1, <2>1, <2>2
<1>4. s[1] = m + 1
  BY <1>2 DEF Run
<1>5. QED
  BY <1>1, <1>2, <1>3, <1>4 DEF t

\* One list after the other.
LEMMA RunConcat ==
  ASSUME NEW s \in Seq(Nat), NEW t \in Seq(Nat), NEW m \in Nat, Run(s, m), Run(t, m + Len(s))
  PROVE  s \o t \in Seq(Nat) /\ Run(s \o t, m) /\ Len(s \o t) = Len(s) + Len(t)
<1> DEFINE u == s \o t
<1>1. Len(s) \in Nat /\ Len(t) \in Nat
  BY LenProperties
<1>2. /\ u \in Seq(Nat) /\ Len(u) = Len(s) + Len(t)
      /\ \A k \in 1 .. Len(s) + Len(t) : u[k] = IF k <= Len(s) THEN s[k] ELSE t[k - Len(s)]
  BY ConcatProperties
<1> HIDE DEF u
<1>3. Run(u, m)
  <2> SUFFICES ASSUME NEW k \in 1 .. Len(s) + Len(t) PROVE u[k] = m + k
    BY <1>2 DEF Run
  <2>1. CASE k <= Len(s)
    <3>1. k \in 1 .. Len(s)
      BY <1>1, <2>1
    <3> QED BY <1>2, <2>1, <3>1 DEF Run
  <2>2. CASE ~(k <= Len(s))
    <3>1. k - Len(s) \in 1 .. Len(t) /\ (m + Len(s)) + (k - Len(s)) = m + k
      BY <1>1, <2>2
    <3>2. t[k - Len(s)] = (m + Len(s)) + (k - Len(s))
      BY <3>1 DEF Run
    <3> QED BY <1>2, <2>2, <3>1, <3>2
  <2> QED BY <2>1, <2>2
<1>4. QED
  BY <1>2, <1>3 DEF u

\* Requests are numbered from 1, so no dump is among them.
LEMMA ComingIs ==
  ASSUME NEW s \in Seq(Nat), NEW m \in Nat, Run(s, m)
  PROVE  Coming(s) = s /\ Coming(<<Dump>> \o s) = s /\ <<Dump>> \o s \in Seq(Nat)
<1>1. Coming(s) = s
  <2>1. s # <<>> => Head(s) = m + 1
    BY RunTail
  <2> QED BY <2>1 DEF Coming, Dump
<1>2. <<0>> \o s # <<>> /\ Head(<<0>> \o s) = 0 /\ Tail(<<0>> \o s) = s /\ <<0>> \o s \in Seq(Nat)
  OBVIOUS
<1>3. Coming(<<Dump>> \o s) = s
  BY <1>2 DEF Coming, Dump
<1>4. QED
  BY <1>1, <1>2, <1>3 DEF Dump

------------------------------------------------------------------------------
(* The steps.                                                              *)

\* Lengths are numbers.
LEMMA Sizes ==
  ASSUME IInv
  PROVE  /\ Len(answered) \in Nat /\ Len(controlQ) \in Nat /\ Len(storageQ) \in Nat
         /\ Len(Coming(events)) \in Nat /\ Busy \in {0, 1}
BY LenProperties DEF IInv, Types, Order, Busy

\* Every dump that is asked for is counted.
LEMMA DumpsStay ==
  ASSUME DumpsOK, Process \/ PopDumps \/ PopDump \/ AskDump \/ UNCHANGED dumps
  PROVE  DumpsOK'
<1> USE SizesAssumption
<1>1. /\ dumps.total \in Nat /\ dumps.asked \in Nat /\ dumps.waiting \in Nat /\ dumps.sent \in BOOLEAN
      /\ dumps = [total |-> dumps.total, asked |-> dumps.asked, sent |-> dumps.sent, waiting |-> dumps.waiting]
      /\ dumps.asked + dumps.waiting <= dumps.total /\ dumps.total <= MaxDumps
  BY DEF DumpsOK
<1>2. CASE Process
  <2>1. dumps' = [dumps EXCEPT !.sent = FALSE]
    BY <1>2 DEF Process
  <2>2. dumps' \in [total : Nat, asked : Nat, sent : BOOLEAN, waiting : Nat]
    BY <2>1, Zenon DEF DumpsOK
  <2>3. dumps'.total = dumps.total /\ dumps'.asked = dumps.asked /\ dumps'.waiting = dumps.waiting
    BY <1>1, <2>1
  <2> QED BY <1>1, <2>2, <2>3 DEF DumpsOK
<1>3. CASE PopDumps
  <2>1. PICK x \in BOOLEAN : dumps' = [dumps EXCEPT !.asked = 0, !.waiting = @ + dumps.asked, !.sent = x]
    <3>1. (dumps.sent \/ dumps.asked > 0) \in BOOLEAN
      OBVIOUS
    <3> QED BY <1>3, <3>1, Zenon DEF PopDumps
  <2>2. dumps.waiting + dumps.asked \in Nat /\ 0 \in Nat
    BY <1>1
  <2>3. dumps' = [total |-> dumps.total, asked |-> 0, sent |-> x, waiting |-> dumps.waiting + dumps.asked]
    BY <1>1, <2>1
  <2> QED BY <1>1, <2>2, <2>3 DEF DumpsOK
<1>4. CASE PopDump
  <2>1. dumps' = [dumps EXCEPT !.waiting = 0]
    BY <1>4 DEF PopDump
  <2>2. dumps' = [total |-> dumps.total, asked |-> dumps.asked, sent |-> dumps.sent, waiting |-> 0]
    BY <1>1, <2>1
  <2> QED BY <1>1, <2>2 DEF DumpsOK
<1>5. CASE AskDump
  <2>1. dumps' = [dumps EXCEPT !.total = @ + 1, !.asked = @ + 1] /\ dumps.total < MaxDumps
    BY <1>5 DEF AskDump
  <2>2. dumps' = [total |-> dumps.total + 1, asked |-> dumps.asked + 1, sent |-> dumps.sent, waiting |-> dumps.waiting]
    BY <1>1, <2>1
  <2> QED BY <1>1, <2>1, <2>2 DEF DumpsOK
<1>6. CASE UNCHANGED dumps
  BY <1>6 DEF DumpsOK
<1> QED BY <1>2, <1>3, <1>4, <1>5, <1>6

\* Requests that get ready have the next numbers.
LEMMA ProcessStep == IInv /\ Process => IInv'
<1> SUFFICES ASSUME IInv, Process PROVE IInv'
  OBVIOUS
<1> USE SizesAssumption
<1>1. PICK n \in 0 .. Batch :
        /\ requests' = requests + n
        /\ events' = (IF dumps.sent THEN <<Dump>> ELSE <<>>) \o [k \in 1 .. n |-> requests + k]
  BY DEF Process
<1> DEFINE t == [k \in 1 .. n |-> requests + k]
<1>2. requests \in Nat /\ n \in Nat
  BY DEF IInv, Types
<1>3. t \in Seq(Nat) /\ Len(t) = n
  BY <1>2
<1>4. Run(t, requests)
  BY <1>3 DEF Run
<1>5. events' = (IF dumps.sent THEN <<Dump>> ELSE <<>>) \o t
  BY <1>1
<1> HIDE DEF t
<1>6. Coming(t) = t /\ Coming(<<Dump>> \o t) = t /\ <<Dump>> \o t \in Seq(Nat)
  BY <1>2, <1>3, <1>4, ComingIs
<1>7. <<>> \o t = t
  BY <1>3
<1>8. events' \in Seq(Nat) /\ Coming(events') = t
  BY <1>3, <1>5, <1>6, <1>7
<1>9. Coming(events) = <<>> /\ Len(Coming(events)) = 0
  BY DEF IInv, Room, Process, Coming
<1>10. main' = "controls" /\ UNCHANGED <<storageQ, task, controlQ, answered>> /\ Busy' = Busy
  BY DEF Process, Busy
<1>11. Types'
  <2>1. DumpsOK'
    BY DumpsStay DEF IInv, Types
  <2> QED BY <1>1, <1>2, <1>8, <1>10, <2>1 DEF IInv, Types, Idle
<1>12. Order'
  <2>1. Coming(events)' = t
    BY <1>8
  <2>2. requests = Len(answered) + Len(controlQ) + Busy + Len(storageQ)
    BY <1>9, Sizes DEF IInv, Order
  <2> QED BY <1>1, <1>2, <1>3, <1>4, <1>10, <2>1, <2>2, Sizes DEF IInv, Order, Process
<1>13. Room'
  <2>1. Len(Coming(events)') <= Batch
    BY <1>3, <1>8
  <2> QED BY <1>10, <2>1 DEF IInv, Room
<1> QED BY <1>11, <1>12, <1>13 DEF IInv

\* The answers that are there go back in their order.
LEMMA PopControlsStep == IInv /\ PopControls => IInv'
<1> SUFFICES ASSUME IInv, PopControls PROVE IInv'
  OBVIOUS
<1> USE SizesAssumption
<1>1. /\ answered \in Seq(Nat) /\ controlQ \in Seq(Nat)
      /\ Run(answered, 0) /\ Run(controlQ, 0 + Len(answered))
  BY Sizes DEF IInv, Types, Order
<1>2. /\ answered' \in Seq(Nat) /\ Run(answered', 0)
      /\ Len(answered') = Len(answered) + Len(controlQ)
  BY <1>1, RunConcat DEF PopControls
<1>3. controlQ' = <<>> /\ Len(controlQ') = 0 /\ Run(controlQ', Len(answered'))
  BY DEF PopControls, Run
<1>4. Busy' = Busy /\ Coming(events)' = Coming(events)
  BY DEF PopControls, Busy
<1>5. Types'
  BY <1>2, <1>3, DumpsStay DEF IInv, Types, PopControls, Idle
<1>6. Order'
  BY <1>2, <1>3, <1>4, Sizes DEF IInv, Order, PopControls
<1>7. Room'
  BY <1>3, <1>4, Sizes DEF IInv, Room, PopControls
<1> QED BY <1>5, <1>6, <1>7 DEF IInv

\* Dumps move no request.
LEMMA DumpsStep == IInv /\ (PopDumps \/ AskDump) => IInv'
<1> SUFFICES ASSUME IInv, PopDumps \/ AskDump PROVE IInv'
  OBVIOUS
<1> USE SizesAssumption
<1>1. UNCHANGED <<events, storageQ, task, controlQ, answered, requests>>
  BY DEF PopDumps, AskDump
<1>2. Busy' = Busy /\ Coming(events)' = Coming(events)
  BY <1>1 DEF Busy
<1>3. Types'
  BY <1>1, DumpsStay DEF IInv, Types, PopDumps, AskDump, Idle
<1>4. Order'
  BY <1>1, <1>2 DEF IInv, Order
<1>5. Room'
  BY <1>1, <1>2 DEF IInv, Room, PopDumps, AskDump
<1> QED BY <1>3, <1>4, <1>5 DEF IInv

\* A dump that is taken leaves the requests behind it.
LEMMA PopDumpStep == IInv /\ PopDump => IInv'
<1> SUFFICES ASSUME IInv, PopDump PROVE IInv'
  OBVIOUS
<1> USE SizesAssumption
<1>1. events' = Coming(events) /\ Coming(events) \in Seq(Nat)
  BY DEF IInv, Order, PopDump, Coming
<1>2. \E m \in Nat : Run(Coming(events), m)
  BY Sizes DEF IInv, Order
<1>3. Coming(events') = events'
  BY <1>1, <1>2, ComingIs
<1>4. Busy' = Busy /\ Coming(events)' = Coming(events)
  BY <1>1, <1>3 DEF PopDump, Busy
<1>5. Types'
  BY <1>1, DumpsStay DEF IInv, Types, PopDump, Idle
<1>6. Order'
  BY <1>4 DEF IInv, Order, PopDump
<1>7. Room'
  BY <1>4 DEF IInv, Room, PopDump
<1> QED BY <1>5, <1>6, <1>7 DEF IInv

\* A request goes to the end of the channel to the storage.
LEMMA PopRequestStep == IInv /\ PopRequest => IInv'
<1> SUFFICES ASSUME IInv, PopRequest PROVE IInv'
  OBVIOUS
<1> USE SizesAssumption
<1> DEFINE b == Len(answered) + Len(controlQ) + Busy
           q == b + Len(storageQ)
<1>0. b \in Nat /\ q \in Nat
  BY Sizes
<1>1. /\ b \in Nat /\ q \in Nat /\ events \in Seq(Nat) /\ storageQ \in Seq(Nat)
      /\ events # <<>> /\ Coming(events) = events
  <2> HIDE DEF b, q
  <2> QED BY <1>0 DEF IInv, Types, PopRequest, Coming
<1>2. Run(storageQ, b) /\ Run(events, q) /\ requests = q + Len(events)
  BY <1>1 DEF IInv, Order
<1>3. /\ Tail(events) \in Seq(Nat) /\ Head(events) = q + 1
      /\ Run(Tail(events), q + 1) /\ Len(Tail(events)) = Len(events) - 1
  <2> HIDE DEF q
  <2> QED BY <1>1, <1>2, RunTail
<1>4. Coming(Tail(events)) = Tail(events)
  <2>1. q + 1 \in Nat
    BY <1>1
  <2> HIDE DEF q
  <2> QED BY <1>3, <2>1, ComingIs
<1>5. storageQ' = Append(storageQ, b + Len(storageQ) + 1)
  BY <1>3 DEF PopRequest
<1>6. storageQ' \in Seq(Nat) /\ Run(storageQ', b) /\ Len(storageQ') = Len(storageQ) + 1
  <2> HIDE DEF b
  <2> QED BY <1>1, <1>2, <1>5, RunAppend
<1>7. Busy' = Busy /\ Coming(events)' = Tail(events) /\ events' = Tail(events)
  BY <1>4 DEF PopRequest, Busy
<1>8. Types'
  BY <1>3, <1>6, <1>7, DumpsStay DEF IInv, Types, PopRequest, Idle
<1>9. Order'
  <2>1. b + Len(storageQ') = q + 1 /\ requests = (q + 1) + Len(Tail(events))
    <3>1. Len(events) \in Nat /\ Len(storageQ) \in Nat /\ q = b + Len(storageQ)
      BY <1>1, Sizes
    <3> HIDE DEF b, q
    <3> QED BY <1>0, <1>2, <1>3, <1>6, <3>1
  <2> QED BY <1>2, <1>3, <1>6, <1>7, <2>1 DEF IInv, Order, PopRequest
<1>10. Room'
  <2>1. /\ Len(events) \in Nat /\ Len(storageQ) \in Nat /\ Len(controlQ) \in Nat /\ Busy \in {0, 1}
        /\ Len(storageQ) + Busy + Len(controlQ) + Len(events) <= Capacity + 1 + Batch
    BY <1>1, Sizes DEF IInv, Room, PopRequest
  <2> HIDE DEF b, q
  <2>2. Len(storageQ') + Busy' + Len(controlQ) + Len(Tail(events)) <= Capacity + 1 + Batch
    BY <1>3, <1>6, <1>7, <2>1
  <2> QED BY <1>6, <1>7, <2>1, <2>2 DEF IInv, Room, PopRequest
<1> QED BY <1>8, <1>9, <1>10 DEF IInv

\* The loop starts again once no output is left.
LEMMA SleepStep == IInv /\ Sleep => IInv'
<1> SUFFICES ASSUME IInv, Sleep PROVE IInv'
  OBVIOUS
<1>1. Busy' = Busy /\ Coming(events)' = Coming(events)
  BY DEF Sleep, Busy
<1>2. Types'
  BY DumpsStay DEF IInv, Types, Sleep, Idle
<1>3. Order'
  BY <1>1 DEF IInv, Order, Sleep
<1>4. Room'
  BY DEF IInv, Room, Sleep
<1> QED BY <1>2, <1>3, <1>4 DEF IInv

\* The storage takes the oldest request of its channel.
LEMMA TakeRequestStep == IInv /\ TakeRequest => IInv'
<1> SUFFICES ASSUME IInv, TakeRequest PROVE IInv'
  OBVIOUS
<1> USE SizesAssumption
<1> DEFINE c == Len(answered) + Len(controlQ)
<1>1. Busy = 0 /\ Busy' = 1 /\ Coming(events)' = Coming(events)
  BY DEF TakeRequest, Busy, Idle
<1>2. /\ c \in Nat /\ storageQ \in Seq(Nat) /\ storageQ # <<>> /\ Run(storageQ, c)
  BY <1>1, Sizes DEF IInv, Types, Order, TakeRequest
<1>3. /\ Tail(storageQ) \in Seq(Nat) /\ Head(storageQ) = c + 1
      /\ Run(Tail(storageQ), c + 1) /\ Len(Tail(storageQ)) = Len(storageQ) - 1
  <2> HIDE DEF c
  <2> QED BY <1>2, RunTail
<1>4. storageQ' = Tail(storageQ) /\ task' = [req |-> c + 1, step |-> "storage"]
  BY <1>3 DEF TakeRequest
<1>5. Types'
  BY <1>2, <1>3, <1>4, DumpsStay DEF IInv, Types, TakeRequest, Idle
<1>6. Order'
  BY <1>1, <1>2, <1>3, <1>4, Sizes DEF IInv, Order, TakeRequest
<1>7. Room'
  BY <1>1, <1>3, <1>4, Sizes DEF IInv, Room, TakeRequest
<1> QED BY <1>5, <1>6, <1>7 DEF IInv

\* Handling changes the task's step only.
LEMMA HandledStep == IInv /\ Handled => IInv'
<1> SUFFICES ASSUME IInv, Handled PROVE IInv'
  OBVIOUS
<1>1. /\ Busy = 1 /\ Busy' = 1 /\ Coming(events)' = Coming(events) /\ task'.req = task.req
  BY DEF IInv, Types, Handled, Busy
<1>2. Types'
  BY DumpsStay DEF IInv, Types, Handled, Idle
<1>3. Order'
  BY <1>1 DEF IInv, Order, Handled
<1>4. Room'
  BY <1>1 DEF IInv, Room, Handled
<1> QED BY <1>2, <1>3, <1>4 DEF IInv

\* The answer goes to the end of the channel back.
LEMMA SendControlStep == IInv /\ SendControl => IInv'
<1> SUFFICES ASSUME IInv, SendControl PROVE IInv'
  OBVIOUS
<1> USE SizesAssumption
<1>1. Busy = 1 /\ Busy' = 0 /\ Coming(events)' = Coming(events)
  BY DEF SendControl, Busy, Idle
<1>2. /\ Len(answered) \in Nat /\ controlQ \in Seq(Nat) /\ Run(controlQ, Len(answered))
      /\ task.req = Len(answered) + Len(controlQ) + 1
  BY <1>1, Sizes DEF IInv, Types, Order
<1>3. /\ controlQ' \in Seq(Nat) /\ Run(controlQ', Len(answered))
      /\ Len(controlQ') = Len(controlQ) + 1
  BY <1>2, RunAppend DEF SendControl
<1>4. Types'
  BY <1>3, DumpsStay DEF IInv, Types, SendControl, Idle
<1>5. Order'
  <2>1. (Len(answered) + Len(controlQ')) + Busy' = (Len(answered) + Len(controlQ)) + Busy
    BY <1>1, <1>3, Sizes
  <2> QED BY <1>1, <1>3, <2>1 DEF IInv, Order, SendControl
<1>6. Room'
  BY <1>1, <1>3, Sizes DEF IInv, Room, SendControl
<1> QED BY <1>4, <1>5, <1>6 DEF IInv

------------------------------------------------------------------------------
(* The theorems.                                                           *)

\* Nothing is asked for at the start.
LEMMA InitInv == Init => IInv
<1> SUFFICES ASSUME Init PROVE IInv
  OBVIOUS
<1> USE SizesAssumption
<1>1. /\ main = "process" /\ events = <<>> /\ storageQ = <<>> /\ task = Idle /\ controlQ = <<>>
      /\ answered = <<>> /\ requests = 0
  BY DEF Init
<1>2. Busy = 0 /\ Coming(events) = <<>>
  BY <1>1 DEF Busy, Idle, Coming
<1>3. DumpsOK
  BY DEF Init, DumpsOK
<1>4. Types
  BY <1>1, <1>3 DEF Types, Idle
<1>5. Order
  <2>1. \A m \in Nat : Run(<<>>, m)
    BY DEF Run
  <2>2. /\ Len(answered) = 0 /\ Len(controlQ) = 0 /\ Len(storageQ) = 0
        /\ Len(Coming(events)) = 0 /\ Coming(events) \in Seq(Nat)
    BY <1>1, <1>2, EmptySeq
  <2>3. Run(answered, 0) /\ Run(controlQ, 0) /\ Run(storageQ, 0) /\ Run(Coming(events), 0)
    BY <1>1, <1>2, <2>1
  <2>4. 0 + 0 = 0
    OBVIOUS
  <2> QED BY <1>1, <1>2, <2>2, <2>3, <2>4 DEF Order
<1>6. Room
  BY <1>1, <1>2 DEF Room
<1> QED BY <1>4, <1>5, <1>6 DEF IInv

\* Every step of the loop, of the storage task and of those who ask keeps it.
LEMMA NextInv == IInv /\ [Next]_vars => IInv'
<1> SUFFICES ASSUME IInv, [Next]_vars PROVE IInv'
  OBVIOUS
<1>1. CASE UNCHANGED vars
  BY <1>1 DEF vars, IInv, Types, DumpsOK, Order, Room, Busy
<1>2. CASE Next
  BY <1>2, ProcessStep, PopControlsStep, DumpsStep, PopDumpStep, PopRequestStep, SleepStep,
     TakeRequestStep, HandledStep, SendControlStep DEF Next, MainLoop, StorageTask
<1> QED BY <1>1, <1>2

\* The invariant holds in every behaviour.
THEOREM Invariance == Spec => []IInv
BY InitInv, NextInv, PTL DEF Spec

\* The channels between the two tasks keep their capacity, and no more dumps of the
\* router wait than were asked for, whatever the capacity is.
THEOREM TypeSafety == Spec => []TypeOK
<1>1. IInv => TypeOK
  <2> SUFFICES ASSUME IInv PROVE TypeOK
    OBVIOUS
  <2>1. /\ dumps.asked \in Nat /\ dumps.waiting \in Nat /\ dumps.total \in Nat
        /\ dumps.asked + dumps.waiting <= dumps.total /\ dumps.total <= MaxDumps
    BY DEF IInv, Types, DumpsOK
  <2> QED BY <2>1, SizesAssumption DEF IInv, Room, TypeOK
<1> QED BY <1>1, Invariance, PTL

\* The main loop of the connector and its storage task answer every request once
\* and in the order of arrival, for all capacities and all sizes of a turn.
THEOREM OrderSafety == Spec => []AnsweredInOrder
<1>1. IInv => AnsweredInOrder
  <2> SUFFICES ASSUME IInv PROVE AnsweredInOrder
    OBVIOUS
  <2>1. answered \in Seq(Nat) /\ \A k \in 1 .. Len(answered) : answered[k] = 0 + k
    BY DEF IInv, Types, Order, Run
  <2>2. answered = [k \in 1 .. Len(answered) |-> answered[k]]
    BY <2>1
  <2> QED BY <2>1, <2>2 DEF AnsweredInOrder
<1> QED BY <1>1, Invariance, PTL

\* The two sends that wait for a place in a channel never wait for each other, if
\* one turn of the loop finds at most as many requests as a channel holds: the
\* channel back was emptied in this turn, so what fills it comes from the
\* channel to the storage, which then has room.
THEOREM StuckSafety ==
  ASSUME Batch <= Capacity
  PROVE  Spec => []NotStuck
<1>1. IInv => NotStuck
  <2> SUFFICES ASSUME IInv, main = "events", events # <<>>, Head(events) # Dump,
                      Len(storageQ) = Capacity, task.step = "send", Len(controlQ) = Capacity
               PROVE  FALSE
    BY DEF NotStuck
  <2>1. Coming(events) = events /\ Busy = 1
    BY DEF Coming, Busy
  <2>2. events \in Seq(Nat) /\ Len(events) \in Nat \ {0}
    BY LenProperties, EmptySeq DEF IInv, Types
  <2>3. Capacity + 1 + Capacity + Len(events) <= Capacity + 1 + Batch
    BY <2>1 DEF IInv, Room
  <2> QED BY <2>2, <2>3, SizesAssumption
<1> QED BY <1>1, Invariance, PTL

==============================================================================
