--------------------------- MODULE ConnectorProofs ---------------------------
(***************************************************************************)
(* Connector implements RequestLog, and its agents keep a timer for every  *)
(* request they have sent, for every number of nodes and every size of the *)
(* window, of the handler's memory and of the resend interval.             *)
(***************************************************************************)
EXTENDS MessageQueueProofs

------------------------------------------------------------------------------
(* The inductive invariant.                                                *)

\* Every queue is in order.
QueuesOK == \A n \in Nodes : QueueOK(req_id_seed[n], queue[n], inflight[n], inflight_ts[n])

\* The requests of a node under one boot are numbered from 0, and its earlier
\* boots are over.
Numbered ==
  \A n \in Nodes :
    /\ boot[n] <= faults
    /\ \A k \in asked : k[1] = n => \/ k[2] < boot[n]
                                    \/ k[2] = boot[n] /\ k[3] < req_id_seed[n]
    /\ \A i \in 0 .. req_id_seed[n] - 1 : <<n, boot[n], i>> \in asked

\* What is on its way was asked for, what is answered was handed over, and what
\* was handed over is remembered or was forgotten.
Traced ==
  /\ reqs \subseteq asked /\ ress \subseteq asked /\ Range(todo) \subseteq asked
  /\ \A k \in ress \cup Range(todo) : times[k] > 0
  /\ \A k \in Keys : times[k] > 0 => k \in Range(req_ids) \cup forgotten

\* What was sent since the node started no longer waits to be sent.
Sent ==
  \A k \in reqs \cup ress \cup Range(todo) : k[2] = boot[k[1]] => k[3] \notin Range(queue[k[1]])

\* Until it restarts, an agent waits for exactly what it holds.
Held ==
  \A n \in Nodes :
    /\ req_data[n] \subseteq 0 .. req_id_seed[n] - 1
    /\ boot[n] = 0 => req_data[n] = Range(queue[n]) \cup inflight[n]

Types ==
  /\ boot \in [Nodes -> Nat] /\ req_id_seed \in [Nodes -> Nat]
  /\ req_data \in [Nodes -> SUBSET Nat]
  /\ queue \in [Nodes -> Seq(Nat)] /\ inflight \in [Nodes -> SUBSET Nat]
  /\ inflight_ts \in [Nodes -> Seq(Entry)]
  /\ req_ids \in Seq(Keys) /\ todo \in Seq(Keys)
  /\ asked \in SUBSET Keys /\ IsFiniteSet(asked)
  /\ forgotten \in SUBSET Keys /\ unanswered \in SUBSET Keys
  /\ times \in [Keys -> Nat] /\ faults \in 0 .. MaxFaults

IInv == Types /\ QueuesOK /\ Numbered /\ Held /\ Traced /\ Sent /\ AckedWasTaken

------------------------------------------------------------------------------
(* The invariant: one lemma for each action.                               *)

\* A key is a node, a boot and a number.
LEMMA KeyParts ==
  ASSUME NEW k \in Keys
  PROVE  /\ k = <<k[1], k[2], k[3]>>
         /\ k[1] \in Nodes /\ k[2] \in 0 .. MaxFaults /\ k[3] \in Ids /\ k[3] \in Nat
BY SizesAssumption DEF Keys, Ids

\* An agent has given out no more numbers than its node has asked for requests.
LEMMA SeedFits ==
  ASSUME Types, Numbered, NEW n \in Nodes
  PROVE  req_id_seed[n] <= Cardinality({k \in asked : k[1] = n})
<1> DEFINE seed == req_id_seed[n]
           S == 0 .. seed - 1
           T == {k \in asked : k[1] = n}
           f == [i \in S |-> <<n, boot[n], i>>]
<1>1. seed \in Nat
  BY DEF Types
<1>2. f \in Injection(S, T)
  <2>1. \A i \in S : <<n, boot[n], i>> \in T
    BY DEF Numbered
  <2>2. f \in [S -> T]
    BY <2>1
  <2>3. \A i, j \in S : f[i] = f[j] => i = j
    OBVIOUS
  <2> QED BY <2>2, <2>3 DEF Injection, IsInjective
<1>3. IsFiniteSet(T)
  <2>1. T \in SUBSET asked
    OBVIOUS
  <2> QED BY <2>1, FS_Subset DEF Types
<1> HIDE DEF f, T
<1>4. Cardinality(S) <= Cardinality(T)
  <2> HIDE DEF S
  <2> QED BY <1>2, <1>3, FS_Injection
<1>5. Cardinality(S) = seed
  <2>1. Cardinality(S) = IF 0 > seed - 1 THEN 0 ELSE (seed - 1) - 0 + 1
    <3>1. 0 \in Int /\ seed - 1 \in Int
      BY <1>1
    <3> HIDE DEF seed
    <3> QED BY <3>1, FS_Interval
  <2> HIDE DEF S, seed
  <2> QED BY <1>1, <2>1
<1>6. QED
  BY <1>4, <1>5 DEF T, S, seed

\* When one agent's queue changes to one that is in order, all are.
LEMMA QueuesStep ==
  ASSUME Types, QueuesOK, NEW n \in Nodes,
         NEW seed \in Nat, NEW q, NEW fl, NEW ts, QueueOK(seed, q, fl, ts),
         req_id_seed' = [req_id_seed EXCEPT ![n] = seed],
         queue' = [queue EXCEPT ![n] = q],
         inflight' = [inflight EXCEPT ![n] = fl],
         inflight_ts' = [inflight_ts EXCEPT ![n] = ts]
  PROVE  /\ QueuesOK'
         /\ req_id_seed' \in [Nodes -> Nat] /\ queue' \in [Nodes -> Seq(Nat)]
         /\ inflight' \in [Nodes -> SUBSET Nat] /\ inflight_ts' \in [Nodes -> Seq(Entry)]
<1>1. q \in Seq(Nat) /\ fl \in SUBSET Nat /\ ts \in Seq(Entry)
  BY DEF QueueOK
<1>2. /\ req_id_seed' \in [Nodes -> Nat] /\ queue' \in [Nodes -> Seq(Nat)]
      /\ inflight' \in [Nodes -> SUBSET Nat] /\ inflight_ts' \in [Nodes -> Seq(Entry)]
  BY <1>1 DEF Types
<1>3. ASSUME NEW m \in Nodes
      PROVE  QueueOK(req_id_seed'[m], queue'[m], inflight'[m], inflight_ts'[m])
  <2>1. CASE m = n
    <3>1. req_id_seed'[m] = seed /\ queue'[m] = q /\ inflight'[m] = fl /\ inflight_ts'[m] = ts
      BY <2>1 DEF Types
    <3> QED BY <3>1
  <2>2. CASE m # n
    <3>1. /\ req_id_seed'[m] = req_id_seed[m] /\ queue'[m] = queue[m]
          /\ inflight'[m] = inflight[m] /\ inflight_ts'[m] = inflight_ts[m]
      BY <2>2 DEF Types
    <3> QED BY <3>1 DEF QueuesOK
  <2> QED BY <2>1, <2>2
<1>4. QED
  BY <1>2, <1>3 DEF QueuesOK

\* Control::Request.
LEMMA RequestStep ==
  ASSUME IInv, NEW n \in Nodes, Request(n)
  PROVE  IInv' /\ Key(n, req_id_seed[n]) \in Keys \ asked
<1> DEFINE seed == req_id_seed[n]
           k0 == <<n, boot[n], seed>>
<1>0. /\ Types /\ QueuesOK /\ Numbered /\ Held /\ Traced /\ Sent /\ AckedWasTaken
  BY DEF IInv
<1>1. /\ req_id_seed' = [req_id_seed EXCEPT ![n] = seed + 1]
      /\ req_data' = [req_data EXCEPT ![n] = req_data[n] \cup {seed}]
      /\ queue' = [queue EXCEPT ![n] = Append(queue[n], seed)]
      /\ asked' = asked \cup {k0}
      /\ UNCHANGED <<boot, inflight, inflight_ts, reqs, ress, req_ids, todo,
                     faults, times, forgotten, unanswered>>
  BY <1>0 DEF Request, Key, Types
<1>2. seed \in Nat /\ seed < MaxAsk
  <2> DEFINE c == Cardinality({k \in asked : k[1] = n})
  <2>1. seed <= c /\ c < MaxAsk /\ seed \in Nat
    BY <1>0, SeedFits DEF Request, Types
  <2>2. c \in Nat
    <3>1. {k \in asked : k[1] = n} \in SUBSET asked
      OBVIOUS
    <3>2. IsFiniteSet({k \in asked : k[1] = n})
      BY <1>0, <3>1, FS_Subset DEF Types
    <3> QED BY <3>2, FS_CardinalityType
  <2> HIDE DEF c, seed
  <2> QED BY <2>1, <2>2, SizesAssumption
<1>3. boot[n] \in 0 .. MaxFaults /\ boot[n] \in Nat
  BY <1>0, SizesAssumption DEF Types, Numbered
<1>4. k0 \in Keys
  BY <1>2, <1>3, SizesAssumption DEF Keys, Ids
<1>5. k0 \notin asked
  BY <1>0, <1>2, <1>3 DEF Numbered
<1>6. QueueOK(seed, queue[n], inflight[n], inflight_ts[n])
  BY <1>0 DEF QueuesOK
<1>7. QueueOK(seed + 1, Append(queue[n], seed), inflight[n], inflight_ts[n])
  BY <1>2, <1>6, QueueRequest
<1>8. /\ QueuesOK'
      /\ req_id_seed' \in [Nodes -> Nat] /\ queue' \in [Nodes -> Seq(Nat)]
      /\ inflight' \in [Nodes -> SUBSET Nat] /\ inflight_ts' \in [Nodes -> Seq(Entry)]
  <2>1. /\ inflight' = [inflight EXCEPT ![n] = inflight[n]]
        /\ inflight_ts' = [inflight_ts EXCEPT ![n] = inflight_ts[n]]
    BY <1>0, <1>1 DEF Types
  <2> DEFINE s1 == seed + 1
             q1 == Append(queue[n], seed)
  <2>2. /\ s1 \in Nat /\ QueueOK(s1, q1, inflight[n], inflight_ts[n])
        /\ req_id_seed' = [req_id_seed EXCEPT ![n] = s1] /\ queue' = [queue EXCEPT ![n] = q1]
    BY <1>1, <1>2, <1>7
  <2> HIDE DEF s1, q1
  <2> QED BY <1>0, <2>1, <2>2, QueuesStep
<1>9. Range(Append(queue[n], seed)) = Range(queue[n]) \cup {seed}
  BY <1>0, <1>2, AppendIs DEF Types
<1> HIDE DEF seed
<1>10. /\ \A m \in Nodes \ {n} : /\ req_id_seed'[m] = req_id_seed[m]
                                 /\ req_data'[m] = req_data[m] /\ queue'[m] = queue[m]
       /\ req_id_seed'[n] = seed + 1 /\ req_data'[n] = req_data[n] \cup {seed}
       /\ Range(queue'[n]) = Range(queue[n]) \cup {seed}
  BY <1>0, <1>1, <1>9 DEF Types
<1>11. Types'
  <2>1. req_data' \in [Nodes -> SUBSET Nat]
    BY <1>0, <1>1, <1>2 DEF Types
  <2>2. asked' \in SUBSET Keys /\ IsFiniteSet(asked')
    BY <1>0, <1>1, <1>4, FS_AddElement DEF Types
  <2> QED BY <1>0, <1>1, <1>8, <2>1, <2>2 DEF Types
<1>12. Numbered'
  <2> SUFFICES ASSUME NEW m \in Nodes
               PROVE  /\ boot'[m] <= faults'
                      /\ \A k \in asked' : k[1] = m => \/ k[2] < boot'[m]
                                                       \/ k[2] = boot'[m] /\ k[3] < req_id_seed'[m]
                      /\ \A i \in 0 .. req_id_seed'[m] - 1 : <<m, boot'[m], i>> \in asked'
    BY DEF Numbered
  <2>1. CASE m = n
    <3>1. \A k \in asked : k[1] = n => k[2] < boot[n] \/ (k[2] = boot[n] /\ k[3] < seed + 1)
      <4> SUFFICES ASSUME NEW k \in asked, k[1] = n
                   PROVE  k[2] < boot[n] \/ (k[2] = boot[n] /\ k[3] < seed + 1)
        OBVIOUS
      <4>1. k[2] < boot[n] \/ (k[2] = boot[n] /\ k[3] < seed)
        BY <1>0 DEF Numbered, seed
      <4>2. k[3] \in Nat
        BY <1>0, KeyParts DEF Types
      <4> QED BY <1>2, <4>1, <4>2
    <3>2. k0[1] = n /\ k0[2] = boot[n] /\ k0[3] < seed + 1
      BY <1>2
    <3>3. \A i \in 0 .. (seed + 1) - 1 : i \in 0 .. seed - 1 \/ i = seed
      BY <1>2
    <3>4. \A i \in 0 .. seed - 1 : <<n, boot[n], i>> \in asked
      BY <1>0 DEF Numbered, seed
    <3>5. boot[n] <= faults
      BY <1>0 DEF Numbered
    <3> QED BY <1>1, <1>10, <2>1, <3>1, <3>2, <3>3, <3>4, <3>5
  <2>2. CASE m # n
    BY <1>0, <1>1, <1>10, <2>2 DEF Numbered
  <2> QED BY <2>1, <2>2
<1>13. Held'
  <2> SUFFICES ASSUME NEW m \in Nodes
               PROVE  /\ req_data'[m] \subseteq 0 .. req_id_seed'[m] - 1
                      /\ boot'[m] = 0 => req_data'[m] = Range(queue'[m]) \cup inflight'[m]
    BY DEF Held
  <2>1. CASE m = n
    <3>1. req_data[n] \subseteq 0 .. seed - 1
      BY <1>0 DEF Held, seed
    <3>2. 0 .. seed - 1 \subseteq 0 .. (seed + 1) - 1 /\ seed \in 0 .. (seed + 1) - 1
      BY <1>2
    <3>3. boot[n] = 0 => req_data[n] = Range(queue[n]) \cup inflight[n]
      BY <1>0 DEF Held
    <3> QED BY <1>1, <1>10, <2>1, <3>1, <3>2, <3>3
  <2>2. CASE m # n
    BY <1>0, <1>1, <1>10, <2>2 DEF Held
  <2> QED BY <2>1, <2>2
<1>14. Traced'
  BY <1>0, <1>1 DEF Traced
<1>15. Sent'
  <2> SUFFICES ASSUME NEW k \in reqs \cup ress \cup Range(todo), k[2] = boot[k[1]]
               PROVE  k[3] \notin Range(queue'[k[1]])
    BY <1>1 DEF Sent
  <2>1. k \in asked /\ k[1] \in Nodes
    BY <1>0, KeyParts DEF Traced, Types
  <2>2. k[3] \notin Range(queue[k[1]])
    BY <1>0 DEF Sent
  <2>3. k[1] = n => k[3] # seed
    BY <1>0, <1>2, <1>3, <2>1 DEF Numbered, seed
  <2> QED BY <1>10, <2>1, <2>2, <2>3
<1>16. AckedWasTaken'
  <2> SUFFICES ASSUME NEW m \in Nodes, boot[m] = 0, NEW id \in Ids,
                      id < req_id_seed'[m], id \notin req_data'[m]
               PROVE  times[<<m, boot[m], id>>] > 0
    BY <1>1 DEF AckedWasTaken, Key
  <2>1. id < req_id_seed[m] /\ id \notin req_data[m]
    <3>1. CASE m = n
      <4>1. id < seed + 1 /\ id # seed /\ id \notin req_data[n] /\ id \in Nat
        BY <1>10, <3>1, SizesAssumption DEF Ids
      <4> QED BY <1>2, <3>1, <4>1 DEF seed
    <3>2. CASE m # n
      BY <1>10, <3>2
    <3> QED BY <3>1, <3>2
  <2> QED BY <1>0, <2>1 DEF AckedWasTaken, Key
<1>17. QED
  BY <1>4, <1>5, <1>8, <1>11, <1>12, <1>13, <1>14, <1>15, <1>16 DEF IInv, Key, seed

\* What changes only in the window and the timers of n, and what goes out, is a
\* request of n that no longer waits.
LEMMA SendStep ==
  ASSUME IInv, NEW n \in Nodes, NEW q, NEW fl, NEW ts,
         QueueOK(req_id_seed[n], q, fl, ts),
         Range(q) \subseteq Range(queue[n]), Range(q) \cup fl = Range(queue[n]) \cup inflight[n],
         NEW out, out = {} \/ \E id \in fl : out = {Key(n, id)},
         queue' = [queue EXCEPT ![n] = q],
         inflight' = [inflight EXCEPT ![n] = fl],
         inflight_ts' = [inflight_ts EXCEPT ![n] = ts],
         reqs' = reqs \cup out,
         UNCHANGED <<boot, req_id_seed, req_data, ress, req_ids, todo, faults, history>>
  PROVE  IInv'
<1>0. /\ Types /\ QueuesOK /\ Numbered /\ Held /\ Traced /\ Sent /\ AckedWasTaken
  BY DEF IInv
<1>1. UNCHANGED <<boot, req_id_seed, req_data, ress, req_ids, todo, faults,
                  asked, times, forgotten, unanswered>>
  BY DEF history
<1>2. /\ QueuesOK'
      /\ req_id_seed' \in [Nodes -> Nat] /\ queue' \in [Nodes -> Seq(Nat)]
      /\ inflight' \in [Nodes -> SUBSET Nat] /\ inflight_ts' \in [Nodes -> Seq(Entry)]
  <2> DEFINE s1 == req_id_seed[n]
  <2>1. s1 \in Nat /\ req_id_seed' = [req_id_seed EXCEPT ![n] = s1] /\ QueueOK(s1, q, fl, ts)
    BY <1>0, <1>1 DEF Types
  <2> HIDE DEF s1
  <2> QED BY <1>0, <2>1, QueuesStep
<1>3. /\ \A m \in Nodes \ {n} : queue'[m] = queue[m] /\ inflight'[m] = inflight[m]
      /\ queue'[n] = q /\ inflight'[n] = fl
  BY <1>0 DEF Types
<1>4. \A k \in out : /\ k \in asked /\ k[1] = n /\ k[2] = boot[n] /\ k[3] \notin Range(q)
  <2> SUFFICES ASSUME NEW id \in fl PROVE /\ Key(n, id) \in asked /\ id \notin Range(q)
    BY DEF Key
  <2>1. id \in Nat /\ id < req_id_seed[n] /\ id \notin Range(q)
    BY DEF QueueOK
  <2>2. req_id_seed[n] \in Nat
    BY <1>0 DEF Types
  <2>3. id \in 0 .. req_id_seed[n] - 1
    BY <2>1, <2>2
  <2> QED BY <1>0, <2>1, <2>3 DEF Numbered, Key
<1>5. Types'
  BY <1>0, <1>1, <1>2 DEF Types
<1>6. Numbered' /\ AckedWasTaken'
  BY <1>0, <1>1 DEF Numbered, AckedWasTaken, Key
<1>7. Held'
  <2> SUFFICES ASSUME NEW m \in Nodes
               PROVE  /\ req_data[m] \subseteq 0 .. req_id_seed[m] - 1
                      /\ boot[m] = 0 => req_data[m] = Range(queue'[m]) \cup inflight'[m]
    BY <1>1 DEF Held
  <2>1. /\ req_data[m] \subseteq 0 .. req_id_seed[m] - 1
        /\ boot[m] = 0 => req_data[m] = Range(queue[m]) \cup inflight[m]
    BY <1>0 DEF Held
  <2> QED BY <1>3, <2>1
<1>8. Traced'
  BY <1>0, <1>1, <1>4 DEF Traced
<1>9. Sent'
  <2> SUFFICES ASSUME NEW k \in reqs' \cup ress \cup Range(todo), k[2] = boot[k[1]]
               PROVE  k[3] \notin Range(queue'[k[1]])
    BY <1>1 DEF Sent
  <2>1. CASE k \in out
    BY <1>3, <1>4, <2>1
  <2>2. CASE k \notin out
    <3>1. k \in reqs \cup ress \cup Range(todo)
      BY <2>2
    <3>2. k[1] \in Nodes /\ k[3] \notin Range(queue[k[1]])
      BY <1>0, <3>1, KeyParts DEF Sent, Traced, Types
    <3> QED BY <1>3, <3>2
  <2> QED BY <2>1, <2>2
<1>10. QED
  BY <1>2, <1>5, <1>6, <1>7, <1>8, <1>9 DEF IInv

\* pop with a due message.
LEMMA ResendStep ==
  ASSUME IInv, NEW n \in Nodes, Resend(n)
  PROVE  IInv'
<1> DEFINE fl == inflight[n]
           id == DueId(inflight_ts[n], fl)
           ts == Stamp(AfterDue(inflight_ts[n], fl), id)
<1>1. Types /\ QueueOK(req_id_seed[n], queue[n], fl, inflight_ts[n]) /\ req_id_seed[n] \in Nat
  BY DEF IInv, QueuesOK, Types
<1>2. id \in fl /\ QueueOK(req_id_seed[n], queue[n], fl, ts)
  BY <1>1, QueueResend DEF Resend
<1>3. /\ inflight_ts' = [inflight_ts EXCEPT ![n] = ts]
      /\ reqs' = reqs \cup {Key(n, id)}
      /\ queue' = [queue EXCEPT ![n] = queue[n]]
      /\ inflight' = [inflight EXCEPT ![n] = fl]
      /\ UNCHANGED <<boot, req_id_seed, req_data, ress, req_ids, todo, faults, history>>
  BY <1>1 DEF Resend, Types
<1> HIDE DEF id, ts
<1>4. QED
  BY <1>2, <1>3, SendStep

\* pop with a new message.
LEMMA SendNewStep ==
  ASSUME IInv, NEW n \in Nodes, SendNew(n)
  PROVE  IInv'
<1> DEFINE id == Head(queue[n])
           q == Tail(queue[n])
           fl == inflight[n] \cup {id}
           ts == Stamp(NoneDue(inflight_ts[n]), id)
<1>1. Types /\ QueueOK(req_id_seed[n], queue[n], inflight[n], inflight_ts[n]) /\ req_id_seed[n] \in Nat
  BY DEF IInv, QueuesOK, Types
<1>2. /\ Due(inflight_ts[n], inflight[n]) = {} /\ queue[n] # <<>>
      /\ Open(inflight[n])
  BY DEF SendNew, CanSendNew, Open
<1>3. /\ Range(q) \subseteq Range(queue[n]) /\ Range(q) \cup fl = Range(queue[n]) \cup inflight[n]
      /\ QueueOK(req_id_seed[n], q, fl, ts)
  <2>1. id = Head(queue[n]) /\ q = Tail(queue[n]) /\ fl = inflight[n] \cup {id}
    OBVIOUS
  <2>2. Range(queue[n]) = Range(q) \cup {id}
    BY <1>1, <1>2, TailIs DEF Types
  <2> HIDE DEF id, q, fl
  <2>3. QueueOK(req_id_seed[n], q, fl, ts)
    BY <1>1, <1>2, <2>1, QueueSend
  <2> QED BY <2>1, <2>2, <2>3
<1>4. /\ inflight_ts' = [inflight_ts EXCEPT ![n] = ts]
      /\ reqs' = reqs \cup {Key(n, id)}
      /\ queue' = [queue EXCEPT ![n] = q]
      /\ inflight' = [inflight EXCEPT ![n] = fl]
      /\ UNCHANGED <<boot, req_id_seed, req_data, ress, req_ids, todo, faults, history>>
  BY <1>1 DEF SendNew, Types
<1>5. id \in fl
  OBVIOUS
<1> HIDE DEF id, ts, q, fl
<1>6. QED
  BY <1>3, <1>4, <1>5, SendStep

\* pop with nothing to send.
LEMMA PopNoneStep ==
  ASSUME IInv, NEW n \in Nodes, PopNone(n)
  PROVE  IInv'
<1> DEFINE ts == NoneDue(inflight_ts[n])
<1>1. Types /\ QueueOK(req_id_seed[n], queue[n], inflight[n], inflight_ts[n]) /\ req_id_seed[n] \in Nat
  BY DEF IInv, QueuesOK, Types
<1>2. QueueOK(req_id_seed[n], queue[n], inflight[n], ts)
  BY <1>1, QueueNone DEF PopNone
<1>3. /\ inflight_ts' = [inflight_ts EXCEPT ![n] = ts]
      /\ reqs' = reqs \cup {}
      /\ queue' = [queue EXCEPT ![n] = queue[n]]
      /\ inflight' = [inflight EXCEPT ![n] = inflight[n]]
      /\ UNCHANGED <<boot, req_id_seed, req_data, ress, req_ids, todo, faults, history>>
  BY <1>1 DEF PopNone, Types
<1> HIDE DEF ts
<1>4. QED
  BY <1>2, <1>3, SendStep

\* Time passes.
LEMMA OlderStep ==
  ASSUME IInv, NEW n \in Nodes, Older(n)
  PROVE  IInv'
<1> DEFINE ts == Later(inflight_ts[n])
<1>1. Types /\ QueueOK(req_id_seed[n], queue[n], inflight[n], inflight_ts[n]) /\ req_id_seed[n] \in Nat
  BY DEF IInv, QueuesOK, Types
<1>2. QueueOK(req_id_seed[n], queue[n], inflight[n], ts)
  BY <1>1, QueueLater
<1>3. /\ inflight_ts' = [inflight_ts EXCEPT ![n] = ts]
      /\ reqs' = reqs \cup {}
      /\ queue' = [queue EXCEPT ![n] = queue[n]]
      /\ inflight' = [inflight EXCEPT ![n] = inflight[n]]
      /\ UNCHANGED <<boot, req_id_seed, req_data, ress, req_ids, todo, faults, history>>
  BY <1>1 DEF Older, Later, Types
<1> HIDE DEF ts
<1>4. QED
  BY <1>2, <1>3, SendStep

\* An answer: only one that was sent since the node started can settle a request
\* while the node runs for the first time, and that one was handed over.
LEMMA OnResponseStep ==
  ASSUME IInv, NEW n \in Nodes, NEW k \in ress, OnResponse(n, k)
  PROVE  IInv'
<1> DEFINE x == k[3]
           fl == IF x \in req_data[n] THEN inflight[n] \ {x} ELSE inflight[n]
<1>0. /\ Types /\ QueuesOK /\ Numbered /\ Held /\ Traced /\ Sent /\ AckedWasTaken
  BY DEF IInv
<1>1. /\ ress' = ress \ {k} /\ k[1] = n
      /\ req_data' = [req_data EXCEPT ![n] = req_data[n] \ {x}]
      /\ inflight' = [inflight EXCEPT ![n] = fl]
      /\ UNCHANGED <<boot, req_id_seed, queue, inflight_ts, reqs, req_ids, todo,
                     faults, asked, times, forgotten, unanswered>>
  BY <1>0 DEF OnResponse, Types, history
<1>2. k \in asked /\ times[k] > 0 /\ k \in Keys /\ k = <<k[1], k[2], x>> /\ k[2] \in Nat
  BY <1>0, KeyParts, SizesAssumption DEF Traced, Types
<1>3. QueueOK(req_id_seed[n], queue[n], fl, inflight_ts[n]) /\ req_id_seed[n] \in Nat
  <2>1. QueueOK(req_id_seed[n], queue[n], inflight[n], inflight_ts[n]) /\ req_id_seed[n] \in Nat
    BY <1>0 DEF QueuesOK, Types
  <2>2. QueueOK(req_id_seed[n], queue[n], inflight[n] \ {x}, inflight_ts[n])
    BY <2>1, QueueAck
  <2> QED BY <2>1, <2>2
<1>4. boot[n] = 0 => k = <<n, boot[n], x>> /\ x \notin Range(queue[n])
  <2> SUFFICES ASSUME boot[n] = 0 PROVE k[2] = boot[n] /\ x \notin Range(queue[n])
    BY <1>1, <1>2
  <2>1. k[2] < boot[n] \/ k[2] = boot[n]
    BY <1>0, <1>1, <1>2 DEF Numbered
  <2>2. k[2] = boot[n]
    BY <1>2, <2>1
  <2> QED BY <1>0, <1>1, <2>2 DEF Sent
<1>5. /\ QueuesOK'
      /\ req_id_seed' \in [Nodes -> Nat] /\ queue' \in [Nodes -> Seq(Nat)]
      /\ inflight' \in [Nodes -> SUBSET Nat] /\ inflight_ts' \in [Nodes -> Seq(Entry)]
  <2>1. /\ req_id_seed' = [req_id_seed EXCEPT ![n] = req_id_seed[n]]
        /\ queue' = [queue EXCEPT ![n] = queue[n]]
        /\ inflight_ts' = [inflight_ts EXCEPT ![n] = inflight_ts[n]]
    BY <1>0, <1>1 DEF Types
  <2> HIDE DEF fl
  <2> QED BY <1>0, <1>1, <1>3, <2>1, QueuesStep
<1>6. /\ \A m \in Nodes \ {n} : req_data'[m] = req_data[m] /\ inflight'[m] = inflight[m]
      /\ req_data'[n] = req_data[n] \ {x} /\ inflight'[n] = fl
  BY <1>0, <1>1 DEF Types
<1>7. Types'
  <2>1. req_data' \in [Nodes -> SUBSET Nat]
    BY <1>0, <1>1 DEF Types
  <2> QED BY <1>0, <1>1, <1>5, <2>1 DEF Types
<1>8. Numbered'
  BY <1>0, <1>1 DEF Numbered
<1>9. Held'
  <2> SUFFICES ASSUME NEW m \in Nodes
               PROVE  /\ req_data'[m] \subseteq 0 .. req_id_seed[m] - 1
                      /\ boot[m] = 0 => req_data'[m] = Range(queue[m]) \cup inflight'[m]
    BY <1>1 DEF Held
  <2>1. /\ req_data[m] \subseteq 0 .. req_id_seed[m] - 1
        /\ boot[m] = 0 => req_data[m] = Range(queue[m]) \cup inflight[m]
    BY <1>0 DEF Held
  <2>2. CASE m = n
    <3>1. boot[n] = 0 => req_data[n] \ {x} = Range(queue[n]) \cup fl
      BY <1>4, <2>1, <2>2
    <3> QED BY <1>6, <2>1, <2>2, <3>1
  <2>3. CASE m # n
    BY <1>6, <2>1, <2>3
  <2> QED BY <2>2, <2>3
<1>10. Traced' /\ Sent'
  BY <1>0, <1>1 DEF Traced, Sent
<1>11. AckedWasTaken'
  <2> SUFFICES ASSUME NEW m \in Nodes, boot[m] = 0, NEW id \in Ids,
                      id < req_id_seed[m], id \notin req_data'[m]
               PROVE  times[<<m, boot[m], id>>] > 0
    BY <1>1 DEF AckedWasTaken, Key
  <2>1. CASE m = n /\ id = x
    BY <1>2, <1>4, <2>1
  <2>2. CASE ~(m = n /\ id = x)
    <3>1. id \notin req_data[m]
      BY <1>6, <2>2
    <3> QED BY <1>0, <3>1 DEF AckedWasTaken, Key
  <2> QED BY <2>1, <2>2
<1>12. QED
  BY <1>5, <1>7, <1>8, <1>9, <1>10, <1>11 DEF IInv

\* A node starts again.
LEMMA RestartStep ==
  ASSUME IInv, NEW n \in Nodes, Restart(n)
  PROVE  IInv'
<1>0. /\ Types /\ QueuesOK /\ Numbered /\ Held /\ Traced /\ Sent /\ AckedWasTaken
  BY DEF IInv
<1>1. /\ faults' = faults + 1 /\ faults < MaxFaults
      /\ boot' = [boot EXCEPT ![n] = boot[n] + 1]
      /\ req_id_seed' = [req_id_seed EXCEPT ![n] = 0]
      /\ req_data' = [req_data EXCEPT ![n] = {}]
      /\ queue' = [queue EXCEPT ![n] = <<>>]
      /\ inflight' = [inflight EXCEPT ![n] = {}]
      /\ inflight_ts' = [inflight_ts EXCEPT ![n] = <<>>]
      /\ UNCHANGED <<reqs, ress, req_ids, todo, asked, times, forgotten, unanswered>>
  BY <1>0 DEF Restart, Types, history
<1>2. /\ QueuesOK'
      /\ req_id_seed' \in [Nodes -> Nat] /\ queue' \in [Nodes -> Seq(Nat)]
      /\ inflight' \in [Nodes -> SUBSET Nat] /\ inflight_ts' \in [Nodes -> Seq(Entry)]
  <2>1. 0 \in Nat
    OBVIOUS
  <2> QED BY <1>0, <1>1, <2>1, QueueNew, QueuesStep
<1>3. /\ \A m \in Nodes : boot[m] \in Nat
      /\ \A m \in Nodes \ {n} : /\ boot'[m] = boot[m] /\ req_id_seed'[m] = req_id_seed[m]
                                /\ req_data'[m] = req_data[m] /\ queue'[m] = queue[m]
                                /\ inflight'[m] = inflight[m]
      /\ boot'[n] = boot[n] + 1 /\ req_id_seed'[n] = 0 /\ req_data'[n] = {}
      /\ queue'[n] = <<>> /\ inflight'[n] = {}
  BY <1>0, <1>1 DEF Types
<1>4. faults \in Nat /\ faults' \in 0 .. MaxFaults
  BY <1>0, <1>1, SizesAssumption DEF Types
<1>5. Types'
  <2>1. boot' \in [Nodes -> Nat] /\ req_data' \in [Nodes -> SUBSET Nat]
    BY <1>0, <1>1, <1>3 DEF Types
  <2> QED BY <1>0, <1>1, <1>2, <1>4, <2>1 DEF Types
<1>6. Numbered'
  <2> SUFFICES ASSUME NEW m \in Nodes
               PROVE  /\ boot'[m] <= faults'
                      /\ \A k \in asked : k[1] = m => \/ k[2] < boot'[m]
                                                      \/ k[2] = boot'[m] /\ k[3] < req_id_seed'[m]
                      /\ \A i \in 0 .. req_id_seed'[m] - 1 : <<m, boot'[m], i>> \in asked
    BY <1>1 DEF Numbered
  <2>1. /\ boot[m] <= faults
        /\ \A k \in asked : k[1] = m => \/ k[2] < boot[m]
                                        \/ k[2] = boot[m] /\ k[3] < req_id_seed[m]
        /\ \A i \in 0 .. req_id_seed[m] - 1 : <<m, boot[m], i>> \in asked
    BY <1>0 DEF Numbered
  <2>2. CASE m = n
    <3>1. boot[n] + 1 <= faults'
      BY <1>1, <1>3, <1>4, <2>1, <2>2
    <3>2. ASSUME NEW k \in asked, k[1] = n PROVE k[2] < boot[n] + 1
      <4>1. k[2] \in Nat
        BY <1>0, KeyParts, SizesAssumption DEF Types
      <4> QED BY <1>3, <2>1, <2>2, <3>2, <4>1
    <3>3. 0 .. 0 - 1 = {}
      OBVIOUS
    <3> QED BY <1>3, <2>2, <3>1, <3>2, <3>3
  <2>3. CASE m # n
    BY <1>1, <1>3, <1>4, <2>1, <2>3
  <2> QED BY <2>2, <2>3
<1>7. Range(<<>>) = {}
  BY DEF Range
<1>8. Held'
  <2> SUFFICES ASSUME NEW m \in Nodes
               PROVE  /\ req_data'[m] \subseteq 0 .. req_id_seed'[m] - 1
                      /\ boot'[m] = 0 => req_data'[m] = Range(queue'[m]) \cup inflight'[m]
    BY DEF Held
  <2>1. CASE m = n
    BY <1>3, <1>7, <2>1
  <2>2. CASE m # n
    BY <1>0, <1>3, <2>2 DEF Held
  <2> QED BY <2>1, <2>2
<1>9. Traced'
  BY <1>0, <1>1 DEF Traced
<1>10. Sent'
  <2> SUFFICES ASSUME NEW k \in reqs \cup ress \cup Range(todo), k[2] = boot'[k[1]]
               PROVE  k[3] \notin Range(queue'[k[1]])
    BY <1>1 DEF Sent
  <2>1. k[1] \in Nodes
    BY <1>0, KeyParts DEF Traced, Types
  <2>2. CASE k[1] = n
    BY <1>3, <1>7, <2>2
  <2>3. CASE k[1] # n
    BY <1>0, <1>3, <2>1, <2>3 DEF Sent
  <2> QED BY <2>2, <2>3
<1>11. AckedWasTaken'
  <2> SUFFICES ASSUME NEW m \in Nodes, boot'[m] = 0, NEW id \in Ids,
                      id < req_id_seed'[m], id \notin req_data'[m]
               PROVE  times[<<m, boot'[m], id>>] > 0
    BY <1>1 DEF AckedWasTaken, Key
  <2>1. m # n
    BY <1>3
  <2> QED BY <1>0, <1>3, <2>1 DEF AckedWasTaken, Key
<1>12. QED
  BY <1>2, <1>5, <1>6, <1>8, <1>9, <1>10, <1>11 DEF IInv

\* What the connector and the network do leaves the agents alone.
LEMMA AgentsRest ==
  ASSUME IInv, UNCHANGED <<agent, asked>>, faults' \in 0 .. MaxFaults, faults' >= faults,
         \A k \in Keys : times[k] > 0 => times'[k] > 0
  PROVE  QueuesOK' /\ Numbered' /\ Held' /\ AckedWasTaken'
<1>0. /\ Types /\ QueuesOK /\ Numbered /\ Held /\ AckedWasTaken
  BY DEF IInv
<1>1. UNCHANGED <<boot, req_id_seed, req_data, queue, inflight, inflight_ts, asked>>
  BY DEF agent
<1>2. QueuesOK' /\ Held'
  BY <1>0, <1>1 DEF QueuesOK, Held
<1>3. Numbered'
  <2>1. \A n \in Nodes : boot[n] <= faults /\ boot[n] \in Nat /\ faults \in Nat /\ faults' \in Nat
    BY <1>0, SizesAssumption DEF Numbered, Types
  <2>2. \A n \in Nodes : boot[n] <= faults'
    BY <2>1
  <2> QED BY <1>0, <1>1, <2>2 DEF Numbered
<1>4. AckedWasTaken'
  <2> SUFFICES ASSUME NEW n \in Nodes, boot[n] = 0, NEW id \in Ids,
                      id < req_id_seed[n], id \notin req_data[n]
               PROVE  times'[<<n, boot[n], id>>] > 0
    BY <1>1 DEF AckedWasTaken, Key
  <2>1. times[<<n, boot[n], id>>] > 0
    BY <1>0 DEF AckedWasTaken, Key
  <2>2. <<n, boot[n], id>> \in Keys
    BY SizesAssumption DEF Keys
  <2> QED BY <2>1, <2>2
<1>5. QED
  BY <1>2, <1>3, <1>4

\* The handler's memory and what it hands over after a request it has not seen.
LEMMA TakenIs ==
  ASSUME Types, NEW k \in Keys, ~Remembered(k),
         req_ids' = Append(IF Full THEN Tail(req_ids) ELSE req_ids, k),
         forgotten' = (forgotten \ {k}) \cup (IF Full THEN {Head(req_ids)} ELSE {})
  PROVE  /\ req_ids' \in Seq(Keys) /\ forgotten' \in SUBSET Keys
         /\ \E D \in SUBSET Keys : forgotten' = (forgotten \ {k}) \cup D
         /\ k \in Range(req_ids')
         /\ Range(req_ids) \cup forgotten \subseteq Range(req_ids') \cup forgotten'
<1> DEFINE s == IF Full THEN Tail(req_ids) ELSE req_ids
           D == IF Full THEN {Head(req_ids)} ELSE {}
<1>1. req_ids \in Seq(Keys) /\ forgotten \in SUBSET Keys
  BY DEF Types
<1>2. s \in Seq(Keys) /\ D \in SUBSET Keys /\ Range(req_ids) = Range(s) \cup D
  <2>1. CASE Full
    <3>1. req_ids # <<>>
      <4>1. Len(req_ids) >= LruCap /\ LruCap \in Nat \ {0}
        BY <2>1, SizesAssumption DEF Full
      <4> QED BY <1>1, <4>1, EmptySeq
    <3> QED BY <1>1, <2>1, <3>1, TailIs
  <2>2. CASE ~Full
    BY <1>1, <2>2
  <2> QED BY <2>1, <2>2
<1>3. req_ids' = Append(s, k) /\ forgotten' = (forgotten \ {k}) \cup D
  OBVIOUS
<1> HIDE DEF s, D
<1>4. req_ids' \in Seq(Keys) /\ Range(req_ids') = Range(s) \cup {k}
  <2>1. s \in Seq(Keys) /\ k \in Keys
    BY <1>2
  <2>2. Append(s, k) \in Seq(Keys)
    BY <2>1
  <2>3. Range(Append(s, k)) = Range(s) \cup {k}
    BY <2>1, AppendIs
  <2> QED BY <1>3, <2>2, <2>3
<1>5. QED
  BY <1>1, <1>2, <1>3, <1>4

\* A request arrives at the handler.
LEMMA OnRequestStep ==
  ASSUME IInv, NEW k \in reqs, NEW again, OnRequest(k, again)
  PROVE  IInv'
<1>0. Types /\ Traced /\ Sent
  BY DEF IInv
<1>1. reqs' \subseteq reqs /\ UNCHANGED <<agent, ress, faults, asked, unanswered>>
  BY DEF OnRequest
<1>2. k \in asked /\ k \in Keys
  BY <1>0 DEF Traced, Types
<1>3. UNCHANGED <<boot, req_id_seed, req_data, queue, inflight, inflight_ts>>
  BY <1>1 DEF agent
<1>4. faults' \in 0 .. MaxFaults /\ faults' >= faults
  BY <1>0, <1>1, SizesAssumption DEF Types
<1>5. CASE Remembered(k)
  <2>1. req_ids' = Touch(req_ids, k) /\ UNCHANGED <<todo, times, forgotten>>
    BY <1>5 DEF OnRequest
  <2>2. req_ids' \in Seq(Keys) /\ Range(req_ids') = Range(req_ids)
    <3>1. req_ids \in Seq(Keys) /\ k \in Range(req_ids)
      BY <1>0, <1>5 DEF Types, Remembered
    <3> QED BY <2>1, <3>1, TouchIs
  <2>3. Types'
    BY <1>0, <1>1, <1>3, <2>1, <2>2 DEF Types
  <2>4. Traced' /\ Sent'
    BY <1>0, <1>1, <1>3, <2>1, <2>2 DEF Traced, Sent
  <2>5. QueuesOK' /\ Numbered' /\ Held' /\ AckedWasTaken'
    BY <1>1, <1>4, <2>1, AgentsRest
  <2> QED BY <2>3, <2>4, <2>5 DEF IInv
<1>6. CASE ~Remembered(k)
  <2>1. /\ req_ids' = Append(IF Full THEN Tail(req_ids) ELSE req_ids, k)
        /\ forgotten' = (forgotten \ {k}) \cup (IF Full THEN {Head(req_ids)} ELSE {})
        /\ todo' = Append(todo, k)
        /\ times' = [times EXCEPT ![k] = times[k] + 1]
    BY <1>6 DEF OnRequest
  <2>2. /\ req_ids' \in Seq(Keys) /\ forgotten' \in SUBSET Keys
        /\ k \in Range(req_ids')
        /\ Range(req_ids) \cup forgotten \subseteq Range(req_ids') \cup forgotten'
    BY <1>0, <1>2, <1>6, <2>1, TakenIs
  <2>3. todo' \in Seq(Keys) /\ Range(todo') = Range(todo) \cup {k}
    BY <1>0, <1>2, <2>1, AppendIs DEF Types
  <2>4. /\ times' \in [Keys -> Nat] /\ times'[k] > 0
        /\ \A j \in Keys : times[j] > 0 => times'[j] > 0
        /\ \A j \in Keys : times'[j] > 0 => times[j] > 0 \/ j = k
    BY <1>0, <1>2, <2>1 DEF Types
  <2>5. Types'
    BY <1>0, <1>1, <1>3, <2>2, <2>3, <2>4 DEF Types
  <2>6. Traced'
    <3>1. reqs' \subseteq asked' /\ ress' \subseteq asked' /\ Range(todo') \subseteq asked'
      BY <1>0, <1>1, <1>2, <2>3 DEF Traced
    <3>2. \A j \in ress' \cup Range(todo') : times'[j] > 0
      BY <1>0, <1>1, <2>3, <2>4 DEF Traced, Types
    <3>3. \A j \in Keys : times'[j] > 0 => j \in Range(req_ids') \cup forgotten'
      BY <1>0, <2>2, <2>4 DEF Traced
    <3> QED BY <3>1, <3>2, <3>3 DEF Traced
  <2>7. Sent'
    BY <1>0, <1>1, <1>3, <2>3 DEF Sent
  <2>8. QueuesOK' /\ Numbered' /\ Held' /\ AckedWasTaken'
    BY <1>1, <1>4, <2>4, AgentsRest
  <2> QED BY <2>5, <2>6, <2>7, <2>8 DEF IInv
<1>7. QED
  BY <1>5, <1>6

\* The storage answers.
LEMMA AnswerStep ==
  ASSUME IInv, Answer
  PROVE  IInv'
<1>0. Types /\ Traced /\ Sent
  BY DEF IInv
<1>1. /\ todo # <<>> /\ todo' = Tail(todo) /\ ress' = ress \cup {Head(todo)}
      /\ UNCHANGED <<agent, reqs, req_ids, faults, asked, times, forgotten, unanswered>>
  BY DEF Answer, history
<1>2. UNCHANGED <<boot, req_id_seed, req_data, queue, inflight, inflight_ts>>
  BY <1>1 DEF agent
<1>3. todo' \in Seq(Keys) /\ Range(todo) = Range(todo') \cup {Head(todo)}
  BY <1>0, <1>1, TailIs DEF Types
<1>4. Types'
  BY <1>0, <1>1, <1>2, <1>3 DEF Types
<1>5. Traced' /\ Sent'
  BY <1>0, <1>1, <1>2, <1>3 DEF Traced, Sent
<1>6. QueuesOK' /\ Numbered' /\ Held' /\ AckedWasTaken'
  BY <1>0, <1>1, SizesAssumption, AgentsRest DEF Types
<1>7. QED
  BY <1>4, <1>5, <1>6 DEF IInv

\* The connector starts again.
LEMMA CrashStep ==
  ASSUME IInv, Crash
  PROVE  IInv'
<1>0. Types /\ Traced /\ Sent
  BY DEF IInv
<1>1. /\ faults < MaxFaults /\ faults' = faults + 1
      /\ req_ids' = <<>> /\ todo' = <<>> /\ forgotten' = forgotten \cup Range(req_ids)
      /\ UNCHANGED <<agent, reqs, ress, asked, times, unanswered>>
  BY DEF Crash
<1>2. UNCHANGED <<boot, req_id_seed, req_data, queue, inflight, inflight_ts>>
  BY <1>1 DEF agent
<1>3. faults' \in 0 .. MaxFaults /\ faults' >= faults
  BY <1>0, <1>1, SizesAssumption DEF Types
<1>4. Range(<<>>) = {} /\ <<>> \in Seq(Keys)
  BY DEF Range
<1>5. Range(req_ids) \in SUBSET Keys
  BY <1>0, RangeOfSeq DEF Types
<1>6. Types'
  BY <1>0, <1>1, <1>2, <1>3, <1>4, <1>5 DEF Types
<1>7. Traced' /\ Sent'
  BY <1>0, <1>1, <1>2, <1>4 DEF Traced, Sent
<1>8. QueuesOK' /\ Numbered' /\ Held' /\ AckedWasTaken'
  BY <1>1, <1>3, AgentsRest
<1>9. QED
  BY <1>6, <1>7, <1>8 DEF IInv

\* The network loses a request or an answer.
LEMMA LoseStep ==
  ASSUME IInv, NEW k, LoseRequest(k) \/ (k \in ress /\ LoseAnswer(k))
  PROVE  IInv'
<1>0. Types /\ Traced /\ Sent
  BY DEF IInv
<1>1. /\ reqs' \subseteq reqs /\ ress' \subseteq ress
      /\ faults' = faults \/ (faults < MaxFaults /\ faults' = faults + 1)
      /\ unanswered' = unanswered \/ (k \in ress /\ unanswered' = unanswered \cup {k})
      /\ UNCHANGED <<agent, req_ids, todo, asked, times, forgotten>>
  BY DEF LoseRequest, LoseAnswer, history
<1>2. UNCHANGED <<boot, req_id_seed, req_data, queue, inflight, inflight_ts>>
  BY <1>1 DEF agent
<1>3. faults' \in 0 .. MaxFaults /\ faults' >= faults
  BY <1>0, <1>1, SizesAssumption DEF Types
<1>4. unanswered' \in SUBSET Keys
  BY <1>0, <1>1 DEF Traced, Types
<1>5. Types'
  BY <1>0, <1>1, <1>2, <1>3, <1>4 DEF Types
<1>6. Traced' /\ Sent'
  BY <1>0, <1>1, <1>2 DEF Traced, Sent
<1>7. QueuesOK' /\ Numbered' /\ Held' /\ AckedWasTaken'
  BY <1>1, <1>3, AgentsRest
<1>8. QED
  BY <1>5, <1>6, <1>7 DEF IInv

------------------------------------------------------------------------------
(* The theorems.                                                           *)

\* The invariant holds before the first event: the agents' queues are empty.
LEMMA InitInv == Init => IInv
<1> SUFFICES ASSUME Init PROVE IInv
  OBVIOUS
<1>1. Range(<<>>) = {} /\ <<>> \in Seq(Nat) /\ <<>> \in Seq(Entry) /\ <<>> \in Seq(Keys)
  BY DEF Range
<1>2. Types
  BY <1>1, FS_EmptySet, SizesAssumption DEF Init, Types
<1>3. QueuesOK
  BY QueueNew DEF Init, QueuesOK
<1>4. Numbered /\ Held /\ AckedWasTaken
  BY <1>1, SizesAssumption DEF Init, Numbered, Held, AckedWasTaken, Ids
<1>5. Traced /\ Sent
  BY <1>1 DEF Init, Traced, Sent
<1>6. QED
  BY <1>2, <1>3, <1>4, <1>5 DEF IInv

\* Every step of an agent, of the server and of the network between them keeps it.
LEMMA NextInv == IInv /\ [Next]_vars => IInv'
<1> SUFFICES ASSUME IInv, [Next]_vars PROVE IInv'
  OBVIOUS
<1>1. ASSUME NEW n \in Nodes,
             \/ Request(n) \/ Resend(n) \/ SendNew(n) \/ PopNone(n)
             \/ Older(n) \/ Restart(n) \/ \E k \in ress : OnResponse(n, k)
      PROVE  IInv'
  BY <1>1, RequestStep, ResendStep, SendNewStep, PopNoneStep, OlderStep, RestartStep,
     OnResponseStep
<1>2. ASSUME NEW k \in reqs, LoseRequest(k) \/ \E again \in BOOLEAN : OnRequest(k, again)
      PROVE  IInv'
  BY <1>2, LoseStep, OnRequestStep
<1>3. ASSUME NEW k \in ress, LoseAnswer(k) PROVE IInv'
  BY <1>3, LoseStep
<1>4. CASE Answer \/ Crash
  BY <1>4, AnswerStep, CrashStep
<1>5. CASE UNCHANGED vars
  BY <1>5 DEF vars, agent, history, IInv, Types, QueuesOK, Numbered, Held, Traced, Sent,
              AckedWasTaken, Key
<1>6. QED
  BY <1>1, <1>2, <1>3, <1>4, <1>5 DEF Next

\* The invariant holds in every state of every behaviour.
THEOREM Invariance == Spec => []IInv
BY InitInv, NextInv, PTL DEF Spec

\* Type correctness, for every number of nodes, requests and faults: the numbers
\* an agent gives out, keeps, waits for and has timers of stay in range.
THEOREM TypeSafety == Spec => []TypeOK
<1>1. IInv => TypeOK
  <2> SUFFICES ASSUME IInv PROVE TypeOK
    OBVIOUS
  <2>0. Types /\ QueuesOK /\ Numbered /\ Held /\ Traced
    BY DEF IInv
  <2>1. \A n \in Nodes : boot[n] \in 0 .. MaxFaults
    BY <2>0, SizesAssumption DEF Types, Numbered
  <2>2. ASSUME NEW n \in Nodes
        PROVE  /\ req_id_seed[n] \in 0 .. MaxAsk
               /\ \A id \in Nat : id < req_id_seed[n] => id \in Ids
    <3>1. req_id_seed[n] \in Nat
      BY <2>0 DEF Types
    <3>2. \A i \in 0 .. req_id_seed[n] - 1 : i \in Ids
      <4> SUFFICES ASSUME NEW i \in 0 .. req_id_seed[n] - 1 PROVE i \in Ids
        OBVIOUS
      <4>1. <<n, boot[n], i>> \in Keys
        BY <2>0 DEF Numbered, Types
      <4> QED BY <4>1 DEF Keys
    <3>3. req_id_seed[n] <= MaxAsk
      <4>1. CASE req_id_seed[n] = 0
        BY <4>1, SizesAssumption
      <4>2. CASE req_id_seed[n] # 0
        <5>1. req_id_seed[n] - 1 \in Ids
          BY <3>1, <3>2, <4>2
        <5> QED BY <3>1, <5>1, SizesAssumption DEF Ids
      <4> QED BY <4>1, <4>2
    <3>4. \A id \in Nat : id < req_id_seed[n] => id \in 0 .. req_id_seed[n] - 1
      BY <3>1
    <3> QED BY <3>1, <3>2, <3>3, <3>4, SizesAssumption
  <2>3. ASSUME NEW n \in Nodes
        PROVE  /\ queue[n] \in Seq(Ids) /\ inflight[n] \in SUBSET Ids
               /\ \A e \in Range(inflight_ts[n]) : /\ e.age \in 0 .. ResendAfter
                                                   /\ e.ids \in Seq(Ids) \ {<<>>}
    <3>1. QueueOK(req_id_seed[n], queue[n], inflight[n], inflight_ts[n])
      BY <2>0 DEF QueuesOK
    <3>2. /\ queue[n] \in Seq(Nat) /\ inflight[n] \in SUBSET Nat /\ inflight_ts[n] \in Seq(Entry)
          /\ \A id \in Range(queue[n]) \cup inflight[n] \cup Named(inflight_ts[n]) : id < req_id_seed[n]
      BY <3>1 DEF QueueOK
    <3>3. Range(queue[n]) \subseteq Ids /\ Named(inflight_ts[n]) \subseteq Ids /\ inflight[n] \subseteq Ids
      BY <2>2, <3>2, RangeOfSeq DEF Named
    <3>4. queue[n] \in Seq(Ids)
      <4>1. \A i \in 1 .. Len(queue[n]) : queue[n][i] \in Ids
        BY <3>2, <3>3, RangeEquality
      <4> QED BY <3>2, <4>1, LenProperties
    <3>5. ASSUME NEW e \in Range(inflight_ts[n])
          PROVE  e.age \in 0 .. ResendAfter /\ e.ids \in Seq(Ids) \ {<<>>}
      <4>1. PICK g \in DOMAIN inflight_ts[n] : e = inflight_ts[n][g]
        BY DEF Range
      <4>2. e \in Entry
        BY <3>2, RangeOfSeq
      <4>3. e.age \in 0 .. ResendAfter /\ e.ids \in Seq(Nat) /\ e.ids # <<>>
        BY <4>2 DEF Entry
      <4>4. \A i \in 1 .. Len(e.ids) : e.ids[i] \in Ids
        <5> SUFFICES ASSUME NEW i \in 1 .. Len(e.ids) PROVE e.ids[i] \in Ids
          OBVIOUS
        <5>1. Stands(inflight_ts[n], e.ids[i], g, i)
          BY <4>1, <4>3, LenProperties DEF Stands
        <5> QED BY <3>2, <3>3, <5>1, NamedIs
      <4> QED BY <4>3, <4>4, LenProperties
    <3> QED BY <3>3, <3>4, <3>5
  <2>4. \A n \in Nodes : req_data[n] \in SUBSET Ids
    <3> SUFFICES ASSUME NEW n \in Nodes PROVE req_data[n] \in SUBSET Ids
      OBVIOUS
    <3>1. req_data[n] \subseteq 0 .. req_id_seed[n] - 1 /\ req_id_seed[n] \in Nat
      BY <2>0 DEF Held, Types
    <3>2. \A id \in 0 .. req_id_seed[n] - 1 : id \in Nat /\ id < req_id_seed[n]
      BY <3>1
    <3> QED BY <2>2, <3>1, <3>2
  <2>5. /\ boot \in [Nodes -> 0 .. MaxFaults] /\ req_id_seed \in [Nodes -> 0 .. MaxAsk]
        /\ req_data \in [Nodes -> SUBSET Ids] /\ queue \in [Nodes -> Seq(Ids)]
        /\ inflight \in [Nodes -> SUBSET Ids]
    BY <2>0, <2>1, <2>2, <2>3, <2>4 DEF Types
  <2>6. reqs \subseteq Keys /\ ress \subseteq Keys
    BY <2>0 DEF Types, Traced
  <2> QED BY <2>0, <2>3, <2>5, <2>6 DEF Types, TypeOK
<1>2. QED
  BY Invariance, <1>1, PTL

\* Until its node restarts a request that is not answered waits or is in flight,
\* never both, and one in flight has exactly one timer, in the order of their age:
\* it will be sent again, and the expect of MessageQueue::pop holds.
THEOREM ResendSafety == Spec => []ResendArmed
<1>1. IInv => ResendArmed
  <2> SUFFICES ASSUME IInv, NEW n \in Nodes, boot[n] = 0
               PROVE  /\ req_data[n] = Range(queue[n]) \cup inflight[n]
                      /\ Range(queue[n]) \cap inflight[n] = {}
                      /\ Cardinality(inflight[n]) <= MaxInflight
                      /\ \A id \in inflight[n] : OneTimer(inflight_ts[n], id)
                      /\ InOrder(inflight_ts[n])
    BY DEF ResendArmed
  <2>1. QueueOK(req_id_seed[n], queue[n], inflight[n], inflight_ts[n])
    BY DEF IInv, QueuesOK
  <2>2. req_data[n] = Range(queue[n]) \cup inflight[n]
    BY DEF IInv, Held
  <2> QED BY <2>1, <2>2 DEF QueueOK
<1>2. QED
  BY Invariance, <1>1, PTL

\* Until its node restarts a request leaves the agent's books only after the
\* connector has handed it to the storage.
THEOREM AckSafety == Spec => []AckedWasTaken
<1>1. IInv => AckedWasTaken
  BY DEF IInv
<1>2. QED
  BY Invariance, <1>1, PTL

\* Agents, network and handler implement the log: a request is handed to the
\* storage once, and again only after the connector has forgotten it.
THEOREM Refinement == Spec => TakenOnce
<1>1. Init => Log!Init
  BY DEF Init, Log!Init
<1>2. IInv /\ [Next]_vars => [Log!Next]_(Log!vars)
  <2> SUFFICES ASSUME IInv, [Next]_vars PROVE Log!Next \/ UNCHANGED Log!vars
    OBVIOUS
  <2>0. Types /\ Traced
    BY DEF IInv
  <2>1. ASSUME NEW n \in Nodes, Request(n) PROVE Log!Next
    <3>1. Key(n, req_id_seed[n]) \in Keys \ asked
      BY <2>1, RequestStep
    <3>2. Log!Ask(Key(n, req_id_seed[n]))
      BY <2>1, <3>1 DEF Request, Log!Ask
    <3> QED BY <3>1, <3>2 DEF Log!Next
  <2>2. ASSUME NEW n \in Nodes,
               \/ Resend(n) \/ SendNew(n) \/ PopNone(n) \/ Older(n) \/ Restart(n)
               \/ \E k \in ress : OnResponse(n, k)
        PROVE  UNCHANGED Log!vars
    BY <2>2 DEF Resend, SendNew, PopNone, Older, Restart, OnResponse, history, Log!vars
  <2>3. ASSUME NEW k \in reqs, NEW again, OnRequest(k, again)
        PROVE  Log!Next \/ UNCHANGED Log!vars
    <3>1. CASE Remembered(k)
      BY <2>3, <3>1 DEF OnRequest, Log!vars
    <3>2. CASE ~Remembered(k)
      <4>1. k \in asked /\ k \in Keys
        BY <2>0 DEF Traced, Types
      <4>2. /\ req_ids' = Append(IF Full THEN Tail(req_ids) ELSE req_ids, k)
            /\ forgotten' = (forgotten \ {k}) \cup (IF Full THEN {Head(req_ids)} ELSE {})
            /\ times' = [times EXCEPT ![k] = @ + 1] /\ UNCHANGED asked
        BY <2>3, <3>2 DEF OnRequest
      <4>3. \E D \in SUBSET Keys : forgotten' = (forgotten \ {k}) \cup D
        BY <2>0, <3>2, <4>1, <4>2, TakenIs
      <4>4. times[k] = 0 \/ k \in forgotten
        <5>1. times[k] \in Nat
          BY <2>0, <4>1 DEF Types
        <5>2. times[k] > 0 => k \in forgotten
          BY <2>0, <3>2, <4>1 DEF Traced, Remembered
        <5> QED BY <5>1, <5>2
      <4>5. Log!Take(k)
        BY <4>1, <4>2, <4>3, <4>4 DEF Log!Take
      <4> QED BY <4>1, <4>5 DEF Log!Next
    <3> QED BY <3>1, <3>2
  <2>4. ASSUME NEW k, LoseRequest(k) \/ LoseAnswer(k) PROVE UNCHANGED Log!vars
    BY <2>4 DEF LoseRequest, LoseAnswer, history, Log!vars
  <2>5. CASE Answer
    BY <2>5 DEF Answer, history, Log!vars
  <2>6. CASE Crash
    <3>1. Range(req_ids) \in SUBSET Keys
      BY <2>0, RangeOfSeq DEF Types
    <3>2. Log!Forget
      BY <2>6, <3>1 DEF Crash, Log!Forget
    <3> QED BY <3>2 DEF Log!Next
  <2>7. CASE UNCHANGED vars
    BY <2>7 DEF vars, history, Log!vars
  <2> QED BY <2>1, <2>2, <2>3, <2>4, <2>5, <2>6, <2>7 DEF Next
<1>3. QED
  BY Invariance, <1>1, <1>2, PTL DEF Spec, TakenOnce, Log!Spec
=============================================================================
