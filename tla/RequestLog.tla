----------------------------- MODULE RequestLog -----------------------------
(***************************************************************************)
(* What the connector promises the nodes that report to it: a request is   *)
(* handed to the storage once, and a second time only when the connector   *)
(* has meanwhile lost its memory of it.                                    *)
(***************************************************************************)
EXTENDS Integers

CONSTANT Keys                 \* the requests: (source node, time, number)

VARIABLES asked,              \* the requests made so far
          times,              \* how often each was handed to the storage
          forgotten           \* those the connector no longer remembers

vars == <<asked, times, forgotten>>

Init == /\ asked = {}
        /\ times = [k \in Keys |-> 0]
        /\ forgotten = {}

Ask(k) == /\ k \notin asked
          /\ asked' = asked \cup {k}
          /\ UNCHANGED <<times, forgotten>>

\* Handing k over may push other requests out of the memory.
Take(k) == /\ k \in asked
           /\ times[k] = 0 \/ k \in forgotten
           /\ times' = [times EXCEPT ![k] = @ + 1]
           /\ \E D \in SUBSET Keys : forgotten' = (forgotten \ {k}) \cup D
           /\ UNCHANGED asked

Forget == /\ \E D \in SUBSET Keys : forgotten' = forgotten \cup D
          /\ UNCHANGED <<asked, times>>

Next == \/ \E k \in Keys : Ask(k) \/ Take(k)
        \/ Forget

Spec == Init /\ [][Next]_vars
=============================================================================
