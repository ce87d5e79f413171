--------------------------- MODULE ConnectorServer --------------------------
(***************************************************************************)
(* The two tasks of the connector process (bin/src/server/connector.rs):   *)
(* the main loop, which polls the SDN controller, hands the requests of the *)
(* agents to the storage and the answers of the storage back, and the      *)
(* storage task, which handles one request after the other.  They share a  *)
(* thread and two channels of bounded capacity, and each waits where its   *)
(* channel is full.                                                        *)
(***************************************************************************)
EXTENDS Integers, Sequences, FiniteSets

CONSTANTS
    Capacity,       \* capacity of the two channels (1024)
    Batch,          \* requests the controller has ready in one turn of the loop
    MaxRequests,    \* bound on the requests of a behaviour
    MaxDumps        \* bound on the router dumps asked for over HTTP

ASSUME SizesAssumption ==
    /\ Capacity \in Nat \ {0} /\ Batch \in Nat
    /\ MaxRequests \in Nat /\ MaxDumps \in Nat

VARIABLES
    main,       \* where the main loop is: "process", "controls", "dumps", "events"
    events,     \* outputs of the controller that are ready
    storageQ,   \* connector_storage_rx: requests for the storage task
    task,       \* the storage task: the request it handles, or 0, and its step
    controlQ,   \* connector_handler_control_rx: answers for the main loop
    answered,   \* requests that went back to the handler service, in order
    dumps,      \* router dumps: asked for, waiting for the controller, answered
    requests    \* requests that came so far

vars == <<main, events, storageQ, task, controlQ, answered, dumps, requests>>

Idle == [req |-> 0, step |-> "idle"]
Dump == 0       \* the output that is a dump of the router, others are requests

------------------------------------------------------------------------------
(* The main loop *)

\* Every request that has come is ready in the same turn.
Process_MutantAll ==
    /\ main = "process" /\ main' = "controls"
    /\ \E n \in 0 .. MaxRequests :
          /\ requests + n <= MaxRequests /\ requests' = requests + n
          /\ events' = (IF dumps.sent THEN <<Dump>> ELSE <<>>) \o [k \in 1 .. n |-> requests + k]
    /\ dumps' = [dumps EXCEPT !.sent = FALSE]
    /\ UNCHANGED <<storageQ, task, controlQ, answered>>

\* controller.process(): outputs of the controller get ready.
Process ==
    /\ main = "process" /\ main' = "controls"
    /\ \E n \in 0 .. Batch :
          /\ requests + n <= MaxRequests /\ requests' = requests + n
          /\ events' = (IF dumps.sent THEN <<Dump>> ELSE <<>>) \o [k \in 1 .. n |-> requests + k]
    /\ dumps' = [dumps EXCEPT !.sent = FALSE]
    /\ UNCHANGED <<storageQ, task, controlQ, answered>>

\* All answers that are there go to the handler service.
PopControls ==
    /\ main = "controls" /\ main' = "dumps"
    /\ answered' = answered \o controlQ
    /\ controlQ' = <<>>
    /\ UNCHANGED <<events, storageQ, task, dumps, requests>>

\* DumpRouter is sent for the dumps asked for, which now wait.
PopDumps ==
    /\ main = "dumps" /\ main' = "events"
    /\ dumps' = [dumps EXCEPT !.asked = 0, !.waiting = @ + dumps.asked, !.sent = @ \/ dumps.asked > 0]
    /\ UNCHANGED <<events, storageQ, task, controlQ, answered, requests>>

\* RouterSync: a dump answers all that wait for one.
PopDump ==
    /\ main = "events" /\ events # <<>> /\ Head(events) = Dump
    /\ events' = Tail(events)
    /\ dumps' = [dumps EXCEPT !.waiting = 0]
    /\ UNCHANGED <<main, storageQ, task, controlQ, answered, requests>>

\* Event::Req: the loop waits here while the channel is full.
PopRequest ==
    /\ main = "events" /\ events # <<>> /\ Head(events) # Dump
    /\ Len(storageQ) < Capacity
    /\ storageQ' = Append(storageQ, Head(events))
    /\ events' = Tail(events)
    /\ UNCHANGED <<main, task, controlQ, answered, dumps, requests>>

\* No more outputs: the loop sleeps, and starts again.
Sleep ==
    /\ main = "events" /\ events = <<>> /\ main' = "process"
    /\ UNCHANGED <<events, storageQ, task, controlQ, answered, dumps, requests>>

------------------------------------------------------------------------------
(* The storage task *)

\* on_tick of the storage changes nothing here.
TakeRequest ==
    /\ task = Idle /\ storageQ # <<>>
    /\ task' = [req |-> Head(storageQ), step |-> "storage"]
    /\ storageQ' = Tail(storageQ)
    /\ UNCHANGED <<main, events, controlQ, answered, dumps, requests>>

\* A storage error is not answered.
Handled_MutantSilent ==
    /\ task.step = "storage"
    /\ task' \in {Idle, [task EXCEPT !.step = "send"]}
    /\ UNCHANGED <<main, events, storageQ, controlQ, answered, dumps, requests>>

\* on_event has a response or none, which is answered by STORAGE_ERROR.
Handled ==
    /\ task.step = "storage"
    /\ task' = [task EXCEPT !.step = "send"]
    /\ UNCHANGED <<main, events, storageQ, controlQ, answered, dumps, requests>>

\* The task waits here while the channel is full.
SendControl ==
    /\ task.step = "send" /\ Len(controlQ) < Capacity
    /\ controlQ' = Append(controlQ, task.req)
    /\ task' = Idle
    /\ UNCHANGED <<main, events, storageQ, answered, dumps, requests>>

AskDump ==
    /\ dumps.total < MaxDumps
    /\ dumps' = [dumps EXCEPT !.total = @ + 1, !.asked = @ + 1]
    /\ UNCHANGED <<main, events, storageQ, task, controlQ, answered, requests>>

------------------------------------------------------------------------------
Init ==
    /\ main = "process" /\ events = <<>> /\ storageQ = <<>> /\ task = Idle /\ controlQ = <<>>
    /\ answered = <<>> /\ requests = 0
    /\ dumps = [total |-> 0, asked |-> 0, sent |-> FALSE, waiting |-> 0]

MainLoop == Process \/ PopControls \/ PopDumps \/ PopDump \/ PopRequest \/ Sleep
StorageTask == TakeRequest \/ Handled \/ SendControl
Next == MainLoop \/ StorageTask \/ AskDump

Spec == Init /\ [][Next]_vars

\* Both tasks are polled when they can go on.
Fairness == WF_vars(MainLoop) /\ WF_vars(StorageTask)

------------------------------------------------------------------------------
(* Properties *)

\* The channels keep their capacity, dumps their bound.
TypeOK ==
    /\ Len(storageQ) <= Capacity /\ Len(controlQ) <= Capacity
    /\ dumps.asked + dumps.waiting <= MaxDumps

\* The loop and the storage task never wait for each other (the two sends with
\* await): true as long as one turn of the loop finds at most as many requests
\* ready as a channel holds, also when the storage still has a channel full.
NotStuck ==
    ~(/\ main = "events" /\ events # <<>> /\ Head(events) # Dump /\ Len(storageQ) = Capacity
      /\ task.step = "send" /\ Len(controlQ) = Capacity)

\* A request is answered once, in the order of arrival: none is lost or doubled
\* between the loop and the task.
AnsweredInOrder == answered = [k \in 1 .. Len(answered) |-> k]

\* Every request is answered, also one the storage fails at, and every router
\* dump that is asked for.
AllAnswered == []<>(Len(answered) = requests /\ dumps.asked + dumps.waiting = 0)
==============================================================================
