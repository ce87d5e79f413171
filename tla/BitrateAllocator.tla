-------------------------- MODULE BitrateAllocator --------------------------
(***************************************************************************)
(* Sharing an endpoint's bitrate among its video tracks                    *)
(* (endpoint/internal/bitrate_allocator.rs, egress.rs and ingress.rs, with *)
(* the parts of local_track.rs and remote_track.rs that register a track   *)
(* and apply its share).  The outputs of a tick are popped before the next *)
(* input, so they are part of the tick.                                    *)
(*                                                                         *)
(* An endpoint views (as of WHEP) or publishes (as of WHIP); one that does *)
(* both has two independent allocators.                                    *)
(***************************************************************************)
EXTENDS Integers, FiniteSets, FiniteSetsExt

CONSTANTS
    Tracks,
    Priorities,     \* TrackPriority, 0 among them
    Width,          \* priorities are added modulo Width, 2^32 in the code
    Estimates,      \* estimates of the transport
    MaxEgress,      \* max_egress_bitrate
    Ingress,        \* max_ingress_bitrate
    Default,        \* DEFAULT_BITRATE_BPS
    Limits          \* what consumers ask of a remote track, [min, max]

VARIABLES
    views,          \* whether this is the egress side
    bound,          \* local tracks with a source, or remote tracks that have started
    tracks,         \* the allocator's tracks with their priorities; Nil if it has not the track
    changed,
    estimate,       \* egress_bitrate
    bwe,            \* the last BweConfig: current and desired bitrate
    share,          \* the last bitrate a track was given, or Nil
    control,        \* remote: whether the consumers limit the track (DynamicConsumers)
    cluster,        \* remote: cluster_bitrate_limit
    limit           \* remote: the last LimitBitrateBps the transport was told

vars == <<views, bound, tracks, changed, estimate, bwe, share, control, cluster, limit>>
remote == <<control, cluster, limit>>

Nil == -1
Idle == [current |-> 1, desired |-> 3]   \* NO_TRACK_BWE_CURRENT, NO_TRACK_BWE_DESIRED
NoLimit == [min |-> Nil, max |-> Nil]
Min2(a, b) == IF a < b THEN a ELSE b

Known == {t \in Tracks : tracks[t] # Nil}
Total == FoldSet(LAMBDA t, acc : acc + tracks[t], 0, Known)

\* set_video_track, del_video_track.
Set(t, priority) == tracks' = [tracks EXCEPT ![t] = priority] /\ changed' = TRUE

\* The other tracks are not shared out anew.
Del_MutantQuiet(t) == tracks' = [tracks EXCEPT ![t] = Nil] /\ changed' = changed

Del(t) == tracks' = [tracks EXCEPT ![t] = Nil] /\ changed' = TRUE

-----------------------------------------------------------------------------
(* Local tracks. *)

\* on_rpc_req Attach: a priority of 0 is refused; a bound track is unbound first.
Attach(t, priority) ==
    /\ views
    /\ IF priority = 0 THEN UNCHANGED <<bound, tracks, changed>>
       ELSE bound' = bound \cup {t} /\ Set(t, priority)
    /\ UNCHANGED <<views, estimate, bwe, share, remote>>

\* on_rpc_req Detach, and LeaveRoom.
Detach(t) ==
    /\ views /\ t \in bound
    /\ bound' = bound \ {t} /\ Del(t)
    /\ UNCHANGED <<views, estimate, bwe, share, remote>>

\* on_rpc_req Config of a local track: bound or not, whatever the priority.
LocalConfig(t, priority) ==
    /\ views
    /\ Set(t, priority)
    /\ UNCHANGED <<views, bound, estimate, bwe, share, remote>>

\* EgressBitrateEstimate: limited to the maximum.
Estimate(bitrate) ==
    /\ views
    /\ estimate' = Min2(bitrate, MaxEgress) /\ changed' = TRUE
    /\ UNCHANGED <<views, bound, tracks, bwe, share, remote>>

-----------------------------------------------------------------------------
(* Remote tracks. *)

\* calc_limit_bitrate.
calc_limit_bitrate(b, c, dynamic) ==
    LET consumers == IF dynamic THEN c ELSE NoLimit IN
    IF b = Nil THEN consumers
    ELSE IF consumers = NoLimit THEN [min |-> b, max |-> b]
    ELSE [min |-> Min2(consumers.min, b), max |-> Min2(consumers.max, b)]

\* RemoteTrackEvent::Started.
Started(t, priority, dynamic) ==
    /\ ~views /\ t \notin bound
    /\ bound' = bound \cup {t} /\ Set(t, priority)
    /\ share' = [share EXCEPT ![t] = Nil] /\ control' = [control EXCEPT ![t] = dynamic]
    /\ cluster' = [cluster EXCEPT ![t] = NoLimit] /\ limit' = [limit EXCEPT ![t] = NoLimit]
    /\ UNCHANGED <<views, estimate, bwe>>

\* Stopped.
Stopped(t) ==
    /\ ~views /\ t \in bound
    /\ bound' = bound \ {t} /\ Del(t)
    /\ UNCHANGED <<views, estimate, bwe, share, remote>>

\* on_rpc_req Config of a remote track.
RemoteConfig(t, priority, dynamic) ==
    /\ ~views /\ t \in bound
    /\ IF priority = 0 THEN UNCHANGED <<tracks, changed, control>>
       ELSE control' = [control EXCEPT ![t] = dynamic] /\ Set(t, priority)
    /\ UNCHANGED <<views, bound, estimate, bwe, share, cluster, limit>>

\* LimitBitrate of the consumers.
LimitBitrate(t, c) ==
    /\ ~views /\ t \in bound
    /\ cluster' = [cluster EXCEPT ![t] = c]
    /\ limit' = IF control[t] THEN [limit EXCEPT ![t] = calc_limit_bitrate(share[t], c, TRUE)] ELSE limit
    /\ UNCHANGED <<views, bound, tracks, changed, estimate, bwe, share, control>>

-----------------------------------------------------------------------------
\* Each track's part of the bitrate, by its priority; none is given if the
\* priorities add up to 0.
Parts(use) ==
    LET sum == Total % Width IN
    [t \in Tracks |-> IF t \in Known /\ sum # 0 THEN (use * tracks[t]) \div sum ELSE share[t]]

\* process of EgressBitrateAllocator: the pacer of the transport is set as well.
process_egress ==
    LET use == Min2(estimate, MaxEgress) IN
    /\ share' = Parts(use)
    /\ bwe' = IF Known = {} THEN Idle ELSE [current |-> use, desired |-> Min2((use * 6) \div 5, MaxEgress)]

\* process of IngressBitrateAllocator.
process_ingress == share' = Parts(Ingress) /\ UNCHANGED bwe

\* on_bitrate_allocation_action of a remote track: the sender is told its limit.
on_bitrate_allocation_action(t) ==
    IF t \in Known /\ Total % Width # 0 THEN calc_limit_bitrate(share'[t], cluster[t], control[t]) ELSE limit[t]

\* on_tick, pop_bitrate_allocator.  A local track that is not bound is given its
\* bitrate too.
Tick ==
    /\ changed
    /\ changed' = FALSE
    /\ IF views THEN process_egress /\ UNCHANGED limit
       ELSE process_ingress /\ limit' = [t \in Tracks |-> on_bitrate_allocation_action(t)]
    /\ UNCHANGED <<views, bound, tracks, estimate, control, cluster>>

Init ==
    /\ views \in BOOLEAN
    /\ bound = {} /\ tracks = [t \in Tracks |-> Nil] /\ changed = FALSE /\ estimate = Default /\ bwe = Idle
    /\ share = [t \in Tracks |-> Nil] /\ control = [t \in Tracks |-> FALSE]
    /\ cluster = [t \in Tracks |-> NoLimit] /\ limit = [t \in Tracks |-> NoLimit]

Next ==
    \/ \E t \in Tracks, p \in Priorities : Attach(t, p) \/ LocalConfig(t, p)
    \/ \E t \in Tracks : Detach(t) \/ Stopped(t)
    \/ \E b \in Estimates : Estimate(b)
    \/ \E t \in Tracks, p \in Priorities, d \in BOOLEAN : Started(t, p, d) \/ RemoteConfig(t, p, d)
    \/ \E t \in Tracks, c \in Limits : LimitBitrate(t, c)
    \/ Tick

Spec == Init /\ [][Next]_vars

-----------------------------------------------------------------------------
(* Properties *)

Settled == ~changed /\ Known # {} /\ Total \in 1 .. Width - 1

\* After the tick that follows a change, what the tracks were given adds up to the
\* bitrate there is, but for what the division loses on each track: nothing is
\* given twice, what a track that went had is shared out again, and the pacer lets
\* through what the tracks were given (process).
SharesFit ==
    Settled =>
        LET use == IF views THEN Min2(estimate, MaxEgress) ELSE Ingress
            given == FoldSet(LAMBDA t, acc : acc + share[t], 0, Known) IN
        /\ given <= use /\ use - given < Cardinality(Known)
        /\ views => given <= bwe.current /\ bwe.current <= bwe.desired /\ bwe.desired <= MaxEgress

\* After that tick the sender of every started track was told the limit that its
\* mode, its share and its consumers call for now (calc_limit_bitrate is not called
\* when the mode changes).
LimitCurrent ==
    Settled => \A t \in bound : views \/ limit[t] = calc_limit_bitrate(share[t], cluster[t], control[t])
=============================================================================
