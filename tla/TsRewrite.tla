----------------------------- MODULE TsRewrite -----------------------------
(***************************************************************************)
(* The timestamps of forwarded packets (media_utils ts_rewrite.rs): a      *)
(* local track moves the timestamps of its source to a time line of its    *)
(* own, which starts at the node's clock with every new source.  A source  *)
(* may run ahead of the clock, and packets may be late.  One tick of the   *)
(* clock is one timestamp.                                                 *)
(***************************************************************************)
EXTENDS Integers, FiniteSetsExt

CONSTANTS
    TS_LIMIT,           \* timestamps are 0 .. TS_LIMIT - 1
    TS_DELTA_REINIT,    \* distance to the last timestamp when the clock is behind
    Starts,             \* first timestamps of a source
    Step,               \* bound on how far two packets in a row are apart
    Lag,                \* bound on how late a packet is
    MaxClock,           \* bound on the clock
    MaxStamp,           \* bound on the timestamps of a source, without wrapping
    Switches,           \* bound on the changes of the source
    WrappedAhead        \* may a source that wrapped be ahead of the clock when it
                        \* is left

VARIABLES
    tr,         \* the track's TsRewrite
    clock,      \* now_ms
    stamp,      \* the highest timestamp of the source, counted without wrapping
    since,      \* the first timestamp of the source
    origin,     \* the place of the source's timestamp 0 on the track's time line
    out,        \* the last packet: its place, and the timestamp it was given
    left        \* changes of the source that may still happen

vars == <<tr, clock, stamp, since, origin, out, left>>

Half == TS_LIMIT \div 2

\* Reinit: the clock, or a little after the last timestamp when that is later.
\* FirstInit is never used: the first packet is one of a new source.
Start(t, now) == IF now < t.last_extended_ts THEN t.last_extended_ts + TS_DELTA_REINIT ELSE now

\* The new timestamp, cut to the width of a timestamp by the caller.  A timestamp
\* far above the last is of the cycle before and is not remembered.  last_rtp_ts is
\* set before it is compared, so the next cycle is never noticed: the offset stays.
generate(t, now, rtp_ts) ==
    LET d == IF t.state = "reinit" THEN Start(t, now) - rtp_ts ELSE t.delta_ts IN
    [t |-> IF t.state # "reinit" /\ t.last_rtp_ts + Half < rtp_ts THEN t
           ELSE [state |-> "rewriting", delta_ts |-> d, last_rtp_ts |-> rtp_ts, last_extended_ts |-> d + rtp_ts],
     ts |-> (d + rtp_ts) % TS_LIMIT]

\* A packet of the source; the clock has moved on by as much as it likes.
Packet(s, now) ==
    LET r == generate(tr, now, s % TS_LIMIT)
        first == tr.state = "reinit"
        o == IF first THEN (IF now < out.place THEN out.place + TS_DELTA_REINIT ELSE now) - s ELSE origin IN
    /\ IF first THEN s \in Starts ELSE s \in Max({since, stamp - Lag}) .. stamp + Step
    /\ first /\ since \div TS_LIMIT # stamp \div TS_LIMIT /\ ~WrappedAhead => now >= out.place
    /\ now \in clock .. Min({clock + Step, MaxClock})
    /\ tr' = r.t /\ clock' = now
    /\ stamp' = IF first THEN s ELSE Max({stamp, s})
    /\ since' = IF first THEN s ELSE since
    /\ origin' = o
    /\ out' = [place |-> o + s, ts |-> r.ts]
    /\ UNCHANGED left

\* reinit: the source or the layer has changed.
reinit ==
    /\ tr.state = "rewriting" /\ left > 0
    /\ left' = left - 1
    /\ tr' = [tr EXCEPT !.state = "reinit", !.delta_ts = 0]
    /\ UNCHANGED <<clock, stamp, since, origin, out>>

Init ==
    /\ tr = [state |-> "reinit", delta_ts |-> 0, last_rtp_ts |-> 0, last_extended_ts |-> 0]
    /\ clock = 0 /\ stamp = 0 /\ since = 0 /\ origin = 0
    /\ out = [place |-> 0, ts |-> 0] /\ left = Switches

Next == reinit \/ \E s \in 0 .. MaxStamp, now \in 0 .. MaxClock : Packet(s, now)

Spec == Init /\ [][Next]_vars

-----------------------------------------------------------------------------
(* Properties *)

\* A track's timestamps are the source's, moved so that a new source starts at the
\* clock or after the last timestamp: they keep the source's distances, over wraps
\* and late packets, and never jump back at a switch (generate).
Stamped == out.ts = out.place % TS_LIMIT
=============================================================================
