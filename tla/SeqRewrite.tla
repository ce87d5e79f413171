---------------------------- MODULE SeqRewrite ----------------------------
(***************************************************************************)
(* The numbers of forwarded packets (media_utils seq_rewrite.rs and        *)
(* seq_extend.rs): a local track renumbers the packets it forwards so that *)
(* packets it drops and sources it leaves behind make no gap, and the      *)
(* WebRTC transport extends the 16 bit numbers for str0m.  Packets may be  *)
(* lost or late.  offset() has no caller and is left out.                  *)
(*                                                                         *)
(* The reference is the place of a packet among those that were not        *)
(* dropped, counted without wrapping.                                      *)
(***************************************************************************)
EXTENDS Integers, FiniteSets, FiniteSetsExt

CONSTANTS
    MAX,        \* the numbers are 0 .. MAX - 1
    Kept,       \* dropped numbers that are remembered, 1000 in the code
    Starts,     \* first numbers of a source
    MaxNumber,  \* bound on the numbers of a source, counted without wrapping
    Lag,        \* bound on how many numbers late a packet is
    Run,        \* bound on the packets dropped or lost in a row
    Sources,    \* bound on the changes of the source
    AcrossWrap  \* may packets be late although the numbers have wrapped, or come
                \* late from before the first packet of the source

VARIABLES
    rw,         \* the track's SeqRewrite
    ext,        \* the transport's RtpSeqExtend
    n,          \* the highest number of the source so far, or -1
    since,      \* the first number of the source
    lost,       \* numbers that did not arrive, and may be late
    gone,       \* numbers that were dropped when nothing above them was forwarded
    origin,     \* the place of the source's number 0
    top,        \* the highest place that was forwarded, 0 at first
    high,       \* the highest number that was forwarded, or the first minus one
    out,        \* the last packet that was forwarded: its place and its numbers
    left        \* changes of the source that may still happen

vars == <<rw, ext, n, since, lost, gone, origin, top, high, out, left>>

Half == MAX \div 2
Nil == -1

-----------------------------------------------------------------------------
(* SeqRewrite *)

wrapping_sub(v1, v2) == IF v1 >= v2 THEN v1 - v2 ELSE v1 + MAX - v2
wrapping_add(v1, v2) == (v1 + v2) % MAX

is_seq_higher_than(lhs, rhs) ==
    \/ lhs > rhs /\ lhs - rhs <= Half
    \/ rhs > lhs /\ rhs - lhs > Half

\* The highest output is forgotten.
sync_MutantRestarts(w, value) ==
    [w EXCEPT !.base = wrapping_sub(0, value), !.max_input = value, !.seq_delta = 0, !.dropped = {}]

\* The next number of the new source follows the highest that was given.
sync(w, value) ==
    [w EXCEPT !.base = wrapping_sub(w.max_output, value), !.max_input = value, !.seq_delta = 0, !.dropped = {}]

\* The first number after a reinit starts the new source.
Synced(w, input) ==
    IF w.reinit THEN [sync(w, wrapping_sub(input, 1)) EXCEPT !.reinit = FALSE] ELSE w

\* A number far below the highest belongs to the next cycle.
extended_seq(w, value) ==
    [w EXCEPT !.seq_delta = IF value < w.max_input /\ w.max_input - value > Half THEN @ + MAX ELSE @]

\* The oldest of too many dropped numbers moves into the base.
Trimmed(w) ==
    IF Cardinality(w.dropped) <= Kept THEN w
    ELSE [w EXCEPT !.dropped = @ \ {Min(@)}, !.base = wrapping_sub(@, 1)]

\* A number above the highest that was given is remembered as dropped.
drop_value(w, input) ==
    LET x == extended_seq(Synced(w, input), input) IN
    Trimmed(IF is_seq_higher_than(input, x.max_input) THEN [x EXCEPT !.dropped = @ \cup {x.seq_delta + input}] ELSE x)

\* The output: none for a dropped number; otherwise the numbers that were dropped
\* below it are left out.
generate(w, input) ==
    LET x == extended_seq(Synced(w, input), input)
        extended == x.seq_delta + input
        base == wrapping_sub(x.base, Cardinality({d \in x.dropped : d < extended}))
        output == wrapping_add(input, base) IN
    IF extended \in x.dropped THEN [w |-> x, output |-> Nil]
    ELSE [w |-> [x EXCEPT !.max_input = IF wrapping_sub(input, x.max_input) < Half THEN input ELSE @,
                          !.max_output = IF wrapping_sub(output, x.max_output) < Half THEN output ELSE @],
          output |-> output]

-----------------------------------------------------------------------------
(* RtpSeqExtend *)

\* The extended number: a value far above the last one is of the cycle before, one
\* far below starts the next cycle.
extend(e, value) ==
    IF e.last_seq = Nil THEN [e |-> [e EXCEPT !.last_seq = value], value |-> value]
    ELSE IF value > e.last_seq /\ value - e.last_seq > Half
    THEN [e |-> e, value |-> IF value + e.seq_delta > MAX THEN value + e.seq_delta - MAX ELSE Nil]
    ELSE LET delta == IF value < e.last_seq /\ e.last_seq - value > Half THEN e.seq_delta + MAX ELSE e.seq_delta IN
         [e |-> [last_seq |-> value, seq_delta |-> delta], value |-> value + delta]

-----------------------------------------------------------------------------
(* Packets *)

\* The place of a number among those that were not dropped.
Place(o, g, m) == o + m - Cardinality({d \in g : d < m})

\* The packet is forwarded (PacketSelector::select) and numbered for the wire.
Forward(m, o, g) ==
    LET r == generate(rw, m % MAX) IN
    /\ rw' = r.w
    /\ IF r.output = Nil THEN ext' = ext /\ out' = [place |-> Place(o, g, m), seq |-> Nil, extended |-> Nil]
       ELSE LET e == extend(ext, r.output) IN
            /\ ext' = e.e
            /\ out' = [place |-> Place(o, g, m), seq |-> r.output, extended |-> e.value]

\* The next packet of the source, after some that are lost; the first packet of
\* a source may have any number.
Arrive(m, forwarded) ==
    LET o == IF rw.reinit THEN top + 1 - m ELSE origin
        g == IF rw.reinit THEN {} ELSE gone
        h == IF rw.reinit THEN m - 1 ELSE high IN
    /\ IF rw.reinit THEN m \in Starts ELSE m \in n + 1 .. n + Run
    /\ m <= MaxNumber /\ m - h <= Run
    /\ n' = m /\ origin' = o /\ since' = IF rw.reinit THEN m ELSE since
    /\ lost' = {x \in (IF rw.reinit THEN 0 .. m - 1 ELSE lost \cup (n + 1 .. m - 1)) : m - x <= Lag}
    /\ IF forwarded
       THEN Forward(m, o, g) /\ gone' = g /\ high' = m /\ top' = Place(o, g, m)
       ELSE rw' = drop_value(rw, m % MAX) /\ gone' = g \cup {m} /\ high' = h /\ UNCHANGED <<ext, top, out>>
    /\ UNCHANGED left

\* A packet that was late.
Late(m, forwarded) ==
    /\ m \in lost /\ ~rw.reinit
    /\ AcrossWrap \/ (m > since /\ (since - 1) \div MAX = n \div MAX)
    /\ lost' = lost \ {m}
    /\ IF forwarded
       THEN Forward(m, origin, gone) /\ high' = Max({high, m}) /\ top' = Max({top, Place(origin, gone, m)}) /\ UNCHANGED gone
       ELSE /\ rw' = drop_value(rw, m % MAX)
            /\ gone' = IF m > high THEN gone \cup {m} ELSE gone
            /\ UNCHANGED <<ext, high, top, out>>
    /\ UNCHANGED <<n, since, origin, left>>

\* The track changes its source or its layer.
reinit ==
    /\ left > 0 /\ ~rw.reinit
    /\ rw' = [rw EXCEPT !.reinit = TRUE]
    /\ left' = left - 1
    /\ UNCHANGED <<ext, n, since, lost, gone, origin, top, high, out>>

Init ==
    /\ rw = [base |-> 0, max_output |-> 0, max_input |-> 0, seq_delta |-> 0, dropped |-> {}, reinit |-> TRUE]
    /\ ext = [last_seq |-> Nil, seq_delta |-> 0]
    /\ n = Nil /\ since = Nil /\ lost = {} /\ gone = {} /\ origin = 0 /\ top = 0 /\ high = Nil
    /\ out = [place |-> Nil, seq |-> Nil, extended |-> Nil]
    /\ left = Sources

Next ==
    \/ \E m \in 0 .. MaxNumber, forwarded \in BOOLEAN : Arrive(m, forwarded) \/ Late(m, forwarded)
    \/ reinit

Spec == Init /\ [][Next]_vars

-----------------------------------------------------------------------------
(* Properties *)

\* The rewriter's numbers stay below MAX (its assertions), and no more dropped
\* numbers are remembered than the limit (drop_value).
TypeOK ==
    /\ rw.base \in 0 .. MAX - 1 /\ rw.max_output \in 0 .. MAX - 1 /\ rw.max_input \in 0 .. MAX - 1
    /\ Cardinality(rw.dropped) <= Kept

\* The number a packet is given is its place among the packets that were not
\* dropped, over all sources, whatever was lost, dropped or late: dropped packets
\* and left sources make no gap, lost ones keep theirs, and no number is given
\* twice ("Count dropped entries before 'input' in order to adapt the base").
Numbered == out.place # Nil => out.seq = out.place % MAX

\* The number on the wire counts on over the wraps of the rewritten one, also when
\* packets of two cycles are mixed (RtpSeqExtend in the transport).
Extended == out.place # Nil => out.extended = out.place
=============================================================================
