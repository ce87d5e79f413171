---------------------------- MODULE ControlStream ----------------------------
(***************************************************************************)
(* What the publishing and subscribing halves of a room share: maps from a *)
(* channel to its users, and the stream of outputs a half emits for each   *)
(* channel towards the pub/sub network, which executes it in order.        *)
(***************************************************************************)
EXTENDS Naturals, Sequences

Empty == [x \in {} |-> {}]

\* IndexMap::swap_remove.
Without(f, x) == [y \in DOMAIN f \ {x} |-> f[y]]

\* IndexMap::insert.
With(f, x, v) == [y \in DOMAIN f \union {x} |-> IF y = x THEN v ELSE f[y]]

\* map.get(&x) of a map of sets, an absent key standing for no members.
Members(f, x) == IF x \in DOMAIN f THEN f[x] ELSE {}

\* Put v at x, dropping the key when nothing is left.
Keep(f, x, v) == IF v = {} THEN Without(f, x) ELSE With(f, x, v)

\* Maps from some of S to sets of members of T.
SetMap(S, T) == UNION {[D -> SUBSET T] : D \in SUBSET S}

-----------------------------------------------------------------------------
\* Outputs: Start is PubStart or SubAuto, Stop is PubStop or UnsubAuto, Data is
\* PubData, FeedbackAuto or an event that carries what arrived on the channel to
\* its users.
Op == {"Start", "Stop", "Data"}

\* What the network does with a control.
Apply(S, c, op) ==
  CASE op = "Start" -> S \union {c}
    [] op = "Stop"  -> S \ {c}
    [] op = "Data"  -> S

\* 1 when the channel is on for S, 0 when it is off.
Level(c, S) == IF c \in S THEN 1 ELSE 0

\* A queue q is a legal stream for a channel whose level in the network is
\* "was" now and "will" once q is drained: a start only when the channel is
\* off, a stop or data only when it is on.
Legal(q, was, will) ==
  \E lv \in [0..Len(q) -> 0..1] :
    /\ lv[0] = was /\ lv[Len(q)] = will
    /\ \A i \in 1..Len(q) :
         /\ q[i] = "Start" => lv[i-1] = 0 /\ lv[i] = 1
         /\ q[i] = "Stop" => lv[i-1] = 1 /\ lv[i] = 0
         /\ q[i] = "Data" => lv[i-1] = 1 /\ lv[i] = 1
=============================================================================
