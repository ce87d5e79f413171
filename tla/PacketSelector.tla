--------------------------- MODULE PacketSelector ---------------------------
(* How a local track picks, out of the layers a video source sends, the      *)
(* packets it forwards (media_core endpoint/internal/local_track.rs,         *)
(* packet_selector.rs and its four selectors).                               *)
(*                                                                           *)
(* A packet is told apart by its channel, its layer and the flags the        *)
(* selectors read.  Sequence numbers are left to SeqRewrite; here a rewriter *)
(* is the stream it is synchronised with: a reinit forgets it, the next      *)
(* number handed to it, forwarded or dropped, fixes it again.                *)
EXTENDS Integers, Sequences, FiniteSets

CONSTANTS
    Codecs,       \* the kinds of source explored
    Channels,     \* cluster channels a source may publish on, numbers from 1
    Tables,       \* the layer bitrates a source may announce (kbps)
    Rates,        \* the bitrates the allocator may set (kbps)
    Limits,       \* the (max spatial, max temporal) a viewer may set
    TopTemporal,  \* the highest temporal layer (2 in the code)
    Interval,     \* REQUEST_KEY_FRAME_INTERVAL_MS, in ticks
    MaxChanges    \* bound on changes of bitrate, limit, layers and source

VARIABLES
    codec,      \* what the source sends: "vp8", "h264" (simulcast), "vp9" (svc), "single"
    channel,    \* selected_channel (0: None)
    need_key,   \* need_key_frame
    key_age,    \* ticks since last_key_frame_ts (Never: None)
    queued,     \* PacketSelector.queue holds a RequestKeyFrame
    sel,        \* selector
    bitrate,    \* bitrate (Nil: -1)
    limit,      \* limit
    seq,        \* the stream seq_rewrite (and ts_rewrite) is synchronised with
    pic,        \* the stream pic_id_rewrite is synchronised with
    owed,       \* layers whose source has been asked for a key frame it has not sent yet
    frame,      \* the frame of the svc source that is being sent
    last,       \* what became of the last packet
    changes     \* changes made so far

vars == <<codec, channel, need_key, key_age, queued, sel, bitrate, limit, seq, pic, owed, frame, last, changes>>

Nil == -1
Never == -1
Layers == 0 .. 1
Temporals == 0 .. TopTemporal
NoLayer == [spatial |-> Nil, temporal |-> Nil]
Layer == [spatial : Layers, temporal : Temporals]
NoStream == <<0, 0>>
Keys == <<"key0", "key1">>
NoSelector == [made |-> FALSE, current |-> NoLayer, target |-> NoLayer, layers |-> <<>>,
               rate |-> Nil, asks |-> FALSE, pre_end |-> FALSE]
NoFrame == [open |-> FALSE, spatial |-> 0, temporal |-> 0]
NoPacket == [event |-> "none", sent |-> FALSE, missed |-> FALSE, stream |-> NoStream]

(* The numbering a packet belongs to: each simulcast layer has its own, the  *)
(* layers of an svc source share one; a key frame is asked for accordingly.  *)
Asked == IF codec \in {"vp8", "h264"} THEN Layers ELSE {0}
Stream(p) == IF codec \in {"vp8", "h264"} THEN <<p.channel, p.spatial + 1>> ELSE <<p.channel, 1>>

-----------------------------------------------------------------------------
(* select_layer: the last layer, in spatial then temporal order, that the    *)
(* bitrate can carry within the limits; the lowest one when there is none.   *)
Affordable(layers, rate, lim) ==
    {l \in Layer : /\ l.spatial <= lim[1] /\ l.temporal <= lim[2]
                   /\ l.spatial < Len(layers) /\ l.temporal < Len(layers[l.spatial + 1])
                   /\ rate >= layers[l.spatial + 1][l.temporal + 1]}

Below(a, b) == a.spatial < b.spatial \/ (a.spatial = b.spatial /\ a.temporal <= b.temporal)

select_layer(layers, rate, lim) ==
    LET fit == Affordable(layers, rate, lim)
    IN IF fit = {} THEN [spatial |-> 0, temporal |-> 0] ELSE CHOOSE l \in fit : \A m \in fit : Below(m, l)

(* The target of a selector; the H264 one keeps only the spatial layer.      *)
Target(layers, rate, lim) ==
    LET l == select_layer(layers, rate, lim)
    IN IF codec = "h264" THEN [l EXCEPT !.temporal = 0] ELSE l

(* create_selector, the first key packet's layers or the default ones.       *)
create_selector(layers, rate, lim) ==
    [NoSelector EXCEPT !.made = TRUE, !.layers = layers, !.rate = rate,
                       !.target = IF codec = "single" THEN NoLayer ELSE Target(layers, rate, lim)]

(* Does a new target ask for a key frame at once?  Simulcast: whenever the   *)
(* spatial layer changes; svc (never k-svc): when it goes up.                *)
AsksVp9(cur, t) == cur = NoLayer \/ t.spatial > cur.spatial
AsksSim(cur, t) == cur = NoLayer \/ t.spatial # cur.spatial

Retarget(s, lim) ==
    IF ~s.made \/ codec = "single" THEN s
    ELSE LET t == Target(s.layers, s.rate, lim)
             a == IF codec = "vp9" THEN AsksVp9(s.current, t) ELSE AsksSim(s.current, t)
         IN [s EXCEPT !.target = t, !.asks = s.asks \/ (t # s.target /\ a)]

-----------------------------------------------------------------------------
(* try_switch of each selector, for a target that differs from the current   *)
(* layer: the next current layer, whether a key frame is asked for, and the  *)
(* rewriters that are reinitialised.                                         *)
Switched(cur, asks, fresh) == [current |-> cur, asks |-> asks, fresh |-> fresh]

EveryRewriter == {"seq", "pic"}

SwitchVp8(s, p) ==
    LET c == s.current
        t == s.target
        up == p.spatial = c.spatial /\ p.sync
    IN CASE c = NoLayer -> IF p.key THEN Switched(t, FALSE, {"pic"}) ELSE Switched(c, FALSE, {})
         [] t.spatial = c.spatial /\ t.temporal > c.temporal ->
                Switched(IF up /\ p.temporal <= t.temporal THEN t ELSE c, FALSE, {})
         [] t.spatial = c.spatial /\ t.temporal < c.temporal -> Switched(t, FALSE, {})
         [] t.spatial < c.spatial ->
                IF p.key THEN Switched(t, FALSE, EveryRewriter)
                ELSE Switched([c EXCEPT !.temporal = 0], TRUE, {})
         [] t.spatial > c.spatial ->
                IF p.key THEN Switched(t, FALSE, EveryRewriter)
                ELSE Switched(IF up THEN [c EXCEPT !.temporal = TopTemporal] ELSE c, TRUE, {})

SwitchH264_MutantSilent(s, p) ==
    CASE p.key -> Switched(s.target, FALSE, IF s.current = NoLayer THEN {} ELSE {"seq"})
      [] ~p.key -> Switched(s.current, FALSE, {})

SwitchH264(s, p) ==
    CASE p.key -> Switched(s.target, FALSE, IF s.current = NoLayer THEN {} ELSE {"seq"})
      [] ~p.key -> Switched(s.current, s.current # NoLayer, {})

SwitchVp9(s, p) ==
    LET c == s.current
        t == s.target
        up == p.spatial = c.spatial /\ p.temporal > c.temporal /\ p.sync /\ s.pre_end
    IN CASE c = NoLayer -> IF p.key THEN Switched(t, FALSE, {"pic"}) ELSE Switched(c, FALSE, {})
         [] t.spatial = c.spatial /\ t.temporal > c.temporal -> Switched(IF up THEN t ELSE c, FALSE, {})
         [] t.spatial = c.spatial /\ t.temporal < c.temporal -> Switched(IF s.pre_end THEN t ELSE c, FALSE, {})
         [] t.spatial < c.spatial ->
                IF s.pre_end THEN Switched(t, FALSE, EveryRewriter) ELSE Switched(c, FALSE, {})
         [] t.spatial > c.spatial ->
                IF p.key THEN Switched(t, FALSE, EveryRewriter)
                ELSE Switched(IF up THEN [c EXCEPT !.temporal = TopTemporal] ELSE c, TRUE, {})

try_switch(s, p) ==
    IF codec = "single" \/ s.target = s.current THEN Switched(s.current, FALSE, {})
    ELSE CASE codec = "vp8" -> SwitchVp8(s, p)
           [] codec = "h264" -> SwitchH264(s, p)
           [] codec = "vp9" -> SwitchVp9(s, p)

(* is_allow: "send" forwards the packet, "drop" tells the rewriters that its *)
(* numbers are left out, "ignore" does neither.                              *)
AllowVp8_MutantForgets(c, p) == IF p.spatial # c.spatial \/ p.temporal > c.temporal THEN "ignore" ELSE "send"
AllowVp8(c, p) == IF p.spatial # c.spatial THEN "ignore" ELSE IF p.temporal <= c.temporal THEN "send" ELSE "drop"
AllowH264(c, p) == IF p.spatial = c.spatial THEN "send" ELSE "ignore"
AllowVp9(c, p) == IF p.spatial <= c.spatial /\ p.temporal <= c.temporal THEN "send" ELSE "drop"

is_allow(c, p) ==
    CASE codec = "single" -> "send"
      [] codec # "single" /\ c = NoLayer -> "ignore"
      [] codec = "vp8" /\ c # NoLayer -> AllowVp8(c, p)
      [] codec = "h264" /\ c # NoLayer -> AllowH264(c, p)
      [] codec = "vp9" /\ c # NoLayer -> AllowVp9(c, p)

-----------------------------------------------------------------------------
(* The parts of a packet's handling, in the order of the code.               *)

(* pop_selector: the requests of the queue always go out, those of the       *)
(* selector only when the last one is older than the interval.               *)
Late(s, age) == s.asks /\ (age = Never \/ age >= Interval)

pop_selector(need, q, s, age, owing) ==
    /\ need_key' = (need \/ Late(s, age))
    /\ key_age' = IF Late(s, age) THEN 0 ELSE age
    /\ queued' = FALSE
    /\ sel' = [s EXCEPT !.asks = FALSE]
    /\ owed' = IF q \/ Late(s, age) THEN Asked ELSE owing

NoPop(need, q, s, age, owing) ==
    need_key' = need /\ key_age' = age /\ queued' = q /\ sel' = s /\ owed' = owing

(* What a rewriter is synchronised with once a packet has been judged.       *)
Sync(stream, fresh, verdict, p) ==
    LET was == IF fresh THEN NoStream ELSE stream
    IN IF verdict = "ignore" \/ was # NoStream THEN was ELSE Stream(p)

(* The svc source sends a frame of a layer in one packet or more; the other  *)
(* sources are looked at packet by packet.                                   *)
NextFrame(p) ==
    IF codec # "vp9" \/ p.end THEN NoFrame
    ELSE [open |-> TRUE, spatial |-> p.spatial, temporal |-> p.temporal]

(* What is remembered of a packet: whether it was forwarded, and whether     *)
(* its stream had lost a packet unnoticed.                                   *)
Remember(p, sent, fresh, verdict) ==
    [event |-> IF p.key THEN Keys[p.spatial + 1] ELSE IF p.end THEN "packet" ELSE "none",
     sent |-> sent,
     missed |-> ~fresh /\ (last.missed \/ (verdict = "ignore" /\ seq = Stream(p))),
     stream |-> IF sent THEN Stream(p) ELSE NoStream]

(* Between packets only the state of the stream is remembered.               *)
Quiet(event) == [NoPacket EXCEPT !.event = event, !.missed = last.missed]

(* A packet of the source: svc frames are sent one after the other, a key    *)
(* packet starts a frame of the lowest temporal layer.                       *)
Fits(p) ==
    /\ codec = "vp9" /\ frame.open => p.spatial = frame.spatial /\ p.temporal = frame.temporal /\ ~p.key
    /\ codec # "vp9" => p.end
    /\ codec \in {"single", "h264"} => p.temporal = 0 /\ ~p.sync
    /\ codec = "single" => p.spatial = 0
    /\ p.key => p.temporal = 0

Paid(p) == IF ~p.key THEN owed ELSE IF codec \in {"vp8", "h264"} THEN owed \ {p.spatial} ELSE {}

(* A packet that announces other layers, or comes from another channel, is a *)
(* change of the source.                                                     *)
Changes(p, layers) ==
    (channel # 0 /\ channel # p.channel) \/ (layers # <<>> /\ sel.made /\ layers # sel.layers)

(* The head of select_video_inner: another channel clears the selector, and  *)
(* asks for a key frame unless it starts with one.                           *)
SourceChanges(p) ==
    LET new == channel # p.channel
        ask == new /\ ~p.key
    IN [new |-> new, sel |-> IF new THEN NoSelector ELSE sel, queued |-> queued \/ ask,
        need |-> need_key \/ ask, age |-> IF ask THEN 0 ELSE key_age]

(* Its tail: a key packet creates the selector, which then may be retargeted *)
(* by the layers the packet announces.                                       *)
Prepared(s, p, layers) ==
    LET table == IF layers = <<>> THEN CHOOSE t \in Tables : TRUE ELSE layers
        s1 == IF ~s.made /\ p.key THEN create_selector(table, bitrate, limit) ELSE s
    IN IF s1.made /\ layers # <<>> THEN Retarget([s1 EXCEPT !.layers = layers], limit) ELSE s1

(* pre_end_frame is written only past the early return of try_switch.        *)
PreEnd(s, p) == IF codec = "vp9" /\ s.target # s.current THEN p.end ELSE s.pre_end

(* select_video_inner, then the selector's select.                           *)
Judged(p, layers) ==
    LET h == SourceChanges(p)
        s == IF bitrate = Nil THEN h.sel ELSE Prepared(h.sel, p, layers)
        live == bitrate # Nil /\ s.made
        sw == IF live THEN try_switch(s, p) ELSE Switched(s.current, FALSE, {})
    IN [sel |-> [s EXCEPT !.current = sw.current, !.asks = s.asks \/ sw.asks,
                          !.pre_end = IF live THEN PreEnd(s, p) ELSE s.pre_end],
        need |-> h.need /\ ~(bitrate # Nil /\ p.key),
        queued |-> h.queued, age |-> h.age,
        seqFresh |-> h.new \/ "seq" \in sw.fresh,
        picFresh |-> (live /\ ~h.sel.made) \/ "pic" \in sw.fresh,
        verdict |-> IF live THEN is_allow(sw.current, p) ELSE "ignore"]

(* A packet of the cluster: select_video, and the pop_selector that follows  *)
(* when it is forwarded.                                                     *)
Packet(p, layers) ==
    /\ Fits(p)
    /\ Changes(p, layers) => changes < MaxChanges
    /\ \E j \in {Judged(p, layers)} :
          /\ channel' = p.channel
          /\ seq' = Sync(seq, j.seqFresh, j.verdict, p)
          /\ pic' = Sync(pic, j.picFresh, j.verdict, p)
          /\ IF j.verdict = "send" THEN pop_selector(j.need, j.queued, j.sel, j.age, Paid(p))
                                   ELSE NoPop(j.need, j.queued, j.sel, j.age, Paid(p))
          /\ frame' = NextFrame(p)
          /\ last' = Remember(p, j.verdict = "send", j.seqFresh, j.verdict)
    /\ changes' = IF Changes(p, layers) THEN changes + 1 ELSE changes
    /\ UNCHANGED <<codec, bitrate, limit>>

(* on_tick of the track: a key frame that has not come is asked for again,   *)
(* then the requests go out.                                                 *)
Tick ==
    /\ LET age == IF key_age = Never THEN Never ELSE IF key_age < Interval THEN key_age + 1 ELSE Interval
           again == need_key /\ (age = Never \/ age >= Interval)
       IN pop_selector(need_key, queued \/ again, sel, IF again THEN 0 ELSE age, owed)
    /\ last' = Quiet("tick")
    /\ UNCHANGED <<codec, channel, bitrate, limit, seq, pic, frame, changes>>

(* set_target_bitrate, from the egress allocator, then pop_selector.         *)
set_target_bitrate(b) ==
    /\ changes < MaxChanges \/ bitrate = Nil
    /\ bitrate' = b
    /\ changes' = IF bitrate = Nil THEN changes ELSE changes + 1
    /\ pop_selector(need_key, queued, Retarget(IF sel.made THEN [sel EXCEPT !.rate = b] ELSE sel, limit), key_age, owed)
    /\ last' = Quiet("none")
    /\ UNCHANGED <<codec, channel, limit, seq, pic, frame>>

(* set_limit_layer, from the viewer's Config request: nothing is popped.     *)
set_limit_layer(l) ==
    /\ changes < MaxChanges
    /\ changes' = changes + 1
    /\ limit' = l
    /\ NoPop(need_key, queued, Retarget(sel, l), key_age, owed)
    /\ last' = Quiet("none")
    /\ UNCHANGED <<codec, channel, bitrate, seq, pic, frame>>

(* reset, when the source of the track changes; the selector stays until the *)
(* first packet.                                                             *)
reset(s) ==
    /\ channel' = 0 /\ need_key' = FALSE /\ key_age' = Never /\ bitrate' = Nil
    /\ sel' = s
    /\ last' = Quiet("none")
    /\ UNCHANGED <<codec, queued, seq, pic, owed, frame>>

SourceChanged ==
    /\ changes < MaxChanges
    /\ changes' = changes + 1
    /\ reset(sel)
    /\ UNCHANGED limit

(* The viewer's Attach request sets the limit, then resets.                  *)
Attach(l) ==
    /\ changes < MaxChanges
    /\ changes' = changes + 1
    /\ limit' = l
    /\ reset(Retarget(sel, l))

Init ==
    /\ codec \in Codecs
    /\ channel = 0 /\ need_key = FALSE /\ key_age = Never /\ queued = FALSE
    /\ sel = NoSelector /\ bitrate = Nil /\ limit \in Limits
    /\ seq = NoStream /\ pic = NoStream
    /\ owed = {} /\ frame = NoFrame /\ last = NoPacket /\ changes = 0

Packets == [channel : Channels, spatial : Layers, temporal : Temporals, key : BOOLEAN, sync : BOOLEAN, end : BOOLEAN]

(* The layers a packet may announce (<<>>: none), those that say nothing new *)
(* left out.                                                                 *)
Announced(p) == {<<>>} \cup (IF sel.made THEN Tables \ {sel.layers} ELSE IF p.key THEN Tables ELSE {})

Next ==
    \/ \E p \in {q \in Packets : Fits(q)} : \E t \in Announced(p) : Packet(p, t)
    \/ Tick
    \/ \E b \in Rates : set_target_bitrate(b)
    \/ \E l \in Limits : set_limit_layer(l)
    \/ SourceChanged
    \/ \E l \in Limits : Attach(l)

Spec == Init /\ [][Next]_vars

(* The track is ticked, the allocator answers, packets keep coming and an    *)
(* svc frame ends, and a source that is asked for key frames sends one on    *)
(* each of its layers.                                                       *)
Fairness ==
    /\ []<>(last.event = "tick")
    /\ []<>(last.event = "packet")
    /\ []<>(bitrate # Nil)
    /\ \A s \in Layers : []<>(s \in owed) => []<>(last.event = Keys[s + 1])

-----------------------------------------------------------------------------
(* A selector exists only while it has layers and a target it can reach, and *)
(* a key frame is awaited only once one was asked for.                       *)
TypeOK ==
    /\ channel \in Channels \cup {0} /\ need_key \in BOOLEAN /\ queued \in BOOLEAN
    /\ key_age \in Never .. Interval
    /\ bitrate \in Rates \cup {Nil} /\ limit \in Limits
    /\ sel.made /\ codec # "single" =>
          sel.target \in Layer /\ sel.current \in Layer \cup {NoLayer} /\ sel.layers \in Tables
    /\ need_key => key_age # Never
    /\ owed \subseteq Layers /\ changes \in 0 .. MaxChanges

(* What is forwarded is a stream without a seam: between two reinits of the  *)
(* rewriters every packet of one numbering is either forwarded or dropped    *)
(* with its numbers, so a viewer never takes a layer change for a loss.      *)
Seamless ==
    last.sent => /\ ~last.missed /\ seq = last.stream
                 /\ codec \in {"vp8", "vp9"} => pic = last.stream

(* Once nothing changes any more, the track forwards the spatial layer that  *)
(* the bitrate and the limits of the viewer choose: a key frame a switch is  *)
(* waiting for is asked for again until it comes.                            *)
Settles == <>[](sel.made /\ bitrate # Nil /\ codec # "single" => sel.current.spatial = sel.target.spatial)

(* A selector never aims above what the viewer allows or the allocator pays  *)
(* for, whatever order the bitrate, the limits and the layers changed in.    *)
TargetFits ==
    sel.made /\ bitrate # Nil /\ codec # "single" =>
        sel.target \in Affordable(sel.layers, bitrate, limit) \cup {[spatial |-> 0, temporal |-> 0]}
=============================================================================
