--------------------------- MODULE PayloadHeaders ---------------------------
(***************************************************************************)
(* The payload headers of video packets (transport_webrtc media/vp8.rs,    *)
(* vp9.rs, h264.rs): what the node reads from a packet of a conforming     *)
(* sender, and what it rewrites in one it forwards.  A packet is its first *)
(* bytes.  The headers of the payload formats (RFC 7741, RFC 9628, RFC     *)
(* 6184) are the reference; packets that are cut short are left out.       *)
(***************************************************************************)
EXTENDS Integers, Sequences

CONSTANTS
    Codecs,     \* codecs that are checked
    Ids,        \* picture ids
    MaxRefs,    \* reference indices of a VP9 packet in flexible mode
    Hops        \* how often a packet is forwarded

VARIABLES
    h,          \* the header as it is meant
    wire,       \* the packet's bytes
    at,         \* "wire", or "node" once a node has read the packet
    seen,       \* what the node read from it: none if it was refused, or one
    hops

vars == <<h, wire, at, seen, hops>>

Nil == -1
Bits(b, k, width) == (b \div 2^k) % 2^width
Bit(b, k) == Bits(b, k, 1) = 1
Flag(x, k) == IF x THEN 2^k ELSE 0
From(s, k) == SubSeq(s, k, Len(s))

-----------------------------------------------------------------------------
(* VP8 *)

\* parse_rtp: the fields that the flags announce, one after the other.
vp8_parse_rtp(p, rid) ==
    LET ext == IF Bit(p[1], 7) THEN p[2] ELSE 0
        i == Bit(ext, 7)  l == Bit(ext, 6)  t == Bit(ext, 5)  k == Bit(ext, 4)
        id_at == IF Bit(p[1], 7) THEN 3 ELSE 2
        long == i /\ Bit(p[id_at], 7)
        tl0_at == id_at + (IF long THEN 2 ELSE IF i THEN 1 ELSE 0)
        tid_at == tl0_at + (IF l THEN 1 ELSE 0)
        data_at == tid_at + (IF t \/ k THEN 1 ELSE 0) IN
    IF Len(p) < 4 \/ data_at > Len(p) THEN <<>>
    ELSE <<[key |-> Bit(p[1], 4) /\ Bits(p[1], 0, 3) = 0 /\ ~Bit(p[data_at], 0),
            sim |-> IF ~t THEN <<>>
                    ELSE <<[spatial |-> rid, temporal |-> Bits(p[tid_at], 6, 2),
                            picture_id |-> IF ~i THEN Nil ELSE IF long THEN Bits(p[id_at], 0, 7) * 256 + p[id_at + 1] ELSE p[id_at],
                            tl0_pic_idx |-> IF l THEN p[tl0_at] ELSE Nil,
                            layer_sync |-> Bit(p[tid_at], 5)]>>]>>

\* The index is written where it is when the picture id has a byte.
vp8_rewrite_rtp_MutantShort(p, sim) ==
    LET ext == IF Bit(p[1], 7) THEN p[2] ELSE 0
        id_at == IF Bit(p[1], 7) THEN 3 ELSE 2
        long == Bit(ext, 7) /\ Bit(p[id_at], 7)
        tl0_at == id_at + (IF Bit(ext, 7) THEN 1 ELSE 0)
        id == IF sim.picture_id = Nil THEN 0 ELSE sim.picture_id
        q == IF ~Bit(ext, 7) THEN p
             ELSE IF long THEN [p EXCEPT ![id_at] = 128 + Bits(id, 8, 7), ![id_at + 1] = id % 256]
             ELSE [p EXCEPT ![id_at] = id % 128] IN
    IF Bit(ext, 6) THEN [q EXCEPT ![tl0_at] = IF sim.tl0_pic_idx = Nil THEN 0 ELSE sim.tl0_pic_idx] ELSE q

\* rewrite_rtp: the picture id in the width it has, and the index of the base layer.
vp8_rewrite_rtp(p, sim) ==
    LET ext == IF Bit(p[1], 7) THEN p[2] ELSE 0
        id_at == IF Bit(p[1], 7) THEN 3 ELSE 2
        long == Bit(ext, 7) /\ Bit(p[id_at], 7)
        tl0_at == id_at + (IF long THEN 2 ELSE IF Bit(ext, 7) THEN 1 ELSE 0)
        id == IF sim.picture_id = Nil THEN 0 ELSE sim.picture_id
        q == IF ~Bit(ext, 7) THEN p
             ELSE IF long THEN [p EXCEPT ![id_at] = 128 + Bits(id, 8, 7), ![id_at + 1] = id % 256]
             ELSE [p EXCEPT ![id_at] = id % 128] IN
    IF Bit(ext, 6) THEN [q EXCEPT ![tl0_at] = IF sim.tl0_pic_idx = Nil THEN 0 ELSE sim.tl0_pic_idx] ELSE q

-----------------------------------------------------------------------------
(* VP9.  Each part takes the bytes that are left and gives what it read and  *)
(* the bytes after it; ok is FALSE where the code returns an error.          *)

Short == [ok |-> FALSE, rest |-> <<>>, val |-> Nil]

parse_picture_id(s) ==
    IF s = <<>> THEN Short
    ELSE IF ~Bit(s[1], 7) THEN [ok |-> TRUE, rest |-> From(s, 2), val |-> Bits(s[1], 0, 7)]
    ELSE IF Len(s) < 2 THEN Short
    ELSE [ok |-> TRUE, rest |-> From(s, 3), val |-> Bits(s[1], 0, 7) * 256 + s[2]]

\* Layer indices; at most five spatial layers.
parse_layer_info_common(s) ==
    IF s = <<>> \/ Bits(s[1], 1, 3) >= 5 THEN Short
    ELSE [ok |-> TRUE, rest |-> From(s, 2),
          val |-> [tid |-> Bits(s[1], 5, 3), u |-> Bit(s[1], 4), sid |-> Bits(s[1], 1, 3), d |-> Bit(s[1], 0)]]

parse_layer_info_non_flexible_mode(s) == IF s = <<>> THEN Short ELSE [ok |-> TRUE, rest |-> From(s, 2), val |-> s[1]]

\* In flexible mode there is no index of the base layer.
parse_layer_info(s, f) ==
    LET c == parse_layer_info_common(s)
        n == parse_layer_info_non_flexible_mode(c.rest) IN
    IF f \/ ~c.ok THEN c ELSE [c EXCEPT !.ok = n.ok, !.rest = n.rest]

\* Reference indices: each tells whether another follows; the third is an error.
parse_ref_indices(s) ==
    IF s = <<>> THEN Short
    ELSE IF ~Bit(s[1], 0) THEN [ok |-> TRUE, rest |-> From(s, 2), val |-> 1]
    ELSE IF Len(s) < 2 \/ Bit(s[2], 0) THEN Short
    ELSE [ok |-> TRUE, rest |-> From(s, 3), val |-> 2]

\* The pictures of the group, each with its references.
Pictures(s, ng) ==
    LET after[i \in 0 .. ng] ==
            IF i = 0 THEN [ok |-> TRUE, rest |-> s, val |-> Nil]
            ELSE LET left == after[i - 1].rest IN
                 IF left = <<>> \/ Len(left) < 1 + Bits(left[1], 2, 2) THEN Short
                 ELSE [after[i - 1] EXCEPT !.rest = From(@, 2 + Bits(@[1], 2, 2))]
    IN after[ng]

\* The scalability structure: layers, their sizes, and the picture group.
parse_ssdata(s) ==
    IF s = <<>> THEN Short
    ELSE LET layers == Bits(s[1], 5, 3) + 1
             sized == From(s, IF Bit(s[1], 4) THEN 2 + 4 * layers ELSE 2)
             group == IF sized = <<>> THEN Short ELSE Pictures(From(sized, 2), sized[1]) IN
         IF Bits(s[1], 1, 3) = 0 THEN [ok |-> TRUE, rest |-> sized, val |-> layers]
         ELSE [group EXCEPT !.val = layers]

\* Reads the flags and the parts they announce; data is what follows the header.
parse_from(p) ==
    LET flag(k) == Bit(p[1], k)
        skip(s) == [ok |-> TRUE, rest |-> s, val |-> Nil]
        id == IF flag(7) THEN parse_picture_id(From(p, 2)) ELSE skip(From(p, 2))
        layer == IF flag(5) THEN parse_layer_info(id.rest, flag(4)) ELSE skip(id.rest)
        refs == IF flag(4) /\ flag(6) THEN parse_ref_indices(layer.rest) ELSE skip(layer.rest)
        ss == IF flag(1) THEN parse_ssdata(refs.rest) ELSE skip(refs.rest)
        key == ~flag(6) /\ flag(3) /\ (flag(5) => layer.val.sid = 0 \/ ~layer.val.d) IN
    IF p = <<>> \/ ~id.ok \/ ~layer.ok \/ ~refs.ok \/ ~ss.ok THEN <<>>
    ELSE <<[key |-> key, data |-> ss.rest,
            svc |-> IF ~flag(5) THEN <<>>
                    ELSE <<[picture_id |-> id.val, spatial_layers |-> ss.val, spatial |-> layer.val.sid, temporal |-> layer.val.tid,
                            begin_frame |-> flag(3), end_frame |-> flag(2), switching_point |-> layer.val.u, predicted_frame |-> flag(6)]>>]>>

\* The picture id in the width it has.
vp9_rewrite_rtp(p, svc) ==
    LET id == IF svc.picture_id = Nil THEN 0 ELSE svc.picture_id IN
    IF ~Bit(p[1], 7) THEN p
    ELSE IF Bit(p[2], 7) THEN [p EXCEPT ![2] = 128 + Bits(id, 8, 7), ![3] = id % 256]
    ELSE [p EXCEPT ![2] = id % 128]

-----------------------------------------------------------------------------
(* H264 *)

\* A sequence parameter set, alone or as the first unit of a STAP-A, is a key.
h264_parse_rtp(p) ==
    IF Len(p) < 4 THEN <<>>
    ELSE <<[key |-> Bits(p[1], 0, 5) = 7 \/ (Bits(p[1], 0, 5) = 24 /\ Bits(p[4], 0, 5) = 7)]>>

-----------------------------------------------------------------------------
(* What a sender writes *)

PictureId(w, id) == IF w = 0 THEN <<>> ELSE IF w = 7 THEN <<id % 128>> ELSE <<128 + Bits(id, 8, 7), id % 256>>
Width(w, id) == IF w = 0 THEN Nil ELSE id % 2^w

Body == <<9, 1, 1>>
KeyBody == <<8, 1, 1>>

Vp8Headers ==
    [codec : {"vp8"}, first : BOOLEAN, part : {0, 1}, w : {0, 7, 15}, id : {300}, l : {Nil, 7}, t : {Nil, 2}, y : BOOLEAN, k : BOOLEAN, key : BOOLEAN]

Vp8Write(x) ==
    LET ext == x.w # 0 \/ x.l # Nil \/ x.t # Nil \/ x.k IN
    <<Flag(ext, 7) + Flag(x.first, 4) + x.part>>
      \o (IF ext THEN <<Flag(x.w # 0, 7) + Flag(x.l # Nil, 6) + Flag(x.t # Nil, 5) + Flag(x.k, 4)>> ELSE <<>>)
      \o PictureId(x.w, x.id)
      \o (IF x.l # Nil THEN <<x.l>> ELSE <<>>)
      \o (IF x.t # Nil \/ x.k THEN <<(IF x.t = Nil THEN 0 ELSE x.t * 64 + Flag(x.y, 5)) + (IF x.k THEN 3 ELSE 0)>> ELSE <<>>)
      \o (IF x.key THEN KeyBody ELSE Body)

Layers == [tid : {0, 2}, u : BOOLEAN, sid : {0, 2}, d : BOOLEAN]
Structures ==
    {<<>>, <<[ns |-> 0, y |-> FALSE, g |-> <<>>]>>, <<[ns |-> 1, y |-> TRUE, g |-> <<>>]>>, <<[ns |-> 2, y |-> FALSE, g |-> <<0, 2>>]>>}

Vp9Headers ==
    {x \in [codec : {"vp9"}, w : {0, 7, 15}, id : {300}, p : BOOLEAN, l : {<<>>} \cup {<<y>> : y \in Layers}, f : BOOLEAN,
            b : BOOLEAN, e : BOOLEAN, refs : 0 .. MaxRefs, ss : Structures] : x.refs > 0 <=> x.p /\ x.f}

Structure(x) ==
    LET sizes == [i \in 1 .. 4 * (x.ns + 1) |-> 1]
        pictures == IF x.g = <<>> THEN <<>> ELSE <<Len(x.g), 4 * x.g[1], 4 * x.g[2]>> \o [i \in 1 .. x.g[2] |-> i] IN
    <<x.ns * 32 + Flag(x.y, 4) + Flag(x.g # <<>>, 3)>> \o (IF x.y THEN sizes ELSE <<>>) \o pictures

Vp9Write(x) ==
    <<Flag(x.w # 0, 7) + Flag(x.p, 6) + Flag(x.l # <<>>, 5) + Flag(x.f, 4) + Flag(x.b, 3) + Flag(x.e, 2) + Flag(x.ss # <<>>, 1)>>
      \o PictureId(x.w, x.id)
      \o (IF x.l = <<>> THEN <<>> ELSE <<x.l[1].tid * 32 + Flag(x.l[1].u, 4) + x.l[1].sid * 2 + Flag(x.l[1].d, 0)>>)
      \o (IF x.l = <<>> \/ x.f THEN <<>> ELSE <<7>>)
      \o [i \in 1 .. x.refs |-> 2 * i + Flag(i < x.refs, 0)]
      \o (IF x.ss = <<>> THEN <<>> ELSE Structure(x.ss[1]))
      \o Body

\* A unit of H264, alone, in a STAP-A or as a fragment.
H264Headers == [codec : {"h264"}, form : {"single", "stap", "fragment"}, unit : {1, 5, 7}]
H264Write(x) ==
    CASE x.form = "single" -> <<96 + x.unit>> \o Body
      [] x.form = "stap" -> <<120, 0, 4, 96 + x.unit>> \o Body
      [] x.form = "fragment" -> <<124, 128 + x.unit>> \o Body

Write(x) == CASE x.codec = "vp8" -> Vp8Write(x) [] x.codec = "vp9" -> Vp9Write(x) [] x.codec = "h264" -> H264Write(x)

\* What is to be read from it.
Meant(x) ==
    CASE x.codec = "vp8" ->
            [key |-> x.first /\ x.part = 0 /\ x.key,
             sim |-> IF x.t = Nil THEN <<>>
                     ELSE <<[spatial |-> 1, temporal |-> x.t, picture_id |-> Width(x.w, x.id), tl0_pic_idx |-> x.l, layer_sync |-> x.y]>>]
      [] x.codec = "vp9" ->
            [key |-> ~x.p /\ x.b /\ (x.l = <<>> \/ x.l[1].sid = 0 \/ ~x.l[1].d), data |-> Body,
             svc |-> IF x.l = <<>> THEN <<>>
                     ELSE <<[picture_id |-> Width(x.w, x.id), spatial_layers |-> IF x.ss = <<>> THEN Nil ELSE x.ss[1].ns + 1,
                             spatial |-> x.l[1].sid, temporal |-> x.l[1].tid, begin_frame |-> x.b, end_frame |-> x.e,
                             switching_point |-> x.l[1].u, predicted_frame |-> x.p]>>]
      [] x.codec = "h264" -> [key |-> x.unit = 7 /\ x.form # "fragment"]

-----------------------------------------------------------------------------
(* The way of a packet *)

\* The node reads the packet (RemoteMediaConvert::convert).
Receive ==
    /\ at = "wire" /\ at' = "node"
    /\ seen' = CASE h.codec = "vp8" -> vp8_parse_rtp(wire, 1) [] h.codec = "vp9" -> parse_from(wire) [] h.codec = "h264" -> h264_parse_rtp(wire)
    /\ UNCHANGED <<h, wire, hops>>

\* The node forwards it with other numbers (rewrite_pkt); a packet without layers
\* stays as it is.
rewrite_pkt(id, tl0) ==
    /\ at = "node" /\ seen # <<>> /\ hops < Hops
    /\ IF h.codec = "vp8" /\ seen[1].sim # <<>>
       THEN LET sim == seen[1].sim[1]
                new == [sim EXCEPT !.picture_id = IF @ = Nil THEN Nil ELSE id, !.tl0_pic_idx = IF @ = Nil THEN Nil ELSE tl0] IN
            wire' = vp8_rewrite_rtp(wire, new) /\ h' = [h EXCEPT !.id = id, !.l = new.tl0_pic_idx]
       ELSE IF h.codec = "vp9" /\ seen[1].svc # <<>>
       THEN LET svc == seen[1].svc[1] IN
            wire' = vp9_rewrite_rtp(wire, [svc EXCEPT !.picture_id = IF @ = Nil THEN Nil ELSE id]) /\ h' = [h EXCEPT !.id = id]
       ELSE UNCHANGED <<wire, h>>
    /\ at' = "wire" /\ seen' = <<>> /\ hops' = hops + 1

Init ==
    /\ h \in {x \in Vp8Headers \cup Vp9Headers \cup H264Headers : x.codec \in Codecs}
    /\ wire = Write(h) /\ at = "wire" /\ seen = <<>> /\ hops = 0

Next == Receive \/ \E id \in Ids, tl0 \in {0, 255} : rewrite_pkt(id, tl0)

Spec == Init /\ [][Next]_vars

-----------------------------------------------------------------------------
(* Properties *)

\* What a node reads from a packet is what the sender meant, and what the next node
\* reads after a rewrite differs in the numbers only, cut to the width they have on
\* the wire: no other byte of the header or the payload is touched.
ReadAsMeant == at = "node" => seen = <<Meant(h)>> /\ wire = Write(h)
=============================================================================
