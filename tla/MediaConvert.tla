---------------------------- MODULE MediaConvert ----------------------------
(***************************************************************************)
(* From the packets of a publisher to those of a subscriber                *)
(* (transport_webrtc media/mod.rs): the media line and the layer of a      *)
(* stream are learned from its packets' extensions, payload types become   *)
(* codecs and back, and the bitrates of the layers are taken from the      *)
(* video layers allocation (VLA).                                          *)
(*                                                                         *)
(* A publisher's streams have a media line and a layer; it sends their     *)
(* names with some packets only.                                           *)
(***************************************************************************)
EXTENDS Integers, Sequences, FiniteSets

CONSTANTS
    Ssrcs,          \* the publisher's streams
    Mid, Rid,       \* their media lines and their rids, ssrc -> name
    Specs,          \* codec descriptions: [codec, profile]
    Pts,            \* payload types
    Vlas            \* allocations: sequences (streams) of sequences (spatial
                    \* layers) of sequences (temporal layers) of kbps

VARIABLES
    offer,          \* what the two ends negotiated: end -> (payload type -> spec)
    remote,         \* RemoteMediaConvert.map: payload type -> codec
    local,          \* LocalMediaConvert.map: codec -> payload type
    ssrcs_rid, ssrcs_mid,
    told,           \* streams that have sent their media line, and their rid (history)
    pkt,            \* the last packet of a known codec: none or one; its media
                    \* line is none if it reached no track
    sent            \* its payload type at the subscriber, or none

vars == <<offer, remote, local, ssrcs_rid, ssrcs_mid, told, pkt, sent>>

Nil == -1

\* str0m_codec_convert: the codecs and profiles the server knows.
str0m_codec_convert(spec) ==
    CASE spec.codec \in {"opus", "vp8"} -> <<spec.codec, 0>>
      [] spec.codec = "h264" /\ spec.profile \in {"42001f/1", "42001f/0", "42e01f/1", "42e01f/0", "4d001f/1", "4d001f/0", "64001f/1"} ->
            <<"h264", spec.profile>>
      [] spec.codec = "vp9" /\ spec.profile \in {0, 2} -> <<"vp9", spec.profile>>
      [] OTHER -> <<>>

Known(cfg) == {pt \in DOMAIN cfg : str0m_codec_convert(cfg[pt]) # <<>>}

\* set_config of RemoteMediaConvert, and of LocalMediaConvert: of two payload types
\* of a codec the last one stays.
RemoteMap(cfg) == [pt \in Known(cfg) |-> str0m_codec_convert(cfg[pt])]
LocalMap(cfg) ==
    [c \in {str0m_codec_convert(cfg[pt]) : pt \in Known(cfg)} |->
        CHOOSE pt \in Known(cfg) : str0m_codec_convert(cfg[pt]) = c /\ \A q \in Known(cfg) : str0m_codec_convert(cfg[q]) = c => q <= pt]

\* rid_to_spatial: by the first character of the name.
rid_to_spatial(rid) == CASE rid = "0" -> 0 [] rid = "1" -> 1 [] rid = "2" -> 2 [] OTHER -> 0

\* The stream keeps the media line of the last packet.
get_mid_MutantUnlearned(ssrc, mid) == mid

\* get_mid: the media line that was learned, otherwise the packet's.
get_mid(ssrc, mid) == IF ssrcs_mid[ssrc] # "none" THEN ssrcs_mid[ssrc] ELSE mid

\* extract_svc: the spatial layers of the first stream, each on top of those below.
extract_svc(vla) ==
    IF vla = <<>> THEN <<>>
    ELSE LET top(l) == IF l = <<>> THEN 0 ELSE l[Len(l)]
             below[i \in 1 .. Len(vla[1]) + 1] == IF i = 1 THEN 0 ELSE (below[i - 1] + top(vla[1][i - 1])) % 2^16 IN
         [i \in DOMAIN vla[1] |-> [t \in DOMAIN vla[1][i] |-> (vla[1][i][t] + below[i]) % 2^16]]

\* extract_simulcast: the first spatial layer of each stream.
extract_simulcast(vla) == [i \in DOMAIN vla |-> IF vla[i] = <<>> THEN <<>> ELSE vla[i][1]]

\* convert: the rid is learned before the payload type is looked at.
convert(ssrc, pt, rid, vla) ==
    LET layer == IF rid # "none" THEN rid_to_spatial(rid) ELSE ssrcs_rid[ssrc]
        codec == remote[pt] IN
    /\ ssrcs_rid' = IF rid # "none" /\ ssrcs_rid[ssrc] = Nil THEN [ssrcs_rid EXCEPT ![ssrc] = layer] ELSE ssrcs_rid
    /\ pkt' = IF pt \notin DOMAIN remote THEN <<>>
              ELSE <<[ssrc |-> ssrc, pt |-> pt, mid |-> ssrcs_mid'[ssrc], spatial |-> layer, codec |-> codec,
                      layers |-> CASE codec[1] = "opus" -> <<>> [] codec[1] = "vp9" -> extract_svc(vla) [] OTHER -> extract_simulcast(vla)]>>

\* A packet of a stream, with or without its names; without a media line it is not
\* converted.
Receive(ssrc, pt, mid, rid, vla) ==
    LET m == get_mid(ssrc, mid) IN
    /\ mid \in {"none", Mid[ssrc]} /\ rid \in {"none", Rid[ssrc]} /\ pt \in DOMAIN offer.publisher
    /\ told' = [mid |-> told.mid \cup (IF mid # "none" THEN {ssrc} ELSE {}),
                rid |-> told.rid \cup (IF rid # "none" /\ m # "none" THEN {ssrc} ELSE {})]
    /\ IF m = "none"
       THEN /\ pkt' = <<[ssrc |-> ssrc, pt |-> pt, mid |-> m, spatial |-> Nil, codec |-> <<>>, layers |-> <<>>]>>
            /\ UNCHANGED <<ssrcs_mid, ssrcs_rid>>
       ELSE ssrcs_mid' = [ssrcs_mid EXCEPT ![ssrc] = m] /\ convert(ssrc, pt, rid, vla)
    /\ sent' = Nil
    /\ UNCHANGED <<offer, remote, local>>

\* StreamPaused: the media line of a stream that starts or stops is learned too.
Paused(ssrc) ==
    /\ ssrcs_mid' = [ssrcs_mid EXCEPT ![ssrc] = get_mid(ssrc, Mid[ssrc])]
    /\ told' = [told EXCEPT !.mid = @ \cup {ssrc}]
    /\ pkt' = <<>> /\ sent' = Nil
    /\ UNCHANGED <<offer, remote, local, ssrcs_rid>>

\* convert_codec: the packet goes to the subscriber if it has the codec.
Send ==
    /\ pkt # <<>> /\ sent = Nil /\ pkt[1].codec \in DOMAIN local
    /\ sent' = local[pkt[1].codec]
    /\ UNCHANGED <<offer, remote, local, ssrcs_rid, ssrcs_mid, told, pkt>>

Init ==
    /\ offer \in [{"publisher", "subscriber"} -> [Pts -> Specs]]
    /\ remote = RemoteMap(offer.publisher) /\ local = LocalMap(offer.subscriber)
    /\ ssrcs_rid = [s \in Ssrcs |-> Nil] /\ ssrcs_mid = [s \in Ssrcs |-> "none"]
    /\ told = [mid |-> {}, rid |-> {}] /\ pkt = <<>> /\ sent = Nil

Next ==
    \/ \E s \in Ssrcs, pt \in Pts, vla \in Vlas : \E mid \in {"none", Mid[s]}, rid \in {"none", Rid[s]} : Receive(s, pt, mid, rid, vla)
    \/ \E s \in Ssrcs : Paused(s)
    \/ Send

Spec == Init /\ [][Next]_vars

-----------------------------------------------------------------------------
(* Properties *)

\* Once a stream has sent its media line, every packet of a known codec reaches its
\* track, and with its layer once it has sent that (get_mid, convert).
Attributed ==
    pkt # <<>> =>
        /\ pkt[1].mid = IF pkt[1].ssrc \in told.mid THEN Mid[pkt[1].ssrc] ELSE "none"
        /\ pkt[1].spatial = IF pkt[1].ssrc \in told.rid THEN rid_to_spatial(Rid[pkt[1].ssrc]) ELSE Nil

\* A packet leaves with a payload type that means to the subscriber what the
\* packet's meant to the publisher: codec and profile.
CodecKept == sent # Nil => offer.subscriber[sent] = offer.publisher[pkt[1].pt]

\* A higher layer of the list the selector climbs never costs less than a lower one,
\* for allocations that grow with the temporal layers.
LayersGrow ==
    pkt # <<>> /\ pkt[1].codec \in {<<"vp9", 0>>, <<"vp9", 2>>} =>
        \A i, j \in DOMAIN pkt[1].layers : i < j =>
            \A t \in DOMAIN pkt[1].layers[i], u \in DOMAIN pkt[1].layers[j] : pkt[1].layers[i][t] <= pkt[1].layers[j][u]
=============================================================================
