------------------------------ MODULE AutoMixer ------------------------------
(***************************************************************************)
(* The automatic audio mixing of one room on one media node                *)
(* (room/audio_mixer.rs with publisher.rs and subscriber.rs): the          *)
(* publisher mixes the node's tracks down to PubSlots and sends them on    *)
(* the room's mix channel, and for each number of outputs an endpoint may  *)
(* ask for a subscriber mixes what arrives on the channel once more.       *)
(*                                                                         *)
(* The network returns the node's own packets and brings those of one      *)
(* other node.  Events to endpoints leave the subscriber's queue in order, *)
(* so "told" is updated when they are queued.                              *)
(***************************************************************************)
EXTENDS AudioMixer

CONSTANTS
  Endpoints,     \* endpoints that may join with an automatic mixer
  Tracks,        \* audio tracks of this node's endpoints
  FarTracks,     \* audio tracks of the other node
  Levels,        \* audio levels of packets, None among them
  PubSlots,      \* slots of the publisher, 3 in the code
  Sizes,         \* numbers of outputs with a subscriber, 1..3 in the code
  FireInterval,  \* FIRE_SOURCE_INTERVAL, in units of SlotTimeout
  TickInterval,  \* TICK_INTERVAL of the room's mixer
  MaxQueue       \* bound: outputs that wait in one queue, and packets under way

ASSUME SizesAssumption == PubSlots \in Nat \ {0} /\ Sizes \subseteq 1..3

VARIABLES
  auto_mode,  \* joined endpoints with the number of outputs they asked for
  tracks,     \* published tracks
  pub,        \* AudioMixerPublisher: mixer, slots (age of the last source info), queue
  subs,       \* AudioMixerSubscriber per number of outputs
  told,       \* what an endpoint was last told of its slots
  sinceTick,  \* time since last_tick
  sdnPub,     \* whether the node publishes on the mix channel
  sdnSub,     \* whether the node is subscribed to it
  air         \* packets of the channel under way to this node

vars == <<auto_mode, tracks, pub, subs, told, sinceTick, sdnPub, sdnSub, air>>

net == <<sdnPub, sdnSub, air>>

Here == "this node"
Far == "the other node"
AllTracks == Tracks \union FarTracks
Unsupported == 0
NoInfo == "no source info yet"
MaxSlots == 0..2
Untold == [i \in MaxSlots |-> None]

Publisher(m, slots, queue) == [mixer |-> m, slots |-> slots, queue |-> queue]
Subscriber(E, outputs, m, queue) == [endpoints |-> E, outputs |-> outputs, mixer |-> m, queue |-> queue]
Out(op, pkt) == [op |-> op, pkt |-> pkt]

Init ==
  /\ auto_mode = Empty
  /\ tracks = {}
  /\ pub = Publisher(NewMixer(PubSlots), [i \in 0..(PubSlots - 1) |-> None], <<>>)
  /\ subs = [n \in Sizes |-> Subscriber({}, [i \in 0..(n - 1) |-> None], NewMixer(n), <<>>)]
  /\ told = [e \in Endpoints |-> Untold]
  /\ sinceTick = 0
  /\ sdnPub = FALSE
  /\ sdnSub = FALSE
  /\ air = <<>>

HasSpace == Len(pub.queue) < MaxQueue /\ \A n \in Sizes : Len(subs[n].queue) < MaxQueue

-----------------------------------------------------------------------------
(* The publisher. *)

Push(op, pkt) == Append(pub.queue, Out(op, pkt))

\* on_track_publish: the first track starts the channel.
TrackPublish(t) ==
  /\ t \notin tracks /\ HasSpace
  /\ tracks' = tracks \union {t}
  /\ pub' = IF tracks = {} THEN Publisher(pub.mixer, pub.slots, Push("Start", None)) ELSE pub
  /\ UNCHANGED <<auto_mode, subs, told, sinceTick, net>>

\* on_track_data: the packet of a selected track is sent; it carries the track's
\* name when the slot was just set and once in every FireInterval.
TrackData(t, level) ==
  LET r     == on_pkt(pub.mixer, t, level)
      named == r.just_set \/ pub.slots[r.slot] >= FireInterval
      pkt   == [from |-> Here, slot |-> r.slot, level |-> level, source |-> IF named THEN t ELSE None]
  IN
  /\ t \in tracks /\ HasSpace
  /\ pub' = IF r.slot = None THEN Publisher(r.mixer, pub.slots, pub.queue)
            ELSE Publisher(r.mixer,
                           IF named THEN [pub.slots EXCEPT ![r.slot] = 0] ELSE pub.slots,
                           Push("Data", pkt))
  /\ UNCHANGED <<auto_mode, tracks, subs, told, sinceTick, net>>

\* on_track_unpublish: the last track stops the channel.  The mixer keeps the
\* source until it times out.
TrackUnpublish(t) ==
  /\ t \in tracks /\ HasSpace
  /\ tracks' = tracks \ {t}
  /\ pub' = IF tracks = {t} THEN Publisher(pub.mixer, pub.slots, Push("Stop", None)) ELSE pub
  /\ UNCHANGED <<auto_mode, subs, told, sinceTick, net>>

\* pop_output, and the network's part: data reaches the node if it is subscribed.
PopPublisher ==
  LET out == Head(pub.queue) IN
  /\ pub.queue # <<>> /\ Len(air) < MaxQueue
  /\ pub' = Publisher(pub.mixer, pub.slots, Tail(pub.queue))
  /\ sdnPub' = CASE out.op = "Start" -> TRUE [] out.op = "Stop" -> FALSE [] OTHER -> sdnPub
  /\ air' = IF out.op = "Data" /\ sdnSub THEN Append(air, out.pkt) ELSE air
  /\ UNCHANGED <<auto_mode, tracks, subs, told, sinceTick, sdnSub>>

-----------------------------------------------------------------------------
(* The subscribers. *)

\* on_endpoint_join restores the slots whose source is known.
Restored(S) == [i \in MaxSlots |-> IF i \in DOMAIN S.outputs /\ S.outputs[i] \in AllTracks THEN S.outputs[i] ELSE None]

\* on_join in automatic mode with n outputs; the first endpoint of a subscriber
\* subscribes to the channel.  An unsupported n is only written down.
Join(e, n) ==
  /\ e \notin DOMAIN auto_mode /\ HasSpace
  /\ auto_mode' = With(auto_mode, e, n)
  /\ IF n = Unsupported THEN UNCHANGED <<subs, told>>
     ELSE /\ subs' = [subs EXCEPT ![n] = Subscriber(@.endpoints \union {e}, @.outputs, @.mixer,
                        IF @.endpoints = {} THEN Append(@.queue, "Start") ELSE @.queue)]
          /\ told' = [told EXCEPT ![e] = Restored(subs[n])]
  /\ UNCHANGED <<tracks, pub, sinceTick, net>>

\* Every endpoint that leaves ends the subscription.
Gone_Mutant(S, e) ==
  Subscriber(S.endpoints \ {e}, S.outputs, S.mixer, Append(S.queue, "Stop"))

\* on_endpoint_leave: the last endpoint of a subscriber ends the subscription.
Gone(S, e) ==
  Subscriber(S.endpoints \ {e}, S.outputs, S.mixer,
             IF S.endpoints = {e} THEN Append(S.queue, "Stop") ELSE S.queue)

\* on_leave.
Leave(e) ==
  /\ e \in DOMAIN auto_mode /\ HasSpace
  /\ auto_mode' = Without(auto_mode, e)
  /\ subs' = IF auto_mode[e] = Unsupported THEN subs
             ELSE [subs EXCEPT ![auto_mode[e]] = Gone(@, e)]
  /\ told' = [told EXCEPT ![e] = Untold]
  /\ UNCHANGED <<tracks, pub, sinceTick, net>>

\* on_channel_data: a slot that was just set has no source info until a packet
\* carries it.
Received(S, pkt) ==
  LET r       == on_pkt(S.mixer, <<pkt.from, pkt.slot>>, pkt.level)
      reset   == IF r.just_set THEN [S.outputs EXCEPT ![r.slot] = NoInfo] ELSE S.outputs
      naming  == r.slot # None /\ pkt.source # None /\ reset[r.slot] = NoInfo
      outputs == IF naming THEN [reset EXCEPT ![r.slot] = pkt.source] ELSE reset
  IN  IF S.endpoints = {} THEN S ELSE Subscriber(S.endpoints, outputs, r.mixer, S.queue)

\* SlotSet goes to all endpoints of a subscriber when a slot gets its name, and
\* SlotUnset when a slot is cleared.
Tell(S, T, known) ==
  [i \in MaxSlots |-> IF i \notin DOMAIN S.outputs \/ S.outputs[i] = T.outputs[i] THEN known[i]
                      ELSE CASE T.outputs[i] = None   -> None
                             [] T.outputs[i] = NoInfo -> known[i]
                             [] OTHER                 -> T.outputs[i]]

ToldAfter(next) ==
  [e \in Endpoints |->
     IF e \in DOMAIN auto_mode /\ auto_mode[e] # Unsupported
     THEN Tell(subs[auto_mode[e]], next[auto_mode[e]], told[e])
     ELSE told[e]]

\* A packet of the other node's publisher, with or without its source's name.
FarData(level, source) ==
  /\ sdnSub /\ Len(air) < MaxQueue
  /\ air' = Append(air, [from |-> Far, slot |-> 0, level |-> level, source |-> source])
  /\ UNCHANGED <<auto_mode, tracks, pub, subs, told, sinceTick, sdnPub, sdnSub>>

\* on_pubsub_event SourceData: every subscriber gets the packet.
SourceData ==
  /\ air # <<>>
  /\ air' = Tail(air)
  /\ subs' = [n \in Sizes |-> Received(subs[n], Head(air))]
  /\ told' = ToldAfter(subs')
  /\ UNCHANGED <<auto_mode, tracks, pub, sinceTick, sdnPub, sdnSub>>

\* The control of one subscriber reaches the network, which does not count.
PopSubscriber(n) ==
  /\ subs[n].queue # <<>>
  /\ subs' = [subs EXCEPT ![n] = Subscriber(@.endpoints, @.outputs, @.mixer, Tail(@.queue))]
  /\ sdnSub' = (Head(subs[n].queue) = "Start")
  /\ UNCHANGED <<auto_mode, tracks, pub, told, sinceTick, sdnPub, air>>

-----------------------------------------------------------------------------
(* Time. *)

Capped(age, max) == IF age < max THEN age + 1 ELSE max

Advance ==
  /\ sinceTick' = Capped(sinceTick, TickInterval)
  /\ pub' = Publisher(Older(pub.mixer),
                      [i \in DOMAIN pub.slots |-> IF pub.slots[i] = None THEN None ELSE Capped(pub.slots[i], FireInterval)],
                      pub.queue)
  /\ subs' = [n \in Sizes |-> Subscriber(subs[n].endpoints, subs[n].outputs, Older(subs[n].mixer), subs[n].queue)]
  /\ UNCHANGED <<auto_mode, tracks, told, net>>

Ticked(S) ==
  Subscriber(S.endpoints, [i \in DOMAIN S.outputs |-> IF i \in Cleared(S.mixer) THEN None ELSE S.outputs[i]],
             on_tick(S.mixer), S.queue)

PubTicked(P) ==
  Publisher(on_tick(P.mixer), [i \in DOMAIN P.slots |-> IF i \in Cleared(P.mixer) THEN None ELSE P.slots[i]], P.queue)

\* on_tick of the room's mixer, once per TickInterval.
Tick ==
  /\ sinceTick >= TickInterval
  /\ sinceTick' = 0
  /\ pub' = PubTicked(pub)
  /\ subs' = [n \in Sizes |-> Ticked(subs[n])]
  /\ told' = ToldAfter(subs')
  /\ UNCHANGED <<auto_mode, tracks, net>>

Next ==
  \/ \E t \in Tracks : TrackPublish(t) \/ TrackUnpublish(t)
  \/ \E t \in Tracks, level \in Levels : TrackData(t, level)
  \/ PopPublisher
  \/ \E e \in Endpoints, n \in Sizes \union {Unsupported} : Join(e, n)
  \/ \E e \in Endpoints : Leave(e)
  \/ \E level \in Levels, source \in FarTracks \union {None} : FarData(level, source)
  \/ SourceData
  \/ \E n \in Sizes : PopSubscriber(n)
  \/ Advance
  \/ Tick

Spec == Init /\ [][Next]_vars

-----------------------------------------------------------------------------
\* The state has the shape the code gives it; a packet names a slot of the
\* publisher.
TypeOK ==
  /\ DOMAIN auto_mode \subseteq Endpoints
  /\ \A e \in DOMAIN auto_mode : auto_mode[e] \in Sizes \union {Unsupported}
  /\ tracks \subseteq Tracks
  /\ pub.slots \in [0..(PubSlots - 1) -> (0..FireInterval) \union {None}]
  /\ \A n \in Sizes : subs[n].outputs \in [0..(n - 1) -> AllTracks \union {None, NoInfo}]
  /\ \A k \in 1..Len(air) : air[k].slot \in 0..(PubSlots - 1) /\ air[k].source \in AllTracks \union {None}
  /\ told \in [Endpoints -> [MaxSlots -> AllTracks \union {None}]]

\* Every mixer's tables agree, the slots of the publisher and of the subscribers
\* are in use exactly when their mixer's are ("Output slot not found" cannot
\* happen), and a subscriber's endpoints are those that joined with its number
\* of outputs (the assertions of on_endpoint_join and on_endpoint_leave hold).
SlotsAgree ==
  /\ Paired(pub.mixer)
  /\ {i \in DOMAIN pub.slots : pub.slots[i] # None} = Filled(pub.mixer)
  /\ \A n \in Sizes :
       /\ Paired(subs[n].mixer)
       /\ {i \in DOMAIN subs[n].outputs : subs[n].outputs[i] # None} = Filled(subs[n].mixer)
       /\ subs[n].endpoints = {e \in DOMAIN auto_mode : auto_mode[e] = n}

\* The network sees PubStart, data and PubStop of the mix channel in a legal
\* order, and once the queue is drained publishes exactly while there are tracks.
PublishLegal ==
  Legal([k \in 1..Len(pub.queue) |-> pub.queue[k].op],
        IF sdnPub THEN 1 ELSE 0, IF tracks # {} THEN 1 ELSE 0)

\* Whenever it joined, an endpoint has been told the source of each of its slots
\* that has one, and of none for a slot that is not in use.
SlotsTold ==
  \A n \in Sizes : \A e \in subs[n].endpoints : \A i \in 0..(n - 1) :
    /\ subs[n].outputs[i] \in AllTracks => told[e][i] = subs[n].outputs[i]
    /\ subs[n].outputs[i] = None => told[e][i] = None

\* "only last endpoint leave should fire Unsub" (subscriber.rs): once the controls
\* are drained the node is subscribed to the mix channel if and only if some
\* endpoint listens to it.
ListenersSubscribed ==
  (\A n \in Sizes : subs[n].queue = <<>>) => (sdnSub <=> \E n \in Sizes : subs[n].endpoints # {})
=============================================================================
