------------------------------ MODULE MCStreams ------------------------------
(* What becomes of the streams of a room, each part on a small instance of its *)
(* own: the automatic and the manual audio mixer, and the rewriting of         *)
(* sequence numbers, timestamps and payload headers.                           *)
EXTENDS AutoMixer, TLC

\* No level, which counts as silent, and one a threshold above that.
MCLevels == {None, -90}

VARIABLES
  part,   \* which of the components moves; the others rest
  joined, asked, ctrls, members, manual_mode, tasks, manual_channels, sdn,
  manualTold, manualSinceTick, panicked, idle,
  rw, ext, n, since, lost, gone, origin, top, high, out, left,
  tr, clock, stamp, tsSince, tsOrigin, tsOut, tsLeft,
  h, wire, at, seen, hops

\* Fewer tracks here and one on the other node.
Apart == INSTANCE AutoMixer WITH Tracks <- {"x"}, FarTracks <- {"f"}

Manual == INSTANCE ManualMixer WITH
  Sources <- {"a"}, Levels <- {None}, Slots <- 1, SlotTimeout <- 1,
  TickInterval <- 1, MaxControls <- 2, told <- manualTold,
  sinceTick <- manualSinceTick

\* Half of the numbers is more than a packet may be late or missing: Lag + Run < MAX / 2.
SeqNo == INSTANCE SeqRewrite WITH
  MAX <- 10, Kept <- 2, Starts <- {0, 4, 8}, MaxNumber <- 12, Lag <- 2,
  Run <- 2, Sources <- 1, AcrossWrap <- FALSE

Stamps == INSTANCE TsRewrite WITH
  TS_LIMIT <- 10, TS_DELTA_REINIT <- 1, Starts <- {0, 3, 8}, Step <- 2,
  Lag <- 2, MaxClock <- 4, MaxStamp <- 12, Switches <- 1,
  WrappedAhead <- FALSE, since <- tsSince, origin <- tsOrigin, out <- tsOut,
  left <- tsLeft

Headers == INSTANCE PayloadHeaders WITH
  Codecs <- {"vp8", "vp9", "h264"}, Ids <- {0, 127, 128, 32767},
  MaxRefs <- 2, Hops <- 1

manualVars == <<joined, asked, ctrls, members, manual_mode, tasks,
                manual_channels, sdn, manualTold, manualSinceTick, panicked,
                idle>>
seqVars == <<rw, ext, n, since, lost, gone, origin, top, high, out, left>>
tsVars == <<tr, clock, stamp, tsSince, tsOrigin, tsOut, tsLeft>>
headersVars == <<h, wire, at, seen, hops>>
allVars == <<part, vars, manualVars, seqVars, tsVars, headersVars>>

AllInit ==
  /\ part \in {"mixer", "far", "manual", "seq", "ts", "headers"}
  /\ IF part = "far" THEN Apart!Init ELSE Init
  /\ IF part = "manual" THEN Manual!Init
     ELSE joined = 0 /\ asked = 0 /\ ctrls = 0 /\ members = 0 /\
          manual_mode = 0 /\ tasks = 0 /\ manual_channels = 0 /\ sdn = 0 /\
          manualTold = 0 /\ manualSinceTick = 0 /\ panicked = 0 /\ idle = 0
  /\ IF part = "seq" THEN SeqNo!Init
     ELSE rw = 0 /\ ext = 0 /\ n = 0 /\ since = 0 /\ lost = 0 /\ gone = 0 /\
          origin = 0 /\ top = 0 /\ high = 0 /\ out = 0 /\ left = 0
  /\ IF part = "ts" THEN Stamps!Init
     ELSE tr = 0 /\ clock = 0 /\ stamp = 0 /\ tsSince = 0 /\ tsOrigin = 0 /\
          tsOut = 0 /\ tsLeft = 0
  /\ IF part = "headers" THEN Headers!Init
     ELSE h = 0 /\ wire = 0 /\ at = 0 /\ seen = 0 /\ hops = 0

AllNext ==
  \/ /\ part = "mixer" /\ Next
     /\ UNCHANGED <<part, manualVars, seqVars, tsVars, headersVars>>
  \/ /\ part = "far" /\ Apart!Next
     /\ UNCHANGED <<part, manualVars, seqVars, tsVars, headersVars>>
  \/ /\ part = "manual" /\ Manual!Next
     /\ UNCHANGED <<part, vars, seqVars, tsVars, headersVars>>
  \/ /\ part = "seq" /\ SeqNo!Next
     /\ UNCHANGED <<part, vars, manualVars, tsVars, headersVars>>
  \/ /\ part = "ts" /\ Stamps!Next
     /\ UNCHANGED <<part, vars, manualVars, seqVars, headersVars>>
  \/ /\ part = "headers" /\ Headers!Next
     /\ UNCHANGED <<part, vars, manualVars, seqVars, tsVars>>
  \* These may come to an end.
  \/ part \in {"seq", "ts", "headers"} /\ UNCHANGED allVars

AllSpec == AllInit /\ [][AllNext]_allVars

------------------------------------------------------------------------------
\* The automatic mixer of a room (audio_mixer.rs). Mixer, publisher and
\* network agree on which track has which slot; a slot's channel is
\* published to only between its start and its stop; and once nothing is
\* under way every listener has been told the source of every slot it
\* hears, also one that came later.
MixerTold ==
  /\ part = "mixer" => /\ TypeOK
                       /\ SlotsAgree
                       /\ PublishLegal
                       /\ SlotsTold
  /\ part = "far" => /\ Apart!TypeOK
                     /\ Apart!SlotsAgree
                     /\ Apart!PublishLegal
                     /\ Apart!SlotsTold

\* The manual mixers of a room (audio_mixer/manual.rs). None of the
\* expectations of the room's mixer fails, whatever the endpoints request
\* while earlier controls are under way; the node is subscribed to a
\* channel exactly while some mixer has it, and the channel lists each of
\* these mixers once; and once its controls have arrived a mixer has
\* exactly the sources its endpoint attached and has told the source of
\* every slot.
SourcesServed ==
  /\ part = "manual" => /\ Manual!NoExpectFails
                        /\ Manual!ChannelsShared
                        /\ Manual!SourcesAsAsked

\* The rewriting of numbers (seq_rewrite.rs, seq_extend.rs, ts_rewrite.rs).
\* A packet's number is its place among the packets that were not dropped,
\* over all sources: drops and switches make no gap, losses keep theirs, no
\* number is given twice, and the number on the wire counts on over its
\* wraps. Timestamps keep the distances of their source over wraps and late
\* packets and never jump back at a switch.
NumbersKept ==
  /\ part = "seq" => /\ SeqNo!TypeOK
                     /\ SeqNo!Numbered
                     /\ SeqNo!Extended
  /\ part = "ts" => Stamps!Stamped

\* What a node reads from the header of a payload is what the sender meant,
\* and what the next node reads after a rewrite differs in the numbers
\* only, cut to the width they have on the wire: no other byte of the
\* header or the payload is touched (vp8.rs, vp9.rs, h264.rs).
ReadAsMeant == part = "headers" => Headers!ReadAsMeant

Symmetry == Permutations(Endpoints) \union Permutations(Tracks)
==============================================================================
