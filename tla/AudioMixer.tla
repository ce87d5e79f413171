----------------------------- MODULE AudioMixer -----------------------------
(***************************************************************************)
(* The audio mixer of packages/audio_mixer: a fixed number of output slots *)
(* is given to the loudest of a changing set of sources.  A mixer m is a   *)
(* record: m.sources maps a known source to the time since its last packet *)
(* and to its slot, if it has one, m.outputs maps a slot to the source it  *)
(* is pinned to with the level it was pinned at, m.len counts pinned slots.*)
(* Instants are kept as ages, in the unit of SlotTimeout.                  *)
(***************************************************************************)
EXTENDS ControlStream, Integers, FiniteSets

CONSTANTS
  None,        \* Option::None
  SlotTimeout  \* AUDIO_SLOT_TIMEOUT

ASSUME SlotTimeoutAssumption == SlotTimeout \in Nat \ {0}

SILENT_LEVEL == -127
SWITCH_AUDIO_THRESHOLD == 30

NewMixer(n) == [len |-> 0, sources |-> Empty, outputs |-> [i \in 0..(n - 1) |-> None]]

Filled(m) == {i \in DOMAIN m.outputs : m.outputs[i] # None}

Free(m) == DOMAIN m.outputs \ Filled(m)

has_empty_slot(m) == m.len < Cardinality(DOMAIN m.outputs)

find_empty_slot(m) == CHOOSE i \in Free(m) : \A j \in Free(m) : i <= j

\* The last of the slots that were pinned at the lowest level.
lowest_slot(m) ==
  CHOOSE i \in Filled(m) : \A j \in Filled(m) :
    LET a == m.outputs[i].level  b == m.outputs[j].level IN a < b \/ (a = b /\ j <= i)

\* What on_pkt answers: the mixer afterwards, the slot of the packet or None,
\* and whether the slot was just set to its source.
Answer(m, slot, just_set) == [mixer |-> m, slot |-> slot, just_set |-> just_set]

\* The sources after a packet of s, which has the given slot from now on.
Heard(m, s, slot) == With(m.sources, s, [age |-> 0, slot |-> slot])

Set(m, i, s, level) == [m.outputs EXCEPT ![i] = [level |-> level, source |-> s]]

\* The packet only renews the time stamp.
Renew(m, s) ==
  Answer([len |-> m.len, sources |-> Heard(m, s, m.sources[s].slot), outputs |-> m.outputs],
         m.sources[s].slot, FALSE)

\* The source gets a free slot.
Fill(m, s, level) ==
  LET i == find_empty_slot(m)
  IN  Answer([len |-> m.len + 1, sources |-> Heard(m, s, i), outputs |-> Set(m, i, s, level)], i, TRUE)

\* The displaced source believes it still has its slot.
Switch_Mutant(m, s, level) ==
  LET i == lowest_slot(m)
  IN  Answer([len |-> m.len, sources |-> Heard(m, s, i), outputs |-> Set(m, i, s, level)], i, TRUE)

\* The source takes the slot of the quietest pinned source.
Switch(m, s, level) ==
  LET i   == lowest_slot(m)
      old == m.outputs[i].source
  IN  Answer([len |-> m.len,
              sources |-> With(Heard(m, s, i), old, [age |-> m.sources[old].age, slot |-> None]),
              outputs |-> Set(m, i, s, level)], i, TRUE)

\* The source gets no slot.
Wait(m, s) == Answer([len |-> m.len, sources |-> Heard(m, s, None), outputs |-> m.outputs], None, FALSE)

on_pkt(m, s, audio_level) ==
  LET level  == IF audio_level = None THEN SILENT_LEVEL ELSE audio_level
      known  == s \in DOMAIN m.sources
      pinned == known /\ m.sources[s].slot # None
      free   == IF known THEN has_empty_slot(m) ELSE Free(m) # {}
      louder == known /\ level >= m.outputs[lowest_slot(m)].level + SWITCH_AUDIO_THRESHOLD
  IN  IF pinned THEN Renew(m, s)
      ELSE IF free THEN Fill(m, s, level)
      ELSE IF louder THEN Switch(m, s, level)
      ELSE Wait(m, s)

\* The sources that have been silent for the timeout, and their slots.
TimedOut(m) == {s \in DOMAIN m.sources : m.sources[s].age >= SlotTimeout}

Cleared(m) == {m.sources[s].slot : s \in TimedOut(m)} \ {None}

\* on_tick forgets them.
on_tick(m) ==
  [len |-> m.len - Cardinality({s \in TimedOut(m) : m.sources[s].slot # None}),
   sources |-> [s \in DOMAIN m.sources \ TimedOut(m) |-> m.sources[s]],
   outputs |-> [i \in DOMAIN m.outputs |-> IF i \in Cleared(m) THEN None ELSE m.outputs[i]]]

\* Time passes.
Older(m) ==
  [len |-> m.len,
   sources |-> [s \in DOMAIN m.sources |->
                  [age |-> IF m.sources[s].age < SlotTimeout THEN m.sources[s].age + 1 ELSE SlotTimeout,
                   slot |-> m.sources[s].slot]],
   outputs |-> m.outputs]

-----------------------------------------------------------------------------
\* The two tables name the same pairs of source and slot, and len counts them.
\* On it rest the expectations of on_pkt: has_empty_slot implies that
\* find_empty_slot finds one ("Should have empty"), and the source of the lowest
\* slot is known ("Should have lowest_source").
Paired(m) ==
  /\ m.len = Cardinality(Filled(m))
  /\ \A i \in Filled(m) : /\ m.outputs[i].source \in DOMAIN m.sources
                          /\ m.sources[m.outputs[i].source].slot = i
  /\ \A s \in DOMAIN m.sources :
       m.sources[s].slot # None => /\ m.sources[s].slot \in Filled(m)
                                   /\ m.outputs[m.sources[s].slot].source = s
=============================================================================
