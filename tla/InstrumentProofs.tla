--------------------------- MODULE InstrumentProofs ---------------------------
(***************************************************************************)
(* Proofs about the voices, the keys and the resonances.  Of the keyboard: *)
(* its invariant KeyInv, and that a pedal which never rests between the    *)
(* damper's bite and the threshold leaves no string sounding under its     *)
(* damper.  Of the whole instrument: its keys behave as Keyboard says, a   *)
(* string never sounds by itself and through resonance at once, a fade is  *)
(* final and the budget of the resonances is kept.                         *)
(***************************************************************************)
EXTENDS Instrument, TLAPS, FiniteSetTheorems

-----------------------------------------------------------------------------
(* Counting at most one voice. *)

\* A set of which no two members differ has none or one.
LEMMA LoneCount ==
  ASSUME NEW S, \A s, t \in S : s = t
  PROVE  /\ S = {} => Cardinality(S) = 0
         /\ S # {} => Cardinality(S) = 1
<1>1. CASE S = {}
  BY <1>1, FS_EmptySet
<1>2. CASE S # {}
  <2>1. PICK s \in S : TRUE
    BY <1>2
  <2>2. S = {s}
    BY <2>1
  <2> QED
    BY <1>2, <2>2, FS_Singleton
<1> QED
  BY <1>1, <1>2

\* The counter of a note with and without a voice.
LEMMA CountFacts ==
  ASSUME KeyInv, NEW n \in Notes
  PROVE  /\ (\E s \in Slots : phase[s] # "free" /\ midi[s] = n) => count[n] = 1
         /\ (\A s \in Slots : ~(phase[s] # "free" /\ midi[s] = n)) => count[n] = 0
<1> DEFINE S == {s \in Slots : Sounding(s, n)}
<1>1. count[n] = Cardinality(S)
  BY DEF KeyInv, CountTrue
<1>2. \A s, t \in S : s = t
  BY DEF KeyInv, OneVoicePerNote, Sounding
<1>3. /\ S = {} => Cardinality(S) = 0
      /\ S # {} => Cardinality(S) = 1
  <2> HIDE DEF S
  <2> QED
    BY <1>2, LoneCount
<1>4. S = {} <=> \A s \in Slots : ~(phase[s] # "free" /\ midi[s] = n)
  BY DEF Sounding
<1> HIDE DEF S
<1> QED
  BY <1>1, <1>3, <1>4

\* CountTrue after a step, from the same view of the counter.
LEMMA CountAfter ==
  ASSUME OneVoicePerNote',
         \A n \in Notes :
           \/ /\ \E s \in Slots : phase'[s] # "free" /\ midi'[s] = n
              /\ count'[n] = 1
           \/ /\ \A s \in Slots : ~(phase'[s] # "free" /\ midi'[s] = n)
              /\ count'[n] = 0
  PROVE  CountTrue'
<1> SUFFICES ASSUME NEW n \in Notes
             PROVE  count'[n] =
                      Cardinality({s \in Slots : phase'[s] # "free" /\ midi'[s] = n})
  BY DEF CountTrue, Sounding
<1> DEFINE S == {s \in Slots : phase'[s] # "free" /\ midi'[s] = n}
<1>1. \A s, t \in S : s = t
  BY DEF OneVoicePerNote
<1>2. \/ S # {} /\ count'[n] = 1
      \/ S = {} /\ count'[n] = 0
  OBVIOUS
<1>3. /\ S = {} => Cardinality(S) = 0
      /\ S # {} => Cardinality(S) = 1
  <2> HIDE DEF S
  <2> QED
    BY <1>1, LoneCount
<1>4. count'[n] = Cardinality(S)
  <2> HIDE DEF S
  <2> QED
    BY <1>2, <1>3
<1> QED
  BY <1>4

-----------------------------------------------------------------------------
(* Key down. *)

\* A strike that finds a slot: what sounded the note is damped, the slot may
\* be stolen from another note, and at most one voice of the note is left.
LEMMA StartInKeeps ==
  ASSUME KeyInv, NEW n \in Notes, NEW c \in Channels, NEW s \in Slots,
         mask' = [mask EXCEPT ![n] = @ \cup {c}],
         held' = [held EXCEPT ![n] = @ \/ mask[n] = {}],
         UNCHANGED <<cc, bank>>, StartIn(s, n)
  PROVE  KeyInv'
<1> DEFINE off == Damped(n)
           rings == bank[n] = "tone"
           stole == phase[s] # "free" /\ s \notin off
<1> USE DEF Banks
<1>0. TypeOK /\ OneVoicePerNote /\ CountTrue /\ HeldAgrees /\ PendingExact
        /\ VoicesBacked
  BY DEF KeyInv
<1>1. /\ phase' = [t \in Slots |-> IF t = s
                                   THEN IF rings THEN "play" ELSE "free"
                                   ELSE IF t \in off THEN "free" ELSE phase[t]]
      /\ pending' = [t \in Slots |-> pending[t] /\ t # s /\ t \notin off]
      /\ midi' = [midi EXCEPT ![s] = n]
  BY DEF StartIn
<1>2. \A t \in Slots : t \in off <=> phase[t] # "free" /\ midi[t] = n
  BY DEF Damped, Sounding
<1>3. \A t \in Slots : midi'[t] = IF t = s THEN n ELSE midi[t]
  BY <1>0, <1>1 DEF TypeOK
<1>4. \A t \in Slots : phase'[t] # "free" =>
        IF t = s THEN rings
        ELSE phase'[t] = phase[t] /\ midi'[t] = midi[t] /\ midi[t] # n
  BY <1>1, <1>2, <1>3
<1>5. OneVoicePerNote'
  <2> SUFFICES ASSUME NEW t \in Slots, NEW u \in Slots,
                      phase'[t] # "free", phase'[u] # "free",
                      midi'[t] = midi'[u]
               PROVE  t = u
    BY DEF OneVoicePerNote
  <2> QED
    BY <1>0, <1>3, <1>4 DEF OneVoicePerNote
<1>6. held' \in [Notes -> BOOLEAN] /\ held'[n]
        /\ \A m \in Notes \ {n} : held'[m] = held[m]
  <2>1. held'[n] = (held[n] \/ mask[n] = {})
    BY <1>0 DEF TypeOK
  <2>2. held[n] <=> mask[n] # {}
    BY <1>0 DEF HeldAgrees
  <2>3. \A m \in Notes \ {n} : held'[m] = held[m]
    BY <1>0 DEF TypeOK
  <2>4. held' \in [Notes -> BOOLEAN]
    BY <1>0 DEF TypeOK
  <2> QED
    BY <2>1, <2>2, <2>3, <2>4, Zenon
<1>7. HeldAgrees'
  <2>1. mask'[n] # {} /\ \A m \in Notes \ {n} : mask'[m] = mask[m]
    BY <1>0 DEF TypeOK
  <2> SUFFICES ASSUME NEW m \in Notes PROVE held'[m] <=> mask'[m] # {}
    BY DEF HeldAgrees
  <2>2. CASE m = n
    BY <2>1, <2>2, <1>6, Zenon
  <2>3. CASE m # n
    <3>1. held'[m] = held[m] /\ mask'[m] = mask[m]
      BY <2>1, <2>3, <1>6
    <3>2. held[m] <=> mask[m] # {}
      BY <1>0 DEF HeldAgrees
    <3> QED
      BY <3>1, <3>2, Zenon
  <2> QED
    BY <2>2, <2>3
<1>8. PendingExact'
  <2> SUFFICES ASSUME NEW t \in Slots, phase'[t] = "play"
               PROVE  pending'[t] <=> ~held'[midi'[t]]
    BY DEF PendingExact
  <2>1. CASE t = s
    <3>1. ~pending'[s] /\ midi'[t] = n
      BY <1>1, <1>3, <2>1
    <3> QED
      BY <3>1, <2>1, <1>6, Zenon
  <2>2. CASE t # s
    <3>1. /\ phase[t] = "play" /\ midi'[t] = midi[t] /\ midi[t] # n
          /\ midi[t] \in Notes /\ t \notin off
      BY <1>0, <1>2, <1>4, <2>2 DEF TypeOK
    <3>2. pending'[t] <=> pending[t]
      <4>1. pending'[t] = (pending[t] /\ t # s /\ t \notin off)
        BY <1>1
      <4> QED
        BY <4>1, <3>1, <2>2, <1>0 DEF TypeOK
    <3>3. pending[t] <=> ~held[midi[t]]
      BY <3>1, <1>0, Zenon DEF PendingExact
    <3>4. held'[midi'[t]] = held[midi[t]]
      BY <3>1, <1>6
    <3> QED
      BY <3>2, <3>3, <3>4, Zenon
  <2> QED
    BY <2>1, <2>2
<1>9. VoicesBacked'
  BY <1>0, <1>3, <1>4 DEF VoicesBacked
<1>10. ASSUME NEW m \in Notes
       PROVE  count'[m] =
                Less(count[m], (IF m = n THEN Cardinality(off) ELSE 0)
                             + (IF stole /\ m = midi[s] THEN 1 ELSE 0))
                + (IF m = n /\ rings THEN 1 ELSE 0)
  BY <1>0 DEF StartIn, TypeOK, Less
<1>11. count'[n] = IF rings THEN 1 ELSE 0
  <2>1. Cardinality(off) = count[n]
    BY <1>0 DEF CountTrue, Damped
  <2>2. ~(stole /\ n = midi[s])
    BY <1>2
  <2>3. count[n] \in Nat
    BY <1>0 DEF TypeOK
  <2> QED
    BY <1>10, <2>1, <2>2, <2>3 DEF Less
<1>12. ASSUME NEW m \in Notes
       PROVE  \/ /\ \E t \in Slots : phase'[t] # "free" /\ midi'[t] = m
                 /\ count'[m] = 1
              \/ /\ \A t \in Slots : ~(phase'[t] # "free" /\ midi'[t] = m)
                 /\ count'[m] = 0
  <2>1. CASE m = n /\ rings
    <3>1. phase'[s] # "free" /\ midi'[s] = n
      BY <1>1, <1>3, <2>1
    <3> QED
      BY <3>1, <1>11, <2>1
  <2>2. CASE m = n /\ ~rings
    BY <1>3, <1>4, <1>11, <2>2
  <2>3. CASE m # n
    <3>1. /\ (\E t \in Slots : phase[t] # "free" /\ midi[t] = m) => count[m] = 1
          /\ (\A t \in Slots : ~(phase[t] # "free" /\ midi[t] = m)) => count[m] = 0
      BY CountFacts
    <3>2. count'[m] = Less(count[m], IF stole /\ m = midi[s] THEN 1 ELSE 0)
      BY <1>10, <2>3, <1>0 DEF TypeOK, Less
    <3>3. CASE stole /\ m = midi[s]
      <4>1. count'[m] = 0
        BY <3>1, <3>2, <3>3 DEF Less
      <4>2. \A t \in Slots : ~(phase'[t] # "free" /\ midi'[t] = m)
        BY <1>0, <1>3, <1>4, <2>3, <3>3 DEF OneVoicePerNote
      <4> QED
        BY <4>1, <4>2
    <3>4. CASE ~(stole /\ m = midi[s])
      <4>1. count'[m] = count[m]
        BY <3>2, <3>4, <1>0 DEF Less, TypeOK
      <4>2. ASSUME NEW t \in Slots
            PROVE  phase'[t] # "free" /\ midi'[t] = m
                     <=> phase[t] # "free" /\ midi[t] = m
        BY <1>1, <1>2, <1>3, <2>3, <3>4
      <4> QED
        BY <3>1, <4>1, <4>2, Zenon
    <3> QED
      BY <3>3, <3>4
  <2> QED
    BY <2>1, <2>2, <2>3
<1>13. CountTrue'
  <2> HIDE DEF off, rings, stole
  <2> QED
    BY <1>5, <1>12, CountAfter, Zenon
<1>14. TypeOK'
  <2>1. mask' \in [Notes -> SUBSET Channels]
    BY <1>0 DEF TypeOK
  <2>2. midi' \in [Slots -> Notes \cup {None}]
    BY <1>0, <1>1 DEF TypeOK
  <2>3. phase' \in [Slots -> {"free", "play", "release"}]
    BY <1>0, <1>1 DEF TypeOK
  <2>4. pending' \in [Slots -> BOOLEAN]
    BY <1>0, <1>1 DEF TypeOK
  <2>5. count' \in [Notes -> Nat]
    <3>1. \A m \in Notes : count'[m] \in Nat
      BY <1>12
    <3>2. count' = [m \in Notes |-> count'[m]]
      BY DEF StartIn
    <3> QED
      BY <3>1, <3>2
  <2>6. \A t \in Slots : phase'[t] # "free" => midi'[t] \in Notes
    BY <1>0, <1>3, <1>4 DEF TypeOK
  <2>7. cc' \in PedalPositions \cup {0} /\ bank' \in Banks
    BY <1>0 DEF TypeOK
  <2> QED
    BY <1>6, <2>1, <2>2, <2>3, <2>4, <2>5, <2>6, <2>7 DEF TypeOK
<1> QED
  BY <1>5, <1>7, <1>8, <1>9, <1>13, <1>14 DEF KeyInv

\* A NoteOn event, also of a note the bank does not have.
LEMMA NoteOnKeeps ==
  ASSUME KeyInv, NEW n \in Notes, NEW c \in Channels, NoteOn(n, c)
  PROVE  KeyInv'
<1>1. CASE bank[n] # "none"
  <2>1. PICK s \in Slots : StartIn(s, n)
    BY <1>1 DEF NoteOn, FindSlot
  <2> QED
    BY <2>1, StartInKeeps DEF NoteOn
<1>2. CASE bank[n] = "none"
  <2>0. TypeOK /\ OneVoicePerNote /\ CountTrue /\ HeldAgrees /\ PendingExact
          /\ VoicesBacked
    BY DEF KeyInv
  <2>1. UNCHANGED <<cc, bank, midi, phase, pending, count>>
    BY <1>2 DEF NoteOn, poolVars
  <2>2. held'[n] = (held[n] \/ mask[n] = {})
    BY <2>0 DEF TypeOK, NoteOn
  <2>3. \A m \in Notes \ {n} : held'[m] = held[m] /\ mask'[m] = mask[m]
    BY <2>0 DEF TypeOK, NoteOn
  <2>4. mask'[n] # {}
    BY <2>0 DEF TypeOK, NoteOn
  <2>5. TypeOK'
    BY <2>0, <2>1 DEF TypeOK, NoteOn
  <2>6. HeldAgrees'
    <3> SUFFICES ASSUME NEW m \in Notes PROVE held'[m] <=> mask'[m] # {}
      BY DEF HeldAgrees
    <3>1. held[m] <=> mask[m] # {}
      BY <2>0 DEF HeldAgrees
    <3>2. CASE m = n
      BY <2>2, <2>4, <3>1, <3>2, Zenon
    <3>3. CASE m # n
      <4>1. held'[m] = held[m] /\ mask'[m] = mask[m]
        BY <2>3, <3>3
      <4> QED
        BY <3>1, <4>1, Zenon
    <3> QED
      BY <3>2, <3>3
  <2>7. PendingExact'
    <3> SUFFICES ASSUME NEW s \in Slots, phase'[s] = "play"
                 PROVE  pending'[s] <=> ~held'[midi'[s]]
      BY DEF PendingExact
    <3>1. midi[s] \in Notes \ {n} /\ phase[s] = "play"
      BY <1>2, <2>0, <2>1 DEF TypeOK, VoicesBacked
    <3>2. held'[midi'[s]] = held[midi[s]] /\ pending'[s] = pending[s]
      BY <2>1, <2>3, <3>1
    <3>3. pending[s] <=> ~held[midi[s]]
      BY <2>0, <3>1, Zenon DEF PendingExact
    <3> QED
      BY <3>2, <3>3, Zenon
  <2>8. OneVoicePerNote' /\ CountTrue' /\ VoicesBacked'
    BY <2>0, <2>1 DEF OneVoicePerNote, CountTrue, VoicesBacked, Sounding
  <2> QED
    BY <2>5, <2>6, <2>7, <2>8 DEF KeyInv
<1> QED
  BY <1>1, <1>2

-----------------------------------------------------------------------------
(* Key up, pedal, panic. *)

\* What an event that neither starts nor ends a voice leaves true of the pool.
LEMMA SameVoices ==
  ASSUME KeyInv, UNCHANGED <<midi, count, bank>>, phase' \in [Slots -> {"free", "play", "release"}],
         \A s \in Slots : phase'[s] = "free" <=> phase[s] = "free"
  PROVE  OneVoicePerNote' /\ CountTrue' /\ VoicesBacked'
<1>1. OneVoicePerNote'
  BY DEF KeyInv, OneVoicePerNote
<1>2. VoicesBacked'
  BY DEF KeyInv, VoicesBacked
<1>3. CountTrue'
  <2> SUFFICES ASSUME NEW n \in Notes
               PROVE  count'[n] = Cardinality({s \in Slots : Sounding(s, n)}')
    BY DEF CountTrue
  <2>1. {s \in Slots : Sounding(s, n)}' = {s \in Slots : Sounding(s, n)}
    BY DEF Sounding
  <2>2. count[n] = Cardinality({s \in Slots : Sounding(s, n)})
    BY DEF KeyInv, CountTrue
  <2> QED
    BY <2>1, <2>2
<1> QED
  BY <1>1, <1>2, <1>3

LEMMA NoteOffKeeps ==
  ASSUME KeyInv, NEW n \in Notes, NEW c \in Channels, NoteOff(n, c)
  PROVE  KeyInv'
<1> DEFINE sounds == {s \in Slots : phase[s] = "play" /\ midi[s] = n}
<1>0. TypeOK /\ HeldAgrees /\ PendingExact
  BY DEF KeyInv
<1>1. /\ mask' = [mask EXCEPT ![n] = @ \ {c}]
      /\ UNCHANGED <<cc, midi, count, bank>>
  BY DEF NoteOff
<1>2. /\ mask' \in [Notes -> SUBSET Channels]
      /\ mask'[n] = mask[n] \ {c}
      /\ \A m \in Notes \ {n} : mask'[m] = mask[m]
  BY <1>0, <1>1 DEF TypeOK
<1>3. CASE ~LastHolder(n, c)
  <2>1. UNCHANGED <<held, phase, pending>>
    BY <1>3 DEF NoteOff
  <2>2. TypeOK'
    BY <1>0, <1>1, <1>2, <2>1 DEF TypeOK
  <2>3. HeldAgrees'
    <3> SUFFICES ASSUME NEW m \in Notes PROVE held'[m] <=> mask'[m] # {}
      BY DEF HeldAgrees
    <3>1. held[m] <=> mask[m] # {}
      BY <1>0 DEF HeldAgrees
    <3>2. mask'[m] # {} <=> mask[m] # {}
      <4>1. CASE m = n
        BY <1>2, <1>3, <4>1 DEF LastHolder
      <4>2. CASE m # n
        BY <1>2, <4>2
      <4> QED
        BY <4>1, <4>2
    <3> QED
      BY <2>1, <3>1, <3>2, Zenon
  <2>4. PendingExact'
    BY <1>0, <1>1, <2>1, Zenon DEF PendingExact
  <2>5. phase' \in [Slots -> {"free", "play", "release"}]
        /\ \A s \in Slots : phase'[s] = "free" <=> phase[s] = "free"
    BY <1>0, <2>1 DEF TypeOK
  <2> QED
    BY <1>1, <2>2, <2>3, <2>4, <2>5, SameVoices DEF KeyInv
<1>4. CASE LastHolder(n, c)
  <2>1. held' = [held EXCEPT ![n] = FALSE]
    BY <1>4 DEF NoteOff
  <2>2. /\ held' \in [Notes -> BOOLEAN] /\ ~held'[n]
        /\ \A m \in Notes \ {n} : held'[m] = held[m]
    BY <1>0, <2>1 DEF TypeOK
  <2>3. HeldAgrees'
    <3> SUFFICES ASSUME NEW m \in Notes PROVE held'[m] <=> mask'[m] # {}
      BY DEF HeldAgrees
    <3>1. CASE m = n
      <4>1. mask'[n] = {}
        BY <1>2, <1>4 DEF LastHolder
      <4> QED
        BY <2>2, <3>1, <4>1, Zenon
    <3>2. CASE m # n
      <4>1. held'[m] = held[m] /\ mask'[m] = mask[m]
        BY <1>2, <2>2, <3>2
      <4>2. held[m] <=> mask[m] # {}
        BY <1>0 DEF HeldAgrees
      <4> QED
        BY <4>1, <4>2, Zenon
    <3> QED
      BY <3>1, <3>2
  <2>4. \/ /\ pending' = [s \in Slots |-> pending[s] \/ s \in sounds]
           /\ UNCHANGED phase
        \/ /\ phase' = [s \in Slots |->
                          IF s \in sounds THEN "release" ELSE phase[s]]
           /\ UNCHANGED pending
    BY <1>4 DEF NoteOff
  <2>5. /\ phase' \in [Slots -> {"free", "play", "release"}]
        /\ pending' \in [Slots -> BOOLEAN]
        /\ \A s \in Slots : phase'[s] = "free" <=> phase[s] = "free"
    BY <1>0, <2>4 DEF TypeOK
  <2>6. TypeOK'
    BY <1>0, <1>1, <1>2, <2>2, <2>5 DEF TypeOK
  <2>7. PendingExact'
    <3> SUFFICES ASSUME NEW s \in Slots, phase'[s] = "play"
                 PROVE  pending'[s] <=> ~held'[midi[s]]
      BY <1>1 DEF PendingExact
    <3>1. phase[s] = "play" /\ midi[s] \in Notes
      BY <1>0, <2>4 DEF TypeOK
    <3>2. CASE midi[s] = n
      <4>1. s \in sounds
        BY <3>1, <3>2
      <4>2. pending'[s]
        BY <2>4, <3>1, <4>1
      <4> QED
        BY <2>2, <3>2, <4>2, Zenon
    <3>3. CASE midi[s] # n
      <4>1. s \notin sounds
        BY <3>3
      <4>2. pending'[s] = pending[s]
        <5>1. CASE UNCHANGED pending
          BY <5>1
        <5>2. CASE pending' = [t \in Slots |-> pending[t] \/ t \in sounds]
          <6> HIDE DEF sounds
          <6>1. pending'[s] = (pending[s] \/ s \in sounds)
            BY <5>2
          <6>2. pending[s] \in BOOLEAN
            BY <1>0 DEF TypeOK
          <6> QED
            BY <4>1, <6>1, <6>2, Zenon
        <5> QED
          BY <2>4, <5>1, <5>2
      <4>3. held'[midi[s]] = held[midi[s]]
        BY <2>2, <3>1, <3>3
      <4>4. pending[s] <=> ~held[midi[s]]
        BY <1>0, <3>1, Zenon DEF PendingExact
      <4> QED
        BY <4>2, <4>3, <4>4, Zenon
    <3> QED
      BY <3>2, <3>3
  <2> QED
    BY <1>1, <2>3, <2>5, <2>6, <2>7, SameVoices DEF KeyInv
<1> QED
  BY <1>3, <1>4

LEMMA SustainKeeps ==
  ASSUME KeyInv, NEW p \in PedalPositions, Sustain(p)
  PROVE  KeyInv'
<1>0. TypeOK /\ HeldAgrees /\ PendingExact
  BY DEF KeyInv
<1>1. cc' = p /\ UNCHANGED <<mask, held, midi, count, bank>>
  BY DEF Sustain
<1>2. ReleasePendingNotes \/ UNCHANGED <<phase, pending>>
  BY DEF Sustain
<1>3. /\ phase' \in [Slots -> {"free", "play", "release"}]
      /\ pending' \in [Slots -> BOOLEAN]
      /\ \A s \in Slots : phase'[s] = "free" <=> phase[s] = "free"
  BY <1>0, <1>2 DEF TypeOK, ReleasePendingNotes
<1>4. TypeOK'
  BY <1>0, <1>1, <1>3 DEF TypeOK
<1>5. HeldAgrees'
  BY <1>0, <1>1, Zenon DEF HeldAgrees
<1>6. PendingExact'
  <2> SUFFICES ASSUME NEW s \in Slots, phase'[s] = "play"
               PROVE  pending'[s] <=> ~held[midi[s]]
    BY <1>1 DEF PendingExact
  <2>1. CASE UNCHANGED <<phase, pending>>
    <3>1. phase[s] = "play" /\ pending'[s] = pending[s]
      BY <2>1
    <3> QED
      BY <1>0, <3>1, Zenon DEF PendingExact
  <2>2. CASE ReleasePendingNotes
    <3>1. phase[s] = "play" /\ ~(pending[s] /\ ~held[midi[s]])
      BY <2>2, <1>0 DEF ReleasePendingNotes, TypeOK
    <3>2. pending[s] <=> ~held[midi[s]]
      BY <1>0, <3>1, Zenon DEF PendingExact
    <3>3. pending'[s] = (pending[s] /\ phase[s] # "play")
      BY <2>2 DEF ReleasePendingNotes
    <3> QED
      BY <3>1, <3>2, <3>3, Zenon
  <2> QED
    BY <1>2, <2>1, <2>2
<1> QED
  BY <1>1, <1>3, <1>4, <1>5, <1>6, SameVoices DEF KeyInv

LEMMA AllNotesOffKeeps ==
  ASSUME KeyInv, AllNotesOff
  PROVE  KeyInv'
<1>0. TypeOK
  BY DEF KeyInv
<1>1. /\ phase' \in [Slots -> {"free", "release"}]
      /\ \A s \in Slots : phase'[s] = "free" <=> phase[s] = "free"
      /\ UNCHANGED <<midi, count, bank>>
  BY <1>0 DEF AllNotesOff, TypeOK
<1>2. phase' \in [Slots -> {"free", "play", "release"}]
  BY <1>1
<1>3. TypeOK'
  BY <1>0, <1>1, <1>2 DEF AllNotesOff, TypeOK
<1>4. HeldAgrees'
  BY DEF AllNotesOff, HeldAgrees
<1>5. PendingExact'
  BY <1>1 DEF PendingExact
<1> QED
  BY <1>1, <1>2, <1>3, <1>4, <1>5, SameVoices DEF KeyInv

-----------------------------------------------------------------------------
(* Voices that end. *)

LEMMA VoiceEndsKeeps ==
  ASSUME KeyInv, NEW s \in Slots, VoiceEnds(s)
  PROVE  KeyInv'
<1>0. /\ TypeOK /\ OneVoicePerNote /\ HeldAgrees /\ PendingExact
      /\ VoicesBacked
  BY DEF KeyInv
<1>1. /\ phase[s] # "free" /\ midi[s] \in Notes
      /\ phase' = [phase EXCEPT ![s] = "free"]
      /\ count' = [count EXCEPT ![midi[s]] = Less(@, 1)]
      /\ UNCHANGED <<mask, held, cc, midi, pending, bank>>
  BY <1>0 DEF VoiceEnds, keyVars, TypeOK
<1>2. \A t \in Slots : phase'[t] = IF t = s THEN "free" ELSE phase[t]
  BY <1>0, <1>1 DEF TypeOK
<1>3. OneVoicePerNote'
  BY <1>0, <1>1, <1>2 DEF OneVoicePerNote
<1>4. VoicesBacked'
  BY <1>0, <1>1, <1>2 DEF VoicesBacked
<1>5. HeldAgrees'
  BY <1>0, <1>1, Zenon DEF HeldAgrees
<1>6. PendingExact'
  <2> SUFFICES ASSUME NEW t \in Slots, phase'[t] = "play"
               PROVE  pending[t] <=> ~held[midi[t]]
    BY <1>1, Zenon DEF PendingExact
  <2>1. phase[t] = "play"
    BY <1>2
  <2> QED
    BY <1>0, <2>1, Zenon DEF PendingExact
<1>7. ASSUME NEW n \in Notes
      PROVE  \/ /\ \E t \in Slots : phase'[t] # "free" /\ midi'[t] = n
                /\ count'[n] = 1
             \/ /\ \A t \in Slots : ~(phase'[t] # "free" /\ midi'[t] = n)
                /\ count'[n] = 0
  <2>1. /\ (\E t \in Slots : phase[t] # "free" /\ midi[t] = n) => count[n] = 1
        /\ (\A t \in Slots : ~(phase[t] # "free" /\ midi[t] = n)) => count[n] = 0
    BY CountFacts
  <2>2. CASE n = midi[s]
    <3>1. count[n] = 1
      BY <1>1, <2>1, <2>2
    <3>2. count'[n] = 0
      BY <1>0, <1>1, <2>2, <3>1 DEF TypeOK, Less
    <3>3. \A t \in Slots : ~(phase'[t] # "free" /\ midi'[t] = n)
      BY <1>0, <1>1, <1>2, <2>2 DEF OneVoicePerNote
    <3> QED
      BY <3>2, <3>3
  <2>3. CASE n # midi[s]
    <3>1. count'[n] = count[n]
      BY <1>0, <1>1, <2>3 DEF TypeOK
    <3>2. \A t \in Slots : phase'[t] # "free" /\ midi'[t] = n
                             <=> phase[t] # "free" /\ midi[t] = n
      BY <1>1, <1>2, <2>3
    <3> QED
      BY <2>1, <3>1, <3>2
  <2> QED
    BY <2>2, <2>3
<1>8. CountTrue'
  BY <1>3, <1>7, CountAfter
<1>9. TypeOK'
  BY <1>0, <1>1, <1>2 DEF TypeOK, Less
<1> QED
  BY <1>3, <1>4, <1>5, <1>6, <1>8, <1>9 DEF KeyInv

LEMMA ReloadKeeps ==
  ASSUME KeyInv, NEW b \in Banks, Reload(b)
  PROVE  KeyInv'
<1>0. TypeOK /\ HeldAgrees
  BY DEF KeyInv
<1>1. /\ \A s \in Slots : phase'[s] = "free"
      /\ \A n \in Notes : count'[n] = 0
      /\ UNCHANGED <<mask, held, cc, midi>>
  BY DEF Reload, keyVars
<1>2. OneVoicePerNote' /\ PendingExact' /\ VoicesBacked'
  BY <1>1 DEF OneVoicePerNote, PendingExact, VoicesBacked
<1>3. CountTrue'
  BY <1>1, <1>2, CountAfter
<1>4. HeldAgrees'
  BY <1>0, <1>1, Zenon DEF HeldAgrees
<1>5. TypeOK'
  BY <1>0, <1>1 DEF TypeOK, Reload, keyVars
<1> QED
  BY <1>2, <1>3, <1>4, <1>5 DEF KeyInv

-----------------------------------------------------------------------------
(* The theorems. *)

LEMMA KeyInit == Init => KeyInv
<1> SUFFICES ASSUME Init PROVE KeyInv
  OBVIOUS
<1>1. TypeOK
  BY DEF Init, TypeOK
<1>2. OneVoicePerNote /\ HeldAgrees /\ PendingExact /\ VoicesBacked
  BY DEF Init, OneVoicePerNote, HeldAgrees, PendingExact, VoicesBacked
<1>3. CountTrue
  <2> SUFFICES ASSUME NEW n \in Notes
               PROVE  count[n] = Cardinality({s \in Slots : Sounding(s, n)})
    BY DEF CountTrue
  <2>1. {s \in Slots : Sounding(s, n)} = {}
    BY DEF Init, Sounding
  <2>2. Cardinality({s \in Slots : Sounding(s, n)}) = 0
    BY <2>1, FS_EmptySet
  <2> QED
    BY <2>2 DEF Init
<1> QED
  BY <1>1, <1>2, <1>3 DEF KeyInv

LEMMA KeyNext == KeyInv /\ [Next]_vars => KeyInv'
<1> SUFFICES ASSUME KeyInv, [Next]_vars PROVE KeyInv'
  OBVIOUS
<1>1. ASSUME NEW n \in Notes, NEW c \in Channels, NoteOn(n, c) PROVE KeyInv'
  BY <1>1, NoteOnKeeps
<1>2. ASSUME NEW n \in Notes, NEW c \in Channels, NoteOff(n, c) PROVE KeyInv'
  BY <1>2, NoteOffKeeps
<1>3. ASSUME NEW p \in PedalPositions, Sustain(p) PROVE KeyInv'
  BY <1>3, SustainKeeps
<1>4. CASE AllNotesOff
  BY <1>4, AllNotesOffKeeps
<1>5. ASSUME NEW s \in Slots, VoiceEnds(s) PROVE KeyInv'
  BY <1>5, VoiceEndsKeeps
<1>6. ASSUME NEW b \in Banks, Reload(b) PROVE KeyInv'
  BY <1>6, ReloadKeeps
<1>7. CASE UNCHANGED vars
  BY <1>7 DEF vars, keyVars, poolVars, KeyInv, TypeOK, OneVoicePerNote,
              CountTrue, HeldAgrees, PendingExact, VoicesBacked, Sounding
<1> QED
  BY <1>1, <1>2, <1>3, <1>4, <1>5, <1>6, <1>7 DEF Next

\* The invariant of the keys and the voices.
THEOREM KeysCorrect == Spec => []KeyInv
<1> QED
  BY KeyInit, KeyNext, PTL DEF Spec

\* TypeOK of the keys, the pedal and the pool, for every keyboard and pool.
THEOREM KeyTypes == Spec => []TypeOK
<1>1. KeyInv => TypeOK
  BY DEF KeyInv
<1> QED
  BY <1>1, KeysCorrect, PTL

\* Rule 5.5.1 of the pool: one voice per note, whatever is stolen or struck
\* again, for a pool of any size.
THEOREM OneVoice == Spec => []OneVoicePerNote
<1>1. KeyInv => OneVoicePerNote
  BY DEF KeyInv
<1> QED
  BY <1>1, KeysCorrect, PTL

\* note_active_count_ counts the voices that sound a note.
THEOREM CountsVoices == Spec => []CountTrue
<1>1. KeyInv => CountTrue
  BY DEF KeyInv
<1> QED
  BY <1>1, KeysCorrect, PTL

\* PedalState and NoteHoldTracker agree on the keys that are down, and the
\* voices that wait for the pedal are those whose key is up.
THEOREM KeysAgree == Spec => [](HeldAgrees /\ PendingExact)
<1>1. KeyInv => HeldAgrees /\ PendingExact
  BY DEF KeyInv
<1> QED
  BY <1>1, KeysCorrect, PTL

\* voice.h: a voice that is not being released waits for the pedal exactly when
\* no finger is on its key.
THEOREM PendingIsExact == Spec => []PendingExact
<1>1. KeyInv => PendingExact
  BY DEF KeyInv
<1> QED
  BY <1>1, KeysCorrect, PTL

\* No voice outlives its bank.
THEOREM BanksOutlive == Spec => []VoicesBacked
<1>1. KeyInv => VoicesBacked
  BY DEF KeyInv
<1> QED
  BY <1>1, KeysCorrect, PTL

-----------------------------------------------------------------------------
(* Stealing. *)

\* A slot changes its note only in a strike that chose it.
LEMMA OnlyStrikesRename ==
  ASSUME KeyInv, [Next]_vars, NEW s \in Slots, midi'[s] # midi[s]
  PROVE  \E n \in Notes, c \in Channels :
           /\ NoteOn(n, c)
           /\ s \in FindSlot(Damped(n), held')
           /\ StartIn(s, n)
<1>0. TypeOK
  BY DEF KeyInv
<1>1. PICK n \in Notes, c \in Channels : NoteOn(n, c)
  BY DEF Next, vars, poolVars, NoteOff, Sustain, AllNotesOff, VoiceEnds, Reload
<1>2. bank[n] # "none"
  BY <1>1 DEF NoteOn, poolVars
<1>3. PICK t \in FindSlot(Damped(n), held') : StartIn(t, n)
  BY <1>1, <1>2 DEF NoteOn
<1>4. midi' = [midi EXCEPT ![t] = n]
  BY <1>3 DEF StartIn
<1>5. s = t
  BY <1>0, <1>4 DEF TypeOK
<1> QED
  BY <1>1, <1>3, <1>5

\* A key under a finger loses its voice only when every slot sounds such a
\* key: the classes of findSlot, for a pool of any size.
THEOREM StealsSpare == Spec => StealSpares
<1>1. KeyInv /\ [Next]_vars =>
        [\A s \in Slots :
           midi'[s] # midi[s] /\ phase[s] = "play" /\ held[midi[s]] =>
             \A t \in Slots : phase[t] = "play" /\ held[midi[t]]]_vars
  <2> SUFFICES ASSUME KeyInv, [Next]_vars, NEW s \in Slots,
                      midi'[s] # midi[s], phase[s] = "play", held[midi[s]],
                      NEW t \in Slots
               PROVE  phase[t] = "play" /\ held[midi[t]]
    OBVIOUS
  <2>0. TypeOK
    BY DEF KeyInv
  <2>1. PICK n \in Notes, c \in Channels :
               /\ NoteOn(n, c)
               /\ s \in FindSlot(Damped(n), held')
               /\ StartIn(s, n)
    BY OnlyStrikesRename
  <2>2. /\ midi'[s] = n
        /\ midi[s] \in Notes /\ midi[s] # n
    BY <2>0, <2>1 DEF StartIn, TypeOK
  <2>3. \A m \in Notes \ {n} : held'[m] = held[m]
    BY <2>0, <2>1 DEF NoteOn, TypeOK
  <2>4. Rank(s, Damped(n), held') = 4
    <3>1. held'[midi[s]]
      BY <2>2, <2>3, Zenon
    <3> QED
      BY <2>2, <3>1 DEF Rank, Damped, Sounding
  <2>5. 4 <= Rank(t, Damped(n), held')
    BY <2>1, <2>4 DEF FindSlot
  <2>6. /\ phase[t] # "free" /\ t \notin Damped(n)
        /\ phase[t] # "release" /\ held'[midi[t]]
    BY <2>5 DEF Rank
  <2>7. phase[t] = "play" /\ midi[t] \in Notes \ {n}
    BY <2>0, <2>6 DEF TypeOK, Damped, Sounding
  <2>8. held[midi[t]]
    BY <2>3, <2>6, <2>7, Zenon
  <2> QED
    BY <2>7, <2>8, Zenon
<1> QED
  BY <1>1, KeysCorrect, PTL DEF Spec, StealSpares

-----------------------------------------------------------------------------
(* A pedal without a half-pedal zone. *)

SwitchPedal == \A p \in PedalPositions : p <= kDamperBiteCC \/ p >= kPedalDownThreshold

\* One step under such a pedal: a release that waits is carried out when the
\* pedal leaves the threshold, and none begins to wait below the bite.
LEMMA UndampedNext ==
  ASSUME SwitchPedal, KeyInv, StringsUndamped, [Next]_vars
  PROVE  StringsUndamped'
<1>0. /\ TypeOK /\ PendingExact
      /\ cc \in Int /\ PedalPositions \subseteq Int
  BY KeyboardAssumption DEF KeyInv, TypeOK
<1> SUFFICES ASSUME NEW s \in Slots, phase'[s] = "play",
                    ~(cc' > kDamperBiteCC)
             PROVE  held'[midi'[s]]
  BY DEF StringsUndamped
<1>1. ASSUME phase[s] = "play", UNCHANGED cc
      PROVE  held[midi[s]] /\ midi[s] \in Notes
  BY <1>0, <1>1 DEF StringsUndamped, TypeOK
<1>2. ASSUME NEW n \in Notes, NEW c \in Channels, NoteOn(n, c)
      PROVE  held'[midi'[s]]
  <2>1. UNCHANGED cc /\ held' = [held EXCEPT ![n] = @ \/ mask[n] = {}]
    BY <1>2 DEF NoteOn
  <2>2. held'[n] = (held[n] \/ mask[n] = {})
    BY <1>0, <2>1 DEF TypeOK
  <2>3. held[n] <=> mask[n] # {}
    BY DEF KeyInv, HeldAgrees
  <2>4. \A m \in Notes \ {n} : held'[m] = held[m]
    BY <1>0, <2>1 DEF TypeOK
  <2>5. held'[n]
    BY <2>2, <2>3, Zenon
  <2>6. CASE midi'[s] = n
    BY <2>5, <2>6, Zenon
  <2>7. CASE midi'[s] # n
    <3>1. phase[s] = "play" /\ midi'[s] = midi[s]
      <4>1. CASE UNCHANGED poolVars
        BY <4>1 DEF poolVars
      <4>2. CASE \E t \in Slots : StartIn(t, n)
        <5>1. PICK t \in Slots : StartIn(t, n)
          BY <4>2
        <5>2. t # s
          BY <1>0, <2>7, <5>1 DEF StartIn, TypeOK
        <5> QED
          BY <1>0, <5>1, <5>2 DEF StartIn, TypeOK
      <4> QED
        BY <1>2, <4>1, <4>2 DEF NoteOn, FindSlot
    <3>2. held[midi[s]] /\ midi[s] \in Notes
      BY <1>1, <2>1, <3>1
    <3>3. held'[midi[s]] = held[midi[s]]
      BY <2>4, <2>7, <3>1, <3>2
    <3> QED
      BY <3>1, <3>2, <3>3, Zenon
  <2> QED
    BY <2>6, <2>7
<1>3. ASSUME NEW n \in Notes, NEW c \in Channels, NoteOff(n, c)
      PROVE  held'[midi'[s]]
  <2>1. UNCHANGED <<cc, midi>>
    BY <1>3 DEF NoteOff
  <2>2. phase[s] = "play"
    BY <1>0, <1>3 DEF NoteOff, TypeOK
  <2>3. held[midi[s]] /\ midi[s] \in Notes
    BY <1>1, <2>1, <2>2
  <2>4. held'[midi[s]] = held[midi[s]]
    <3>1. CASE UNCHANGED held
      BY <3>1
    <3>2. CASE LastHolder(n, c)
      <4>1. midi[s] # n
        BY <1>0, <1>3, <2>1, <2>2, <3>2 DEF NoteOff, TypeOK
      <4> QED
        BY <1>0, <1>3, <2>3, <3>2, <4>1 DEF NoteOff, TypeOK
    <3> QED
      BY <1>3, <3>1, <3>2 DEF NoteOff
  <2> QED
    BY <2>1, <2>3, <2>4, Zenon
<1>4. ASSUME NEW p \in PedalPositions, Sustain(p)
      PROVE  held'[midi'[s]]
  <2>1. cc' = p /\ UNCHANGED <<held, midi>>
    BY <1>4 DEF Sustain
  <2>2. CASE cc >= kPedalDownThreshold
    <3>1. p < kPedalDownThreshold
      BY <1>0, <2>1 DEF kPedalDownThreshold, kDamperBiteCC
    <3>2. ReleasePendingNotes
      BY <1>4, <2>2, <3>1 DEF Sustain
    <3>3. phase[s] = "play" /\ ~(pending[s] /\ ~held[midi[s]])
      BY <1>0, <3>2 DEF ReleasePendingNotes, TypeOK
    <3>4. pending[s] <=> ~held[midi[s]]
      BY <1>0, <3>3, Zenon DEF PendingExact
    <3>5. held[midi[s]]
      BY <3>3, <3>4, Zenon
    <3> QED
      BY <2>1, <3>5, Zenon
  <2>3. CASE ~(cc >= kPedalDownThreshold)
    <3>1. UNCHANGED phase
      BY <1>4, <2>3 DEF Sustain
    <3>2. ~(cc > kDamperBiteCC)
      <4>1. cc \in PedalPositions \cup {0}
        BY <1>0 DEF TypeOK
      <4> QED
        BY <1>0, <2>3, <4>1 DEF SwitchPedal, kDamperBiteCC
    <3>3. held[midi[s]]
      BY <3>1, <3>2, Zenon DEF StringsUndamped
    <3> QED
      BY <2>1, <3>3, Zenon
  <2> QED
    BY <2>2, <2>3
<1>5. CASE AllNotesOff
  BY <1>0, <1>5 DEF AllNotesOff, TypeOK
<1>6. ASSUME NEW t \in Slots, VoiceEnds(t)
      PROVE  held'[midi'[s]]
  <2>1. phase[s] = "play" /\ UNCHANGED <<cc, held, midi>>
    BY <1>0, <1>6 DEF VoiceEnds, TypeOK, keyVars
  <2>2. held[midi[s]]
    BY <1>1, <2>1
  <2> QED
    BY <2>1, <2>2, Zenon
<1>7. ASSUME NEW b \in Banks, Reload(b)
      PROVE  held'[midi'[s]]
  BY <1>7 DEF Reload
<1>8. CASE UNCHANGED vars
  <2>1. phase[s] = "play" /\ UNCHANGED <<cc, held, midi>>
    BY <1>8 DEF vars, keyVars, poolVars
  <2>2. held[midi[s]]
    BY <1>1, <2>1
  <2> QED
    BY <2>1, <2>2, Zenon
<1> QED
  BY <1>2, <1>3, <1>4, <1>5, <1>6, <1>7, <1>8, Zenon DEF Next

\* A pedal that is a switch, for any keyboard and pool: no string sounds under
\* its damper unless it is being released.  keyboard_half_pedal shows that a
\* pedal which rests in between breaks this.
THEOREM SwitchDamps == SwitchPedal => (Spec => []StringsUndamped)
<1> SUFFICES ASSUME SwitchPedal PROVE Spec => []StringsUndamped
  OBVIOUS
<1>1. Init => StringsUndamped
  BY DEF Init, StringsUndamped
<1>2. KeyInv /\ StringsUndamped /\ [Next]_vars => StringsUndamped'
  BY UndampedNext
<1> QED
  BY <1>1, <1>2, KeysCorrect, PTL DEF Spec

-----------------------------------------------------------------------------
(* The instrument. *)

\* The inductive invariant of the composition.
BothInv == KeyInv /\ ResonanceTypeOK /\ NeverBoth

\* Every step of the instrument is a step of the keyboard or leaves it alone.
LEMMA KeyStep == [InstrumentNext]_allVars => [Next]_vars
<1> SUFFICES ASSUME [InstrumentNext]_allVars PROVE [Next]_vars
  OBVIOUS
<1>1. ASSUME NEW n \in Notes, NEW c \in Channels, StrikeKey(n, c)
      PROVE  Next
  BY <1>1 DEF StrikeKey, Next
<1>2. CASE OtherEvent
  BY <1>2 DEF OtherEvent, Next
<1>3. CASE RenderBlock
  BY <1>3 DEF RenderBlock
<1>4. ASSUME NEW b \in Banks, ReloadAll(b)
      PROVE  Next
  BY <1>4 DEF ReloadAll, Next
<1>5. CASE Adjust
  BY <1>5 DEF Adjust
<1>6. CASE UNCHANGED allVars
  BY <1>6 DEF allVars
<1> QED
  BY <1>1, <1>2, <1>3, <1>4, <1>5, <1>6 DEF InstrumentNext

\* The instrument with its resonances implements the keyboard: resonance only
\* listens.
THEOREM InstrumentPlaysKeys == InstrumentSpec => Spec
<1>1. InstrumentInit => Init
  BY DEF InstrumentInit
<1> QED
  BY <1>1, KeyStep, PTL DEF InstrumentSpec, Spec

-----------------------------------------------------------------------------
(* What a strike does to the strings. *)

\* A voice that sounds after a step is counted.
LEMMA SoundingCounted ==
  ASSUME KeyInv', NEW n \in Notes, count'[n] = 0, NEW s \in Slots
  PROVE  ~(phase'[s] # "free" /\ midi'[s] = n)
<1> SUFFICES ASSUME phase'[s] # "free", midi'[s] = n PROVE FALSE
  OBVIOUS
<1> DEFINE S == {t \in Slots : phase'[t] # "free" /\ midi'[t] = n}
<1>1. count'[n] = Cardinality(S)
  BY DEF KeyInv, CountTrue, Sounding
<1>2. \A t, u \in S : t = u
  BY DEF KeyInv, OneVoicePerNote
<1>3. S # {}
  OBVIOUS
<1> HIDE DEF S
<1>4. Cardinality(S) = 1
  BY <1>2, <1>3, LoneCount
<1> QED
  BY <1>1, <1>4

\* The parts of a strike: what starts, what is tried in vain, what is cut.
Struck(r, n, started, vain, cut, sounding, hollow) ==
  /\ \A m \in started : r[m] = "off" /\ m \notin sounding
  /\ \A m \in vain : r[m] = "off" /\ m \notin started /\ m # n /\ m \in hollow
  /\ Cardinality(cut) \in Cuts(r, started, vain)
  /\ reso' = [m \in Notes |->
                IF m \in cut THEN "fade"
                ELSE IF m \in started THEN "on" ELSE r[m]]

LEMMA StrikeParts ==
  ASSUME ResonanceTypeOK, NEW n \in Notes, NEW undamped, NEW sounding,
         NEW sampled \in SUBSET Notes, NEW hollow,
         Strike(n, undamped, sounding, sampled, hollow)
  PROVE  \/ /\ ~enabled
            /\ reso' = FadeSelf(n)
         \/ /\ enabled
            /\ \E started \in SUBSET Notes, vain \in SUBSET Notes :
                 \E cut \in SUBSET (Live(FadeSelf(n)) \cup started) :
                   Struck(FadeSelf(n), n, started, vain, cut, sounding, hollow)
<1> DEFINE r == FadeSelf(n)
           silent == {m \in sampled : /\ r[m] # "on"
                                      /\ MayExcite(r, m, n, undamped, sounding)}
<1>1. r \in [Notes -> {"off", "on", "fade"}]
  BY DEF ResonanceTypeOK, FadeSelf
<1>2. \A m \in silent : r[m] = "off" /\ m \notin sounding /\ m # n
  <2> HIDE DEF r
  <2> QED
    BY <1>1 DEF MayExcite
<1>3. CASE ~enabled
  BY <1>3 DEF Strike
<1>4. CASE enabled
  <2>1. PICK started \in SUBSET silent :
               \E cut \in SUBSET (Live(r) \cup started) :
                 /\ Cardinality(cut) \in Cuts(r, started, (silent \cap hollow) \ started)
                 /\ reso' = [m \in Notes |->
                               IF m \in cut THEN "fade"
                               ELSE IF m \in started THEN "on" ELSE r[m]]
    BY <1>4 DEF Strike
  <2>2. PICK vain : vain = (silent \cap hollow) \ started
    OBVIOUS
  <2>3. started \in SUBSET Notes /\ vain \in SUBSET Notes
    BY <2>1, <2>2
  <2>4. \A m \in started : r[m] = "off" /\ m \notin sounding
    BY <1>2, <2>1
  <2>5. \A m \in vain : r[m] = "off" /\ m \notin started /\ m # n /\ m \in hollow
    BY <1>2, <2>2
  <2>6. PICK cut \in SUBSET (Live(r) \cup started) :
          /\ Cardinality(cut) \in Cuts(r, started, vain)
          /\ reso' = [m \in Notes |->
                        IF m \in cut THEN "fade"
                        ELSE IF m \in started THEN "on" ELSE r[m]]
    BY <2>1, <2>2
  <2> HIDE DEF r, silent
  <2>7. Struck(r, n, started, vain, cut, sounding, hollow)
    BY <2>4, <2>5, <2>6 DEF Struck
  <2> QED
    BY <1>4, <2>3, <2>7 DEF r
<1> QED
  BY <1>3, <1>4

\* After a strike a string that sounds did so before, and was not the one
\* struck, or was not sounding by itself.
LEMMA StrikeSounds ==
  ASSUME ResonanceTypeOK, NEW n \in Notes, NEW undamped, NEW sounding,
         NEW sampled \in SUBSET Notes, NEW hollow,
         Strike(n, undamped, sounding, sampled, hollow), UNCHANGED <<budget, enabled>>
  PROVE  /\ ResonanceTypeOK'
         /\ \A m \in Notes :
              /\ reso'[m] = "on" =>
                   (reso[m] = "on" /\ m # n) \/ m \notin sounding
              /\ reso[m] = "fade" => reso'[m] = "fade"
<1> DEFINE r == FadeSelf(n)
<1>1. /\ r \in [Notes -> {"off", "on", "fade"}]
      /\ \A m \in Notes : r[m] = "on" => reso[m] = "on" /\ m # n
      /\ \A m \in Notes : reso[m] = "fade" => r[m] = "fade"
  BY DEF ResonanceTypeOK, FadeSelf
<1> HIDE DEF r
<1>2. CASE reso' = r
  BY <1>1, <1>2 DEF ResonanceTypeOK
<1>3. CASE \E started \in SUBSET Notes, vain \in SUBSET Notes :
             \E cut \in SUBSET (Live(r) \cup started) :
               Struck(r, n, started, vain, cut, sounding, hollow)
  BY <1>1, <1>3 DEF ResonanceTypeOK, Struck
<1>4. reso' = r \/ \E started \in SUBSET Notes, vain \in SUBSET Notes :
                    \E cut \in SUBSET (Live(r) \cup started) :
                      Struck(r, n, started, vain, cut, sounding, hollow)
  BY StrikeParts DEF r
<1> QED
  BY <1>2, <1>3, <1>4

-----------------------------------------------------------------------------
(* Never both. *)

\* Only a strike gives a note a voice.
LEMMA VoicesStay ==
  ASSUME KeyInv, OtherEvent, NEW s \in Slots, phase'[s] # "free"
  PROVE  phase[s] # "free" /\ midi'[s] = midi[s]
<1>0. TypeOK
  BY DEF KeyInv
<1>1. ASSUME NEW n \in Notes, NEW c \in Channels, NoteOff(n, c)
      PROVE  phase[s] # "free" /\ midi'[s] = midi[s]
  BY <1>0, <1>1 DEF NoteOff, TypeOK
<1>2. ASSUME NEW p \in PedalPositions, Sustain(p)
      PROVE  phase[s] # "free" /\ midi'[s] = midi[s]
  BY <1>0, <1>2 DEF Sustain, ReleasePendingNotes, TypeOK
<1>3. CASE AllNotesOff
  BY <1>0, <1>3 DEF AllNotesOff, TypeOK
<1>4. ASSUME NEW t \in Slots, VoiceEnds(t)
      PROVE  phase[s] # "free" /\ midi'[s] = midi[s]
  BY <1>0, <1>4 DEF VoiceEnds, TypeOK
<1> QED
  BY <1>1, <1>2, <1>3, <1>4 DEF OtherEvent

\* A strike gives a voice to no other note.
LEMMA StrikeStarts ==
  ASSUME KeyInv, NEW n \in Notes, NEW c \in Channels, NoteOn(n, c),
         NEW s \in Slots, phase'[s] # "free", midi'[s] # n
  PROVE  phase[s] # "free" /\ midi'[s] = midi[s]
<1>0. TypeOK
  BY DEF KeyInv
<1>1. CASE UNCHANGED poolVars
  BY <1>1 DEF poolVars
<1>2. CASE \E t \in Slots : StartIn(t, n)
  <2>1. PICK t \in Slots : StartIn(t, n)
    BY <1>2
  <2>2. t # s
    BY <1>0, <2>1 DEF StartIn, TypeOK
  <2> QED
    BY <1>0, <2>1, <2>2 DEF StartIn, TypeOK
<1> QED
  BY <1>1, <1>2 DEF NoteOn, FindSlot

LEMMA BothNext == BothInv /\ [InstrumentNext]_allVars => BothInv'
<1> SUFFICES ASSUME BothInv, [InstrumentNext]_allVars PROVE BothInv'
  OBVIOUS
<1>0. KeyInv /\ ResonanceTypeOK /\ NeverBoth /\ KeyInv'
  BY KeyStep, KeyNext DEF BothInv
<1>1. ASSUME NEW n \in Notes, NEW c \in Channels, StrikeKey(n, c)
      PROVE  BothInv'
  <2>1. PICK undamped, sounding, sampled, hollow :
          /\ sounding = HasMainVoice(count')
          /\ sampled = Sampled /\ hollow = Hollow
          /\ undamped = Undamped(held', cc)
    OBVIOUS
  <2>2. /\ NoteOn(n, c)
        /\ Strike(n, undamped, sounding, sampled, hollow)
        /\ UNCHANGED <<budget, enabled>>
    BY <1>1, <2>1 DEF StrikeKey
  <2>3. sampled \in SUBSET Notes
    BY <2>1 DEF Sampled
  <2>4. /\ ResonanceTypeOK'
        /\ \A m \in Notes : reso'[m] = "on" =>
             (reso[m] = "on" /\ m # n) \/ m \notin sounding
    BY <1>0, <2>2, <2>3, StrikeSounds
  <2>5. ASSUME NEW m \in Notes, reso'[m] = "on", NEW s \in Slots
        PROVE  ~(phase'[s] # "free" /\ midi'[s] = m)
    <3>1. CASE reso[m] = "on" /\ m # n
      <4>1. ~(phase[s] # "free" /\ midi[s] = m)
        BY <1>0, <3>1 DEF NeverBoth, Sounding
      <4> QED
        BY <1>0, <2>2, <3>1, <4>1, StrikeStarts
    <3>2. CASE m \notin sounding
      <4>1. count'[m] = 0
        BY <1>0, <2>1, <3>2 DEF HasMainVoice, KeyInv, TypeOK
      <4> QED
        BY <1>0, <4>1, SoundingCounted
    <3> QED
      BY <2>4, <2>5, <3>1, <3>2
  <2>6. NeverBoth'
    BY <2>5 DEF NeverBoth, Sounding
  <2> QED
    BY <1>0, <2>4, <2>6 DEF BothInv
<1>2. ASSUME ResonanceTypeOK',
             \A m \in Notes : reso'[m] = "on" => reso[m] = "on",
             \A s \in Slots : phase'[s] # "free" =>
               phase[s] # "free" /\ midi'[s] = midi[s]
      PROVE  BothInv'
  <2>1. NeverBoth'
    BY <1>0, <1>2 DEF NeverBoth, Sounding
  <2> QED
    BY <1>0, <1>2, <2>1 DEF BothInv
<1>3. CASE OtherEvent
  <2>1. UNCHANGED <<reso, budget, enabled>>
    BY <1>3 DEF OtherEvent, resoVars
  <2>2. \A s \in Slots : phase'[s] # "free" =>
          phase[s] # "free" /\ midi'[s] = midi[s]
    BY <1>0, <1>3, VoicesStay
  <2> QED
    BY <1>0, <1>2, <2>1, <2>2 DEF ResonanceTypeOK
<1>4. CASE RenderBlock
  <2>1. UNCHANGED <<phase, midi, budget, enabled>>
    BY <1>4 DEF RenderBlock, vars, poolVars
  <2>2. /\ reso' \in [Notes -> {"off", "on", "fade"}]
        /\ \A m \in Notes : reso'[m] = "on" => reso[m] = "on"
    BY <1>0, <1>4 DEF RenderBlock, Render, ResonanceTypeOK
  <2> QED
    BY <1>0, <1>2, <2>1, <2>2 DEF ResonanceTypeOK
<1>5. ASSUME NEW b \in Banks, ReloadAll(b)
      PROVE  BothInv'
  BY <1>0, <1>2, <1>5 DEF ReloadAll, Reload, Silence, ResonanceTypeOK
<1>6. CASE Adjust
  <2>1. ResonanceTypeOK' /\ UNCHANGED <<reso, phase, midi>>
    BY <1>0, <1>6 DEF Adjust, SetMaxVoices, SetEnabled, ResonanceTypeOK, vars,
                      poolVars
  <2> QED
    BY <1>2, <2>1
<1>7. CASE UNCHANGED allVars
  <2>1. UNCHANGED <<reso, budget, enabled, phase, midi>>
    BY <1>7 DEF allVars, vars, poolVars, resoVars
  <2> QED
    BY <1>0, <1>2, <2>1 DEF ResonanceTypeOK
<1> QED
  BY <1>1, <1>3, <1>4, <1>5, <1>6, <1>7 DEF InstrumentNext

LEMMA BothInit == InstrumentInit => BothInv
<1> SUFFICES ASSUME InstrumentInit PROVE BothInv
  OBVIOUS
<1>1. KeyInv
  BY KeyInit DEF InstrumentInit
<1>2. ResonanceTypeOK /\ NeverBoth
  BY DEF InstrumentInit, ResonanceInit, ResonanceTypeOK, NeverBoth
<1> QED
  BY <1>1, <1>2 DEF BothInv

\* The types of the instrument, for every keyboard, pool and bank.
THEOREM InstrumentTypes == InstrumentSpec => []AllTypesOK
<1>1. BothInv => AllTypesOK
  BY DEF BothInv, KeyInv, AllTypesOK
<1> QED
  BY <1>1, BothInit, BothNext, PTL DEF InstrumentSpec

\* Rule 5.5.1: a string is never driven by its own voice and by resonance at
\* once, however keys, pedal, steals and the budget interleave.
THEOREM OneDriver == InstrumentSpec => []NeverBoth
<1>1. BothInv => NeverBoth
  BY DEF BothInv
<1> QED
  BY <1>1, BothInit, BothNext, PTL DEF InstrumentSpec

-----------------------------------------------------------------------------
(* Fades and the budget. *)

\* A resonance that fades ends before it is excited again.
THEOREM FadesEnd == InstrumentSpec => FadeIsFinal
<1>1. BothInv /\ [InstrumentNext]_allVars =>
        [\A n \in Notes : reso[n] = "fade" => reso'[n] # "on"]_allVars
  <2> SUFFICES ASSUME BothInv, [InstrumentNext]_allVars, NEW m \in Notes,
                      reso[m] = "fade"
               PROVE  reso'[m] # "on"
    OBVIOUS
  <2>0. ResonanceTypeOK
    BY DEF BothInv
  <2>1. ASSUME NEW n \in Notes, NEW c \in Channels, StrikeKey(n, c)
        PROVE  reso'[m] # "on"
    <3>1. PICK undamped, sounding, sampled, hollow :
            /\ sounding = HasMainVoice(count')
            /\ sampled = Sampled /\ hollow = Hollow
            /\ undamped = Undamped(held', cc)
      OBVIOUS
    <3>2. /\ Strike(n, undamped, sounding, sampled, hollow)
          /\ UNCHANGED <<budget, enabled>>
      BY <2>1, <3>1 DEF StrikeKey
    <3>3. sampled \in SUBSET Notes
      BY <3>1 DEF Sampled
    <3>4. reso[m] = "fade" => reso'[m] = "fade"
      BY <2>0, <3>2, <3>3, StrikeSounds
    <3> QED
      BY <3>4
  <2>2. CASE UNCHANGED reso
    BY <2>2
  <2>3. CASE RenderBlock
    BY <2>3 DEF RenderBlock, Render
  <2>4. ASSUME NEW b \in Banks, ReloadAll(b)
        PROVE  reso'[m] # "on"
    BY <2>4 DEF ReloadAll, Silence
  <2>5. OtherEvent \/ UNCHANGED allVars => UNCHANGED reso
    BY DEF OtherEvent, allVars, resoVars
  <2>6. Adjust => UNCHANGED reso
    BY DEF Adjust
  <2> QED
    BY <2>1, <2>2, <2>3, <2>4, <2>5, <2>6 DEF InstrumentNext
<1> QED
  BY <1>1, BothInit, BothNext, PTL DEF InstrumentSpec, FadeIsFinal

\* The arithmetic of a cut: what is left of the sounding resonances.
LEMMA CutLeaves ==
  ASSUME NEW live, IsFiniteSet(live), NEW cut \in SUBSET live, NEW limit \in Nat,
         NEW k \in {0, 1},
         Cardinality(cut) = IF Cardinality(live) - limit + k > 0
                            THEN Cardinality(live) - limit + k ELSE 0
  PROVE  /\ Cardinality(live \ cut) <= limit
         /\ cut # {} => Cardinality(live \ cut) = limit - k
<1>1. IsFiniteSet(cut) /\ Cardinality(live) \in Nat /\ Cardinality(cut) \in Nat
  BY FS_Subset, FS_CardinalityType
<1>2. live \cap cut = cut
  OBVIOUS
<1>3. Cardinality(live \ cut) = Cardinality(live) - Cardinality(cut)
  <2>1. Cardinality(live \ cut) = Cardinality(live) - Cardinality(live \cap cut)
    BY FS_Difference
  <2> QED
    BY <1>2, <2>1
<1>4. cut # {} => Cardinality(cut) # 0
  BY <1>1, FS_EmptySet
<1>5. PICK a \in Nat, b \in Nat, c \in Int :
        a = Cardinality(live) /\ b = Cardinality(cut) /\ c = Cardinality(live \ cut)
  BY <1>1, <1>3
<1>6. /\ b = IF a - limit + k > 0 THEN a - limit + k ELSE 0
      /\ c = a - b /\ (cut # {} => b # 0)
  BY <1>3, <1>4, <1>5
<1>7. c <= limit /\ (b # 0 => c = limit - k)
  BY <1>6
<1> QED
  BY <1>5, <1>6, <1>7

\* A strike cuts the resonances to the budget and cuts none while it is kept,
\* but for one that makes room for a string without frames.
THEOREM BudgetHolds == InstrumentSpec => BudgetKept
<1> DEFINE Left(n) ==
             /\ Cardinality(Live(reso')) <= budget
             /\ (\E m \in Live(reso) \ {n} : reso'[m] = "fade") =>
                  \/ Cardinality(Live(reso')) = budget
                  \/ /\ Cardinality(Live(reso')) = budget - 1
                     /\ \E m \in Hollow \ {n} : reso'[m] = "off"
<1>1. BothInv /\ [InstrumentNext]_allVars =>
        [\A n \in Notes, c \in Channels : StrikeKey(n, c) /\ enabled => Left(n)]_allVars
  <2> SUFFICES ASSUME BothInv, NEW n \in Notes, NEW c \in Channels,
                      StrikeKey(n, c), enabled
               PROVE  Left(n)
    OBVIOUS
  <2>0. ResonanceTypeOK
    BY DEF BothInv
  <2>1. PICK undamped, sounding, sampled, hollow :
          /\ sounding = HasMainVoice(count')
          /\ sampled = Sampled /\ hollow = Hollow
          /\ undamped = Undamped(held', cc)
    OBVIOUS
  <2>2. Strike(n, undamped, sounding, sampled, hollow) /\ sampled \in SUBSET Notes
    BY <2>1 DEF StrikeKey, Sampled
  <2>3. PICK r : r = FadeSelf(n)
    OBVIOUS
  <2>4. PICK started \in SUBSET Notes, vain \in SUBSET Notes :
          \E x \in SUBSET (Live(r) \cup started) :
            Struck(r, n, started, vain, x, sounding, hollow)
    BY <2>0, <2>2, <2>3, StrikeParts
  <2>5. PICK cut \in SUBSET (Live(r) \cup started) :
            Struck(r, n, started, vain, cut, sounding, hollow)
    BY <2>4
  <2>6. /\ r \in [Notes -> {"off", "on", "fade"}]
        /\ \A m \in Notes \ {n} : r[m] = reso[m]
    BY <2>0, <2>3 DEF ResonanceTypeOK, FadeSelf
  <2> DEFINE live == Live(r) \cup started
  <2>7. Live(reso') = live \ cut
    BY <2>5, <2>6 DEF Live, Struck
  <2>8. IsFiniteSet(live) /\ budget \in Nat
    BY <2>0, FS_Subset, InstrumentAssumption DEF Live, ResonanceTypeOK
  <2>9. PICK k \in {0, 1} :
          /\ Cardinality(cut) = IF Excess(r, started) + k > 0
                                THEN Excess(r, started) + k ELSE 0
          /\ k = 1 => vain # {}
    BY <2>5 DEF Struck, Cuts
  <2>10. /\ Cardinality(live \ cut) <= budget
         /\ cut # {} => Cardinality(live \ cut) = budget - k
    <3>1. Cardinality(cut) = IF Cardinality(live) - budget + k > 0
                             THEN Cardinality(live) - budget + k ELSE 0
      BY <2>9 DEF Excess
    <3>2. cut \in SUBSET live
      BY <2>5
    <3> HIDE DEF live
    <3> QED
      BY <2>8, <3>1, <3>2, CutLeaves
  <2>11. (\E m \in Live(reso) \ {n} : reso'[m] = "fade") => cut # {}
    BY <2>5, <2>6 DEF Live, Struck
  <2>12. k = 1 => \E m \in Hollow \ {n} : reso'[m] = "off"
    <3> SUFFICES ASSUME NEW m \in vain PROVE m \in Hollow \ {n} /\ reso'[m] = "off"
      BY <2>9
    <3>1. r[m] = "off" /\ m \notin started /\ m # n /\ m \in Hollow
      BY <2>1, <2>5 DEF Struck
    <3>2. m \notin cut
      BY <2>5, <3>1 DEF Live
    <3> QED
      BY <2>4, <2>5, <3>1, <3>2 DEF Struck
  <2> HIDE DEF live
  <2>13. CASE k = 0
    BY <2>7, <2>8, <2>10, <2>11, <2>13
  <2>14. CASE k = 1
    BY <2>7, <2>10, <2>11, <2>12, <2>14
  <2> QED
    BY <2>13, <2>14
<1> QED
  BY <1>1, BothInit, BothNext, PTL DEF InstrumentSpec, BudgetKept
=============================================================================
