--------------------------- MODULE BankReloadProofs ---------------------------
(***************************************************************************)
(* Proofs about the replacement of a bank, for any set of resonance        *)
(* targets: no block and no voice is left in the bank that reloadBank      *)
(* replaces, and where the panel does not ask for a rebuild during a       *)
(* reload, no recache thread either.                                       *)
(***************************************************************************)
EXTENDS BankReload, TLAPS

Past == {"join", "reset", "load", "cache", "lower"}

\* The positions of block and worker, and what is left of a wait.
Shape ==
  /\ block \in {"out", "begun", "drain", "mix", "play"}
  /\ worker \in {"idle", "pause", "wait"} \cup Past
  /\ left \in [Waiters -> 0..kQuietBlocks]

\* A device that is closed, or being reopened, has returned from its callback.
DeviceStands ==
  /\ device # "on" => block = "out"
  /\ gui = "reopen" => device # "on"

\* The flag is up from the beginning of the wait to the end of the load.
FlagUp == worker \in {"wait"} \cup Past => loading

\* A block that began after the flag went up is silent, and one that was under
\* way has returned when the next begins.
BlocksGone ==
  /\ worker = "wait" /\ left["reload"] < kQuietBlocks => ~Rendering
  /\ worker \in Past => ~Rendering

VoicesGone == worker \in {"load", "cache"} => ~sounding /\ reso.life = "off"

\* The inductive invariant.
HandshakeInv ==
  Shape /\ DeviceStands /\ FlagUp /\ BlocksGone /\ VoicesGone
-----------------------------------------------------------------------------
LEMMA InitHandshake == Init => HandshakeInv
  BY DEF Init, HandshakeInv, Shape, Past, DeviceStands, FlagUp, BlocksGone,
         VoicesGone, Waiters, kQuietBlocks

\* A block that begins counts for the waiter; a gated one returns.
LEMMA AudioKeeps ==
  ASSUME HandshakeInv, Audio
  PROVE  HandshakeInv'
<1> USE DEF HandshakeInv, Shape, Past, DeviceStands, FlagUp, BlocksGone,
            VoicesGone, Rendering, bankVars, voiceVars, Waiters, kQuietBlocks
<1>1. CASE BlockBegins
  <2>1. left' \in [Waiters -> 0..2]
    BY <1>1 DEF BlockBegins
  <2> QED
    BY <1>1, <2>1 DEF BlockBegins
<1>2. CASE Gate
  BY <1>2 DEF Gate
<1>3. CASE Drain
  BY <1>3 DEF Drain
<1>4. CASE Retarget
  BY <1>4 DEF Retarget
<1>5. CASE BlockEnds
  BY <1>5 DEF BlockEnds
<1> QED
  BY <1>1, <1>2, <1>3, <1>4, <1>5 DEF Audio

\* Each step of reloadBank.
LEMMA ReloadKeeps ==
  ASSUME HandshakeInv, Reload
  PROVE  HandshakeInv'
<1> USE DEF HandshakeInv, Shape, Past, DeviceStands, FlagUp, BlocksGone,
            VoicesGone, Rendering, audioVars, voiceVars, Waiters, kQuietBlocks
<1>1. CASE RaiseLoading
  <2>1. left' = [left EXCEPT !["reload"] = 2]
    BY <1>1 DEF RaiseLoading, Wait
  <2>2. left' \in [Waiters -> 0..2] /\ left'["reload"] = 2
    BY <2>1
  <2> QED
    BY <1>1, <2>2 DEF RaiseLoading
<1>2. CASE BlocksQuiet
  BY <1>2 DEF BlocksQuiet, Quiet, TimedOut
<1>3. CASE JoinRecache
  BY <1>3 DEF JoinRecache
<1>4. CASE StopVoices
  BY <1>4 DEF StopVoices, Silent
<1>5. CASE LoadSamples
  BY <1>5 DEF LoadSamples
<1>6. CASE BuildForBank
  BY <1>6 DEF BuildForBank
<1>7. CASE LowerLoading
  BY <1>7 DEF LowerLoading
<1> QED
  BY <1>1, <1>2, <1>3, <1>4, <1>5, <1>6, <1>7 DEF Reload

\* The recache thread waits on a count of its own and never touches the flag.
LEMMA RecacheKeeps ==
  ASSUME HandshakeInv, Recache
  PROVE  HandshakeInv'
<1> USE DEF HandshakeInv, Shape, Past, DeviceStands, FlagUp, BlocksGone,
            VoicesGone, Rendering, audioVars, bankVars, voiceVars, Waiters,
            kQuietBlocks
<1>1. CASE RequestFade
  <2>1. left' = [left EXCEPT !["recache"] = 2]
    BY <1>1 DEF RequestFade, Wait
  <2>2. left' \in [Waiters -> 0..2] /\ left'["reload"] = left["reload"]
    BY <2>1
  <2> QED
    BY <1>1, <2>2 DEF RequestFade
<1>2. CASE TakeTarget \/ Withdraw \/ RequestTaken
  BY <1>2 DEF TakeTarget, Withdraw, RequestTaken
<1>3. CASE FadePassed \/ Rebuilt \/ Decide
  BY <1>3 DEF FadePassed, Rebuilt, Decide
<1> QED
  BY <1>1, <1>2, <1>3 DEF Recache

\* The GUI opens and closes the device and asks for rebuilds and reloads.
LEMMA GuiKeeps ==
  ASSUME HandshakeInv,
         Marked \/ ReloadBegins \/ CloseDevice \/ \E t \in Targets : Rebuild(t)
  PROVE  HandshakeInv'
<1> USE DEF HandshakeInv, Shape, Past, DeviceStands, FlagUp, BlocksGone,
            VoicesGone, Rendering, bankVars, voiceVars
<1>1. CASE MarkPending \/ SpawnRecache
  BY <1>1 DEF MarkPending, SpawnRecache, audioVars
<1>2. CASE ReopenDevice
  BY <1>2 DEF ReopenDevice
<1>3. CASE ReloadBegins
  BY <1>3 DEF ReloadBegins, audioVars
<1>4. CASE CloseDevice
  BY <1>4 DEF CloseDevice
<1>5. ASSUME NEW t \in Targets, Rebuild(t)
      PROVE  HandshakeInv'
  BY <1>5 DEF Rebuild, audioVars
<1> QED
  BY <1>1, <1>2, <1>3, <1>4, <1>5 DEF Marked

LEMMA HandshakeStep ==
  ASSUME HandshakeInv, [Next]_vars
  PROVE  HandshakeInv'
<1>1. CASE Next
  BY <1>1, AudioKeeps, ReloadKeeps, RecacheKeeps, GuiKeeps DEF Next
<1>2. CASE UNCHANGED vars
  BY <1>2 DEF vars, audioVars, bankVars, voiceVars, HandshakeInv, Shape,
              Past, DeviceStands, FlagUp, BlocksGone, VoicesGone, Rendering
<1> QED
  BY <1>1, <1>2

LEMMA HandshakeHolds == Spec => []HandshakeInv
<1>1. HandshakeInv /\ [Next]_vars => HandshakeInv'
  BY HandshakeStep
<1> QED
  BY <1>1, InitHandshake, PTL DEF Spec

\* reloadBank: while the bank is replaced no block renders from it and no
\* voice points into it, whether the device runs, is reopened or is off.
THEOREM BankIsAlone == Spec => []BankAlone
<1>1. HandshakeInv => BankAlone
  BY DEF HandshakeInv, BlocksGone, VoicesGone, BankAlone, Past
<1> QED
  BY <1>1, HandshakeHolds, PTL
-----------------------------------------------------------------------------
(* One builder at a time. *)

\* The panel asks for no rebuild while a reload runs, and the reload has
\* joined what was asked for before.
JoinInv ==
  /\ worker # "idle" => gui \in {"idle", "reopen"}
  /\ worker \in {"reset", "load", "cache", "lower"} => thread = "none"

LEMMA JoinKeeps ==
  ASSUME ~RebuildWhileLoading, JoinInv, [Next]_vars
  PROVE  JoinInv'
<1> USE DEF JoinInv
<1>1. CASE Audio
  BY <1>1 DEF Audio, BlockBegins, Gate, Drain, Retarget, BlockEnds, bankVars,
              cacheVars
<1>2. CASE Reload
  BY <1>2 DEF Reload, RaiseLoading, BlocksQuiet, JoinRecache, StopVoices,
              LoadSamples, BuildForBank, LowerLoading, cacheVars
<1>3. CASE Recache
  BY <1>3 DEF Recache, TakeTarget, Withdraw, RequestFade, RequestTaken,
              FadePassed, Rebuilt, Decide, bankVars
<1>4. CASE Marked
  BY <1>4 DEF Marked, MarkPending, SpawnRecache, ReopenDevice, bankVars,
              cacheVars
<1>5. CASE ReloadBegins \/ CloseDevice
  BY <1>5 DEF ReloadBegins, CloseDevice, bankVars, cacheVars
<1>6. ASSUME NEW t \in Targets, Rebuild(t)
      PROVE  JoinInv'
  BY <1>6 DEF Rebuild, bankVars, cacheVars
<1>7. CASE UNCHANGED vars
  BY <1>7 DEF vars, bankVars, cacheVars
<1> QED
  BY <1>1, <1>2, <1>3, <1>4, <1>5, <1>6, <1>7 DEF Next

\* engine.cpp:154: no recache thread runs while loadBank replaces the bank, if
\* nobody asks for a rebuild before the reload has ended.
THEOREM OneBuilderAtATime ==
  ASSUME ~RebuildWhileLoading
  PROVE  Spec => []OneBuilder
<1>1. Init => JoinInv
  BY DEF Init, JoinInv
<1>2. JoinInv /\ [Next]_vars => JoinInv'
  BY JoinKeeps
<1>3. JoinInv => OneBuilder
  BY DEF JoinInv, OneBuilder
<1> QED
  BY <1>1, <1>2, <1>3, PTL DEF Spec
-----------------------------------------------------------------------------
(* The resonance buffers. *)

Voices == [src : {"cache", "stream"}, life : {"off", "on", "fast", "slow"}]

\* A reload has stopped all blocks; it cannot end before it has joined the
\* recache thread.
Frozen == loading /\ ~Rendering

Sounds == reso.src = "cache" /\ reso.life = "on"

\* What the recache thread may rely on at each of its steps:
Withdrawn == thread \in {"ask", "wait", "sleep", "build"} => ~ready
\* a resonance that sounds from the buffers still has a request before it,
Requested == thread \in {"wait", "sleep", "build"} => request \/ ~Sounds
\* which the first block that begins takes, unless it is gated,
Served ==
  /\ thread = "wait" /\ left["recache"] = 1 =>
       ~request \/ Frozen \/ block \in {"begun", "drain", "mix"}
  /\ thread = "wait" /\ left["recache"] = 0 => ~request \/ Frozen
  /\ thread = "sleep" /\ ~blind => ~request \/ Frozen
\* and which has faded by the time the buffers are rewritten.
Faded ==
  thread = "build" /\ ~blind =>
    ~(reso.src = "cache" /\ reso.life \in {"on", "fast"}) \/ Frozen

\* What the invariants above lack.
Added ==
  /\ reso \in Voices
  /\ loading => worker \in {"wait"} \cup Past
  /\ thread \in {"none", "take", "withdraw", "ask", "wait", "sleep", "build",
                 "decide", "ended"}
  /\ Withdrawn /\ Requested /\ Served /\ Faded

\* The inductive invariant.
RebuildInv == HandshakeInv /\ JoinInv /\ Added

\* The audio thread: while the buffers are withdrawn a new resonance streams.
LEMMA AudioAdds ==
  ASSUME RebuildInv, Audio
  PROVE  Added'
<1> USE DEF RebuildInv, Added, HandshakeInv, Shape, Past, Voices, Frozen,
            Sounds, Withdrawn, Requested, Served, Faded, Rendering, bankVars,
            cacheVars, bufferVars, voiceVars, Waiters, kQuietBlocks
<1>1. CASE BlockBegins
  <2>1. left'["recache"] = IF left["recache"] > 0 THEN left["recache"] - 1
                           ELSE 0
    BY <1>1 DEF BlockBegins
  <2>2. left["recache"] \in {0, 1, 2}
    OBVIOUS
  <2>3. block = "out" /\ block' = "begun"
    BY <1>1 DEF BlockBegins
  <2>4. UNCHANGED <<bankVars, cacheVars, bufferVars, request, voiceVars>>
    BY <1>1 DEF BlockBegins
  <2>5. Served'
    BY <2>1, <2>2, <2>3, <2>4
  <2> QED
    BY <2>3, <2>4, <2>5
<1>2. CASE Gate
  BY <1>2 DEF Gate
<1>3. CASE Drain
  <2>1. UNCHANGED <<left, bankVars, cacheVars, bufferVars, request>>
        /\ block = "drain" /\ block' = "mix"
    BY <1>3 DEF Drain
  <2>2. \/ reso' = reso
        \/ reso' = [src |-> IF ready THEN "cache" ELSE "stream", life |-> "on"]
        \/ reso.life = "on" /\ reso' = [reso EXCEPT !.life = "fast"]
    BY <1>3 DEF Drain
  <2>3. CASE reso' = reso
    BY <2>1, <2>3
  <2>4. CASE reso' = [src |-> IF ready THEN "cache" ELSE "stream",
                      life |-> "on"]
    BY <2>1, <2>4
  <2>5. CASE reso.life = "on" /\ reso' = [reso EXCEPT !.life = "fast"]
    <3>1. reso' \in Voices /\ reso'.src = reso.src /\ reso'.life = "fast"
      BY <2>5
    <3>2. thread = "build" /\ ~blind => reso.src # "cache"
      BY <2>1, <2>5
    <3> QED
      BY <2>1, <3>1, <3>2
  <2> QED
    BY <2>2, <2>3, <2>4, <2>5
<1>4. CASE Retarget
  <2>1. UNCHANGED <<left, bankVars, cacheVars, bufferVars>> /\ ~request'
        /\ block = "mix" /\ block' = "play"
    BY <1>4 DEF Retarget
  <2>2. \/ reso' = reso /\ (reso.life = "on" => ~request)
        \/ reso.life = "on" /\ reso' = [reso EXCEPT !.life = "fast"]
        \/ reso.life = "on" /\ reso' = [reso EXCEPT !.life = "slow"]
    BY <1>4 DEF Retarget
  <2>3. CASE reso' = reso /\ (reso.life = "on" => ~request)
    BY <2>1, <2>3
  <2>4. CASE reso.life = "on" /\ reso' = [reso EXCEPT !.life = "fast"]
    <3>1. reso' \in Voices /\ reso'.src = reso.src /\ reso'.life = "fast"
      BY <2>4
    <3>2. thread = "build" /\ ~blind => reso.src # "cache"
      BY <2>1, <2>4
    <3> QED
      BY <2>1, <3>1, <3>2
  <2>5. CASE reso.life = "on" /\ reso' = [reso EXCEPT !.life = "slow"]
    <3>1. reso' \in Voices /\ reso'.src = reso.src /\ reso'.life = "slow"
      BY <2>5
    <3> QED
      BY <2>1, <3>1
  <2> QED
    BY <2>2, <2>3, <2>4, <2>5
<1>5. CASE BlockEnds
  <2>1. reso' = reso \/ reso' = [src |-> "stream", life |-> "off"]
    BY <1>5 DEF BlockEnds, Silent
  <2> QED
    BY <1>5, <2>1 DEF BlockEnds
<1> QED
  BY <1>1, <1>2, <1>3, <1>4, <1>5 DEF Audio

\* reloadBank: up to its join it only freezes the blocks; from there on no
\* recache thread is left.
LEMMA ReloadAdds ==
  ASSUME RebuildInv, Reload
  PROVE  Added'
<1> USE DEF RebuildInv, Added, HandshakeInv, JoinInv, Shape, Past, Voices,
            Frozen, Sounds, Withdrawn, Requested, Served, Faded, Rendering,
            audioVars, bankVars, cacheVars, bufferVars, voiceVars, Waiters,
            kQuietBlocks
<1>1. CASE RaiseLoading
  <2>1. left'["recache"] = left["recache"]
    BY <1>1 DEF RaiseLoading, Wait
  <2> QED
    BY <1>1, <2>1 DEF RaiseLoading
<1>2. CASE BlocksQuiet
  BY <1>2 DEF BlocksQuiet
<1>3. CASE JoinRecache
  BY <1>3 DEF JoinRecache
<1>4. CASE StopVoices
  BY <1>4 DEF StopVoices, Silent
<1>5. CASE LoadSamples
  BY <1>5 DEF LoadSamples
<1>6. CASE BuildForBank
  BY <1>6 DEF BuildForBank
<1>7. CASE LowerLoading
  BY <1>7 DEF LowerLoading
<1> QED
  BY <1>1, <1>2, <1>3, <1>4, <1>5, <1>6, <1>7 DEF Reload

\* The recache thread itself.
LEMMA RecacheAdds ==
  ASSUME RebuildInv, Recache
  PROVE  Added'
<1> USE DEF RebuildInv, Added, HandshakeInv, Shape, Past, Voices, Frozen,
            Sounds, Withdrawn, Requested, Served, Faded, Rendering, audioVars,
            bankVars, cacheVars, bufferVars, voiceVars, Waiters, kQuietBlocks
<1>1. CASE TakeTarget \/ Withdraw
  BY <1>1 DEF TakeTarget, Withdraw
<1>2. CASE RequestFade
  <2>1. left'["recache"] = 2
    BY <1>2 DEF RequestFade, Wait
  <2> QED
    BY <1>2, <2>1 DEF RequestFade
<1>3. CASE RequestTaken
  BY <1>3 DEF RequestTaken, Quiet
<1>4. CASE FadePassed
  <2>1. ~blind' => ~blind /\ device = "on"
    BY <1>4 DEF FadePassed
  <2>2. reso.src = "cache" /\ reso.life = "fast" => reso = Fading
    BY DEF Fading
  <2>3. device = "on" /\ reso = Fading => Frozen
    BY <1>4 DEF FadePassed
  <2>4. Sounds /\ ~blind => Frozen
    BY <1>4 DEF FadePassed
  <2> QED
    BY <1>4, <2>1, <2>2, <2>3, <2>4 DEF FadePassed
<1>5. CASE Rebuilt \/ Decide
  BY <1>5 DEF Rebuilt, Decide
<1> QED
  BY <1>1, <1>2, <1>3, <1>4, <1>5 DEF Recache

\* The GUI.
LEMMA GuiAdds ==
  ASSUME RebuildInv,
         Marked \/ ReloadBegins \/ CloseDevice \/ \E t \in Targets : Rebuild(t)
  PROVE  Added'
<1> USE DEF RebuildInv, Added, Past, Frozen, Sounds, Withdrawn, Requested,
            Served, Faded, Rendering, bankVars, cacheVars, bufferVars, voiceVars
<1>1. CASE MarkPending \/ SpawnRecache
  BY <1>1 DEF MarkPending, SpawnRecache, audioVars
<1>2. CASE ReopenDevice
  BY <1>2 DEF ReopenDevice
<1>3. CASE ReloadBegins
  BY <1>3 DEF ReloadBegins, audioVars
<1>4. CASE CloseDevice
  BY <1>4 DEF CloseDevice
<1>5. ASSUME NEW t \in Targets, Rebuild(t)
      PROVE  Added'
  BY <1>5 DEF Rebuild, audioVars
<1> QED
  BY <1>1, <1>2, <1>3, <1>4, <1>5 DEF Marked

\* engine.cpp:640: unless its wait was in vain, the recache thread rewrites the
\* resonance buffers only while no voice plays from them.
THEOREM BuffersAreAlone ==
  ASSUME ~RebuildWhileLoading
  PROVE  Spec => []BuffersAlone
<1>1. Init => RebuildInv
  <2> SUFFICES ASSUME Init
               PROVE  RebuildInv
    OBVIOUS
  <2>1. Added
    BY DEF Init, Silent, Added, Voices, Withdrawn, Requested, Served, Faded
  <2> QED
    BY <2>1, InitHandshake DEF Init, JoinInv, RebuildInv
<1>2. RebuildInv /\ [Next]_vars => RebuildInv'
  <2> SUFFICES ASSUME RebuildInv, [Next]_vars
               PROVE  RebuildInv'
    OBVIOUS
  <2>2. HandshakeInv'
    BY HandshakeStep DEF RebuildInv
  <2>3. JoinInv'
    BY JoinKeeps DEF RebuildInv
  <2>4. CASE Next
    BY <2>2, <2>3, <2>4, AudioAdds, ReloadAdds, RecacheAdds, GuiAdds
       DEF Next, RebuildInv
  <2>5. CASE UNCHANGED vars
    <3>1. Added'
      BY <2>5 DEF vars, RebuildInv, audioVars, bankVars, cacheVars, bufferVars,
         voiceVars, Added, Frozen, Sounds, Withdrawn, Requested, Served, Faded,
         Rendering
    <3> QED
      BY <3>1, <2>2, <2>3 DEF RebuildInv
  <2> QED
    BY <2>4, <2>5
<1>3. RebuildInv => BuffersAlone
  BY DEF RebuildInv, Added, Faded, Frozen, Rendering, BuffersAlone, Reading
<1> QED
  BY <1>1, <1>2, <1>3, PTL DEF Spec
=============================================================================
