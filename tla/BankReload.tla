------------------------------ MODULE BankReload ------------------------------
(***************************************************************************)
(* How a bank is replaced, and its resonance buffers rebuilt, under a      *)
(* running audio device (engine.cpp, resonance_engine.cpp).  No lock       *)
(* guards the bank: reloadBank raises bank_loading_ and waits until two    *)
(* more blocks have begun; the recache thread withdraws its ready flags,   *)
(* asks the audio thread to fade the resonances, and waits likewise.       *)
(*                                                                         *)
(* Four threads: the audio thread, the reload worker, the recache thread   *)
(* and the GUI.  block_epoch_ is a count of the block starts each waiter   *)
(* still has to see; one resonance voice and one flag for the main voices  *)
(* stand for all of them.                                                  *)
(*                                                                         *)
(* EarlyGate, Patient, NoJoin, DropPending and HastyRequest are faulty     *)
(* variants of the definitions that follow them.                           *)
(***************************************************************************)
EXTENDS Naturals

CONSTANTS
  Targets,             \* layers (dB) the resonance slider may ask for
  None,
  RebuildWhileLoading  \* the debounced rebuild may be called during a reload

Waiters == {"reload", "recache"}
kQuietBlocks == 2      \* waitForAudioQuiesce(2, 500)

VARIABLES
  device,    \* "on", "gap" (being reopened), "off" (could not be opened)
  block,     \* processBlock: "out", "begun", "drain", "mix", "play"
  left,      \* block starts each waiter has yet to see
  loading,   \* bank_loading_
  worker,    \* position in reloadBank
  hasBank,   \* bank_ has samples
  thread,    \* position of the recache thread; "none", "ended": joinable or not
  running, pending,   \* recache_running_, recache_pending_
  target,    \* recache_target_ and cfg_.resonance_layer_db
  taken,     \* the target the recache thread works for
  cached,    \* the target preload_resonance was built for; None while written
  ready,     \* reso_cache_ready_
  request,   \* recache_fade_request_
  gui,       \* position of the GUI thread in rebuildResonanceCache
  reso,      \* a resonance voice: where it reads, how it lives
  sounding,  \* main voices hold samples of the bank
  blind      \* ghost: a wait was given up, or slept through a silent device

audioVars == <<device, block>>
bankVars == <<loading, worker, hasBank>>
cacheVars == <<thread, running, pending, taken, blind>>
bufferVars == <<cached, ready>>
voiceVars == <<reso, sounding>>
vars == <<audioVars, left, bankVars, cacheVars, target, bufferVars, request,
          gui, voiceVars>>

Rendering == block \in {"drain", "mix", "play"}
Silent == [src |-> "stream", life |-> "off"]
Fading == [src |-> "cache", life |-> "fast"]

Init ==
  /\ device \in {"on", "off"} /\ block = "out"
  /\ left = [w \in Waiters |-> 0]
  /\ loading = FALSE /\ worker = "idle" /\ hasBank = FALSE
  /\ thread = "none" /\ running = FALSE /\ pending = FALSE /\ taken = None
  /\ blind = FALSE
  /\ target \in Targets /\ cached = None /\ ready = FALSE
  /\ request = FALSE /\ gui = "idle"
  /\ reso = Silent /\ sounding = FALSE
-----------------------------------------------------------------------------
(* The audio thread. *)

\* processBlock begins: the epoch ticks before anything else is looked at.
BlockBegins ==
  /\ device = "on" /\ block = "out"
  /\ block' = "begun"
  /\ left' = [w \in Waiters |-> IF left[w] > 0 THEN left[w] - 1 ELSE 0]
  /\ UNCHANGED <<device, bankVars, cacheVars, target, bufferVars, request,
                 gui, voiceVars>>

EarlyGate ==
  /\ block = "begun"
  /\ block' = "drain"
  /\ UNCHANGED <<device, left, bankVars, cacheVars, target, bufferVars,
                 request, gui, voiceVars>>

\* During a reload the block is silent and leaves the queue alone.
Gate ==
  /\ block = "begun"
  /\ block' = IF loading THEN "out" ELSE "drain"
  /\ UNCHANGED <<device, left, bankVars, cacheVars, target, bufferVars,
                 request, gui, voiceVars>>

\* The events of the block: main voices start, a resonance starts (from the
\* buffers when they are ready) or is struck over and fades within 5 ms.
Drain ==
  /\ block = "drain"
  /\ block' = "mix"
  /\ sounding' \in {sounding, hasBank}
  /\ reso' \in {reso}
       \cup (IF reso.life = "off" /\ hasBank
             THEN {[src |-> IF ready THEN "cache" ELSE "stream",
                    life |-> "on"]} ELSE {})
       \cup (IF reso.life = "on" THEN {[reso EXCEPT !.life = "fast"]} ELSE {})
  /\ UNCHANGED <<device, left, bankVars, cacheVars, target, bufferVars,
                 request, gui>>

\* ResonanceEngine::processBlock: a rebuild's request fades what sounds
\* within 5 ms; what fades already is left to itself, even when its damper
\* started it on the 30 ms ramp.
Retarget ==
  /\ block = "mix"
  /\ block' = "play"
  /\ request' = FALSE
  /\ reso' \in IF reso.life # "on" THEN {reso}
               ELSE IF request THEN {[reso EXCEPT !.life = "fast"]}
               ELSE {reso, [reso EXCEPT !.life = "slow"]}
  /\ UNCHANGED <<device, left, bankVars, cacheVars, target, bufferVars, gui,
                 sounding>>

\* The voices have read their samples; some have come to an end.
BlockEnds ==
  /\ block = "play"
  /\ block' = "out"
  /\ reso' \in {reso, Silent}
  /\ sounding' \in {sounding, FALSE}
  /\ UNCHANGED <<device, left, bankVars, cacheVars, target, bufferVars,
                 request, gui>>
-----------------------------------------------------------------------------
(* waitForAudioQuiesce: two block starts, or 500 ms without them.  With the  *)
(* device running the time-out is not reached: its blocks last 170 ms at     *)
(* most.                                                                     *)

Quiet(w) == left[w] = 0
Patient == FALSE
TimedOut == device # "on"

Wait(w) == left' = [left EXCEPT ![w] = kQuietBlocks]
-----------------------------------------------------------------------------
(* The reload worker. *)

\* allNotesOff is queued; 50 ms for the releases.
ReloadBegins ==
  /\ worker = "idle" /\ gui = "idle"
  /\ worker' = "pause"
  /\ UNCHANGED <<audioVars, left, loading, hasBank, cacheVars, target,
                 bufferVars, request, gui, voiceVars>>

RaiseLoading ==
  /\ worker = "pause"
  /\ loading' = TRUE /\ worker' = "wait" /\ Wait("reload")
  /\ UNCHANGED <<audioVars, hasBank, cacheVars, target, bufferVars, request,
                 gui, voiceVars>>

BlocksQuiet ==
  /\ worker = "wait" /\ (Quiet("reload") \/ TimedOut)
  /\ worker' = "join"
  /\ UNCHANGED <<audioVars, left, loading, hasBank, cacheVars, target,
                 bufferVars, request, gui, voiceVars>>

NoJoin ==
  /\ worker = "join"
  /\ worker' = "reset" /\ running' = FALSE /\ pending' = FALSE
  /\ UNCHANGED <<audioVars, left, loading, hasBank, thread, taken, blind,
                 target, bufferVars, request, gui, voiceVars>>

\* The recache thread is joined and its marks cleared.
JoinRecache ==
  /\ worker = "join" /\ thread \in {"none", "ended"}
  /\ worker' = "reset"
  /\ thread' = "none" /\ running' = FALSE /\ pending' = FALSE
  /\ UNCHANGED <<audioVars, left, loading, hasBank, taken, blind, target,
                 bufferVars, request, gui, voiceVars>>

\* Every voice is stopped, so that none points into the old bank.
StopVoices ==
  /\ worker = "reset"
  /\ worker' = "load"
  /\ sounding' = FALSE /\ reso' = Silent
  /\ UNCHANGED <<audioVars, left, loading, hasBank, cacheVars, target,
                 bufferVars, request, gui>>

\* bank_ is replaced: by samples, by an empty bank (nothing found: the flags
\* stay), or dropped because memory ran out.
LoadSamples ==
  /\ worker = "load"
  /\ \/ hasBank' = TRUE /\ worker' = "cache" /\ cached' = None
        /\ UNCHANGED ready
     \/ hasBank' = FALSE /\ worker' = "lower" /\ cached' = None
        /\ ready' \in {ready, FALSE}
  /\ UNCHANGED <<audioVars, left, loading, cacheVars, target, request, gui,
                 voiceVars>>

\* The buffers of the new bank, for the layer asked for last.
BuildForBank ==
  /\ worker = "cache"
  /\ cached' = target /\ ready' = TRUE
  /\ worker' = "lower"
  /\ UNCHANGED <<audioVars, left, loading, hasBank, cacheVars, target,
                 request, gui, voiceVars>>

LowerLoading ==
  /\ worker = "lower"
  /\ loading' = FALSE /\ worker' = "idle"
  /\ UNCHANGED <<audioVars, left, hasBank, cacheVars, target, bufferVars,
                 request, gui, voiceVars>>
-----------------------------------------------------------------------------
(* rebuildResonanceCache, called by the GUI 400 ms after the slider rests.   *)

Rebuild(t) ==
  /\ gui = "idle" /\ t # target
  /\ RebuildWhileLoading \/ worker = "idle"
  /\ target' = t /\ gui' = "mark"
  /\ UNCHANGED <<audioVars, left, bankVars, cacheVars, bufferVars, request,
                 voiceVars>>

DropPending ==
  /\ gui = "mark"
  /\ gui' = IF running THEN "idle" ELSE "spawn"
  /\ running' = TRUE
  /\ UNCHANGED <<audioVars, left, bankVars, thread, pending, taken, blind,
                 target, bufferVars, request, voiceVars>>

\* Under recache_mtx_: a running rebuild is told to go round again.
MarkPending ==
  /\ gui = "mark"
  /\ IF running
     THEN pending' = TRUE /\ gui' = "idle" /\ UNCHANGED running
     ELSE running' = TRUE /\ gui' = "spawn" /\ UNCHANGED pending
  /\ UNCHANGED <<audioVars, left, bankVars, thread, taken, blind, target,
                 bufferVars, request, voiceVars>>

\* The previous thread is joined and a new one spawned.
SpawnRecache ==
  /\ gui = "spawn" /\ thread \in {"none", "ended"}
  /\ thread' = "take" /\ gui' = "idle"
  /\ UNCHANGED <<audioVars, left, bankVars, running, pending, taken, blind,
                 target, bufferVars, request, voiceVars>>
-----------------------------------------------------------------------------
(* The recache thread. *)

TakeTarget ==
  /\ thread = "take"
  /\ thread' = "withdraw" /\ taken' = target /\ blind' = FALSE
  /\ UNCHANGED <<audioVars, left, bankVars, running, pending, target,
                 bufferVars, request, gui, voiceVars>>

\* clearCacheReady: resonances that start from now on stream.
Withdraw ==
  /\ thread = "withdraw"
  /\ ready' = FALSE /\ thread' = "ask"
  /\ UNCHANGED <<audioVars, left, bankVars, running, pending, taken, blind,
                 target, cached, request, gui, voiceVars>>

HastyRequest ==
  /\ thread = "ask"
  /\ thread' = "wait" /\ Wait("recache")
  /\ UNCHANGED <<audioVars, bankVars, running, pending, taken, blind, target,
                 bufferVars, request, gui, voiceVars>>

RequestFade ==
  /\ thread = "ask"
  /\ request' = TRUE /\ thread' = "wait" /\ Wait("recache")
  /\ UNCHANGED <<audioVars, bankVars, running, pending, taken, blind, target,
                 bufferVars, gui, voiceVars>>

RequestTaken ==
  /\ thread = "wait" /\ (Quiet("recache") \/ TimedOut)
  /\ thread' = "sleep" /\ blind' = (blind \/ ~Quiet("recache"))
  /\ UNCHANGED <<audioVars, left, bankVars, running, pending, taken, target,
                 bufferVars, request, gui, voiceVars>>

\* 15 ms: long enough for the 5 ms fade of a voice that is being played, not
\* for one that the gate of a reload has frozen.
FadePassed ==
  /\ thread = "sleep"
  /\ device = "on" /\ (Rendering \/ ~loading) => reso # Fading
  /\ thread' = "build" /\ cached' = None
  /\ blind' = (blind \/ device # "on")
  /\ UNCHANGED <<audioVars, left, bankVars, running, pending, taken, target,
                 ready, request, gui, voiceVars>>

\* buildResonanceCache has reallocated the buffers; the flags are set.
Rebuilt ==
  /\ thread = "build"
  /\ cached' = taken /\ ready' = hasBank
  /\ thread' = "decide"
  /\ UNCHANGED <<audioVars, left, bankVars, running, pending, taken, blind,
                 target, request, gui, voiceVars>>

\* Under recache_mtx_: once more for a newer target, or done.
Decide ==
  /\ thread = "decide"
  /\ IF pending
     THEN pending' = FALSE /\ thread' = "take" /\ UNCHANGED running
     ELSE thread' = "ended" /\ running' = FALSE /\ UNCHANGED pending
  /\ UNCHANGED <<audioVars, left, bankVars, taken, blind, target, bufferVars,
                 request, gui, voiceVars>>
-----------------------------------------------------------------------------
(* setAudioBlockSize: the device is closed, which joins its callback, and    *)
(* opened again, which may fail.                                             *)

CloseDevice ==
  /\ gui = "idle" /\ device # "gap" /\ block = "out"
  /\ device' = "gap" /\ gui' = "reopen"
  /\ UNCHANGED <<block, left, bankVars, cacheVars, target, bufferVars,
                 request, voiceVars>>

ReopenDevice ==
  /\ gui = "reopen"
  /\ device' \in {"on", "off"} /\ gui' = "idle"
  /\ UNCHANGED <<block, left, bankVars, cacheVars, target, bufferVars,
                 request, voiceVars>>

Audio == BlockBegins \/ Gate \/ Drain \/ Retarget \/ BlockEnds
Reload == \/ RaiseLoading \/ BlocksQuiet \/ JoinRecache \/ StopVoices
          \/ LoadSamples \/ BuildForBank \/ LowerLoading
Recache == \/ TakeTarget \/ Withdraw \/ RequestFade \/ RequestTaken
           \/ FadePassed \/ Rebuilt \/ Decide
Marked == MarkPending \/ SpawnRecache \/ ReopenDevice

Next ==
  \/ Audio \/ Reload \/ Recache \/ Marked
  \/ ReloadBegins
  \/ \E t \in Targets : Rebuild(t)
  \/ CloseDevice

Spec == Init /\ [][Next]_vars

\* Every thread is scheduled, and the 500 ms pass even when the device is
\* reopened all the time; a fade of 5 ms ends after a few blocks; nobody need
\* ever touch the panel.
FairSpec == /\ Spec /\ WF_vars(Audio) /\ SF_vars(Reload)
            /\ SF_vars(Recache) /\ WF_vars(Marked)
            /\ SF_vars(BlockEnds /\ reso = Fading /\ reso' = Silent)
-----------------------------------------------------------------------------
TypeOK ==
  /\ device \in {"on", "gap", "off"}
  /\ block \in {"out", "begun", "drain", "mix", "play"}
  /\ left \in [Waiters -> 0..kQuietBlocks]
  /\ worker \in {"idle", "pause", "wait", "join", "reset", "load", "cache",
                 "lower"}
  /\ thread \in {"none", "take", "withdraw", "ask", "wait", "sleep", "build",
                 "decide", "ended"}
  /\ {loading, hasBank, running, pending, ready, request, sounding, blind}
       \subseteq BOOLEAN
  /\ target \in Targets /\ {taken, cached} \subseteq Targets \cup {None}
  /\ gui \in {"idle", "mark", "spawn", "reopen"}
  /\ reso \in [src : {"cache", "stream"}, life : {"off", "on", "fast", "slow"}]

Reading == block = "play" /\ reso.src = "cache" /\ reso.life \in {"on", "fast"}

\* While reloadBank replaces the bank, no block renders from it and no voice
\* points into it, whether the device runs, is reopened or is off.
BankAlone ==
  worker \in {"load", "cache"} =>
    /\ ~Rendering
    /\ ~sounding /\ reso.life = "off"

\* Unless its wait was in vain, the recache thread rewrites the resonance
\* buffers only while no voice plays from them (comment engine.cpp:640), but
\* for one that its damper had put on the 30 ms ramp before: the request
\* leaves it alone and the wait is too short for it.
BuffersAlone == thread = "build" /\ ~blind => ~Reading

\* The bank has one reader or writer beside the audio thread: a rebuild never
\* runs into a reload (comment engine.cpp:154).
OneBuilder == worker \in {"load", "cache"} => thread \in {"none", "ended"}

\* The last target set wins: with a bank loaded, the buffers end up built for
\* it however often the slider moves while a rebuild runs.
TargetBuilt ==
  \A t \in Targets :
    (hasBank /\ target = t) ~> (cached = t \/ target # t \/ ~hasBank)

\* A reload ends, with the device running, being reopened, or off.
ReloadEnds == (worker # "idle") ~> (worker = "idle")
=============================================================================
