-------------------------------- MODULE Panel --------------------------------
(***************************************************************************)
(* The panel and its reload thread.  The GUI thread runs one frame after    *)
(* another: the pages with what the user does on them, then               *)
(* pollReloadCompletion(), the overlay, and the debouncer of the resonance *)
(* layer.  A bank is chosen on PLAY, where a reel glides to a bank and     *)
(* loads it when it comes to rest, or on BANK.  The loading itself is the  *)
(* business of a thread of its own; the two share atomics and no lock.     *)
(***************************************************************************)
EXTENDS Integers, Sequences

CONSTANTS
  Banks,        \* the list on PLAY: a sequence of directories
  OutcomeOf,    \* directory -> "ok", "cut" (RAM budget), "unlicensed", "broken"
                \* (the layers of a bank that loads differ in loudness)
  OverlayWait,  \* frames before the overlay shows
  FadeFrames,   \* frames it takes to fade out, at most
  LayerWait,    \* frames a layer must rest before the cache is rebuilt
  None

VARIABLES
  pc,           \* GUI thread: "boot", "input", "poll", "told", "tail", "quit", "close", "gone"
  page,         \* "play", "bank", "reso"
  path,         \* GuiState::bank_path
  reel,         \* [pos, target, dragging, armed]: motion::Settle and reel_*
  splash,       \* the opening screen still covers the panel
  overlay,      \* [t, a]: overlay_t, overlay_a (0: not visible)
  flags,        \* [cut, unlicensed]: bank_truncated_, bank_license_invalid_
  layer,        \* resonance_layer_db: "default", "third", "user"
  prevLayer, layerAge,          \* prev_layer_db and layer_db of main()
  asked,        \* the layer the engine was last asked to build the cache for
  inProgress, donePending, ok,  \* the atomics of AppContext
  dir,          \* reload_dir_
  progress,     \* [cut, unlicensed]: load_progress_
  thread,       \* reload_thread_: "none", "load", "store", "tell", "leave", "over"
  bank,         \* the bank the engine holds
  open          \* the devices in use: a subset of {"midi", "audio"}

gui    == <<page, path, reel, splash, overlay, flags>>
layers == <<layer, prevLayer, layerAge, asked>>
shared == <<inProgress, donePending, ok, dir, progress, thread, bank>>
vars   == <<pc, gui, layers, shared, open>>

Nothing == [cut |-> FALSE, unlicensed |-> FALSE]
Dirs == {Banks[i] : i \in DOMAIN Banks}
Good(d) == OutcomeOf[d] \in {"ok", "cut"}

\* BankLoadProgress after the load of d: the loader only raises its marks.
Raised(p, d) ==
  [cut        |-> p.cut \/ OutcomeOf[d] = "cut",
   unlicensed |-> p.unlicensed \/ OutcomeOf[d] = "unlicensed"]

----------------------------------------------------------------------------
(* The reload thread.                                                      *)

\* A request that leaves the marks of the load before it.
RequestUnreset(d) ==
  IF inProgress
  THEN UNCHANGED <<shared, flags>>
  ELSE /\ thread \in {"none", "over"}
       /\ inProgress' = TRUE /\ dir' = d
       /\ flags' = [flags EXCEPT !.unlicensed = FALSE]
       /\ thread' = "load"
       /\ UNCHANGED <<donePending, ok, progress, bank>>

\* requestBankReload(): refused while a reload runs; the thread before it has
\* nothing left to do and is joined.
Request(d) ==
  IF inProgress
  THEN UNCHANGED <<shared, flags>>
  ELSE /\ thread \in {"none", "over"}
       /\ inProgress' = TRUE /\ dir' = d /\ progress' = Nothing
       /\ flags' = [flags EXCEPT !.unlicensed = FALSE]
       /\ thread' = "load"
       /\ UNCHANGED <<donePending, ok, bank>>

\* engine.reloadBank(): the new bank, or none at all.
LoadBank ==
  /\ thread = "load"
  /\ bank' = IF Good(dir) THEN dir ELSE None
  /\ progress' = Raised(progress, dir)
  /\ thread' = "store"
  /\ UNCHANGED <<pc, gui, layers, inProgress, donePending, ok, dir, open>>

StoreOk ==
  /\ thread = "store"
  /\ ok' = (bank # None) /\ thread' = "tell"
  /\ UNCHANGED <<pc, gui, layers, inProgress, donePending, dir, progress, bank, open>>

TellDone ==
  /\ thread = "tell"
  /\ donePending' = TRUE /\ thread' = "leave"
  /\ UNCHANGED <<pc, gui, layers, inProgress, ok, dir, progress, bank, open>>

\* The thread that forgets to clear the mark when the bank could not be read.
ClearIfLoaded ==
  /\ thread = "leave"
  /\ inProgress' = ~ok /\ thread' = "over"
  /\ UNCHANGED <<pc, gui, layers, donePending, ok, dir, progress, bank, open>>

ClearProgress ==
  /\ thread = "leave"
  /\ inProgress' = FALSE /\ thread' = "over"
  /\ UNCHANGED <<pc, gui, layers, donePending, ok, dir, progress, bank, open>>

----------------------------------------------------------------------------
(* The user, and the pages.  A gesture reaches the pages unless the overlay *)
(* lies above them; the reel glides whether it does or not.                *)

\* initFromState(): the devices may be missing, the first load runs in the
\* background; an engine that does not start ends the program.
Boot ==
  /\ pc = "boot"
  /\ \/ /\ pc' = "input"
        /\ open' \in SUBSET {"midi", "audio"}
        /\ IF path = None THEN UNCHANGED <<shared, flags>> ELSE Request(path)
     \/ pc' = "quit" /\ UNCHANGED <<open, shared, flags>>
  /\ UNCHANGED <<page, path, reel, splash, overlay, layers>>

Touchable == overlay.a = 0

\* Drag: the reel follows the finger and stands still under it.
DragReel ==
  /\ page = "play" /\ Touchable
  /\ \E i \in DOMAIN Banks :
       reel' = [reel EXCEPT !.pos = i, !.target = i, !.dragging = TRUE]
  /\ UNCHANGED <<page, path, splash, overlay, flags, layer, shared>>

\* The finger leaves between two rows, or exactly on one: the reel then does
\* not move any more and never comes to rest.
DropReel ==
  /\ page = "play" /\ reel.dragging
  /\ \E i \in DOMAIN Banks :
       /\ i - reel.pos \in -1 .. 1
       /\ reel' = [reel EXCEPT !.target = i, !.dragging = FALSE, !.armed = TRUE]
  /\ UNCHANGED <<page, path, splash, overlay, flags, layer, shared>>

TapReel ==
  /\ page = "play" /\ Touchable /\ ~reel.dragging
  /\ \E i \in DOMAIN Banks : reel' = [reel EXCEPT !.target = i, !.armed = TRUE]
  /\ UNCHANGED <<page, path, splash, overlay, flags, layer, shared>>

\* Settle::step(): a row nearer, and at rest in the frame that reaches the
\* target.  Then the bank under the mark is loaded, unless it is the one.
GlideReel ==
  /\ page = "play" /\ ~reel.dragging /\ reel.pos # reel.target
  /\ LET p == reel.pos + IF reel.target > reel.pos THEN 1 ELSE -1
         rest == p = reel.target
         want == Banks[p]
     IN  /\ reel' = [reel EXCEPT !.pos = p, !.armed = @ /\ ~rest]
         /\ IF rest /\ reel.armed /\ want # path
            THEN path' = want /\ Request(want)
            ELSE UNCHANGED <<path, flags, shared>>
  /\ UNCHANGED <<page, splash, overlay, layer>>

\* The bank list and its RELOAD button; a new list shows the reel at the bank.
PickBank ==
  /\ page = "bank" /\ Touchable /\ ~reel.dragging
  /\ \E i \in DOMAIN Banks :
       /\ path' = Banks[i] /\ Request(Banks[i])
       /\ reel' = [reel EXCEPT !.pos = i, !.target = i]
  /\ UNCHANGED <<page, splash, overlay, layer>>

PickReload ==
  /\ page = "bank" /\ Touchable /\ ~reel.dragging /\ path # None
  /\ Request(path)
  /\ UNCHANGED <<page, path, reel, splash, overlay, layer>>

TurnLayer ==
  /\ page = "reso" /\ Touchable /\ ~reel.dragging
  /\ layer' = "user"
  /\ UNCHANGED <<gui, shared>>

PickTab ==
  /\ Touchable /\ ~reel.dragging
  /\ page' \in {"play", "bank", "reso"} \ {page}
  /\ UNCHANGED <<path, reel, splash, overlay, flags, layer, shared>>

\* CONTINUE under the licence warning.
Acknowledge ==
  /\ overlay.a > 0 /\ flags.unlicensed
  /\ flags' = [flags EXCEPT !.unlicensed = FALSE]
  /\ UNCHANGED <<page, path, reel, splash, overlay, layer, shared>>

NoGesture == ~(page = "play" /\ ~reel.dragging /\ reel.pos # reel.target)
             /\ UNCHANGED <<gui, layer, shared>>

\* The part of a frame that handles input and draws the pages.
RunPages ==
  /\ pc = "input" /\ pc' = "poll"
  /\ \/ DragReel \/ DropReel \/ TapReel \/ GlideReel \/ PickBank \/ PickReload
     \/ TurnLayer \/ PickTab \/ Acknowledge \/ NoGesture
  /\ UNCHANGED <<prevLayer, layerAge, asked, open>>

----------------------------------------------------------------------------
(* The rest of a frame.                                                    *)

\* pollReloadCompletion(), first half: take the mark and the flags.
Poll ==
  /\ pc = "poll"
  /\ IF donePending
     THEN donePending' = FALSE /\ flags' = progress /\ pc' = "told"
     ELSE pc' = "tail" /\ UNCHANGED <<donePending, flags>>
  /\ UNCHANGED <<page, path, reel, splash, overlay, layers, inProgress, ok, dir,
                 progress, thread, bank, open>>

\* Second half: after a good load a layer still at its default moves to a
\* third of the range of the bank.
Report ==
  /\ pc = "told" /\ pc' = "tail"
  /\ layer' = IF ok /\ layer = "default" THEN "third" ELSE layer
  /\ UNCHANGED <<gui, prevLayer, layerAge, asked, shared, open>>

Busy == inProgress

\* The overlay: at once for the licence, after a while for a load; it fades
\* out over a few frames.  The opening screen ends when nothing is loading.
Overlay ==
  LET t    == IF Busy THEN (IF overlay.t < OverlayWait THEN overlay.t + 1 ELSE OverlayWait)
              ELSE 0
      show == flags.unlicensed \/ (Busy /\ t = OverlayWait)
  IN  IF splash
      THEN splash' \in {TRUE, Busy} /\ UNCHANGED overlay
      ELSE /\ UNCHANGED splash
           /\ \E a \in IF show THEN {FadeFrames} ELSE {0} \cup 0 .. overlay.a - 1 :
                overlay' = [t |-> t, a |-> a]

\* Debouncer::retouch() and expired(): from the last change on.
LayerDebounce ==
  LET changed == layer # prevLayer
      age == IF changed THEN 0 ELSE IF layerAge = None THEN None ELSE layerAge + 1
      due == age # None /\ age > LayerWait
  IN  /\ prevLayer' = layer
      /\ layerAge' = IF due THEN None ELSE age
      /\ asked' = IF due THEN layer ELSE asked

EndFrame ==
  /\ pc = "tail" /\ pc' \in {"input", "quit"}
  /\ Overlay /\ LayerDebounce
  /\ UNCHANGED <<page, path, reel, flags, layer, shared, open>>

\* shutdown(): wait for the reload thread, then MIDI, then audio.
JoinReload ==
  /\ pc = "quit" /\ thread \in {"none", "over"}
  /\ thread' = "none" /\ pc' = "close"
  /\ UNCHANGED <<gui, layers, inProgress, donePending, ok, dir, progress, bank, open>>

CloseDevices ==
  /\ pc = "close"
  /\ IF "midi" \in open THEN open' = open \ {"midi"} /\ pc' = "close"
     ELSE open' = {} /\ pc' = "gone"
  /\ UNCHANGED <<gui, layers, shared>>

----------------------------------------------------------------------------
Init ==
  /\ pc = "boot" /\ page = "play"
  /\ path \in Dirs \cup {None}
  /\ reel = [pos |-> 1, target |-> 1, dragging |-> FALSE, armed |-> FALSE]
  /\ splash = TRUE /\ overlay = [t |-> 0, a |-> 0]
  /\ flags = Nothing
  /\ layer \in {"default", "user"} /\ prevLayer = layer /\ layerAge = None /\ asked = layer
  /\ inProgress = FALSE /\ donePending = FALSE /\ ok = FALSE
  /\ dir = None /\ progress = Nothing /\ thread = "none"
  /\ bank = None /\ open = {}

Thread == LoadBank \/ StoreOk \/ TellDone \/ ClearProgress
Frame  == Boot \/ RunPages \/ Poll \/ Report \/ EndFrame \/ JoinReload \/ CloseDevices
Next   == Thread \/ Frame

\* Both threads are always scheduled.
Fairness == WF_vars(Thread) /\ WF_vars(Frame)

Spec == Init /\ [][Next]_vars /\ Fairness

----------------------------------------------------------------------------
(* Properties.                                                             *)

\* Once nothing is loading and nothing is left to report, the panel shows what
\* became of the last load, whatever was requested between the end of the load
\* and the frame that reports it: the mark of an incomplete bank is right, the
\* licence warning belongs to this bank, a good bank has moved the layer off
\* its default, and once the layer rests the cache was asked for with it.
ReportsLast ==
  pc = "input" /\ dir # None /\ ~inProgress /\ ~donePending =>
    /\ flags.cut = (OutcomeOf[dir] = "cut")
    /\ flags.unlicensed => OutcomeOf[dir] = "unlicensed"
    /\ Good(dir) => layer # "default"
    /\ layerAge = None /\ layer = prevLayer => asked = layer

\* The overlay does not lock the panel for good: it goes away when the load
\* ends, even one that failed, or it waits for the user to confirm the licence.
PanelFrees == overlay.a > 0 ~> (overlay.a = 0 \/ flags.unlicensed \/ pc = "gone")
=============================================================================
