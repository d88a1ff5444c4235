------------------------------ MODULE MCProgress ------------------------------
(***************************************************************************)
(* The parts of the program that must get somewhere, each a small instance *)
(* of its module: the MIDI queue, a main voice, a resonance voice, and the *)
(* panel with its reload thread.  They share nothing here, so a behaviour  *)
(* works one of them, its lane, and leaves the others as they are.  A      *)
(* variable whose name two modules use has a prefix.                       *)
(***************************************************************************)
EXTENDS MidiQueue, Voices

VARIABLES
  lane,
  gPc, page, path, reel, splash, overlay, flags, layer, prevLayer, layerAge,
  asked, inProgress, donePending, ok, dir, progress, thread, bank, open

voiceVars == <<vActive, vPos, vInc, head, vRd, onset, rel, vUnder, tail, vBlock>>
resoVars == <<rActive, source, rPos, rInc, rRd, gain, target, left, fading,
              rUnder, rBlock>>
panelVars == <<gPc, page, path, reel, splash, overlay, flags, layer, prevLayer,
               layerAge, asked, inProgress, donePending, ok, dir, progress,
               thread, bank, open>>
allVars == <<lane, vars, voiceVars, resoVars, panelVars>>

----------------------------------------------------------------------------
Screen == INSTANCE Panel
  WITH Banks <- <<"u">>, OutcomeOf <- [d \in {"u"} |-> "unlicensed"],
       OverlayWait <- 1, FadeFrames <- 2, LayerWait <- 1, pc <- gPc

----------------------------------------------------------------------------
\* A lane that is not worked starts in one of its initial states only.
Pinned ==
  /\ IF lane = "voice" THEN TRUE ELSE vInc = 1
  /\ IF lane = "reso" THEN TRUE ELSE rInc = 1
  /\ IF lane = "panel" THEN TRUE ELSE path = None /\ layer = "user"

ProgressInit ==
  /\ lane \in {"midi", "voice", "reso", "panel"}
  /\ Pinned
  /\ Init /\ Main!Init /\ Reso!Init /\ Screen!Init

\* Only lane l is worked.
Only(l) ==
  /\ lane = l /\ UNCHANGED lane
  /\ IF l = "midi" THEN TRUE ELSE UNCHANGED vars
  /\ IF l = "voice" THEN TRUE ELSE UNCHANGED voiceVars
  /\ IF l = "reso" THEN TRUE ELSE UNCHANGED resoVars
  /\ IF l = "panel" THEN TRUE ELSE UNCHANGED panelVars

ProgressNext ==
  \/ Only("midi") /\ Next
  \/ Only("voice") /\ Main!Next
  \/ Only("reso") /\ Reso!Next
  \/ Only("panel") /\ Screen!Next

\* What the modules assume.  In its initial state a part has nothing to do,
\* so that its fairness asks nothing of a behaviour that does not work it;
\* only the panel has.
ProgressFairness ==
  /\ Fairness /\ Main!Fairness /\ Reso!Fairness
  /\ WF_panelVars(lane = "panel" /\ Screen!Thread)
  /\ WF_panelVars(lane = "panel" /\ Screen!Frame)

ProgressSpec == ProgressInit /\ [][ProgressNext]_allVars /\ ProgressFairness

----------------------------------------------------------------------------
(* The properties of MidiQueue and Voices are stated there.                *)

\* Panel: the overlay does not stay for good.
PanelFrees == Screen!PanelFrees
=============================================================================
