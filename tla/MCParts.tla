-------------------------------- MODULE MCParts --------------------------------
(***************************************************************************)
(* Model checking of Parts.  They share nothing, so a behaviour works one  *)
(* of them, its lane, and leaves the others as they are.                   *)
(***************************************************************************)
EXTENDS Parts

VARIABLE lane

responseVars == <<ir, active, seen, choice, knob, base, rate, enabled, gui, tmp,
                  running, block, use>>
logVars == <<cells, wIdx, rIdx, dropped, calls, rt, mutex, flush, lpos, limit,
             pending, talk, talked, file, told, buf, head, size>>
bankVars == <<bDir, files, bBudget, bLayer, phase, next, task, approx, prepared,
              notes, total, truncated, licence, buffer>>
fileVars == <<wav, peeked, off, frames>>
settingsVars == <<st, stage, shown, last, since, at, final, json, jsonTmp, edits,
                  starts, kept, saved, failed, unsaved>>
panelVars == <<gPc, page, path, reel, splash, overlay, flags, layer, prevLayer,
               layerAge, asked, inProgress, donePending, ok, dir, progress,
               thread, bank, open>>
portVars == <<ports, listed, opened, engine, mask, pShown, wanted, pGui, pick,
              rx, down, held, lost, swapped>>
paceVars == <<touchAge, chrome, quiet, applied, budget, want, cur, ema, over,
              under, late, calm, dear, cheap>>
vars == <<lane, responseVars, logVars, bankVars, fileVars, settingsVars,
          panelVars, portVars, paceVars>>

----------------------------------------------------------------------------
(* Values of the constants. *)

MCChunks == {<<>>, <<"fmt", "data">>, <<"other", "fmt", "data">>,
             <<"data", "fmt">>, <<"fmt", "other">>}
MCTexts == {<<"b", "n", "c", "q">>}

\* A file of a version nobody reads, one of the time of the single channel,
\* and one that somebody has edited.
MCOldFiles ==
  {[k \in {} |-> None], [schema_version |-> 2],
   [schema_version |-> 4, bank_path |-> <<"a", "b", "b", "q">>,
    midi_channel |-> 1, agc_target |-> 1, agc_enabled |-> TRUE],
   [schema_version |-> 3, agc_target |-> None, agc_enabled |-> None],
   [k \in {"schema_version", "audio_block_size", "midi_channel_mask", "window_w",
           "config_page", "dsp.value", "dsp.choice"} |->
      CASE k = "midi_channel_mask" -> None [] k = "window_w" -> 0
        [] k = "dsp.value" -> 4 [] OTHER -> 7]}

MCBanks == <<"c", "u">>
MCOutcomeOf == [d \in {"c", "u"} |-> IF d = "c" THEN "cut" ELSE "unlicensed"]
MCWithin == {<<"a", "a">>, <<"b", "b">>, <<"a", "b">>}

SampleOf(m, n, rms, is) == [midi |-> m, frames |-> n, rms |-> rms, is |-> is]
Found(p, fo, fi, ex) == [packed |-> p, folders |-> fo, fixed |-> fi, extended |-> ex]

\* With a preload of one frame: a streamed sample with a head of one frame and
\* two that are kept whole, one of them with a head of two.
Streamed == SampleOf(60, 3, 2, "whole")
Heavy    == SampleOf(60, 2, 1, "whole")
Light    == SampleOf(60, 1, 1, "whole")
MCSamples == {Streamed, Heavy, Light, SampleOf(64, 2, 1, "short"),
              SampleOf(64, 3, 1, "bad"), SampleOf(64, 3, 1, "headerless")}
MCDirectories == {Found("ok", FALSE, 3, 0), Found("unlicensed", TRUE, 3, 0),
                  Found("none", TRUE, 0, 0), Found("none", FALSE, 1, 2)}

\* Scans of any three files; longer ones of two kinds in folders, the longest,
\* whose heads are more than twice a budget, when there is one.
AnyScan == 3
Scans ==
  Len(files) > AnyScan =>
    /\ bDir = Found("none", TRUE, 0, 0)
    /\ \A i \in DOMAIN files : files[i] \in {Streamed, Heavy}
    /\ Len(files) = MaxFiles => bBudget > 0

----------------------------------------------------------------------------
\* A lane that is not worked starts in one of its initial states only.
Pinned ==
  /\ IF lane = "response" THEN TRUE ELSE choice = 0 /\ knob = 0 /\ rate = 48
  /\ IF lane = "bank" THEN TRUE
     ELSE bDir = Found("none", TRUE, 0, 0) /\ bBudget = 0 /\ files = <<Light>>
  /\ IF lane = "file" THEN TRUE
     ELSE wav = [kind |-> "wav", chunks |-> <<>>, promised |-> 0, present |-> 0]
  /\ IF lane = "settings" THEN TRUE ELSE json = Saver!NoFile
  /\ IF lane = "panel" THEN TRUE ELSE path = None /\ layer = "user"
  /\ IF lane = "ports" THEN TRUE
     ELSE ports = <<>> /\ pShown = None /\ wanted = {}
  /\ IF lane = "pace" THEN TRUE ELSE budget = 0 /\ want = 0

Init ==
  /\ lane \in {"response", "log", "bank", "file", "settings", "panel",
              "ports", "pace"}
  /\ Pinned
  /\ Response!Init /\ Lines!Init /\ Loader!Init /\ Scans /\ Disk!Init /\ Saver!Init
  /\ Screen!Init /\ Ports!Init /\ Pace!Init

\* Only lane l is worked.
Only(l) ==
  /\ lane = l /\ UNCHANGED lane
  /\ IF l = "response" THEN TRUE ELSE UNCHANGED responseVars
  /\ IF l = "log" THEN TRUE ELSE UNCHANGED logVars
  /\ IF l = "bank" THEN TRUE ELSE UNCHANGED bankVars
  /\ IF l = "file" THEN TRUE ELSE UNCHANGED fileVars
  /\ IF l = "settings" THEN TRUE ELSE UNCHANGED settingsVars
  /\ IF l = "panel" THEN TRUE ELSE UNCHANGED panelVars
  /\ IF l = "ports" THEN TRUE ELSE UNCHANGED portVars
  /\ IF l = "pace" THEN TRUE ELSE UNCHANGED paceVars

Next ==
  \/ Only("response") /\ Response!Next
  \/ Only("log") /\ Lines!Next
  \/ Only("bank") /\ Loader!Next
  \/ Only("file") /\ Disk!Next
  \/ Only("settings") /\ Saver!Next
  \/ Only("panel") /\ Screen!Next
  \/ Only("ports") /\ Ports!Next
  \/ Only("pace") /\ Pace!Next

Spec == Init /\ [][Next]_vars
=============================================================================
