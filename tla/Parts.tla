--------------------------------- MODULE Parts ---------------------------------
(***************************************************************************)
(* The parts of the program whose promises are about every single step,    *)
(* side by side: threads that hand each other data without a lock          *)
(* (response, log), the way of a bank from its directory into memory       *)
(* (bank) and of a sample from its file (disk), the settings, the panel    *)
(* with its reload thread, the MIDI ports, and the pace of frames.  Each   *)
(* is an instance of its module, and they share nothing.                   *)
(*                                                                         *)
(* This module names their constants and variables apart, states what is   *)
(* assumed of the constants, and names the properties; MCParts             *)
(* model-checks it, PartsProofs and PanelProofs prove about it.            *)
(***************************************************************************)
EXTENDS Integers, Sequences

CONSTANTS
  None,
  Choices, Knobs, Rates, Preempted,                    \* response
  RT_BUFFER_SIZE, Batch, kCapacity, MaxCalls, MaxTalk, \* log
  Samples, Directories, MaxFiles, RamBudgets, Preload, Window, Layers, Workers, \* bank
  Chunks, Sizes, FrameBytes, MaxCount,                 \* disk
  Texts, OldFiles, Tabs, ParamPages, Decimals, Delay, MaxEdits, MaxStarts, \* settings
  Banks, OutcomeOf, OverlayWait, FadeFrames, LayerWait,          \* panel
  Devices, Within, Channels,                           \* ports
  Fast, Slow, TouchHold, IdleHold, SaverWait, OverHold, UnderHold,
  Budgets, Wants, Hitch                                \* pace

VARIABLES
  ir, active, seen, choice, knob, base, rate, enabled, gui, tmp, running,
  block, use,
  cells, wIdx, rIdx, dropped, calls, rt, mutex, flush, lpos, limit, pending,
  talk, talked, file, told, buf, head, size,
  bDir, files, bBudget, bLayer, phase, next, task, approx, prepared, notes,
  total, truncated, licence, buffer,
  wav, peeked, off, frames,
  st, stage, shown, last, since, at, final, json, jsonTmp, edits, starts, kept,
  saved, failed, unsaved,
  gPc, page, path, reel, splash, overlay, flags, layer, prevLayer, layerAge,
  asked, inProgress, donePending, ok, dir, progress, thread, bank, open,
  ports, listed, opened, engine, mask, pShown, wanted, pGui, pick, rx, down,
  held, lost, swapped,
  touchAge, chrome, quiet, applied, budget, want, cur, ema, over, under, late,
  calm, dear, cheap

Response == INSTANCE Convolver
Lines == INSTANCE LogRing WITH pos <- lpos
Loader == INSTANCE BankLoader
  WITH Budgets <- RamBudgets, dir <- bDir, budget <- bBudget, layer <- bLayer
Disk == INSTANCE SampleFile WITH file <- wav, heard <- frames
Saver == INSTANCE Settings
  WITH Files <- OldFiles, file <- json, tmp <- jsonTmp, base <- saved
Screen == INSTANCE Panel WITH pc <- gPc
Ports == INSTANCE MidiInput WITH shown <- pShown, gui <- pGui
Pace == INSTANCE FramePace

----------------------------------------------------------------------------
(* What is assumed of the constants.                                       *)

\* Lengths of the ring and of the log page's buffer; a remainder of them is
\* taken.
ASSUME LogAssumption ==
  RT_BUFFER_SIZE \in Nat \ {0} /\ kCapacity \in Nat \ {0}

\* Loudness, in steps above silence, lengths and sizes; none of them, and no
\* task of a worker, is mistaken for none.
ASSUME BankAssumption ==
  /\ \A s \in Samples : s.rms \in Nat /\ s.frames \in Nat
  /\ Layers \cup RamBudgets \cup {MaxFiles, Preload} \subseteq Nat
  /\ None \notin Nat /\ None \notin [file : Nat, at : {"weigh", "read"}]

\* A frame has a byte (2 * channels * width).
ASSUME DiskAssumption == Sizes \subseteq Nat /\ FrameBytes \in Nat \ {0}

\* A point in time, a number or a set of channels is not mistaken for none; an
\* older file has behind a key what belongs there, or what nobody can read.
\* The limits of a number are written with few digits (Param tables, kWaveGlowMax).
ASSUME SaverAssumption ==
  /\ None \notin Int /\ None \notin BOOLEAN
  /\ \A m \in SUBSET Saver!MidiChannels : m # None
  /\ {Delay, Tabs, ParamPages} \subseteq Nat
  /\ Decimals \subseteq Int /\ {0, Saver!KnobMax, Saver!GlowMax} \subseteq Decimals
  /\ Texts \subseteq Seq(Saver!Characters) /\ \A f \in OldFiles : Saver!Legible(f)

\* The directories on PLAY; none of them, and no age, is mistaken for none.
ASSUME ScreenAssumption ==
  /\ None \notin Nat /\ None \notin Screen!Dirs
  /\ LayerWait \in Nat /\ Banks \in Seq(Screen!Dirs)

\* What the MIDI callback may be given.
Messages == [at : {"enter", "send"}, kind : {"on", "off", "on_0", "all_off"},
             ch : Channels]
ASSUME PortsAssumption == None \notin Devices /\ None \notin Messages

\* Times, 0.5 s of a touch not being none of them; the screen saver waits for
\* longer than the panel takes to rest (pace.h:28, screen.cpp:478).
ASSUME PaceAssumption ==
  /\ {Fast, Slow, Hitch, IdleHold, SaverWait, OverHold, UnderHold} \subseteq Nat
  /\ TouchHold \in Nat \ {0} /\ IdleHold <= SaverWait
  /\ Budgets \subseteq Nat /\ Wants \subseteq Nat

----------------------------------------------------------------------------
(* The properties of the modules, where they are stated in full.           *)

\* Convolver: no block reads the slot the GUI thread writes.
SlotAlone == Response!SlotAlone
\* Convolver: what sounds is what panel and device ask for.
InForce == Response!InForce
\* LogRing: every line of the audio thread is written, waiting or counted, and
\* the log page shows the latest.
LinesAccounted == Lines!LinesAccounted /\ Lines!ShowsLatest
\* BankLoader: a bank that calls itself complete is, however workers interleave.
BankComplete == Loader!BankComplete
\* BankLoader: a key struck harder never plays a quieter sample, and the layer
\* nearest to the loudness asked for is the one that resonates.
LouderIsLouder == Loader!LouderIsLouder /\ Loader!OneBuffer
\* SampleFile: ranges join, and a peek announces what can be read.
RangesJoin == Disk!RangesJoin
\* Settings: a start finds what the last completed save held.
SettingsKept == Saver!SettingsKept
\* Settings: a change is saved in time, however many follow it.
ChangeSaved == Saver!ChangeSaved
\* Panel: at rest it shows what became of the last load.
ReportsLast == Screen!ReportsLast
\* MidiInput: a note hangs only if its release could not arrive, and the panel
\* names the port that plays.
NotesEnd == Ports!NotesEnd /\ Ports!RightPort
\* FramePace: the panel is slow only when it rests.
NeverLazy == Pace!NeverLazy
\* FramePace: the glow changes only after an unbroken stretch, within its limits.
SteadyGlow == Pace!SteadyGlow
=============================================================================
