------------------------------- MODULE Settings -------------------------------
(***************************************************************************)
(* The settings of the panel: what is loaded from state.json at the start, *)
(* what the pages change, the frame that notices a change and saves it a   *)
(* second later, and the save itself (temporary file, flush, rename), which *)
(* may fail half way and which a crash may cut at any step.                *)
(*                                                                         *)
(* A file is a function from keys to what stands behind them: a number, a  *)
(* number nobody can read (None), or the characters of a text up to and   *)
(* with its closing quote.  Of the thirty fields those are kept that the   *)
(* code treats differently: a text, a clamped number, the channel mask     *)
(* with its older form, the window, the page, and one stage of the DSP     *)
(* chain under its two prefixes.  A number with a fraction is written with *)
(* six significant digits, whatever it is in memory.                       *)
(***************************************************************************)
EXTENDS Integers, Sequences, FiniteSets

CONSTANTS
  Texts,        \* bank paths, as sequences of characters
  Files,        \* the files an earlier version or a text editor may leave
  Tabs,         \* pages of the panel: 0 .. Tabs - 1
  ParamPages,   \* those of them with parameters: 0 .. ParamPages - 1
  Decimals,     \* the numbers that six significant digits can name
  Delay,        \* frames a change waits before it is saved
  MaxEdits, MaxStarts,
  None

VARIABLES
  st,           \* GuiState of the running program
  stage,        \* the DSP stage the pages write to
  shown,        \* PanelState::page
  last, since,  \* last_saved and save_db of main()
  at,           \* "off", "frame", or a step of saveState()
  final,        \* the save under way is the one before the exit
  file, tmp,    \* state.json and state.json.tmp (without keys: not there)
  edits, starts,
  kept,         \* the state the last completed save put into state.json
  base,         \* that state, or the one this run started with
  failed,       \* a save has failed since
  unsaved       \* frames for which st has differed from base

memory == <<st, stage, shown, last, since, final>>
disk   == <<file, tmp, kept>>
ghosts == <<base, failed, unsaved>>
vars   == <<memory, at, disk, edits, starts, ghosts>>

Least(a, b) == IF a < b THEN a ELSE b
Clamp(v, lo, hi) == IF v < lo THEN lo ELSE Least(v, hi)
BlockMin == 2
BlockMax == 3
KnobMax  == 3
GlowMax  == 3
StageChoices == 2
MidiChannels == 0 .. 1

Factory == [enabled |-> FALSE, choice |-> 0, value |-> 0]
Blank   == [enabled |-> FALSE, choice |-> -1, value |-> None]

Defaults ==
  [bank |-> <<>>, mask |-> MidiChannels, block |-> 2, page |-> 0, glow |-> 0,
   window |-> 1, dsp |-> Blank, defaults |-> Blank]

----------------------------------------------------------------------------
(* Texts.  "q" is a quote, "b" a backslash, "l" a line feed, "c" another  *)
(* control character, "H" four hexadecimal digits, "a" what is none of     *)
(* these and neither "n" nor "u".                                          *)

Characters == {"q", "b", "l", "c", "H", "n", "u", "a"}

\* jsonEscape()
Escaped(c) ==
  CASE c = "q" -> <<"b", "q">>
    [] c = "b" -> <<"b", "b">>
    [] c = "l" -> <<"b", "n">>
    [] c = "c" -> <<"b", "u", "H">>
    [] OTHER   -> <<c>>

EscapedTo(text) ==
  LET f[i \in 0 .. Len(text)] ==
        IF i = 0 THEN <<>> ELSE f[i - 1] \o Escaped(text[i])
  IN  f
Escape(text) == EscapedTo(text)[Len(text)]

\* decodeEscape(): what the characters after a backslash stand for, and how
\* many they are.
Unescaped(j, i) ==
  CASE j[i] = "n" -> <<<<"l">>, 1>>
    [] j[i] = "u" /\ i < Len(j) /\ j[i + 1] = "H" -> <<<<"c">>, 2>>
    [] OTHER      -> <<<<j[i]>>, 1>>

\* parseFlatJson(), the value of a text: up to the first quote that no
\* backslash precedes.
DecodedFrom(j) ==
  LET f[i \in 1 .. Len(j) + 3] ==
        IF i > Len(j) \/ j[i] = "q" THEN <<>>
        ELSE IF j[i] = "b" /\ i < Len(j)
          THEN LET u == Unescaped(j, i + 1) IN u[1] \o f[i + 1 + u[2]]
          ELSE <<j[i]>> \o f[i + 1]
  IN  f
Decode(j) == DecodedFrom(j)[1]

----------------------------------------------------------------------------
(* loadState() and saveState().                                            *)

\* What << makes of a number in memory: the nearest its digits can name.  Such
\* a number stof() reads back as it is.
Far(a, b) == IF a < b THEN b - a ELSE a - b
Decimal(v) == CHOOSE d \in Decimals : \A e \in Decimals : Far(d, v) <= Far(e, v)

\* readI(), readF(): a key that is missing or damaged gives the default.
Read(kv, k, default) ==
  IF k \in DOMAIN kv /\ kv[k] # None THEN kv[k] ELSE default

\* readB(): one that is damaged is FALSE.
ReadB(kv, k, default) == IF k \in DOMAIN kv THEN kv[k] = TRUE ELSE default

\* sanitizeGlow()
Sane(glow) == Clamp(glow, 0, GlowMax)

\* The channel mask, or the single channel of older files (-1: all).
MaskOf(kv) ==
  LET mask == Read(kv, "midi_channel_mask", None)
      one  == Read(kv, "midi_channel", -1)
  IN  IF mask # None THEN mask
      ELSE IF one \in MidiChannels THEN {one} ELSE MidiChannels

\* The keys of a stage under its two prefixes.
DspKeys ==
  [enabled |-> "dsp.enabled", choice |-> "dsp.choice", value |-> "dsp.value"]
DefaultsKeys ==
  [enabled |-> "defaults.enabled", choice |-> "defaults.choice",
   value |-> "defaults.value"]

\* readSection(): every field that stands under the prefix.
Section(kv, keys) ==
  [enabled |-> ReadB(kv, keys.enabled, FALSE),
   choice  |-> Read(kv, keys.choice, -1),
   value   |-> Read(kv, keys.value, None)]

\* Files before version 5 hold the parameters of a stage under keys of their own.
Migrated(kv, dsp) ==
  [dsp EXCEPT !.value   = Read(kv, "agc_target", @),
              !.enabled = ReadB(kv, "agc_enabled", @)]

Loadable(kv) ==
  "schema_version" \in DOMAIN kv /\ kv["schema_version"] \in 3 .. 7

\* loadState()
Load(kv) ==
  LET dsp == Section(kv, DspKeys)
  IN  [bank     |-> IF "bank_path" \in DOMAIN kv THEN Decode(kv["bank_path"]) ELSE <<>>,
       mask     |-> MaskOf(kv),
       block    |-> Read(kv, "audio_block_size", Defaults.block),
       page     |-> Read(kv, "config_page", Defaults.page),
       glow     |-> Sane(Read(kv, "wave_glow", Defaults.glow)),
       window   |-> LET w == Read(kv, "window_w", 1) IN IF w < 1 THEN 1 ELSE w,
       dsp      |-> IF kv["schema_version"] < 5 THEN Migrated(kv, dsp) ELSE dsp,
       defaults |-> Section(kv, DefaultsKeys)]

\* writeSection(): a stage without a selector has no choice to write.
SectionKeys(keys, s) ==
  {keys.enabled}
    \cup (IF s.choice >= 0 THEN {keys.choice} ELSE {})
    \cup (IF s.value # None THEN {keys.value} ELSE {})

\* The file saveState() writes.
Saved(s) ==
  [k \in {"schema_version", "bank_path", "midi_channel_mask", "audio_block_size",
          "config_page", "wave_glow", "window_w"}
         \cup SectionKeys(DspKeys, s.dsp) \cup SectionKeys(DefaultsKeys, s.defaults) |->
    CASE k = "schema_version"    -> 7
      [] k = "bank_path"         -> Escape(s.bank) \o <<"q">>
      [] k = "midi_channel_mask" -> s.mask
      [] k = "audio_block_size"  -> s.block
      [] k = "config_page"       -> s.page
      [] k = "wave_glow"         -> Decimal(s.glow)
      [] k = "window_w"          -> s.window
      [] k = "dsp.enabled"       -> s.dsp.enabled
      [] k = "dsp.choice"        -> s.dsp.choice
      [] k = "dsp.value"         -> Decimal(s.dsp.value)
      [] k = "defaults.enabled"  -> s.defaults.enabled
      [] k = "defaults.choice"   -> s.defaults.choice
      [] k = "defaults.value"    -> Decimal(s.defaults.value)]

NoFile == [k \in {} |-> None]

\* What a full disk leaves of it: only the first keys.
Cut(kv) == [k \in DOMAIN kv \cap {"schema_version", "bank_path"} |-> kv[k]]

\* What may stand behind a key that can be read (a selector below 0 says no
\* more than none and is left out; all widths of a window in use are 1).
ValueOf(k) ==
  CASE k = "bank_path"         -> Seq(Characters)
    [] k = "midi_channel_mask" -> SUBSET MidiChannels
    [] k \in {DspKeys.enabled, DefaultsKeys.enabled, "agc_enabled"} -> BOOLEAN
    [] k \in {DspKeys.choice, DefaultsKeys.choice} -> Nat
    [] k = "window_w"          -> {w \in Int : w < 2}
    [] OTHER                   -> Int
Legible(kv) ==
  \A k \in DOMAIN kv : (kv[k] = None /\ k # "bank_path") \/ kv[k] \in ValueOf(k)

----------------------------------------------------------------------------
(* The stage and the state.                                                *)

\* applyToPage(): the parameters, clamped by set(); then the selector, if it
\* is one the stage has; then on or off.
Apply(s, page) ==
  [enabled |-> s.enabled,
   choice  |-> IF s.choice \in 0 .. StageChoices - 1 THEN s.choice ELSE page.choice,
   value   |-> IF s.value = None THEN page.value ELSE Clamp(s.value, 0, KnobMax)]

\* engineConfigFromState(): what the engine will run with goes back into st.
Validated(s) == [s EXCEPT !.block = Clamp(@, BlockMin, BlockMax)]

\* main(): a page that is not one of the parameter pages is forgotten.
PageChecked(s) == IF s.page \in 0 .. ParamPages - 1 THEN s ELSE [s EXCEPT !.page = 0]

\* The options of the command line replace what was loaded.
Override(s, glow) == IF glow = None THEN s ELSE [s EXCEPT !.glow = Sane(glow)]

\* main() up to its loop: loadState(), the command line, initFromState().
Start ==
  /\ at = "off" /\ starts < MaxStarts
  /\ \E glow \in {None, GlowMax - 1, GlowMax + 1} :
       LET loaded == IF Loadable(file) THEN Load(file) ELSE Defaults
           s      == Validated(Override(loaded, glow))
       IN  /\ edits < MaxEdits \/ glow = None
           /\ edits' = IF glow = None THEN edits ELSE edits + 1
           /\ stage' = IF loaded.dsp = Blank THEN Factory ELSE Apply(s.dsp, Factory)
           /\ shown' = IF s.page \in 0 .. Tabs - 1 THEN s.page ELSE 0
           /\ last' = s /\ base' = s
           /\ st' = PageChecked(s)
  /\ since' = None /\ final' = FALSE /\ at' = "frame"
  /\ starts' = starts + 1
  /\ failed' = FALSE /\ unsaved' = 0
  /\ UNCHANGED disk

\* renderScreen(): another tab.
PickTab ==
  /\ \E p \in (0 .. Tabs - 1) \ {shown} :
       shown' = p /\ st' = [st EXCEPT !.page = p]
  /\ UNCHANGED stage

\* pagePlay(), pageBank(), pageSys(): the bank, the channels, the buffer.
PickSetting ==
  /\ \/ \E text \in Texts \ {st.bank} : st' = [st EXCEPT !.bank = text]
     \/ \E c \in MidiChannels : st' = [st EXCEPT !.mask = (@ \ {c}) \cup ({c} \ @)]
     \/ \E n \in {BlockMin, BlockMax} \ {st.block} : st' = [st EXCEPT !.block = n]
  /\ UNCHANGED <<stage, shown>>

\* A page of the DSP writes to its stage, not to the state.
TurnKnob ==
  /\ \/ \E v \in 0 .. KnobMax : stage' = [stage EXCEPT !.value = v]
     \/ stage' = [stage EXCEPT !.enabled = ~@]
     \/ \E c \in 0 .. StageChoices - 1 : stage' = [stage EXCEPT !.choice = c]
  /\ stage' # stage
  /\ UNCHANGED <<st, shown>>

\* SET CURRENT AS USER PROFILE
SetUserProfile ==
  st' = [st EXCEPT !.defaults = stage] /\ UNCHANGED <<stage, shown>>

\* RESET TO FACTORY PROFILE: the parameters of the stage, not its switch.
ResetToFactory ==
  /\ stage' = [stage EXCEPT !.value = 0]
  /\ st' = [st EXCEPT !.defaults = stage']
  /\ UNCHANGED shown

\* The window is minimised (its width is then 0) or comes back.
MoveWindow ==
  st' = [st EXCEPT !.window = 1 - @] /\ UNCHANGED <<stage, shown>>

Edit ==
  /\ at = "frame" /\ edits < MaxEdits
  /\ PickTab \/ PickSetting \/ TurnKnob \/ SetUserProfile \/ ResetToFactory
       \/ MoveWindow
  /\ edits' = edits + 1
  /\ UNCHANGED <<last, since, final, at, disk, starts, ghosts>>

\* dspStateFromChain()
Mirrored == [st EXCEPT !.dsp = stage]

\* The window moves all the time and does not count as a change.
Differs(a, b) == [a EXCEPT !.window = 0] # [b EXCEPT !.window = 0]

\* Debouncer that starts anew with every frame that sees a change.
TouchedAnew(changed) ==
  IF changed THEN 0 ELSE IF since # None THEN since + 1 ELSE None

\* Debouncer: the time of the first change, kept until the delay is over.
Touched(changed) ==
  IF since # None THEN since + 1 ELSE IF changed THEN 0 ELSE None

\* The frame after the pages: mirror the stage, compare, and save when it is time.
EndFrame ==
  /\ at = "frame"
  /\ LET s   == Mirrored
         age == Touched(Differs(s, last))
         due == age # None /\ age > Delay
     IN  /\ st' = s
         /\ last' = IF due THEN s ELSE [last EXCEPT !.window = s.window]
         /\ since' = IF due THEN None ELSE age
         /\ at' = IF due THEN "open" ELSE "frame"
         /\ unsaved' = IF ~Differs(s, base) THEN 0 ELSE Least(unsaved + 1, Delay + 3)
  /\ UNCHANGED <<stage, shown, final, disk, edits, starts, base, failed>>

\* The loop ends: the pages become the user's profile, and all is saved.
Quit ==
  /\ at = "frame"
  /\ st' = [Mirrored EXCEPT !.defaults = stage]
  /\ final' = TRUE /\ at' = "open"
  /\ UNCHANGED <<stage, shown, last, since, disk, edits, starts, base, failed, unsaved>>

----------------------------------------------------------------------------
(* saveState(), step by step.                                              *)

\* The program ends, and its memory with it.
Gone ==
  /\ at' = "off"
  /\ st' = Defaults /\ stage' = Factory /\ shown' = 0 /\ last' = Defaults
  /\ since' = None /\ final' = FALSE
  /\ base' = Defaults /\ failed' = FALSE /\ unsaved' = 0

SaveReturns(ok) ==
  \/ final /\ Gone
  \/ /\ ~final /\ at' = "frame"
     /\ failed' = ~ok
     /\ base' = IF ok THEN st ELSE base
     /\ unsaved' = IF ok THEN 0 ELSE unsaved
     /\ UNCHANGED memory

\* The directory or the temporary file cannot be created.
CannotOpen ==
  /\ at = "open"
  /\ SaveReturns(FALSE)
  /\ UNCHANGED <<disk, edits, starts>>

\* All keys are written and flushed, or the disk was full on the way.
WriteTmp ==
  /\ at = "open"
  /\ \/ tmp' = Saved(st) /\ at' = "good"
     \/ tmp' = Cut(Saved(st)) /\ at' = "short"
  /\ UNCHANGED <<memory, file, kept, edits, starts, ghosts>>

\* saveState() that renames whatever it has written.
RenameShort ==
  /\ at = "short"
  /\ file' = tmp /\ tmp' = NoFile /\ kept' = st
  /\ SaveReturns(TRUE)
  /\ UNCHANGED <<edits, starts>>

\* A short file is removed and never takes the place of a good one.
DropShort ==
  /\ at = "short"
  /\ tmp' = NoFile
  /\ SaveReturns(FALSE)
  /\ UNCHANGED <<file, kept, edits, starts>>

RenameOk ==
  /\ at = "good"
  /\ file' = tmp /\ tmp' = NoFile /\ kept' = st
  /\ SaveReturns(TRUE)
  /\ UNCHANGED <<edits, starts>>

RenameFails ==
  /\ at = "good"
  /\ SaveReturns(FALSE)
  /\ UNCHANGED <<disk, edits, starts>>

\* The process dies: memory is gone, the files stay as they are.
Crash ==
  /\ at # "off"
  /\ Gone
  /\ UNCHANGED <<disk, edits, starts>>

----------------------------------------------------------------------------
Init ==
  /\ st = Defaults /\ stage = Factory /\ shown = 0 /\ last = Defaults
  /\ since = None /\ final = FALSE /\ at = "off"
  /\ file \in Files /\ tmp = NoFile /\ kept = None
  /\ edits = 0 /\ starts = 0
  /\ base = Defaults /\ failed = FALSE /\ unsaved = 0

Next ==
  \/ Start \/ Edit \/ EndFrame \/ Quit
  \/ CannotOpen \/ WriteTmp \/ DropShort \/ RenameOk \/ RenameFails \/ Crash

Spec == Init /\ [][Next]_vars

----------------------------------------------------------------------------
(* Properties.                                                             *)

TypeOK ==
  /\ DOMAIN st = DOMAIN Defaults /\ shown \in 0 .. Tabs - 1
  /\ since \in {None} \cup 0 .. Delay
  /\ at \in {"off", "frame", "open", "good", "short"}

\* What a number b is after a save and a start: the nearest of the decimals,
\* and so b itself if it is one of them.
Told(a, b) ==
  IF b = None THEN a = None
  ELSE a \in Decimals /\ \A d \in Decimals : Far(a, b) <= Far(d, b)
SameStage(a, b) == a = [b EXCEPT !.value = a.value] /\ Told(a.value, b.value)

\* The program starts with what the last completed save held, whatever
\* happened since: a failed save, a full disk, a crash between two steps of a
\* save.  No text is cut or changed on the way through the file, no field is
\* lost with another, and a number is rounded once at most, to six digits: what
\* has been through the file before does not move again.  (The page is left
\* out: main() forgets one without parameters; a minimised window comes back
\* with its usual size; a glow from the command line wins.)
SettingsKept ==
  [][(at = "off" /\ at' = "frame" /\ kept # None) =>
       /\ edits' = edits =>
            /\ st' = [kept EXCEPT !.page = st'.page, !.window = 1, !.glow = st'.glow,
                                  !.dsp = st'.dsp, !.defaults = st'.defaults]
            /\ Told(st'.glow, kept.glow)
            /\ SameStage(st'.dsp, kept.dsp)
            /\ SameStage(st'.defaults, kept.defaults)
       /\ SameStage(stage', kept.dsp)]_vars

\* A change reaches the disk within the delay and a frame, however many more
\* changes follow it, unless the save itself fails.
ChangeSaved == at = "frame" /\ ~failed => unsaved <= Delay + 1
=============================================================================
