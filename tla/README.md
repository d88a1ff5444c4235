# Ithaca: a verification project

Ithaca is a sampled piano: an engine (`engine/`) that plays a bank of long
recordings through a pool of voices, with disk streaming, sympathetic resonance
and a small DSP chain, driven by a GUI (`app/gui`) or a CLI (`app/cli`). This
directory holds TLA+ models of its concurrent and stateful parts, the TLC runs
that check them, and proofs of the central invariants for every value of the
constants.

`PROJECT.json` lists components, runs, faulty variants the properties must
reject ("mutants"), the code lines behind each definition, hazards, findings
and theorems.

## The system

Threads: the **audio thread** (`Engine::processBlock`; must never block), the
**GUI/main thread**, the **MIDI callback** thread, two pools of **stream
workers** (one for the main voices, one for resonance), a **reload worker**
(`AppContext`), a **recache thread** (`Engine::rebuildResonanceCache`), the
short-lived **loader workers** (`parallelFor`) and the **log flush** thread.

| Component | State | Operations | Talks to | What makes it correct |
|---|---|---|---|---|
| Stream engine | rings (buffer, cursors, EOF, in-use, generation, producer lock), request queue, threshold | acquire, release, request, worker loop, start/stop | voices (calls), disk | a ring has one owner; a voice gets only its own file, in order; no worker is stuck; stop joins |
| Streamed reader | ring, requested offset, pending flag, block cursors, interpolation window | begin, seed, advance, block, pop, refill, release | stream engine | refills while there is something to fetch; the window is where the position says |
| Voice | phase, pending release, position, ramps, damping tail | start, release, damp, process, hard stop | reader | underrun or end: fades and gives its ring back; every note ends |
| Voice pool | voices, per-note counter | note on/off, pending release, steal | pedal (reads) | one voice per note, true counter, sparing steal |
| Hold tracker, pedal | holders per key; held keys and CC64 | note on/off, sustain, panic | pool, resonance | both agree; a damper that is down silences |
| Engine drain | MIDI events in, block out | process, reload, setters | everything | the order of steps within an event |
| Resonance | one voice per note, excitation, budget | self strike, excitation, per-block damping, fade | pool counter, pedal | never a main voice and a resonance of one note; a fade is final; budget |
| MIDI queue | cells with sequence numbers | push (many), pop (one) | MIDI, GUI, engine | FIFO per producer, loss only when full |
| MIDI input | open port, engine, channel mask | open, close, callback, mask | RtMidi, engine | a release that arrives ends the note; the port shown is the one that plays |
| Reload and recache | loading flag, epoch, recache state | reload, recache | audio thread (handshake) | no buffer freed under a block; one builder; no target lost; it ends |
| Convolver | two IR slots, active and seen index | choose, set, prepare, process | GUI, audio | the slot in use is not rewritten; the response asked for is in force |
| Sample store | bank, budget, progress | scan, parallel load, merge, resonance buffers | reload | complete or marked incomplete; layers in order |
| Sample files | header, ranges | peek, head, range, whole | loader, stream workers | ranges join; what peek says can be read |
| Logger | ring from the audio thread, log page's buffer | log, flush, snapshot | all | whole, in order, lost only when full and counted |
| Application context, pages | reload state, reel, overlay, debounce timers | request, poll, shutdown | reload, devices | the panel shows what became of the last load, and is not locked |
| Persistence | `state.json`, its temporary file, debounce | load, save | pages | a start finds the last completed save; a change is saved in time |
| Pace and glow | hold counters, smoothed frame time | step per frame | frame loop | slow only at rest; the glow does not pump |
| DSP arithmetic, cryptography, drawing, CLI, tools | floats, bytes, pixels | - | - | not state-machine questions |

The behaviours that are hard here: a voice can be stolen at any moment while a
worker is in the middle of a read for it; a ring is recycled at once; requests
can be dropped; several keyboards hold the same key; the pedal is continuous;
the bank is replaced under a running audio device without a lock; devices come
and go; the settings must survive a crash.

## Modules

| Module | Models |
|---|---|
| `StreamEngine` | rings, queue, worker threads (`stream_engine.cpp`), readers (`streamed_reader.cpp`), ring life cycle and empty-ring policy of `voice.cpp` |
| `PcmChannel` | abstract specification: what streaming promises to one voice |
| `StreamInvariant` | the inductive invariant of `StreamEngine` |
| `SampleReader` | the reader as its voices see it: the interpolation window (`streamed_reader.cpp`) |
| `MainVoice`, `ResoVoice` | one voice of each kind, sample by sample (`voice.cpp`; `resonance_voice.cpp` and the per-block part of `resonance_engine.cpp`) |
| `Keyboard` | drain loop, `NoteHoldTracker`, `PedalState`, `VoicePool` |
| `ResonanceEngine` | the resonance slots, as actions with parameters |
| `Instrument` | `Keyboard` and `ResonanceEngine` composed as `processBlock` does |
| `MidiQueue` | the lock-free queue of `midi_queue.h` |
| `BoundedFifo` | abstract specification: what the queue promises |
| `MidiInput` | ports, callback and channel mask (`midi_input.cpp`, `page_sys.cpp`, start in `app_context.cpp`) |
| `BankReload` | `reloadBank`, `rebuildResonanceCache`, `setAudioBlockSize` against the audio thread (`engine.cpp`) |
| `Convolver` | the two response slots (`convolver.cpp`) |
| `BankLoader` | from a directory to a bank in memory (`bank_index.cpp`, `ithaca_bank.cpp`, `sample_store.cpp`, `patch_manager.cpp`) |
| `SampleFile` | WAV files and packed samples on disk (`wav_reader.cpp`, `sample_read.cpp`, `file_handle.cpp`) |
| `LogRing` | the log (`log.cpp`, `log_subscriber.cpp`) |
| `Panel` | the frame of the GUI: reel, bank list, overlay, layer debounce, reload thread, shutdown (`app_context.cpp`, `main.cpp`, `page_play.cpp`, `page_bank.cpp`) |
| `Settings` | `state.json` and everything that leads to it (`persistence.cpp`, `main.cpp`, `dsp_state.h`, pages) |
| `FramePace` | `PaceControl`, `GlowAuto` and the saver (`pace.h`, `glow_auto.h`, `screen.cpp`) |
| `Parts` | `Convolver`, `LogRing`, `BankLoader`, `SampleFile`, `Settings`, `Panel`, `MidiInput`, `FramePace` side by side: their constants and what is assumed of them, and their properties by name |
| `Voices` | the same for `MainVoice` and `ResoVoice` |
| `StreamEngineProofs`, `StreamDeliveryProofs` | proofs about `StreamEngine`: types, ownership, the steps of a request; order, and the refinement of `PcmChannel` |
| `InstrumentProofs` | proofs about `Keyboard`, `ResonanceEngine` and `Instrument` |
| `MidiQueueProofs`, `BankReloadProofs` | proofs about `MidiQueue` (with the refinement of `BoundedFifo`) and `BankReload` |
| `PartsProofs` | proofs about `Convolver`, `BankLoader`, `SampleFile`, the texts of `Settings`, `MidiInput` |
| `PanelProofs` | proofs about `LogRing`, `Settings`, `Panel`, `FramePace`; extends `PartsProofs` |
| `VoiceProofs` | proofs about `SampleReader`, `MainVoice`, `ResoVoice` |
| `MCStream`, `MCKeyboard`, `MCInstrument`, `MCReload` | instances for TLC |
| `MCParts`, `MCProgress` | instances of several independent modules in one run each |

Every module with a type invariant states it as `TypeOK`; TLC checked these
while the models were written, the proofs contain the larger ones, and the runs
spend their properties elsewhere.

### StreamEngine

A ring's content is the sequence of frames between the cursors `r_` and `w_`
(`data`); a frame is its position in the file and the generation of the request
that read it. `eof`, `inUse`, `gen`, `producers` are the fields of `RingHandle`;
`queue` is the request queue, `threshold` and `run` belong to `StreamEngine`;
`pc`, `req`, `off`, `remain`, `chunk`, `hitEof` are the program counter and the
locals of `workerLoop`; `ring`, `file`, `reqOff`, `pending` are the reader's
(`file_request_off_`, `stream_pending_`); `mode` and `verdict` are the voice's
phase and what it took an empty ring for; `got` counts the frames it popped and
`cur`, `taken` are the voice in `process()` and its pops since `beginBlock`
(`r_` is committed at `endBlock`).

The worker loop is split where another thread can observe or disturb it: take
a request; check the generation and size the chunk; read; lock; re-check under
the lock; push, unlock and advance; check for the EOF mark; store it. The audio
thread's actions are a whole `start`, a pop, a refill, an end: nothing else runs
on that thread meanwhile. The frames of one block are separate pops because
workers push between them; the reader's snapshot of `w_` is renewed whenever it
is used up, so a pop succeeds exactly when the ring has a frame.

Reduced or left out: the RAM head (offsets count from behind it), samples and
gains; the interpolation window (that is `SampleReader`); `prepareDamp`'s own
pops (the ring is released in the same step). A read is short only when the
file on disk is shorter than its header says (`disk < len`) or may be invalid
(`ReadMayFail`). `acquireRing` waits for the producer lock; its bound of a
million spins is assumed not to run out. Zero-frame requests cannot arise from
`begin` and `refill`. `MaxGen` bounds the ownership periods of a ring (`gen_` is
32 bits wide; a wrap would need four billion steals while one read is under way).

### PcmChannel

A private bounded line per voice: connect, deliver the next n frames of the
file, hear one, cut. No rings, requests, workers or generations. `StreamEngine`
defines the mapping (`Channel`) and `Delivery == Channel!Spec`.

### SampleReader, MainVoice, ResoVoice

`SampleReader` is the other half of the reader. A voice interpolates between
two frames, `lo` and `hi`, of a window that moves with its position. The window
is opened by `seed` (from the last frame in memory and the first of the ring),
moved by `advance` (frame by frame, as far as the ring has frames) and read at
`idx`. A frame is its number, so that the window shows which part of the file
is heard. The worker is abstracted from `StreamEngine`: it delivers what was
asked for, in order, at any time or never; that it delivers no other frames is
`InOrder` there. A late end mark of a previous owner is not part of it.

`MainVoice` is `Voice`: a head in memory, then the ring; position and increment
in half frames; the onset, release and underrun ramps as samples left; the
damping tail of the note whose slot is taken, which plays on under the next
note. `ResoVoice` is `ResonanceVoice` with what its engine does to it per block:
it starts behind the attack in the resonance buffer, in the ring (when a rebuild
has withdrawn the buffers) or in a file that is all in memory. Its gain is a
level, its ramp the samples left; the two thresholds `kResonanceGainEpsilon` and
`kResonanceTargetEpsilon` are the levels 0 and 1. A block is opened, has one or
more samples, and is closed (which refills).

What the models show of the window: seeded from an empty ring it runs one frame
late from then on and never more (`InPlace`), so the end of the file is still
reached; a damping tail that starts within the last frames of the head may be
as short as one frame.

### Keyboard

`mask` is the hold tracker, `held` and `cc` the pedal, `midi`, `phase`,
`pending`, `count` the pool, `bank` what a note has: no sample, a sample whose
head is empty (a truncated file: the voice does not start) or a tone. One action
is one MIDI event as the drain loop handles it, with all calls. `midi` of a free
slot keeps the old note as in the code. Where `findSlot` compares levels any
slot of the best class may be taken. `VoiceEnds` may happen between any two
events: more orders than the code has (voices end only in `process`), so
invariants carry over. Events come in any order, unmatched note-offs included.
`Reload` is the effect of `reloadBank` on keys and voices; its handshake is
`BankReload`.

### ResonanceEngine and Instrument

A resonance slot is silent, sounds, or fades for good (`is_fading_out_`). The
variables are declared in `ResonanceEngine` and `Instrument` alike; the latter
instantiates the former. `Strike` is `onSelfNoteOn` and `onPlayedNoteOn` with
the budget gate and `enforceVoiceBudget` in one step: any subset of the eligible
silent strings starts (gains are not modelled), and as many sounding ones fade
as are over the budget. A note whose head has no frames (`Hollow`) may start or
not: it does only when its file goes on behind the head. That it does not is
found out after the gate has faded the quietest string for it
(`resonance_engine.cpp:186-203`, then `resonance_voice.cpp:57-63`), so that one
more fades than had to and one fewer sounds than may (`Cuts`). It is one at
most: the gate then lets the next string in without a victim. `BudgetKept` names
this case; a string is faded for nothing in no other. `StrikeKey`
composes it with `NoteOn` in the order of the drain loop: the excitation sees
the keys, the pedal and the counter as voice start left them. `RenderBlock` is
`ResonanceEngine::processBlock`, once per block.

### MidiQueue and BoundedFifo

`seq`, `cell`, `w`, `r` are the fields of `MidiQueue`; a producer in `push` has
a program counter and its local `pos`; the audio thread in `pop` has `cpc` and
what it copied. One action is one access to shared memory: the load of `w_`, the
look at a cell's sequence number, the compare-exchange (which may also fail for
no reason, as a weak one does, and then reloads `pos`), the write of the event,
its publication; the look of `pop`, the copy, the return of the cell (with the
advance of `r_`, which no other thread reads). An event is the producer and the
number of its call. Loads see the newest value: the address of a cell depends on
the position loaded before, and publication and look are a release and an
acquire of the same word. Positions do not wrap (64 bits). With one cell "free
for the next lap" and "filled" would be the same number, so `Size` is at least
two (1024 in the code).

`BoundedFifo` is a line of places: a sender takes the last place and fills it
later; the listener hears the first place once it is filled; a call is refused
only when all places are taken. The mapping reads the line off the positions
between `r_` and `w_`: a place is filled when its cell is published, otherwise
it belongs to the producer that claimed it. Taking a place is the successful
compare-exchange, a refusal is the look at a cell of the lap before.
`KeepsLine == Fifo!FifoSpec` says that the events of a producer are heard in the
order of its calls, each once and untorn, and that nothing is dropped while
there is room.

`Keyboard` takes one event per action without the queue in between: by
`KeepsLine` the queue only delays and, when full, drops, and `Keyboard` accepts
events in any order.

### MidiInput

Ports appear and vanish; the panel keeps the list it saw last and opens by
name: look for the name among the ports of now, close, open by index. Between
look and opening the ports may change again (`swapped`); the saved name and the
port that plays then differ, and nothing in the code notices. When the opening
fails after the old port was closed, the old name stays. A player presses and
releases the key of a channel, with a note-off or a note-on without velocity;
the callback loads the mask once and hands the message to the engine, whose
queue may drop it. `lost` are keys whose release could not arrive any more; a
note may hang only among those.

### BankReload

One variable per flag of `Engine`: `loading` (`bank_loading_`), `running` and
`pending`, `request` (`recache_fade_request_`), `ready`. `block_epoch_` is a
countdown per waiter: how many block starts it has still to see. `block` is the
position in `processBlock`; `worker`, `thread` and `gui` those of the reload
worker, the recache thread and the GUI in `rebuildResonanceCache` and
`setAudioBlockSize`. One resonance voice (where it reads, how it lives) and one
flag for the main voices stand for all of them.

The 500 ms of `waitForAudioQuiesce` pass only while the device does not run (it
is off, or being reopened): a running device begins a block every 170 ms at
most. A device that stalls inside a block for longer is not modelled; the code
would then go on under it. The 15 ms of the recache thread outlast the 5 ms fade
of a voice that is being played; when the device is silent or its wait was given
up, the thread is `blind`, which `BuffersAlone` excepts, as it does a voice that
its damper put on the slow ramp of 30 ms before the request came: the request
leaves a fading voice alone, so that one may still read the buffers. This is
visible in the model and not covered by the code's comment.
`RebuildWhileLoading` says whether the panel calls the rebuild during a reload;
it does (`main.cpp:613` does not ask; see the violations), so what is shown and
proved with FALSE holds of the program only while no layer change falls into a
reload. A failed spawn of the recache thread is left out.

### Convolver

A response is the record of what it was made from. `Rebuild` computes it on the
GUI thread, `SlotLeft` is the wait for the slot, `Publish` the write and the
switch of `active_`. The audio thread loads `active_`, announces it, reads, and
takes the announcement back. `Preempted` says whether a whole publication fits
between load and announcement; the runs and the proof assume not (with TRUE the
model shows the overwritten response). The wait of 250 ms outlasts a block.
`Prepare` is the re-preparation for a block size or rate, with the device
closed.

### BankLoader

A sample file is its note, length, loudness and condition: whole, with a head
shorter than announced, with data nobody can read, or without a header, which is
let go before it is weighed. A frame is the unit of memory. `TakeIndex`,
`Weigh`, `ReadHead` are the steps of a worker of `parallelFor`: take the shared
index, add to the shared byte count and perhaps refuse, read the head into its
own element. `Merge` commits in the order of the scan until the budget is spent,
says so, and sorts the layers; `BuildCache` gives the layer nearest to the
loudness asked for a buffer. Layers of one loudness may come in any order (the
sort is not stable). Packed banks are sorted and complete as the baker made
them.

The guard against memory running out refuses beyond *twice* the budget and
counts announced heads, refused ones included. Which file is refused depends on
the order in which the workers weigh. A refusal marks nothing: it is noticed
only because what was read then spends the budget (`BankComplete`). That needs
heads of at most half a budget each and heads that can be read: with unreadable
or short files, or with one giant file, a bank may miss a sample it has room for
without being marked incomplete. And once a file may be refused the bank need
not consist of the first samples of the scan. `BankComplete` states these
conditions.

The loaders give a layer only one variant, so that the round robin of
`patch_manager.cpp` never has a choice.

### SampleFile

A file is the sequence of its chunks, the bytes its header promises and those
that are there. `Parsed` is `parseHeader`'s walk; `WavRange` cuts to what is
there, `BlobRange` is all or nothing (a packed bank with a short read fails the
whole range). A session peeks and then reads range by range.

### LogRing

`rt` is the audio thread in `vlogRT` (reserve, fill, publish), `flush` the flush
thread (lock, copy entry by entry, give the cells back after the batch, tell the
subscribers outside the lock), `talk` another thread in `vlog`. `Torn` is an
entry being written. `LogRingBuffer` of the log page is `buf`, `head`, `size`,
and `Snapshot` what the page draws. Lines of two threads may reach the page in
another order than the file: the code tells subscribers outside the lock.

### Panel

A frame is: the pages (one gesture), the poll of the reload in two steps, the
overlay and the layer debounce. The reel follows a finger, glides to a row, and
loads the bank under the mark when it comes to rest. `Request` is
`requestBankReload`; the reload thread loads, stores `ok`, tells, and leaves,
four steps between which frames run. `initFromState` and `shutdown` are the two
ends. Observed while modelling, with no document that promises otherwise: a bank
chosen while a reload runs is refused without a word although `bank_path`
already names it; a reel dropped exactly on a row does not move any more and so
never loads.

### Settings

A file is a function from keys to what stands behind them: a number, one nobody
can read (the default is taken, but FALSE for a switch), or the characters of a
text up to its closing quote; one that is not there has no keys, which
`loadState` cannot tell from an empty one. Of the thirty fields those are kept
that the code treats differently. Texts go through `jsonEscape` and the parser's
decoding, character class by character class. A number with a fraction is
written with the six significant digits of `<<`, so a saved value is the nearest
that six digits can name (`Decimal`); `Decimals` is what they can name, every
third of the numbers in memory. `stof` reads such a number back, and writing it
again gives the same digits (a `float` keeps six), so what it rounds behind the
sixth digit is not told apart. `SettingsKept` asks accordingly: a start finds
what the last completed save wrote, every field exact but those numbers, which
are what six digits tell of them (`Told`). Exact equality does not hold. Nothing
drifts: a value that came from a file goes back as it was, however often the
panel is started and saves; that is why the run has three starts.

`saveState` is split into its steps (open, write and flush, rename), each of
which may fail, and a crash may come between any two. Damaged keys, older
versions, clamping, the command line, the mirror of the DSP stage, the profile
buttons and the two saves (debounced, and at the exit) are all there. The
`defaults` section is written and loaded but never applied to a page. A failed
save is not repeated until the next change: `ChangeSaved` excepts it.

### FramePace

Both controllers in one frame step, because each changes the frame time the
other acts on. Time counts in refreshes of the display; a frame takes
as many as the divider says plus those it missed. The glow's limits and factors
are the code's, in integers, and its exponential smoothing is a halving. The
user may turn the glow at any time (`GlowAuto::reset`). The glow widens again
only below half the budget, which a display synchronised to its refresh may
never reach: then it stays narrow.

### Parts, Voices, MCParts, MCProgress

`Parts` and `Voices` instantiate modules that share nothing, name their
variables apart, state what is assumed of the constants, and give each property
the name under which it is checked and proved. `MCParts` (on `Parts`) and
`MCProgress` (on `Voices`, `MidiQueue` and `Panel`) add bounds for TLC: a
behaviour works one module, its *lane*, and the others stay in an initial state.
Every behaviour of every module is explored, and none of the products. Each
lane's specification is its module's own; the proofs are about these and know
nothing of lanes.

## Runs

| Run | Instance | Properties | Result |
|---|---|---|---|
| `stream_reuse` | 2 voices, 2 workers, 1 ring of 4, thresholds 1 and 2, 3 files, failing reads | `IInv`, `InOrder` | pass, 1.09 M states |
| `stream_two_rings` | 2 voices, 1 worker, 2 rings of 4, queue of 1 | `RingOwnership`, `NoWaitOnFullRing`, `Delivery` | pass, 577 k |
| `stream_liveness` | 1 voice, 2 workers, 1 ring of 4, threshold 3, failing reads | `RingReturned`, `StopJoins` | pass, 65 k |
| `keyboard_notes` | 3 notes, 2 channels, 2 slots, pedal 0/127 | `OneVoicePerNote`, `HeldAgrees`, `PendingExact`, `VoicesBacked`, `StringsUndamped`, `StealSpares` | pass, 7.5 k |
| `instrument` | 3 notes, 1 channel, 2 slots, pedal 0/40/127, budgets 1 and 2, all notes related | `NeverBoth`, `FadeIsFinal`, `BudgetKept` | pass, 126 k |
| `bank_reload` | 2 targets | `BankAlone`, `BuffersAlone`, `OneBuilder`, `TargetBuilt`, `ReloadEnds` | pass, 264 k |
| `parts` | lanes `Convolver`, `LogRing`, `BankLoader`, `SampleFile`, `Settings`, `Panel`, `MidiInput`, `FramePace` | `SlotAlone`, `InForce`, `LinesAccounted`, `BankComplete`, `LouderIsLouder`, `RangesJoin`, `SettingsKept`, `ChangeSaved`, `ReportsLast`, `NotesEnd`, `NeverLazy`, `SteadyGlow` | pass, 1.18 M |
| `progress` | lanes `MidiQueue`, `MainVoice`, `ResoVoice`, `Panel` | `QueueInv`, `KeepsLine`, `Arrives`, `InPlace`, `VoiceEnds`, `FadeRuns`, `PanelFrees` | pass, 76 k |
| `stream_lost_refill` | 1 voice, 1 worker | `RefillSent` | violated |
| `stream_overlap` | 2 workers, threshold 5 of 6 | `InOrder` | violated |
| `keyboard_half_pedal` | pedal 0/40/127 | `StringsUndamped` | violated |
| `recache_reload` | rebuild during a reload | `OneBuilder` | violated |

In `Parts` and `Voices` a property may join two of one part: `LinesAccounted`
includes `ShowsLatest`, `LouderIsLouder` includes `OneBuffer`, `NotesEnd`
includes `RightPort`, `InPlace` includes `TailJoins`.

Why the bounds are enough. *Stream*: one ring for two voices makes every release
and acquire hit the ring the other voice's requests still name; a ring of four
with blocks of two and files of 3, 5 (of 6) and 6 frames gives full rings, wraps
of the request offset, files shorter and longer than a ring, exact and truncated
ends; two workers are needed for two writers of a ring; two ownership periods
are needed for a stale request and one more shows nothing new, as a stale
request never writes. A queue of one makes drops frequent. The liveness run has
two workers and a threshold above half a ring, so that one worker can wait for
room and the other for its lock. *Keyboard*: two slots and three notes are the
least that force a steal among different notes, two channels the least that
share a key. *Instrument*: three mutually related notes give a strike with a
string that starts, one that sounds and the struck one. *Reload*: two targets
are what a newer request needs; positions are unbounded in number, so reloads,
rebuilds and reopenings follow each other for ever. *Queue*: two cells and six
calls fill the queue, refuse calls and go around it three times, so that a
producer can be delayed by more than a lap between any two accesses. *Voices*: a
file of 7 frames and a ring of 4, a head of 2 (for resonance a start at 1 and a
buffer of 2), steps of half a frame, one and two frames: the window skips,
stands still and runs dry at every place; ramps of two and three samples end
inside and across blocks. *Convolver*: two bodies, two knob positions, two
rates. *Log*: ring, batch and page of 2, four calls: full, wrapped twice,
dropped, two batches. *Loader*: any three files of two notes (whole, streamed or
not, with heads of 1 and 2, short, unreadable, without header), and up to five
whole ones with heads of 1 and 2 in a directory of folders, which at a budget of
2 is more than twice the budget and at 4 as well: files are refused, in an order
the two workers decide; a directory of each kind. *Files*: chunks in five
orders, 0 to 9 bytes at two bytes per frame (odd ends included), ranges of up to
three frames. *Settings*: two edits and three starts (save, load and save again)
from five files (none, unreadable version, version 3 damaged, version 4, one
edited by hand), knobs from 0 to 3 of which six digits name 0 and 3, a delay of
one frame. *Panel*: two banks, one cut off by the budget and one without a
licence (one bank in `progress`), waits of one frame. *Ports*: two devices, one
named within the other, one channel. *Pace*: dividers 1 and 2, hold times of a
few refreshes in the order of the code's constants, budgets below, between and
above the two frame times.

Symmetry is used only in runs of safety properties.

Fairness, each from what schedules the step:

* `RingReturned` and `VoiceEnds` assume only what the audio device does: it
  calls back, every voice is processed, consumes at least one frame per block
  behind the head (`pos_inc_ > 0`), and a fade reaches zero. No fairness of
  workers: a voice must end even when reads fail for good. In `StreamEngine`
  consumption and the end of a fade are strongly fair because each block enables
  them anew; `MainVoice` and `ResoVoice` count samples and need only weak
  fairness of the block's steps.
* `StopJoins` assumes only that worker threads are scheduled and reads return:
  the device may be silent by then.
* `ReloadEnds`, `TargetBuilt`: threads are scheduled; strong fairness of reload
  and recache because their 500 ms pass even if the device is reopened again and
  again; strong fairness of the end of the 5 ms fade, which takes a few blocks.
  Nobody need touch the panel.
* `PanelFrees`: frames are drawn and the reload thread runs.
* `Arrives`: threads run on, the audio thread drains the queue (it does in every
  block), and the compare-exchange is strongly fair: one that could succeed again
  and again does, since every failure means that another call got its place or
  that the weak form failed for nothing, and neither goes on for ever.

Deadlock is checked in every run but `parts` and `progress`, whose parts really
stop: a bank is loaded, a file read, the bounded calls and edits are made, the
program ends. In the others something can always act (the threshold, the pedal,
the panel), so that a part that hangs is a question for the liveness properties.

## What the violations show

* **Half-pedal hang** (`keyboard_half_pedal`). A voice is put on hold for any
  CC64 above 8 but released only when CC64 crosses 64 downwards. Press a key,
  hold the pedal at 40, release the key, release the pedal: the voice sounds to
  the end of its sample. The same property holds for a pedal that is a switch.
* **Lost refill** (`stream_lost_refill`). `stream_pending_` is cleared only when
  a block ends with half a ring filled. When a late read arrives with the ring
  almost empty, the block that follows can take the level below the half before
  the flag is looked at; then nothing is in flight and nothing will be asked for.
* **Swapped requests** (`stream_overlap`). With thresholds above half a ring two
  workers can push two parts of the file in the wrong order.
  `recomputeRefillThreshold` yields such thresholds for blocks larger than an
  eighth of the ring.
* **Rebuild into a reload** (`recache_reload`). `reloadBank` joins the recache
  thread before it replaces the bank, but the debounced layer knob may start a
  new one after that join: the timer runs out up to 400 ms after the knob, or
  after the end of a load that moved the layer off its default, and a bank can be
  requested within that time. With `RebuildWhileLoading` FALSE the property
  holds, and is proved. The same constant decides about `BuffersAlone`: with TRUE,
  TLC finds the rebuild's thread withdrawing the buffers after the join, the
  load publishing its own over that, two gated blocks passing as the thread's
  wait, the flag coming down, and a string that sounds from the buffers while
  the thread rewrites them. It has the same cause and is not a run of its own.

Two smaller ones that no run is spent on: `cleanEnd()` compares what was
requested, so that an underrun during the last request is not counted; and the
end mark of a stale request can reach the ring's next owner between the
generation check and the store (main voices read it for logs only).

## Proofs

Proved by TLAPS for all constants that satisfy `StreamAssumption`:

* `TypeCorrect`: `Spec => []TypeOK` (capacity of rings and queue included).
* `OwnershipCorrect`: `Spec => []RingOwnership`.
* `StreamInvariantHolds`: `SmallThreshold => (Spec => []IInv)`, and from it
  `InOrderCorrect` and `NoWaitCorrect`.
* `EngineDelivers`: `SmallThreshold => (Spec => Delivery)`, the refinement of
  `PcmChannel`.

`SmallThreshold` says that no threshold exceeds half a ring. It is not a
convenience: `stream_overlap` shows that order is lost without it.

Types need a strengthening about the readers (`ReaderInv`: the voice in
`process()` has a ring and took no more than it holds) and the workers
(`ChunkInv`). Ownership is inductive on top of that. Order needs the whole of
`IInv`: a request carries the generation of a present or past owner
(`GenInv`); a worker between lock and unlock is alone on its ring, and a
generation it saw there is current or the ring is free (`LockInv`) - since
`acquireRing` waits for the lock, the frames of a stale worker reach only a ring
nobody owns; at most one unserved request per ring (`UniqueInv`), which starts
at the position the voice expects next and fits (`QueueInv`, `WorkInv`, by
`Accounted`); and when none is under way the next one will start there
(`OffsetInv`). That only one request is under way is where `SmallThreshold`
enters: a second one is sent only when less than half the ring is filled, and
the pending flag was cleared only when at least half was. Each step of the
specification has its lemma (`Flight...`), grouped by what it changes.

The refinement rests on `InOrder`: as a voice's ring holds the frames of its own
file from the one it plays next, the line of the mapping is a stretch of
numbers, given by how many frames have been popped and how many are there
(`LineNow`, `LineThen`). A publication by the owner's request makes the stretch
longer (`PublishDelivers`), one by a stale request touches no line, a pop takes
its first frame (`BlockHears`), a start connects (`StartDelivers`), a release
cuts (`ReleaseCuts`); every other step leaves all lines as they are. That no
more is delivered than can be read needs `ReadInv`, what a chunk on its way
holds.

For all notes, channels, slots and pedal positions (`InstrumentProofs`):
`KeysCorrect` (`Spec => []KeyInv`), and from it `KeyTypes`, `OneVoice`,
`CountsVoices`, `KeysAgree`, `PendingIsExact`, `BanksOutlive` and `StealsSpare`.
The parts of `KeyInv` need each other: the counter is updated by steps, so that
it is true only because a note has at most one voice and a retrigger first frees
the old one; a pending mark is exact only because tracker and pedal agree on the
last holder; and a voice is struck only for a note the bank has, so that
`Reload`, which ends all voices, leaves none behind. `SwitchDamps` proves
`StringsUndamped` under `SwitchPedal` (no pedal position between the dead zone
and 64), the assumption `keyboard_half_pedal` shows to be necessary.

For the composition, in the same module: `InstrumentPlaysKeys` shows that keys
and voices take only steps of `Keyboard`, so that its theorems hold here too;
`NeverBoth` is inductive with `KeyInv` (`BothInv`), because the counter that
resonance asks is true; `FadesEnd` and `BudgetHolds` follow for each action. The
latter counts: what sounded and started less what was cut is the budget, or one
less when a hollow string was tried in vain (`CutLeaves`).

For all producers, calls and sizes of at least two (`MidiQueueProofs`):
`QueueCorrect` (`Spec => []QueueInv`). The window of `Size` positions from `r_`
maps one to one onto the cells (`SameCell`, `WindowCovers`: arithmetic of `%`);
in it a position before `w_` is published or belongs to one producer, and one
from `w_` on is free. A producer that found its cell free is inside the window
however long it was delayed (`FoundFree`), so a successful compare-exchange
claims a free cell. `NoTornEvent` follows from the window alone. `QueueIsFifo`
(`Spec => KeepsLine`) maps each action to a step of `BoundedFifo` or to none: a
lemma per action, over lemmas on what a place of the line is before and after.

For any set of targets (`BankReloadProofs`): `BankIsAlone` rests on
`HandshakeInv`. A block that begins after the flag went up is silent; one that
was under way has returned when the next one begins (`BlocksGone`); so after two
block starts, or with the device closed (`DeviceStands`), none is left, and none
comes back while the flag is up. `OneBuilderAtATime` assumes
`~RebuildWhileLoading` (needed: `recache_reload`). `BuffersAreAlone` adds what
the recache thread relies on: while the buffers are withdrawn, a resonance that
sounds from them still has a request before it (`Requested`); the first block
that begins takes the request, unless a reload has gated it, and then the blocks
are frozen until the recache thread is joined (`Served`); by the time of the
rewrite it has faded (`Faded`).

For any bodies, knobs and rates (`PartsProofs`): `SlotIsAlone`, under
`~Preempted` (it says nothing of the window between load and announcement, which
is a hazard that stays), from the fact that a reader has announced its slot
(`ReadersInv`); and `AskedIsInForce`, from the fact that a response on its way
is the one asked for (`ForceInv`).

For any files, budget and number of loader workers: `HarderIsLouder`. The
invariant (`LoaderInv`) says that a note's layers are its own files in order of
loudness from the moment the bank is put together, and that a buffer belongs to
a nearest layer. It holds only if the sort has a result at all: that a finite
set of files can be put in order is proved on the way (`OrderExists`), by the
least number of files for which it could not (`LeastNatural`), since the
induction theorems are out of the provers' reach.

For the same constants, `BanksAreComplete`. Each file is in the hands of one
worker at most, and one that has been read is in nobody's (`TasksInv`). If all
files are whole, the shared byte count is what the weighed files announce, and
either every weighed file was let in or those let in announce more than one and
a half times the budget, and all weighed ones more than twice the budget
(`WeightInv`): the refused head takes at most half a budget, which is where that
condition enters. Workers weigh in any order, so these are sums over sets of
files (`HeadsIn`); that a sum grows by one file's head wherever in the scan it
stands is `SumsGrow`. At the merge nothing is under way (`AllRead`). The heads
are added up in the order of the scan (`TakenAre`), and the merge stops at the
first that reaches the budget (`CommittedIs`). If it did not stop early although
a file had been refused, the heads but the last would already have spent the
budget, since the last takes at most half of it (`MergeCompletes`).

For any file (`RangesAreJoined`): nobody reads before a peek, a peek tells what
the walk through the chunks finds, and what was heard so far is the beginning of
the file (`DiskInv`). The cases are those of `WavRange`: all there, cut at the
bytes on the disk, an odd byte at the end.

For any devices and channels (`NotesAreEnded`): every note the engine holds is
still played, lost, or its release is on its way (`HeldInv`), which needs that
nothing arrives while no port is open (`OpenInv`).

For any sizes of ring, batch and page (`PanelProofs`): `LinesAreAccounted`. The
ring is a window like that of the queue (`RingInv`); the lines written, those
that wait and the call under way are of different calls in their order
(`OrderInv`), and with those dropped they are as many as calls were made
(`NumberInv`). The page's buffer is a window on the end of what was told
(`ViewInv`), so that its snapshot is that end. Two lemmas on remainders carry
both.

For any texts, files and delays: `ChangesAreSaved`. While no save has failed
the frame compares with what is on the disk, and the debouncer has run as long
as anything has been unsaved (`DebounceInv`); a save ends with the state it
began with (`SavingInv`).

For any texts, older files, pages and delays: `SettingsAreKept`. At its bottom is
`TextComesBack` (in `PartsProofs`): what `jsonEscape` makes of a text reads back
as that text. Encoding runs forwards and decoding backwards, at different
speeds; so each is first related to its own next step, and then the least
position at which they part is shown not to exist (`Climbs`). On top of it, what
loading makes of a saved state is that state, field by field, with its numbers
rounded to six digits (`LoadBack`), if its stage is one that `set()` would leave
alone; as the limits are among the numbers six digits name, rounding leaves it
one (`DecimalWithin`, `WrittenStageIs`). `KeptInv` is what makes that
last: the stage is such a one after every gesture and every start; the state
mirrors it from the end of a frame to the end of the save; a temporary file that
is going to be renamed holds the whole state; the file in place is the last one
renamed, whatever was cut or filled the disk since; and no file, older ones
included, has anything behind a key that does not belong there or is skipped
(`Legible`).

For any banks: `LastIsReported`. Where the thread is decides what its fields
say (`ReloadInv`); once the report has been taken the panel agrees with it
(`ShownInv`) until a new load is asked for, and a layer that has left its
default never comes back to it (`LayerInv`), so that no frame takes a change of
the layer for none.

For any times: `RestsBeforeSlow` (the pace counts as quiet no more than has
passed since the last sound and the last touch, `RestInv`) and `GlowIsSteady`
(the glow counts no more than the stretch it is in, `GlowInv`).

For any file, head, ring, buffer and ramps (`VoiceProofs`): `MainIsInPlace`,
`ResoIsInPlace`, both in `VoicesInPlace`, and `FadesRun`. Lemmas on the reader
come first: what opening and moving the window do to a window that holds two
neighbours (`Shape`) of a ring in order (`Flows`). The invariants tie the window
to the position (`MainFollows`, `ResoFollows`): once open it is at most two
frames behind before a sample and at most one after it; an unopened one waits
for the first frame behind the memory; a resonance at the end of its file holds
the last frame. The position is bounded by a step of two frames per sample,
which is why `VoiceAssumption` has it.

What is assumed of the constants is what the code has:

* sizes and counts are numbers, and a length of which a remainder is taken is
  not zero (rings, queue, log: all compile-time constants or checked); a queue
  has at least two cells, a ring at least two frames;
* `None` is none of the values it stands beside;
* a step is at most two frames (`VoiceAssumption`), that is a file of at most
  twice the device's rate; a head has a frame, since `start` leaves a voice
  without one silent (`voice.cpp`); the resonance starts within the file; ramps
  have at least one sample (`max(1, ...)`);
* the screen saver waits for at least as long as the panel takes to rest
  (`pace.h`, `screen.cpp`);
* lengths, loudness, budgets and the preload are numbers (`BankAssumption`);
* a text consists of the kinds of character `Characters` names; an older file
  has behind each key it has what belongs there, in range or not, or what nobody
  can read (`Legible` in `SaverAssumption`);
* the limits of a number are among those six digits name (`SaverAssumption`):
  they are short literals (`Param` tables, `kWaveGlowMax`).

TLC evaluates each of these in the runs that use the module.

Model-checked only is all liveness (`RingReturned`, `StopJoins`, `TargetBuilt`,
`ReloadEnds`, `VoiceEnds`, `Arrives`, `PanelFrees`): fairness is out of the
prover's reach. Every other property of a passing run has its theorem; two of
them need recursive functions over texts and over sets of files, where the
library's induction theorems cannot be instantiated. There the argument is the
least counterexample, for one formula at a time.

## Not modelled, and the plan

Not modelled, with the reason:

* DSP arithmetic, gains, resampling, convolution: functions of floats without
  control to explore.
* Cryptography, bytes of the file formats, hashing: their outcomes (licence
  valid, file readable) are inputs of `BankLoader` and `SampleFile`.
* Drawing, layout, fonts, widgets: no state the program acts on.
* The batch renderer and the CLI: sequential drivers of the engine.
* The bank tools: offline; what they guarantee of a packed bank is an assumption
  of `BankLoader`.
* `FrameStats`, meters, diagnostics: they count and print.

Assumptions about time no untimed model decides are named where they enter:
`acquireRing`'s spin, the 250 ms of the convolver, the 170 ms of a block against
500 ms, the 15 ms against the fade of 5 ms.

Seen in the code and left to a test: an allocation that fails inside a worker of
`parallelFor` ends the process; the log page may mark a line as seen that comes
while it is being left; the log thread is joined before the shutdown, whose last
lines of the audio thread are then not flushed; `setAudioBlockSize` does not
tell the panel that the device could not be reopened.

What is left of the plan:

1. **Composition** of `Panel` and `BankReload`, so that `recache_reload` follows
   from gestures instead of a constant.
2. **Abstract specifications** of the log (a lossy line that counts) and of the
   settings (an atomic cell), with refinements.
