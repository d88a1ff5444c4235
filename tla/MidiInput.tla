------------------------------- MODULE MidiInput -------------------------------
(***************************************************************************)
(* MIDI input: the ports (RtMidi), the one the panel has opened, the mask   *)
(* of channels, and the callback that passes messages on to the engine.    *)
(* The user plugs and unplugs devices, plays, picks ports and switches      *)
(* channels while the callback runs on a thread of its own.  One key per    *)
(* channel is enough.                                                      *)
(***************************************************************************)
EXTENDS Integers, Sequences

CONSTANTS
  Devices,
  Within,      \* pairs <<a, b>>: the name a is a part of the name b
  Channels,
  None

VARIABLES
  ports,       \* what RtMidi lists: a sequence of devices without repetition
  listed,      \* PanelState::midi_ports, the list on the page
  opened,      \* the device of midi_ (None: nullptr)
  engine,      \* engine_ is set
  mask,        \* MidiInput::mask_
  shown,       \* GuiState::midi_port_name
  wanted,      \* GuiState::midi_channel_mask
  gui,         \* "start", "idle", or "open": between the list and open()
  pick,        \* [want, idx]: the locals of pageSys()
  rx,          \* the callback: None, "enter" with a message, "send"
  down,        \* keys the player holds: pairs <<device, channel>>
  held,        \* channels on which the engine holds the key
  lost,        \* keys whose release could not arrive any more
  swapped      \* the ports have changed since the panel looked for one

vars == <<ports, listed, opened, engine, mask, shown, wanted, gui, pick, rx, down,
          held, lost, swapped>>

panel  == <<listed, shown, wanted, gui, pick>>
player == <<ports, down, swapped>>
input  == <<opened, engine, mask>>

IndexOf(p, q) == IF \E i \in DOMAIN q : q[i] = p
                 THEN CHOOSE i \in DOMAIN q : q[i] = p ELSE 0

Played == {c \in Channels : <<opened, c>> \in down}

----------------------------------------------------------------------------
(* The devices and the player.                                             *)

Plug ==
  \E d \in Devices \ {ports[i] : i \in DOMAIN ports} :
    /\ ports' \in {Append(ports, d), <<d>> \o ports}
    /\ swapped' = TRUE
    /\ UNCHANGED <<panel, input, rx, down, held, lost>>

\* The keys of a device that is gone are never released.
Unplug ==
  \E i \in DOMAIN ports :
    /\ ports' = SubSeq(ports, 1, i - 1) \o SubSeq(ports, i + 1, Len(ports))
    /\ down' = {k \in down : k[1] # ports[i]}
    /\ lost' = lost \cup IF ports[i] = opened THEN Played ELSE {}
    /\ swapped' = TRUE
    /\ UNCHANGED <<panel, input, rx, held>>

\* RtMidi calls the callback for one message after another, and only while
\* the port is open; a port opened on a device that is gone hears nothing.
Message(d, c, kind) ==
  IF d # opened THEN UNCHANGED rx
  ELSE rx = None /\ rx' = [at |-> "enter", kind |-> kind, ch |-> c]

\* A release is a note-off, or a note-on without velocity.
Play ==
  \E i \in DOMAIN ports, c \in Channels :
    LET d == ports[i] IN
    /\ \/ /\ <<d, c>> \notin down
          /\ down' = down \cup {<<d, c>>}
          /\ Message(d, c, "on")
       \/ /\ <<d, c>> \in down
          /\ down' = down \ {<<d, c>>}
          /\ Message(d, c, "off") \/ Message(d, c, "on_0")
       \/ Message(d, c, "all_off") /\ UNCHANGED down
    /\ UNCHANGED <<ports, swapped, panel, input, held, lost>>

----------------------------------------------------------------------------
(* The callback.                                                           *)

\* maskAccepts()
maskAccepts(m, ch) == ch \in m

\* One load of the mask decides; a release that is filtered is lost.
Filter ==
  /\ rx # None /\ rx.at = "enter"
  /\ IF engine /\ maskAccepts(mask, rx.ch)
     THEN rx' = [rx EXCEPT !.at = "send"] /\ UNCHANGED lost
     ELSE /\ rx' = None
          /\ lost' = IF rx.kind \in {"off", "on_0"} THEN lost \cup ({rx.ch} \cap held)
                     ELSE lost
  /\ UNCHANGED <<player, panel, input, held>>

\* Every note-on is a press, whatever its velocity.
OnIsOn(kind, ch) ==
  CASE kind \in {"on", "on_0"}    -> held \cup {ch}
    [] kind = "off"               -> held \ {ch}
    [] kind = "all_off"           -> {}

\* What a message asks of the engine.
Effect(kind, ch) ==
  CASE kind = "on"                -> held \cup {ch}
    [] kind \in {"off", "on_0"}   -> held \ {ch}
    [] kind = "all_off"           -> {}

\* The engine's queue takes the message, or it is full and drops it.
Send ==
  /\ rx # None /\ rx.at = "send" /\ rx' = None
  /\ \/ held' = Effect(rx.kind, rx.ch) /\ lost' = lost \cap held'
     \/ /\ UNCHANGED held
        /\ lost' = IF rx.kind \in {"off", "on_0"} THEN lost \cup ({rx.ch} \cap held)
                   ELSE lost
  /\ UNCHANGED <<player, panel, input>>

----------------------------------------------------------------------------
(* open() and close().  closePort() waits for the callback.                *)

close ==
  /\ rx = None
  /\ lost' = lost \cup IF opened = None THEN {} ELSE held
  /\ held' = held

\* open(): an index past the list means the first port; RtMidi may refuse.
\* Without any port the engine stays set and nothing is open.
Opens(idx, refused) ==
  IF ports = <<>> \/ refused
  THEN opened' = None /\ engine' = TRUE
  ELSE opened' = ports[IF idx \in DOMAIN ports THEN idx ELSE 1] /\ engine' = TRUE

----------------------------------------------------------------------------
(* The panel.                                                              *)

\* initFromState(): the first port that opens among those whose name contains
\* the saved one.
InitFromState ==
  /\ gui = "start" /\ gui' = "idle"
  /\ LET fits == {i \in DOMAIN ports : <<shown, ports[i]>> \in Within}
     IN  \E refusing \in SUBSET fits :
           IF fits = {} THEN UNCHANGED <<input, shown>>
           ELSE /\ mask' = wanted
                /\ IF refusing = fits
                   THEN Opens(0, TRUE) /\ UNCHANGED shown
                   ELSE LET i == CHOOSE i \in fits \ refusing :
                                   \A j \in fits \ refusing : i <= j
                        IN  Opens(i, FALSE) /\ shown' = ports[i]
  /\ UNCHANGED <<player, listed, wanted, pick, rx, held, lost>>

Rescan ==
  /\ gui = "idle" /\ listed' = ports
  /\ UNCHANGED <<player, input, shown, wanted, gui, pick, rx, held, lost>>

\* MIDI IN, OFF
PickNone ==
  /\ gui = "idle" /\ close
  /\ opened' = None /\ engine' = FALSE /\ shown' = None
  /\ UNCHANGED <<player, mask, listed, wanted, gui, pick, rx>>

\* MIDI IN, a port: look for it among the ports of now.  If it is there, close
\* what is open and go on to open it; if not, only the list is renewed.
PickPort ==
  /\ gui = "idle" /\ \E k \in DOMAIN listed :
       IF IndexOf(listed[k], ports) # 0
       THEN /\ close
            /\ opened' = None /\ engine' = FALSE /\ mask' = wanted
            /\ gui' = "open"
            /\ pick' = [want |-> listed[k], idx |-> IndexOf(listed[k], ports)]
            /\ swapped' = FALSE
            /\ UNCHANGED listed
       ELSE /\ listed' = ports
            /\ UNCHANGED <<input, gui, pick, held, lost, swapped>>
  /\ UNCHANGED <<ports, down, shown, wanted, rx>>

\* The name is kept if the port opens; it stays the old one if it does not.
OpenPicked ==
  /\ gui = "open" /\ gui' = "idle" /\ pick' = None
  /\ \E refused \in BOOLEAN : Opens(pick.idx, refused)
  /\ shown' = IF opened' # None THEN pick.want ELSE shown
  /\ UNCHANGED <<player, mask, listed, wanted, rx, held, lost>>

\* CHANNEL: the new mask is in force from the next message on.
SwitchChannel ==
  /\ gui = "idle"
  /\ \E c \in Channels : wanted' = (wanted \ {c}) \cup ({c} \ wanted)
  /\ mask' = wanted'
  /\ UNCHANGED <<player, opened, engine, listed, shown, gui, pick, rx, held, lost>>

----------------------------------------------------------------------------
Init ==
  /\ \E d \in Devices : ports \in {<<>>, <<d>>}
  /\ listed = <<>> /\ opened = None /\ engine = FALSE
  /\ mask = Channels /\ shown \in Devices \cup {None}
  /\ wanted \in {Channels, {}}
  /\ gui = "start" /\ pick = None /\ rx = None
  /\ down = {} /\ held = {} /\ lost = {} /\ swapped = FALSE

Next ==
  \/ Plug \/ Unplug \/ Play \/ Filter \/ Send
  \/ InitFromState \/ Rescan \/ PickNone \/ PickPort \/ OpenPicked \/ SwitchChannel

Spec == Init /\ [][Next]_vars

----------------------------------------------------------------------------
(* Properties.                                                             *)

\* A note hangs only if its release had no way to arrive: the device or the
\* port was gone, the channel switched off, or the queue full.  A release that
\* reaches the engine ends the note, whichever of the two forms it has and
\* however the mask changes between the press and the release.
NotesEnd ==
  rx = None => held \subseteq Played \cup lost

\* The port named on the panel is the one that is open, unless the ports
\* changed between the look at the list and the opening.
RightPort ==
  opened # None /\ ~swapped => opened = shown
=============================================================================
