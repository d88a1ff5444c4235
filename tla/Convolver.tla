------------------------------ MODULE Convolver -------------------------------
(***************************************************************************)
(* The impulse response of the cabinet (convolver.cpp): two slots, one     *)
(* active.  The GUI thread shapes a response from the chosen body and the  *)
(* knobs, writes it into the inactive slot and makes that one active; the  *)
(* audio thread announces in seen_ which slot it reads.                    *)
(*                                                                         *)
(* A response is the record of what it was made from.                      *)
(* SwapAtOnce and PrepareAnew are faulty variants of what follows them.    *)
(***************************************************************************)
EXTENDS Integers

CONSTANTS
  Choices, Knobs, Rates, \* bodies on offer, knob positions, sample rates
  Preempted    \* the audio thread may lose the CPU for a whole publication
               \* between its load of active_ and its store of seen_

Slots == {0, 1}
Nobody == -1

VARIABLES
  ir, active,   \* the slots; which one is in force
  seen,         \* the slot that is being read
  choice, knob, \* cur_choice_; decay_, tone_ and size_ as one
  base,         \* base_ir_: body and rate it was generated for
  rate, enabled,
  gui,          \* setIR: "idle", "wait", "write"
  tmp,          \* the response to publish
  running,      \* the audio device
  block, use    \* process: "out", "loaded", "reading"; the slot it loaded

guiVars == <<gui, tmp, choice, knob, base>>
audioVars == <<block, use, seen>>
vars == <<ir, active, audioVars, guiVars, rate, enabled, running>>

Response == [choice : Choices, rate : Rates, knob : Knobs]
Inactive == 1 - active

Body(c, r) == [choice |-> c, rate |-> r]
Shaped(b, k) == [choice |-> b.choice, rate |-> b.rate, knob |-> k]

Init ==
  /\ choice \in Choices /\ knob \in Knobs /\ rate \in Rates
  /\ base = Body(choice, rate)
  /\ ir = [s \in Slots |-> Shaped(base, knob)] /\ active = 0
  /\ seen = Nobody /\ block = "out" /\ use = 0
  /\ enabled = FALSE /\ running = TRUE
  /\ gui = "idle" /\ tmp = Shaped(base, knob)

\* rebuildIr: the base stretched, damped and filtered by the knobs; setIR.
Rebuild(b, k) ==
  /\ gui = "idle"
  /\ tmp' = Shaped(b, k) /\ gui' = "wait"

selectChoice(c) ==
  /\ Rebuild(Body(c, rate), knob)
  /\ choice' = c /\ base' = Body(c, rate)
  /\ UNCHANGED <<ir, active, audioVars, knob, rate, enabled, running>>

Set(k) ==
  /\ Rebuild(base, k)
  /\ knob' = k
  /\ UNCHANGED <<ir, active, audioVars, choice, base, rate, enabled, running>>

SwapAtOnce ==
  /\ gui = "wait"
  /\ gui' = "write"
  /\ UNCHANGED <<ir, active, audioVars, tmp, choice, knob, base, rate,
                 enabled, running>>

\* setIR waits until the slot is not being read; its 250 ms outlast a block.
\* When nothing preempts the audio thread for so long, no whole publication
\* falls between its load and its announcement.
SlotLeft ==
  /\ gui = "wait"
  /\ seen # Inactive
  /\ Preempted \/ ~(block = "loaded" /\ use = Inactive)
  /\ gui' = "write"
  /\ UNCHANGED <<ir, active, audioVars, tmp, choice, knob, base, rate,
                 enabled, running>>

Publish ==
  /\ gui = "write"
  /\ ir' = [ir EXCEPT ![Inactive] = tmp] /\ active' = Inactive
  /\ gui' = "idle"
  /\ UNCHANGED <<audioVars, tmp, choice, knob, base, rate, enabled, running>>

SetEnabled ==
  /\ gui = "idle"
  /\ enabled' = ~enabled
  /\ UNCHANGED <<ir, active, audioVars, guiVars, rate, running>>
-----------------------------------------------------------------------------
\* A new block size or rate: the device is closed, the chain prepared again.
StopDevice ==
  /\ gui = "idle" /\ block = "out" /\ running
  /\ running' = FALSE
  /\ UNCHANGED <<ir, active, audioVars, guiVars, rate, enabled>>

StartDevice ==
  /\ gui = "idle" /\ ~running
  /\ running' = TRUE
  /\ UNCHANGED <<ir, active, audioVars, guiVars, rate, enabled>>

PrepareAnew(r) ==
  /\ ~running
  /\ rate' = r /\ seen' = Nobody
  /\ Rebuild(Body(0, r), knob)
  /\ base' = Body(0, r)
  /\ UNCHANGED <<ir, active, block, use, choice, knob, enabled, running>>

\* The choice survives; its response is generated for the new rate.
Prepare(r) ==
  /\ ~running
  /\ rate' = r /\ seen' = Nobody
  /\ Rebuild(Body(choice, r), knob)
  /\ base' = Body(choice, r)
  /\ UNCHANGED <<ir, active, block, use, choice, knob, enabled, running>>
-----------------------------------------------------------------------------
(* The audio thread: the chain calls process of every enabled stage.         *)

LoadActive ==
  /\ running /\ enabled /\ block = "out"
  /\ block' = "loaded" /\ use' = active
  /\ UNCHANGED <<ir, active, seen, guiVars, rate, enabled, running>>

Announce ==
  /\ block = "loaded"
  /\ block' = "reading" /\ seen' = use
  /\ UNCHANGED <<ir, active, use, guiVars, rate, enabled, running>>

\* Every way out of process takes the announcement back.
LeaveSlot ==
  /\ block = "reading"
  /\ block' = "out" /\ seen' = Nobody
  /\ UNCHANGED <<ir, active, use, guiVars, rate, enabled, running>>

Next ==
  \/ \E c \in Choices : selectChoice(c)
  \/ \E k \in Knobs : Set(k)
  \/ SlotLeft \/ Publish \/ SetEnabled
  \/ StopDevice \/ StartDevice
  \/ \E r \in Rates : Prepare(r)
  \/ LoadActive \/ Announce \/ LeaveSlot

Spec == Init /\ [][Next]_vars
-----------------------------------------------------------------------------
\* The slot the GUI thread writes (and frees) is not the one a block reads
\* (comment convolver.h:5: two publications within one block do no harm).
SlotAlone == gui = "write" => ~(block = "reading" /\ use = Inactive)

\* When the GUI thread is done, what sounds is what panel and device ask for:
\* the chosen body at the current rate under the current knobs.
InForce ==
  gui = "idle" =>
    ir[active] = [choice |-> choice, rate |-> rate, knob |-> knob]
=============================================================================
