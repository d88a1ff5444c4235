-------------------------------- MODULE Voices --------------------------------
(***************************************************************************)
(* A main voice and a resonance voice, each with a reader of its own, on   *)
(* files of one length and rings of one size.  They share nothing.         *)
(*                                                                         *)
(* This module names their variables apart, states what is assumed of the  *)
(* constants, and names the properties; MCProgress model-checks them,      *)
(* VoiceProofs proves about them.                                          *)
(***************************************************************************)
EXTENDS SampleReader

CONSTANTS
  Steps, \* both
  HeadFrames, RampLength,                        \* main voice
  First, Buffer, SlowRamp, FastRamp, Loudest     \* resonance voice

\* start() leaves a voice without a head silent; the buffer begins in the
\* file; a ramp takes a sample at least (max(1, ...), resonance_voice.cpp:47
\* and :132).  A step of four half frames, a file of twice the device's rate,
\* is the fastest modelled (voice.cpp:110).
ASSUME VoiceAssumption ==
  /\ {Total, Capacity, Threshold, RampLength, Buffer, Loudest} \subseteq Nat
  /\ Steps \subseteq 1..4
  /\ HeadFrames \in Nat \ {0} /\ First \in 0..Total
  /\ {SlowRamp, FastRamp} \subseteq Nat \ {0}

VARIABLES
  vActive, vPos, vInc, head, vRd, onset, rel, vUnder, tail, vBlock,
  rActive, source, rPos, rInc, rRd, gain, target, left, fading, rUnder, rBlock

Main == INSTANCE MainVoice
  WITH active <- vActive, pos <- vPos, inc <- vInc, rd <- vRd,
       under <- vUnder, block <- vBlock

Reso == INSTANCE ResoVoice
  WITH active <- rActive, pos <- rPos, inc <- rInc, rd <- rRd,
       under <- rUnder, block <- rBlock

----------------------------------------------------------------------------
(* The properties of the modules, where they are stated in full.           *)

\* MainVoice and ResoVoice: what is heard is what the position says, in the
\* tail of a stolen note as well.
InPlace == Main!InPlace /\ Main!TailJoins /\ Reso!InPlace
\* MainVoice and ResoVoice: every voice ends, whatever the workers do.
VoiceEnds == Main!VoiceEnds /\ Reso!VoiceEnds
\* ResoVoice: a fade is on its way to silence and never made longer.
FadeRuns == Reso!FadeRuns
=============================================================================
