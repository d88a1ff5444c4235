------------------------------ MODULE SampleFile ------------------------------
(***************************************************************************)
(* Reading a sample from disk (wav_reader.cpp, sample_read.cpp,            *)
(* file_handle.cpp): as a WAV file whose header may promise more than the  *)
(* file holds, or as a region of a packed bank, encrypted or not.  A file  *)
(* is a record of the facts its chunks give; its frames are known by their *)
(* numbers, so that a read is the sequence of the frames it returns.       *)
(*                                                                         *)
(* A session reads a file the way the loader and the stream workers do:    *)
(* a peek, a head, then one range after the other.  TrustHeader is a       *)
(* faulty variant of the definition that follows it.                       *)
(***************************************************************************)
EXTENDS Integers, Sequences

CONSTANTS
  Chunks,     \* sequences of "fmt", "data" and "other" a file may begin with
  Sizes,      \* bytes a file may promise or hold
  FrameBytes, \* bytes of a frame (channels * bytes per sample)
  MaxCount    \* frames a reader asks for at once

VARIABLES
  file,       \* the file: see Files
  peeked,     \* frames the loader was told of, or Untold
  off,        \* next frame to ask for
  heard       \* the frames read so far

vars == <<file, peeked, off, heard>>

Untold == -1
Smaller(a, b) == IF a < b THEN a ELSE b

\* A file's kind, its chunks, the bytes of samples that its header or index
\* promises, and those that are there.
Files ==
  [kind : {"wav", "packed"}, chunks : Chunks, promised : Sizes, present : Sizes]

Init ==
  /\ file \in Files
  /\ peeked = Untold /\ off = 0 /\ heard = <<>>

\* parseHeader walks the chunks up to the first data chunk, which must come
\* behind a fmt chunk; others are skipped.
Parsed ==
  \/ file.kind = "packed"
  \/ \E i, j \in DOMAIN file.chunks :
       /\ i < j /\ file.chunks[i] = "fmt" /\ file.chunks[j] = "data"
       /\ \A k \in 1..j - 1 : file.chunks[k] # "data"

TrustHeader == file.promised
\* What lies between the start of the data and the end of the file.
DataBytes == Smaller(file.promised, file.present)

\* Frames of a WAV file; a packed sample has as many as its index says.
Frames == IF file.kind = "wav" THEN DataBytes \div FrameBytes
          ELSE file.promised \div FrameBytes

Invalid == [valid |-> FALSE, frames |-> <<>>]
Read(first, n) == [valid |-> TRUE, frames |-> [i \in 1..n |-> first + i - 1]]

\* PosixFileHandle::readAt: all the bytes or nothing; EINTR is no failure.
ReadAt(last) == last * FrameBytes <= file.present

\* readWavRange: whole frames only, as many as are there, none past the end.
WavRange(first, count) ==
  IF ~Parsed THEN Invalid
  ELSE IF first >= Frames THEN Read(first, 0)
  ELSE Read(first, Smaller(count, Frames - first))

\* readSampleRange of a packed sample: cut to the index, then all or nothing.
BlobRange(first, count) ==
  IF first >= Frames \/ count = 0 THEN Read(first, 0)
  ELSE LET n == Smaller(count, Frames - first)
       IN IF ReadAt(first + n) THEN Read(first, n) ELSE Invalid

ReadSampleRange(first, count) ==
  IF file.kind = "packed" THEN BlobRange(first, count)
  ELSE IF count = 0 THEN Read(first, 0) ELSE WavRange(first, count)

\* readWav, the file as a whole: what fread returns, in whole frames.
ReadWav ==
  IF ~Parsed THEN Invalid
  ELSE Read(0, Smaller(file.promised, file.present) \div FrameBytes)

\* peekWavInfo, or the index of a packed bank.
Peek ==
  /\ peeked = Untold /\ Parsed
  /\ peeked' = Frames
  /\ UNCHANGED <<file, off, heard>>

\* The loader or a worker reads on; an invalid range ends the session.
ReadOn(count) ==
  /\ peeked # Untold /\ off < peeked
  /\ LET range == ReadSampleRange(off, count)
     IN /\ range.valid
        /\ heard' = heard \o range.frames
        /\ off' = off + Len(range.frames)
  /\ UNCHANGED <<file, peeked>>

Next == Peek \/ \E count \in 1..MaxCount : ReadOn(count)

Spec == Init /\ [][Next]_vars
-----------------------------------------------------------------------------
\* Whatever ranges a file is read in, they join without a gap and are the
\* file read as a whole; and of a WAV file, however truncated, a reader gets
\* all that the peek announced (comment wav_reader.cpp:217).
RangesJoin ==
  /\ heard = [i \in 1..off |-> i - 1]
  /\ file.kind = "wav" /\ peeked # Untold =>
       /\ peeked = Len(ReadWav.frames)
       /\ off < peeked => ReadSampleRange(off, 1).frames = <<off>>

=============================================================================
