------------------------------ MODULE VoiceProofs ------------------------------
(***************************************************************************)
(* Proofs about a main voice and a resonance voice, for every file, ring,  *)
(* head, buffer and ramp: what is heard is what the position says, however *)
(* and whenever the workers deliver, and a fade runs to its end.           *)
(***************************************************************************)
EXTENDS Voices, TLAPS

-----------------------------------------------------------------------------
(* The reader, as both voices use it. *)

Rd == [ring : BOOLEAN, off : Int, pend : BOOLEAN, r : Int, w : Int, c : Int,
       idx : Int, lo : Int, hi : Int, eof : BOOLEAN]

\* The window shows two neighbouring frames, one frame late at most, and the
\* next frame of the ring follows the later of them.
Shape(rd) ==
  /\ rd.r = rd.hi + 1
  /\ \/ rd.lo = rd.idx /\ rd.hi = rd.idx + 1
     \/ rd.lo \in {rd.idx - 1, rd.idx} /\ rd.hi = rd.idx

\* Nothing a voice hears has changed.
SameWindow(rd, new) ==
  /\ new.ring = rd.ring /\ new.r = rd.r
  /\ new.idx = rd.idx /\ new.lo = rd.lo /\ new.hi = rd.hi

\* The window alone has changed.
SameRing(rd, new) ==
  new.ring = rd.ring /\ new.off = rd.off /\ new.w = rd.w /\ new.eof = rd.eof

\* The ring holds frames of the file, and its end mark is true.
Flows(rd) ==
  rd.off <= Total /\ rd.r <= rd.w /\ (rd.eof => rd.w = Total)

LEMMA TotalNat == Total \in Nat /\ Capacity \in Nat /\ Threshold \in Nat
BY VoiceAssumption

LEMMA LeastIs ==
  ASSUME NEW a \in Int, NEW b \in Int
  PROVE  /\ Least(a, b) \in {a, b} /\ Least(a, b) \in Int
         /\ Least(a, b) <= a /\ Least(a, b) <= b
BY DEF Least

\* A half frame belongs to the frame it is in.
LEMMA HalfFrames ==
  ASSUME NEW p \in Nat
  PROVE  p \div 2 \in Nat /\ 2 * (p \div 2) <= p /\ p <= 2 * (p \div 2) + 1
OBVIOUS

LEMMA NoRingIs ==
  NoRing \in Rd /\ ~NoRing.ring /\ NoRing.idx = -1
BY DEF NoRing, Rd

LEMMA AskedIs ==
  ASSUME NEW rd \in Rd, NEW want \in Int, NEW new \in Asked(rd, want)
  PROVE  /\ new \in Rd /\ SameWindow(rd, new)
         /\ new.w = rd.w /\ new.eof = rd.eof
         /\ rd.off <= Total /\ rd.off + want <= Total => new.off <= Total
<1>1. CASE new = rd
  BY <1>1 DEF SameWindow
<1>2. CASE new = [rd EXCEPT !.off = @ + want, !.pend = TRUE]
  <2>0. rd.off + want \in Int
    BY DEF Rd
  <2>1. new \in Rd
    BY <1>2, <2>0 DEF Rd
  <2>2. SameWindow(rd, new)
    BY <1>2 DEF SameWindow, Rd
  <2>3. new.w = rd.w /\ new.eof = rd.eof /\ new.off = rd.off + want
    BY <1>2 DEF Rd
  <2> QED
    BY <2>1, <2>2, <2>3
<1> QED
  BY <1>1, <1>2 DEF Asked

\* A reader that begins is not seeded, and its ring is empty.
LEMMA BeginIs ==
  ASSUME NEW first \in Int, NEW rd \in Begin(first)
  PROVE  /\ rd \in Rd /\ rd.idx = -1
         /\ rd.ring => /\ rd.r = first
                       /\ first <= Total => Flows(rd)
<1> DEFINE empty == [NoRing EXCEPT !.ring = TRUE, !.off = first, !.r = first,
                                   !.w = first, !.c = first]
           want == Least(Capacity, Total - first)
<1>1. CASE rd = NoRing
  BY <1>1, NoRingIs
<1>2. CASE rd \in Asked(empty, want)
  <2>1. empty \in Rd
    BY NoRingIs DEF Rd
  <2>a. /\ empty.idx = -1 /\ empty.r = first /\ empty.w = first
        /\ empty.off = first /\ ~empty.eof
    BY DEF NoRing
  <2>2. want \in Int /\ want <= Total - first
    BY LeastIs, TotalNat
  <2>3. first <= Total => first + want <= Total
    <3>1. PICK q \in Int : q = want
      BY <2>2
    <3> QED
      BY <3>1, <2>2, TotalNat
  <2> HIDE DEF empty, want
  <2> QED
    BY <1>2, <2>1, <2>a, <2>2, <2>3, AskedIs DEF SameWindow, Flows
<1> QED
  BY <1>1, <1>2 DEF Begin

LEMMA BeginEofOnlyIs ==
  ASSUME NEW first \in Int, NEW rd \in BeginEofOnly(first)
  PROVE  /\ rd \in Rd /\ rd.idx = -1
         /\ rd.ring => /\ rd.r = first
                       /\ first = Total => Flows(rd)
<1>1. CASE rd = NoRing
  BY <1>1, NoRingIs
<1>2. CASE rd = [NoRing EXCEPT !.ring = TRUE, !.off = first, !.r = first,
                               !.w = first, !.c = first, !.eof = TRUE]
  <2>1. rd \in Rd
    BY <1>2, NoRingIs DEF Rd
  <2>2. /\ rd.idx = -1 /\ rd.r = first /\ rd.w = first /\ rd.off = first
        /\ rd.eof
    BY <1>2 DEF NoRing
  <2> QED
    BY <2>1, <2>2 DEF Flows
<1> QED
  BY <1>1, <1>2 DEF BeginEofOnly

\* The worker appends to the ring, never beyond what was asked for.
LEMMA DeliveredIs ==
  ASSUME NEW rd \in Rd, NEW new \in Delivered(rd)
  PROVE  /\ new \in Rd /\ SameWindow(rd, new)
         /\ Flows(rd) => Flows(new) /\ ~rd.eof
<1>1. PICK k \in rd.w + 1 .. Least(rd.off, rd.c + Capacity) :
             new = [rd EXCEPT !.w = k, !.eof = @ \/ k = Total]
  BY DEF Delivered
<1>2. rd.w \in Int /\ rd.off \in Int /\ rd.c + Capacity \in Int
  BY TotalNat DEF Rd
<1> DEFINE most == Least(rd.off, rd.c + Capacity)
<1>3. most \in Int /\ most <= rd.off
  BY <1>2, LeastIs
<1> HIDE DEF most
<1>4. k \in Int /\ k > rd.w /\ k <= rd.off
  BY <1>1, <1>2, <1>3 DEF most
<1>5. new \in Rd
  BY <1>1, <1>4 DEF Rd
<1>6. SameWindow(rd, new)
  BY <1>1 DEF SameWindow, Rd
<1>7. new.off = rd.off /\ new.w = k /\ new.eof = (rd.eof \/ k = Total)
  BY <1>1 DEF Rd
<1>8. Flows(rd) => Flows(new) /\ ~rd.eof
  <2>1. rd.r \in Int /\ rd.w \in Int /\ rd.off \in Int /\ Total \in Int
    BY TotalNat DEF Rd
  <2>2. ASSUME Flows(rd) PROVE new.off <= Total /\ new.r <= new.w
    BY <2>1, <2>2, <1>4, <1>6, <1>7 DEF Flows, SameWindow
  <2>3. ASSUME Flows(rd), rd.eof PROVE FALSE
    BY <2>1, <2>3, <1>4 DEF Flows
  <2>4. ASSUME Flows(rd), new.eof PROVE new.w = Total
    BY <2>3, <2>4, <1>7
  <2> QED
    BY <2>2, <2>3, <2>4 DEF Flows
<1> QED
  BY <1>5, <1>6, <1>8

LEMMA RefillIs ==
  ASSUME NEW rd \in Rd, NEW new \in Refill(rd)
  PROVE  /\ new \in Rd /\ SameWindow(rd, new)
         /\ new.w = rd.w /\ new.eof = rd.eof
         /\ Flows(rd) => Flows(new)
<1> DEFINE seen == [rd EXCEPT !.c = rd.r,
                              !.pend = @ /\ Available(rd) < Capacity \div 2]
           want == Least(Capacity - Available(rd), Total - rd.off)
<1>1. seen \in Rd /\ SameWindow(rd, seen) /\ SameRing(rd, seen)
  BY DEF SameWindow, SameRing, Rd
<1>2. want \in Int /\ want <= Total - rd.off
  <2>1. rd.w - rd.r \in Int /\ rd.off \in Int
    BY DEF Rd
  <2>2. Capacity - Available(rd) \in Int /\ Total - rd.off \in Int
    BY <2>1, TotalNat DEF Available
  <2> HIDE DEF want
  <2> QED
    BY <2>2, LeastIs DEF want
<1>3. seen.off + want <= Total
  <2>1. PICK q \in Int : q = want
    BY <1>2
  <2> QED
    BY <2>1, <1>1, <1>2, TotalNat DEF Rd, SameRing
<1>4. new = seen \/ new \in Asked(seen, want)
  BY DEF Refill
<1> HIDE DEF seen, want
<1>5. CASE new = seen
  BY <1>5, <1>1 DEF SameRing, SameWindow, Flows
<1>6. CASE new \in Asked(seen, want)
  BY <1>6, <1>1, <1>2, <1>3, AskedIs
     DEF SameRing, SameWindow, Flows
<1> QED
  BY <1>4, <1>5, <1>6

\* The window opens on the last frame in memory.
LEMMA SeedIs ==
  ASSUME NEW rd \in Rd, NEW last \in Int
  PROVE  LET new == Seed(rd, last)
         IN /\ new \in Rd /\ new.idx = last /\ SameRing(rd, new)
            /\ rd.r = last + 1 => Shape(new)
            /\ Flows(rd) => Flows(new)
<1> DEFINE open == [rd EXCEPT !.idx = last, !.lo = last, !.hi = last]
           full == [open EXCEPT !.hi = rd.r, !.r = @ + 1]
<1>1. open \in Rd /\ full \in Rd
  <2>1. open \in Rd /\ rd.r \in Int
    BY DEF Rd
  <2> HIDE DEF open
  <2>2. PICK next \in Int : next = open.r + 1
    BY <2>1 DEF Rd
  <2>3. [open EXCEPT !.hi = rd.r, !.r = next] \in Rd
    BY <2>1 DEF Rd
  <2> QED
    BY <2>1, <2>2, <2>3
<1>2. open.idx = last /\ open.lo = last /\ open.hi = last /\ open.r = rd.r
  BY DEF Rd
<1>3. full.idx = last /\ full.lo = last /\ full.hi = rd.r /\ full.r = rd.r + 1
  BY <1>1, <1>2 DEF Rd
<1>4. SameRing(rd, open) /\ SameRing(rd, full)
  BY DEF SameRing, Rd
<1>5. Seed(rd, last) \in {open, full}
  BY DEF Seed
<1> HIDE DEF open, full
<1>6. rd.r = last + 1 => Shape(open) /\ Shape(full)
  BY <1>2, <1>3 DEF Shape
<1>7. ASSUME Flows(rd)
      PROVE  Flows(Seed(rd, last))
  <2>1. rd.r \in Int /\ rd.w \in Int
    BY DEF Rd
  <2>2. Available(rd) > 0 => Flows(full)
    BY <2>1, <1>3, <1>4, <1>7 DEF Flows, SameRing, Available
  <2>3. Flows(open)
    BY <2>1, <1>2, <1>4, <1>7 DEF Flows, SameRing
  <2>4. Available(rd) > 0 => Seed(rd, last) = full
    BY DEF Seed, open, full
  <2>5. ~(Available(rd) > 0) => Seed(rd, last) = open
    BY DEF Seed, open
  <2> QED
    BY <2>2, <2>3, <2>4, <2>5
<1> QED
  BY <1>1, <1>2, <1>3, <1>4, <1>5, <1>6, <1>7

\* The window moves to the frame it is sent to, or ends on the last frame of
\* the ring.
LEMMA AdvanceIs ==
  ASSUME NEW rd \in Rd, NEW goal \in Int
  PROVE  LET new == Advance(rd, goal)
         IN /\ new \in Rd /\ SameRing(rd, new)
            /\ Shape(rd) /\ rd.idx <= goal =>
                 /\ ~RingEmpty(new, goal) => new.idx = goal /\ Shape(new)
                 /\ RingEmpty(new, goal) =>
                      /\ new.r = new.w /\ new.hi = new.w - 1 /\ new.lo = new.hi
                      /\ Flows(rd) => rd.idx <= new.idx
            /\ Flows(rd) => Flows(new)
            /\ rd.r = rd.w /\ rd.lo = rd.hi =>
                 /\ new.r = rd.r /\ new.idx = rd.idx
                 /\ new.lo = rd.lo /\ new.hi = rd.hi
<1> DEFINE k == goal - rd.idx
           last == IF Available(rd) = 0 THEN rd.hi ELSE rd.w - 1
           moved == [rd EXCEPT !.idx = goal, !.r = @ + k, !.hi = rd.r + k - 1,
                               !.lo = IF k = 1 THEN rd.hi ELSE rd.r + k - 2]
           dry == [rd EXCEPT !.idx = @ + Available(rd), !.r = rd.w,
                             !.lo = last, !.hi = last]
<1>1. /\ rd.idx \in Int /\ rd.r \in Int /\ rd.w \in Int
      /\ rd.lo \in Int /\ rd.hi \in Int
  BY DEF Rd
<1>2. PICK a \in Int : a = Available(rd)
  BY <1>1 DEF Available
<1>3. last \in Int /\ (Shape(rd) => last = rd.w - 1)
  BY <1>1, <1>2 DEF Available, Shape
<1>4. CASE k <= 0
  <2>1. Advance(rd, goal) = rd
    BY <1>4 DEF Advance
  <2> QED
    BY <2>1, <1>1, <1>4 DEF SameRing, RingEmpty
<1>5. CASE k > 0 /\ k <= Available(rd)
  <2>1. Advance(rd, goal) = moved
    BY <1>5, <1>1 DEF Advance
  <2>2. moved \in Rd
    <3>1. PICK r \in Int, lo \in Int, hi \in Int :
            /\ r = rd.r + k /\ hi = rd.r + k - 1
            /\ lo = IF k = 1 THEN rd.hi ELSE rd.r + k - 2
      BY <1>1
    <3>2. [rd EXCEPT !.idx = goal, !.r = r, !.hi = hi, !.lo = lo] \in Rd
      BY DEF Rd
    <3> QED
      BY <3>1, <3>2
  <2>3. SameRing(rd, moved)
    BY DEF SameRing, Rd
  <2>4. /\ moved.idx = goal /\ moved.r = rd.r + k
        /\ moved.hi = rd.r + k - 1
        /\ moved.lo = IF k = 1 THEN rd.hi ELSE rd.r + k - 2
    BY DEF Rd
  <2> HIDE DEF moved
  <2>5. Shape(rd) => Shape(moved)
    <3>1. PICK i \in Int, r \in Int, hi \in Int : i = rd.idx /\ r = rd.r /\ hi = rd.hi
      BY <1>1
    <3>2. CASE goal = i + 1
      <4>1. moved.lo = hi /\ moved.hi = r /\ moved.r = r + 1 /\ moved.idx = i + 1
        BY <2>4, <3>1, <3>2
      <4> QED
        BY <4>1, <3>1 DEF Shape
    <3>3. CASE goal # i + 1
      <4>1. moved.lo = moved.hi - 1 /\ moved.hi = r + (goal - i) - 1
            /\ moved.r = r + (goal - i) /\ moved.idx = goal
        BY <2>4, <3>1, <3>3
      <4> QED
        BY <4>1, <3>1 DEF Shape
    <3> QED
      BY <3>2, <3>3
  <2>6. Flows(rd) => Flows(moved)
    BY <2>3, <2>4, <1>1, <1>5 DEF Flows, SameRing, Available
  <2>7. rd.r # rd.w
    BY <1>1, <1>5 DEF Available
  <2>8. ~RingEmpty(moved, goal)
    BY <2>4 DEF RingEmpty
  <2> QED
    BY <2>1, <2>2, <2>3, <2>4, <2>5, <2>6, <2>7, <2>8
<1>6. CASE k > Available(rd) /\ ~(k <= 0)
  <2>1. Advance(rd, goal) = dry
    BY <1>6, <1>1, <1>2 DEF Advance
  <2>2. dry \in Rd
    <3>1. PICK idx \in Int, r \in Int, lo \in Int :
            idx = rd.idx + Available(rd) /\ r = rd.w /\ lo = last
      BY <1>1, <1>2, <1>3
    <3>2. [rd EXCEPT !.idx = idx, !.r = r, !.lo = lo, !.hi = lo] \in Rd
      BY DEF Rd
    <3> QED
      BY <3>1, <3>2
  <2>3. SameRing(rd, dry)
    BY DEF SameRing, Rd
  <2>4. dry.r = rd.w /\ dry.lo = last /\ dry.hi = last /\ dry.w = rd.w
        /\ dry.idx = rd.idx + Available(rd)
    BY DEF Rd
  <2> HIDE DEF dry, last
  <2>5. RingEmpty(dry, goal)
    BY <2>4, <1>1, <1>2, <1>6 DEF RingEmpty
  <2>6. Flows(rd) => Flows(dry) /\ rd.idx <= dry.idx
    BY <2>3, <2>4, <1>1, <1>2 DEF Flows, SameRing, Available
  <2>7. rd.r = rd.w /\ rd.lo = rd.hi =>
          /\ dry.r = rd.r /\ dry.idx = rd.idx
          /\ dry.lo = rd.lo /\ dry.hi = rd.hi
    BY <2>4, <1>1 DEF Available, last
  <2> QED
    BY <2>1, <2>2, <2>3, <2>4, <2>5, <2>6, <2>7, <1>3
<1>7. k <= 0 \/ (k > 0 /\ k <= Available(rd)) \/ (k > Available(rd) /\ ~(k <= 0))
  BY <1>1, <1>2
<1> QED
  BY <1>4, <1>5, <1>6, <1>7

-----------------------------------------------------------------------------
(* The main voice. *)

\* The main voice's reader is the one of the lemmas.
LEMMA MainReader ==
  /\ Main!NoRing = NoRing
  /\ \A first : Main!Begin(first) = Begin(first)
  /\ \A rd : /\ Main!Seeded(rd) = Seeded(rd)
             /\ Main!Refill(rd) = Refill(rd)
             /\ Main!Delivered(rd) = Delivered(rd)
             /\ Main!Available(rd) = Available(rd)
  /\ \A rd, k : /\ Main!Seed(rd, k) = Seed(rd, k)
                /\ Main!Advance(rd, k) = Advance(rd, k)
                /\ Main!RingEmpty(rd, k) = RingEmpty(rd, k)
                /\ Main!Least(rd, k) = Least(rd, k)
<1>1. Main!NoRing = NoRing
  BY DEF Main!NoRing, NoRing
<1>2. ASSUME NEW a, NEW b PROVE Main!Least(a, b) = Least(a, b)
  BY DEF Main!Least, Least
<1>3. ASSUME NEW rd, NEW k PROVE Main!Asked(rd, k) = Asked(rd, k)
  BY DEF Main!Asked, Asked
<1>4. ASSUME NEW first PROVE Main!Begin(first) = Begin(first)
  BY <1>1, <1>2, <1>3 DEF Main!Begin, Begin
<1>5. ASSUME NEW rd PROVE Main!Available(rd) = Available(rd)
  BY DEF Main!Available, Available
<1>6. ASSUME NEW rd PROVE Main!Seeded(rd) = Seeded(rd)
  BY DEF Main!Seeded, Seeded
<1>7. ASSUME NEW rd PROVE Main!Refill(rd) = Refill(rd)
  BY <1>2, <1>3, <1>5 DEF Main!Refill, Refill
<1>8. ASSUME NEW rd PROVE Main!Delivered(rd) = Delivered(rd)
  BY <1>2 DEF Main!Delivered, Delivered
<1>9. ASSUME NEW rd, NEW k PROVE Main!Seed(rd, k) = Seed(rd, k)
  BY <1>5 DEF Main!Seed, Seed
<1>10. ASSUME NEW rd, NEW k PROVE Main!Advance(rd, k) = Advance(rd, k)
  BY <1>5 DEF Main!Advance, Advance
<1>11. ASSUME NEW rd, NEW k PROVE Main!RingEmpty(rd, k) = RingEmpty(rd, k)
  BY DEF Main!RingEmpty, RingEmpty
<1> QED
  BY <1>1, <1>2, <1>4, <1>5, <1>6, <1>7, <1>8, <1>9, <1>10, <1>11

\* The sample that is played next is at most two frames beyond the window,
\* which is behind the head; an unopened window waits for the first frame there.
MainFollows ==
  IF Seeded(vRd)
  THEN /\ HeadFrames - 1 <= vRd.idx
       /\ vRd.idx <= Main!Frame /\ Main!Frame <= vRd.idx + 2
       /\ Shape(vRd)
  ELSE vRd.r = HeadFrames /\ Main!Frame <= HeadFrames

MainTyped ==
  /\ vPos \in Nat /\ vPos <= Main!LastPos /\ vInc \in Steps
  /\ head \in Nat /\ vRd \in Rd /\ vUnder \in Int /\ vUnder >= -1

MainInv ==
  /\ MainTyped
  /\ vActive /\ vRd.ring => head = HeadFrames
  /\ vActive /\ vRd.ring /\ vUnder = -1 => MainFollows

LEMMA LastPosNat == Main!LastPos \in Nat
BY VoiceAssumption DEF Main!LastPos

LEMMA MainInit ==
  ASSUME Main!Init
  PROVE  MainInv
<1>1. /\ vPos = 0 /\ vInc \in Steps /\ vRd = NoRing /\ vUnder = -1 /\ ~vActive
      /\ head \in Nat
  BY MainReader, VoiceAssumption DEF Main!Init, Main!NoRamp
<1> QED
  BY <1>1, NoRingIs, LastPosNat DEF MainInv, MainTyped

\* A step goes two frames on at most, and never back.
LEMMA StepIs ==
  ASSUME NEW p \in Nat, NEW i \in Steps, NEW most \in Nat, p <= most
  PROVE  LET q == Least(p + i, most)
         IN /\ q \in Nat /\ q <= most
            /\ p \div 2 <= q \div 2 /\ q \div 2 <= p \div 2 + 2
<1>1. i \in 1..4
  BY VoiceAssumption
<1>2. PICK q \in Nat : q = Least(p + i, most)
  BY <1>1 DEF Least
<1>3. q <= most /\ p <= q /\ q <= p + 4
  BY <1>1, <1>2 DEF Least
<1>4. PICK f \in Nat, g \in Nat : f = p \div 2 /\ g = q \div 2
  BY HalfFrames
<1>5. 2 * f <= p /\ p <= 2 * f + 1 /\ 2 * g <= q /\ q <= 2 * g + 1
  BY <1>4, HalfFrames
<1>6. f <= g /\ g <= f + 2
  BY <1>3, <1>5
<1> QED
  BY <1>2, <1>3, <1>4, <1>6

LEMMA FrameNat ==
  ASSUME MainTyped
  PROVE  Main!Frame \in Nat
BY HalfFrames DEF MainTyped, Main!Frame

\* Every window a sample behind the head may find.
LEMMA MainWindow ==
  ASSUME MainInv, vActive, vRd.ring, vUnder = -1, ~Main!InHead,
         NEW window \in Main!Windows
  PROVE  /\ window \in Rd /\ window.ring
         /\ Shape(window) /\ window.idx <= Main!Frame
<1>1. vRd \in Rd /\ head = HeadFrames /\ HeadFrames \in Nat \ {0} /\ MainFollows
  BY VoiceAssumption DEF MainInv, MainTyped
<1>2. CASE Seeded(vRd)
  BY <1>1, <1>2, MainReader DEF Main!Windows, MainFollows
<1>3. CASE ~Seeded(vRd)
  <2>1. PICK last \in Int : last = head - 1
    BY <1>1
  <2>2. PICK open : open = Seed(vRd, last)
    OBVIOUS
  <2>3. vRd.r = last + 1
    BY <1>1, <1>3, <2>1 DEF MainFollows
  <2>4. open \in Rd /\ open.idx = last /\ Shape(open) /\ SameRing(vRd, open)
    BY <1>1, <2>2, <2>3, SeedIs
  <2>5. last <= Main!Frame
    BY <1>1, <2>1, FrameNat DEF Main!InHead, MainInv
  <2>6. window = open \/ window \in Delivered(open)
    BY <1>3, <2>1, <2>2, MainReader DEF Main!Windows
  <2>7. CASE window = open
    BY <2>7, <2>4, <2>5 DEF SameRing
  <2>8. CASE window \in Delivered(open)
    <3>1. window \in Rd /\ SameWindow(open, window)
      BY <2>4, <2>8, DeliveredIs
    <3> QED
      BY <3>1, <2>4, <2>5 DEF SameWindow, SameRing, Shape
  <2> QED
    BY <2>6, <2>7, <2>8
<1> QED
  BY <1>2, <1>3

\* A sample from the ring that starts no fade has the window where it is.
LEMMA MainHeard ==
  ASSUME MainInv, vActive, vRd.ring, vUnder = -1, ~Main!InHead,
         NEW window \in Main!Windows, Main!FromRing(window)
  PROVE  /\ vRd' \in Rd /\ vRd'.ring
         /\ vUnder' \in Int /\ vUnder' >= -1
         /\ vUnder' = -1 => vRd'.idx = Main!Frame /\ Shape(vRd')
<1>1. /\ window \in Rd /\ window.ring
      /\ Shape(window) /\ window.idx <= Main!Frame
  BY MainWindow
<1>2. PICK moved : moved = Advance(window, Main!Frame)
  OBVIOUS
<1>3. Main!Frame \in Int
  BY FrameNat DEF MainInv
<1>4. /\ moved \in Rd /\ SameRing(window, moved)
      /\ ~RingEmpty(moved, Main!Frame) => moved.idx = Main!Frame /\ Shape(moved)
  BY <1>1, <1>2, <1>3, AdvanceIs
<1>5. /\ vRd' = moved
      /\ vUnder' = Main!Less(IF RingEmpty(moved, Main!Frame)
                             THEN RampLength ELSE -1)
  BY <1>2, MainReader DEF Main!FromRing, Main!NoRamp
<1>6. RampLength \in Nat
  BY VoiceAssumption
<1>7. vRd' \in Rd /\ vRd'.ring
  BY <1>1, <1>4, <1>5 DEF SameRing
<1>8. CASE RingEmpty(moved, Main!Frame)
  <2>1. vUnder' = Main!Less(RampLength)
    BY <1>5, <1>8
  <2>2. vUnder' \in Int /\ vUnder' >= -1 /\ vUnder' # -1
    BY <2>1, <1>6 DEF Main!Less
  <2> QED
    BY <2>2, <1>7
<1>9. CASE ~RingEmpty(moved, Main!Frame)
  <2>1. vUnder' = -1
    BY <1>5, <1>9 DEF Main!Less
  <2>2. vRd'.idx = Main!Frame /\ Shape(vRd')
    BY <1>4, <1>5, <1>9
  <2> QED
    BY <2>1, <2>2, <1>7
<1> QED
  BY <1>8, <1>9

\* What a sample from the ring keeps even while the voice fades out.
LEMMA MainRingTyped ==
  ASSUME MainTyped, NEW window \in Main!Windows, Main!FromRing(window)
  PROVE  /\ vRd' \in Rd /\ vUnder' \in Int /\ vUnder' >= -1
         /\ vUnder # -1 => vUnder' # -1
<1>1. window \in Rd
  <2>1. CASE Seeded(vRd)
    BY <2>1, MainReader DEF Main!Windows, MainTyped
  <2>2. CASE ~Seeded(vRd)
    <3>1. PICK last \in Int : last = head - 1
      BY DEF MainTyped
    <3>2. Seed(vRd, last) \in Rd
      BY SeedIs DEF MainTyped
    <3>3. window = Seed(vRd, last) \/ window \in Delivered(Seed(vRd, last))
      BY <2>2, <3>1, MainReader DEF Main!Windows
    <3> QED
      BY <3>2, <3>3, DeliveredIs
  <2> QED
    BY <2>1, <2>2
<1>2. PICK moved : moved = Advance(window, Main!Frame)
  OBVIOUS
<1>3. moved \in Rd
  BY <1>1, <1>2, AdvanceIs, FrameNat
<1>4. PICK from : /\ from \in {vUnder, RampLength} /\ vUnder' = Main!Less(from)
                  /\ vUnder # -1 => from = vUnder
  BY <1>2, MainReader DEF Main!FromRing, Main!NoRamp
<1>5. from \in Int /\ from >= -1
  BY <1>4, VoiceAssumption DEF MainTyped
<1>6. /\ vUnder' \in Int /\ vUnder' >= -1
      /\ vUnder # -1 => vUnder' # -1
  <2>1. Main!Less(from) \in Int /\ Main!Less(from) >= -1
    BY <1>5 DEF Main!Less
  <2>2. from # -1 => Main!Less(from) # -1
    BY <1>5 DEF Main!Less
  <2> QED
    BY <2>1, <2>2, <1>4
<1>7. vRd' = moved
  BY <1>2, MainReader DEF Main!FromRing
<1> QED
  BY <1>3, <1>6, <1>7

\* The reader may be refilled while the voice stands still.
LEMMA MainStill ==
  ASSUME MainInv, UNCHANGED <<vPos, vInc, head, vUnder>>,
         vRd' \in Rd, vActive' => vActive,
         vActive' /\ vRd'.ring => vRd.ring /\ SameWindow(vRd, vRd')
  PROVE  MainInv'
<1>1. MainTyped'
  BY DEF MainInv, MainTyped, Main!LastPos
<1>2. vActive' /\ vRd'.ring => head' = HeadFrames
  BY DEF MainInv
<1>3. ASSUME vActive', vRd'.ring, vUnder' = -1
      PROVE  MainFollows'
  <2>1. MainFollows /\ SameWindow(vRd, vRd')
    BY <1>3 DEF MainInv
  <2>2. Main!Frame' = Main!Frame
    BY DEF Main!Frame
  <2> QED
    BY <2>1, <2>2 DEF MainFollows, SameWindow, Seeded, Shape
<1> QED
  BY <1>1, <1>2, <1>3 DEF MainInv

LEMMA MainStart ==
  ASSUME NEW short \in BOOLEAN, NEW step \in Steps, Main!Start(short, step)
  PROVE  MainInv'
<1>1. HeadFrames \in Nat \ {0} /\ Total \in Nat
  BY VoiceAssumption
<1>2. vPos' = 0 /\ vInc' = step /\ vUnder' = -1 /\ head' \in Nat
  BY <1>1 DEF Main!Start, Main!NoRamp
<1>3. vRd' = NoRing \/ (~short /\ vRd' \in Begin(HeadFrames))
  <2>1. vRd' \in IF short THEN {NoRing} ELSE Begin(HeadFrames)
    BY MainReader DEF Main!Start
  <2>2. CASE short
    BY <2>1, <2>2
  <2>3. CASE ~short
    BY <2>1, <2>3
  <2> QED
    BY <2>2, <2>3
<1>4. /\ vRd' \in Rd /\ vRd'.idx = -1
      /\ vRd'.ring => vRd'.r = HeadFrames /\ head' = HeadFrames
  <2>1. CASE vRd' = NoRing
    BY <2>1, NoRingIs
  <2>2. CASE ~short /\ vRd' \in Begin(HeadFrames)
    <3>1. head' = HeadFrames
      BY <2>2 DEF Main!Start
    <3> QED
      BY <3>1, <2>2, <1>1, BeginIs
  <2> QED
    BY <1>3, <2>1, <2>2
<1>5. Main!Frame' = 0
  <2>1. Main!Frame' = 0 \div 2
    BY <1>2 DEF Main!Frame
  <2> QED
    BY <2>1
<1>6. MainTyped'
  BY <1>2, <1>4, LastPosNat DEF MainTyped, Main!LastPos
<1>7. vRd'.ring => MainFollows'
  BY <1>1, <1>4, <1>5 DEF MainFollows, Seeded
<1> QED
  BY <1>4, <1>6, <1>7 DEF MainInv

LEMMA MainPlay ==
  ASSUME MainInv, Main!PlaySample
  PROVE  MainInv'
<1>1. MainTyped /\ vActive /\ Main!LastPos \in Nat /\ HeadFrames \in Nat \ {0}
  BY LastPosNat, VoiceAssumption DEF MainInv, Main!PlaySample
<1>2. UNCHANGED <<vInc, head>> /\ vPos' = Least(vPos + vInc, Main!LastPos)
  BY MainReader DEF Main!PlaySample
<1>3. /\ vPos' \in Nat /\ vPos' <= Main!LastPos
      /\ Main!Frame <= Main!Frame' /\ Main!Frame' <= Main!Frame + 2
      /\ Main!Frame' \in Nat
  <2>1. PICK q : q = Least(vPos + vInc, Main!LastPos)
    OBVIOUS
  <2>2. /\ q \in Nat /\ q <= Main!LastPos
        /\ vPos \div 2 <= q \div 2 /\ q \div 2 <= vPos \div 2 + 2
    BY <1>1, <2>1, StepIs DEF MainTyped
  <2>3. q \div 2 \in Nat
    BY <2>2, HalfFrames
  <2> QED
    BY <1>2, <2>1, <2>2, <2>3 DEF Main!Frame
<1>4. CASE Main!InHead /\ UNCHANGED <<vRd, vUnder>>
  <2>1. MainTyped'
    BY <1>1, <1>2, <1>3, <1>4 DEF MainTyped, Main!LastPos
  <2>2. vRd'.ring => head' = HeadFrames
    BY <1>1, <1>2, <1>4 DEF MainInv
  <2>3. ASSUME vRd'.ring, vUnder' = -1
        PROVE  MainFollows'
    <3>1. MainFollows /\ head = HeadFrames
      BY <1>1, <1>4, <2>3 DEF MainInv
    <3>2. Main!Frame < HeadFrames - 1
      BY <3>1, <1>4 DEF Main!InHead
    <3>3. Main!Frame' <= HeadFrames
      BY <1>1, <1>3, <3>2, FrameNat
    <3>4. CASE ~Seeded(vRd)
      BY <3>1, <3>3, <3>4, <1>4 DEF MainFollows, Seeded
    <3>5. CASE Seeded(vRd)
      BY <3>1, <3>2, <3>5, <1>1, FrameNat DEF MainFollows, MainTyped, Rd
    <3> QED
      BY <3>4, <3>5
  <2> QED
    BY <2>1, <2>2, <2>3 DEF MainInv
<1>5. ASSUME ~Main!InHead, vRd.ring, NEW window \in Main!Windows,
             Main!FromRing(window)
      PROVE  MainInv'
  <2>1. /\ vRd' \in Rd /\ vUnder' \in Int /\ vUnder' >= -1
        /\ vUnder # -1 => vUnder' # -1
    BY <1>1, <1>5, MainRingTyped
  <2>2. MainTyped'
    BY <1>1, <1>2, <1>3, <2>1 DEF MainTyped, Main!LastPos
  <2>3. head' = HeadFrames
    BY <1>1, <1>2, <1>5 DEF MainInv
  <2>4. ASSUME vUnder' = -1
        PROVE  MainFollows'
    <3>1. vRd'.idx = Main!Frame /\ Shape(vRd')
      BY <1>1, <1>5, <2>1, <2>4, MainHeard
    <3>2. Main!Frame \in Nat /\ HeadFrames - 1 <= Main!Frame
      <4>1. head = HeadFrames
        BY <1>1, <1>5 DEF MainInv
      <4> QED
        BY <4>1, <1>1, <1>5, FrameNat DEF Main!InHead
    <3> QED
      BY <3>1, <3>2, <1>3 DEF MainFollows, Seeded
  <2> QED
    BY <2>2, <2>3, <2>4 DEF MainInv
<1> QED
  BY <1>4, <1>5 DEF Main!PlaySample

LEMMA MainKeeps ==
  ASSUME MainInv, [Main!Next]_(Main!vars)
  PROVE  MainInv'
<1>1. ASSUME NEW short \in BOOLEAN, NEW step \in Steps, Main!Start(short, step)
      PROVE  MainInv'
  BY <1>1, MainStart
<1>2. CASE \/ Main!Release \/ Main!OpenBlock \/ Main!PlayTail
           \/ Main!PlayPastHead \/ UNCHANGED Main!vars
  <2>1. UNCHANGED <<vPos, vInc, head, vRd, vUnder>> /\ (vActive' => vActive)
    BY <1>2 DEF Main!Release, Main!OpenBlock, Main!PlayTail,
                Main!PlayPastHead, Main!vars
  <2> QED
    BY <2>1, MainStill DEF MainInv, MainTyped, SameWindow
<1>3. CASE Main!PrepareDamp
  BY <1>3, MainStill, MainReader, NoRingIs DEF Main!PrepareDamp
<1>4. CASE Main!HardStop
  <2>1. /\ UNCHANGED <<vPos, vInc, head>> /\ vRd' = NoRing /\ vUnder' = -1
        /\ ~vActive'
    BY <1>4, MainReader DEF Main!HardStop, Main!NoRamp
  <2> QED
    BY <2>1, NoRingIs DEF MainInv, MainTyped, Main!LastPos
<1>5. CASE Main!PlaySample
  BY <1>5, MainPlay
<1>6. CASE Main!CloseBlock
  <2>1. /\ UNCHANGED <<vPos, vInc, head, vUnder, vActive>>
        /\ vRd' \in IF vActive /\ vRd.ring THEN Refill(vRd) ELSE {NoRing}
    BY <1>6, MainReader DEF Main!CloseBlock
  <2>2. CASE vActive /\ vRd.ring /\ vRd' \in Refill(vRd)
    <3>1. vRd' \in Rd /\ SameWindow(vRd, vRd')
      BY <2>2, RefillIs DEF MainInv, MainTyped
    <3> QED
      BY <2>1, <2>2, <3>1, MainStill
  <2>3. CASE vRd' = NoRing
    BY <2>1, <2>3, NoRingIs, MainStill
  <2> QED
    BY <2>1, <2>2, <2>3
<1>7. CASE Main!Worker
  <2>1. /\ UNCHANGED <<vPos, vInc, head, vUnder, vActive>>
        /\ vRd.ring /\ vRd' \in Delivered(vRd)
    BY <1>7, MainReader DEF Main!Worker
  <2>2. vRd' \in Rd /\ SameWindow(vRd, vRd')
    BY <2>1, DeliveredIs DEF MainInv, MainTyped
  <2> QED
    BY <2>1, <2>2, MainStill
<1> QED
  BY <1>1, <1>2, <1>3, <1>4, <1>5, <1>6, <1>7 DEF Main!Next, Main!Sample

\* What is heard is what the position says, and so is the tail that the voice
\* leaves (voice.cpp:20).
THEOREM MainIsInPlace ==
  Main!Spec => Main!InPlace /\ Main!TailJoins
<1>1. ASSUME MainInv, Main!PlaySample, ~Main!InHead, vUnder' = -1
      PROVE  /\ vRd'.lo \in {Main!Frame - 1, Main!Frame}
             /\ vRd'.hi \in {vRd'.lo, vRd'.lo + 1}
  <2>1. PICK window \in Main!Windows : vActive /\ vRd.ring /\ Main!FromRing(window)
    BY <1>1 DEF Main!PlaySample
  <2>2. vUnder = -1
    BY <1>1, <2>1, MainRingTyped DEF MainInv
  <2>3. vRd' \in Rd /\ vRd'.idx = Main!Frame /\ Shape(vRd')
    BY <1>1, <2>1, <2>2, MainHeard
  <2> QED
    BY <2>3 DEF Shape, Rd
<1>2. ASSUME MainInv, Main!PrepareDamp, vUnder = -1, tail'.left > 0
      PROVE  tail'.from - Main!Frame \in -1..2
  <2>1. MainTyped /\ vActive /\ Main!Frame \in Nat
    BY <1>1, <1>2, FrameNat DEF MainInv, Main!PrepareDamp
  <2>2. CASE Main!Frame < head
    <3>1. tail'.from = Main!Frame
      BY <1>2, <2>2 DEF Main!PrepareDamp
    <3> QED
      BY <2>1, <3>1
  <2>3. CASE ~(Main!Frame < head) /\ vRd.ring
    <3>1. tail'.from = vRd.r
      BY <1>2, <2>3 DEF Main!PrepareDamp
    <3>2. MainFollows /\ head = HeadFrames /\ vRd \in Rd
      BY <1>2, <2>1, <2>3 DEF MainInv, MainTyped
    <3>3. CASE Seeded(vRd)
      BY <2>1, <3>1, <3>2, <3>3 DEF MainFollows, Shape, Rd
    <3>4. CASE ~Seeded(vRd)
      BY <2>1, <2>3, <3>1, <3>2, <3>4 DEF MainFollows, MainTyped, Rd
    <3> QED
      BY <3>3, <3>4
  <2>4. CASE ~(Main!Frame < head) /\ ~vRd.ring
    <3>1. tail'.left = 0
      BY <1>2, <2>4 DEF Main!PrepareDamp, Main!NoTail
    <3> QED
      BY <1>2, <3>1
  <2> QED
    BY <2>2, <2>3, <2>4
<1>3. MainInv /\ [Main!Next]_(Main!vars) =>
        /\ [Main!PlaySample /\ ~Main!InHead /\ vUnder' = Main!NoRamp =>
              /\ vRd'.lo \in {Main!Frame - 1, Main!Frame}
              /\ vRd'.hi \in {vRd'.lo, vRd'.lo + 1}]_(Main!vars)
        /\ [Main!PrepareDamp /\ vUnder = Main!NoRamp /\ tail'.left > 0 =>
              tail'.from - Main!Frame \in -1..2]_(Main!vars)
  BY <1>1, <1>2 DEF Main!NoRamp
<1> QED
  BY <1>3, MainInit, MainKeeps, PTL
     DEF Main!Spec, Main!InPlace, Main!TailJoins

-----------------------------------------------------------------------------
(* The resonance voice. *)

\* Its reader is the one of the lemmas as well.
LEMMA ResoReader ==
  /\ Reso!NoRing = NoRing
  /\ \A first : /\ Reso!Begin(first) = Begin(first)
                /\ Reso!BeginEofOnly(first) = BeginEofOnly(first)
  /\ \A rd : /\ Reso!Seeded(rd) = Seeded(rd)
             /\ Reso!Refill(rd) = Refill(rd)
             /\ Reso!Delivered(rd) = Delivered(rd)
             /\ Reso!Available(rd) = Available(rd)
  /\ \A rd, k : /\ Reso!Seed(rd, k) = Seed(rd, k)
                /\ Reso!Advance(rd, k) = Advance(rd, k)
                /\ Reso!RingEmpty(rd, k) = RingEmpty(rd, k)
                /\ Reso!Least(rd, k) = Least(rd, k)
<1>1. Reso!NoRing = NoRing
  BY DEF Reso!NoRing, NoRing
<1>2. ASSUME NEW a, NEW b PROVE Reso!Least(a, b) = Least(a, b)
  BY DEF Reso!Least, Least
<1>3. ASSUME NEW rd, NEW k PROVE Reso!Asked(rd, k) = Asked(rd, k)
  BY DEF Reso!Asked, Asked
<1>4. ASSUME NEW first PROVE Reso!Begin(first) = Begin(first)
  BY <1>1, <1>2, <1>3 DEF Reso!Begin, Begin
<1>5. ASSUME NEW first PROVE Reso!BeginEofOnly(first) = BeginEofOnly(first)
  BY <1>1 DEF Reso!BeginEofOnly, BeginEofOnly
<1>6. ASSUME NEW rd PROVE Reso!Available(rd) = Available(rd)
  BY DEF Reso!Available, Available
<1>7. ASSUME NEW rd PROVE Reso!Seeded(rd) = Seeded(rd)
  BY DEF Reso!Seeded, Seeded
<1>8. ASSUME NEW rd PROVE Reso!Refill(rd) = Refill(rd)
  BY <1>2, <1>3, <1>6 DEF Reso!Refill, Refill
<1>9. ASSUME NEW rd PROVE Reso!Delivered(rd) = Delivered(rd)
  BY <1>2 DEF Reso!Delivered, Delivered
<1>10. ASSUME NEW rd, NEW k PROVE Reso!Seed(rd, k) = Seed(rd, k)
  BY <1>6 DEF Reso!Seed, Seed
<1>11. ASSUME NEW rd, NEW k PROVE Reso!Advance(rd, k) = Advance(rd, k)
  BY <1>6 DEF Reso!Advance, Advance
<1>12. ASSUME NEW rd, NEW k PROVE Reso!RingEmpty(rd, k) = RingEmpty(rd, k)
  BY DEF Reso!RingEmpty, RingEmpty
<1> QED
  BY <1>1, <1>2, <1>4, <1>5, <1>6, <1>7, <1>8, <1>9, <1>10, <1>11, <1>12

----------------------------------------------------------------------------
(* The fade. *)

\* A resonance that fades has silence for its target and time to get there.
FadeInv ==
  /\ left \in Nat
  /\ rActive /\ fading => target = 0 /\ left > 0

LEMMA FadeKeeps ==
  ASSUME FadeInv, [Reso!Next]_(Reso!vars)
  PROVE  FadeInv' /\ (rActive /\ fading /\ rActive' => fading' /\ left' <= left)
<1> USE VoiceAssumption DEF FadeInv
<1>1. ASSUME NEW from \in {"cache", "stream", "full"}, NEW step \in Steps,
             NEW level \in 1..Loudest, Reso!Start(from, step, level)
      PROVE  FadeInv' /\ ~rActive
  BY <1>1 DEF Reso!Start
<1>2. ASSUME NEW more \in 1..Loudest, Reso!AddExcitation(more)
      PROVE  FadeInv' /\ ~fading
  BY <1>2 DEF Reso!AddExcitation
<1>3. CASE Reso!FadeOut
  BY <1>3 DEF Reso!FadeOut
<1>4. CASE Reso!HardStop
  BY <1>4 DEF Reso!HardStop
<1>5. CASE Reso!OpenBlock
  <2>1. CASE fading /\ UNCHANGED <<target, left, fading, rActive>>
    BY <2>1
  <2>2. CASE ~fading /\ target' = 0 /\ fading' = TRUE /\ left' = FastRamp
    BY <2>2
  <2>3. ASSUME ~fading, NEW level, Reso!SetTargetGain(level)
        PROVE  FadeInv'
    <3>1. /\ left' = SlowRamp
          /\ target' = IF level <= 1 THEN 0 ELSE level
          /\ fading' = (level <= 1)
      BY <2>3 DEF Reso!SetTargetGain, Reso!TargetEpsilon
    <3>2. left' \in Nat /\ left' > 0
      BY <3>1
    <3>3. fading' => target' = 0
      BY <3>1
    <3> QED
      BY <3>2, <3>3
  <2>4. UNCHANGED rActive
    BY <1>5 DEF Reso!OpenBlock
  <2> QED
    BY <1>5, <2>1, <2>2, <2>3, <2>4 DEF Reso!OpenBlock
<1>6. CASE Reso!PlaySample
  <2>1. /\ UNCHANGED <<target, fading>>
        /\ left' = IF left > 0 THEN left - 1 ELSE 0
        /\ gain' \in IF left <= 1 THEN {target}
                     ELSE Reso!Least(gain, target) .. Reso!Most(gain, target)
    BY <1>6 DEF Reso!PlaySample, Reso!RampMoves
  <2>2. rActive' => ~(fading /\ gain' = 0)
    BY <1>6, <2>1 DEF Reso!PlaySample, Reso!FromRing, Reso!Survives
  <2>3. left' \in Nat /\ left' <= left
    BY <2>1
  <2>4. ASSUME rActive', fading
        PROVE  target = 0 /\ left' > 0
    <3>1. rActive
      BY <1>6 DEF Reso!PlaySample
    <3>2. target = 0 /\ left > 0
      BY <2>4, <3>1
    <3>3. ~(left <= 1)
      BY <2>1, <2>2, <2>4, <3>2
    <3> QED
      BY <2>1, <3>2, <3>3
  <2> QED
    BY <2>1, <2>3, <2>4
<1>7. CASE \/ Reso!PlayPastMemory \/ Reso!CloseBlock \/ Reso!Worker
           \/ UNCHANGED Reso!vars
  <2>1. UNCHANGED <<target, left, fading>> /\ (rActive' => rActive)
    BY <1>7 DEF Reso!PlayPastMemory, Reso!CloseBlock, Reso!Worker, Reso!vars
  <2> QED
    BY <2>1
<1> QED
  BY <1>1, <1>2, <1>3, <1>4, <1>5, <1>6, <1>7 DEF Reso!Next, Reso!Sample

\* A fade ends in silence, and no block makes it longer
\* (resonance_voice.cpp:116).
THEOREM FadesRun ==
  Reso!Spec => FadeRuns
<1>1. Reso!Init => FadeInv
  BY DEF Reso!Init, FadeInv
<1>2. FadeInv /\ [Reso!Next]_(Reso!vars) =>
        [rActive /\ fading /\ rActive' => fading' /\ left' <= left]_(Reso!vars)
  BY FadeKeeps
<1>3. FadeInv => (rActive /\ fading => target = 0 /\ left > 0)
  BY DEF FadeInv
<1> QED
  BY <1>1, <1>2, <1>3, FadeKeeps, PTL DEF Reso!Spec, FadeRuns, Reso!FadeRuns

----------------------------------------------------------------------------
(* The window of a resonance.                                              *)

\* The end of the file is held.
AtEnd(rd) ==
  /\ rd.eof /\ rd.r = Total /\ rd.w = Total
  /\ rd.lo = Total - 1 /\ rd.hi = Total - 1 /\ rd.idx >= 0

\* The window is not beyond the sample that is played next; an unopened one
\* waits for the first frame behind the memory; or the end is held.
ResoFollows ==
  /\ Flows(rRd)
  /\ \/ /\ Seeded(rRd) /\ Reso!ResEnd - 1 <= rRd.idx
        /\ rRd.idx <= Reso!Frame /\ Shape(rRd)
     \/ ~Seeded(rRd) /\ rRd.r = Reso!ResEnd
     \/ AtEnd(rRd)

ResoTyped ==
  /\ rPos \in Nat /\ rPos <= Reso!LastPos /\ rInc \in Steps
  /\ rRd \in Rd /\ rUnder \in Int /\ rUnder >= -1

ResoInv ==
  /\ ResoTyped
  /\ rActive => 2 * First <= rPos
  /\ rActive /\ rRd.ring => source # "full"
  /\ rActive /\ rRd.ring /\ rUnder = -1 => ResoFollows

LEMMA ConstantsAre ==
  /\ Total \in Nat /\ First \in Nat /\ First <= Total
  /\ Buffer \in Nat /\ FastRamp \in Nat /\ Reso!LastPos \in Nat
  /\ 2 * First <= Reso!LastPos
BY VoiceAssumption DEF Reso!LastPos

\* The buffer ends in the file.
LEMMA MemoryIs ==
  /\ Reso!Cached \in Nat /\ Reso!ResEnd \in Nat
  /\ Reso!ResEnd = First + Reso!Cached /\ Reso!ResEnd <= Total
BY ConstantsAre DEF Reso!Cached, Reso!ResEnd, Reso!Least

LEMMA ResoFrameNat ==
  ASSUME ResoTyped
  PROVE  Reso!Frame \in Nat
BY HalfFrames DEF ResoTyped, Reso!Frame

\* Behind the memory is behind its last frame.
LEMMA BehindMemory ==
  ASSUME ResoInv, rActive, rRd.ring, ~Reso!InMemory
  PROVE  Reso!ResEnd - 1 <= Reso!Frame
<1>1. First <= Reso!Frame /\ Reso!Frame \in Nat
  <2>1. rPos \in Nat /\ 2 * First <= rPos /\ First \in Nat
    BY ConstantsAre DEF ResoInv, ResoTyped
  <2>2. PICK f \in Nat : f = Reso!Frame
    BY ResoFrameNat DEF ResoInv
  <2>3. rPos <= 2 * f + 1
    BY <2>1, <2>2, HalfFrames DEF Reso!Frame
  <2> QED
    BY <2>1, <2>2, <2>3
<1>2. ~(Reso!Frame < Reso!ResEnd - 1 /\ Reso!Cached > 1)
  BY DEF ResoInv, Reso!InMemory
<1> QED
  BY <1>1, <1>2, MemoryIs, ConstantsAre

LEMMA ResoInit ==
  ASSUME Reso!Init
  PROVE  ResoInv
<1>1. rPos = 0 /\ rInc \in Steps /\ rRd = NoRing /\ rUnder = -1 /\ ~rActive
  BY ResoReader DEF Reso!Init, Reso!NoRamp
<1> QED
  BY <1>1, NoRingIs, ConstantsAre DEF ResoInv, ResoTyped

\* Every window a sample behind the memory may find.
LEMMA ResoWindow ==
  ASSUME ResoInv, rActive, rRd.ring, rUnder = -1, ~Reso!InMemory,
         NEW window \in Reso!Windows
  PROVE  /\ window \in Rd /\ window.ring /\ Flows(window)
         /\ \/ /\ Shape(window) /\ window.idx <= Reso!Frame
               /\ Reso!ResEnd - 1 <= window.idx
            \/ AtEnd(window)
<1>1. rRd \in Rd /\ ResoFollows
  BY DEF ResoInv, ResoTyped
<1>2. CASE Seeded(rRd)
  BY <1>1, <1>2, ResoReader DEF Reso!Windows, ResoFollows
<1>3. CASE ~Seeded(rRd)
  <2>1. PICK last \in Int : last = Reso!ResEnd - 1
    BY MemoryIs
  <2>2. PICK open : open = Seed(rRd, last)
    OBVIOUS
  <2>3. rRd.r = last + 1 /\ Flows(rRd)
    <3>1. ~AtEnd(rRd)
      BY <1>1, <1>3 DEF AtEnd, Seeded
    <3>2. rRd.r = Reso!ResEnd /\ Flows(rRd)
      BY <1>1, <1>3, <3>1 DEF ResoFollows
    <3> QED
      BY <2>1, <3>2, MemoryIs
  <2>4. /\ open \in Rd /\ open.idx = last /\ Shape(open) /\ SameRing(rRd, open)
        /\ Flows(open)
    BY <1>1, <2>2, <2>3, SeedIs
  <2>5. last <= Reso!Frame /\ Reso!ResEnd - 1 <= last
    BY <2>1, BehindMemory, MemoryIs
  <2>6. window = open \/ window \in Delivered(open)
    BY <1>3, <2>1, <2>2, ResoReader DEF Reso!Windows
  <2>7. CASE window = open
    BY <2>7, <2>4, <2>5 DEF SameRing
  <2>8. CASE window \in Delivered(open)
    <3>1. window \in Rd /\ SameWindow(open, window) /\ Flows(window)
      BY <2>4, <2>8, DeliveredIs
    <3> QED
      BY <3>1, <2>4, <2>5 DEF SameWindow, SameRing, Shape
  <2> QED
    BY <2>6, <2>7, <2>8
<1> QED
  BY <1>2, <1>3

\* What a sample from the ring keeps even while the voice fades out.
LEMMA ResoRingTyped ==
  ASSUME ResoTyped, NEW window \in Reso!Windows, Reso!FromRing(window)
  PROVE  /\ rRd' \in Rd /\ rUnder' \in Int /\ rUnder' >= -1
         /\ rUnder # -1 => rUnder' # -1
<1>1. window \in Rd
  <2>1. CASE Seeded(rRd)
    BY <2>1, ResoReader DEF Reso!Windows, ResoTyped
  <2>2. CASE ~Seeded(rRd)
    <3>1. PICK last \in Int : last = Reso!ResEnd - 1
      BY MemoryIs
    <3>2. Seed(rRd, last) \in Rd
      BY SeedIs DEF ResoTyped
    <3>3. window = Seed(rRd, last) \/ window \in Delivered(Seed(rRd, last))
      BY <2>2, <3>1, ResoReader DEF Reso!Windows
    <3> QED
      BY <3>2, <3>3, DeliveredIs
  <2> QED
    BY <2>1, <2>2
<1>2. PICK moved : moved = Advance(window, Reso!Frame)
  OBVIOUS
<1>3. moved \in Rd
  BY <1>1, <1>2, AdvanceIs, ResoFrameNat
<1>4. rRd' = Reso!Held(moved)
  BY <1>2, ResoReader DEF Reso!FromRing
<1>5. rRd' \in Rd
  <2>1. CASE rRd' = moved
    BY <2>1, <1>3
  <2>2. CASE rRd' = [moved EXCEPT !.hi = moved.lo, !.idx = @ + 1]
    <3>1. moved.lo \in Int /\ moved.idx \in Int
      BY <1>3 DEF Rd
    <3>2. PICK idx \in Int : idx = moved.idx + 1
      BY <3>1
    <3>3. [moved EXCEPT !.hi = moved.lo, !.idx = idx] \in Rd
      BY <1>3, <3>1 DEF Rd
    <3> QED
      BY <2>2, <3>2, <3>3
  <2> QED
    BY <2>1, <2>2, <1>4 DEF Reso!Held
<1>6. PICK from : /\ from \in {rUnder, FastRamp}
                  /\ rUnder' = IF from > 0 THEN from - 1 ELSE from
                  /\ rUnder # -1 => from = rUnder
  BY <1>2, ResoReader DEF Reso!FromRing, Reso!NoRamp
<1>7. from \in Int /\ from >= -1
  BY <1>6, ConstantsAre DEF ResoTyped
<1>8. /\ rUnder' \in Int /\ rUnder' >= -1
      /\ rUnder # -1 => rUnder' # -1
  BY <1>6, <1>7
<1> QED
  BY <1>5, <1>8

\* At the end of the file the later frame is forgotten.
LEMMA HeldIs ==
  ASSUME NEW rd \in Rd
  PROVE  LET new == Reso!Held(rd)
             held == RingEmpty(rd, Reso!Frame) /\ rd.eof
         IN /\ SameRing(rd, new) /\ new.r = rd.r /\ new.lo = rd.lo
            /\ held => new.hi = rd.lo /\ new.idx = rd.idx + 1
            /\ ~held => new = rd
<1> DEFINE held == RingEmpty(rd, Reso!Frame) /\ rd.eof
           late == [rd EXCEPT !.hi = rd.lo, !.idx = @ + 1]
<1>1. /\ late.hi = rd.lo /\ late.idx = rd.idx + 1 /\ late.lo = rd.lo
      /\ late.r = rd.r /\ SameRing(rd, late)
  BY DEF Rd, SameRing
<1>2. ~held => Reso!Held(rd) = rd
  BY ResoReader DEF Reso!Held
<1>3. held => Reso!Held(rd) = late
  BY ResoReader DEF Reso!Held
<1> HIDE DEF held, late
<1>4. SameRing(rd, rd)
  BY DEF SameRing
<1> QED
  BY <1>1, <1>2, <1>3, <1>4 DEF held

\* A sample from the ring that starts no fade has the window where it is, or
\* holds the last frame.
LEMMA ResoHeard ==
  ASSUME ResoInv, rActive, rRd.ring, rUnder = -1, ~Reso!InMemory,
         NEW window \in Reso!Windows, Reso!FromRing(window), rUnder' = -1
  PROVE  /\ Flows(rRd')
         /\ \/ rRd'.idx = Reso!Frame /\ Shape(rRd')
            \/ AtEnd(rRd')
<1>1. /\ window \in Rd /\ Flows(window)
      /\ \/ /\ Shape(window) /\ window.idx <= Reso!Frame
            /\ Reso!ResEnd - 1 <= window.idx
         \/ AtEnd(window)
  BY ResoWindow
<1>2. PICK moved : moved = Advance(window, Reso!Frame)
  OBVIOUS
<1>3. Reso!Frame \in Int
  BY ResoFrameNat DEF ResoInv
<1>4. /\ moved \in Rd /\ SameRing(window, moved) /\ Flows(moved)
      /\ Shape(window) /\ window.idx <= Reso!Frame =>
           /\ ~RingEmpty(moved, Reso!Frame) =>
                moved.idx = Reso!Frame /\ Shape(moved)
           /\ RingEmpty(moved, Reso!Frame) =>
                /\ moved.r = moved.w /\ moved.hi = moved.w - 1
                /\ moved.lo = moved.hi /\ window.idx <= moved.idx
      /\ window.r = window.w /\ window.lo = window.hi =>
           /\ moved.r = window.r /\ moved.idx = window.idx
           /\ moved.lo = window.lo /\ moved.hi = window.hi
  BY <1>1, <1>2, <1>3, AdvanceIs
<1>5. rRd' = Reso!Held(moved)
  BY <1>2, ResoReader DEF Reso!FromRing
<1>6. ~(RingEmpty(moved, Reso!Frame) /\ ~moved.eof)
  <2>1. SUFFICES ASSUME RingEmpty(moved, Reso!Frame), ~moved.eof
                 PROVE  FALSE
    OBVIOUS
  <2>2. rUnder' = IF FastRamp > 0 THEN FastRamp - 1 ELSE FastRamp
    BY <1>2, <2>1, ResoReader DEF Reso!FromRing, Reso!NoRamp
  <2> QED
    BY <2>2, ConstantsAre
<1> DEFINE held == RingEmpty(moved, Reso!Frame) /\ moved.eof
<1>7. /\ SameRing(moved, rRd') /\ rRd'.r = moved.r /\ rRd'.lo = moved.lo
      /\ held => rRd'.hi = moved.lo /\ rRd'.idx = moved.idx + 1
      /\ ~held => rRd' = moved
  BY <1>4, <1>5, HeldIs
<1>8. Flows(rRd')
  BY <1>4, <1>7 DEF Flows, SameRing
<1>9. CASE AtEnd(window)
  <2>1. AtEnd(moved)
    BY <1>4, <1>9 DEF AtEnd, SameRing
  <2>2. moved.idx \in Int
    BY <1>4 DEF Rd
  <2> QED
    BY <2>1, <2>2, <1>7, <1>8 DEF AtEnd, SameRing
<1>10. CASE /\ Shape(window) /\ window.idx <= Reso!Frame
            /\ Reso!ResEnd - 1 <= window.idx
  <2>1. CASE ~held
    <3>1. ~RingEmpty(moved, Reso!Frame)
      BY <2>1, <1>6
    <3> QED
      BY <3>1, <2>1, <1>4, <1>7, <1>8, <1>10
  <2>2. CASE held
    <3>1. /\ moved.r = moved.w /\ moved.hi = moved.w - 1
          /\ moved.lo = moved.hi /\ window.idx <= moved.idx
          /\ moved.w = Total
      BY <2>2, <1>4, <1>10 DEF Flows
    <3>2. rRd'.eof /\ rRd'.r = Total /\ rRd'.w = Total
      BY <3>1, <2>2, <1>7 DEF SameRing
    <3>3. rRd'.lo = Total - 1 /\ rRd'.hi = Total - 1
      BY <3>1, <2>2, <1>7
    <3>4. rRd'.idx >= 0
      <4>1. PICK i \in Int, j \in Int : i = window.idx /\ j = moved.idx
        BY <1>1, <1>4 DEF Rd
      <4>2. j + 1 >= 0
        BY <4>1, <3>1, <1>10, MemoryIs
      <4> QED
        BY <4>1, <4>2, <2>2, <1>7
    <3> QED
      BY <3>2, <3>3, <3>4, <1>8 DEF AtEnd
  <2> HIDE DEF held
  <2> QED
    BY <2>1, <2>2
<1> QED
  BY <1>1, <1>9, <1>10

\* The reader may be refilled while the voice stands still.
LEMMA ResoStill ==
  ASSUME ResoInv, UNCHANGED <<rPos, rInc, source, rUnder>>,
         rRd' \in Rd, rActive' => rActive,
         rActive' /\ rRd'.ring => rRd.ring /\ SameWindow(rRd, rRd'),
         rActive' /\ rRd'.ring /\ rUnder = -1 =>
           (Flows(rRd) => Flows(rRd')) /\ (AtEnd(rRd) => AtEnd(rRd'))
  PROVE  ResoInv'
<1>1. ResoTyped'
  BY DEF ResoInv, ResoTyped, Reso!LastPos
<1>2. rActive' => 2 * First <= rPos'
  BY DEF ResoInv
<1>3. rActive' /\ rRd'.ring => source' # "full"
  BY DEF ResoInv
<1>4. ASSUME rActive', rRd'.ring, rUnder' = -1
      PROVE  ResoFollows'
  <2>1. /\ ResoFollows /\ SameWindow(rRd, rRd')
        /\ (Flows(rRd) => Flows(rRd')) /\ (AtEnd(rRd) => AtEnd(rRd'))
    BY <1>4 DEF ResoInv
  <2>2. Reso!Frame' = Reso!Frame /\ Reso!ResEnd' = Reso!ResEnd
    BY DEF Reso!Frame, Reso!ResEnd, Reso!Cached
  <2>3. Flows(rRd)' = Flows(rRd') /\ AtEnd(rRd)' = AtEnd(rRd')
    BY DEF Flows, AtEnd
  <2> QED
    BY <2>1, <2>2, <2>3 DEF ResoFollows, SameWindow, Seeded, Shape
<1> QED
  BY <1>1, <1>2, <1>3, <1>4 DEF ResoInv

LEMMA ResoStart ==
  ASSUME NEW from \in {"cache", "stream", "full"}, NEW step \in Steps,
         NEW level, Reso!Start(from, step, level)
  PROVE  ResoInv'
<1>1. /\ rPos' = 2 * First /\ rInc' = step /\ rUnder' = -1 /\ source' = from
      /\ rRd' \in IF from = "full" THEN {NoRing}
                  ELSE IF Reso!ResEnd' >= Total THEN BeginEofOnly(Reso!ResEnd')
                  ELSE Begin(Reso!ResEnd')
  BY ResoReader DEF Reso!Start, Reso!NoRamp
<1>2. PICK end : end = Reso!ResEnd'
  OBVIOUS
<1>3. end \in Nat /\ end <= Total
  BY <1>2, ConstantsAre DEF Reso!Cached, Reso!ResEnd, Reso!Least
<1>4. /\ rRd' \in Rd /\ rRd'.idx = -1
      /\ rRd'.ring => from # "full" /\ rRd'.r = end /\ Flows(rRd')
  <2>1. CASE from = "full"
    BY <1>1, <2>1, NoRingIs
  <2>2. CASE from # "full" /\ end >= Total
    <3>1. rRd' \in BeginEofOnly(end) /\ end = Total
      BY <1>1, <1>2, <1>3, <2>2, ConstantsAre
    <3> QED
      BY <3>1, <1>3, <2>2, BeginEofOnlyIs
  <2>3. CASE from # "full" /\ ~(end >= Total)
    <3>1. rRd' \in Begin(end)
      BY <1>1, <1>2, <2>3
    <3> QED
      BY <3>1, <1>3, <2>3, BeginIs
  <2> QED
    BY <2>1, <2>2, <2>3
<1>5. ResoTyped'
  BY <1>1, <1>4, ConstantsAre DEF ResoTyped, Reso!LastPos
<1>6. rRd'.ring => ResoFollows'
  <2>1. Flows(rRd)' = Flows(rRd')
    BY DEF Flows
  <2> QED
    BY <2>1, <1>2, <1>4 DEF ResoFollows, Seeded
<1>7. 2 * First <= rPos'
  BY <1>1, ConstantsAre
<1> QED
  BY <1>1, <1>4, <1>5, <1>6, <1>7 DEF ResoInv

LEMMA ResoPlay ==
  ASSUME ResoInv, Reso!PlaySample
  PROVE  ResoInv'
<1>1. ResoTyped /\ rActive /\ 2 * First <= rPos
  BY DEF ResoInv, Reso!PlaySample
<1>2. UNCHANGED <<rInc, source>> /\ rPos' = Least(rPos + rInc, Reso!LastPos)
  BY ResoReader DEF Reso!PlaySample
<1>3. /\ rPos' \in Nat /\ rPos' <= Reso!LastPos /\ 2 * First <= rPos'
      /\ Reso!Frame <= Reso!Frame' /\ Reso!Frame' \in Nat
  <2>1. PICK q : q = Least(rPos + rInc, Reso!LastPos)
    OBVIOUS
  <2>2. /\ q \in Nat /\ q <= Reso!LastPos /\ rPos \div 2 <= q \div 2
    BY <1>1, <2>1, StepIs, ConstantsAre DEF ResoTyped
  <2>3. q \div 2 \in Nat
    BY <2>2, HalfFrames
  <2>4. rInc \in 1..4 /\ rPos \in Nat
    BY <1>1, VoiceAssumption DEF ResoTyped
  <2>5. 2 * First <= q
    BY <2>1, <2>4, <1>1, ConstantsAre DEF Least
  <2> QED
    BY <1>2, <2>1, <2>2, <2>3, <2>5 DEF Reso!Frame
<1>4. Reso!ResEnd' = Reso!ResEnd /\ Reso!LastPos' = Reso!LastPos
  BY <1>2 DEF Reso!ResEnd, Reso!Cached, Reso!LastPos
<1>5. Flows(rRd)' = Flows(rRd') /\ AtEnd(rRd)' = AtEnd(rRd')
  BY DEF Flows, AtEnd
<1>6. CASE Reso!InMemory /\ UNCHANGED <<rRd, rUnder>>
  <2>1. ResoTyped'
    BY <1>1, <1>2, <1>3, <1>4, <1>6 DEF ResoTyped
  <2>2. rRd'.ring => source' # "full"
    BY <1>1, <1>2, <1>6 DEF ResoInv
  <2>3. ASSUME rRd'.ring, rUnder' = -1
        PROVE  ResoFollows'
    <3>1. ResoFollows /\ rRd' = rRd
      BY <1>1, <1>6, <2>3 DEF ResoInv
    <3>2. rRd \in Rd /\ Reso!Frame \in Nat
      BY <1>1, ResoFrameNat DEF ResoTyped
    <3>3. rRd.idx <= Reso!Frame => rRd.idx <= Reso!Frame'
      BY <3>2, <1>3 DEF Rd
    <3> QED
      BY <3>1, <3>3, <1>4, <1>5 DEF ResoFollows, Seeded, Shape
  <2> QED
    BY <2>1, <2>2, <2>3, <1>3 DEF ResoInv
<1>7. ASSUME ~Reso!InMemory, rRd.ring, NEW window \in Reso!Windows,
             Reso!FromRing(window)
      PROVE  ResoInv'
  <2>1. /\ rRd' \in Rd /\ rUnder' \in Int /\ rUnder' >= -1
        /\ rUnder # -1 => rUnder' # -1
    BY <1>1, <1>7, ResoRingTyped
  <2>2. ResoTyped'
    BY <1>1, <1>2, <1>3, <1>4, <2>1 DEF ResoTyped
  <2>3. source' # "full"
    BY <1>1, <1>2, <1>7 DEF ResoInv
  <2>4. ASSUME rUnder' = -1
        PROVE  ResoFollows'
    <3>1. rUnder = -1
      BY <2>1, <2>4
    <3>2. /\ Flows(rRd')
          /\ \/ rRd'.idx = Reso!Frame /\ Shape(rRd')
             \/ AtEnd(rRd')
      BY <1>1, <1>7, <2>4, <3>1, ResoHeard
    <3>3. CASE AtEnd(rRd')
      BY <3>2, <3>3, <1>5 DEF ResoFollows
    <3>4. CASE rRd'.idx = Reso!Frame /\ Shape(rRd')
      <4>1. Reso!ResEnd - 1 <= Reso!Frame /\ Reso!Frame \in Nat
        BY <1>1, <1>7, BehindMemory, ResoFrameNat
      <4>2. rRd'.idx # -1 /\ Reso!ResEnd' - 1 <= rRd'.idx
            /\ rRd'.idx <= Reso!Frame'
        BY <4>1, <3>4, <1>3, <1>4
      <4> QED
        BY <4>2, <3>2, <3>4, <1>5 DEF ResoFollows, Seeded, Shape
    <3> QED
      BY <3>2, <3>3, <3>4
  <2> QED
    BY <2>2, <2>3, <2>4, <1>3 DEF ResoInv
<1> QED
  BY <1>6, <1>7 DEF Reso!PlaySample

LEMMA ResoKeeps ==
  ASSUME ResoInv, [Reso!Next]_(Reso!vars)
  PROVE  ResoInv'
<1>1. ASSUME NEW from \in {"cache", "stream", "full"}, NEW step \in Steps,
             NEW level \in 1..Loudest, Reso!Start(from, step, level)
      PROVE  ResoInv'
  BY <1>1, ResoStart
<1>2. CASE \/ \E more \in 1..Loudest : Reso!AddExcitation(more)
           \/ Reso!FadeOut \/ Reso!OpenBlock \/ Reso!PlayPastMemory
           \/ UNCHANGED Reso!vars
  <2>1. UNCHANGED <<rPos, rInc, source, rRd, rUnder>> /\ (rActive' => rActive)
    BY <1>2 DEF Reso!AddExcitation, Reso!FadeOut, Reso!OpenBlock,
                Reso!PlayPastMemory, Reso!vars
  <2> QED
    BY <2>1, ResoStill DEF ResoInv, ResoTyped, SameWindow
<1>3. CASE Reso!HardStop
  <2>1. /\ UNCHANGED <<rPos, rInc>> /\ rRd' = NoRing /\ rUnder' = -1
        /\ ~rActive'
    BY <1>3, ResoReader DEF Reso!HardStop, Reso!NoRamp
  <2> QED
    BY <2>1, NoRingIs DEF ResoInv, ResoTyped, Reso!LastPos
<1>4. CASE Reso!PlaySample
  BY <1>4, ResoPlay
<1>5. CASE Reso!CloseBlock
  <2>1. /\ UNCHANGED <<rPos, rInc, source, rUnder, rActive>>
        /\ rRd' \in IF rActive /\ rRd.ring THEN Refill(rRd) ELSE {NoRing}
    BY <1>5, ResoReader DEF Reso!CloseBlock
  <2>2. CASE rActive /\ rRd.ring /\ rRd' \in Refill(rRd)
    <3>1. /\ rRd' \in Rd /\ SameWindow(rRd, rRd')
          /\ rRd'.w = rRd.w /\ rRd'.eof = rRd.eof
          /\ Flows(rRd) => Flows(rRd')
      BY <2>2, RefillIs DEF ResoInv, ResoTyped
    <3>2. AtEnd(rRd) => AtEnd(rRd')
      BY <3>1 DEF AtEnd, SameWindow
    <3> QED
      BY <2>1, <2>2, <3>1, <3>2, ResoStill
  <2>3. CASE rRd' = NoRing
    BY <2>1, <2>3, NoRingIs, ResoStill
  <2> QED
    BY <2>1, <2>2, <2>3
<1>6. CASE Reso!Worker
  <2>1. /\ UNCHANGED <<rPos, rInc, source, rUnder, rActive>>
        /\ rRd.ring /\ rRd' \in Delivered(rRd)
    BY <1>6, ResoReader DEF Reso!Worker
  <2>2. /\ rRd' \in Rd /\ SameWindow(rRd, rRd')
        /\ Flows(rRd) => Flows(rRd') /\ ~rRd.eof
    BY <2>1, DeliveredIs DEF ResoInv, ResoTyped
  <2>3. rUnder = -1 /\ rActive => ~AtEnd(rRd)
    BY <2>1, <2>2 DEF ResoInv, ResoFollows, AtEnd
  <2> QED
    BY <2>1, <2>2, <2>3, ResoStill
<1> QED
  BY <1>1, <1>2, <1>3, <1>4, <1>5, <1>6 DEF Reso!Next, Reso!Sample

\* A resonance sounds where its position is, and past the end of its file the
\* last frame is held.
THEOREM ResoIsInPlace ==
  Reso!Spec => Reso!InPlace
<1>1. ASSUME ResoInv, Reso!PlaySample, ~Reso!InMemory, rUnder' = -1
      PROVE  /\ rRd'.lo \in {Reso!Frame - 1, Reso!Frame, Total - 1}
             /\ rRd'.hi \in {rRd'.lo, rRd'.lo + 1}
  <2>1. PICK window \in Reso!Windows : rActive /\ rRd.ring /\ Reso!FromRing(window)
    BY <1>1 DEF Reso!PlaySample
  <2>2. rUnder = -1 /\ rRd' \in Rd
    BY <1>1, <2>1, ResoRingTyped DEF ResoInv
  <2>3. \/ rRd'.idx = Reso!Frame /\ Shape(rRd')
        \/ AtEnd(rRd')
    BY <1>1, <2>1, <2>2, ResoHeard
  <2> QED
    BY <2>2, <2>3 DEF Shape, AtEnd, Rd
<1>2. ResoInv /\ [Reso!Next]_(Reso!vars) =>
        [Reso!PlaySample /\ ~Reso!InMemory /\ rUnder' = Reso!NoRamp =>
           /\ rRd'.lo \in {Reso!Frame - 1, Reso!Frame, Total - 1}
           /\ rRd'.hi \in {rRd'.lo, rRd'.lo + 1}]_(Reso!vars)
  BY <1>1 DEF Reso!NoRamp
<1> QED
  BY <1>2, ResoInit, ResoKeeps, PTL DEF Reso!Spec, Reso!InPlace

\* Both voices sound where their positions are.
THEOREM VoicesInPlace ==
  Main!Spec /\ Reso!Spec => InPlace
BY MainIsInPlace, ResoIsInPlace DEF InPlace
=============================================================================
