------------------------------- MODULE FramePace -------------------------------
(***************************************************************************)
(* The pace of the panel and the width of its glow, frame by frame.  Both   *)
(* are feedback loops over the time of a frame, and each acts on the other: *)
(* PaceControl draws every Slow-th refresh of the display when the panel    *)
(* rests, GlowAuto narrows the glow when frames take too long.              *)
(*                                                                         *)
(* The unit of time is one refresh of the display, except for the smoothed  *)
(* frame time and the budget, which are in quarters of it; the width of the *)
(* glow is in hundredths.                                                  *)
(***************************************************************************)
EXTENDS Integers

CONSTANTS
  Fast, Slow,           \* frame_divider, frame_divider_idle
  TouchHold, IdleHold,  \* 0.5 s of a touch; PaceControl::kIdleHold
  SaverWait,            \* 5 minutes
  OverHold, UnderHold,  \* GlowAuto::kOverHold, kUnderHold
  Budgets,              \* wave_glow_budget_ms, 0: no automatics
  Wants,                \* wave_glow
  Hitch                 \* refreshes a stalled frame takes: a second or more

VARIABLES
  touchAge,             \* PanelState::idle_t
  chrome,               \* chrome_a: 0 veiled, 2 shown, 1 in between
  quiet,                \* PaceControl::idle_s_
  applied,              \* applied_divider of main()
  budget, want,
  cur, ema, over, under,\* GlowAuto
  late,                 \* refreshes the last frame missed
  calm,                 \* time since something last sounded, moved or was touched
  dear, cheap           \* for how long frames have been over budget, under half

panelVars == <<touchAge, chrome, quiet, applied, calm>>
glowVars  == <<budget, want, cur, ema, over, under, dear, cheap>>
vars      == <<panelVars, glowVars, late>>

kMinScale == 15
Longest   == IdleHold + TouchHold + SaverWait
Upto(a, b) == IF a < b THEN a ELSE b

----------------------------------------------------------------------------
(* GlowAuto::step().                                                       *)

Smoothed(dt) == IF dt >= Hitch THEN 4 * dt ELSE ema + (4 * dt - ema) \div 2

\* 0.6 down and 1.5 up.
Lower(w)  == LET d == (w * 6) \div 10 IN IF d < kMinScale THEN kMinScale ELSE d
Raise(w)  == Upto((w * 3) \div 2 + 1, want)

Over(e)   == e > budget
Cheap(e)  == 2 * e < budget

\* Too dear: count, and narrow the glow when it lasts.
TooDear(dt) ==
  LET due == over + dt >= OverHold /\ cur > kMinScale
  IN  /\ cur' = IF due THEN Lower(cur) ELSE cur
      /\ over' = IF due THEN 0 ELSE Upto(over + dt, OverHold)
      /\ under' = 0

CheapAgain(dt) ==
  LET due == under + dt >= UnderHold
  IN  /\ cur' = IF due THEN Raise(cur) ELSE cur
      /\ under' = IF due THEN 0 ELSE under + dt
      /\ over' = 0

\* A band that only pauses the counts.
InBandKeeps == UNCHANGED <<over, under, cur>>

\* Neither dear nor cheap enough, or as wide as it may be: start counting anew.
InBand == over' = 0 /\ under' = 0 /\ UNCHANGED cur

GlowStep(dt) ==
  /\ ema' = Smoothed(dt)
  /\ IF budget = 0 THEN UNCHANGED <<cur, over, under>>
     ELSE IF Over(ema') THEN TooDear(dt)
     ELSE IF Cheap(ema') /\ cur < want THEN CheapAgain(dt)
     ELSE InBand
  /\ dear' = IF Over(ema') THEN Upto(dear + dt, OverHold) ELSE 0
  /\ cheap' = IF Cheap(ema') THEN Upto(cheap + dt, UnderHold) ELSE 0
  /\ UNCHANGED <<budget, want>>

\* The user turns the width: GlowAuto::reset() starts anew from there.
TurnGlow ==
  /\ want' \in Wants \ {want}
  /\ cur' = want' /\ over' = 0 /\ under' = 0
  /\ UNCHANGED <<panelVars, late, budget, ema, dear, cheap>>

----------------------------------------------------------------------------
(* The saver and the pace.                                                 *)

\* After five minutes without a touch the controls fade; a touch brings them back.
SaverStep(touched, dt) ==
  /\ touchAge' = IF touched THEN 0 ELSE Upto(touchAge + dt, SaverWait + 1)
  /\ chrome' = IF touchAge' > SaverWait THEN (IF chrome > 0 THEN chrome - 1 ELSE 0)
               ELSE Upto(chrome + 1, 2)

\* panelAnimating() and busy(): live is every voice, pedal, load, reel or overlay.
Busy(live) == live \/ chrome' = 1 \/ touchAge' < TouchHold

\* A pace that only stops counting while something happens.
PaceSums(busy, dt) ==
  /\ quiet' = IF busy \/ Slow <= Fast \/ dt >= Hitch THEN quiet
              ELSE Upto(quiet + dt, IdleHold)
  /\ applied' = IF ~busy /\ Slow > Fast /\ quiet' >= IdleHold THEN Slow ELSE Fast

\* PaceControl::step(): fast at once, slow when it has been quiet for long.  A
\* stalled frame does not count as quiet.
PaceStep(busy, dt) ==
  /\ quiet' = IF busy THEN 0
              ELSE IF Slow <= Fast \/ dt >= Hitch THEN quiet
              ELSE Upto(quiet + dt, IdleHold)
  /\ applied' = IF ~busy /\ Slow > Fast /\ quiet' >= IdleHold THEN Slow ELSE Fast

\* One frame: what the last one took, then glow, saver and pace.
Frame ==
  \E touched, live \in BOOLEAN, missed \in {0, 1, Hitch} :
    LET dt == applied + missed IN
    /\ late' = missed
    /\ GlowStep(dt)
    /\ SaverStep(touched, dt)
    /\ PaceStep(Busy(live), dt)
    /\ calm' = IF touched \/ live THEN 0
               ELSE IF dt >= Hitch THEN calm ELSE Upto(calm + dt, Longest)

Init ==
  /\ touchAge = 0 /\ chrome = 2 /\ quiet = 0 /\ applied = Fast
  /\ budget \in Budgets /\ want \in Wants /\ cur = want
  /\ ema = 0 /\ over = 0 /\ under = 0
  /\ late = 0 /\ calm = 0 /\ dear = 0 /\ cheap = 0

Next == Frame \/ TurnGlow
Spec == Init /\ [][Next]_vars

----------------------------------------------------------------------------
(* Properties.                                                             *)

\* The panel is slow only when it rests: nothing has sounded or moved for the
\* whole hold, the last touch is older still, and no fade is under way.  The
\* first frame that sees a touch is already fast.
NeverLazy ==
  applied > Fast =>
    calm >= IdleHold /\ touchAge >= IdleHold /\ chrome # 1

\* The glow does not breathe with the load: unless the user sets it, it narrows
\* only after an unbroken stretch over the budget, widens only after a longer
\* one under half of it, and the automatics never put it out.
SteadyGlow ==
  [][want' = want =>
       /\ cur' < cur => dear' >= OverHold
       /\ cur' > cur => cheap' >= UnderHold
       /\ cur' # cur => kMinScale <= cur' /\ cur' <= want]_vars
=============================================================================
