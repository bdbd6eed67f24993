--------------------------- MODULE LegAngleProofs ---------------------------
(***************************************************************************)
(* Proofs about LegAngle, for every resolution of the angle, every slope   *)
(* and every movement below half a turn per tick: the angle is unwrapped   *)
(* exactly, targets lie ahead and are approached one way without a wasted  *)
(* tick, and the leg goes through the modes of ChassisModes.               *)
(***************************************************************************)
EXTENDS LegAngle, TLAPS

\* A value less than a turn from zero is clamped to the one angle within half a
\* turn of zero.
LEMMA ClampExact ==
  ASSUME NEW d \in Int, -Half < d, d < Half, NEW wrap \in {-Turn, 0, Turn},
         -Turn < d + wrap, d + wrap < Turn
  PROVE  LoopClamp(d + wrap) = d
<1> USE AngleAssumption DEF Turn
<1> DEFINE v == d + wrap
<1>1. CASE wrap = 0
  BY <1>1 DEF LoopClamp
<1>2. CASE wrap = Turn
  <2>1. v > Half
    BY <1>2
  <2>2. -Turn < Half - v /\ Half - v < 0 /\ Half - v \in Int
    BY <1>2
  <2>3. (Half - v) % Turn = Half - v + Turn
    BY <2>2
  <2> QED BY <1>2, <2>1, <2>3 DEF LoopClamp
<1>3. CASE wrap = -Turn
  <2>1. v < -Half
    BY <1>3
  <2>2. -Turn < v + Half /\ v + Half < 0 /\ v + Half \in Int
    BY <1>3
  <2>3. (v + Half) % Turn = v + Half + Turn
    BY <2>2
  <2> QED BY <1>3, <2>1, <2>3 DEF LoopClamp
<1> QED BY <1>1, <1>2, <1>3

\* A whole number of turns leaves no remainder.
LEMMA WholeTurns == ASSUME NEW x \in Int, NEW q \in Int, x = Turn * q PROVE x % Turn = 0
<1> DEFINE r == x % Turn
           p == x \div Turn
<1>0. Turn \in Nat /\ Turn > 1
  BY AngleAssumption DEF Turn
<1>1. r \in Int /\ 0 <= r /\ r < Turn
  BY <1>0
<1>2. p \in Int
  BY <1>0
<1>a. x = Turn * p + r
  BY <1>0
<1>3. Turn * (q - p) = r
  BY <1>0, <1>1, <1>2, <1>a
<1>4. q - p = 0
  BY <1>0, <1>1, <1>2, <1>3
<1> QED BY <1>0, <1>2, <1>3, <1>4

\* What loop_clamp gives is within half a turn of zero, and whole turns away
\* from what it is given.
LEMMA ClampRange ==
  ASSUME NEW v \in Int
  PROVE  /\ LoopClamp(v) \in -Half .. Half
         /\ \E q \in Int : LoopClamp(v) - v = Turn * q
<1>0. Half \in Int /\ Half > 0 /\ Turn = 2 * Half /\ Turn \in Nat /\ Turn > 1
  BY AngleAssumption DEF Turn
<1>1. CASE v > Half
  <2> DEFINE x == Half - v
             r == x % Turn
             p == x \div Turn
  <2>1. x \in Int /\ r \in Int /\ 0 <= r /\ r < Turn
    BY <1>0
  <2>2. p \in Int /\ x = Turn * p + r
    BY <1>0, <2>1
  <2>3. LoopClamp(v) = Half - r
    BY <1>1 DEF LoopClamp
  <2>4. LoopClamp(v) - v = Turn * p
    BY <1>0, <2>1, <2>2, <2>3
  <2>5. LoopClamp(v) \in -Half .. Half
    BY <1>0, <2>1, <2>3
  <2> QED BY <2>2, <2>4, <2>5
<1>2. CASE v < -Half
  <2> DEFINE x == v + Half
             r == x % Turn
             p == x \div Turn
  <2>1. x \in Int /\ r \in Int /\ 0 <= r /\ r < Turn
    BY <1>0
  <2>2. p \in Int /\ x = Turn * p + r
    BY <1>0, <2>1
  <2>3. LoopClamp(v) = r - Half
    BY <1>0, <1>2 DEF LoopClamp
  <2>4. LoopClamp(v) - v = Turn * (-p)
    BY <1>0, <2>1, <2>2, <2>3
  <2>5. LoopClamp(v) \in -Half .. Half
    BY <1>0, <2>1, <2>3
  <2>6. -p \in Int
    BY <2>2
  <2> QED BY <2>4, <2>5, <2>6
<1>3. CASE ~(v > Half) /\ ~(v < -Half)
  <2>1. LoopClamp(v) = v /\ v - v = Turn * 0
    BY <1>0, <1>3 DEF LoopClamp
  <2>2. v \in -Half .. Half
    BY <1>0, <1>3
  <2> QED BY <2>1, <2>2
<1> QED BY <1>1, <1>2, <1>3

-----------------------------------------------------------------------------
(* The unwrapped angles *)

AngleInv == /\ phi \in Readings
            /\ total \in Int /\ turns \in Int /\ base \in Int
            /\ phiInit \in BOOLEAN
            /\ ~phiInit => phi = 0 /\ total = 0 /\ turns = 0 /\ base = 0
            /\ total = base + phi
            /\ base = Turn * turns

\* The count of jumps across half a turn is the count of whole turns.
LEMMA CountExact ==
  ASSUME AngleInv, NEW d \in -MaxMove .. MaxMove, NEW wrap \in {-Turn, 0, Turn},
         NEW new \in Readings, new = phi + d + wrap
  PROVE  /\ TurnCount(phi, new) \in Int
         /\ base - wrap = Turn * TurnCount(phi, new)
<1>0. /\ Half \in Int /\ Half > 0 /\ Turn = 2 * Half /\ Turn \in Int
      /\ d \in Int /\ -Half < d /\ d < Half
      /\ phi \in Int /\ new \in Int /\ turns \in Int /\ base \in Int
  BY AngleAssumption DEF Turn, Readings, AngleInv
<1>1. CASE wrap = 0
  <2>1. TurnCount(phi, new) = turns
    BY <1>0, <1>1 DEF TurnCount
  <2> QED BY <1>0, <1>1, <2>1 DEF AngleInv
<1>2. CASE wrap = Turn
  <2>1. TurnCount(phi, new) = turns - 1
    BY <1>0, <1>2 DEF TurnCount
  <2>2. Turn * (turns - 1) = Turn * turns - Turn
    BY <1>0
  <2> QED BY <1>0, <1>2, <2>1, <2>2 DEF AngleInv
<1>3. CASE wrap = -Turn
  <2>1. TurnCount(phi, new) = turns + 1
    BY <1>0, <1>3 DEF TurnCount
  <2>2. Turn * (turns + 1) = Turn * turns + Turn
    BY <1>0
  <2> QED BY <1>0, <1>3, <2>1, <2>2 DEF AngleInv
<1> QED BY <1>1, <1>2, <1>3

\* The first reading is within half a turn of zero and counts none.
LEMMA FirstCount == ASSUME NEW new \in Readings PROVE TurnCount(0, new) = turns
<1>1. Half \in Int /\ new \in Int /\ 1 - Half <= new /\ new <= Half
  BY AngleAssumption DEF Readings
<1>2. ~(new - 0 > Half) /\ ~(new - 0 < -Half)
  BY <1>1
<1> QED BY <1>2 DEF TurnCount

LEMMA SolveKeeps == ASSUME AngleInv, NEW d \in -MaxMove .. MaxMove, Solve(d) PROVE AngleInv'
<1>0. /\ Half \in Int /\ Half > 0 /\ Turn = 2 * Half /\ Turn \in Int
      /\ d \in Int /\ -Half < d /\ d < Half
  BY AngleAssumption DEF Turn
<1>1. CASE ~phiInit
  <2>1. /\ phi' \in Readings /\ total' = phi' /\ base' = base /\ phiInit' = TRUE
        /\ turns' = TurnCount(phi, phi')
    BY <1>1 DEF Solve
  <2>2. phi = 0 /\ turns = 0 /\ base = 0
    BY <1>1 DEF AngleInv
  <2>3. phi' \in Int /\ 1 - Half <= phi' /\ phi' <= Half
    BY <1>0, <2>1 DEF Readings
  <2>4. turns' = 0
    BY <2>1, <2>2, <2>3, FirstCount
  <2>5. base' = Turn * turns'
    BY <1>0, <2>1, <2>2, <2>4
  <2> QED BY <2>1, <2>2, <2>3, <2>4, <2>5 DEF AngleInv
<1>2. CASE phiInit
  <2>1. PICK wrap \in {-Turn, 0, Turn} :
          /\ phi + d + wrap \in Readings
          /\ phi' = phi + d + wrap
          /\ base' = base - wrap
          /\ total' = total + LoopClamp(phi' - phi)
    BY <1>2 DEF Solve
  <2>2. turns' = TurnCount(phi, phi') /\ phiInit' = TRUE
    BY DEF Solve
  <2>3. phi \in Int /\ phi' \in Int /\ wrap \in Int /\ phi' - phi = d + wrap
    BY <1>0, <2>1 DEF AngleInv, Readings
  <2>4. -Turn < d + wrap /\ d + wrap < Turn
    BY <1>0, <2>1, <2>3 DEF AngleInv, Readings
  <2>5. LoopClamp(phi' - phi) = d
    BY <1>0, <2>3, <2>4, ClampExact
  <2>6. turns' \in Int /\ base' = Turn * turns'
    BY <2>1, <2>2, CountExact
  <2> QED BY <1>0, <2>1, <2>2, <2>3, <2>5, <2>6 DEF AngleInv
<1> QED BY <1>1, <1>2 DEF AngleInv

LEMMA AngleInvInductive == Spec => []AngleInv
<1>1. Init => AngleInv
  <2>1. 0 \in Readings /\ 0 = Turn * 0 /\ 0 + 0 = 0
    BY AngleAssumption DEF Readings, Turn
  <2>2. Init => phiInit \in BOOLEAN
    BY DEF Init
  <2>3. Init => phi = 0 /\ total = 0 /\ turns = 0 /\ base = 0
    BY DEF Init
  <2> QED BY <2>1, <2>2, <2>3 DEF AngleInv
<1>2. AngleInv /\ [Next]_vars => AngleInv'
  <2>1. CASE Next
    BY <2>1, SolveKeeps DEF Next, Tick
  <2>2. CASE UNCHANGED vars
    BY <2>2 DEF vars, angle, AngleInv
  <2> QED BY <2>1, <2>2
<1> QED BY <1>1, <1>2, PTL DEF Spec

\* Whatever the resolution and however far the leg turns, both ways of unwrapping
\* give its angle.
THEOREM AnglesUnwrapped == Spec => []Unwrapped
<1>1. AngleInv => Unwrapped
  <2> SUFFICES ASSUME AngleInv PROVE Unwrapped
    OBVIOUS
  <2>1. base \in Int /\ phi \in Int /\ total = base + phi /\ base = Turn * turns
    BY DEF AngleInv, Readings
  <2> QED BY <2>1 DEF Unwrapped
<1> QED BY <1>1, AngleInvInductive, PTL

-----------------------------------------------------------------------------
(* The latched target *)

\* The target is the goal asked for, ahead in the direction asked for, by less
\* than a turn.
Ahead(t, now, goal, up) ==
  /\ t \in Int
  /\ (t - goal) % Turn = 0
  /\ IF up THEN t - now \in 0 .. Turn - 1 ELSE now - t \in 0 .. Turn - 1

LEMMA AimsAhead ==
  ASSUME NEW now \in Int, NEW goal \in Int, NEW up \in BOOLEAN
  PROVE  Ahead(Aim(now, goal, up), now, goal, up)
<1> DEFINE near == now + LoopClamp(goal - now)
           t == Aim(now, goal, up)
<1>0. Half \in Int /\ Half > 0 /\ Turn = 2 * Half /\ Turn \in Int
  BY AngleAssumption DEF Turn
<1>1. LoopClamp(goal - now) \in -Half .. Half
  BY ClampRange
<1>2. PICK q \in Int : LoopClamp(goal - now) - (goal - now) = Turn * q
  BY ClampRange
<1>3. /\ near \in Int /\ near - goal = Turn * q
      /\ near - now \in -Half .. Half
  BY <1>0, <1>1, <1>2
<1>a. Ahead(t, now, goal, up) <=>
        /\ t \in Int
        /\ (t - goal) % Turn = 0
        /\ IF up THEN t - now \in 0 .. Turn - 1 ELSE now - t \in 0 .. Turn - 1
  BY DEF Ahead
<1>b. t = IF up /\ near < now THEN near + Turn
          ELSE IF ~up /\ near > now THEN near - Turn ELSE near
  BY DEF Aim
<1> SUFFICES Ahead(t, now, goal, up)
  OBVIOUS
<1> HIDE DEF near, t
<1>4. CASE up /\ near < now
  <2>1. t = near + Turn
    BY <1>4, <1>b
  <2>2. t - goal = Turn * (q + 1) /\ t \in Int /\ t - goal \in Int /\ q + 1 \in Int
    BY <1>0, <1>3, <2>1
  <2>3. (t - goal) % Turn = 0
    BY <2>2, WholeTurns
  <2>6. t - now \in 0 .. Turn - 1
    BY <1>0, <1>3, <1>4, <2>1
  <2> QED BY <1>4, <2>2, <2>3, <2>6, <1>a
<1>5. CASE ~up /\ near > now
  <2>1. t = near - Turn
    BY <1>5, <1>b
  <2>2. t - goal = Turn * (q - 1) /\ t \in Int /\ t - goal \in Int /\ q - 1 \in Int
    BY <1>0, <1>3, <2>1
  <2>3. (t - goal) % Turn = 0
    BY <2>2, WholeTurns
  <2>4. now - t \in 0 .. Turn - 1
    BY <1>0, <1>3, <1>5, <2>1
  <2> QED BY <1>5, <2>2, <2>3, <2>4, <1>a
<1>6. CASE ~(up /\ near < now) /\ ~(~up /\ near > now)
  <2>1. t = near
    BY <1>6, <1>b
  <2>2. t \in Int /\ t - goal \in Int /\ (t - goal) % Turn = 0
    BY <1>3, <2>1, WholeTurns
  <2>3. CASE up
    <3>1. t - now \in 0 .. Turn - 1
      BY <1>0, <1>3, <1>6, <2>1, <2>3
    <3> QED BY <2>2, <2>3, <3>1, <1>a
  <2>4. CASE ~up
    <3>1. now - t \in 0 .. Turn - 1
      BY <1>0, <1>3, <1>6, <2>1, <2>4
    <3> QED BY <2>2, <2>4, <3>1, <1>a
  <2> QED BY <2>3, <2>4
<1> QED BY <1>4, <1>5, <1>6

\* One step of the slope goes towards its goal and not past it, by Path unless
\* that is too far.
LEMMA SlopeTowards ==
  ASSUME NEW val \in Int, NEW goal \in Int
  PROVE  /\ SlopeTo(val, goal) \in Int
         /\ SlopeTo(val, goal) \in {goal, val + Path, val - Path}
         /\ val <= goal => val <= SlopeTo(val, goal) /\ SlopeTo(val, goal) <= goal
         /\ goal <= val => goal <= SlopeTo(val, goal) /\ SlopeTo(val, goal) <= val
<1>0. Path \in Int /\ Path > 0
  BY AngleAssumption
<1>1. CASE goal - val \in 1 - Path .. Path - 1
  BY <1>0, <1>1 DEF SlopeTo
<1>2. CASE goal - val \notin 1 - Path .. Path - 1 /\ goal < val
  <2>1. SlopeTo(val, goal) = val - Path
    BY <1>2 DEF SlopeTo
  <2> QED BY <1>0, <1>2, <2>1
<1>3. CASE goal - val \notin 1 - Path .. Path - 1 /\ ~(goal < val)
  <2>1. SlopeTo(val, goal) = val + Path
    BY <1>3 DEF SlopeTo
  <2> QED BY <1>0, <1>3, <2>1
<1> QED BY <1>1, <1>2, <1>3

Between(r, t, up) == r \in Int /\ IF up THEN r <= t ELSE t <= r

AimInv == latched => /\ latch.up \in BOOLEAN
                     /\ latch.from \in Int
                     /\ Ahead(target, latch.from, latch.goal, latch.up)
                     /\ Between(ref, target, latch.up)

\* Only the states that call phi_control hold a target.
Aiming == {"recover", "flatten", "neutral"}

ModeInv == mode \in Modes /\ (latched => mode \in Aiming)

Driven ==
  latched /\ latched' =>
    /\ IF latch.up THEN ref <= ref' /\ ref' <= target' ELSE target' <= ref' /\ ref' <= ref
    /\ ref' = target' \/ ref' = ref + Path \/ ref' = ref - Path

\* The reference starts on the near side of the target.
LEMMA StartsBetween ==
  ASSUME NEW now \in Int, NEW t, NEW goal, NEW up \in BOOLEAN, Ahead(t, now, goal, up)
  PROVE  Between(SlopeTo(now, t), t, up)
<1>1. t \in Int /\ Turn \in Int
  BY AngleAssumption DEF Ahead, Turn
<1>2. CASE up
  <2>1. t - now \in 0 .. Turn - 1
    BY <1>2 DEF Ahead
  <2>2. now <= t
    BY <1>1, <2>1
  <2> QED BY <1>1, <1>2, <2>2, SlopeTowards DEF Between
<1>3. CASE ~up
  <2>1. now - t \in 0 .. Turn - 1
    BY <1>3 DEF Ahead
  <2>2. t <= now
    BY <1>1, <2>1
  <2> QED BY <1>1, <1>3, <2>2, SlopeTowards DEF Between
<1> QED BY <1>2, <1>3

LEMMA PhiControlAims ==
  ASSUME AimInv, total' \in Int, NEW goal \in Int, NEW up \in BOOLEAN, PhiControl(goal, up)
  PROVE  AimInv' /\ Driven
<1>1. CASE ~latched
  <2> DEFINE t == Aim(total', goal, up)
  <2>1. target' = t /\ ref' = SlopeTo(total', t)
    BY <1>1 DEF PhiControl
  <2>2. latch' = [goal |-> goal, up |-> up, from |-> total']
    BY <1>1 DEF PhiControl
  <2>3. Ahead(t, total', goal, up)
    BY AimsAhead
  <2> HIDE DEF t
  <2>4. Between(SlopeTo(total', t), t, up)
    BY <2>3, StartsBetween
  <2>5. latch'.up = up /\ latch'.from = total' /\ latch'.goal = goal
    BY <2>2
  <2>6. AimInv'
    BY <2>1, <2>3, <2>4, <2>5 DEF AimInv
  <2> QED BY <1>1, <2>6 DEF Driven
<1>2. CASE latched
  <2>1. ref' = SlopeTo(ref, target) /\ target' = target /\ latch' = latch
    BY <1>2 DEF PhiControl
  <2>2. /\ latch.up \in BOOLEAN /\ latch.from \in Int
        /\ Ahead(target, latch.from, latch.goal, latch.up)
        /\ Between(ref, target, latch.up)
    BY <1>2 DEF AimInv
  <2>3. target \in Int /\ ref \in Int
    BY <2>2 DEF Ahead, Between
  <2> DEFINE r == SlopeTo(ref, target)
  <2>4. /\ Between(r, target, latch.up) /\ IF latch.up THEN ref <= r ELSE r <= ref
        /\ r \in {target, ref + Path, ref - Path}
    BY <2>2, <2>3, SlopeTowards DEF Between
  <2> HIDE DEF r
  <2>5. ref' = r
    BY <2>1 DEF r
  <2>6. AimInv'
    BY <2>1, <2>2, <2>4, <2>5 DEF AimInv
  <2>7. Driven
    BY <2>1, <2>4, <2>5 DEF Driven, Between
  <2> QED BY <2>6, <2>7
<1> QED BY <1>1, <1>2

LEMMA ReleaseAims == ASSUME Release PROVE AimInv' /\ Driven
  BY DEF Release, AimInv, Driven

LEMMA KeepingAims == ASSUME AimInv, UNCHANGED aim PROVE AimInv'
  BY DEF aim, AimInv

LEMMA ModeInvInductive == Spec => []ModeInv
<1> USE DEF ModeInv, Modes, Aiming
<1>1. Init => ModeInv
  BY DEF Init
<1>2. ModeInv /\ [Next]_vars => ModeInv'
  <2> SUFFICES ASSUME ModeInv, [Next]_vars PROVE ModeInv'
    OBVIOUS
  <2>1. CASE Relax \/ Upright \/ Flattened \/ StandUp
    BY <2>1 DEF Relax, Upright, Flattened, StandUp, Release
  <2>2. CASE Recover \/ Flatten \/ Neutral
    BY <2>2 DEF Recover, Flatten, Neutral
  <2>3. CASE Balance \/ UNCHANGED vars
    BY <2>3 DEF Balance, aim, vars
  <2> QED BY <2>1, <2>2, <2>3 DEF Next, Tick
<1> QED BY <1>1, <1>2, PTL DEF Spec

LEMMA NextAims == ASSUME AngleInv, ModeInv, AimInv, [Next]_vars PROVE AimInv' /\ [Driven]_vars
<1>1. CASE UNCHANGED vars
  BY <1>1, KeepingAims DEF vars
<1>2. CASE Next
  <2>1. PICK d \in -MaxMove .. MaxMove : Solve(d)
    BY <1>2 DEF Next, Tick
  <2>2. total' \in Int
    BY <2>1, SolveKeeps DEF AngleInv
  <2>3. 0 \in Int /\ Half \in Int /\ Half \div 2 \in Int
    BY AngleAssumption
  <2>4. CASE Relax
    BY <2>4, ReleaseAims DEF Relax
  <2>5. CASE Upright
    BY <2>5, ReleaseAims DEF Upright
  <2>6. CASE Recover
    <3>1. PICK up \in BOOLEAN : PhiControl(IF up THEN 0 ELSE Half, up)
      BY <2>6 DEF Recover
    <3>2. (IF up THEN 0 ELSE Half) \in Int
      BY <2>3
    <3> QED BY <2>2, <3>1, <3>2, PhiControlAims
  <2>7. CASE Flattened
    BY <2>7, ReleaseAims DEF Flattened
  <2>8. CASE Flatten
    <3>1. PhiControl(Half, phi' >= Fold) /\ (phi' >= Fold) \in BOOLEAN
      BY <2>8 DEF Flatten
    <3> QED BY <2>2, <2>3, <3>1, PhiControlAims
  <2>9. CASE Neutral
    <3>1. PhiControl(Half \div 2, phi' < Raise) /\ (phi' < Raise) \in BOOLEAN
      BY <2>9 DEF Neutral
    <3> QED BY <2>2, <2>3, <3>1, PhiControlAims
  <2>10. CASE StandUp
    BY <2>10, ReleaseAims DEF StandUp
  <2>11. CASE Balance
    <3>1. ~latched
      BY <2>11 DEF Balance, ModeInv, Aiming
    <3> QED BY <2>11, <3>1, KeepingAims DEF Balance, Driven
  <2> QED BY <1>2, <2>4, <2>5, <2>6, <2>7, <2>8, <2>9, <2>10, <2>11 DEF Next, Tick
<1> QED BY <1>1, <1>2

LEMMA AimInvInductive == Spec => []AimInv
<1>1. Init => AimInv
  BY DEF Init, AimInv
<1>2. AngleInv /\ ModeInv /\ AimInv /\ [Next]_vars => AimInv'
  BY NextAims
<1> QED BY <1>1, <1>2, AngleInvInductive, ModeInvInductive, PTL DEF Spec

\* The target lies ahead by less than a turn, wherever the leg was when
\* phi_control was called and whatever turn it was in.
THEOREM TargetAhead == Spec => []AimAhead
<1>1. AimInv => AimAhead
  BY DEF AimInv, Ahead, AimAhead
<1> QED BY <1>1, AimInvInductive, PTL

\* The reference never turns back and never passes its target, and each tick
\* brings it there or nearer by a whole Path.
THEOREM ReferenceOneWay == Spec => OneWay
<1>1. AngleInv /\ ModeInv /\ AimInv /\ [Next]_vars => [Driven]_vars
  BY NextAims
<1>2. [Driven]_vars <=> [latched /\ latched' =>
        /\ IF latch.up THEN ref <= ref' /\ ref' <= target' ELSE target' <= ref' /\ ref' <= ref
        /\ ref' = target' \/ ref' = ref + Path \/ ref' = ref - Path]_vars
  BY DEF Driven
<1> QED
  BY <1>1, <1>2, AngleInvInductive, ModeInvInductive, AimInvInductive, PTL DEF Spec, OneWay

-----------------------------------------------------------------------------
(* Types: the target and the reference are where Aim and SlopeTo put them *)

Goals == {0, Half \div 2, Half}

AimType == /\ latched \in BOOLEAN
           /\ target \in Int /\ ref \in Int
           /\ latch \in [goal: Goals, up: BOOLEAN, from: Int]

LEMMA PhiControlType ==
  ASSUME AimType, total' \in Int, NEW goal \in Goals, NEW up \in BOOLEAN, PhiControl(goal, up)
  PROVE  AimType'
<1>0. goal \in Int
  BY AngleAssumption DEF Goals
<1>1. CASE ~latched
  <2>1. /\ latched' = TRUE /\ target' = Aim(total', goal, up) /\ ref' = SlopeTo(total', target')
        /\ latch' = [goal |-> goal, up |-> up, from |-> total']
    BY <1>1 DEF PhiControl
  <2>2. target' \in Int
    BY <1>0, <2>1, AimsAhead DEF Ahead
  <2>3. ref' \in Int
    BY <2>1, <2>2, SlopeTowards
  <2> QED BY <2>1, <2>2, <2>3 DEF AimType
<1>2. CASE latched
  <2>1. latched' = TRUE /\ ref' = SlopeTo(ref, target) /\ UNCHANGED <<target, latch>>
    BY <1>2 DEF PhiControl
  <2>2. ref' \in Int
    BY <2>1, SlopeTowards DEF AimType
  <2> QED BY <2>1, <2>2 DEF AimType
<1> QED BY <1>1, <1>2 DEF AimType

LEMMA NoLatchType == NoLatch \in [goal: Goals, up: BOOLEAN, from: Int]
<1>1. 0 \in Goals
  BY DEF Goals
<1> QED BY <1>1 DEF NoLatch

LEMMA ReleaseType == ASSUME Release PROVE AimType'
<1>1. latch' \in [goal: Goals, up: BOOLEAN, from: Int]
  BY NoLatchType, Zenon DEF Release
<1>2. latched' \in BOOLEAN
  BY DEF Release
<1>3. target' \in Int /\ ref' \in Int
  BY DEF Release
<1> QED BY <1>1, <1>2, <1>3 DEF AimType

LEMMA NextAimType == ASSUME AngleInv, ModeInv, AimType, Next PROVE AimType'
<1>1. PICK d \in -MaxMove .. MaxMove : Solve(d)
  BY DEF Next, Tick
<1>2. total' \in Int
  BY <1>1, SolveKeeps DEF AngleInv
<1>3. CASE Relax \/ Upright \/ Flattened \/ StandUp
  BY <1>3, ReleaseType DEF Relax, Upright, Flattened, StandUp
<1>4. CASE Recover
  <2>1. PICK up \in BOOLEAN : PhiControl(IF up THEN 0 ELSE Half, up)
    BY <1>4 DEF Recover
  <2> QED BY <1>2, <2>1, PhiControlType DEF Goals
<1>5. CASE Flatten
  <2>1. PhiControl(Half, phi' >= Fold) /\ (phi' >= Fold) \in BOOLEAN
    BY <1>5 DEF Flatten
  <2> QED BY <1>2, <2>1, PhiControlType DEF Goals
<1>6. CASE Neutral
  <2>1. PhiControl(Half \div 2, phi' < Raise) /\ (phi' < Raise) \in BOOLEAN
    BY <1>6 DEF Neutral
  <2> QED BY <1>2, <2>1, PhiControlType DEF Goals
<1>7. CASE Balance
  BY <1>7 DEF Balance, aim, AimType
<1> QED BY <1>3, <1>4, <1>5, <1>6, <1>7 DEF Next, Tick

\* Type correctness: what the handlers latch is one of the code's three goals,
\* and the unwrapped angle stays within what the leg has turned.
THEOREM TypeCorrect == Spec => []TypeOK
<1> DEFINE Typed == AimType /\ total \in -MaxAngle .. MaxAngle
<1>1. Init => Typed
  <2> SUFFICES ASSUME Init PROVE Typed
    OBVIOUS
  <2>1. latch \in [goal: Goals, up: BOOLEAN, from: Int]
    BY NoLatchType, Zenon DEF Init
  <2>2. latched \in BOOLEAN
    BY DEF Init
  <2>3. target \in Int /\ ref \in Int /\ total \in -MaxAngle .. MaxAngle
    BY AngleAssumption DEF Init
  <2> QED BY <2>1, <2>2, <2>3 DEF AimType
<1>2. AngleInv /\ ModeInv /\ Typed /\ [Next]_vars => Typed'
  <2> SUFFICES ASSUME AngleInv, ModeInv, Typed, [Next]_vars PROVE Typed'
    OBVIOUS
  <2>1. CASE Next
    BY <2>1, NextAimType DEF Next, Tick, Solve
  <2>2. CASE UNCHANGED vars
    BY <2>2 DEF vars, angle, aim, AimType
  <2> QED BY <2>1, <2>2
<1>3. AngleInv /\ ModeInv /\ Typed => TypeOK
  BY DEF AngleInv, ModeInv, AimType, Goals, TypeOK
<1> QED BY <1>1, <1>2, <1>3, AngleInvInductive, ModeInvInductive, PTL DEF Spec

-----------------------------------------------------------------------------
(* The modes.  LegMode and LegAim are the images of the abstract variables.  *)

LegMode == ModeOf[mode]
LegAim == [l \in {"leg"} |-> IF latched THEN ModeOf[mode] ELSE "none"]

\* A tick lets go of the target when it changes the mode, and has one, before
\* and after, only in a mode that aims.
LEMMA TickModes ==
  ASSUME ModeInv, Next
  PROVE  \/ /\ ~latched'
            /\ <<LegMode, LegMode'>> \in Leg!Edges /\ LegMode' \in Leg!Modes
         \/ mode' = mode /\ (mode \in Aiming \/ (~latched /\ ~latched'))
<1> USE DEF LegMode, ModeOf, Leg!Edges, Leg!Modes, Leg!Aiming, Leg!Limp
<1>1. CASE Relax
  <2>1. ~latched' /\ mode \in Modes
    BY <1>1 DEF Relax, Release, ModeInv
  <2>2. CASE mode' = "relax"
    BY <2>1, <2>2 DEF Modes
  <2>3. CASE mode' = "recover"
    BY <2>1, <2>3 DEF Modes
  <2>4. CASE mode' = "flatten"
    <3>1. mode = "relax"
      BY <1>1, <2>4 DEF Relax
    <3> QED BY <2>1, <2>4, <3>1
  <2> QED BY <1>1, <2>2, <2>3, <2>4 DEF Relax
<1>2. CASE Upright
  BY <1>2 DEF Upright, Release
<1>3. CASE Flattened
  BY <1>3 DEF Flattened, Release, Aiming
<1>4. CASE StandUp
  BY <1>4 DEF StandUp, Release
<1>5. CASE Recover \/ Flatten \/ Neutral
  BY <1>5 DEF Recover, Flatten, Neutral, Aiming
<1>6. CASE Balance
  BY <1>6 DEF Balance, aim, ModeInv, Aiming
<1> QED BY <1>1, <1>2, <1>3, <1>4, <1>5, <1>6 DEF Next, Tick

\* A leg with its own target goes through the modes of ChassisModes, at every
\* resolution of its angle.
THEOREM LegImplementsModes == Spec => ImplementsModes
<1>1. Init => Leg!Init
  BY DEF Init, Leg!Init, Leg!Limp, Leg!NoAims, ModeOf
<1>2. ModeInv /\ [Next]_vars => [Leg!Next]_(Leg!vars)
  <2> SUFFICES ASSUME ModeInv, [Next]_vars PROVE [Leg!Next]_(Leg!vars)
    OBVIOUS
  <2>1. CASE UNCHANGED vars
    BY <2>1 DEF vars, aim, Leg!vars
  <2>2. CASE /\ Next /\ ~latched'
             /\ <<LegMode, LegMode'>> \in Leg!Edges /\ LegMode' \in Leg!Modes
             /\ LegMode' # LegMode
    <3>1. LegAim' = Leg!NoAims
      BY <2>2 DEF LegAim, Leg!NoAims
    <3>2. Leg!Change
      BY <2>2, <3>1 DEF Leg!Change, LegMode, LegAim
    <3> QED BY <3>2 DEF Leg!Next
  <2>3. CASE LegMode' = LegMode /\ ~latched /\ ~latched'
    BY <2>3 DEF Leg!vars, LegMode
  <2>4. CASE LegMode' = LegMode /\ mode \in Aiming
    <3>1. LegMode \in Leg!Aiming
      BY <2>4 DEF LegMode, ModeOf, Aiming, Leg!Aiming
    <3>2. LegAim' \in [{"leg"} -> {"none", LegMode}]
      BY <2>4 DEF LegAim, LegMode
    <3>3. Leg!Pursue
      BY <2>4, <3>1, <3>2 DEF Leg!Pursue, LegMode, LegAim
    <3> QED BY <3>3 DEF Leg!Next
  <2> QED
    BY <2>1, <2>2, <2>3, <2>4, TickModes DEF LegMode, ModeInv
<1> QED BY <1>1, <1>2, ModeInvInductive, PTL DEF Spec, ImplementsModes, Leg!Spec
=============================================================================
