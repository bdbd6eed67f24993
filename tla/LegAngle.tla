------------------------------ MODULE LegAngle ------------------------------
(***************************************************************************)
(* The angle of one leg while the robot stands up: link_solver::solve and  *)
(* leg_controller::phi_control of controller/include/control/leg.hpp under *)
(* the handlers of chassis_fsm, one step per control tick.  The solver     *)
(* reads the angle within one turn (atan2) and adds up the differences;    *)
(* phi_control drives a reference to a target it latches on its first call *)
(* after a relax.  imu_fusion unwraps the yaw by counting turns instead:   *)
(* both are fed the same turning angle here and compared.                  *)
(*                                                                         *)
(* Angles are whole steps, Half of them in pi.  The torques are left out,  *)
(* so the leg moves as it likes, by less than half a turn in a tick.       *)
(***************************************************************************)
EXTENDS Integers

CONSTANTS Half,     \* steps in pi
          Flat,     \* the readings in flat_: 2 to 3.1 rad
          Fold,     \* from this reading on FLATTEN folds upwards: 0.4 pi
          Raise,    \* below this reading NEUTRAL raises: 0.45 pi
          Path,     \* slope of the reference per tick
          MaxMove,  \* steps the leg moves in a tick
          MaxAngle  \* bound: how far the leg turns from where it started

Turn == 2 * Half
Readings == 1 - Half .. Half

ASSUME AngleAssumption ==
  /\ Half \in Nat \ {0}
  /\ Flat \subseteq Readings /\ Fold \in Readings /\ Raise \in Readings
  /\ Path \in Nat \ {0}
  /\ MaxMove \in Nat /\ MaxMove < Half
  /\ MaxAngle \in Nat /\ Turn <= MaxAngle

VARIABLES
  mode,      \* the chassis state, as far as the leg is concerned
  phiInit,   \* phi_init_
  phi,       \* phi_ and, until the next solve, last_phi_ and prev_yaw_
  total,     \* total_phi_
  turns,     \* yaw_round_count_
  latched,   \* delta_init_
  target,    \* target_phi_
  ref,       \* the value of phi_updater_
  base,      \* auxiliary: the whole turns the leg has made, in steps
  latch      \* auxiliary: what phi_control was called with when it latched

angle == <<phiInit, phi, total, turns, base>>
aim == <<latched, target, ref, latch>>
vars == <<mode, angle, aim>>

Modes == {"relax", "recover", "flatten", "neutral", "balance"}

NoLatch == [goal |-> 0, up |-> FALSE, from |-> 0]

Init == /\ mode = "relax"
        /\ phiInit = FALSE
        /\ phi = 0 /\ total = 0 /\ turns = 0 /\ base = 0
        /\ latched = FALSE /\ target = 0 /\ ref = 0
        /\ latch = NoLatch

-----------------------------------------------------------------------------
(* The reading and its unwrapping *)

\* Bug: only a jump down is taken for a full turn.
LoopClamp_OneSided(v) == IF v < -Half THEN ((v + Half) % Turn) - Half ELSE v

\* loop_clamp(v, -pi, pi), and the two loops of phi_control: whole turns are
\* taken off or added until v is within half a turn of zero.
LoopClamp(v) == IF v > Half THEN Half - ((Half - v) % Turn)
                ELSE IF v < -Half THEN ((v + Half) % Turn) - Half
                ELSE v

\* The turn count of imu_fusion::update_euler.
TurnCount(old, new) == IF new - old > Half THEN turns - 1
                       ELSE IF new - old < -Half THEN turns + 1
                       ELSE turns

\* The leg moves by d and the solver reads it; the first reading counts as it is.
Solve(d) ==
  /\ phiInit' = TRUE
  /\ IF phiInit
     THEN \E wrap \in {-Turn, 0, Turn} :
            /\ phi + d + wrap \in Readings
            /\ phi' = phi + d + wrap
            /\ base' = base - wrap
            /\ total' = total + LoopClamp(phi' - phi)
     ELSE /\ phi' \in Readings
          /\ total' = phi'
          /\ UNCHANGED base
  /\ turns' = TurnCount(phi, phi')
  /\ total' \in -MaxAngle .. MaxAngle

-----------------------------------------------------------------------------
(* leg_controller *)

\* Bug: the last stretch is not shortened to what is left.
SlopeTo_NoSnap(val, goal) == IF goal < val THEN val - Path ELSE val + Path

\* slope::update_val with both paths equal.
SlopeTo(val, goal) == IF goal - val \in 1 - Path .. Path - 1 THEN goal
                      ELSE IF goal < val THEN val - Path
                      ELSE val + Path

\* Bug: the short way round, whatever direction was asked for.
Aim_ShortWay(now, goal, up) == now + LoopClamp(goal - now)

\* The goal is the same in every turn: the one that lies ahead is taken.
Aim(now, goal, up) ==
  LET near == now + LoopClamp(goal - now)
  IN  IF up /\ near < now THEN near + Turn
      ELSE IF ~up /\ near > now THEN near - Turn
      ELSE near

\* Bug: the target is moved with every call.
PhiControl_Relatch(goal, up) ==
  /\ latched' = TRUE
  /\ target' = Aim(total', goal, up)
  /\ ref' = SlopeTo(IF latched THEN ref ELSE total', target')
  /\ latch' = IF latched THEN latch ELSE [goal |-> goal, up |-> up, from |-> total']

\* Called after the solve of the same tick.  The target and the direction of
\* the first call stay until relax, whatever later calls ask for.
PhiControl(goal, up) ==
  /\ latched' = TRUE
  /\ \/ /\ ~latched
        /\ target' = Aim(total', goal, up)
        /\ ref' = SlopeTo(total', target')
        /\ latch' = [goal |-> goal, up |-> up, from |-> total']
     \/ /\ latched
        /\ ref' = SlopeTo(ref, target)
        /\ UNCHANGED <<target, latch>>

\* relax, or delta_init_ = false.  The target and the slope are dead then: the
\* next call sets them anew, so they are cleared here.
Release == latched' = FALSE /\ target' = 0 /\ ref' = 0 /\ latch' = NoLatch

-----------------------------------------------------------------------------
(* The handlers of chassis_fsm, one per tick *)

\* step_relax, run for a stop in any state, a flip in any but RECOVER, and RELAX
\* itself, which alone goes on to FLATTEN.
Relax == /\ Release
         /\ \/ mode' = "relax"
            \/ mode # "recover" /\ mode' = "recover"
            \/ mode = "relax" /\ mode' = "flatten"

\* Bug: the legs are not relaxed on the way to FLATTEN.
Upright_KeepsTarget == /\ mode = "recover"
                       /\ mode' = "flatten"
                       /\ UNCHANGED aim

Upright == /\ mode = "recover"
           /\ Release
           /\ mode' = "flatten"

\* up: pitch > 0, tested anew in every tick.
Recover == /\ mode = "recover"
           /\ \E up \in BOOLEAN : PhiControl(IF up THEN 0 ELSE Half, up)
           /\ UNCHANGED mode

\* On to NEUTRAL when the other leg is flat too.
Flattened == /\ mode = "flatten"
             /\ phi' \in Flat
             /\ Release
             /\ mode' \in {"flatten", "neutral"}

Flatten == /\ mode = "flatten"
           /\ phi' \notin Flat
           /\ PhiControl(Half, phi' >= Fold)
           /\ UNCHANGED mode

Neutral == /\ mode = "neutral"
           /\ PhiControl(Half \div 2, phi' < Raise)
           /\ UNCHANGED mode

\* The last tick of NEUTRAL still calls phi_control, then lets go.
StandUp == /\ mode = "neutral"
           /\ Release
           /\ mode' = "balance"

\* NORMAL, OFFGROUND and SPIN leave the leg angle to the LQR.
Balance == /\ mode = "balance"
           /\ UNCHANGED <<mode, aim>>

Tick == /\ \E d \in -MaxMove .. MaxMove : Solve(d)
        /\ \/ Relax \/ Upright \/ Recover \/ Flattened \/ Flatten
           \/ Neutral \/ StandUp \/ Balance

Next == Tick

\* The control loop keeps ticking.
Spec == Init /\ [][Next]_vars /\ WF_vars(Next)

-----------------------------------------------------------------------------
(* Properties *)

TypeOK ==
  /\ mode \in Modes
  /\ phiInit \in BOOLEAN
  /\ phi \in Readings
  /\ total \in -MaxAngle .. MaxAngle
  /\ turns \in Int /\ base \in Int
  /\ latched \in BOOLEAN
  /\ target \in Int /\ ref \in Int
  /\ latch \in [goal: {0, Half \div 2, Half}, up: BOOLEAN, from: Int]

\* However often the leg goes round, in whichever direction, the sum of the
\* clamped differences is its angle, and so is the yaw with its turns counted:
\* the two ways in which the code unwraps an angle agree and lose no turn.
Unwrapped == total = base + phi /\ Turn * turns + phi = total

\* The latched target is the goal asked for, in the direction asked for, and
\* less than a turn away from where the leg was.
AimAhead ==
  latched => /\ (target - latch.goal) % Turn = 0
             /\ IF latch.up THEN target - latch.from \in 0 .. Turn - 1
                            ELSE latch.from - target \in 0 .. Turn - 1

\* While a target is latched the reference goes towards it in one direction and
\* not past it, also when the leg is pushed round, the handler asks for the
\* other direction, or the pitch changes its sign; and no tick is wasted: it is
\* there or a whole Path nearer.
OneWay ==
  [][latched /\ latched' =>
       /\ IF latch.up THEN ref <= ref' /\ ref' <= target' ELSE target' <= ref' /\ ref' <= ref
       /\ ref' = target' \/ ref' = ref + Path \/ ref' = ref - Path]_vars

\* The reference gets all the way to the target, unless the leg is let go.
Arrives == []<>(~latched \/ ref = target)

ModeOf == [relax |-> "limp", recover |-> "rolling", flatten |-> "folding",
           neutral |-> "rising", balance |-> "balancing"]

\* A leg that latches, pursues and drops its own target goes through the modes
\* of ChassisModes as ChassisFsm does with both: no target outlives the mode it
\* was latched in.
Leg == INSTANCE ChassisModes WITH
         Legs <- {"leg"},
         NoAim <- "none",
         mode <- ModeOf[mode],
         aim <- [l \in {"leg"} |-> IF latched THEN ModeOf[mode] ELSE "none"]
ImplementsModes == Leg!Spec
=============================================================================
