----------------------------- MODULE ChassisFsm -----------------------------
(***************************************************************************)
(* chassis_fsm of controller/include/control/chassis_fsm.hpp: one step per *)
(* control tick.  A step looks at the sensors only through the tests the   *)
(* handlers make, so an input is a record of their outcomes.  Torques, leg *)
(* lengths, the LQR and the slopes are left out: no transition reads them. *)
(* So are flying_, going_stair_ and chassis_dead, which no code ever sets, *)
(* and landing_cnt_, which counts only while flying_.                      *)
(***************************************************************************)
EXTENDS Naturals

CONSTANTS ForceRelax,  \* cfg.force_relax
          EnterTicks,  \* cfg.fsm.enter_normal_ticks
          ExitTicks,   \* cfg.fsm.exit_relax_ticks
          FlipLimit,   \* the 1000 of step()
          MinAir,      \* cfg.fsm.offground_min_air_ticks
          Word,        \* number of values of air_protect_cnt_ (2^32 in the code)
          SpinInputs   \* the values cmd.spin takes; command_fusion never sets it

ASSUME FsmAssumption ==
  /\ ForceRelax \in BOOLEAN
  /\ EnterTicks \in Nat \ {0} /\ ExitTicks \in Nat \ {0}
  /\ FlipLimit \in Nat /\ MinAir \in Nat
  /\ Word \in Nat /\ MinAir + 1 < Word
  /\ SpinInputs \subseteq BOOLEAN

VARIABLES state,     \* state_
          latch,     \* per leg: the state in which phi_control latched the
                     \* target_phi_ it now pursues, NoTarget if ~delta_init_
          air,       \* air_protect_cnt_
          flipover,  \* flipover_cnt_
          enterCnt,  \* normal_enter_cnt_
          exitCnt    \* normal_exit_cnt_

vars == <<state, latch, air, flipover, enterCnt, exitCnt>>

Legs == {"left", "right"}
NoTarget == "none"
States == {"relax", "recover", "flatten", "neutral", "normal", "offground", "spin"}

(* att   "inverted": accel[2] < 0; "upright": accel[2] > 5 and pitch_ok; else   *)
(*       "tilted"                                                              *)
(* flat  link().flat_ of each leg                                              *)
(* band  "in": both |alpha_| below enter_normal_alpha; "out": an alpha_ at or  *)
(*       above exit_relax_alpha; else "mid" (also far out on the other side)   *)
(* vert  "rising": n_total < 0 and both dlen_ > 0.05; "sinking": both dlen_    *)
(*       below 0; else "still"                                                 *)
Inputs == [move: BOOLEAN, spin: SpinInputs, att: {"inverted", "tilted", "upright"},
           flat: [Legs -> BOOLEAN], band: {"in", "mid", "out"},
           vert: {"rising", "sinking", "still"}]

NoTargets == [l \in Legs |-> NoTarget]

Init == /\ state = "relax"
        /\ latch = NoTargets
        /\ air = 0 /\ flipover = 0 /\ enterCnt = 0 /\ exitCnt = 0

-----------------------------------------------------------------------------
(* The tests before the switch decide which handler runs. *)

Stopped(i) == ~i.move \/ ForceRelax
Inverted(i) == ~Stopped(i) /\ i.att = "inverted" /\ state # "recover"
Flipped(i) == Inverted(i) /\ flipover + 1 > FlipLimit

Handler(i) == IF Stopped(i) \/ Flipped(i) THEN "relax" ELSE state

\* Bug: the count survives ticks in which the robot is not upside down.
CountFlip_NoReset(i) ==
  flipover' = IF Flipped(i) THEN 0
              ELSE IF Inverted(i) THEN flipover + 1
              ELSE flipover

CountFlip(i) ==
  flipover' = IF Stopped(i) THEN flipover
              ELSE IF Inverted(i) /\ ~Flipped(i) THEN flipover + 1
              ELSE 0

-----------------------------------------------------------------------------
(* One handler per state. *)

StepRelax(i) ==
  /\ Handler(i) = "relax"
  /\ latch' = NoTargets
  /\ state' = IF Stopped(i) THEN "relax"
              ELSE IF i.att = "inverted" THEN "recover" ELSE "flatten"
  /\ UNCHANGED <<air, enterCnt, exitCnt>>

\* phi_control latches a target for a leg that has none, and keeps the one of
\* a leg that has.
Latched(l) == IF latch[l] = NoTarget THEN state ELSE latch[l]

\* Bug: the legs are not relaxed on the way to FLATTEN.
StepRecover_KeepsLatch(i) ==
  /\ Handler(i) = "recover"
  /\ latch' = [l \in Legs |-> Latched(l)]
  /\ state' = IF i.att = "upright" THEN "flatten" ELSE "recover"
  /\ UNCHANGED <<air, enterCnt, exitCnt>>

StepRecover(i) ==
  /\ Handler(i) = "recover"
  /\ \/ /\ i.att = "upright"
        /\ state' = "flatten"
        /\ latch' = NoTargets
     \/ /\ i.att # "upright"
        /\ latch' = [l \in Legs |-> Latched(l)]
        /\ UNCHANGED state
  /\ UNCHANGED <<air, enterCnt, exitCnt>>

\* Bug: one flat leg is enough to go on.
StepFlatten_AnyFlat(i) ==
  /\ Handler(i) = "flatten"
  /\ latch' = [l \in Legs |-> IF i.flat[l] THEN NoTarget ELSE Latched(l)]
  /\ state' = IF \E l \in Legs : i.flat[l] THEN "neutral" ELSE "flatten"
  /\ UNCHANGED <<air, enterCnt, exitCnt>>

StepFlatten(i) ==
  /\ Handler(i) = "flatten"
  /\ latch' = [l \in Legs |-> IF i.flat[l] THEN NoTarget ELSE Latched(l)]
  /\ state' = IF \A l \in Legs : i.flat[l] THEN "neutral" ELSE "flatten"
  /\ UNCHANGED <<air, enterCnt, exitCnt>>

\* Bug: the count is cleared where it should be kept, so it never gets there.
StepNeutral_NeverCounts(i) ==
  /\ Handler(i) = "neutral"
  /\ latch' = [l \in Legs |-> Latched(l)]
  /\ enterCnt' = 0
  /\ state' = IF i.band = "in" /\ enterCnt + 1 >= EnterTicks THEN "normal" ELSE state
  /\ UNCHANGED <<air, exitCnt>>

\* Bug: > for >=, one tick more than enter_normal_ticks.
StepNeutral_OneMore(i) ==
  /\ Handler(i) = "neutral"
  /\ latch' = [l \in Legs |-> Latched(l)]
  /\ enterCnt' = IF i.band = "in" /\ enterCnt < EnterTicks THEN enterCnt + 1 ELSE 0
  /\ state' = IF i.band = "in" /\ enterCnt >= EnterTicks THEN "normal" ELSE state
  /\ UNCHANGED <<air, exitCnt>>

\* Bug: the exit count of the last stand-up is not cleared with the other one.
StepNeutral_KeepsExit(i) ==
  /\ Handler(i) = "neutral"
  /\ \/ /\ i.band = "in" /\ enterCnt + 1 >= EnterTicks
        /\ state' = "normal"
        /\ latch' = NoTargets
        /\ enterCnt' = 0
     \/ /\ ~(i.band = "in" /\ enterCnt + 1 >= EnterTicks)
        /\ latch' = [l \in Legs |-> Latched(l)]
        /\ enterCnt' = IF i.band = "in" THEN enterCnt + 1 ELSE 0
        /\ UNCHANGED state
  /\ UNCHANGED <<air, exitCnt>>

StepNeutral(i) ==
  /\ Handler(i) = "neutral"
  /\ \/ /\ i.band = "in" /\ enterCnt + 1 >= EnterTicks
        /\ state' = "normal"
        /\ latch' = NoTargets
        /\ enterCnt' = 0 /\ exitCnt' = 0
     \/ /\ ~(i.band = "in" /\ enterCnt + 1 >= EnterTicks)
        /\ latch' = [l \in Legs |-> Latched(l)]
        /\ enterCnt' = IF i.band = "in" THEN enterCnt + 1 ELSE 0
        /\ UNCHANGED <<state, exitCnt>>
  /\ UNCHANGED air

\* The debounced way out of NORMAL and OFFGROUND.
Exiting(i) == i.band = "out" /\ exitCnt + 1 >= ExitTicks

\* Bug: the count is not cleared by a tick inside the band.
CountExit_NoReset(i) ==
  exitCnt' = IF Exiting(i) THEN 0 ELSE IF i.band = "out" THEN exitCnt + 1 ELSE exitCnt

CountExit(i) ==
  exitCnt' = IF i.band = "out" /\ ~Exiting(i) THEN exitCnt + 1 ELSE 0

\* air_protect_cnt_ is incremented before it is compared.
AirNext == (air + 1) % Word
LiftsOff(i) == i.vert = "rising" /\ AirNext > MinAir

\* The three tests are made in a row: a later one overrides an earlier one.
StepNormal(i) ==
  /\ Handler(i) = "normal"
  /\ air' = AirNext
  /\ CountExit(i)
  /\ \/ /\ Exiting(i)
        /\ state' = "relax"
        /\ latch' = NoTargets
     \/ /\ ~Exiting(i)
        /\ state' = IF LiftsOff(i) THEN "offground" ELSE IF i.spin THEN "spin" ELSE "normal"
        /\ UNCHANGED latch
  /\ UNCHANGED enterCnt

Lands(i) == i.band # "out" /\ i.vert = "sinking"

\* Bug: landing does not restart the grace period.
StepOffground_KeepsAir(i) ==
  /\ Handler(i) = "offground"
  /\ CountExit(i)
  /\ state' = IF Exiting(i) THEN "relax" ELSE IF Lands(i) THEN "normal" ELSE state
  /\ UNCHANGED <<latch, air, enterCnt>>

StepOffground(i) ==
  /\ Handler(i) = "offground"
  /\ CountExit(i)
  /\ \/ /\ Exiting(i)
        /\ state' = "relax"
        /\ latch' = NoTargets
        /\ UNCHANGED air
     \/ /\ Lands(i)
        /\ state' = "normal"
        /\ air' = 0
        /\ UNCHANGED latch
     \/ /\ ~Exiting(i) /\ ~Lands(i)
        /\ UNCHANGED <<state, latch, air>>
  /\ UNCHANGED enterCnt

StepSpin(i) ==
  /\ Handler(i) = "spin"
  /\ state' = IF i.spin THEN "spin" ELSE "normal"
  /\ UNCHANGED <<latch, air, enterCnt, exitCnt>>

Step(i) == /\ CountFlip(i)
           /\ \/ StepRelax(i) \/ StepRecover(i) \/ StepFlatten(i) \/ StepNeutral(i)
              \/ StepNormal(i) \/ StepOffground(i) \/ StepSpin(i)

Next == \E i \in Inputs : Step(i)

Spec == Init /\ [][Next]_vars

-----------------------------------------------------------------------------
(* Properties *)

TypeOK == /\ state \in States
          /\ latch \in [Legs -> States \cup {NoTarget}]
          /\ air \in 0 .. Word - 1
          /\ flipover \in 0 .. FlipLimit
          /\ enterCnt \in 0 .. EnterTicks - 1
          /\ exitCnt \in 0 .. ExitTicks - 1

\* A leg-angle target is only ever pursued in the state that latched it: every
\* way out of a state clears delta_init_ on both legs, or finds it clear.
LatchFresh == \A l \in Legs : latch[l] \in {NoTarget, state}

ModeOf == [relax |-> "limp", recover |-> "rolling", flatten |-> "folding",
           neutral |-> "rising", normal |-> "balancing",
           offground |-> "balancing", spin |-> "balancing"]

\* The machine implements the modes of ChassisModes: it stands up along one
\* path, falls back only to limp or rolling, and drops its leg targets with
\* every change of mode.
Modes == INSTANCE ChassisModes WITH
           NoAim <- NoTarget,
           mode <- ModeOf[state],
           aim <- [l \in Legs |-> IF latch[l] = NoTarget THEN NoTarget ELSE ModeOf[latch[l]]]
ImplementsModes == Modes!Spec
=============================================================================
