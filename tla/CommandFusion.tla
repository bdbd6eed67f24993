---------------------------- MODULE CommandFusion ----------------------------
(***************************************************************************)
(* command_fusion of controller/include/control/balance.hpp: what one      *)
(* keyboard snapshot and one attitude make of the command.  Kept are the   *)
(* enable switch and the yaw reference; the velocity and yaw-rate ramps,   *)
(* the leg length and the position hold are numbers no decision reads.     *)
(***************************************************************************)
EXTENDS Naturals

CONSTANT TurnInputs  \* the values the turn keys take

ASSUME TurnAssumption == TurnInputs \subseteq BOOLEAN /\ FALSE \in TurnInputs

VARIABLES move,          \* move_enabled_
          spacePrev,     \* space_prev_
          spaceArmed,    \* space_armed_
          yawRef,        \* does msg_.yaw come from an attitude, or from the
                         \* zero of a round that had none
          yawInit,       \* yaw_ref_initialized_
          yawActivePrev  \* yaw_active_prev_

fusion == <<move, spacePrev, spaceArmed, yawRef, yawInit, yawActivePrev>>

\* turn: exactly one of A and D is down (yaw_active).
Snapshots == [space: BOOLEAN, turn: TurnInputs]
NoKeys == [space |-> FALSE, turn |-> FALSE]

FusionInit == /\ move = FALSE
              /\ spacePrev = FALSE /\ spaceArmed = FALSE
              /\ yawRef = FALSE /\ yawInit = FALSE /\ yawActivePrev = FALSE

\* A press counts once the key has been seen up since the start.
Toggles(keys) == spaceArmed /\ keys.space /\ ~spacePrev

\* The first update and the release of the turn keys take over the yaw given;
\* with A or D down the reference drifts at the yaw rate, which is left out.
TakesYaw(keys) == ~yawInit \/ (yawActivePrev /\ ~keys.turn)

\* Bug: the key is compared with its first reading, not with the last one.
Fuse_NoPrev(keys, totalYaw) ==
  /\ move' = (move # Toggles(keys))
  /\ spaceArmed' = (spaceArmed \/ ~keys.space)
  /\ yawRef' = (IF TakesYaw(keys) THEN totalYaw > 0 ELSE yawRef)
  /\ yawInit' = TRUE
  /\ yawActivePrev' = keys.turn
  /\ UNCHANGED spacePrev

Fuse(keys, totalYaw) ==
  /\ move' = (move # Toggles(keys))
  /\ spaceArmed' = (spaceArmed \/ ~keys.space)
  /\ spacePrev' = keys.space
  /\ yawRef' = (IF TakesYaw(keys) THEN totalYaw > 0 ELSE yawRef)
  /\ yawInit' = TRUE
  /\ yawActivePrev' = keys.turn
=============================================================================
