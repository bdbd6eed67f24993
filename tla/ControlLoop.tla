---------------------------- MODULE ControlLoop ----------------------------
(***************************************************************************)
(* The loops of controller/src/services.cpp joined by their topics: raw    *)
(* state -> ins_service -> attitude -> chassis_service -> motor command -> *)
(* actuator_service, and the keyboard -> command_service -> command ->     *)
(* chassis_service.  Each topic is the mailbox that MsgBus implements, so  *)
(* one publish or one read is one step here; a publish with block = false  *)
(* may be dropped.  The loops run at the same rate but not in step.        *)
(*                                                                         *)
(* A raw state is its number.  What is computed from it carries the same   *)
(* number, 0 being a value-initialised message; a motor command says from  *)
(* which samples it is and whether it has torque, a command whether motion *)
(* is enabled.  MaxSample stands for all the samples from there on.  A raw *)
(* state that finds its topic taken is lost and has no number.  The        *)
(* pendulum topic only feeds the position hold and the log topic only the  *)
(* displays: both are left out, as is the odometry topic, which nobody     *)
(* subscribes to.                                                          *)
(***************************************************************************)
EXTENDS CommandFusion, FiniteSets

CONSTANTS ForceRelax,  \* cfg.force_relax
          MaxSample,   \* bound: samples told apart
          MaxPresses   \* bound: presses of the space bar

ASSUME LoopAssumption == /\ ForceRelax \in BOOLEAN
                         /\ MaxSample \in Nat \ {0} /\ MaxPresses \in Nat

VARIABLES
  presses,             \* how often space went down from one snapshot to the next
  topic,               \* what each topic holds
  unread,              \* <<topic, service>>: the mailboxes flagged
  insRaw,              \* ins_service: the raw state being filtered, 0 if none
  cmdPc, input,        \* command_service
  chassisPc, chRaw, chIns, chCmd,   \* chassis_service
  motorCmd,            \* actuator_service::motor_cmd_, torque or none
  toggles              \* auxiliary: how often move was switched

bus == <<topic, unread>>
command == <<cmdPc, input, fusion, toggles>>
chassis == <<chassisPc, chRaw, chIns, chCmd>>
vars == <<presses, bus, insRaw, command, chassis, motorCmd>>

\* Bug: the chassis does not subscribe the attitude.
Readers_NoChassisIns == [raw   |-> {"ins", "chassis"}, ins |-> {"command"},
                         cmd |-> {"chassis"}, input |-> {"command"}, motor |-> {"actuator"}]

Readers == [raw   |-> {"ins", "chassis"},
            ins   |-> {"command", "chassis"},
            cmd   |-> {"chassis"},
            input |-> {"command"},
            motor |-> {"actuator"}]

NoMotor == [raw |-> 0, ins |-> 0, torque |-> FALSE]

Init == /\ FusionInit
        /\ presses = 0
        /\ topic = [raw |-> 0, ins |-> 0, cmd |-> FALSE, input |-> NoKeys, motor |-> NoMotor]
        /\ unread = {}
        /\ insRaw = 0
        /\ cmdPc = "input" /\ input = NoKeys
        /\ chassisPc = "raw" /\ chRaw = 0 /\ chIns = 0 /\ chCmd = FALSE
        /\ motorCmd = FALSE
        /\ toggles = 0

\* The same loops a while later: a press has enabled motion, everything sent has
\* been taken, and every loop is at the start of a round.  Presses and toggles
\* are counted from there on.
MovingInit ==
  /\ move = TRUE /\ spacePrev = FALSE /\ spaceArmed = TRUE
  /\ yawRef = TRUE /\ yawInit = TRUE /\ yawActivePrev = FALSE
  /\ presses = 0
  /\ topic = [raw |-> MaxSample, ins |-> MaxSample, cmd |-> TRUE, input |-> NoKeys,
              motor |-> [raw |-> MaxSample, ins |-> MaxSample, torque |-> TRUE]]
  /\ unread = {}
  /\ insRaw = 0
  /\ cmdPc = "input" /\ input = NoKeys
  /\ chassisPc = "raw" /\ chRaw = 0 /\ chIns = 0 /\ chCmd = FALSE
  /\ motorCmd = TRUE
  /\ toggles = 0

Publish(t, m) == /\ topic' = [topic EXCEPT ![t] = m]
                 /\ unread' = unread \cup ({t} \X Readers[t])
Drop == UNCHANGED bus

Pending(t, s) == <<t, s>> \in unread
Taken(t, s) == unread' = unread \ {<<t, s>>} /\ UNCHANGED topic

-----------------------------------------------------------------------------
(* The eCAL handlers *)

\* A keyboard snapshot; what the keys did between two snapshots nobody sees.
\* The input handler waits for the topic.
InputArrives ==
  \E keys \in Snapshots :
    /\ presses' = IF keys.space /\ ~topic.input.space THEN presses + 1 ELSE presses
    /\ presses' <= MaxPresses
    /\ Publish("input", keys)
    /\ UNCHANGED <<insRaw, command, chassis, motorCmd>>

NextSample == IF topic.raw < MaxSample THEN topic.raw + 1 ELSE topic.raw

\* The state handler does not wait; a state lost that way changes nothing.
StateArrives ==
  /\ Publish("raw", NextSample)
  /\ UNCHANGED <<presses, insRaw, command, chassis, motorCmd>>

-----------------------------------------------------------------------------
(* ins_service::loop *)

InsRead ==
  /\ insRaw = 0
  /\ Pending("raw", "ins")
  /\ Taken("raw", "ins")
  /\ insRaw' = topic.raw
  /\ UNCHANGED <<presses, command, chassis, motorCmd>>

InsPublish ==
  /\ insRaw # 0
  /\ Publish("ins", insRaw)
  /\ insRaw' = 0
  /\ UNCHANGED <<presses, command, chassis, motorCmd>>

InsDropped ==
  /\ insRaw # 0
  /\ Drop
  /\ insRaw' = 0
  /\ UNCHANGED <<presses, command, chassis, motorCmd>>

-----------------------------------------------------------------------------
(* command_service::loop *)

CommandInput ==
  /\ cmdPc = "input"
  /\ cmdPc' = "fuse"
  /\ \/ Pending("input", "command") /\ Taken("input", "command") /\ input' = topic.input
     \/ ~Pending("input", "command") /\ UNCHANGED <<bus, input>>
  /\ UNCHANGED <<presses, insRaw, fusion, toggles, chassis, motorCmd>>

\* The attitude is a local, zero at the start of every round, and the status of
\* the read is not looked at: with nothing pending zero is what is fused.
CommandFuse ==
  /\ cmdPc = "fuse"
  /\ cmdPc' = "publish"
  /\ \/ Pending("ins", "command") /\ Taken("ins", "command") /\ Fuse(input, topic.ins)
     \/ ~Pending("ins", "command") /\ UNCHANGED bus /\ Fuse(input, 0)
  /\ toggles' = IF move' # move THEN toggles + 1 ELSE toggles
  /\ UNCHANGED <<presses, insRaw, input, chassis, motorCmd>>

CommandPublish ==
  /\ cmdPc = "publish"
  /\ cmdPc' = "input"
  /\ Publish("cmd", move)
  /\ UNCHANGED <<presses, insRaw, input, fusion, toggles, chassis, motorCmd>>

CommandDropped ==
  /\ cmdPc = "publish"
  /\ cmdPc' = "input"
  /\ Drop
  /\ UNCHANGED <<presses, insRaw, input, fusion, toggles, chassis, motorCmd>>

-----------------------------------------------------------------------------
(* chassis_service::loop: the three reads are joined by ||, so the first     *)
(* one that finds nothing ends the round, and what the earlier ones took is  *)
(* gone: the three are locals of the round.                                  *)

NextRound == chassisPc' = "raw" /\ chRaw' = 0 /\ chIns' = 0 /\ chCmd' = FALSE

ChassisRaw ==
  /\ chassisPc = "raw"
  /\ Pending("raw", "chassis")
  /\ Taken("raw", "chassis")
  /\ chRaw' = topic.raw
  /\ chassisPc' = "ins"
  /\ UNCHANGED <<presses, insRaw, command, chIns, chCmd, motorCmd>>

\* Bug: the status of this read is not looked at.
ChassisIns_Unchecked ==
  /\ chassisPc = "ins"
  /\ Taken("ins", "chassis")
  /\ chIns' = topic.ins
  /\ chassisPc' = "cmd"
  /\ UNCHANGED <<presses, insRaw, command, chRaw, chCmd, motorCmd>>

ChassisIns ==
  /\ chassisPc = "ins"
  /\ \/ /\ Pending("ins", "chassis")
        /\ Taken("ins", "chassis")
        /\ chIns' = topic.ins
        /\ chassisPc' = "cmd"
        /\ UNCHANGED <<chRaw, chCmd>>
     \/ /\ ~Pending("ins", "chassis")
        /\ NextRound
        /\ UNCHANGED bus
  /\ UNCHANGED <<presses, insRaw, command, motorCmd>>

ChassisCmd ==
  /\ chassisPc = "cmd"
  /\ \/ /\ Pending("cmd", "chassis")
        /\ Taken("cmd", "chassis")
        /\ chCmd' = topic.cmd
        /\ chassisPc' = "step"
        /\ UNCHANGED <<chRaw, chIns>>
     \/ /\ ~Pending("cmd", "chassis")
        /\ NextRound
        /\ UNCHANGED bus
  /\ UNCHANGED <<presses, insRaw, command, motorCmd>>

\* Bug: a motor command without torque is not worth publishing.
ChassisStep_TorqueOnly ==
  /\ chassisPc = "step"
  /\ NextRound
  /\ \/ chCmd /\ Publish("motor", [raw |-> chRaw, ins |-> chIns, torque |-> TRUE])
     \/ ~chCmd /\ Drop
  /\ UNCHANGED <<presses, insRaw, command, motorCmd>>

\* One step of the state machine; without move the torques are zero.  The
\* motor command waits for its topic.
ChassisStep ==
  /\ chassisPc = "step"
  /\ NextRound
  /\ Publish("motor", [raw |-> chRaw, ins |-> chIns, torque |-> chCmd /\ ~ForceRelax])
  /\ UNCHANGED <<presses, insRaw, command, motorCmd>>

-----------------------------------------------------------------------------
(* actuator_service::loop, up to the commit (see EcalIo) *)

ActuatorRead ==
  /\ Pending("motor", "actuator")
  /\ Taken("motor", "actuator")
  /\ motorCmd' = topic.motor.torque
  /\ UNCHANGED <<presses, insRaw, command, chassis>>

-----------------------------------------------------------------------------
Ins == InsRead \/ InsPublish \/ InsDropped
Command == CommandInput \/ CommandFuse \/ CommandPublish \/ CommandDropped
Chassis == ChassisRaw \/ ChassisIns \/ ChassisCmd \/ ChassisStep

Next == \/ InputArrives \/ StateArrives
        \/ Ins \/ Command \/ Chassis \/ ActuatorRead

Spec == Init /\ [][Next]_vars

\* Every loop keeps running, states and keyboard snapshots keep arriving, and
\* no publisher finds its topic taken every time it tries.
Fairness ==
  /\ WF_vars(Ins) /\ WF_vars(Command) /\ WF_vars(Chassis) /\ WF_vars(ActuatorRead)
  /\ WF_vars(StateArrives) /\ WF_vars(InputArrives)
  /\ SF_vars(InsPublish) /\ SF_vars(CommandPublish)

\* The robot as it is started, and one that moves already.
FairSpec == (Init \/ MovingInit) /\ [][Next]_vars /\ Fairness

-----------------------------------------------------------------------------
(* Properties *)

TypeOK ==
  /\ presses \in 0 .. MaxPresses
  /\ topic \in [raw: 0 .. MaxSample, ins: 0 .. MaxSample, cmd: BOOLEAN, input: Snapshots,
                motor: [raw: 0 .. MaxSample, ins: 0 .. MaxSample, torque: BOOLEAN]]
  /\ unread \subseteq UNION {{t} \X Readers[t] : t \in DOMAIN Readers}
  /\ insRaw \in 0 .. MaxSample
  /\ cmdPc \in {"input", "fuse", "publish"} /\ input \in Snapshots
  /\ chassisPc \in {"raw", "ins", "cmd", "step"}
  /\ chRaw \in 0 .. MaxSample /\ chIns \in 0 .. MaxSample
  /\ chCmd \in BOOLEAN
  /\ motorCmd \in BOOLEAN
  /\ move \in BOOLEAN /\ spacePrev \in BOOLEAN /\ spaceArmed \in BOOLEAN
  /\ yawRef \in BOOLEAN /\ yawInit \in BOOLEAN /\ yawActivePrev \in BOOLEAN
  /\ toggles \in Nat

Later(old, new) == new > old \/ new = MaxSample

\* Each control step uses a raw state and an attitude newer than the step
\* before: the filters of the loop never see a sample twice, nor an older one.
FreshControl ==
  [][chassisPc = "step" /\ chassisPc' = "raw" =>
       Later(topic.motor.raw, topic'.motor.raw) /\ Later(topic.motor.ins, topic'.motor.ins)]_vars

\* Motion is switched at most once per press of the space bar, however often
\* the snapshots of one press are delivered or read again.
OneTogglePerPress == toggles <= presses

\* When motion stays disabled the actuator ends up with zero torque for good,
\* past dropped commands and rounds of the chassis loop that gave up half way.
StopReachesMotors == (<>[]~move) => <>[]~motorCmd

\* With samples coming in, control steps keep being made: the chassis loop,
\* which throws away what it read when a later read fails, does not starve.
ControlGoesOn == []<>(chassisPc = "step")

\* What the README says: when A or D are released the yaw reference is reset
\* to the current yaw, so never from a yaw some attitude gave to none.
YawResetToCurrent ==
  [][yawActivePrev /\ ~yawActivePrev' /\ yawRef => yawRef']_vars
=============================================================================
