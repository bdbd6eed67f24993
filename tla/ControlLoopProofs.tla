-------------------------- MODULE ControlLoopProofs --------------------------
(***************************************************************************)
(* Proofs about ControlLoop, for any number of samples and presses: each   *)
(* control step uses newer samples than the one before, and motion is      *)
(* switched at most once per press.                                        *)
(***************************************************************************)
EXTENDS ControlLoop, TLAPS

\* The two ways a run starts.
Start == Init \/ MovingInit

Samples == 0 .. MaxSample
Motors == [raw: Samples, ins: Samples, torque: BOOLEAN]
Holds == [raw: Samples, ins: Samples, cmd: BOOLEAN, input: Snapshots, motor: Motors]

-----------------------------------------------------------------------------
(* Types *)

LEMMA SampleEnds == MaxSample \in Samples /\ 0 \in Samples
  BY LoopAssumption DEF Samples

LEMMA PressEnds == 0 \in 0 .. MaxPresses
  BY LoopAssumption

LEMMA NoKeysType == NoKeys \in Snapshots
  BY TurnAssumption DEF NoKeys, Snapshots

LEMMA TypeStart == Start => TypeOK
<1> SUFFICES ASSUME Start PROVE TypeOK
  OBVIOUS
<1> USE SampleEnds, PressEnds, NoKeysType
<1>1. CASE Init
  <2>1. NoMotor \in Motors
    BY DEF NoMotor, Motors
  <2>2. topic \in Holds
    BY <1>1, <2>1 DEF Init, Holds
  <2> QED
    BY <1>1, <2>2 DEF Init, FusionInit, TypeOK, Holds, Motors, Samples
<1>2. CASE MovingInit
  BY <1>2 DEF MovingInit, TypeOK, Samples
<1> QED
  BY <1>1, <1>2 DEF Start

LEMMA PublishType ==
  ASSUME TypeOK, NEW t \in DOMAIN Readers, NEW m, Publish(t, m),
         t \in {"raw", "ins"} => m \in Samples,
         t = "cmd" => m \in BOOLEAN,
         t = "input" => m \in Snapshots,
         t = "motor" => m \in Motors
  PROVE  /\ topic' \in Holds
         /\ unread' \subseteq UNION {{s} \X Readers[s] : s \in DOMAIN Readers}
<1>1. topic \in Holds
  BY DEF TypeOK, Holds, Motors, Samples
<1>2. t \in {"raw", "ins", "cmd", "input", "motor"}
  BY DEF Readers
<1>3. topic' \in Holds
  BY <1>1, <1>2 DEF Publish, Holds
<1> QED
  BY <1>3 DEF TypeOK, Publish

LEMMA TypeNext == TypeOK /\ [Next]_vars => TypeOK'
<1> SUFFICES ASSUME TypeOK, [Next]_vars PROVE TypeOK'
  OBVIOUS
<1>h. topic \in Holds
  BY DEF TypeOK, Holds, Motors, Samples
<1> USE DEF bus, command, chassis, fusion
<1>1. CASE InputArrives
  <2>1. PICK keys \in Snapshots :
          /\ presses' = IF keys.space /\ ~topic.input.space THEN presses + 1 ELSE presses
          /\ presses' <= MaxPresses
          /\ Publish("input", keys)
    BY <1>1 DEF InputArrives
  <2>2. presses' \in 0 .. MaxPresses
    BY <2>1, LoopAssumption DEF TypeOK
  <2>3. topic' \in Holds /\ unread' \subseteq UNION {{s} \X Readers[s] : s \in DOMAIN Readers}
    BY <2>1, PublishType DEF Readers
  <2> QED
    BY <1>1, <2>2, <2>3 DEF InputArrives, TypeOK, Holds, Motors, Samples
<1>2. CASE StateArrives
  <2>1. NextSample \in Samples
    BY <1>h, LoopAssumption DEF NextSample, Holds, Samples
  <2>2. topic' \in Holds /\ unread' \subseteq UNION {{s} \X Readers[s] : s \in DOMAIN Readers}
    BY <1>2, <2>1, PublishType DEF Readers, StateArrives
  <2> QED
    BY <1>2, <2>2 DEF StateArrives, TypeOK, Holds, Motors, Samples
<1>3. CASE InsPublish
  <2>1. insRaw \in Samples
    BY DEF TypeOK, Samples
  <2>2. topic' \in Holds /\ unread' \subseteq UNION {{s} \X Readers[s] : s \in DOMAIN Readers}
    BY <1>3, <2>1, PublishType DEF Readers, InsPublish
  <2> QED
    BY <1>3, <2>2, SampleEnds DEF InsPublish, TypeOK, Holds, Motors, Samples
<1>4. CASE CommandPublish
  <2>1. move \in BOOLEAN
    BY DEF TypeOK
  <2>2. topic' \in Holds /\ unread' \subseteq UNION {{s} \X Readers[s] : s \in DOMAIN Readers}
    BY <1>4, <2>1, PublishType DEF Readers, CommandPublish
  <2> QED
    BY <1>4, <2>2 DEF CommandPublish, TypeOK, Holds, Motors, Samples
<1>5. CASE ChassisStep
  <2> DEFINE m == [raw |-> chRaw, ins |-> chIns, torque |-> chCmd /\ ~ForceRelax]
  <2>0. (chCmd /\ ~ForceRelax) \in BOOLEAN
    OBVIOUS
  <2>1. m \in Motors
    BY <2>0 DEF TypeOK, Motors, Samples
  <2>2. Publish("motor", m)
    BY <1>5 DEF ChassisStep
  <2>3. topic' \in Holds /\ unread' \subseteq UNION {{s} \X Readers[s] : s \in DOMAIN Readers}
    BY <2>1, <2>2, PublishType DEF Readers
  <2> QED
    BY <1>5, <2>3, SampleEnds DEF ChassisStep, NextRound, TypeOK, Holds, Motors, Samples
<1>6. CASE InsRead
  BY <1>h, <1>6 DEF InsRead, Taken, TypeOK, Holds, Samples
<1>7. CASE InsDropped
  BY <1>7, SampleEnds DEF InsDropped, Drop, TypeOK, Samples
<1>8. CASE CommandInput
  BY <1>h, <1>8 DEF CommandInput, Taken, TypeOK, Holds
<1>9. CASE CommandFuse
  <2>1. PICK y : Fuse(input, y)
    BY <1>9 DEF CommandFuse
  <2>2. move' \in BOOLEAN /\ spaceArmed' \in BOOLEAN /\ yawRef' \in BOOLEAN
    <3>1. (move # Toggles(input)) \in BOOLEAN /\ (spaceArmed \/ ~input.space) \in BOOLEAN
      OBVIOUS
    <3>2. (y > 0) \in BOOLEAN
      BY SMT
    <3>3. (IF TakesYaw(input) THEN y > 0 ELSE yawRef) \in BOOLEAN
      BY <3>2 DEF TypeOK
    <3> QED
      BY <2>1, <3>1, <3>3 DEF Fuse
  <2>3. spacePrev' \in BOOLEAN /\ yawInit' \in BOOLEAN /\ yawActivePrev' \in BOOLEAN
    BY <2>1, TurnAssumption DEF Fuse, TypeOK, Snapshots
  <2>4. toggles' \in Nat
    BY <1>9 DEF CommandFuse, TypeOK
  <2>5. topic' = topic /\ unread' \subseteq unread
    BY <1>9 DEF CommandFuse, Taken
  <2> QED
    BY <1>9, <2>2, <2>3, <2>4, <2>5 DEF CommandFuse, TypeOK
<1>10. CASE CommandDropped
  BY <1>10 DEF CommandDropped, Drop, TypeOK
<1>11. CASE ChassisRaw
  BY <1>h, <1>11 DEF ChassisRaw, Taken, TypeOK, Holds, Samples
<1>12. CASE ChassisIns
  BY <1>h, <1>12, SampleEnds DEF ChassisIns, Taken, NextRound, TypeOK, Holds, Samples
<1>13. CASE ChassisCmd
  BY <1>h, <1>13, SampleEnds DEF ChassisCmd, Taken, NextRound, TypeOK, Holds, Samples
<1>14. CASE ActuatorRead
  BY <1>h, <1>14 DEF ActuatorRead, Taken, TypeOK, Holds, Motors
<1>15. CASE UNCHANGED vars
  BY <1>15 DEF vars, TypeOK
<1> QED
  BY <1>1, <1>2, <1>3, <1>4, <1>5, <1>6, <1>7, <1>8, <1>9, <1>10, <1>11, <1>12, <1>13, <1>14, <1>15
  DEF Next, Ins, Command, Chassis

-----------------------------------------------------------------------------
(* Presses.  A press travels as a rising edge of the space bar: from the     *)
(* snapshot on the topic to the one command_service holds, and from there to *)
(* space_prev_.  Each edge still on its way may switch motion once.          *)

Rise(a, b) == IF b /\ ~a THEN 1 ELSE 0

EdgesLeft == toggles + Rise(spacePrev, input.space) + Rise(input.space, topic.input.space) <= presses
HeldIsSeen == cmdPc # "fuse" => spacePrev = input.space

PressInv == EdgesLeft /\ HeldIsSeen

LEMMA PressStart == Start => PressInv
<1> SUFFICES ASSUME Start PROVE PressInv
  OBVIOUS
<1>1. spacePrev = FALSE /\ input.space = FALSE /\ topic.input.space = FALSE
  BY DEF Start, Init, FusionInit, MovingInit, NoKeys
<1>2. toggles = 0 /\ presses = 0
  BY DEF Start, Init, MovingInit
<1>3. Rise(spacePrev, input.space) = 0 /\ Rise(input.space, topic.input.space) = 0
  BY <1>1 DEF Rise
<1>4. EdgesLeft
  BY <1>2, <1>3 DEF EdgesLeft
<1>5. spacePrev = input.space
  BY <1>1, Zenon
<1> QED
  BY <1>4, <1>5 DEF PressInv, HeldIsSeen

\* A snapshot adds an edge only where there is a press.
LEMMA RiseOver ==
  ASSUME NEW a \in BOOLEAN, NEW b \in BOOLEAN, NEW c \in BOOLEAN
  PROVE  Rise(a, c) <= Rise(a, b) + Rise(b, c) /\ Rise(a, a) = 0 /\ Rise(a, b) \in {0, 1}
  BY DEF Rise

LEMMA PressNext == TypeOK /\ PressInv /\ [Next]_vars => PressInv'
<1> SUFFICES ASSUME TypeOK, PressInv, [Next]_vars PROVE PressInv'
  OBVIOUS
<1> DEFINE held == input.space
           shown == topic.input.space
<1>h. topic \in Holds /\ input \in Snapshots
  BY DEF TypeOK, Holds, Motors, Samples
<1>b. spacePrev \in BOOLEAN /\ held \in BOOLEAN /\ shown \in BOOLEAN
  BY <1>h DEF TypeOK, Holds, Snapshots
<1>n. toggles \in Nat /\ presses \in Nat
  BY DEF TypeOK
<1>e. toggles + Rise(spacePrev, held) + Rise(held, shown) <= presses
  BY DEF PressInv, EdgesLeft
<1> USE DEF command, fusion
<1>1. CASE InputArrives
  <2>1. PICK keys \in Snapshots :
          /\ presses' = IF keys.space /\ ~topic.input.space THEN presses + 1 ELSE presses
          /\ Publish("input", keys)
    BY <1>1 DEF InputArrives
  <2>2. keys.space \in BOOLEAN
    BY DEF Snapshots
  <2>3. topic'.input = keys
    BY <1>h, <2>1 DEF Publish, Holds
  <2>4. presses' = presses + Rise(shown, keys.space)
    BY <2>1, <1>n, <1>b, <2>2 DEF Rise
  <2>5. Rise(held, keys.space) <= Rise(held, shown) + Rise(shown, keys.space)
    BY <1>b, <2>2, RiseOver
  <2>6. /\ Rise(held, keys.space) \in {0, 1} /\ Rise(held, shown) \in {0, 1}
        /\ Rise(shown, keys.space) \in {0, 1} /\ Rise(spacePrev, held) \in {0, 1}
    BY <1>b, <2>2, RiseOver
  <2>7. toggles + Rise(spacePrev, held) + Rise(held, keys.space) <= presses'
    BY <1>e, <1>n, <2>4, <2>5, <2>6
  <2> QED
    BY <1>1, <2>3, <2>7 DEF InputArrives, PressInv, EdgesLeft, HeldIsSeen
<1>2. CASE CommandInput
  <2>1. spacePrev = held
    BY <1>2 DEF CommandInput, PressInv, HeldIsSeen
  <2>2. CASE input' = topic.input /\ topic' = topic
    <3>1. toggles + Rise(spacePrev, shown) + Rise(shown, shown) <= presses
      BY <1>e, <1>b, <1>n, <2>1, RiseOver
    <3> QED
      BY <1>2, <2>2, <3>1 DEF CommandInput, PressInv, EdgesLeft, HeldIsSeen
  <2>3. CASE UNCHANGED <<topic, input>>
    BY <1>2, <2>3 DEF CommandInput, PressInv, EdgesLeft, HeldIsSeen
  <2> QED
    BY <1>2, <2>2, <2>3 DEF CommandInput, Taken, bus
<1>3. CASE CommandFuse
  <2>1. spacePrev' = held /\ move' = (move # Toggles(input))
    BY <1>3 DEF CommandFuse, Fuse
  <2>2. UNCHANGED <<topic, input, presses>>
    BY <1>3 DEF CommandFuse, Taken, bus
  <2>3. toggles' <= toggles + Rise(spacePrev, held) /\ toggles' \in Nat
    <3>1. CASE move' = move
      BY <1>3, <3>1, <1>b, <1>n, RiseOver DEF CommandFuse
    <3>2. CASE move' # move
      <4>1. Toggles(input)
        <5>1. ~Toggles(input) => (move # Toggles(input)) = move
          BY Zenon DEF TypeOK, Toggles
        <5> QED
          BY <2>1, <3>2, <5>1
      <4>2. Rise(spacePrev, held) = 1
        BY <4>1 DEF Toggles, Rise
      <4> QED
        BY <1>3, <3>2, <4>2, <1>n DEF CommandFuse
    <3> QED
      BY <3>1, <3>2
  <2>4. Rise(held, held) = 0 /\ Rise(held, shown) \in {0, 1} /\ Rise(spacePrev, held) \in {0, 1}
    BY <1>b, RiseOver
  <2>5. toggles' + Rise(held, held) + Rise(held, shown) <= presses
    BY <1>e, <1>n, <2>3, <2>4
  <2> QED
    BY <2>1, <2>2, <2>5 DEF PressInv, EdgesLeft, HeldIsSeen
<1>4. CASE CommandPublish \/ CommandDropped
  <2>1. UNCHANGED <<input, spacePrev, presses, toggles>> /\ cmdPc # "fuse"
    BY <1>4 DEF CommandPublish, CommandDropped
  <2>2. topic'.input = topic.input
    BY <1>4, <1>h DEF CommandPublish, CommandDropped, Publish, Drop, bus, Holds
  <2> QED
    BY <2>1, <2>2 DEF PressInv, EdgesLeft, HeldIsSeen
<1>5. CASE StateArrives \/ Ins \/ Chassis \/ ActuatorRead
  <2>1. UNCHANGED <<cmdPc, input, spacePrev, presses, toggles>>
    BY <1>5 DEF StateArrives, Ins, InsRead, InsPublish, InsDropped, Chassis, ChassisRaw, ChassisIns,
                ChassisCmd, ChassisStep, ActuatorRead
  <2>2. topic'.input = topic.input
    BY <1>5, <1>h DEF StateArrives, Ins, InsRead, InsPublish, InsDropped, Chassis, ChassisRaw,
                ChassisIns, ChassisCmd, ChassisStep, ActuatorRead, Publish, Drop, Taken, bus, Holds
  <2> QED
    BY <2>1, <2>2 DEF PressInv, EdgesLeft, HeldIsSeen
<1>6. CASE UNCHANGED vars
  BY <1>6 DEF vars, bus, PressInv, EdgesLeft, HeldIsSeen
<1> QED
  BY <1>1, <1>2, <1>3, <1>4, <1>5, <1>6 DEF Next, Command

\* Type correctness of the loops and their topics, for any number of samples and
\* presses.
THEOREM TypeCorrect == FairSpec => []TypeOK
  BY TypeStart, TypeNext, PTL DEF FairSpec, Start

\* Motion is switched at most once per press of the space bar, for every number
\* of presses and whatever becomes of the snapshots (command_fusion::update).
THEOREM TogglesBounded == FairSpec => []OneTogglePerPress
<1>1. Start => TypeOK /\ PressInv
  BY TypeStart, PressStart
<1>2. (TypeOK /\ PressInv) /\ [Next]_vars => (TypeOK /\ PressInv)'
  BY TypeNext, PressNext
<1>3. TypeOK /\ PressInv => OneTogglePerPress
  <2> SUFFICES ASSUME TypeOK, PressInv PROVE OneTogglePerPress
    OBVIOUS
  <2>1. Rise(spacePrev, input.space) \in {0, 1} /\ Rise(input.space, topic.input.space) \in {0, 1}
    BY DEF Rise
  <2>2. toggles \in Nat /\ presses \in Nat
    BY DEF TypeOK
  <2> QED
    BY <2>1, <2>2 DEF PressInv, EdgesLeft, OneTogglePerPress
<1> QED
  BY <1>1, <1>2, <1>3, PTL DEF FairSpec, Start

-----------------------------------------------------------------------------
(* Samples.  A loop that takes from a topic has used one sample, may hold    *)
(* another, and the topic may have a third one pending for it: each is later *)
(* than the one before.                                                      *)

Ahead(used, held, holding, shown, pending) ==
  /\ used <= shown
  /\ pending => Later(used, shown)
  /\ holding => /\ Later(used, held)
                /\ held <= shown
                /\ pending => Later(held, shown)

RawStage == Ahead(topic.motor.raw, chRaw, chassisPc # "raw", topic.raw, Pending("raw", "chassis"))
InsStage == Ahead(topic.motor.ins, chIns, chassisPc \in {"cmd", "step"}, topic.ins, Pending("ins", "chassis"))
FilterStage == Ahead(topic.ins, insRaw, insRaw # 0, topic.raw, Pending("raw", "ins"))

FreshInv == RawStage /\ InsStage /\ FilterStage

LEMMA FreshStart == Start => FreshInv
<1> SUFFICES ASSUME Start PROVE FreshInv
  OBVIOUS
<1>1. unread = {} /\ chassisPc = "raw" /\ insRaw = 0
  BY DEF Start, Init, MovingInit
<1>2. /\ topic.motor.raw = topic.raw /\ topic.motor.ins = topic.ins /\ topic.ins = topic.raw
      /\ topic.raw \in Samples
  BY SampleEnds DEF Start, Init, MovingInit, NoMotor
<1> QED
  BY <1>1, <1>2 DEF FreshInv, RawStage, InsStage, FilterStage, Ahead, Pending, Samples

LEMMA FreshNext == TypeOK /\ FreshInv /\ [Next]_vars => FreshInv'
<1> SUFFICES ASSUME TypeOK, FreshInv, [Next]_vars PROVE FreshInv'
  OBVIOUS
<1>h. topic \in Holds
  BY DEF TypeOK, Holds, Motors, Samples
<1>t. /\ topic.raw \in Samples /\ topic.ins \in Samples
      /\ topic.motor.raw \in Samples /\ topic.motor.ins \in Samples
      /\ chRaw \in Samples /\ chIns \in Samples /\ insRaw \in Samples
  BY <1>h DEF TypeOK, Holds, Motors, Samples
<1> USE LoopAssumption DEF FreshInv, RawStage, InsStage, FilterStage, Ahead, Later, Samples
<1>1. CASE StateArrives
  <2>1. NextSample \in Samples /\ Later(topic.raw, NextSample)
    BY <1>t, LoopAssumption DEF NextSample, Later, Samples
  <2>2. /\ topic'.raw = NextSample /\ topic'.ins = topic.ins /\ topic'.motor = topic.motor
        /\ Pending("raw", "chassis")' /\ Pending("raw", "ins")'
        /\ Pending("ins", "chassis")' <=> Pending("ins", "chassis")
    BY <1>1, <1>h DEF StateArrives, Publish, Holds, Pending, Readers
  <2>3. UNCHANGED <<chRaw, chIns, chassisPc, insRaw>>
    BY <1>1 DEF StateArrives, chassis
  <2>4. RawStage'
    BY <1>t, <2>1, <2>2, <2>3
  <2>5. FilterStage'
    BY <1>t, <2>1, <2>2, <2>3
  <2>6. InsStage'
    BY <2>2, <2>3
  <2> QED
    BY <2>4, <2>5, <2>6
<1>2. CASE InsPublish
  <2>1. FilterStage /\ insRaw # 0 /\ Later(topic.ins, insRaw)
    BY <1>2 DEF InsPublish
  <2>2. /\ topic'.raw = topic.raw /\ topic'.ins = insRaw /\ topic'.motor = topic.motor
        /\ insRaw' = 0
        /\ Pending("raw", "chassis")' <=> Pending("raw", "chassis")
        /\ Pending("raw", "ins")' <=> Pending("raw", "ins")
        /\ Pending("ins", "chassis")'
    BY <1>2, <1>h DEF InsPublish, Publish, Holds, Pending, Readers
  <2>3. UNCHANGED <<chRaw, chIns, chassisPc>>
    BY <1>2 DEF InsPublish, chassis
  <2>4. RawStage'
    BY <2>2, <2>3
  <2>5. FilterStage'
    BY <1>t, <2>1, <2>2
  <2>6. InsStage'
    BY <1>t, <2>1, <2>2, <2>3
  <2> QED
    BY <2>4, <2>5, <2>6
<1>3. CASE InsRead
  <2>1. /\ topic' = topic /\ insRaw' = topic.raw
        /\ Pending("raw", "ins") /\ ~Pending("raw", "ins")'
        /\ Pending("raw", "chassis")' <=> Pending("raw", "chassis")
        /\ Pending("ins", "chassis")' <=> Pending("ins", "chassis")
    BY <1>3 DEF InsRead, Taken, Pending
  <2>2. UNCHANGED <<chRaw, chIns, chassisPc>>
    BY <1>3 DEF InsRead, chassis
  <2>3. FilterStage'
    BY <1>t, <2>1
  <2> QED
    BY <2>1, <2>2, <2>3
<1>4. CASE InsDropped
  <2>1. UNCHANGED <<topic, unread, chRaw, chIns, chassisPc>> /\ insRaw' = 0
    BY <1>4 DEF InsDropped, Drop, bus, chassis
  <2>2. FilterStage'
    BY <1>t, <2>1 DEF Pending
  <2> QED
    BY <2>1, <2>2 DEF Pending
<1>5. CASE ChassisRaw
  <2>1. /\ topic' = topic /\ chRaw' = topic.raw /\ chassisPc' = "ins"
        /\ chassisPc = "raw" /\ UNCHANGED <<insRaw, chIns>>
        /\ Pending("raw", "chassis") /\ ~Pending("raw", "chassis")'
        /\ Pending("raw", "ins")' <=> Pending("raw", "ins")
        /\ Pending("ins", "chassis")' <=> Pending("ins", "chassis")
    BY <1>5 DEF ChassisRaw, Taken, Pending
  <2>2. RawStage'
    BY <1>t, <2>1
  <2> QED
    BY <2>1, <2>2
<1>6. CASE ChassisIns /\ chassisPc' = "cmd"
  <2>1. /\ topic' = topic /\ chIns' = topic.ins
        /\ chassisPc = "ins" /\ UNCHANGED <<insRaw, chRaw>>
        /\ Pending("ins", "chassis") /\ ~Pending("ins", "chassis")'
        /\ Pending("raw", "ins")' <=> Pending("raw", "ins")
        /\ Pending("raw", "chassis")' <=> Pending("raw", "chassis")
    BY <1>6 DEF ChassisIns, NextRound, Taken, Pending
  <2>2. InsStage'
    BY <1>6, <1>t, <2>1
  <2> QED
    BY <1>6, <2>1, <2>2
<1>7. CASE ChassisCmd /\ chassisPc' = "step"
  <2>1. /\ topic' = topic /\ chassisPc = "cmd" /\ UNCHANGED <<insRaw, chRaw, chIns>>
        /\ Pending("ins", "chassis")' <=> Pending("ins", "chassis")
        /\ Pending("raw", "ins")' <=> Pending("raw", "ins")
        /\ Pending("raw", "chassis")' <=> Pending("raw", "chassis")
    BY <1>7 DEF ChassisCmd, NextRound, Taken, Pending
  <2> QED
    BY <1>7, <2>1
<1>8. CASE (ChassisIns \/ ChassisCmd) /\ chassisPc' = "raw"
  <2>1. UNCHANGED <<topic, unread, insRaw>>
    BY <1>8 DEF ChassisIns, ChassisCmd, bus
  <2>2. RawStage' /\ InsStage'
    BY <1>8, <1>t, <2>1 DEF Pending
  <2> QED
    BY <2>1, <2>2 DEF Pending
<1>9. CASE ChassisStep
  <2>1. /\ topic'.raw = topic.raw /\ topic'.ins = topic.ins
        /\ topic'.motor.raw = chRaw /\ topic'.motor.ins = chIns
        /\ Pending("ins", "chassis")' <=> Pending("ins", "chassis")
        /\ Pending("raw", "ins")' <=> Pending("raw", "ins")
        /\ Pending("raw", "chassis")' <=> Pending("raw", "chassis")
    BY <1>9, <1>h DEF ChassisStep, Publish, Holds, Pending, Readers
  <2>2. chassisPc = "step" /\ chassisPc' = "raw" /\ insRaw' = insRaw
    BY <1>9 DEF ChassisStep, NextRound
  <2>3. RawStage'
    BY <1>t, <2>1, <2>2
  <2>4. InsStage'
    BY <1>t, <2>1, <2>2
  <2> QED
    BY <2>1, <2>2, <2>3, <2>4
<1>10. CASE InputArrives \/ Command \/ ActuatorRead
  <2>1. UNCHANGED <<insRaw, chRaw, chIns, chassisPc>>
    BY <1>10 DEF InputArrives, Command, CommandInput, CommandFuse, CommandPublish, CommandDropped,
                 ActuatorRead, chassis
  <2>2. /\ topic'.raw = topic.raw /\ topic'.ins = topic.ins /\ topic'.motor = topic.motor
        /\ Pending("ins", "chassis")' <=> Pending("ins", "chassis")
        /\ Pending("raw", "ins")' <=> Pending("raw", "ins")
        /\ Pending("raw", "chassis")' <=> Pending("raw", "chassis")
    BY <1>10, <1>h
    DEF InputArrives, Command, CommandInput, CommandFuse, CommandPublish, CommandDropped,
        ActuatorRead, Publish, Taken, Drop, bus, Holds, Pending, Readers
  <2> QED
    BY <2>1, <2>2
<1>11. CASE UNCHANGED vars
  BY <1>11 DEF vars, bus, chassis, Pending
<1>12. ChassisIns => chassisPc' \in {"cmd", "raw"}
  BY DEF ChassisIns, NextRound
<1>13. ChassisCmd => chassisPc' \in {"step", "raw"}
  BY DEF ChassisCmd, NextRound
<1> QED
  BY <1>1, <1>2, <1>3, <1>4, <1>5, <1>6, <1>7, <1>8, <1>9, <1>10, <1>11, <1>12, <1>13
  DEF Next, Ins, Chassis

LEMMA FreshStep ==
  ASSUME TypeOK, FreshInv, [Next]_vars, chassisPc = "step", chassisPc' = "raw"
  PROVE  Later(topic.motor.raw, topic'.motor.raw) /\ Later(topic.motor.ins, topic'.motor.ins)
<1>h. topic \in Holds
  BY DEF TypeOK, Holds, Motors, Samples
<1>1. CASE ChassisStep
  <2>1. topic'.motor.raw = chRaw /\ topic'.motor.ins = chIns
    BY <1>1, <1>h DEF ChassisStep, Publish, Holds
  <2> QED
    BY <2>1 DEF FreshInv, RawStage, InsStage, Ahead
<1>2. CASE InputArrives \/ StateArrives \/ Ins \/ Command \/ ActuatorRead \/ UNCHANGED vars
  BY <1>2 DEF InputArrives, StateArrives, Ins, InsRead, InsPublish, InsDropped, Command, CommandInput,
              CommandFuse, CommandPublish, CommandDropped, ActuatorRead, chassis, vars
<1>3. CASE ChassisRaw \/ ChassisIns \/ ChassisCmd
  BY <1>3 DEF ChassisRaw, ChassisIns, ChassisCmd
<1> QED
  BY <1>1, <1>2, <1>3 DEF Next, Chassis

\* Every control step uses a raw state and an attitude newer than the step
\* before, however the loops of services.cpp are interleaved and whatever is
\* dropped or given up half way, for any number of samples.
THEOREM SamplesFresh == FairSpec => FreshControl
<1>1. Start => TypeOK /\ FreshInv
  BY TypeStart, FreshStart
<1>2. (TypeOK /\ FreshInv) /\ [Next]_vars => (TypeOK /\ FreshInv)'
  BY TypeNext, FreshNext
<1> DEFINE Step == chassisPc = "step" /\ chassisPc' = "raw" =>
                     /\ Later(topic.motor.raw, topic'.motor.raw)
                     /\ Later(topic.motor.ins, topic'.motor.ins)
<1>3. (TypeOK /\ FreshInv) /\ [Next]_vars => [Step]_vars
  BY FreshStep
<1> QED
  BY <1>1, <1>2, <1>3, PTL DEF FairSpec, Start, FreshControl
=============================================================================
