---------------------------- MODULE ChassisProofs ----------------------------
(***************************************************************************)
(* Proofs about ChassisFsm and its monitor, for every value of the         *)
(* debounce times and of the width of air_protect_cnt_: the counters stay  *)
(* in range, no leg pursues the target of another state, the machine       *)
(* implements the modes of ChassisModes, the code's counts never run ahead *)
(* of what the sensors showed, and a robot that cooperates stands in time. *)
(***************************************************************************)
EXTENDS ChassisStandUp, TLAPS

Handlers(i) == \/ StepRelax(i) \/ StepRecover(i) \/ StepFlatten(i) \/ StepNeutral(i)
               \/ StepNormal(i) \/ StepOffground(i) \/ StepSpin(i)

LEMMA NextIsStep ==
  ASSUME [Next]_vars
  PROVE  UNCHANGED vars \/ \E i \in Inputs : CountFlip(i) /\ Handlers(i)
BY DEF Next, Step, Handlers

LEMMA InputFacts ==
  ASSUME NEW i \in Inputs
  PROVE  /\ i.move \in BOOLEAN /\ i.spin \in BOOLEAN
         /\ i.att \in {"inverted", "tilted", "upright"}
         /\ i.flat \in [Legs -> BOOLEAN]
         /\ i.band \in {"in", "mid", "out"}
         /\ i.vert \in {"rising", "sinking", "still"}
BY FsmAssumption DEF Inputs

-----------------------------------------------------------------------------
(* Types *)

LEMMA TypeInit == Init => TypeOK
BY FsmAssumption DEF Init, TypeOK, States, NoTargets

LEMMA FlipType ==
  ASSUME TypeOK, NEW i \in Inputs, CountFlip(i)
  PROVE  flipover' \in 0 .. FlipLimit
BY FsmAssumption DEF TypeOK, CountFlip, Flipped, Inverted

LEMMA AirType ==
  ASSUME TypeOK
  PROVE  AirNext \in 0 .. Word - 1
BY FsmAssumption DEF TypeOK, AirNext

LEMMA ExitType ==
  ASSUME TypeOK, NEW i \in Inputs, CountExit(i)
  PROVE  exitCnt' \in 0 .. ExitTicks - 1
BY FsmAssumption DEF TypeOK, CountExit, Exiting

LEMMA HandlerType ==
  ASSUME TypeOK, NEW i \in Inputs, Handlers(i)
  PROVE  /\ state' \in States
         /\ latch' \in [Legs -> States \cup {NoTarget}]
         /\ air' \in 0 .. Word - 1
         /\ enterCnt' \in 0 .. EnterTicks - 1
         /\ exitCnt' \in 0 .. ExitTicks - 1
<1> DEFINE Goal == /\ state' \in States
                   /\ latch' \in [Legs -> States \cup {NoTarget}]
                   /\ air' \in 0 .. Word - 1
                   /\ enterCnt' \in 0 .. EnterTicks - 1
                   /\ exitCnt' \in 0 .. ExitTicks - 1
<1> USE FsmAssumption DEF TypeOK, States
<1>1. CASE StepRelax(i)
  BY <1>1 DEF StepRelax, NoTargets
<1>2. CASE StepRecover(i)
  BY <1>2 DEF StepRecover, NoTargets, Latched
<1>3. CASE StepFlatten(i)
  BY <1>3 DEF StepFlatten, Latched
<1>4. CASE StepNeutral(i)
  BY <1>4 DEF StepNeutral, NoTargets, Latched
<1>5. CASE StepNormal(i)
  BY <1>5, AirType, ExitType DEF StepNormal, NoTargets
<1>6. CASE StepOffground(i)
  BY <1>6, ExitType DEF StepOffground, NoTargets
<1>7. CASE StepSpin(i)
  BY <1>7 DEF StepSpin
<1> QED
  BY <1>1, <1>2, <1>3, <1>4, <1>5, <1>6, <1>7 DEF Handlers

LEMMA TypeStep == TypeOK /\ [Next]_vars => TypeOK'
<1> SUFFICES ASSUME TypeOK, [Next]_vars PROVE TypeOK'
  OBVIOUS
<1>1. CASE UNCHANGED vars
  BY <1>1 DEF vars, TypeOK
<1>2. ASSUME NEW i \in Inputs, CountFlip(i), Handlers(i) PROVE TypeOK'
  BY <1>2, FlipType, HandlerType DEF TypeOK
<1> QED
  BY <1>1, <1>2, NextIsStep

\* Every counter of the machine stays below its limit.
THEOREM TypeCorrect == Spec => []TypeOK
BY TypeInit, TypeStep, PTL DEF Spec

-----------------------------------------------------------------------------
(* Leg targets.  LatchFresh is not inductive: the states between which the   *)
(* machine moves without relaxing the legs have to hold no target at all.    *)

LatchFree == state \in {"relax", "normal", "offground", "spin"} => latch = NoTargets

LatchInv == LatchFresh /\ LatchFree

LEMMA LatchInit == Init => LatchInv
BY DEF Init, LatchInv, LatchFresh, LatchFree, NoTargets

LEMMA LatchHandler ==
  ASSUME TypeOK, LatchInv, NEW i \in Inputs, Handlers(i)
  PROVE  LatchInv'
<1> USE DEF LatchInv, LatchFresh, LatchFree, NoTargets, NoTarget
<1>1. CASE StepRelax(i)
  BY <1>1 DEF StepRelax
<1>2. CASE StepRecover(i)
  <2>1. state = "recover"
    BY <1>2 DEF StepRecover, Handler
  <2> QED
    BY <1>2, <2>1 DEF StepRecover, Latched
<1>3. CASE StepFlatten(i)
  <2>1. state = "flatten"
    BY <1>3 DEF StepFlatten, Handler
  <2> QED
    BY <1>3, <2>1 DEF StepFlatten, Latched
<1>4. CASE StepNeutral(i)
  <2>1. state = "neutral"
    BY <1>4 DEF StepNeutral, Handler
  <2> QED
    BY <1>4, <2>1 DEF StepNeutral, Latched
<1>5. CASE StepNormal(i)
  BY <1>5 DEF StepNormal, Handler
<1>6. CASE StepOffground(i)
  BY <1>6 DEF StepOffground, Handler
<1>7. CASE StepSpin(i)
  BY <1>7 DEF StepSpin, Handler
<1> QED
  BY <1>1, <1>2, <1>3, <1>4, <1>5, <1>6, <1>7 DEF Handlers

IInv == TypeOK /\ LatchInv

LEMMA Invariant == Spec => []IInv
<1>1. Init => IInv
  BY TypeInit, LatchInit DEF IInv
<1>2. IInv /\ [Next]_vars => IInv'
  <2> SUFFICES ASSUME IInv, [Next]_vars PROVE IInv'
    OBVIOUS
  <2>1. TypeOK'
    BY TypeStep DEF IInv
  <2>2. CASE UNCHANGED vars
    BY <2>2, <2>1 DEF vars, IInv, LatchInv, LatchFresh, LatchFree
  <2>3. ASSUME NEW i \in Inputs, CountFlip(i), Handlers(i) PROVE IInv'
    BY <2>1, <2>3, LatchHandler DEF IInv
  <2> QED
    BY <2>2, <2>3, NextIsStep
<1> QED
  BY <1>1, <1>2, PTL DEF Spec

\* No leg-angle target outlives the state that latched it.
THEOREM NoStaleTarget == Spec => []LatchFresh
<1>1. IInv => LatchFresh
  BY DEF IInv, LatchInv
<1> QED
  BY <1>1, Invariant, PTL

-----------------------------------------------------------------------------
(* Refinement.  Mode and Aim are the images of the abstract variables.       *)

Mode == ModeOf[state]
AimOf(l) == IF latch[l] = NoTarget THEN NoTarget ELSE ModeOf[latch[l]]
Aim == [l \in Legs |-> AimOf(l)]

LEMMA RefinesInit == Init => Modes!Init
BY DEF Init, Modes!Init, Modes!Limp, Modes!NoAims, ModeOf, NoTargets, NoTarget

\* A step that clears the latches is a change of mode along an edge, or none.
LEMMA RefinesChange ==
  ASSUME IInv, latch' = NoTargets,
         \/ <<Mode, Mode'>> \in Modes!Edges /\ Mode' \in Modes!Modes
         \/ state' = state /\ latch = NoTargets
  PROVE  [Modes!Next]_(Modes!vars)
<1>1. Aim' = Modes!NoAims
  BY DEF Aim, AimOf, NoTargets, NoTarget, Modes!NoAims
<1>2. CASE state' = state /\ latch = NoTargets
  BY <1>2 DEF Modes!vars
<1>3. CASE <<Mode, Mode'>> \in Modes!Edges /\ Mode' \in Modes!Modes /\ Mode' # Mode
  <2>1. Modes!Change
    BY <1>1, <1>3 DEF Modes!Change, Mode, Aim, AimOf
  <2> QED
    BY <2>1 DEF Modes!Next
<1>4. CASE Mode' = Mode
  <2>1. CASE Aim = Modes!NoAims
    BY <1>1, <1>4, <2>1 DEF Modes!vars, Mode, Aim, AimOf
  <2>2. CASE Mode \in Modes!Aiming
    <3>1. Modes!Pursue
      <4>1. Aim' \in [Legs -> {NoTarget, Mode}]
        BY <1>1 DEF Modes!NoAims
      <4> QED
        BY <1>4, <2>2, <4>1 DEF Modes!Pursue, Mode, Aim, AimOf
    <3> QED
      BY <3>1 DEF Modes!Next
  <2>3. Aim = Modes!NoAims \/ Mode \in Modes!Aiming
    BY DEF IInv, TypeOK, States, LatchInv, LatchFree, NoTargets, NoTarget,
           Aim, AimOf, Modes!NoAims, Mode, ModeOf, Modes!Aiming
  <2> QED
    BY <2>1, <2>2, <2>3
<1> QED
  BY <1>2, <1>3, <1>4

\* A step that stays in a mode with targets pursues them.
LEMMA RefinesPursue ==
  ASSUME IInv, state' = state, state \in {"recover", "flatten", "neutral"},
         latch' \in [Legs -> {NoTarget, state}]
  PROVE  [Modes!Next]_(Modes!vars)
<1>1. Mode \in Modes!Aiming /\ Mode' = Mode
  BY DEF Mode, ModeOf, Modes!Aiming
<1>2. Aim' \in [Legs -> {NoTarget, Mode}]
  BY DEF Aim, AimOf, Mode
<1>3. Modes!Pursue
  BY <1>1, <1>2 DEF Modes!Pursue, Mode, Aim, AimOf
<1> QED
  BY <1>3 DEF Modes!Next

LEMMA RefinesHandler ==
  ASSUME IInv, NEW i \in Inputs, Handlers(i)
  PROVE  [Modes!Next]_(Modes!vars)
<1> USE DEF NoTarget
<1>0. state \in States /\ latch \in [Legs -> {NoTarget, state}] /\ LatchFree
  BY DEF IInv, TypeOK, LatchInv, LatchFresh
<1>1. CASE StepRelax(i)
  <2>1. latch' = NoTargets
    BY <1>1 DEF StepRelax
  <2>2. \/ <<Mode, Mode'>> \in Modes!Edges /\ Mode' \in Modes!Modes
        \/ state' = state /\ latch = NoTargets
    <3>1. CASE state' = "relax"
      BY <1>0, <3>1 DEF States, Mode, ModeOf, Modes!Edges, Modes!Modes, Modes!Limp, Modes!Aiming
    <3>2. CASE state' = "recover"
      BY <1>0, <3>2 DEF States, Mode, ModeOf, Modes!Edges, Modes!Modes, Modes!Limp, Modes!Aiming
    <3>3. CASE state' = "flatten"
      <4>1. state = "relax"
        BY <1>1, <3>3 DEF StepRelax, Handler, Flipped, Inverted
      <4> QED
        BY <3>3, <4>1 DEF Mode, ModeOf, Modes!Edges, Modes!Modes, Modes!Limp, Modes!Aiming
    <3> QED
      BY <1>1, <3>1, <3>2, <3>3 DEF StepRelax
  <2> QED
    BY <2>1, <2>2, RefinesChange
<1>2. CASE StepRecover(i)
  <2>1. state = "recover"
    BY <1>2 DEF StepRecover, Handler
  <2>2. CASE i.att = "upright"
    <3>1. latch' = NoTargets /\ <<Mode, Mode'>> \in Modes!Edges /\ Mode' \in Modes!Modes
      BY <1>2, <2>1, <2>2
      DEF StepRecover, Mode, ModeOf, Modes!Edges, Modes!Modes, Modes!Aiming
    <3> QED
      BY <3>1, RefinesChange
  <2>3. CASE i.att # "upright"
    <3>1. state' = state /\ latch' \in [Legs -> {NoTarget, state}]
      BY <1>0, <1>2, <2>3 DEF StepRecover, Latched
    <3> QED
      BY <2>1, <3>1, RefinesPursue
  <2> QED
    BY <2>2, <2>3
<1>3. CASE StepFlatten(i)
  <2>1. state = "flatten"
    BY <1>3 DEF StepFlatten, Handler
  <2>2. CASE \A l \in Legs : i.flat[l]
    <3>1. latch' = NoTargets /\ <<Mode, Mode'>> \in Modes!Edges /\ Mode' \in Modes!Modes
      BY <1>3, <2>1, <2>2
      DEF StepFlatten, NoTargets, Mode, ModeOf, Modes!Edges, Modes!Modes, Modes!Aiming
    <3> QED
      BY <3>1, RefinesChange
  <2>3. CASE ~ \A l \in Legs : i.flat[l]
    <3>1. state' = state /\ latch' \in [Legs -> {NoTarget, state}]
      BY <1>0, <1>3, <2>1, <2>3 DEF StepFlatten, Latched
    <3> QED
      BY <2>1, <3>1, RefinesPursue
  <2> QED
    BY <2>2, <2>3
<1>4. CASE StepNeutral(i)
  <2>1. state = "neutral"
    BY <1>4 DEF StepNeutral, Handler
  <2>2. CASE state' = "normal"
    <3>1. latch' = NoTargets /\ <<Mode, Mode'>> \in Modes!Edges /\ Mode' \in Modes!Modes
      BY <1>4, <2>1, <2>2
      DEF StepNeutral, Mode, ModeOf, Modes!Edges, Modes!Modes, Modes!Aiming
    <3> QED
      BY <3>1, RefinesChange
  <2>3. CASE state' # "normal"
    <3>1. state' = state /\ latch' \in [Legs -> {NoTarget, state}]
      BY <1>0, <1>4, <2>3 DEF StepNeutral, Latched
    <3> QED
      BY <2>1, <3>1, RefinesPursue
  <2> QED
    BY <2>2, <2>3
<1>5. CASE StepNormal(i) \/ StepOffground(i) \/ StepSpin(i)
  <2>1. state \in {"normal", "offground", "spin"} /\ latch = NoTargets
    BY <1>0, <1>5 DEF StepNormal, StepOffground, StepSpin, Handler, LatchFree
  <2>2. latch' = NoTargets /\ state' \in {"relax", "normal", "offground", "spin"}
    BY <1>5, <2>1 DEF StepNormal, StepOffground, StepSpin
  <2>3. CASE state' = "relax"
    <3>1. <<Mode, Mode'>> \in Modes!Edges /\ Mode' \in Modes!Modes
      BY <2>1, <2>3 DEF Mode, ModeOf, Modes!Edges, Modes!Modes, Modes!Limp
    <3> QED
      BY <2>2, <3>1, RefinesChange
  <2>4. CASE state' # "relax"
    <3>1. Mode' = Mode
      BY <2>1, <2>2, <2>4 DEF Mode, ModeOf
    <3>2. Aim' = Aim
      BY <2>1, <2>2 DEF Aim, AimOf
    <3> QED
      BY <3>1, <3>2 DEF Modes!vars, Mode, Aim, AimOf
  <2> QED
    BY <2>3, <2>4
<1> QED
  BY <1>1, <1>2, <1>3, <1>4, <1>5 DEF Handlers

\* Counters and debouncing included, the machine goes through the modes along
\* their edges and drops its leg targets with every change of mode.
THEOREM Implementation == Spec => ImplementsModes
<1>1. Init => Modes!Init
  BY RefinesInit
<1>2. IInv /\ [Next]_vars => [Modes!Next]_(Modes!vars)
  <2> SUFFICES ASSUME IInv, [Next]_vars PROVE [Modes!Next]_(Modes!vars)
    OBVIOUS
  <2>1. CASE UNCHANGED vars
    BY <2>1 DEF vars, Modes!vars
  <2>2. ASSUME NEW i \in Inputs, Handlers(i) PROVE [Modes!Next]_(Modes!vars)
    BY <2>2, RefinesHandler
  <2> QED
    BY <2>1, <2>2, NextIsStep
<1> QED
  BY <1>1, <1>2, Invariant, PTL DEF Spec, ImplementsModes, Modes!Spec

-----------------------------------------------------------------------------
(* The debounce counters against the monitor *)

monitored == <<vars, monitor>>

MonitorType == /\ outRun \in 0 .. ExitTicks
               /\ invRun \in 0 .. FlipLimit + 1
               /\ sinceLanding \in 0 .. MinAir + 1

\* An old exit count does not get into a new stand-up; one from before SPIN
\* does get into NORMAL, as the run it belongs to does.
ExitBehind == state \in {"normal", "offground", "spin"} => exitCnt <= outRun

\* A stop keeps the flip count, but only as long as the state is RELAX.
FlipBehind == state \notin {"relax", "recover"} => flipover <= invRun

\* The wrap of air_protect_cnt_ only sets it back.
AirBehind == air <= sinceLanding \/ sinceLanding = MinAir + 1

MInv == TypeOK /\ MonitorType /\ ExitBehind /\ FlipBehind /\ AirBehind

LEMMA MonitorInitial == MonitorInit => MInv
BY TypeInit, FsmAssumption
DEF MonitorInit, Init, MInv, MonitorType, ExitBehind, FlipBehind, AirBehind

\* A tick of the machine with its monitor.
LEMMA MonitorStepIsStep ==
  ASSUME NEW i \in Inputs, MonitorStep(i)
  PROVE  CountFlip(i) /\ Handlers(i)
BY DEF MonitorStep, Step, Handlers

LEMMA MonitorTypeStep ==
  ASSUME MInv, NEW i \in Inputs, MonitorStep(i)
  PROVE  TypeOK' /\ MonitorType'
<1>1. TypeOK'
  BY MonitorStepIsStep, FlipType, HandlerType DEF MInv, TypeOK
<1>2. MonitorType'
  BY FsmAssumption DEF MInv, MonitorType, MonitorStep, Run, Saturate
<1> QED
  BY <1>1, <1>2

\* What a tick does to outRun and invRun.
LEMMA Runs ==
  ASSUME NEW i \in Inputs, MonitorStep(i)
  PROVE  /\ outRun' = IF Handler(i) = "spin" THEN outRun
                     ELSE Run(outRun, Handler(i) \in {"normal", "offground"} /\ i.band = "out", ExitTicks)
         /\ invRun' = Run(invRun, Inverted(i), FlipLimit + 1)
         /\ stopped' = Stopped(i)
BY DEF MonitorStep

LEMMA ExitStep ==
  ASSUME MInv, NEW i \in Inputs, MonitorStep(i)
  PROVE  ExitBehind'
<1> SUFFICES ASSUME state' \in {"normal", "offground", "spin"} PROVE exitCnt' <= outRun'
  BY DEF ExitBehind
<1>0. Handlers(i)
  BY MonitorStepIsStep
<1>1. exitCnt \in Nat /\ outRun \in 0 .. ExitTicks /\ outRun' \in 0 .. ExitTicks /\ ExitTicks \in Nat
  BY MonitorTypeStep, FsmAssumption DEF MInv, MonitorType, TypeOK
<1>2. CASE StepRelax(i) \/ StepRecover(i) \/ StepFlatten(i)
  BY <1>0, <1>2 DEF StepRelax, StepRecover, StepFlatten, Handler
<1>3. CASE StepNeutral(i)
  <2>1. state = "neutral"
    BY <1>3 DEF StepNeutral, Handler
  <2> QED
    BY <1>1, <1>3, <2>1 DEF StepNeutral
<1>4. CASE StepNormal(i) \/ StepOffground(i)
  <2>1. Handler(i) \in {"normal", "offground"} /\ state = Handler(i) /\ CountExit(i)
    BY <1>4 DEF StepNormal, StepOffground, Handler
  <2>2. CASE i.band = "out" /\ ~Exiting(i)
    <3>1. outRun' = Saturate(outRun + 1, ExitTicks) /\ exitCnt' = exitCnt + 1
      BY <2>1, <2>2, Runs DEF Run, CountExit
    <3>2. exitCnt <= outRun /\ exitCnt + 1 < ExitTicks
      BY <2>1, <2>2, <1>1, FsmAssumption DEF MInv, ExitBehind, Exiting
    <3> QED
      BY <1>1, <3>1, <3>2 DEF Saturate
  <2>3. CASE ~(i.band = "out" /\ ~Exiting(i))
    BY <1>1, <2>1, <2>3 DEF CountExit
  <2> QED
    BY <2>2, <2>3
<1>5. CASE StepSpin(i)
  <2>1. Handler(i) = "spin" /\ state = "spin" /\ exitCnt' = exitCnt
    BY <1>5 DEF StepSpin, Handler
  <2>2. outRun' = outRun
    BY <2>1, Runs
  <2> QED
    BY <2>1, <2>2 DEF MInv, ExitBehind
<1> QED
  BY <1>0, <1>2, <1>3, <1>4, <1>5 DEF Handlers

LEMMA FlipStep ==
  ASSUME MInv, NEW i \in Inputs, MonitorStep(i)
  PROVE  FlipBehind'
<1> SUFFICES ASSUME state' \notin {"relax", "recover"} PROVE flipover' <= invRun'
  BY DEF FlipBehind
<1>1. /\ flipover \in 0 .. FlipLimit /\ FlipLimit \in Nat
      /\ invRun \in 0 .. FlipLimit + 1 /\ invRun' \in 0 .. FlipLimit + 1
      /\ Handlers(i) /\ CountFlip(i)
  BY MonitorTypeStep, MonitorStepIsStep, FsmAssumption DEF MInv, MonitorType, TypeOK
<1>2. ~Stopped(i)
  BY <1>1 DEF Handlers, Handler, StepRelax, StepRecover, StepFlatten, StepNeutral,
              StepNormal, StepOffground, StepSpin
<1>3. CASE Inverted(i) /\ ~Flipped(i)
  <2>1. flipover' = flipover + 1 /\ invRun' = Saturate(invRun + 1, FlipLimit + 1)
    BY <1>1, <1>2, <1>3, Runs DEF CountFlip, Run
  <2>2. state \notin {"relax", "recover"}
    BY <1>1, <1>3
    DEF Inverted, Handlers, Handler, StepRelax, StepRecover, StepFlatten, StepNeutral,
        StepNormal, StepOffground, StepSpin
  <2>3. flipover <= invRun /\ flipover + 1 <= FlipLimit
    BY <1>1, <1>3, <2>2 DEF MInv, FlipBehind, Flipped
  <2> QED
    BY <1>1, <2>1, <2>3 DEF Saturate
<1>4. CASE ~(Inverted(i) /\ ~Flipped(i))
  BY <1>1, <1>2, <1>4 DEF CountFlip
<1> QED
  BY <1>3, <1>4

LEMMA AirStep ==
  ASSUME MInv, NEW i \in Inputs, MonitorStep(i)
  PROVE  AirBehind'
<1>1. /\ air \in 0 .. Word - 1 /\ sinceLanding \in 0 .. MinAir + 1
      /\ MinAir \in Nat /\ Word \in Nat /\ MinAir + 1 < Word /\ Handlers(i)
  BY MonitorStepIsStep, FsmAssumption DEF MInv, MonitorType, TypeOK
<1>2. AirNext <= air + 1
  BY <1>1 DEF AirNext
<1>3. sinceLanding' = IF Handler(i) = "offground" /\ state' = "normal" THEN 0
                      ELSE IF Handler(i) = "normal" THEN Saturate(sinceLanding + 1, MinAir + 1)
                      ELSE sinceLanding
  BY DEF MonitorStep
<1>4. CASE StepNormal(i)
  <2>1. air' = AirNext /\ sinceLanding' = Saturate(sinceLanding + 1, MinAir + 1)
    BY <1>3, <1>4 DEF StepNormal
  <2>2. AirNext \in Nat
    BY AirType DEF MInv
  <2> QED
    BY <1>1, <1>2, <2>1, <2>2 DEF Saturate, AirBehind, MInv
<1>5. CASE StepOffground(i)
  BY <1>1, <1>3, <1>5 DEF StepOffground, Handler, AirBehind, MInv
<1>6. CASE ~StepNormal(i) /\ ~StepOffground(i)
  <2>1. air' = air /\ sinceLanding' = sinceLanding
    BY <1>1, <1>3, <1>6 DEF Handlers, StepRelax, StepRecover, StepFlatten, StepNeutral, StepSpin
  <2> QED
    BY <2>1 DEF MInv, AirBehind
<1> QED
  BY <1>4, <1>5, <1>6

LEMMA MonitorInvariant == MonitorSpec => []MInv
<1>1. MInv /\ [MonitorNext]_monitored => MInv'
  <2> SUFFICES ASSUME MInv, [MonitorNext]_monitored PROVE MInv'
    OBVIOUS
  <2>1. CASE UNCHANGED monitored
    BY <2>1 DEF monitored, vars, monitor, MInv, TypeOK, MonitorType, ExitBehind, FlipBehind, AirBehind
  <2>2. ASSUME NEW i \in Inputs, MonitorStep(i) PROVE MInv'
    BY <2>2, MonitorTypeStep, ExitStep, FlipStep, AirStep DEF MInv
  <2> QED
    BY <2>1, <2>2 DEF MonitorNext
<1> QED
  BY <1>1, MonitorInitial, PTL DEF MonitorSpec, monitored

-----------------------------------------------------------------------------
(* The properties, step by step *)

LEMMA GivesUpLate ==
  ASSUME MInv, NEW i \in Inputs, MonitorStep(i), GivesUp
  PROVE  outRun' >= ExitTicks
<1>1. /\ exitCnt \in Nat /\ outRun \in 0 .. ExitTicks /\ ExitTicks \in Nat
      /\ exitCnt <= outRun /\ state \in {"normal", "offground"} /\ Handlers(i)
  BY MonitorStepIsStep, FsmAssumption DEF MInv, MonitorType, TypeOK, ExitBehind, GivesUp, Moves
<1>2. ~Stopped(i) /\ state' = "relax"
  BY Runs DEF GivesUp, Moves
<1>3. Handler(i) \in {"normal", "offground"} /\ Exiting(i)
  BY <1>1, <1>2
  DEF Handlers, Handler, Flipped, Inverted, StepRelax, StepRecover, StepFlatten, StepNeutral,
      StepNormal, StepOffground, StepSpin, LiftsOff, Lands
<1>4. outRun' = Saturate(outRun + 1, ExitTicks)
  BY <1>3, Runs DEF Run, Exiting
<1> QED
  BY <1>1, <1>3, <1>4 DEF Saturate, Exiting

LEMMA RollsOverLate ==
  ASSUME MInv, NEW i \in Inputs, MonitorStep(i), RollsOver
  PROVE  invRun' > FlipLimit
<1>1. /\ flipover \in Nat /\ invRun \in 0 .. FlipLimit + 1 /\ FlipLimit \in Nat
      /\ flipover <= invRun /\ state \notin {"relax", "recover"} /\ Handlers(i)
  BY MonitorStepIsStep, FsmAssumption DEF MInv, MonitorType, TypeOK, FlipBehind, RollsOver
<1>2. Flipped(i)
  BY <1>1 DEF RollsOver, Handlers, Handler, StepRelax, StepRecover, StepFlatten, StepNeutral,
              StepNormal, StepOffground, StepSpin
<1>3. invRun' = Saturate(invRun + 1, FlipLimit + 1)
  BY <1>2, Runs DEF Flipped, Run
<1> QED
  BY <1>1, <1>2, <1>3 DEF Flipped, Saturate

LEMMA LiftsOffLate ==
  ASSUME MInv, NEW i \in Inputs, MonitorStep(i), Moves("normal", "offground")
  PROVE  sinceLanding' > MinAir
<1>1. /\ air \in Nat /\ sinceLanding \in 0 .. MinAir + 1 /\ MinAir \in Nat
      /\ AirNext \in Nat /\ Handlers(i)
  BY MonitorStepIsStep, FsmAssumption, AirType DEF MInv, MonitorType, TypeOK
<1>2. Handler(i) = "normal" /\ LiftsOff(i)
  BY <1>1 DEF Moves, Handlers, Handler, StepRelax, StepRecover, StepFlatten, StepNeutral,
              StepNormal, StepOffground, StepSpin
<1>3. sinceLanding' = Saturate(sinceLanding + 1, MinAir + 1)
  BY <1>2 DEF MonitorStep
<1>4. AirNext <= air + 1
  BY FsmAssumption DEF AirNext, MInv, TypeOK
<1> QED
  BY <1>1, <1>2, <1>3, <1>4 DEF Saturate, LiftsOff, MInv, AirBehind

\* Balancing is given up only after exit_relax_ticks ticks in a row outside the
\* band, whatever exit_relax_ticks is and whether or not the robot spins.
THEOREM ExitIsSustained == MonitorSpec => ExitSustained
<1>1. MInv /\ [MonitorNext]_monitored => [GivesUp => outRun' >= ExitTicks]_monitored
  BY GivesUpLate DEF MonitorNext, monitored
<1> QED
  BY <1>1, MonitorInvariant, PTL DEF MonitorSpec, ExitSustained, monitored

\* A robot that was busy goes to RECOVER only after more than FlipLimit ticks
\* in a row upside down, however often motion is stopped and started.
THEOREM FlipIsSustained == MonitorSpec => FlipSustained
<1>1. MInv /\ [MonitorNext]_monitored => [RollsOver => invRun' > FlipLimit]_monitored
  BY RollsOverLate DEF MonitorNext, monitored
<1> QED
  BY <1>1, MonitorInvariant, PTL DEF MonitorSpec, FlipSustained, monitored

\* A landing is followed by offground_min_air_ticks ticks without a take-off,
\* also when air_protect_cnt_ wraps around.
THEOREM GraceAfterLanding == MonitorSpec => GraceSinceLanding
<1>1. MInv /\ [MonitorNext]_monitored =>
        [Moves("normal", "offground") => sinceLanding' > MinAir]_monitored
  BY LiftsOffLate DEF MonitorNext, monitored
<1> QED
  BY <1>1, MonitorInvariant, PTL DEF MonitorSpec, GraceSinceLanding, monitored

-----------------------------------------------------------------------------
(* Standing up in time.  Every state has a number of ticks that a            *)
(* cooperating robot needs from it; a tick that does not reach NORMAL uses   *)
(* up one of them.                                                           *)

TicksFrom(s, count) ==
  IF s = "normal" THEN 0
  ELSE IF s \in {"offground", "spin"} THEN 1
  ELSE IF s = "neutral" THEN EnterTicks - count
  ELSE IF s = "flatten" THEN EnterTicks + 1
  ELSE EnterTicks + 2

StandInv == /\ TypeOK
            /\ waited \in Nat
            /\ ~settled => waited = 0
            /\ state = "normal" => waited = 0
            /\ waited + TicksFrom(state, enterCnt) <= EnterTicks + 2

LEMMA TicksRange ==
  ASSUME NEW s \in States, NEW count \in 0 .. EnterTicks - 1
  PROVE  /\ TicksFrom(s, count) \in 0 .. EnterTicks + 2
         /\ s # "normal" => TicksFrom(s, count) > 0
BY FsmAssumption DEF TicksFrom

LEMMA TicksNeutral ==
  ASSUME NEW count \in 0 .. EnterTicks - 1
  PROVE  TicksFrom("neutral", count) < TicksFrom("flatten", count)
BY FsmAssumption DEF TicksFrom

\* With the counters in range, every tick of a cooperating robot either ends in
\* NORMAL or leaves fewer ticks to go; from NORMAL it goes no further than one.
LEMMA Approaches ==
  ASSUME TypeOK, TypeOK', ~ForceRelax, NEW i \in Inputs, Cooperates(i), Step(i), state' # "normal"
  PROVE  IF state = "normal" THEN TicksFrom(state', enterCnt') = 1
         ELSE TicksFrom(state', enterCnt') < TicksFrom(state, enterCnt)
<1>0. /\ EnterTicks \in Nat \ {0} /\ enterCnt \in 0 .. EnterTicks - 1
      /\ enterCnt' \in 0 .. EnterTicks - 1 /\ state \in States
  BY FsmAssumption DEF TypeOK
<1>1. ~Stopped(i) /\ ~Inverted(i) /\ Handler(i) = state
  BY DEF Stopped, Inverted, Handler, Flipped, Cooperates
<1>2. Handlers(i)
  BY DEF Step, Handlers
<1>3. CASE StepRelax(i)
  <2>1. state = "relax" /\ state' = "flatten"
    BY <1>1, <1>3 DEF StepRelax, Cooperates
  <2> QED
    BY <1>0, <2>1 DEF TicksFrom
<1>4. CASE StepRecover(i)
  <2>1. state = "recover" /\ state' = "flatten"
    BY <1>1, <1>4 DEF StepRecover, Cooperates
  <2> QED
    BY <1>0, <2>1 DEF TicksFrom
<1>5. CASE StepFlatten(i)
  <2>1. state = "flatten" /\ state' = "neutral"
    BY <1>1, <1>5 DEF StepFlatten, Cooperates
  <2>2. TicksFrom("flatten", enterCnt) = TicksFrom("flatten", enterCnt')
    BY DEF TicksFrom
  <2> QED
    BY <1>0, <2>1, <2>2, TicksNeutral
<1>6. CASE StepNeutral(i)
  <2>1. state = "neutral" /\ state' = "neutral" /\ enterCnt' = enterCnt + 1
    BY <1>1, <1>6 DEF StepNeutral, Cooperates
  <2>2. /\ TicksFrom("neutral", enterCnt) = EnterTicks - enterCnt
        /\ TicksFrom("neutral", enterCnt + 1) = EnterTicks - (enterCnt + 1)
    BY DEF TicksFrom
  <2>3. EnterTicks - (enterCnt + 1) < EnterTicks - enterCnt
    BY <1>0
  <2> QED
    BY <2>1, <2>2, <2>3
<1>7. CASE StepNormal(i)
  <2>1. state = "normal" /\ ~Exiting(i) /\ ~i.spin
    BY <1>1, <1>7 DEF StepNormal, Cooperates, Exiting
  <2>2. state' = "offground"
    BY <1>7, <2>1 DEF StepNormal
  <2> QED
    BY <2>1, <2>2 DEF TicksFrom
<1>8. CASE StepOffground(i)
  <2>1. state = "offground" /\ ~Exiting(i) /\ Lands(i)
    BY <1>1, <1>8 DEF StepOffground, Cooperates, Exiting, Lands
  <2> QED
    BY <1>8, <2>1 DEF StepOffground
<1>9. CASE StepSpin(i)
  BY <1>1, <1>9 DEF StepSpin, Cooperates
<1> QED
  BY <1>2, <1>3, <1>4, <1>5, <1>6, <1>7, <1>8, <1>9 DEF Handlers

LEMMA StandTick == ASSUME ~ForceRelax, StandInv, Tick PROVE StandInv'
<1> DEFINE before == TicksFrom(state, enterCnt)
           after == TicksFrom(state', enterCnt')
<1>1. PICK i \in Inputs : (settled => Cooperates(i)) /\ MonitorStep(i)
  BY DEF Tick
<1>2. Step(i) /\ TypeOK'
  BY <1>1, TypeStep DEF StandInv, MonitorStep, Next
<1>3. TypeOK /\ EnterTicks \in Nat /\ waited \in Nat /\ waited + before <= EnterTicks + 2
  BY FsmAssumption DEF StandInv
<1>4. before \in 0 .. EnterTicks + 2 /\ after \in 0 .. EnterTicks + 2
  BY <1>2, <1>3, TicksRange DEF TypeOK
<1>5. /\ settled' = settled
      /\ waited' = IF settled /\ state' # "normal" THEN Saturate(waited + 1, EnterTicks + 2) ELSE 0
  BY DEF Tick, Run, TicksToStand
<1>6. /\ waited' \in Nat
      /\ ~settled' \/ state' = "normal" => waited' = 0
      /\ waited' + after <= EnterTicks + 2
  <2>1. CASE ~(settled /\ state' # "normal")
    <3>1. waited' = 0
      BY <1>5, <2>1
    <3> HIDE DEF after
    <3> QED
      BY <1>3, <1>4, <3>1
  <2>2. CASE settled /\ state' # "normal"
    <3>1. IF state = "normal" THEN after = 1 ELSE after < before
      BY <1>1, <1>2, <1>3, <2>2, Approaches
    <3>2. state = "normal" => waited = 0
      BY DEF StandInv
    <3>3. EnterTicks >= 1
      BY FsmAssumption
    <3> HIDE DEF after, before
    <3>4. waited + 1 + after <= EnterTicks + 2
      BY <1>3, <1>4, <3>1, <3>2, <3>3
    <3>5. waited' = waited + 1
      BY <1>3, <1>4, <1>5, <2>2, <3>4 DEF Saturate
    <3> QED
      BY <1>3, <1>4, <1>5, <2>2, <3>4, <3>5
  <2> QED
    BY <2>1, <2>2
<1> QED
  BY <1>2, <1>6 DEF StandInv

\* A robot that cooperates from some tick on stands enter_normal_ticks + 2 ticks
\* later at the latest, and is back in NORMAL as soon after every flight,
\* whatever state and counts it started from and for every debounce time.
THEOREM StandsInTime == StandUpSpec => []StandsUpInTime
<1>1. StandUpInit => StandInv
  <2>1. StandUpInit => TypeOK /\ waited = 0 /\ state = "relax" /\ enterCnt = 0
    BY TypeInit DEF StandUpInit, MonitorInit, Init
  <2>2. TicksFrom("relax", 0) = EnterTicks + 2
    BY DEF TicksFrom
  <2> QED
    BY <2>1, <2>2, FsmAssumption DEF StandInv
<1>2. ~ForceRelax /\ StandInv /\ [StandUpNext]_standUp => StandInv'
  <2> SUFFICES ASSUME ~ForceRelax, StandInv, [StandUpNext]_standUp PROVE StandInv'
    OBVIOUS
  <2>1. CASE Tick
    BY <2>1, StandTick
  <2>2. CASE Settle \/ UNCHANGED standUp
    <3>1. UNCHANGED <<vars, waited>> /\ (settled' = settled \/ settled' = TRUE)
      BY <2>2 DEF Settle, standUp
    <3>2. TypeOK' /\ UNCHANGED <<state, enterCnt, waited>>
      BY <3>1 DEF vars, StandInv, TypeOK
    <3> QED
      BY <3>1, <3>2 DEF StandInv
  <2> QED
    BY <2>1, <2>2 DEF StandUpNext
<1>3. StandInv => waited < TicksToStand
  <2> SUFFICES ASSUME StandInv PROVE waited < EnterTicks + 2
    BY DEF TicksToStand
  <2> DEFINE left == TicksFrom(state, enterCnt)
  <2>1. left \in 0 .. EnterTicks + 2 /\ (state # "normal" => left > 0)
    BY TicksRange DEF StandInv, TypeOK
  <2>2. waited \in Nat /\ waited + left <= EnterTicks + 2 /\ (state = "normal" => waited = 0)
    BY DEF StandInv
  <2> HIDE DEF left
  <2> QED
    BY <2>1, <2>2, FsmAssumption
<1>4. CASE ForceRelax
  BY <1>4, PTL DEF StandsUpInTime
<1>5. CASE ~ForceRelax
  BY <1>1, <1>2, <1>3, <1>5, PTL DEF StandUpSpec, StandsUpInTime
<1> QED
  BY <1>4, <1>5
=============================================================================
