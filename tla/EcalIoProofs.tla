---------------------------- MODULE EcalIoProofs ----------------------------
(***************************************************************************)
(* Proofs about EcalIo, for any number of epochs and ticks: commits go out *)
(* in order and once, missed_ticks counts the ticks passed over, and a     *)
(* settled registration is ended by nothing but a restart.                 *)
(***************************************************************************)
EXTENDS EcalIo, FiniteSetTheorems, FunctionTheorems, TLAPS

\* The statistics are kept by FlushSent alone.
Keeping == <<lastSent, commits, statsCount, statsMissed, shownCount, shownMissed>>

-----------------------------------------------------------------------------
(* Types, with what the actuator has taken being newer than all it sent. *)

TakenNewer == actuatorPc = "sending" => taken \in Ticks /\ taken.id > lastSent

TypeInv == TypeOK /\ TakenNewer

LEMMA TypeInit == Init => TypeInv
<1> SUFFICES ASSUME Init PROVE TypeInv
  OBVIOUS
<1>1. simEpoch \in 1 .. MaxEpoch /\ simTick \in 0 .. MaxTick
  BY BoundsAssumption DEF Init
<1>2. ackEpoch \in 0 .. MaxEpoch /\ lastSent \in 0 .. MaxTick
  BY BoundsAssumption DEF Init
<1> QED
  BY <1>1, <1>2 DEF Init, TypeInv, TypeOK, TakenNewer

LEMMA TypeSim == TypeInv /\ (SimTick \/ SimRestart \/ SimAck \/ Lose) => TypeInv'
<1> SUFFICES ASSUME TypeInv PROVE (SimTick \/ SimRestart \/ SimAck \/ Lose) => TypeInv'
  OBVIOUS
<1> USE BoundsAssumption
    DEF TypeInv, TypeOK, TakenNewer, sim, net, registration, pendingTick, stats, sendings,
        tickThread, actuator
<1>1. CASE SimTick
  <2>1. [epoch |-> simEpoch, id |-> simTick + 1] \in Ticks
    BY <1>1 DEF SimTick, Ticks
  <2> QED
    BY <1>1, <2>1 DEF SimTick
<1>2. CASE SimRestart
  BY <1>2 DEF SimRestart
<1>3. CASE SimAck
  BY <1>3 DEF SimAck
<1>4. CASE Lose
  BY <1>4 DEF Lose
<1> QED
  BY <1>1, <1>2, <1>3, <1>4

LEMMA TypeHandlers == TypeInv /\ (AckStep \/ TickStep) => TypeInv'
<1> SUFFICES ASSUME TypeInv PROVE (AckStep \/ TickStep) => TypeInv'
  OBVIOUS
<1> USE DEF TypeInv, TypeOK, TakenNewer, sim, net, registration, pendingTick, stats, sendings,
            tickThread, actuator
<1>1. CASE AckEpoch
  BY <1>1 DEF AckEpoch
<1>2. CASE AckRegistered
  BY <1>2 DEF AckRegistered
<1>3. CASE TickArrives
  BY <1>3 DEF TickArrives
<1>4. CASE TickStale
  BY <1>4 DEF TickStale, TickReturns, NoTick
<1>5. CASE TickStored
  BY <1>5 DEF TickStored, TickReturns, NoTick
<1> QED
  BY <1>1, <1>2, <1>3, <1>4, <1>5 DEF AckStep, TickStep

\* At the end of a send, nothing counted as missed is negative.
LEMMA MissedIsNat ==
  ASSUME TypeInv, actuatorPc = "sending"
  PROVE  /\ taken.id \in 1 .. MaxTick /\ lastSent \in Nat /\ taken.id > lastSent
         /\ NewlyMissed \in Nat
BY BoundsAssumption DEF TypeInv, TypeOK, TakenNewer, Ticks, NewlyMissed

LEMMA TypeActuator == TypeInv /\ ActuatorStep => TypeInv'
<1> SUFFICES ASSUME TypeInv PROVE ActuatorStep => TypeInv'
  OBVIOUS
<1> USE BoundsAssumption
    DEF TypeInv, TypeOK, TakenNewer, sim, net, registration, pendingTick, stats, sendings,
        tickThread, actuator
<1>1. CASE Poll
  BY <1>1 DEF Poll
<1>2. CASE PollRegisters
  BY <1>2 DEF PollRegisters
<1>3. CASE FlushChecked
  BY <1>3 DEF FlushChecked
<1>4. CASE FlushTaken
  <2>1. CASE ~Committable
    BY <1>4, <2>1 DEF FlushTaken
  <2>2. CASE Committable
    <3>1. latestTick \in Ticks
      BY <2>2 DEF Committable, NoTick
    <3> QED
      BY <1>4, <2>2, <3>1 DEF FlushTaken, Committable
  <2> QED
    BY <2>1, <2>2
<1>5. CASE FlushSent
  <2>1. /\ taken.id \in 1 .. MaxTick /\ taken.id \in 0 .. MaxTick
        /\ NewlyMissed \in Nat
    BY <1>5, MissedIsNat DEF FlushSent
  <2>2. /\ statsCount' \in Nat /\ statsMissed' \in Nat
        /\ shownCount' \in Nat /\ shownMissed' \in Nat
    BY <1>5, <2>1 DEF FlushSent
  <2>3. lastSent' \in 0 .. MaxTick /\ commits' \subseteq Ticks
    BY <1>5, <2>1 DEF FlushSent
  <2> QED
    BY <1>5, <2>2, <2>3 DEF FlushSent, FlushReturns, NoTick
<1>6. CASE FlushFailed
  BY <1>6 DEF FlushFailed, FlushReturns, NoTick
<1> QED
  BY <1>1, <1>2, <1>3, <1>4, <1>5, <1>6 DEF ActuatorStep

LEMMA TypeStep == TypeInv /\ [Next]_vars => TypeInv'
<1>1. TypeInv /\ UNCHANGED vars => TypeInv'
  BY DEF vars, TypeInv, TypeOK, TakenNewer, sim, net, registration, pendingTick, stats,
         sendings, tickThread, actuator
<1> QED
  BY <1>1, TypeSim, TypeHandlers, TypeActuator DEF Next

\* Type correctness; NewlyMissed never goes below zero.
THEOREM TypeCorrect == Spec => []TypeOK
<1>1. TypeInv => TypeOK
  BY DEF TypeInv
<1> QED
  BY <1>1, TypeInit, TypeStep, PTL DEF Spec

-----------------------------------------------------------------------------
(* Only a successful send touches the statistics. *)

LEMMA OnlySends ==
  ASSUME [Next]_vars
  PROVE  FlushSent \/ UNCHANGED Keeping
<1> USE DEF Keeping, sim, net, registration, pendingTick, stats, sendings, tickThread, actuator
<1>1. CASE UNCHANGED vars
  BY <1>1 DEF vars
<1>2. CASE SimTick \/ SimRestart \/ SimAck \/ Lose
  BY <1>2 DEF SimTick, SimRestart, SimAck, Lose
<1>3. CASE AckStep \/ TickStep
  BY <1>3 DEF AckStep, TickStep, AckEpoch, AckRegistered, TickArrives, TickStale, TickStored
<1>4. CASE ActuatorStep
  BY <1>4 DEF ActuatorStep, Poll, PollRegisters, FlushChecked, FlushTaken, FlushFailed
<1> QED
  BY <1>1, <1>2, <1>3, <1>4 DEF Next

\* Ticks go one way, from the simulator to the commits, and no epoch overtakes
\* the one before it.
EpochInv ==
  /\ latestTick.epoch <= simEpoch
  /\ \A c \in commits : c.epoch <= latestTick.epoch
  /\ \A t \in tickBox : /\ latestTick.epoch <= t.epoch /\ t.epoch <= simEpoch
                        /\ tickBox = {t}
  /\ tickPc # "idle" =>
       /\ latestTick.epoch <= tickArg.epoch /\ tickArg.epoch <= simEpoch
       /\ \A t \in tickBox : tickArg.epoch <= t.epoch
  /\ actuatorPc = "sending" =>
       taken.epoch <= latestTick.epoch /\ \A c \in commits : c.epoch <= taken.epoch

LEMMA EpochTypes ==
  ASSUME TypeInv
  PROVE  /\ simEpoch \in Nat /\ latestTick.epoch \in Nat /\ tickArg.epoch \in Nat
         /\ taken.epoch \in Nat
         /\ \A t \in tickBox : t.epoch \in Nat
         /\ \A c \in commits : c.epoch \in Nat
BY BoundsAssumption DEF TypeInv, TypeOK, Ticks, NoTick

LEMMA EpochStep == TypeInv /\ EpochInv /\ [Next]_vars => EpochInv'
<1> SUFFICES ASSUME TypeInv, EpochInv, [Next]_vars PROVE EpochInv'
  OBVIOUS
<1> USE EpochTypes
    DEF EpochInv, sim, net, registration, pendingTick, stats, sendings, tickThread, actuator
<1>1. CASE SimTick
  BY <1>1 DEF SimTick
<1>2. CASE SimRestart
  BY <1>2 DEF SimRestart
<1>3. CASE SimAck
  BY <1>3 DEF SimAck
<1>4. CASE Lose
  BY <1>4 DEF Lose
<1>5. CASE AckStep
  BY <1>5 DEF AckStep, AckEpoch, AckRegistered
<1>6. CASE TickArrives
  BY <1>6 DEF TickArrives
<1>7. CASE TickStale
  BY <1>7 DEF TickStale, TickReturns
<1>8. CASE TickStored
  <2>1. tickPc # "idle" /\ tickPc' = "idle" /\ UNCHANGED <<simEpoch, tickBox, commits, taken, actuatorPc>>
    BY <1>8 DEF TickStored, TickReturns
  <2>2. CASE UNCHANGED latestTick
    BY <2>1, <2>2
  <2>3. CASE latestTick' = tickArg
    BY <2>1, <2>3
  <2> QED
    BY <1>8, <2>2, <2>3 DEF TickStored
<1>9. CASE Poll \/ PollRegisters \/ FlushChecked \/ FlushFailed
  BY <1>9 DEF Poll, PollRegisters, FlushChecked, FlushFailed, FlushReturns
<1>10. CASE FlushTaken
  BY <1>10 DEF FlushTaken
<1>11. CASE FlushSent
  BY <1>11 DEF FlushSent, FlushReturns
<1>12. CASE UNCHANGED vars
  BY <1>12 DEF vars
<1> QED
  BY <1>1, <1>2, <1>3, <1>4, <1>5, <1>6, <1>7, <1>8, <1>9, <1>10, <1>11, <1>12
     DEF Next, TickStep, ActuatorStep

\* lastSent is the number of the newest commit.
NewestSent == /\ \A c \in commits : c.id \in 1 .. lastSent
              /\ lastSent # 0 => \E c \in commits : c.id = lastSent

\* The ticks passed over when S are the commits.
Missed(S) == {t \in Ticks : /\ t \notin S
                            /\ \E c \in S : c.id < t.id
                            /\ \E c \in S : c.epoch = t.epoch /\ c.id > t.id
                            /\ \A c \in S : c.epoch < t.epoch => c.id < t.id}

\* The commits and the ticks passed over are finitely many.
CountInv == IsFiniteSet(commits) /\ IsFiniteSet(Missed(commits))

SendInv == TypeInv /\ EpochInv /\ NewestSent /\ CountInv /\ StatsExact

LEMMA MissedIsPassedOver == Missed(commits) = {t \in Ticks : PassedOver(t)}
BY DEF Missed, PassedOver

LEMMA SendInit == Init => SendInv
<1> SUFFICES ASSUME Init PROVE SendInv
  OBVIOUS
<1>1. NewestSent
  BY DEF Init, NewestSent
<1>2. EpochInv
  BY DEF Init, EpochInv, NoTick
<1>3. commits = {} /\ Missed(commits) = {}
  BY DEF Init, Missed
<1>4. CountInv
  BY <1>3, FS_EmptySet DEF CountInv
<1>5. StatsExact
  <2>1. statsCount + shownCount = 0 /\ statsMissed + shownMissed = 0
    BY DEF Init
  <2> QED
    BY <1>3, <2>1, FS_EmptySet, MissedIsPassedOver DEF StatsExact
<1> QED
  BY <1>1, <1>2, <1>4, <1>5, TypeInit DEF SendInv

\* The ticks of an epoch with numbers between two others.
Between(e, a, b) == {[epoch |-> e, id |-> n] : n \in a + 1 .. b - 1}

\* They are as many as the numbers.
LEMMA GapCounts ==
  ASSUME NEW e, NEW a \in Nat, NEW b \in Nat, b > a
  PROVE  IsFiniteSet(Between(e, a, b)) /\ Cardinality(Between(e, a, b)) = b - a - 1
<1> DEFINE Gap == Between(e, a, b)
           tick == [n \in a + 1 .. b - 1 |-> [epoch |-> e, id |-> n]]
<1>1. tick \in Bijection(a + 1 .. b - 1, Gap)
  <2>1. tick \in [a + 1 .. b - 1 -> Gap]
    BY DEF Between
  <2>2. ASSUME NEW m \in a + 1 .. b - 1, NEW n \in a + 1 .. b - 1, tick[m] = tick[n]
        PROVE  m = n
    <3>1. tick[m].id = m /\ tick[n].id = n
      OBVIOUS
    <3> QED
      BY <2>2, <3>1
  <2>3. \A t \in Gap : \E n \in a + 1 .. b - 1 : tick[n] = t
    BY DEF Between
  <2> HIDE DEF Gap, tick
  <2> QED
    BY <2>1, <2>2, <2>3, Fun_IsBij
<1>2. IsFiniteSet(a + 1 .. b - 1) /\ Cardinality(a + 1 .. b - 1) = b - a - 1
  <2>1. a + 1 \in Int /\ b - 1 \in Int
    OBVIOUS
  <2>2. /\ IsFiniteSet(a + 1 .. b - 1)
        /\ Cardinality(a + 1 .. b - 1) = IF a + 1 > b - 1 THEN 0 ELSE (b - 1) - (a + 1) + 1
    BY <2>1, FS_Interval
  <2> QED
    BY <2>2
<1>3. ExistsBijection(a + 1 .. b - 1, Gap)
  BY <1>1 DEF ExistsBijection
<1> HIDE DEF Gap, tick
<1> QED
  BY <1>2, <1>3, FS_Bijection DEF Gap

\* A commit of the tick t, newer than all of S and of no earlier epoch, adds
\* itself to the commits, and to the ticks passed over those of its epoch
\* between the last number sent and its own.
LEMMA CommitCounts ==
  ASSUME NEW S \in SUBSET Ticks, NEW last \in Nat, NEW t \in Ticks, t.id > last,
         \A c \in S : c.id \in 1 .. last /\ c.epoch <= t.epoch,
         last # 0 => \E c \in S : c.id = last,
         IsFiniteSet(S), IsFiniteSet(Missed(S))
  PROVE  /\ IsFiniteSet(S \cup {t}) /\ IsFiniteSet(Missed(S \cup {t}))
         /\ Cardinality(S \cup {t}) = Cardinality(S) + 1
         /\ Cardinality(S) \in Nat /\ Cardinality(Missed(S)) \in Nat
         /\ Cardinality(Missed(S \cup {t})) =
              Cardinality(Missed(S)) + (IF last # 0 THEN t.id - last - 1 ELSE 0)
<1>1. Cardinality(S) \in Nat /\ Cardinality(Missed(S)) \in Nat
  BY FS_CardinalityType
<1>2. IsFiniteSet(S \cup {t}) /\ Cardinality(S \cup {t}) = Cardinality(S) + 1
  <2>1. t \notin S
    OBVIOUS
  <2> QED
    BY <2>1, FS_AddElement
<1>3. /\ t.id \in 1 .. MaxTick /\ t.epoch \in 1 .. MaxEpoch
      /\ \A u \in Ticks : u.id \in 1 .. MaxTick /\ u.epoch \in 1 .. MaxEpoch
  BY DEF Ticks
<1>4. CASE last = 0
  <2>1. S = {}
    BY <1>4
  <2>2. Missed(S) = {} /\ Missed(S \cup {t}) = {}
    BY <1>3, <2>1, BoundsAssumption DEF Missed
  <2> QED
    BY <1>1, <1>2, <1>4, <2>2, FS_EmptySet
<1>5. CASE last # 0
  <2> DEFINE Gap == Between(t.epoch, last, t.id)
  <2>1. PICK newest \in S : newest.id = last
    BY <1>5
  <2>2. Missed(S) \subseteq Missed(S \cup {t})
    BY <1>3, BoundsAssumption DEF Missed
  <2>3. ASSUME NEW u \in Gap PROVE u \in Missed(S \cup {t}) /\ u \notin Missed(S)
    <3>1. PICK n \in last + 1 .. t.id - 1 : u = [epoch |-> t.epoch, id |-> n]
      BY <2>3 DEF Between
    <3>2. u \in Ticks /\ u.id = n /\ u.epoch = t.epoch
      BY <1>3, <3>1, BoundsAssumption DEF Ticks
    <3>3. \A c \in S : c.id < u.id
      BY <3>2
    <3> QED
      BY <1>3, <2>1, <3>2, <3>3, BoundsAssumption DEF Missed
  <2>4. ASSUME NEW u \in Missed(S \cup {t}), u \notin Missed(S) PROVE u \in Gap
    <3>1. u \in Ticks /\ u \notin S /\ u # t
      BY <2>4 DEF Missed
    <3>2. u.epoch = t.epoch /\ u.id < t.id /\ ~(\E c \in S : c.epoch = u.epoch /\ c.id > u.id)
      BY <1>3, <2>4, BoundsAssumption DEF Missed
    <3>3. newest.id < u.id
      <4>1. CASE newest.epoch = u.epoch
        <5>1. ~(newest.id > u.id)
          BY <3>2, <4>1
        <5>2. newest.id # u.id
          BY <2>1, <3>1, <4>1 DEF Ticks
        <5> QED
          BY <1>3, <2>1, <3>1, <5>1, <5>2, BoundsAssumption
      <4>2. CASE newest.epoch < u.epoch
        BY <2>1, <2>4, <4>2 DEF Missed
      <4> QED
        BY <1>3, <2>1, <3>1, <3>2, <4>1, <4>2, BoundsAssumption
    <3>4. u = [epoch |-> t.epoch, id |-> u.id] /\ u.id \in last + 1 .. t.id - 1
      BY <1>3, <2>1, <3>1, <3>2, <3>3, BoundsAssumption DEF Ticks
    <3> QED
      BY <3>4 DEF Between
  <2>5. IsFiniteSet(Gap) /\ Cardinality(Gap) = t.id - last - 1
    BY <1>3, GapCounts, BoundsAssumption
  <2> HIDE DEF Gap
  <2>6. Missed(S \cup {t}) = Missed(S) \cup Gap /\ Missed(S) \cap Gap = {}
    BY <2>2, <2>3, <2>4
  <2>7. /\ IsFiniteSet(Missed(S) \cup Gap)
        /\ Cardinality(Missed(S) \cup Gap) = Cardinality(Missed(S)) + (t.id - last - 1)
    <3>1. /\ IsFiniteSet(Missed(S) \cup Gap)
          /\ Cardinality(Missed(S) \cup Gap) =
               Cardinality(Missed(S)) + Cardinality(Gap) - Cardinality(Missed(S) \cap Gap)
      BY <2>5, FS_Union
    <3>2. Cardinality(Missed(S) \cap Gap) = 0
      BY <2>6, FS_EmptySet
    <3> QED
      BY <1>1, <1>3, <2>5, <3>1, <3>2, BoundsAssumption
  <2> QED
    BY <1>1, <1>2, <1>5, <2>6, <2>7
<1> QED
  BY <1>4, <1>5

LEMMA SendStep == SendInv /\ [Next]_vars => SendInv'
<1> SUFFICES ASSUME SendInv, [Next]_vars PROVE SendInv'
  OBVIOUS
<1>1. TypeInv' /\ EpochInv'
  BY TypeStep, EpochStep DEF SendInv
<1>2. CASE UNCHANGED Keeping
  BY <1>1, <1>2 DEF Keeping, SendInv, NewestSent, CountInv, Missed, StatsExact, PassedOver
<1>3. CASE FlushSent
  <2>1. /\ actuatorPc = "sending" /\ lastSent' = taken.id
        /\ commits' = commits \cup {taken}
        /\ statsCount' + shownCount' = statsCount + shownCount + 1
        /\ statsMissed' + shownMissed' = statsMissed + shownMissed + NewlyMissed
    <3>1. actuatorPc = "sending" /\ TypeOK /\ NewlyMissed \in Nat
      BY <1>3, MissedIsNat DEF FlushSent, SendInv, TypeInv
    <3> QED
      BY <1>3, <3>1 DEF FlushSent, TypeOK
  <2>2. lastSent \in Nat /\ taken.id \in Nat /\ taken.id > lastSent /\ taken \in Ticks
    BY <2>1, MissedIsNat DEF SendInv, TypeInv, TakenNewer
  <2>3. commits \in SUBSET Ticks /\ \A c \in commits : c.id \in 1 .. lastSent /\ c.epoch <= taken.epoch
    BY <2>1 DEF SendInv, TypeInv, TypeOK, NewestSent, EpochInv
  <2>4. NewestSent'
    <3>1. \A c \in commits' : c.id \in 1 .. lastSent'
      BY <2>1, <2>2, <2>3
    <3> QED
      BY <2>1, <3>1 DEF NewestSent
  <2>5. /\ IsFiniteSet(commits') /\ IsFiniteSet(Missed(commits'))
        /\ Cardinality(commits') = Cardinality(commits) + 1
        /\ Cardinality(commits) \in Nat /\ Cardinality(Missed(commits)) \in Nat
        /\ Cardinality(Missed(commits')) = Cardinality(Missed(commits)) + NewlyMissed
    BY <2>1, <2>2, <2>3, CommitCounts DEF SendInv, NewestSent, CountInv, NewlyMissed
  <2>6. /\ statsCount + shownCount = Cardinality(commits)
        /\ statsMissed + shownMissed = Cardinality(Missed(commits))
    BY MissedIsPassedOver DEF SendInv, StatsExact
  <2>7. Missed(commits') = {t \in Ticks : PassedOver(t)}'
    BY DEF Missed, PassedOver
  <2>8. StatsExact'
    BY <2>1, <2>5, <2>6, <2>7 DEF StatsExact
  <2> QED
    BY <1>1, <2>4, <2>5, <2>8 DEF SendInv, CountInv, Missed
<1> QED
  BY <1>2, <1>3, OnlySends

LEMMA SendInvariant == Spec => []SendInv
BY SendInit, SendStep, PTL DEF Spec

\* What the statistics print adds up to the commits and the ticks passed over,
\* for any number of restarts, failed sends and lost messages.
THEOREM StatisticsExact == Spec => []StatsExact
<1>1. SendInv => StatsExact
  BY DEF SendInv
<1> QED
  BY <1>1, SendInvariant, PTL

\* Commits go out in the order of their ticks, none of them twice, and none of
\* an old epoch after one of a newer.
THEOREM InOrder == Spec => CommitsInOrder
<1> DEFINE Ordered == commits' # commits \/ lastSent' # lastSent =>
                        \A c \in commits : /\ c.id < lastSent'
                                           /\ \A d \in commits' \ commits : c.epoch <= d.epoch
<1>1. SendInv /\ [Next]_vars => [Ordered]_vars
  <2> SUFFICES ASSUME SendInv, [Next]_vars, commits' # commits \/ lastSent' # lastSent,
                      NEW c \in commits
               PROVE  c.id < lastSent' /\ \A d \in commits' \ commits : c.epoch <= d.epoch
    OBVIOUS
  <2>1. FlushSent
    BY OnlySends DEF Keeping
  <2>2. lastSent \in Nat /\ lastSent' \in Nat /\ lastSent' > lastSent
    BY <2>1, MissedIsNat DEF FlushSent, SendInv
  <2>3. c.id \in 1 .. lastSent
    BY DEF SendInv, NewestSent
  <2>4. \A d \in commits' \ commits : d = taken /\ c.epoch <= taken.epoch
    BY <2>1 DEF FlushSent, SendInv, EpochInv
  <2> QED
    BY <2>2, <2>3, <2>4
<1> QED
  BY <1>1, SendInvariant, PTL DEF Spec, CommitsInOrder

-----------------------------------------------------------------------------
(* The registration, once settled *)

\* Without a restart a settled registration is never withdrawn: no handler finds
\* an epoch that differs from the one registered (ecal_io::on_tick, on_ack).
THEOREM SettledForGood == Spec => StaysSettled
<1> DEFINE Kept == Settled /\ simEpoch' = simEpoch => Settled'
<1>1. TypeOK /\ [Next]_vars => [Kept]_vars
  <2> SUFFICES ASSUME TypeOK, Next, Settled, simEpoch' = simEpoch PROVE Settled'
    OBVIOUS
  <2>1. CASE SimTick
    BY <2>1 DEF SimTick, Settled, registration, tickThread
  <2>2. CASE SimAck \/ Lose
    BY <2>2 DEF SimAck, Lose, Settled, registration, tickThread
  <2>3. CASE SimRestart
    <3>1. simEpoch \in Nat /\ simEpoch' = simEpoch + 1
      BY <2>3, BoundsAssumption DEF SimRestart, TypeOK
    <3> QED
      BY <3>1
  <2>4. CASE AckStep
    BY <2>4 DEF AckStep, AckEpoch, AckRegistered, Settled, sim, net, tickThread
  <2>5. CASE TickStep
    BY <2>5 DEF TickStep, TickArrives, TickStale, TickStored, TickReturns, Settled, sim,
                registration
  <2>6. CASE ActuatorStep
    BY <2>6 DEF ActuatorStep, Poll, PollRegisters, FlushChecked, FlushTaken, FlushSent, FlushFailed,
                Settled, sim, net, registration, tickThread
  <2> QED
    BY <2>1, <2>2, <2>3, <2>4, <2>5, <2>6 DEF Next
<1> QED
  BY <1>1, TypeCorrect, PTL DEF Spec, StaysSettled
=============================================================================
