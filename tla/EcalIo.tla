------------------------------- MODULE EcalIo -------------------------------
(***************************************************************************)
(* controller/src/ecal_io.cpp: the link to the simulator.  Three threads   *)
(* share the implementation object: the eCAL callback for registration     *)
(* acks, the one for ticks, and the actuator thread that polls, waits for  *)
(* a tick and commits the motor command for it.  registered is an atomic,  *)
(* the pending tick is behind tick_mutex; everything between two accesses  *)
(* to those is one action.                                                 *)
(*                                                                         *)
(* The simulator and the transport are external: ticks are numbered from 1 *)
(* in each epoch, a restart begins a new epoch, and any message may be     *)
(* lost or late, but not duplicated.                                       *)
(***************************************************************************)
EXTENDS Naturals, FiniteSets

CONSTANTS MaxEpoch,  \* bound: restarts of the simulator, plus one
          MaxTick    \* bound: ticks in an epoch

ASSUME BoundsAssumption == MaxEpoch \in Nat \ {0} /\ MaxTick \in Nat \ {0}

VARIABLES
  \* the simulator and what is in flight
  simEpoch, simTick,
  requests,   \* a registration request is on its way
  acks,       \* the epochs of the acks on their way
  tickBox,    \* the set of ticks on their way: a newer one replaces it
  \* ecal_io::impl
  registered, ackEpoch, latestTick, hasPending, lastSent,
  statsCount, statsMissed,
  \* where the threads are
  ackPc, tickPc, tickArg, actuatorPc, taken,
  \* auxiliary: the ticks committed, and the totals of the printed statistics
  commits, shownCount, shownMissed

sim == <<simEpoch, simTick>>
net == <<requests, acks, tickBox>>
registration == <<registered, ackEpoch>>
pendingTick == <<latestTick, hasPending>>
stats == <<statsCount, statsMissed, shownCount, shownMissed>>
sendings == <<lastSent, commits>>
tickThread == <<tickPc, tickArg>>
actuator == <<actuatorPc, taken>>
vars == <<sim, net, registration, pendingTick, sendings, stats, ackPc, tickThread, actuator>>

NoTick == [epoch |-> 0, id |-> 0]   \* tick_message{}
Ticks == [epoch: 1 .. MaxEpoch, id: 1 .. MaxTick]

Init == /\ simEpoch = 1 /\ simTick = 0
        /\ requests = TRUE          \* the constructor's try_register
        /\ acks = {} /\ tickBox = {}
        /\ registered = FALSE /\ ackEpoch = 0
        /\ latestTick = NoTick /\ hasPending = FALSE /\ lastSent = 0
        /\ statsCount = 0 /\ statsMissed = 0 /\ shownCount = 0 /\ shownMissed = 0
        /\ ackPc = "idle" /\ tickPc = "idle" /\ tickArg = NoTick
        /\ actuatorPc = "polling" /\ taken = NoTick
        /\ commits = {}

-----------------------------------------------------------------------------
(* The simulator and the transport *)

SimTick ==
  /\ simTick < MaxTick
  /\ simTick' = simTick + 1
  /\ tickBox' = {[epoch |-> simEpoch, id |-> simTick + 1]}
  /\ UNCHANGED <<simEpoch, requests, acks, registration, pendingTick, sendings, stats,
                 ackPc, tickThread, actuator>>

SimRestart ==
  /\ simEpoch < MaxEpoch
  /\ simEpoch' = simEpoch + 1
  /\ simTick' = 0
  /\ UNCHANGED <<net, registration, pendingTick, sendings, stats, ackPc, tickThread, actuator>>

SimAck ==
  /\ requests
  /\ requests' = FALSE
  /\ acks' = acks \cup {simEpoch}
  /\ UNCHANGED <<sim, tickBox, registration, pendingTick, sendings, stats,
                 ackPc, tickThread, actuator>>

Lose ==
  /\ \/ requests /\ requests' = FALSE /\ UNCHANGED <<acks, tickBox>>
     \/ \E e \in acks : acks' = acks \ {e} /\ UNCHANGED <<requests, tickBox>>
     \/ tickBox # {} /\ tickBox' = {} /\ UNCHANGED <<requests, acks>>
  /\ UNCHANGED <<sim, registration, pendingTick, sendings, stats, ackPc, tickThread, actuator>>

-----------------------------------------------------------------------------
(* The ack handler: stores the epoch, then the flag. *)

AckEpoch ==
  /\ ackPc = "idle"
  /\ \E e \in acks : ackEpoch' = e /\ acks' = acks \ {e}
  /\ ackPc' = "epoch"
  /\ UNCHANGED <<sim, requests, tickBox, registered, pendingTick, sendings, stats,
                 tickThread, actuator>>

\* Bug: the flag is set for the first registration only.
AckRegistered_OnceOnly ==
  /\ ackPc = "epoch"
  /\ ackPc' = "idle"
  /\ registered' = (registered \/ commits = {})
  /\ UNCHANGED <<sim, net, ackEpoch, pendingTick, sendings, stats, tickThread, actuator>>

AckRegistered ==
  /\ ackPc = "epoch"
  /\ ackPc' = "idle"
  /\ registered' = TRUE
  /\ UNCHANGED <<sim, net, ackEpoch, pendingTick, sendings, stats, tickThread, actuator>>

-----------------------------------------------------------------------------
(* The tick handler reads registered twice; an ack may come in between.      *)
(* The first reading and that of ackEpoch can be one step: only this handler *)
(* ever clears the flag, and ackEpoch is not looked at while it is clear.    *)

TickArrives ==
  /\ tickPc = "idle"
  /\ \E t \in tickBox :
       /\ tickBox' = tickBox \ {t}
       /\ tickArg' = t
       /\ tickPc' = IF registered /\ t.epoch # ackEpoch THEN "stale" ELSE "checked"
  /\ UNCHANGED <<sim, requests, acks, registration, pendingTick, sendings, stats,
                 ackPc, actuator>>

\* The handler's tick is gone with it.
TickReturns == tickPc' = "idle" /\ tickArg' = NoTick

\* The tick of another epoch: register again.
TickStale ==
  /\ tickPc = "stale"
  /\ TickReturns
  /\ registered' = FALSE
  /\ requests' = TRUE
  /\ UNCHANGED <<sim, acks, tickBox, ackEpoch, pendingTick, sendings, stats, ackPc,
                 actuator>>

TickStored ==
  /\ tickPc = "checked"
  /\ TickReturns
  /\ \/ /\ ~registered
        /\ requests' = TRUE
        /\ UNCHANGED pendingTick
     \/ /\ registered
        /\ latestTick' = tickArg
        /\ hasPending' = TRUE
        /\ UNCHANGED requests
  /\ UNCHANGED <<sim, acks, tickBox, registration, sendings, stats, ackPc, actuator>>

-----------------------------------------------------------------------------
(* The actuator thread: poll(), then wait_for_tick_and_commit().  The wait  *)
(* ends with a tick, without a registration, or with its timeout, so it     *)
(* never holds the thread up for good and is not a step of its own.         *)

\* poll() registers again once a second, registered or not.
Poll ==
  /\ actuatorPc = "polling"
  /\ actuatorPc' = "flushing"
  /\ UNCHANGED <<sim, net, registration, pendingTick, sendings, stats, ackPc, tickThread, taken>>

PollRegisters ==
  /\ actuatorPc = "polling"
  /\ actuatorPc' = "flushing"
  /\ requests' = TRUE
  /\ UNCHANGED <<sim, acks, tickBox, registration, pendingTick, sendings, stats, ackPc,
                 tickThread, taken>>

\* flush_pending_commit up to the first lock: the flag.
FlushChecked ==
  /\ actuatorPc = "flushing"
  /\ actuatorPc' = IF registered THEN "taking" ELSE "polling"
  /\ UNCHANGED <<sim, net, registration, pendingTick, sendings, stats, ackPc, tickThread, taken>>

\* Bug: whether the tick was committed before is not looked at.
Committable_AnyPending == hasPending

Committable == hasPending /\ latestTick.id > lastSent

\* Bug: the newer tick is left for the next round, and so for ever.
FlushTaken_Skips ==
  /\ actuatorPc = "taking"
  /\ actuatorPc' = "polling"
  /\ UNCHANGED <<sim, net, registration, pendingTick, sendings, stats, ackPc, tickThread, taken>>

FlushTaken ==
  /\ actuatorPc = "taking"
  /\ \/ /\ ~Committable
        /\ actuatorPc' = "polling"
        /\ UNCHANGED <<taken, hasPending>>
     \/ /\ Committable
        /\ actuatorPc' = "sending"
        /\ taken' = latestTick
        /\ hasPending' = FALSE
  /\ UNCHANGED <<sim, net, registration, latestTick, sendings, stats, ackPc, tickThread>>

\* Bug: the ticks before the first commit count as missed.
NewlyMissed_SinceZero == taken.id - lastSent - 1

\* The number of ticks between the one sent and the one before it; the first
\* commit has none before it.
NewlyMissed == IF lastSent # 0 THEN taken.id - lastSent - 1 ELSE 0

FlushReturns == actuatorPc' = "polling" /\ taken' = NoTick

\* send_commit answers true; the statistics are printed, and restarted, at
\* most once per period of the logger.
FlushSent ==
  /\ actuatorPc = "sending"
  /\ FlushReturns
  /\ lastSent' = taken.id
  /\ commits' = commits \cup {taken}
  /\ \/ /\ statsCount' = statsCount + 1
        /\ statsMissed' = statsMissed + NewlyMissed
        /\ UNCHANGED <<shownCount, shownMissed>>
     \/ /\ statsCount' = 0 /\ statsMissed' = 0
        /\ shownCount' = shownCount + statsCount + 1
        /\ shownMissed' = shownMissed + statsMissed + NewlyMissed
  /\ UNCHANGED <<sim, net, registration, pendingTick, ackPc, tickThread>>

\* send_commit answers false: the tick is gone and nothing says so.
FlushFailed ==
  /\ actuatorPc = "sending"
  /\ FlushReturns
  /\ UNCHANGED <<sim, net, registration, pendingTick, sendings, stats, ackPc, tickThread>>

-----------------------------------------------------------------------------
AckStep == AckEpoch \/ AckRegistered
TickStep == TickArrives \/ TickStale \/ TickStored
ActuatorStep == Poll \/ PollRegisters \/ FlushChecked \/ FlushTaken \/ FlushSent \/ FlushFailed

Next == SimTick \/ SimRestart \/ SimAck \/ Lose \/ AckStep \/ TickStep \/ ActuatorStep

Spec == Init /\ [][Next]_vars

\* The threads run, a second passes again and again between two polls, and the
\* transport does not lose a message that is sent again and again.
FairSpec == /\ Spec
            /\ WF_vars(AckRegistered) /\ WF_vars(TickStep) /\ WF_vars(ActuatorStep)
            /\ SF_vars(PollRegisters) /\ SF_vars(SimAck) /\ SF_vars(AckEpoch)

-----------------------------------------------------------------------------
(* Properties *)

TypeOK ==
  /\ simEpoch \in 1 .. MaxEpoch /\ simTick \in 0 .. MaxTick
  /\ requests \in BOOLEAN /\ acks \subseteq 1 .. MaxEpoch /\ tickBox \subseteq Ticks
  /\ registered \in BOOLEAN /\ ackEpoch \in 0 .. MaxEpoch
  /\ latestTick \in Ticks \cup {NoTick} /\ hasPending \in BOOLEAN
  /\ lastSent \in 0 .. MaxTick /\ commits \subseteq Ticks
  /\ statsCount \in Nat /\ statsMissed \in Nat
  /\ shownCount \in Nat /\ shownMissed \in Nat
  /\ ackPc \in {"idle", "epoch"}
  /\ tickPc \in {"idle", "stale", "checked"} /\ tickArg \in Ticks \cup {NoTick}
  /\ actuatorPc \in {"polling", "flushing", "taking", "sending"}
  /\ taken \in Ticks \cup {NoTick}

\* The commits go out in the order of their ticks and no tick is committed
\* twice, restarts, repeated registrations and failed sends included; a tick
\* that was left pending over a restart does not go out after one of the new
\* epoch.
CommitsInOrder ==
  [][commits' # commits \/ lastSent' # lastSent =>
       \A c \in commits : /\ c.id < lastSent'
                          /\ \A d \in commits' \ commits : c.epoch <= d.epoch]_vars

\* The tick t was passed over: one before it and a later one of its epoch were
\* committed, it was not, and nor was it refused for its number alone, as the
\* ticks of a new epoch are up to the last one sent in the old.
PassedOver(t) ==
  /\ t \notin commits
  /\ \E c \in commits : c.id < t.id
  /\ \E c \in commits : c.epoch = t.epoch /\ c.id > t.id
  /\ \A c \in commits : c.epoch < t.epoch => c.id < t.id

\* What the statistics say, printed and current totals together: commits are
\* the ticks committed, and missed_ticks those passed over, failed sends
\* included.  The ticks refused after a restart are in neither.
StatsExact ==
  /\ statsCount + shownCount = Cardinality(commits)
  /\ statsMissed + shownMissed = Cardinality({t \in Ticks : PassedOver(t)})

\* After the last restart of the simulator the controller ends up registered
\* with its epoch for good, whatever was lost or late.
Reconnects == <>[](registered /\ ackEpoch = simEpoch)

\* Registered with the epoch of the simulator, and nothing of another epoch is
\* on its way to say otherwise.
Settled == /\ registered /\ ackEpoch = simEpoch
           /\ acks \subseteq {simEpoch}
           /\ \A t \in tickBox : t.epoch = simEpoch
           /\ tickPc # "stale"

\* Nothing but a restart ends that: the requests that go on being sent once a
\* second, their answers, lost and late ticks and failed sends do not.
StaysSettled == [][Settled /\ simEpoch' = simEpoch => Settled']_vars

\* A tick newer than all that were sent does not stay pending: the actuator
\* takes it, unless the registration is withdrawn first.
NewTickTaken ==
  registered /\ Committable ~> ~registered \/ ~Committable
=============================================================================
