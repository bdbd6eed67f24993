-------------------------- MODULE ChassisFsmMonitor --------------------------
(***************************************************************************)
(* ChassisFsm observed from outside: the monitor counts what the sensors   *)
(* really showed, so that the code's debounce counters can be held against *)
(* it.  Every count saturates where its property stops telling apart.      *)
(***************************************************************************)
EXTENDS ChassisFsm

VARIABLES stopped,      \* the last tick was a stop (no move, or force_relax)
          inRun,        \* ticks in a row handled in NEUTRAL with band = "in"
          outRun,       \* ticks in a row with band = "out", of those handled in
                        \* NORMAL or OFFGROUND: SPIN does not look at the band
          invRun,       \* ticks in a row upside down and meant to move
          sinceLanding  \* NORMAL ticks since the last landing

monitor == <<stopped, inRun, outRun, invRun, sinceLanding>>

MonitorInit == /\ Init
               /\ stopped = TRUE
               /\ inRun = 0 /\ outRun = 0 /\ invRun = 0
               /\ sinceLanding = 0

Saturate(n, cap) == IF n > cap THEN cap ELSE n
Run(n, goesOn, cap) == IF goesOn THEN Saturate(n + 1, cap) ELSE 0

MonitorStep(i) ==
  LET h == Handler(i)
      aloft == Saturate(sinceLanding + 1, MinAir + 1)
  IN
  /\ Step(i)
  /\ stopped' = Stopped(i)
  /\ inRun' = Run(inRun, h = "neutral" /\ i.band = "in", EnterTicks)
  /\ outRun' = IF h = "spin" THEN outRun
               ELSE Run(outRun, h \in {"normal", "offground"} /\ i.band = "out", ExitTicks)
  /\ invRun' = Run(invRun, Inverted(i), FlipLimit + 1)
  /\ sinceLanding' = IF h = "offground" /\ state' = "normal" THEN 0
                     ELSE IF h = "normal" THEN aloft ELSE sinceLanding

MonitorNext == \E i \in Inputs : MonitorStep(i)

MonitorSpec == MonitorInit /\ [][MonitorNext]_<<vars, monitor>>

-----------------------------------------------------------------------------
(* Properties *)

Moves(from, to) == state = from /\ state' = to
GivesUp == (Moves("normal", "relax") \/ Moves("offground", "relax")) /\ ~stopped'
RollsOver == state' = "recover" /\ ~(state \in {"relax", "recover"})

\* With the move command on, balancing is given up to RELAX only after
\* exit_relax_ticks ticks in a row beyond exit_relax_alpha, those in flight
\* included: one good tick starts the count again.  A spin in between neither
\* adds to the run nor ends it.
ExitSustained ==
  [][GivesUp => outRun' >= ExitTicks]_<<vars, monitor>>

\* The robot gives up what it is doing and goes to RECOVER only after more than
\* FlipLimit ticks in a row upside down; the stop and start of the move command
\* in between does not smuggle old ticks into the count.
FlipSustained ==
  [][RollsOver => invRun' > FlipLimit]_<<vars, monitor>>

\* OFFGROUND is entered only with more than offground_min_air_ticks NORMAL
\* ticks since the last landing, so a bounce does not count as a take-off.
GraceSinceLanding ==
  [][Moves("normal", "offground") => sinceLanding' > MinAir]_<<vars, monitor>>

\* What config.hpp and wbr.yaml say of enter_normal_ticks: NORMAL is entered
\* from NEUTRAL only after that many ticks in a row inside the band.
EntrySustained ==
  [][Moves("neutral", "normal") => inRun' >= EnterTicks]_<<vars, monitor>>
=============================================================================
