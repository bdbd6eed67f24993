--------------------------- MODULE ChassisStandUp ---------------------------
(***************************************************************************)
(* Does the robot stand up?  From some tick on ("settled") the operator    *)
(* keeps the move command and the body does what the state machine's       *)
(* torques ask of it; before that anything may have happened.              *)
(***************************************************************************)
EXTENDS ChassisFsmMonitor

VARIABLES settled,
          waited    \* auxiliary: ticks since then in a row not ending in NORMAL

standUp == <<vars, monitor, settled, waited>>

\* RECOVER, FLATTEN and NEUTRAL, the last for enter_normal_ticks ticks.
TicksToStand == EnterTicks + 2

\* Upright, not spinning, and in each state the reading its handler drives at.
Cooperates(i) ==
  /\ i.move /\ ~i.spin /\ i.att = "upright"
  /\ state = "flatten" => \A l \in Legs : i.flat[l]
  /\ state = "neutral" => i.band = "in"
  /\ state \in {"normal", "offground"} => i.band # "out"
  /\ state = "offground" => i.vert = "sinking"

StandUpInit == MonitorInit /\ settled = FALSE /\ waited = 0

Tick == /\ \E i \in Inputs : (settled => Cooperates(i)) /\ MonitorStep(i)
        /\ waited' = Run(waited, settled /\ state' # "normal", TicksToStand)
        /\ UNCHANGED settled

Settle == /\ ~settled
          /\ settled' = TRUE
          /\ UNCHANGED <<vars, monitor, waited>>

StandUpNext == Tick \/ Settle

\* The control loop keeps ticking (sleep_until_tick in chassis_service::loop).
StandUpSpec == /\ StandUpInit
               /\ [][StandUpNext]_standUp
               /\ WF_standUp(Tick)

\* Whatever state and counters the past left behind, a cooperating robot that
\* is told to move gets to NORMAL, and back to it from every flight.
StandsUp == settled ~> state = "normal"

\* How long that takes: one tick each for RELAX or RECOVER and for FLATTEN, then
\* enter_normal_ticks of NEUTRAL.  No count left over from before makes it take
\* longer, and force_relax alone keeps the robot down.
StandsUpInTime == ~ForceRelax => waited < TicksToStand
=============================================================================
