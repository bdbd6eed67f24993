---------------------------- MODULE ChassisModes ----------------------------
(***************************************************************************)
(* What the chassis state machine promises, without counters and sensors:  *)
(* the robot goes through the modes along Edges only, and a leg never goes *)
(* on pursuing a target that was set for it in another mode.  ChassisFsm   *)
(* implements this.                                                        *)
(***************************************************************************)
CONSTANT Legs, NoAim

VARIABLES mode,  \* what the robot as a whole is doing
          aim    \* per leg, the mode its leg-angle target was set in

vars == <<mode, aim>>

Limp == "limp"
Aiming == {"rolling", "folding", "rising"}  \* modes that set leg-angle targets
Modes == Aiming \cup {Limp, "balancing"}

\* Standing up is one path, limp (through rolling if upside down), folding,
\* rising, balancing; every mode falls back to limp, or to rolling when flipped.
Edges == {<<Limp, "folding">>, <<"rolling", "folding">>,
          <<"folding", "rising">>, <<"rising", "balancing">>}
         \cup (Modes \X {Limp, "rolling"})

NoAims == [l \in Legs |-> NoAim]

Init == mode = Limp /\ aim = NoAims

Change == \E m \in Modes \ {mode} :
            /\ <<mode, m>> \in Edges
            /\ mode' = m
            /\ aim' = NoAims

Pursue == /\ mode \in Aiming
          /\ aim' \in [Legs -> {NoAim, mode}]
          /\ UNCHANGED mode

Next == Change \/ Pursue

Spec == Init /\ [][Next]_vars
=============================================================================
