------------------------------- MODULE Launch -------------------------------
(***************************************************************************)
(* The whole of main(): load_config, which may end the process, and then   *)
(* the application of Startup, which gets the configuration as a constant. *)
(***************************************************************************)
EXTENDS ConfigLoad, Startup

LaunchInit == ConfigInit /\ Init

\* main() goes on to msg::init and controller_app.  The configuration does not
\* change any more and decides nothing of what follows; it is dropped here.
Start == /\ phase = "ready"
         /\ phase' = "run"
         /\ argv' = <<>> /\ path' = 0 /\ node' = 1 /\ arg' = 1
         /\ file' = [f \in NodeSet |-> "absent"]
         /\ cfg' = [f \in Fields |-> Default]
         /\ UNCHANGED <<status, vars>>

Load == ConfigNext /\ UNCHANGED vars
Live(A) == phase = "run" /\ A /\ UNCHANGED configVars

LaunchNext == Load \/ Start \/ Live(Next)

everything == <<configVars, vars>>

Progress == \/ Load \/ Start
            \/ Live(Main)
            \/ \E c \in Creators : Live(Clear(c)) \/ Live(Link(c))
            \/ \E s \in Services : Live(Exit(s))

\* Every thread keeps running; nobody has to send a signal.  None of these steps
\* can be taken for ever, so that one goes on as long as there is one means that
\* all of them are taken.
LaunchSpec == LaunchInit /\ [][LaunchNext]_everything /\ WF_everything(Progress)
=============================================================================
