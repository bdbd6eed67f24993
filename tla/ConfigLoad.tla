----------------------------- MODULE ConfigLoad -----------------------------
(***************************************************************************)
(* load_config of controller/src/config.cpp: built-in defaults, the YAML   *)
(* file over them, the command line over both.  The command line is gone   *)
(* through twice: find_config_path looks for the file before anything is   *)
(* loaded, parse_args takes the options after.                             *)
(*                                                                         *)
(* A field of app_config is where its value comes from: Default, Yaml or   *)
(* the position of the argument that gave it.  An option stands for itself *)
(* and for the field it sets; "config" is -c or --config, "help" --help or *)
(* -h, "word" any other argument.  A file is what its nodes are: "absent", *)
(* "set" or "bad" (reading it throws).                                     *)
(***************************************************************************)
EXTENDS Integers, Sequences

CONSTANTS Words,   \* the arguments typed
          MaxArgs  \* bound: how many of them

ValueOptions == {"prefix", "imuMode", "gyroNoise", "accelNoise", "leverArm", "logHz"}
AllWords == ValueOptions \cup {"config", "help", "noLog", "word"}

ASSUME ConfigAssumption == Words \subseteq AllWords /\ MaxArgs \in Nat

VARIABLES
  phase,   \* where load_config is; "run" is controller_app, "exit" std::exit
  argv,    \* the arguments
  path,    \* the argument that names the file, 0 for a place tried by default
  file,    \* what the nodes read so far are
  node,    \* the node to be read
  arg,     \* the argument to be parsed
  cfg,     \* where the value of each field comes from
  status   \* the exit status

configVars == <<phase, argv, path, file, node, arg, cfg, status>>

Default == -1
Yaml == 0

\* The nodes of the file in the order in which load_yaml reads them; "chassis"
\* is all that goes to cfg.chassis: force_relax, the motor zeros, the gains and
\* the guards of the state machine.
Nodes == <<"prefix", "rate", "chassis", "logHz", "stdout">>
NodeSet == {Nodes[i] : i \in DOMAIN Nodes}
Fields == ValueOptions \cup NodeSet

\* A rate that is not positive and motor zeros that are no list are passed over,
\* as if they were absent.
Contents == {"absent", "set", "bad"}

ConfigInit ==
  /\ phase = "find"
  /\ argv \in UNION {[1 .. l -> Words] : l \in 0 .. MaxArgs}
  /\ path = 0
  /\ file = [n \in NodeSet |-> "absent"] /\ node = 1
  /\ arg = 1
  /\ cfg = [f \in Fields |-> Default]
  /\ status = 0

-----------------------------------------------------------------------------
\* find_config_path and file_exists.  A file that is not there is only warned
\* about, also when -c named it.
FindFile ==
  /\ phase = "find"
  /\ LET named == {i \in 1 .. Len(argv) - 1 : argv[i] = "config"}
     IN  path' = IF named = {} THEN 0
                 ELSE 1 + CHOOSE i \in named : \A j \in named : i <= j
  /\ phase' \in {"yaml", "args"}
  /\ UNCHANGED <<argv, file, node, arg, cfg, status>>

\* Bug: after an error the rest of the file is skipped, and that is all.
LoadNode_Tolerant ==
  /\ phase = "yaml"
  /\ \E c \in Contents :
       /\ file' = [file EXCEPT ![Nodes[node]] = c]
       /\ cfg' = IF c = "set" THEN [cfg EXCEPT ![Nodes[node]] = Yaml] ELSE cfg
       /\ phase' = IF c = "bad" \/ node = Len(Nodes) THEN "args" ELSE "yaml"
       /\ UNCHANGED status
  /\ node' = IF node < Len(Nodes) THEN node + 1 ELSE node
  /\ UNCHANGED <<argv, path, arg>>

\* load_yaml, one node: what throws ends the process, whatever of the file is
\* in cfg already.
LoadNode ==
  /\ phase = "yaml"
  /\ \E c \in Contents :
       /\ file' = [file EXCEPT ![Nodes[node]] = c]
       /\ cfg' = IF c = "set" THEN [cfg EXCEPT ![Nodes[node]] = Yaml] ELSE cfg
       /\ phase' = IF c = "bad" THEN "exit" ELSE IF node = Len(Nodes) THEN "args" ELSE "yaml"
       /\ status' = IF c = "bad" THEN 1 ELSE 0
  /\ node' = IF node < Len(Nodes) THEN node + 1 ELSE node
  /\ UNCHANGED <<argv, path, arg>>

TakesValue(i) == argv[i] \in ValueOptions \cup {"config"} /\ i < Len(argv)

\* Bug: the value of an option is looked at again as an option.
ParseArg_NoSkip ==
  /\ phase = "args" /\ arg <= Len(argv)
  /\ arg' = arg + 1
  /\ cfg' = IF TakesValue(arg) /\ argv[arg] # "config" THEN [cfg EXCEPT ![argv[arg]] = arg + 1]
            ELSE IF argv[arg] = "noLog" THEN [cfg EXCEPT !["stdout"] = arg]
            ELSE cfg
  /\ phase' = IF argv[arg] = "help" THEN "exit" ELSE "args"
  /\ UNCHANGED <<argv, path, file, node, status>>

\* parse_args, one round: an option whose value is missing is passed over, and
\* so is a word it does not know.  --help ends the process.
ParseArg ==
  /\ phase = "args" /\ arg <= Len(argv)
  /\ arg' = IF TakesValue(arg) THEN arg + 2 ELSE arg + 1
  /\ cfg' = IF TakesValue(arg) /\ argv[arg] # "config" THEN [cfg EXCEPT ![argv[arg]] = arg + 1]
            ELSE IF argv[arg] = "noLog" THEN [cfg EXCEPT !["stdout"] = arg]
            ELSE cfg
  /\ phase' = IF argv[arg] = "help" THEN "exit" ELSE "args"
  /\ UNCHANGED <<argv, path, file, node, status>>

Loaded ==
  /\ phase = "args" /\ arg > Len(argv)
  /\ phase' = "ready"
  /\ UNCHANGED <<argv, path, file, node, arg, cfg, status>>

ConfigNext == FindFile \/ LoadNode \/ ParseArg \/ Loaded

-----------------------------------------------------------------------------
(* Properties *)

\* Which arguments are values: those behind an option that is none itself.
IsValue[i \in Nat] == i > 1 /\ TakesValue(i - 1) /\ ~IsValue[i - 1]
Given(o) == {i \in 1 .. Len(argv) : argv[i] = o /\ ~IsValue[i]}
Last(S) == CHOOSE i \in S : \A j \in S : j <= i

\* What a field should be, read off the whole command line at once.
Declared(f) ==
  LET valued == {i \in Given(f) : i < Len(argv)}
      opts == IF f = "stdout" THEN Given("noLog") ELSE {i + 1 : i \in valued}
  IN  IF f \in ValueOptions \cup {"stdout"} /\ opts # {} THEN Last(opts)
      ELSE IF f \in NodeSet /\ file[f] = "set" THEN Yaml
      ELSE Default

\* An option beats the file and the file the default, for every field, and the
\* last of several options wins; a value that looks like an option is a value.
\* No robot is started for a call that asks for help.
Precedence ==
  phase = "ready" => (\A f \in Fields : cfg[f] = Declared(f)) /\ Given("help") = {}

\* A robot is only started on a file all of which could be read: load_yaml
\* writes into cfg as it goes, and half a file never gets through.  Only a file
\* that could not be read makes the exit an error, so asking for help is none.
WholeFile ==
  /\ phase = "ready" => \A f \in NodeSet :
                          /\ file[f] # "bad"
                          /\ file[f] = "set" => cfg[f] # Default
  /\ phase = "exit" => (status = 1 <=> \E f \in NodeSet : file[f] = "bad")
=============================================================================
