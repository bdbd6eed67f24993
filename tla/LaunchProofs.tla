---------------------------- MODULE LaunchProofs ----------------------------
(***************************************************************************)
(* Proofs about Launch, for every command line: the options beat the file  *)
(* and the last of them wins, no robot is started on half a file, the      *)
(* motor and pendulum subscriptions survive the race of create<T>(), the   *)
(* simulator link outlives the threads that use it, and after running_ is  *)
(* cleared each step is one of those that were left.                       *)
(***************************************************************************)
EXTENDS Launch, TLAPS, WellFoundedInduction

-----------------------------------------------------------------------------
(* The configuration: what was read so far is good and has got through. *)

ConfigTypes == /\ file \in [NodeSet -> Contents]
               /\ cfg \in [Fields -> Int]
               /\ node \in 1 .. Len(Nodes)
               /\ arg \in Nat

GoodSoFar == \A f \in NodeSet : file[f] # "bad" /\ (file[f] = "set" => cfg[f] # Default)

FileInv ==
  /\ ConfigTypes
  /\ phase # "exit" => status = 0 /\ GoodSoFar
  /\ phase = "exit" => (status = 1 <=> \E f \in NodeSet : file[f] = "bad")

LEMMA NodesAre ==
  /\ Len(Nodes) = 5 /\ 1 \in 1 .. Len(Nodes)
  /\ \A i \in 1 .. Len(Nodes) : Nodes[i] \in NodeSet
  /\ NodeSet \subseteq Fields
<1>1. Len(Nodes) = 5 /\ DOMAIN Nodes = 1 .. 5
  BY DEF Nodes
<1> QED
  BY <1>1 DEF NodeSet, Fields

LEMMA FileStart == LaunchInit => FileInv
<1> SUFFICES ASSUME LaunchInit PROVE FileInv
  OBVIOUS
<1>1. Default \in Int
  BY DEF Default
<1> QED
  BY <1>1, NodesAre DEF LaunchInit, ConfigInit, FileInv, ConfigTypes, GoodSoFar, Contents

LEMMA FileStep == FileInv /\ [LaunchNext]_everything => FileInv'
<1> SUFFICES ASSUME FileInv, [LaunchNext]_everything PROVE FileInv'
  OBVIOUS
<1>0. Default = -1 /\ Yaml = 0
  BY DEF Default, Yaml
<1>1. CASE FindFile
  BY <1>1 DEF FindFile, FileInv, ConfigTypes, GoodSoFar
<1>2. CASE LoadNode
  <2> DEFINE key == Nodes[node]
  <2>1. key \in NodeSet /\ key \in Fields
    BY NodesAre DEF FileInv, ConfigTypes
  <2>2. phase = "yaml" /\ GoodSoFar /\ ConfigTypes
    BY <1>2 DEF LoadNode, FileInv
  <2>3. PICK c \in Contents :
          /\ file' = [file EXCEPT ![key] = c]
          /\ cfg' = IF c = "set" THEN [cfg EXCEPT ![key] = Yaml] ELSE cfg
          /\ phase' = IF c = "bad" THEN "exit" ELSE IF node = Len(Nodes) THEN "args" ELSE "yaml"
          /\ status' = IF c = "bad" THEN 1 ELSE 0
    BY <1>2 DEF LoadNode
  <2>4. ConfigTypes'
    <3>1. node' \in 1 .. Len(Nodes) /\ arg' = arg
      BY <1>2, <2>2, NodesAre DEF LoadNode, ConfigTypes
    <3>2. file' \in [NodeSet -> Contents]
      BY <2>1, <2>2, <2>3 DEF ConfigTypes
    <3>3. cfg' \in [Fields -> Int]
      BY <1>0, <2>1, <2>2, <2>3 DEF ConfigTypes
    <3> QED
      BY <2>2, <3>1, <3>2, <3>3 DEF ConfigTypes
  <2>5. CASE c = "bad"
    <3>1. file'[key] = "bad"
      BY <2>1, <2>2, <2>3, <2>5 DEF ConfigTypes
    <3> QED
      BY <2>1, <2>3, <2>4, <2>5, <3>1 DEF FileInv
  <2>6. CASE c # "bad"
    <3>1. phase' # "exit" /\ status' = 0
      BY <2>3, <2>6
    <3>2. ASSUME NEW f \in NodeSet PROVE file'[f] # "bad" /\ (file'[f] = "set" => cfg'[f] # Default)
      <4>1. CASE f = key
        BY <1>0, <2>1, <2>2, <2>3, <2>6, <4>1 DEF ConfigTypes
      <4>2. CASE f # key
        BY <2>1, <2>2, <2>3, <4>2, NodesAre DEF ConfigTypes, GoodSoFar
      <4> QED
        BY <4>1, <4>2
    <3> QED
      BY <2>4, <3>1, <3>2 DEF FileInv, GoodSoFar
  <2> QED
    BY <2>5, <2>6
<1>3. CASE ParseArg
  <2>1. phase = "args" /\ GoodSoFar /\ ConfigTypes /\ status = 0
    BY <1>3 DEF ParseArg, FileInv
  <2>2. UNCHANGED <<file, node, status>> /\ arg' \in Nat
    BY <1>3, <2>1 DEF ParseArg, ConfigTypes
  <2>3. \E o, v : v \in Nat /\ (cfg' = [cfg EXCEPT ![o] = v] \/ cfg' = cfg)
    <3>1. arg \in Nat /\ arg + 1 \in Nat
      BY <2>1 DEF ConfigTypes
    <3> QED
      BY <1>3, <3>1 DEF ParseArg
  <2>4. cfg' \in [Fields -> Int]
    BY <2>1, <2>3 DEF ConfigTypes
  <2>5. \A f \in NodeSet : cfg[f] # Default => cfg'[f] # Default
    BY <1>0, <2>1, <2>3, NodesAre DEF ConfigTypes
  <2>6. ConfigTypes' /\ GoodSoFar'
    BY <2>1, <2>2, <2>4, <2>5 DEF ConfigTypes, GoodSoFar
  <2>7. ~\E f \in NodeSet : file'[f] = "bad"
    BY <2>1, <2>2 DEF GoodSoFar
  <2> QED
    BY <2>1, <2>2, <2>6, <2>7 DEF FileInv
<1>4. CASE Loaded
  BY <1>4 DEF Loaded, FileInv, ConfigTypes, GoodSoFar
<1>5. CASE Start
  <2>1. ConfigTypes'
    BY <1>0, <1>5, NodesAre DEF Start, ConfigTypes, Contents
  <2>2. phase' = "run" /\ phase = "ready" /\ status' = status
    BY <1>5 DEF Start
  <2>3. GoodSoFar'
    BY <1>5 DEF Start, GoodSoFar
  <2> QED
    BY <2>1, <2>2, <2>3 DEF FileInv
<1>6. CASE UNCHANGED configVars
  BY <1>6 DEF configVars, FileInv, ConfigTypes, GoodSoFar
<1> QED
  BY <1>1, <1>2, <1>3, <1>4, <1>5, <1>6 DEF LaunchNext, Load, Live, ConfigNext, everything

\* main() only goes on with a configuration that took in all of its file, and
\* only a file that could not be read makes the exit an error (load_config).
THEOREM NoHalfFile == LaunchSpec => []WholeFile
<1>1. FileInv => WholeFile
  BY DEF FileInv, GoodSoFar, WholeFile
<1> QED
  BY <1>1, FileStart, FileStep, PTL DEF LaunchSpec

-----------------------------------------------------------------------------
(* The command line.  Which argument is a value is defined by recursion;  *)
(* that there is such a function comes first.                              *)

\* Induction: a nonempty set of numbers has a least one.
LessThan == {ss \in Nat \X Nat : ss[1] < ss[2]}

LEMMA LessThanWellFounded == IsWellFoundedOn(LessThan, Nat)
  BY NatLessThanWellFounded DEF OpToRel, LessThan

LEMMA LeastElement ==
  ASSUME NEW T \in SUBSET Nat, T # {}
  PROVE  \E x \in T : \A y \in T : x <= y
<1>1. PICK x \in T : \A y \in T : ~(<<y, x>> \in LessThan)
  BY LessThanWellFounded, WFMin
<1>2. ASSUME NEW y \in T PROVE x <= y
  <2>1. <<y, x>> \notin LessThan
    BY <1>1
  <2>2. ~(y < x)
    BY <2>1 DEF LessThan
  <2> QED BY <2>2
<1> QED BY <1>2

\* The options before i that wait for a value, back to the first: arguments
\* h .. i - 1 look like such options, and the one before h does not.
RunBefore(h, i) == /\ \A j \in h .. i - 1 : TakesValue(j)
                   /\ ~(h > 1 /\ TakesValue(h - 1))

LEMMA RunStart ==
  ASSUME NEW i \in Nat, i > 1, TakesValue(i - 1)
  PROVE  \E h \in 1 .. i - 1 : RunBefore(h, i)
<1> DEFINE S == {h \in 1 .. i - 1 : \A j \in h .. i - 1 : TakesValue(j)}
<1> HIDE DEF TakesValue
<1>1. i - 1 \in S
  OBVIOUS
<1>2. S \in SUBSET Nat
  OBVIOUS
<1>3. PICK h \in S : \A g \in S : h <= g
  BY <1>1, <1>2, LeastElement
<1>4. ASSUME h > 1, TakesValue(h - 1) PROVE FALSE
  <2>1. \A j \in h - 1 .. i - 1 : j = h - 1 \/ j \in h .. i - 1
    BY <1>3
  <2>2. h - 1 \in S
    BY <1>3, <1>4, <2>1
  <2> QED
    BY <1>3, <2>2
<1> QED
  BY <1>3, <1>4 DEF RunBefore

LEMMA OneRun ==
  ASSUME NEW i \in Nat, NEW h \in 1 .. i - 1, NEW g \in 1 .. i - 1,
         RunBefore(h, i), RunBefore(g, i)
  PROVE  h = g
<1>1. ASSUME NEW x \in 1 .. i - 1, NEW y \in 1 .. i - 1,
             RunBefore(x, i), RunBefore(y, i), x < y
      PROVE  FALSE
  <2>1. y - 1 \in x .. i - 1 /\ y > 1
    BY <1>1
  <2> QED
    BY <1>1, <2>1 DEF RunBefore
<1> QED
  BY <1>1

\* IsValue, without recursion: the run of such options in front of i is odd.
OddRun(i) == \E h \in 1 .. i - 1 : RunBefore(h, i) /\ (i - h) % 2 = 1

LEMMA OddRunAlternates ==
  ASSUME NEW i \in Nat
  PROVE  OddRun(i) <=> i > 1 /\ TakesValue(i - 1) /\ ~OddRun(i - 1)
<1>1. ASSUME OddRun(i) PROVE i > 1 /\ TakesValue(i - 1) /\ ~OddRun(i - 1)
  <2>1. PICK h \in 1 .. i - 1 : RunBefore(h, i) /\ (i - h) % 2 = 1
    BY <1>1 DEF OddRun
  <2>2. i > 1 /\ TakesValue(i - 1)
    BY <2>1 DEF RunBefore
  <2>3. ASSUME NEW g \in 1 .. (i - 1) - 1, RunBefore(g, i - 1), ((i - 1) - g) % 2 = 1
        PROVE  FALSE
    <3>1. \A j \in g .. i - 1 : j = i - 1 \/ j \in g .. (i - 1) - 1
      OBVIOUS
    <3>2. RunBefore(g, i)
      BY <2>2, <2>3, <3>1 DEF RunBefore
    <3>3. h = g
      BY <2>1, <3>2, OneRun
    <3> QED
      BY <2>1, <2>3, <3>3
  <2> QED
    BY <2>2, <2>3 DEF OddRun
<1>2. ASSUME i > 1, TakesValue(i - 1), ~OddRun(i - 1) PROVE OddRun(i)
  <2>1. PICK h \in 1 .. i - 1 : RunBefore(h, i)
    BY <1>2, RunStart
  <2>2. CASE (i - h) % 2 = 1
    BY <2>1, <2>2 DEF OddRun
  <2>3. CASE (i - h) % 2 # 1
    <3>1. (i - h) % 2 = 0 /\ ((i - 1) - h) % 2 = 1 /\ h \in 1 .. (i - 1) - 1
      BY <2>1, <2>3
    <3>2. RunBefore(h, i - 1)
      BY <2>1 DEF RunBefore
    <3> QED
      BY <1>2, <3>1, <3>2 DEF OddRun
  <2> QED
    BY <2>2, <2>3
<1> QED
  BY <1>1, <1>2

\* IsValue is what its recursive definition says: OddRun is a function that
\* satisfies it, so the one that is chosen does.
LEMMA ValueIs ==
  \A i \in Nat : IsValue[i] <=> i > 1 /\ TakesValue(i - 1) /\ ~IsValue[i - 1]
<1> DEFINE F == [i \in Nat |-> OddRun(i)]
<1>1. F = [i \in Nat |-> i > 1 /\ TakesValue(i - 1) /\ ~F[i - 1]]
  <2>1. ASSUME NEW i \in Nat
        PROVE  F[i] = (i > 1 /\ TakesValue(i - 1) /\ ~F[i - 1])
    <3>1. F[i] = OddRun(i) /\ (i > 1 => F[i - 1] = OddRun(i - 1))
      OBVIOUS
    <3>2. OddRun(i) = (i > 1 /\ TakesValue(i - 1) /\ ~OddRun(i - 1))
      BY OddRunAlternates, Zenon DEF OddRun
    <3> HIDE DEF F
    <3>3. CASE i > 1
      BY <3>1, <3>2, <3>3, Zenon
    <3>4. CASE ~(i > 1)
      BY <3>1, <3>2, <3>4, Zenon
    <3> QED
      BY <3>3, <3>4
  <2> QED
    BY <2>1
<1> HIDE DEF F
<1>2. IsValue = [i \in Nat |-> i > 1 /\ TakesValue(i - 1) /\ ~IsValue[i - 1]]
  BY <1>1 DEF IsValue
<1> QED
  BY <1>2

\* What the arguments before i give: Declared, half way through.
OptionsBefore(f, i) ==
  IF f = "stdout" THEN {j \in Given("noLog") : j < i}
  ELSE {j + 1 : j \in {h \in Given(f) : h < Len(argv) /\ h < i}}

FromFile(f) == IF f \in NodeSet /\ file[f] = "set" THEN Yaml ELSE Default

SetBefore(f, i) ==
  IF f \in ValueOptions \cup {"stdout"} /\ OptionsBefore(f, i) # {}
  THEN Last(OptionsBefore(f, i)) ELSE FromFile(f)

\* While the file is read: each field has what the file said so far.
ReadInv == /\ arg = 1
           /\ \A f \in Fields : cfg[f] = FromFile(f)
           /\ \A j \in node .. Len(Nodes) : file[Nodes[j]] = "absent"

\* While the options are parsed: arg is no value, and each field has what the
\* arguments before arg and the file said.
ArgsInv == /\ arg \in 1 .. Len(argv) + 1
           /\ ~IsValue[arg]
           /\ \A i \in Given("help") : arg <= i
           /\ \A f \in Fields : cfg[f] = SetBefore(f, arg)

ParseInv == /\ phase \in {"find", "yaml", "args", "ready"} => argv \in Seq(Words)
            /\ phase \in {"find", "yaml"} => ReadInv
            /\ phase \in {"args", "ready"} => ArgsInv
            /\ phase = "ready" => arg > Len(argv)

LEMMA SameArguments ==
  ASSUME argv' = argv
  PROVE  /\ IsValue' = IsValue
         /\ \A o : Given(o)' = Given(o)
         /\ \A f, i : OptionsBefore(f, i)' = OptionsBefore(f, i)
<1>1. \A i : TakesValue(i)' = TakesValue(i)
  BY DEF TakesValue
<1>2. IsValue' = IsValue
  BY <1>1 DEF IsValue, TakesValue
<1>3. \A o : Given(o)' = Given(o)
  BY <1>2 DEF Given
<1>4. \A f, i : OptionsBefore(f, i)' = OptionsBefore(f, i)
  BY <1>3 DEF OptionsBefore
<1> QED
  BY <1>2, <1>3, <1>4

LEMMA LastIsNew ==
  ASSUME NEW S \in SUBSET Nat, NEW i \in Nat, \A j \in S : j < i
  PROVE  Last(S \cup {i}) = i
<1>1. \A j \in S \cup {i} : j <= i
  OBVIOUS
<1>2. \A h \in S \cup {i} : (\A j \in S \cup {i} : j <= h) => h = i
  OBVIOUS
<1> QED
  BY <1>1, <1>2 DEF Last

LEMMA ParseStart == LaunchInit => ParseInv
<1> SUFFICES ASSUME LaunchInit PROVE ParseInv
  OBVIOUS
<1>1. argv \in Seq(Words)
  BY DEF LaunchInit, ConfigInit
<1>2. file = [f \in NodeSet |-> "absent"] /\ cfg = [f \in Fields |-> Default] /\ arg = 1 /\ phase = "find" /\ node = 1
  BY DEF LaunchInit, ConfigInit
<1>3. \A f \in Fields : cfg[f] = FromFile(f)
  BY <1>2 DEF FromFile
<1> QED
  BY <1>1, <1>2, <1>3, NodesAre DEF ParseInv, ReadInv

LEMMA NodesDiffer == \A i, j \in 1 .. Len(Nodes) : Nodes[i] = Nodes[j] => i = j
  BY DEF Nodes

\* parse_args starts with nothing but what the file gave.
LEMMA ArgsStart ==
  ASSUME argv \in Seq(Words), argv' = argv, arg' = 1,
         \A f \in Fields : cfg'[f] = FromFile(f)'
  PROVE  ArgsInv'
<1>1. ~IsValue[1] /\ \A i \in Given("help") : 1 <= i
  BY ValueIs DEF Given
<1>2. \A f : OptionsBefore(f, 1) = {}
  BY DEF OptionsBefore, Given
<1>3. \A f : OptionsBefore(f, arg)' = {}
  BY <1>2, SameArguments
<1>4. \A f \in Fields : cfg'[f] = SetBefore(f, arg)'
  BY <1>3 DEF SetBefore
<1>5. Len(argv') \in Nat
  OBVIOUS
<1> QED
  BY <1>1, <1>4, <1>5, SameArguments DEF ArgsInv

LEMMA ParseFind == ParseInv /\ FindFile => ParseInv'
<1> SUFFICES ASSUME ParseInv, FindFile PROVE ParseInv'
  OBVIOUS
<1>1. phase = "find" /\ phase' \in {"yaml", "args"} /\ UNCHANGED <<argv, arg, cfg, file, node>>
  BY DEF FindFile
<1>2. ReadInv /\ argv \in Seq(Words)
  BY <1>1 DEF ParseInv
<1>3. ReadInv' /\ argv' \in Seq(Words)
  BY <1>1, <1>2 DEF ReadInv, FromFile
<1>5. ArgsInv'
  BY <1>1, <1>2, <1>3, ArgsStart DEF ReadInv
<1> QED
  BY <1>1, <1>3, <1>5 DEF ParseInv

LEMMA ParseLoad == FileInv /\ ParseInv /\ LoadNode => ParseInv'
<1> SUFFICES ASSUME FileInv, ParseInv, LoadNode PROVE ParseInv'
  OBVIOUS
<1> DEFINE key == Nodes[node]
<1>1. /\ phase = "yaml" /\ UNCHANGED <<argv, arg>>
      /\ node' = IF node < Len(Nodes) THEN node + 1 ELSE node
  BY DEF LoadNode
<1>2. ReadInv /\ argv \in Seq(Words) /\ ConfigTypes
  BY <1>1 DEF ParseInv, FileInv
<1>3. key \in NodeSet /\ key \in Fields /\ file[key] = "absent"
  BY <1>2, NodesAre DEF ConfigTypes, ReadInv
<1>4. PICK c \in Contents :
        /\ file' = [file EXCEPT ![key] = c]
        /\ cfg' = IF c = "set" THEN [cfg EXCEPT ![key] = Yaml] ELSE cfg
        /\ phase' = IF c = "bad" THEN "exit" ELSE IF node = Len(Nodes) THEN "args" ELSE "yaml"
  BY DEF LoadNode
<1>5. ASSUME NEW f \in Fields PROVE cfg'[f] = FromFile(f)'
  <2>1. CASE f = key
    BY <1>2, <1>3, <1>4, <2>1 DEF ConfigTypes, ReadInv, FromFile
  <2>2. CASE f # key
    <3>1. cfg'[f] = cfg[f]
      BY <1>2, <1>3, <1>4, <2>2 DEF ConfigTypes
    <3>2. f \in NodeSet => file'[f] = file[f]
      BY <1>2, <1>3, <1>4, <2>2 DEF ConfigTypes
    <3> QED
      BY <1>2, <3>1, <3>2 DEF ReadInv, FromFile
  <2> QED
    BY <2>1, <2>2
<1>6. argv' \in Seq(Words) /\ arg' = 1
  BY <1>1, <1>2 DEF ReadInv
<1>7. CASE phase' = "exit"
  BY <1>6, <1>7 DEF ParseInv
<1>8. CASE phase' = "args"
  <2>1. ArgsInv'
    BY <1>1, <1>2, <1>5, <1>6, ArgsStart
  <2> QED
    BY <1>6, <1>8, <2>1 DEF ParseInv
<1>9. CASE phase' = "yaml"
  <2>1. node < Len(Nodes) /\ node' = node + 1 /\ node \in 1 .. Len(Nodes)
    BY <1>1, <1>2, <1>4, <1>9, NodesAre DEF ConfigTypes
  <2>2. ASSUME NEW j \in node' .. Len(Nodes) PROVE file'[Nodes[j]] = "absent"
    <3>1. j \in node .. Len(Nodes) /\ j \in 1 .. Len(Nodes) /\ j # node
      BY <2>1, NodesAre
    <3>2. Nodes[j] # key /\ Nodes[j] \in NodeSet /\ file[Nodes[j]] = "absent"
      BY <1>2, <2>1, <3>1, NodesAre, NodesDiffer DEF ReadInv
    <3> QED
      BY <1>2, <1>4, <3>2 DEF ConfigTypes
  <2> QED
    BY <1>5, <1>6, <1>9, <2>2 DEF ParseInv, ReadInv
<1> QED
  BY <1>4, <1>7, <1>8, <1>9

\* A value is behind the option it belongs to, and what follows it is none.
LEMMA ValuesAlternate ==
  ASSUME NEW i \in Nat \ {0}, ~IsValue[i]
  PROVE  /\ TakesValue(i) => IsValue[i + 1] /\ ~IsValue[i + 2]
         /\ ~TakesValue(i) => ~IsValue[i + 1]
<1>1. /\ IsValue[i + 1] <=> TakesValue(i) /\ ~IsValue[i]
      /\ IsValue[i + 2] <=> TakesValue(i + 1) /\ ~IsValue[i + 1]
  <2>1. i + 1 \in Nat /\ i + 1 > 1 /\ (i + 1) - 1 = i
    OBVIOUS
  <2>2. i + 2 \in Nat /\ i + 2 > 1 /\ (i + 2) - 1 = i + 1
    OBVIOUS
  <2> QED
    BY <2>1, <2>2, ValueIs
<1> QED
  BY <1>1

\* A round of parse_args leaves behind no argument but its own.
LEMMA NewlyGiven ==
  ASSUME argv \in Seq(Words), arg \in 1 .. Len(argv), ~IsValue[arg],
         NEW next, next = IF TakesValue(arg) THEN arg + 2 ELSE arg + 1
  PROVE  /\ next \in 1 .. Len(argv) + 1 /\ ~IsValue[next]
         /\ \A o : \A i \in Given(o) : i < next <=> i < arg \/ i = arg
         /\ \A o : arg \in Given(o) <=> argv[arg] = o
<1>1. Len(argv) \in Nat /\ arg \in Nat \ {0}
  OBVIOUS
<1>2. next \in 1 .. Len(argv) + 1
  BY <1>1 DEF TakesValue
<1>3. ~IsValue[next]
  BY <1>1, ValuesAlternate
<1>4. ASSUME NEW o, NEW i \in Given(o) PROVE i < next <=> i < arg \/ i = arg
  <2>1. i \in Nat /\ ~IsValue[i]
    BY DEF Given
  <2>2. TakesValue(arg) => i # arg + 1
    BY <1>1, <2>1, ValuesAlternate
  <2> QED
    BY <1>1, <2>1, <2>2
<1>5. \A o : arg \in Given(o) <=> argv[arg] = o
  BY <1>1 DEF Given
<1> QED
  BY <1>2, <1>3, <1>4, <1>5

LEMMA ParseRound == ParseInv /\ FileInv /\ ParseArg => ParseInv'
<1> SUFFICES ASSUME ParseInv, FileInv, ParseArg PROVE ParseInv'
  OBVIOUS
<1>1. phase = "args" /\ arg <= Len(argv) /\ UNCHANGED <<argv, file>>
  BY DEF ParseArg
<1>2. argv \in Seq(Words) /\ ArgsInv /\ ConfigTypes /\ Len(argv) \in Nat
  BY <1>1 DEF ParseInv, FileInv
<1>3. arg \in 1 .. Len(argv) /\ ~IsValue[arg]
  BY <1>1, <1>2 DEF ArgsInv
<1>4. arg' = IF TakesValue(arg) THEN arg + 2 ELSE arg + 1
  BY DEF ParseArg
<1>5. /\ arg' \in 1 .. Len(argv) + 1 /\ ~IsValue[arg']
      /\ \A o : \A i \in Given(o) : i < arg' <=> i < arg \/ i = arg
      /\ \A o : arg \in Given(o) <=> argv[arg] = o
  BY <1>2, <1>3, <1>4, NewlyGiven
<1>6. ASSUME NEW f \in Fields PROVE cfg'[f] = SetBefore(f, arg')
  <2>1. CASE f = "stdout"
    <3>1. OptionsBefore(f, arg) = {j \in Given("noLog") : j < arg} /\ OptionsBefore(f, arg') = {j \in Given("noLog") : j < arg'}
      BY <2>1 DEF OptionsBefore
    <3>2. OptionsBefore(f, arg) \in SUBSET Nat /\ \A j \in OptionsBefore(f, arg) : j < arg
      BY <3>1 DEF Given
    <3>3. CASE argv[arg] = "noLog"
      <4>1. OptionsBefore(f, arg') = OptionsBefore(f, arg) \cup {arg}
        BY <1>5, <3>1, <3>3
      <4>2. Last(OptionsBefore(f, arg')) = arg
        <5>1. arg \in Nat
          BY <1>2, <1>3
        <5>2. Last(OptionsBefore(f, arg) \cup {arg}) = arg
          BY <3>2, <5>1, LastIsNew
        <5> QED
          BY <4>1, <5>2
      <4>3. cfg'[f] = arg
        BY <1>2, <2>1, <3>3 DEF ParseArg, TakesValue, ValueOptions, ConfigTypes
      <4> QED
        BY <2>1, <4>1, <4>2, <4>3 DEF SetBefore
    <3>4. CASE argv[arg] # "noLog"
      <4>1. OptionsBefore(f, arg') = OptionsBefore(f, arg)
        BY <1>5, <3>1, <3>4
      <4>2. cfg'[f] = cfg[f]
        BY <1>2, <2>1, <3>4 DEF ParseArg, TakesValue, ValueOptions, ConfigTypes
      <4> QED
        BY <1>2, <4>1, <4>2 DEF SetBefore, ArgsInv
    <3> QED
      BY <3>3, <3>4
  <2>2. CASE f \in ValueOptions
    <3>1. f # "stdout" /\ f # "config" /\ f # "noLog"
      BY <2>2 DEF ValueOptions
    <3>2. /\ OptionsBefore(f, arg) = {j + 1 : j \in {h \in Given(f) : h < Len(argv) /\ h < arg}}
          /\ OptionsBefore(f, arg') = {j + 1 : j \in {h \in Given(f) : h < Len(argv) /\ h < arg'}}
      BY <3>1 DEF OptionsBefore
    <3>3. OptionsBefore(f, arg) \in SUBSET Nat /\ \A j \in OptionsBefore(f, arg) : j < arg + 1
      BY <1>3, <3>2 DEF Given
    <3>4. CASE argv[arg] = f /\ arg < Len(argv)
      <4>1. {h \in Given(f) : h < Len(argv) /\ h < arg'} = {h \in Given(f) : h < Len(argv) /\ h < arg} \cup {arg}
        BY <1>5, <3>4
      <4>2. OptionsBefore(f, arg') = OptionsBefore(f, arg) \cup {arg + 1}
        BY <3>2, <4>1
      <4>3. Last(OptionsBefore(f, arg')) = arg + 1
        <5>1. arg + 1 \in Nat
          BY <1>2, <1>3
        <5>2. Last(OptionsBefore(f, arg) \cup {arg + 1}) = arg + 1
          BY <3>3, <5>1, LastIsNew
        <5> QED
          BY <4>2, <5>2
      <4>4. cfg'[f] = arg + 1
        BY <1>2, <2>2, <3>1, <3>4 DEF ParseArg, TakesValue, ConfigTypes
      <4> QED
        BY <2>2, <4>2, <4>3, <4>4 DEF SetBefore
    <3>5. CASE ~(argv[arg] = f /\ arg < Len(argv))
      <4>1. {h \in Given(f) : h < Len(argv) /\ h < arg'} = {h \in Given(f) : h < Len(argv) /\ h < arg}
        BY <1>5, <3>5
      <4>2. OptionsBefore(f, arg') = OptionsBefore(f, arg)
        BY <3>2, <4>1
      <4>3. cfg'[f] = cfg[f]
        <5>1. CASE TakesValue(arg) /\ argv[arg] # "config"
          <6>1. cfg' = [cfg EXCEPT ![argv[arg]] = arg + 1] /\ argv[arg] # f
            BY <3>5, <5>1 DEF ParseArg, TakesValue
          <6> QED
            BY <1>2, <6>1 DEF ConfigTypes
        <5>2. CASE ~(TakesValue(arg) /\ argv[arg] # "config")
          <6>1. cfg' = [cfg EXCEPT !["stdout"] = arg] \/ cfg' = cfg
            BY <5>2 DEF ParseArg
          <6> QED
            BY <1>2, <3>1, <6>1 DEF ConfigTypes
        <5> QED
          BY <5>1, <5>2
      <4> QED
        BY <1>2, <4>2, <4>3 DEF SetBefore, ArgsInv
    <3> QED
      BY <3>4, <3>5
  <2>3. CASE f \notin ValueOptions \cup {"stdout"}
    <3>1. cfg'[f] = cfg[f]
      <4>1. CASE TakesValue(arg) /\ argv[arg] # "config"
        <5>1. cfg' = [cfg EXCEPT ![argv[arg]] = arg + 1] /\ argv[arg] # f
          BY <2>3, <4>1 DEF ParseArg, TakesValue
        <5> QED
          BY <1>2, <5>1 DEF ConfigTypes
      <4>2. CASE ~(TakesValue(arg) /\ argv[arg] # "config")
        <5>1. cfg' = [cfg EXCEPT !["stdout"] = arg] \/ cfg' = cfg
          BY <4>2 DEF ParseArg
        <5> QED
          BY <1>2, <2>3, <5>1 DEF ConfigTypes
      <4> QED
        BY <4>1, <4>2
    <3> QED
      BY <1>2, <2>3, <3>1 DEF SetBefore, ArgsInv
  <2> QED
    BY <2>1, <2>2, <2>3
<1>7. \A f \in Fields : SetBefore(f, arg)' = SetBefore(f, arg')
  BY <1>1, SameArguments DEF SetBefore, FromFile
<1>8. CASE argv[arg] = "help"
  <2>1. phase' = "exit"
    BY <1>8 DEF ParseArg
  <2> QED
    BY <2>1 DEF ParseInv
<1>9. CASE argv[arg] # "help"
  <2>1. phase' = "args"
    BY <1>9 DEF ParseArg
  <2>2. ASSUME NEW i \in Given("help") PROVE arg' <= i
    <3>1. i \in Nat /\ arg <= i /\ i # arg
      BY <1>2, <1>5, <1>9 DEF ArgsInv, Given
    <3>2. ~(i < arg')
      BY <1>3, <1>5, <3>1
    <3> QED
      BY <1>5, <3>1, <3>2
  <2>3. ArgsInv'
    BY <1>1, <1>5, <1>6, <1>7, <2>2, SameArguments DEF ArgsInv
  <2> QED
    BY <1>1, <1>2, <2>1, <2>3 DEF ParseInv
<1> QED
  BY <1>8, <1>9

LEMMA ParseStep == FileInv /\ ParseInv /\ [LaunchNext]_everything => ParseInv'
<1> SUFFICES ASSUME FileInv, ParseInv, [LaunchNext]_everything PROVE ParseInv'
  OBVIOUS
<1>1. CASE Loaded
  <2>1. phase = "args" /\ arg > Len(argv) /\ phase' = "ready" /\ UNCHANGED <<argv, file, arg, cfg>>
    BY <1>1 DEF Loaded
  <2>2. argv \in Seq(Words) /\ ArgsInv
    BY <2>1 DEF ParseInv
  <2>3. ArgsInv'
    BY <2>1, <2>2, SameArguments DEF ArgsInv, SetBefore, FromFile
  <2> QED
    BY <2>1, <2>2, <2>3 DEF ParseInv
<1>2. CASE Start
  BY <1>2 DEF Start, ParseInv
<1>3. CASE UNCHANGED configVars
  <2>1. UNCHANGED <<phase, argv, file, node, arg, cfg>>
    BY <1>3 DEF configVars
  <2>2. ReadInv => ReadInv'
    BY <2>1 DEF ReadInv, FromFile
  <2>3. ArgsInv => ArgsInv'
    BY <2>1, SameArguments DEF ArgsInv, SetBefore, FromFile
  <2> QED
    BY <2>1, <2>2, <2>3 DEF ParseInv
<1> QED
  BY <1>1, <1>2, <1>3, ParseFind, ParseLoad, ParseRound
     DEF LaunchNext, Load, Live, ConfigNext, everything

\* An option beats the file and the file the default, the last of several
\* options wins, a value that looks like an option stays a value, and nobody
\* who asks for help gets a robot (load_config), whatever is typed.
THEOREM LastOptionWins == LaunchSpec => []Precedence
<1>1. ASSUME ParseInv, phase = "ready" PROVE Precedence
  <2>1. argv \in Seq(Words) /\ ArgsInv /\ arg > Len(argv) /\ Len(argv) \in Nat
    BY <1>1 DEF ParseInv
  <2>2. \A o : \A i \in Given(o) : i < arg /\ i \in Nat
    BY <2>1 DEF Given, ArgsInv
  <2>3. Given("help") = {}
    BY <2>1, <2>2 DEF ArgsInv
  <2>4. ASSUME NEW f \in Fields PROVE cfg[f] = Declared(f)
    <3>1. OptionsBefore(f, arg) = IF f = "stdout" THEN Given("noLog")
                                  ELSE {i + 1 : i \in {h \in Given(f) : h < Len(argv)}}
      BY <2>2 DEF OptionsBefore
    <3> QED
      BY <2>1, <3>1 DEF ArgsInv, SetBefore, FromFile, Declared
  <2> QED
    BY <2>3, <2>4 DEF Precedence
<1>2. ParseInv => Precedence
  BY <1>1 DEF Precedence
<1> QED
  BY <1>2, FileStart, FileStep, ParseStart, ParseStep, PTL DEF LaunchSpec

-----------------------------------------------------------------------------
(* Types of the start-up *)

\* What create<T>() is at: a topic is created once its thread has reset it.
Making == \A c \in Creators :
            /\ c \in clearing => making[c] # None
            /\ making[c] # None /\ c \notin clearing => making[c] \in created
            /\ c \in Publishers => making[c] \in Publishes[c] \cup {None}

\* Between two subscriptions main() is at the first one of a service.
AtFirst == mainPc # "subscribe" => k = 1

TypeInv == TypeOK /\ Making /\ AtFirst

LEMMA OrderIs ==
  /\ Len(Order) = 6 /\ DOMAIN Order = 1 .. 6
  /\ Services = {"actuator", "ins", "command", "chassis", "log", "visualizer"}
  /\ Order[1] = "actuator" /\ Order[2] = "ins" /\ Order[3] = "command"
  /\ Order[4] = "chassis" /\ Order[5] = "log" /\ Order[6] = "visualizer"
<1>1. Len(Order) = 6 /\ DOMAIN Order = 1 .. 6
  BY DEF Order
<1>2. /\ Order[1] = "actuator" /\ Order[2] = "ins" /\ Order[3] = "command"
      /\ Order[4] = "chassis" /\ Order[5] = "log" /\ Order[6] = "visualizer"
  BY DEF Order
<1> QED
  BY <1>1, <1>2 DEF Services

LEMMA SubsAre ==
  /\ Len(Subs["actuator"]) = 1 /\ Subs["actuator"][1] = "motor"
  /\ Len(Subs["ins"]) = 1 /\ Subs["ins"][1] = "raw"
  /\ Len(Subs["command"]) = 3 /\ Subs["command"][1] = "pendulum"
  /\ Subs["command"][2] = "ins" /\ Subs["command"][3] = "input"
  /\ Len(Subs["chassis"]) = 3 /\ Subs["chassis"][1] = "raw"
  /\ Subs["chassis"][2] = "ins" /\ Subs["chassis"][3] = "cmd"
  /\ Len(Subs["log"]) = 1 /\ Subs["log"][1] = "log"
  /\ Len(Subs["visualizer"]) = 1 /\ Subs["visualizer"][1] = "log"
  BY DEF Subs

LEMMA SubsTypes ==
  ASSUME NEW s \in Services
  PROVE  /\ Len(Subs[s]) \in {1, 3}
         /\ DOMAIN Subs[s] = 1 .. Len(Subs[s])
         /\ \A i \in 1 .. Len(Subs[s]) : Subs[s][i] \in Topics /\ <<s, Subs[s][i]>> \in Subscribers
<1>1. DOMAIN Subs[s] = 1 .. Len(Subs[s])
  BY OrderIs DEF Subs
<1>2. Len(Subs[s]) \in {1, 3}
  BY OrderIs, SubsAre
<1>3. ASSUME NEW i \in 1 .. Len(Subs[s]) PROVE Subs[s][i] \in Topics
  BY <1>2, OrderIs, SubsAre DEF Topics
<1>4. \A i \in 1 .. Len(Subs[s]) : <<s, Subs[s][i]>> \in Subscribers
  BY <1>1 DEF Subscribers
<1> QED
  BY <1>1, <1>2, <1>3, <1>4

LEMMA PublishesTypes == \A p \in Publishers : Publishes[p] \subseteq Topics /\ p \in Creators
  BY DEF Publishers, Publishes, Topics, Creators

LEMMA NoneIsNoTopic == None \notin Topics
  BY DEF None, Topics

LEMMA TypeInit == Init => TypeInv
<1> SUFFICES ASSUME Init PROVE TypeInv
  OBVIOUS
<1>1. n \in 1 .. Len(Order) /\ k \in 1 .. Len(Subs[Service])
  BY OrderIs, SubsAre DEF Init, Service
<1>2. handle \in [Subscribers -> Slots \cup {NoSlot}] /\ active \in [Topics -> SUBSET Slots]
  BY DEF Init
<1>3. making \in [Creators -> Topics \cup {None}] /\ Making
  BY DEF Init, Making
<1> QED
  BY <1>1, <1>2, <1>3 DEF Init, TypeInv, TypeOK, AtFirst

\* The service and the topic main() is at.
LEMMA HereTypes == TypeOK => /\ Service \in Services /\ n \in 1 .. 6 /\ Topic \in Topics
                             /\ <<Service, Topic>> \in Subscribers
<1> SUFFICES ASSUME TypeOK PROVE /\ Service \in Services /\ n \in 1 .. 6 /\ Topic \in Topics
                                 /\ <<Service, Topic>> \in Subscribers
  OBVIOUS
<1>1. n \in 1 .. 6
  BY OrderIs DEF TypeOK
<1>2. Service \in Services
  BY <1>1, OrderIs DEF Service
<1> QED
  BY <1>1, <1>2, SubsTypes DEF TypeOK, Topic

LEMMA AdvanceTypes ==
  ASSUME TypeOK, Advance
  PROVE  /\ mainPc' \in {"spawn", "subscribe", "run", "join", "stop", "done"}
         /\ n' \in 1 .. Len(Order) /\ k' \in 1 .. Len(Subs[Service])'
         /\ running' \in BOOLEAN
         /\ mainPc' # "subscribe" \/ mainPc' = mainPc
         /\ mainPc' # "subscribe" /\ mainPc' # mainPc => k' = 1
<1>1. n \in 1 .. 6 /\ Len(Order) = 6
  BY OrderIs DEF TypeOK
<1>2. n' \in 1 .. 6
  BY <1>1 DEF Advance
<1>3. Order[n] \in Services /\ Order[n'] \in Services
  BY <1>1, <1>2, OrderIs
<1>4. k \in 1 .. Len(Subs[Order[n]]) /\ Len(Subs[Order[n]]) \in {1, 3} /\ Len(Subs[Order[n']]) \in {1, 3}
  BY <1>3, SubsTypes DEF TypeOK, Service
<1>5. k' \in 1 .. Len(Subs[Order[n']])
  <2>1. CASE k' = 1
    <3> DEFINE l == Len(Subs[Order[n']])
    <3>1. l \in {1, 3}
      BY <1>4
    <3> HIDE DEF l
    <3>2. 1 \in 1 .. l
      BY <3>1
    <3> QED
      BY <2>1, <3>2 DEF l
  <2>2. CASE n' = n /\ k' = k
    BY <1>4, <2>2
  <2>3. CASE n' = n /\ k' = k + 1 /\ k < Len(Subs[Order[n]])
    <3> DEFINE l == Len(Subs[Order[n]])
    <3>1. l \in Nat /\ k \in 1 .. l /\ k < l
      BY <1>4, <2>3
    <3> HIDE DEF l
    <3>2. k + 1 \in 1 .. l
      BY <3>1
    <3> QED
      BY <2>3, <3>2 DEF l
  <2> QED
    BY <2>1, <2>2, <2>3 DEF Advance, Service
<1>6. n = Len(Order) /\ k = Len(Subs[Service]) => k = 1
  BY <1>1, OrderIs, SubsAre DEF Service
<1> QED
  BY <1>1, <1>2, <1>5, <1>6 DEF Advance, TypeOK, Service

LEMMA TypeMain == TypeInv /\ (Main \/ Signal) => TypeInv'
<1> SUFFICES ASSUME TypeInv, Main \/ Signal PROVE TypeInv'
  OBVIOUS
<1> USE DEF TypeInv
<1>h. Service \in Services /\ n \in 1 .. 6 /\ Topic \in Topics /\ <<Service, Topic>> \in Subscribers
  BY HereTypes
<1>m. "main" \in Creators /\ "main" \notin Publishers
  BY DEF Creators, Publishers, Publishes
<1>1. CASE Spawn
  BY <1>1, <1>h DEF Spawn, AtFirst, TypeOK, Making, Service, topics, subscribers
<1>2. CASE SubscribeCreates
  <2>1. /\ making' = [making EXCEPT !["main"] = Topic] /\ making["main"] = None
        /\ clearing' = clearing \cup {"main"} /\ UNCHANGED <<created, linked, active>>
    BY <1>2 DEF SubscribeCreates, Test
  <2>2. making' \in [Creators -> Topics \cup {None}] /\ clearing' \subseteq Creators
    BY <1>h, <1>m, <2>1 DEF TypeOK
  <2>3. Making'
    <3> SUFFICES ASSUME NEW c \in Creators
                 PROVE  /\ c \in clearing' => making'[c] # None
                        /\ making'[c] # None /\ c \notin clearing' => making'[c] \in created'
                        /\ c \in Publishers => making'[c] \in Publishes[c] \cup {None}
      BY DEF Making
    <3>1. CASE c = "main"
      BY <1>h, <1>m, <2>1, <3>1, NoneIsNoTopic DEF TypeOK
    <3>2. CASE c # "main"
      BY <2>1, <3>2 DEF Making, TypeOK
    <3> QED
      BY <3>1, <3>2
  <2> QED
    BY <1>2, <2>1, <2>2, <2>3 DEF SubscribeCreates, AtFirst, TypeOK, Service, process, subscribers
<1>3. CASE Subscribe
  <2>1. /\ mainPc' \in {"spawn", "subscribe", "run", "join", "stop", "done"}
        /\ n' \in 1 .. Len(Order) /\ k' \in 1 .. Len(Subs[Service])'
        /\ running' \in BOOLEAN
    BY <1>3, AdvanceTypes DEF Subscribe
  <2>2. active' \in [Topics -> SUBSET Slots] /\ handle' \in [Subscribers -> Slots \cup {NoSlot}]
    BY <1>3, <1>h DEF Subscribe, TypeOK
  <2>3. built' = built \cup {<<Service, Topic>>}
    BY <1>3 DEF Subscribe
  <2>4. Making'
    BY <1>3 DEF Subscribe, Making
  <2>5. AtFirst'
    BY <1>3, AdvanceTypes DEF Subscribe, AtFirst
  <2> QED
    BY <1>3, <1>h, <2>1, <2>2, <2>3, <2>4, <2>5 DEF Subscribe, TypeOK
<1>4. CASE RunEnds \/ Stop \/ Signal
  BY <1>4 DEF RunEnds, Stop, Signal, AtFirst, TypeOK, Making, Service, process, topics, subscribers
<1>5. CASE Join
  <2>1. n' \in 1 .. 6 /\ k' = k
    BY <1>5, <1>h DEF Join
  <2>2. mainPc' \in {"join", "stop"} /\ thread' \in [Services -> {"none", "running", "exited", "joined"}]
    BY <1>5, <1>h DEF Join, TypeOK
  <2>3. k' = 1
    BY <1>5, <2>1 DEF Join, AtFirst
  <2>4. Order[n'] \in Services
    BY <2>1, OrderIs
  <2>5. k' \in 1 .. Len(Subs[Service])'
    <3> DEFINE l == Len(Subs[Order[n']])
    <3>1. l \in {1, 3}
      BY <2>4, SubsTypes
    <3> HIDE DEF l
    <3>2. 1 \in 1 .. l
      BY <3>1
    <3> QED
      BY <2>3, <3>2 DEF l, Service
  <2> QED
    BY <1>5, <2>1, <2>2, <2>3, <2>5, OrderIs DEF AtFirst, Join, TypeOK, Making, topics, subscribers
<1> QED
  BY <1>1, <1>2, <1>3, <1>4, <1>5 DEF Main

LEMMA TypeThreads ==
  ASSUME TypeInv,
         \/ NoServer
         \/ \E c \in Creators : Clear(c) \/ Link(c)
         \/ \E s \in Services : EarlyRead(s) \/ Exit(s)
         \/ \E p \in Publishers : PublishCreates(p) \/ Publish(p)
         \/ UNCHANGED vars
  PROVE  TypeInv'
<1> USE DEF TypeInv
<1>1. ASSUME NEW c \in Creators, Clear(c) PROVE TypeInv'
  <2>1. making[c] \in Topics
    BY <1>1 DEF Clear, TypeOK, Making
  <2>2. active' \in [Topics -> SUBSET Slots] /\ created' \subseteq Topics /\ linked' \subseteq created'
    BY <1>1, <2>1 DEF Clear, TypeOK
  <2>3. clearing' = clearing \ {c} /\ making' = making /\ created' = created \cup {making[c]}
    BY <1>1 DEF Clear
  <2>4. Making'
    BY <2>3 DEF Making
  <2> QED
    BY <1>1, <2>2, <2>3, <2>4 DEF Clear, AtFirst, TypeOK, Service, process, subscribers
<1>2. ASSUME NEW c \in Creators, Link(c) PROVE TypeInv'
  <2>1. making[c] \in created
    BY <1>2 DEF Link, TypeOK, Making
  <2>2. making' = [making EXCEPT ![c] = None] /\ UNCHANGED <<clearing, created>> /\ c \notin clearing
    BY <1>2 DEF Link
  <2>3. making' \in [Creators -> Topics \cup {None}] /\ linked' \subseteq created'
    BY <1>2, <2>1, <2>2 DEF Link, TypeOK
  <2>4. Making'
    BY <2>2 DEF Making, TypeOK
  <2> QED
    BY <1>2, <2>2, <2>3, <2>4 DEF Link, AtFirst, TypeOK, Service, process, subscribers
<1>3. ASSUME NEW p \in Publishers, PublishCreates(p) PROVE TypeInv'
  <2>1. PICK t \in Publishes[p] : Test(p, t)
    BY <1>3 DEF PublishCreates
  <2>2. /\ making' = [making EXCEPT ![p] = t] /\ making[p] = None
        /\ clearing' = clearing \cup {p} /\ UNCHANGED <<created, linked, active>>
    BY <2>1 DEF Test
  <2>3. p \in Creators /\ t \in Topics /\ t # None
    BY PublishesTypes, NoneIsNoTopic
  <2>4. making' \in [Creators -> Topics \cup {None}] /\ clearing' \subseteq Creators
    BY <2>2, <2>3 DEF TypeOK
  <2>5. Making'
    <3> SUFFICES ASSUME NEW c \in Creators
                 PROVE  /\ c \in clearing' => making'[c] # None
                        /\ making'[c] # None /\ c \notin clearing' => making'[c] \in created'
                        /\ c \in Publishers => making'[c] \in Publishes[c] \cup {None}
      BY DEF Making
    <3>1. CASE c = p
      BY <2>2, <2>3, <3>1 DEF TypeOK
    <3>2. CASE c # p
      BY <2>2, <3>2 DEF Making, TypeOK
    <3> QED
      BY <3>1, <3>2
  <2> QED
    BY <1>3, <2>2, <2>4, <2>5 DEF PublishCreates, AtFirst, TypeOK, Service, process, subscribers
<1>4. ASSUME NEW p \in Publishers, Publish(p) PROVE TypeInv'
  <2>1. reached' \subseteq built
    BY <1>4 DEF Publish, TypeOK
  <2> QED
    BY <1>4, <2>1 DEF Publish, AtFirst, TypeOK, Making, Service, process, topics
<1>5. ASSUME NEW s \in Services, EarlyRead(s) \/ Exit(s) PROVE TypeInv'
  BY <1>5 DEF EarlyRead, Exit, AtFirst, TypeOK, Making, Service, topics, subscribers
<1>6. CASE NoServer
  BY <1>6, OrderIs DEF NoServer, AtFirst, TypeOK, Making, Service, topics, subscribers
<1>7. CASE UNCHANGED vars
  BY <1>7 DEF vars, AtFirst, TypeOK, Making, Service, process, topics, subscribers
<1> QED
  BY <1>1, <1>2, <1>3, <1>4, <1>5, <1>6, <1>7

\* Every step of Launch is one of loading, which leaves the start-up alone, or
\* one of the start-up.
LEMMA StepIs == [LaunchNext]_everything => [Next]_vars
  BY DEF LaunchNext, Load, Start, Live, everything

LEMMA TypeNext == TypeInv /\ [Next]_vars => TypeInv'
  BY TypeMain, TypeThreads DEF Next

\* Type correctness of the application's life, also while create<T>() races.
THEOREM TypeCorrect == LaunchSpec => []TypeOK
<1>1. LaunchInit => TypeInv
  BY TypeInit DEF LaunchInit
<1>2. TypeInv /\ [LaunchNext]_everything => TypeInv'
  BY TypeNext, StepIs
<1>3. TypeInv => TypeOK
  BY DEF TypeInv
<1> QED
  BY <1>1, <1>2, <1>3, PTL DEF LaunchSpec

-----------------------------------------------------------------------------
(* The end: main() joins the threads from the last to the first, and takes   *)
(* the link down after that.                                                 *)

EndInv ==
  /\ mainPc = "run" => n = 6
  /\ mainPc = "join" => \A i \in 1 .. 6 : i > n => thread[Order[i]] = "joined"
  /\ mainPc \in {"stop", "done"} => \A i \in 1 .. 6 : thread[Order[i]] = "joined"
  /\ io = "stopped" => mainPc = "done"

LEMMA EndStart == Init => EndInv
  BY DEF Init, EndInv

LEMMA EndStep == TypeInv /\ EndInv /\ [Next]_vars => EndInv'
<1> SUFFICES ASSUME TypeInv, EndInv, [Next]_vars PROVE EndInv'
  OBVIOUS
<1>h. n \in 1 .. 6 /\ \A i \in 1 .. 6 : Order[i] \in Services
  BY HereTypes, OrderIs DEF TypeInv
<1>t. thread \in [Services -> {"none", "running", "exited", "joined"}]
  BY DEF TypeInv, TypeOK
<1>1. CASE Spawn
  BY <1>1 DEF Spawn, EndInv
<1>2. CASE Subscribe
  BY <1>2, OrderIs DEF Subscribe, Advance, EndInv
<1>3. CASE RunEnds
  BY <1>3 DEF RunEnds, EndInv, process
<1>4. CASE Join
  <2>1. /\ thread' = [thread EXCEPT ![Order[n]] = "joined"] /\ mainPc = "join" /\ io' = io
        /\ n' = IF n > 1 THEN n - 1 ELSE n
        /\ mainPc' = IF n > 1 THEN "join" ELSE "stop"
    BY <1>4 DEF Join, Service
  <2>2. \A i \in 1 .. 6 : i >= n => thread'[Order[i]] = "joined"
    BY <1>h, <1>t, <2>1 DEF EndInv
  <2>3. CASE n > 1
    BY <1>h, <2>1, <2>2, <2>3 DEF EndInv
  <2>4. CASE n = 1
    BY <1>h, <2>1, <2>2, <2>4 DEF EndInv
  <2> QED
    BY <1>h, <2>3, <2>4
<1>5. CASE Stop
  BY <1>5 DEF Stop, EndInv
<1>6. ASSUME NEW s \in Services, Exit(s) \/ EarlyRead(s) PROVE EndInv'
  BY <1>6, <1>h, <1>t DEF Exit, EarlyRead, EndInv
<1>7. CASE NoServer
  BY <1>7, <1>h, <1>t DEF NoServer, EndInv
<1>8. CASE \/ SubscribeCreates \/ Signal \/ UNCHANGED vars
           \/ \E c \in Creators : Clear(c) \/ Link(c)
           \/ \E p \in Publishers : PublishCreates(p) \/ Publish(p)
  BY <1>8 DEF SubscribeCreates, Signal, Clear, Link, PublishCreates, Publish, EndInv, process, vars
<1> QED
  BY <1>1, <1>2, <1>3, <1>4, <1>5, <1>6, <1>7, <1>8 DEF Next, Main

\* The simulator link is taken down only after the threads that use it have
\* ended: ~ecal_io comes last, and every destructor before it joins.
THEOREM LinkComesLast == LaunchSpec => []IoOutlivesUsers
<1>1. LaunchInit => TypeInv /\ EndInv
  BY TypeInit, EndStart DEF LaunchInit
<1>2. (TypeInv /\ EndInv) /\ [LaunchNext]_everything => (TypeInv /\ EndInv)'
  BY TypeNext, EndStep, StepIs
<1>3. TypeInv /\ EndInv => IoOutlivesUsers
  BY OrderIs DEF EndInv, IoOutlivesUsers
<1> QED
  BY <1>1, <1>2, <1>3, PTL DEF LaunchSpec

-----------------------------------------------------------------------------
(* The motor command and the pendulum: only main(), which subscribes them,   *)
(* and the chassis thread, which publishes them, ever create these topics,   *)
(* and main() has subscribed both before it starts that thread.              *)

Safe == {<<"actuator", "motor">>, <<"command", "pendulum">>}

Subscribing == mainPc \in {"spawn", "subscribe"}

\* Until the chassis thread runs, these topics are created by main() alone.
BeforeInv ==
  thread["chassis"] = "none" =>
    /\ making["chassis"] = None
    /\ \A b \in Safe : b[2] \in created => b[2] \in linked \/ making["main"] = b[2]

\* main() has gone past a subscriber only by building it.
PastInv ==
  /\ Subscribing /\ n <= 3 => thread["chassis"] = "none"
  /\ Subscribing /\ (n > 1 \/ k > 1) => <<"actuator", "motor">> \in built
  /\ Subscribing /\ (n > 3 \/ (n = 3 /\ k > 1)) => <<"command", "pendulum">> \in built
  /\ thread["chassis"] # "none" => Safe \subseteq built

\* Once built, its topic exists and nobody is about to reset it.
KeptInv ==
  \A b \in Safe \cap built :
    /\ handle[b] \in active[b[2]]
    /\ b[2] \in created
    /\ \A c \in Creators : making[c] # b[2]

SlotInv == BeforeInv /\ PastInv /\ KeptInv

LEMMA SafeTypes ==
  /\ Safe \subseteq Subscribers
  /\ \A b \in Safe : b[2] \in Topics /\ b[2] # None
  /\ \A b \in Safe, p \in Publishers : b[2] \in Publishes[p] => p = "chassis"
  /\ "main" \in Creators /\ "chassis" \in Creators /\ "chassis" \in Publishers
  /\ Publishers \subseteq Creators /\ Creators = Publishers \cup {"main"}
<1>1. <<"actuator", "motor">> \in Subscribers /\ <<"command", "pendulum">> \in Subscribers
  BY SubsTypes, SubsAre, OrderIs
<1>2. \A b \in Safe : b[2] \in {"motor", "pendulum"}
  BY DEF Safe
<1>3. "motor" \in Topics /\ "pendulum" \in Topics /\ "motor" # None /\ "pendulum" # None
  BY DEF Topics, None
<1>4. \A p \in Publishers : "motor" \in Publishes[p] \/ "pendulum" \in Publishes[p] => p = "chassis"
  BY DEF Publishers, Publishes
<1>5. "chassis" \in Publishers
  BY DEF Publishers, Publishes
<1> QED
  BY <1>1, <1>2, <1>3, <1>4, <1>5 DEF Creators, Safe

LEMMA SlotStart == Init => SlotInv
<1> SUFFICES ASSUME Init PROVE SlotInv
  OBVIOUS
<1>1. thread["chassis"] = "none" /\ making["chassis"] = None
  BY OrderIs, SafeTypes DEF Init
<1>2. n = 1 /\ k = 1 /\ built = {} /\ created = {}
  BY DEF Init
<1> QED
  BY <1>1, <1>2 DEF SlotInv, BeforeInv, PastInv, KeptInv

\* What main() and the chassis thread do not touch stays as it is.
LEMMA SlotIdle ==
  ASSUME TypeInv, SlotInv,
         UNCHANGED <<n, k, topics, handle, built>>,
         Subscribing' => Subscribing,
         thread'["chassis"] = "none" <=> thread["chassis"] = "none"
  PROVE  SlotInv'
<1>1. BeforeInv'
  BY DEF SlotInv, BeforeInv, topics
<1>2. PastInv'
  BY DEF SlotInv, PastInv
<1>3. KeptInv'
  BY DEF SlotInv, KeptInv, topics
<1> QED
  BY <1>1, <1>2, <1>3 DEF SlotInv

LEMMA SlotSpawn == TypeInv /\ SlotInv /\ Spawn => SlotInv'
<1> SUFFICES ASSUME TypeInv, SlotInv, Spawn PROVE SlotInv'
  OBVIOUS
<1>1. /\ mainPc = "spawn" /\ mainPc' = "subscribe" /\ n \in 1 .. 6
      /\ thread' = [thread EXCEPT ![Order[n]] = "running"]
      /\ thread \in [Services -> {"none", "running", "exited", "joined"}]
      /\ UNCHANGED <<n, k, topics, handle, built>>
  BY HereTypes DEF Spawn, Service, subscribers, TypeInv, TypeOK
<1>2. \A i \in 1 .. 6 : Order[i] = "chassis" <=> i = 4
  BY OrderIs
<1>3. n # 4 => (thread'["chassis"] = "none" <=> thread["chassis"] = "none")
  BY <1>1, <1>2, OrderIs
<1>4. n = 4 => thread'["chassis"] = "running"
  BY <1>1, <1>2, OrderIs
<1>5. CASE n # 4
  BY <1>1, <1>3, <1>5, SlotIdle DEF Subscribing
<1>6. CASE n = 4
  <2>1. BeforeInv'
    BY <1>4, <1>6 DEF BeforeInv
  <2>2. PastInv'
    BY <1>1, <1>6 DEF SlotInv, PastInv, Subscribing, Safe
  <2>3. KeptInv'
    BY <1>1 DEF SlotInv, KeptInv, topics
  <2> QED
    BY <2>1, <2>2, <2>3 DEF SlotInv
<1> QED
  BY <1>5, <1>6

\* Nobody but the chassis thread and main() makes one of these topics.
LEMMA MakersAre ==
  ASSUME TypeInv, NEW b \in Safe, NEW c \in Creators, making[c] = b[2]
  PROVE  c \in {"main", "chassis"}
<1>1. c \in Publishers => b[2] \in Publishes[c]
  BY SafeTypes DEF TypeInv, Making
<1> QED
  BY <1>1, SafeTypes

LEMMA SlotSubscribe == TypeInv /\ SlotInv /\ Subscribe => SlotInv'
<1> SUFFICES ASSUME TypeInv, SlotInv, Subscribe PROVE SlotInv'
  OBVIOUS
<1> DEFINE here == <<Service, Topic>>
<1>h. Service \in Services /\ n \in 1 .. 6 /\ Topic \in Topics /\ here \in Subscribers
  BY HereTypes DEF TypeInv
<1>k. k \in 1 .. Len(Subs[Order[n]]) /\ Len(Subs[Order[n]]) \in {1, 3}
  BY <1>h, SubsTypes DEF TypeInv, TypeOK, Service
<1>t. /\ active \in [Topics -> SUBSET Slots] /\ handle \in [Subscribers -> Slots \cup {NoSlot}]
      /\ mainPc = "subscribe" /\ Subscribing
      /\ Topic \in created /\ making["main"] = None
      /\ built' = built \cup {here} /\ UNCHANGED <<thread, created, linked, making>>
  BY DEF Subscribe, TypeInv, TypeOK, Subscribing
<1>1. BeforeInv'
  BY <1>t DEF SlotInv, BeforeInv
<1>2. PastInv'
  <2>1. n = 1 /\ k = 1 => here = <<"actuator", "motor">>
    BY OrderIs, SubsAre DEF Service, Topic
  <2>2. n = 3 /\ k = 1 => here = <<"command", "pendulum">>
    BY OrderIs, SubsAre DEF Service, Topic
  <2>3. k \in Nat \ {0}
    <3> DEFINE l == Len(Subs[Order[n]])
    <3>1. k \in 1 .. l
      BY <1>k
    <3> HIDE DEF l
    <3> QED
      BY <3>1
  <2>4. <<"actuator", "motor">> \in built'
    BY <1>h, <1>t, <2>1, <2>3 DEF SlotInv, PastInv
  <2>5. \/ UNCHANGED n
        \/ n' = n + 1 /\ k' = 1 /\ k = Len(Subs[Service])
    BY DEF Subscribe, Advance
  <2>6. n = 3 /\ k = Len(Subs[Service]) => k > 1
    BY OrderIs, SubsAre DEF Service
  <2>7. n > 3 \/ (n = 3 /\ k > 1) \/ (n = 3 /\ k = 1) => <<"command", "pendulum">> \in built'
    BY <1>t, <2>2 DEF SlotInv, PastInv
  <2>8. n' > 3 \/ (n' = 3 /\ k' > 1) => <<"command", "pendulum">> \in built'
    BY <1>h, <2>3, <2>5, <2>6, <2>7
  <2>9. n' <= 3 => thread'["chassis"] = "none"
    BY <1>h, <1>t, <2>5 DEF SlotInv, PastInv
  <2> QED
    BY <1>t, <2>4, <2>8, <2>9 DEF SlotInv, PastInv
<1>3. KeptInv'
  <2> SUFFICES ASSUME NEW b \in Safe, b \in built'
               PROVE  /\ handle'[b] \in active'[b[2]]
                      /\ b[2] \in created'
                      /\ \A c \in Creators : making'[c] # b[2]
    BY DEF KeptInv
  <2>1. CASE b # here
    <3>1. handle'[b] = handle[b] /\ active[b[2]] \subseteq active'[b[2]]
      BY <1>t, <1>h, <2>1, SafeTypes DEF Subscribe
    <3> QED
      BY <1>t, <2>1, <3>1 DEF SlotInv, KeptInv
  <2>2. CASE b = here
    <3>1. Order[n] \in {"actuator", "command"}
      BY <2>2 DEF Safe, Service
    <3>2. n \in {1, 3}
      BY <1>h, <3>1, OrderIs
    <3>3. thread["chassis"] = "none"
      BY <1>t, <3>2 DEF SlotInv, PastInv
    <3>4. making["chassis"] = None /\ Topic \in linked
      BY <1>t, <2>2, <3>3, SafeTypes DEF SlotInv, BeforeInv
    <3>5. PICK i \in Slots : /\ active' = [active EXCEPT ![Topic] = @ \cup {i}]
                             /\ handle' = [handle EXCEPT ![here] = i]
      BY <3>4 DEF Subscribe
    <3>6. handle'[b] \in active'[b[2]]
      BY <1>h, <1>t, <2>2, <3>5
    <3>7. \A c \in Creators : making[c] # b[2]
      BY <1>t, <3>4, MakersAre, SafeTypes
    <3> QED
      BY <1>t, <2>2, <3>6, <3>7
  <2> QED
    BY <2>1, <2>2
<1> QED
  BY <1>1, <1>2, <1>3 DEF SlotInv

LEMMA SlotTest ==
  ASSUME TypeInv, SlotInv, NEW c \in Creators, NEW t \in Topics, Test(c, t),
         c = "chassis" => thread["chassis"] # "none",
         UNCHANGED <<mainPc, n, k, thread, handle, built>>
  PROVE  SlotInv'
<1>1. /\ making[c] = None /\ t \notin created /\ making' = [making EXCEPT ![c] = t]
      /\ making \in [Creators -> Topics \cup {None}]
      /\ UNCHANGED <<created, linked, active>>
  BY DEF Test, TypeInv, TypeOK
<1>2. BeforeInv'
  <2>1. thread["chassis"] = "none" => making'["chassis"] = None
    BY <1>1, SafeTypes DEF SlotInv, BeforeInv
  <2>2. \A b \in Safe : thread["chassis"] = "none" /\ b[2] \in created
                          => b[2] \in linked \/ making'["main"] = b[2]
    BY <1>1, SafeTypes DEF SlotInv, BeforeInv
  <2> QED
    BY <1>1, <2>1, <2>2 DEF BeforeInv
<1>3. PastInv'
  BY DEF SlotInv, PastInv, Subscribing
<1>4. KeptInv'
  BY <1>1 DEF SlotInv, KeptInv
<1> QED
  BY <1>2, <1>3, <1>4 DEF SlotInv

LEMMA SlotClear ==
  ASSUME TypeInv, SlotInv, NEW c \in Creators, Clear(c)
  PROVE  SlotInv'
<1>1. /\ making[c] \in Topics /\ active \in [Topics -> SUBSET Slots]
      /\ active' = [active EXCEPT ![making[c]] = {}] /\ created' = created \cup {making[c]}
      /\ UNCHANGED <<mainPc, n, k, thread, linked, making, handle, built>>
  BY DEF Clear, process, subscribers, TypeInv, TypeOK, Making
<1>2. BeforeInv'
  <2>1. ASSUME NEW b \in Safe, thread["chassis"] = "none", b[2] \in created'
        PROVE  b[2] \in linked \/ making["main"] = b[2]
    <3>1. CASE b[2] \in created
      BY <2>1, <3>1 DEF SlotInv, BeforeInv
    <3>2. CASE b[2] = making[c]
      <4>1. c \in {"main", "chassis"}
        BY <3>2, MakersAre
      <4>2. c # "chassis"
        BY <2>1, <3>2, SafeTypes DEF SlotInv, BeforeInv
      <4> QED
        BY <3>2, <4>1, <4>2
    <3> QED
      BY <1>1, <2>1, <3>1, <3>2
  <2> QED
    BY <1>1, <2>1 DEF SlotInv, BeforeInv
<1>3. PastInv'
  BY <1>1 DEF SlotInv, PastInv, Subscribing
<1>4. KeptInv'
  <2> SUFFICES ASSUME NEW b \in Safe, b \in built
               PROVE  handle[b] \in active'[b[2]] /\ b[2] \in created'
                      /\ \A d \in Creators : making[d] # b[2]
    BY <1>1 DEF KeptInv
  <2>1. /\ handle[b] \in active[b[2]] /\ b[2] \in created
        /\ \A d \in Creators : making[d] # b[2]
    BY DEF SlotInv, KeptInv
  <2> QED
    BY <1>1, <2>1, SafeTypes
<1> QED
  BY <1>2, <1>3, <1>4 DEF SlotInv

LEMMA SlotLink ==
  ASSUME TypeInv, SlotInv, NEW c \in Creators, Link(c)
  PROVE  SlotInv'
<1>1. /\ making \in [Creators -> Topics \cup {None}]
      /\ linked' = linked \cup {making[c]} /\ making' = [making EXCEPT ![c] = None]
      /\ UNCHANGED <<mainPc, n, k, thread, created, active, handle, built>>
  BY DEF Link, process, subscribers, TypeInv, TypeOK
<1>2. BeforeInv'
  BY <1>1, SafeTypes DEF SlotInv, BeforeInv
<1>3. PastInv'
  BY <1>1 DEF SlotInv, PastInv, Subscribing
<1>4. KeptInv'
  BY <1>1, SafeTypes DEF SlotInv, KeptInv
<1> QED
  BY <1>2, <1>3, <1>4 DEF SlotInv

LEMMA SlotStep == TypeInv /\ SlotInv /\ [Next]_vars => SlotInv'
<1> SUFFICES ASSUME TypeInv, SlotInv, [Next]_vars PROVE SlotInv'
  OBVIOUS
<1>t. thread \in [Services -> {"none", "running", "exited", "joined"}] /\ "chassis" \in Services
  BY OrderIs DEF TypeInv, TypeOK
<1>1. CASE SubscribeCreates
  <2>1. Test("main", Topic) /\ UNCHANGED <<mainPc, n, k, thread, handle, built>>
    BY <1>1 DEF SubscribeCreates, process, subscribers
  <2>2. Topic \in Topics /\ "main" \in Creators /\ "main" # "chassis"
    BY HereTypes, SafeTypes DEF TypeInv
  <2> QED
    BY <2>1, <2>2, SlotTest
<1>2. ASSUME NEW p \in Publishers, PublishCreates(p) PROVE SlotInv'
  <2>1. PICK t \in Publishes[p] : Test(p, t)
    BY <1>2 DEF PublishCreates
  <2>2. p = "chassis" => thread["chassis"] # "none"
    BY <1>2 DEF PublishCreates, CanPublish, Handlers
  <2>3. UNCHANGED <<mainPc, n, k, thread, handle, built>>
    BY <1>2 DEF PublishCreates, process, subscribers
  <2>4. t \in Topics /\ p \in Creators
    BY PublishesTypes
  <2> QED
    BY <2>1, <2>2, <2>3, <2>4, SlotTest
<1>3. CASE RunEnds \/ Stop \/ Signal \/ UNCHANGED vars \/ \E p \in Publishers : Publish(p)
  BY <1>3, SlotIdle DEF RunEnds, Stop, Signal, Publish, vars, process, subscribers, Subscribing
<1>4. CASE Join
  <2>1. /\ thread' = [thread EXCEPT ![Order[n]] = "joined"] /\ thread[Order[n]] = "exited"
    BY <1>4 DEF Join, Service
  <2>2. thread'["chassis"] = "none" <=> thread["chassis"] = "none"
    BY <1>t, <2>1
  <2>3. UNCHANGED <<topics, handle, built>> /\ ~Subscribing'
    BY <1>4 DEF Join, subscribers, Subscribing
  <2>4. BeforeInv' /\ KeptInv'
    BY <2>2, <2>3 DEF SlotInv, BeforeInv, KeptInv, topics
  <2>5. PastInv'
    BY <2>2, <2>3 DEF SlotInv, PastInv
  <2> QED
    BY <2>4, <2>5 DEF SlotInv
<1>5. ASSUME NEW s \in Services, EarlyRead(s) \/ Exit(s) PROVE SlotInv'
  BY <1>5, <1>t, SlotIdle DEF EarlyRead, Exit, subscribers, Subscribing
<1>6. CASE NoServer
  BY <1>6, <1>t, OrderIs, SlotIdle DEF NoServer, subscribers, Subscribing
<1> QED
  BY <1>1, <1>2, <1>3, <1>4, <1>5, <1>6, SlotSpawn, SlotSubscribe, SlotClear, SlotLink DEF Next, Main

\* The actuator's subscription to the motor command and the command loop's to
\* the pendulum keep their slots, although create<T>() is not synchronised.
THEOREM MotorNotLost == LaunchSpec => []MotorSlotKept
<1>1. LaunchInit => TypeInv /\ SlotInv
  BY TypeInit, SlotStart DEF LaunchInit
<1>2. (TypeInv /\ SlotInv) /\ [LaunchNext]_everything => (TypeInv /\ SlotInv)'
  BY TypeNext, SlotStep, StepIs
<1>3. TypeInv /\ SlotInv => MotorSlotKept
  BY DEF SlotInv, KeptInv, MotorSlotKept, Kept, Safe
<1> QED
  BY <1>1, <1>2, <1>3, PTL DEF LaunchSpec

-----------------------------------------------------------------------------
(* The way to the end.  Nothing is started any more once running_ is clear,  *)
(* and Left is what its members say, one by one.                             *)

QuietInv == Subscribing => running

LEMMA QuietStep == TypeInv /\ QuietInv /\ [Next]_vars => QuietInv'
<1> SUFFICES ASSUME TypeInv, QuietInv, [Next]_vars PROVE QuietInv'
  OBVIOUS
<1> USE DEF QuietInv, Subscribing
<1>1. CASE Main
  BY <1>1 DEF Main, Spawn, SubscribeCreates, Subscribe, Advance, RunEnds, Join, Stop, process
<1>2. CASE Signal \/ NoServer \/ UNCHANGED vars
  BY <1>2 DEF Signal, NoServer, vars, process
<1>3. ASSUME NEW c \in Creators, Clear(c) \/ Link(c) PROVE QuietInv'
  BY <1>3 DEF Clear, Link, process
<1>4. ASSUME NEW s \in Services, EarlyRead(s) \/ Exit(s) PROVE QuietInv'
  BY <1>4 DEF EarlyRead, Exit
<1>5. ASSUME NEW p \in Publishers, PublishCreates(p) \/ Publish(p) PROVE QuietInv'
  BY <1>5 DEF PublishCreates, Publish, process
<1> QED
  BY <1>1, <1>2, <1>3, <1>4, <1>5 DEF Next

Token(x, pc, th, cr, mk, cl) ==
  \/ pc = "run" /\ x = <<"run", "main">>
  \/ pc # "done" /\ x = <<"stop", "main">>
  \/ \E s \in Services : th[s] = "running" /\ x = <<"exit", s>>
  \/ \E s \in Services : th[s] # "joined" /\ x = <<"join", s>>
  \/ \E w \in {"test", "clear", "link"}, p \in Publishers : \E t \in Publishes[p] :
       t \notin cr /\ mk[p] # t /\ x = <<w, <<p, t>>>>
  \/ \E c \in cl : x = <<"clear", <<c, mk[c]>>>>
  \/ \E c \in Creators : mk[c] # None /\ x = <<"link", <<c, mk[c]>>>>

Now(x) == Token(x, mainPc, thread, created, making, clearing)
Then(x) == Token(x, mainPc', thread', created', making', clearing')

LEMMA UncreatedIs ==
  ASSUME NEW x
  PROVE  /\ x \in {"test", "clear", "link"} \X Uncreated <=>
               \E w \in {"test", "clear", "link"}, p \in Publishers : \E t \in Publishes[p] :
                 t \notin created /\ making[p] # t /\ x = <<w, <<p, t>>>>
         /\ x \in {"test", "clear", "link"} \X Uncreated' <=>
               \E w \in {"test", "clear", "link"}, p \in Publishers : \E t \in Publishes[p] :
                 t \notin created' /\ making'[p] # t /\ x = <<w, <<p, t>>>>
<1>1. \A p \in Publishers : Publishes[p] \subseteq Topics
  BY PublishesTypes
<1> QED
  BY <1>1 DEF Uncreated

LEMMA LeftIs == ASSUME NEW x PROVE (x \in Left <=> Now(x)) /\ (x \in Left' <=> Then(x))
  BY UncreatedIs DEF Left, Now, Then, Token

Fewer == Left' \subseteq Left /\ Left' # Left

\* One thing done, and nothing new to do.
LEMMA OneLess ==
  ASSUME NEW x, Now(x), ~Then(x), \A y : Then(y) => Now(y)
  PROVE  Fewer
  BY LeftIs DEF Fewer

\* Without a topic created, the members are those of main() and the threads.
LEMMA FewerThreads ==
  ASSUME UNCHANGED <<created, making, clearing>>,
         mainPc' = "run" => mainPc = "run",
         mainPc = "done" => mainPc' = "done",
         \A s \in Services : thread'[s] = "running" => thread[s] = "running",
         \A s \in Services : thread[s] = "joined" => thread'[s] = "joined"
  PROVE  \A y : Then(y) => Now(y)
  BY DEF Now, Then, Token

LEMMA FewerByMain == ASSUME RunEnds \/ Stop PROVE Fewer
<1>1. UNCHANGED <<created, making, clearing, thread>>
  BY DEF RunEnds, Stop, topics, process
<1>2. CASE RunEnds
  <2>1. mainPc = "run" /\ mainPc' = "join"
    BY <1>2 DEF RunEnds
  <2>2. Now(<<"run", "main">>) /\ ~Then(<<"run", "main">>)
    BY <2>1 DEF Now, Then, Token
  <2> QED
    BY <1>1, <2>1, <2>2, FewerThreads, OneLess
<1>3. CASE Stop
  <2>1. mainPc = "stop" /\ mainPc' = "done"
    BY <1>3 DEF Stop
  <2>2. Now(<<"stop", "main">>) /\ ~Then(<<"stop", "main">>)
    BY <2>1 DEF Now, Then, Token
  <2> QED
    BY <1>1, <2>1, <2>2, FewerThreads, OneLess
<1> QED
  BY <1>2, <1>3

\* One thread goes on to its end, or is joined.
LEMMA FewerByThread ==
  ASSUME TypeInv, NEW s \in Services, UNCHANGED <<created, making, clearing>>,
         mainPc' = "run" => mainPc = "run",
         mainPc = "done" => mainPc' = "done",
         \/ thread[s] = "running" /\ thread' = [thread EXCEPT ![s] = "exited"]
         \/ thread[s] = "exited" /\ thread' = [thread EXCEPT ![s] = "joined"]
  PROVE  Fewer
<1>1. thread \in [Services -> {"none", "running", "exited", "joined"}]
  BY DEF TypeInv, TypeOK
<1>2. \A y : Then(y) => Now(y)
  BY <1>1, FewerThreads
<1>3. CASE thread[s] = "running" /\ thread' = [thread EXCEPT ![s] = "exited"]
  <2>1. Now(<<"exit", s>>) /\ ~Then(<<"exit", s>>)
    BY <1>1, <1>3 DEF Now, Then, Token
  <2> QED
    BY <1>2, <2>1, OneLess
<1>4. CASE thread[s] = "exited" /\ thread' = [thread EXCEPT ![s] = "joined"]
  <2>1. Now(<<"join", s>>) /\ ~Then(<<"join", s>>)
    BY <1>1, <1>4 DEF Now, Then, Token
  <2> QED
    BY <1>2, <2>1, OneLess
<1> QED
  BY <1>3, <1>4

\* create<T>(): the test goes first, and then what it has decided on.
LEMMA FewerByTest ==
  ASSUME TypeInv, NEW p \in Publishers, NEW t \in Publishes[p], Test(p, t),
         UNCHANGED <<mainPc, thread>>
  PROVE  Fewer
<1>0. making \in [Creators -> Topics \cup {None}] /\ p \in Creators /\ t # None
  BY PublishesTypes, NoneIsNoTopic DEF TypeInv, TypeOK
<1>1. /\ making[p] = None /\ t \notin created /\ created' = created
      /\ making' = [making EXCEPT ![p] = t] /\ clearing' = clearing \cup {p}
  BY DEF Test
<1>2. Now(<<"test", <<p, t>>>>) /\ ~Then(<<"test", <<p, t>>>>)
  BY <1>0, <1>1 DEF Now, Then, Token
<1>3. p \notin clearing /\ clearing \subseteq Creators
  BY <1>1 DEF TypeInv, TypeOK, Making
<1>4. \A w \in {"test", "clear", "link"} : Now(<<w, <<p, t>>>>)
  BY <1>0, <1>1 DEF Now, Token
<1>5. ASSUME NEW y, Then(y), \A w \in {"test", "clear", "link"} : y # <<w, <<p, t>>>> PROVE Now(y)
  <2>1. CASE \E c \in clearing' : y = <<"clear", <<c, making'[c]>>>>
    <3>1. PICK c \in clearing' : y = <<"clear", <<c, making'[c]>>>>
      BY <2>1
    <3>2. c # p /\ c \in clearing /\ making'[c] = making[c]
      BY <1>0, <1>1, <1>3, <1>5, <3>1
    <3> QED
      BY <3>1, <3>2 DEF Now, Token
  <2>2. CASE \E c \in Creators : making'[c] # None /\ y = <<"link", <<c, making'[c]>>>>
    <3>1. PICK c \in Creators : making'[c] # None /\ y = <<"link", <<c, making'[c]>>>>
      BY <2>2
    <3>2. c # p /\ making'[c] = making[c]
      BY <1>0, <1>1, <1>5, <3>1
    <3> QED
      BY <3>1, <3>2 DEF Now, Token
  <2>3. CASE \E w \in {"test", "clear", "link"}, q \in Publishers : \E u \in Publishes[q] :
               u \notin created' /\ making'[q] # u /\ y = <<w, <<q, u>>>>
    <3>0. PICK w \in {"test", "clear", "link"}, q \in Publishers : \E u \in Publishes[q] :
            u \notin created' /\ making'[q] # u /\ y = <<w, <<q, u>>>>
      BY <2>3
    <3>1. PICK u \in Publishes[q] : u \notin created' /\ making'[q] # u /\ y = <<w, <<q, u>>>>
      BY <3>0
    <3>2. u \notin created /\ making[q] # u
      BY <1>0, <1>1, <3>1, PublishesTypes, NoneIsNoTopic
    <3> QED
      BY <3>1, <3>2 DEF Now, Token
  <2> QED
    BY <1>5, <2>1, <2>2, <2>3 DEF Now, Then, Token
<1> QED
  BY <1>2, <1>4, <1>5, OneLess

LEMMA FewerByClear == ASSUME TypeInv, NEW c \in Creators, Clear(c) PROVE Fewer
<1>1. /\ c \in clearing /\ created' = created \cup {making[c]} /\ clearing' = clearing \ {c}
      /\ UNCHANGED <<mainPc, thread, making>>
  BY DEF Clear, process
<1>2. Now(<<"clear", <<c, making[c]>>>>) /\ ~Then(<<"clear", <<c, making[c]>>>>)
  BY <1>1 DEF Now, Then, Token
<1>3. ASSUME NEW y, Then(y) PROVE Now(y)
  BY <1>1, <1>3 DEF Now, Then, Token
<1> QED
  BY <1>2, <1>3, OneLess

LEMMA FewerByLink == ASSUME TypeInv, NEW c \in Creators, Link(c) PROVE Fewer
<1>0. making \in [Creators -> Topics \cup {None}] /\ clearing \subseteq Creators
  BY DEF TypeInv, TypeOK
<1>1. /\ making[c] # None /\ c \notin clearing /\ making[c] \in created
      /\ making' = [making EXCEPT ![c] = None]
      /\ UNCHANGED <<mainPc, thread, created, clearing>>
  BY DEF Link, process, TypeInv, Making
<1>2. Now(<<"link", <<c, making[c]>>>>) /\ ~Then(<<"link", <<c, making[c]>>>>)
  BY <1>0, <1>1 DEF Now, Then, Token
<1>3. ASSUME NEW y, Then(y) PROVE Now(y)
  BY <1>0, <1>1, <1>3, PublishesTypes DEF Now, Then, Token
<1> QED
  BY <1>2, <1>3, OneLess

\* Once running_ is clear it stays so, and each step but a publication is one of
\* those that were left: the run loop, the joins, the loops' last rounds, and
\* the topics that those and the handlers still create.
THEOREM EndIsBounded == LaunchSpec => EndsInSteps
<1> DEFINE Idle == UNCHANGED <<mainPc, n, k, process, topics, handle, built>>
           Ending == ~running => ~running' /\ (Fewer \/ Idle)
<1>1. TypeInv /\ QuietInv /\ [Next]_vars => [Ending]_vars
  <2> SUFFICES ASSUME TypeInv, QuietInv, Next, ~running PROVE ~running' /\ (Fewer \/ Idle)
    OBVIOUS
  <2>0. ~Subscribing
    BY DEF QuietInv
  <2>1. CASE Main
    <3>1. CASE RunEnds \/ Stop
      BY <3>1, FewerByMain DEF RunEnds, Stop, process
    <3>2. CASE Join
      <4>1. Service \in Services
        BY HereTypes DEF TypeInv
      <4> QED
        BY <3>2, <4>1, FewerByThread DEF Join, topics
    <3> QED
      BY <2>0, <2>1, <3>1, <3>2 DEF Main, Spawn, SubscribeCreates, Subscribe, Subscribing
  <2>2. CASE NoServer
    <3>1. "visualizer" \in Services
      BY OrderIs
    <3> QED
      BY <2>2, <3>1, FewerByThread DEF NoServer, topics
  <2>3. CASE Signal
    BY <2>3 DEF Signal
  <2>4. ASSUME NEW c \in Creators, Clear(c) \/ Link(c) PROVE ~running' /\ Fewer
    BY <2>4, FewerByClear, FewerByLink DEF Clear, Link, process
  <2>5. ASSUME NEW s \in Services, EarlyRead(s) \/ Exit(s) PROVE ~running' /\ Fewer
    BY <2>5, FewerByThread DEF EarlyRead, Exit, topics
  <2>6. ASSUME NEW p \in Publishers, PublishCreates(p) PROVE ~running' /\ Fewer
    <3>1. PICK t \in Publishes[p] : Test(p, t)
      BY <2>6 DEF PublishCreates
    <3> QED
      BY <2>6, <3>1, FewerByTest DEF PublishCreates, process
  <2>7. ASSUME NEW p \in Publishers, Publish(p) PROVE ~running' /\ Idle
    BY <2>7 DEF Publish, process
  <2> QED
    BY <2>1, <2>2, <2>3, <2>4, <2>5, <2>6, <2>7 DEF Next
<1>2. LaunchInit => TypeInv /\ QuietInv
  BY TypeInit DEF LaunchInit, Init, QuietInv
<1>3. (TypeInv /\ QuietInv) /\ [LaunchNext]_everything => (TypeInv /\ QuietInv)'
  BY TypeNext, QuietStep, StepIs
<1>4. TypeInv /\ QuietInv /\ [LaunchNext]_everything => [Ending]_vars
  BY <1>1, StepIs
<1>5. [Ending]_vars <=> [~running => /\ ~running'
                                    /\ \/ Left' \subseteq Left /\ Left' # Left
                                       \/ Idle]_vars
  BY DEF Fewer
<1> QED
  BY <1>2, <1>3, <1>4, <1>5, PTL DEF LaunchSpec, EndsInSteps
=============================================================================
