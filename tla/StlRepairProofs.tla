--------------------------- MODULE StlRepairProofs ---------------------------
(***************************************************************************)
(* Proofs about the mesh repair: for any number of files and of runs, a    *)
(* run that makes backups can be undone, what MuJoCo loads is kept or      *)
(* rewritten as what it loads, and each failure of a run has its cause.    *)
(***************************************************************************)
EXTENDS StlRepair, TLAPS

\* The file a run works on is none it has still to come to, no dry run gets as
\* far, and a copy is made only by a run that makes backups.
PlaceInv ==
    /\ run.stage \in {"backup", "copying", "write", "writing"} =>
           cur \in DOMAIN file /\ cur \notin todo /\ ~run.dry
    /\ run.stage \in {"backup", "copying"} => run.backup

\* What the run has not written yet is as it was when the run began.
UntouchedInv ==
    /\ \A f \in todo : file[f] = start[f]
    /\ run.stage \in {"backup", "copying", "write"} => file[cur] = start[cur]

\* The copy is whole before the file is opened for writing.
CopiedInv ==
    run.backup /\ run.stage \in {"write", "writing"} => saved[cur] = start[cur]

RunInv == PlaceInv /\ UntouchedInv /\ CopiedInv

IInv == TypeOK /\ RunInv /\ Undoable

\* No repair leaves an empty mesh, nor one with too few or too many faces that
\* was not so before.
LEMMA OutcomeFaces ==
    ASSUME NEW k \in Kinds, NEW m \in Outcomes(k)
    PROVE  \E faces \in {"few", "fit", "over"} :
               m = Written(faces) /\ (faces # "fit" => faces = k.faces)
<1>1. k.faces \in {"none", "few", "fit", "over"}
    BY DEF Kinds, Meshes, Short, NoMesh
<1>2. CASE k.faces = "none"
    BY <1>2 DEF Outcomes, Repair
<1>3. CASE k.faces = "over"
    BY <1>3 DEF Outcomes, Repair
<1>4. CASE k.faces \in {"few", "fit"}
    BY <1>4 DEF Outcomes, Repair
<1>5. QED
    BY <1>1, <1>2, <1>3, <1>4

\* What a repair writes is a binary file, whole when it is done.
LEMMA OutcomesAreKinds ==
    ASSUME NEW k \in Kinds, NEW m \in Outcomes(k)
    PROVE  m \in Kinds /\ Short \in Kinds /\ [m EXCEPT !.whole = FALSE] \in Kinds
<1>1. PICK faces \in {"few", "fit", "over"} : m = Written(faces)
    BY OutcomeFaces
<1>2. m \in Meshes /\ m.faces # "none"
    BY <1>1 DEF Written, Meshes
<1>3. [m EXCEPT !.whole = FALSE] \in Meshes /\ [m EXCEPT !.whole = FALSE].faces # "none"
    BY <1>2 DEF Meshes
<1>4. QED
    BY <1>2, <1>3 DEF Kinds

\* Each step of the script keeps its state well-typed.
LEMMA TypeStep == TypeOK /\ PlaceInv /\ [Next]_vars => TypeOK'
<1> SUFFICES ASSUME TypeOK, PlaceInv, [Next]_vars
             PROVE  TypeOK'
    OBVIOUS
<1> USE StlAssumption DEF TypeOK, Copies, NoCopy, Torn, Stages, Exits
<1>1. ASSUME NEW backup \in BOOLEAN, NEW dry \in BOOLEAN, Start(backup, dry)
      PROVE  TypeOK'
    BY <1>1 DEF Start, Selected
<1>2. CASE Pick
    BY <1>2 DEF Pick
<1>3. CASE BackupBegin
    BY <1>3 DEF BackupBegin
<1>4. CASE BackupEnd
    BY <1>4 DEF BackupEnd
<1>5. CASE LeaveAlone
    BY <1>5 DEF LeaveAlone
<1>6. CASE WriteBegin
  <2>1. cur \in DOMAIN file /\ Kind(cur) \in Kinds
      BY <1>6 DEF WriteBegin, PlaceInv, Kind
  <2>2. PICK k \in Kinds : file' = [file EXCEPT ![cur] = <<k, run.number>>]
      BY <1>6, <2>1, OutcomesAreKinds DEF WriteBegin
  <2>3. QED
      BY <1>6, <2>2 DEF WriteBegin
<1>7. CASE WriteEnd
  <2>1. cur \in DOMAIN file /\ First(cur) \in Kinds
      BY <1>7 DEF WriteEnd, PlaceInv, First
  <2>2. PICK k \in Kinds : file' = [file EXCEPT ![cur] = <<k, run.number>>]
      BY <1>7, <2>1, OutcomesAreKinds DEF WriteEnd
  <2>3. QED
      BY <1>7, <2>2 DEF WriteEnd
<1>8. CASE Processed
    BY <1>8 DEF Processed
<1>9. CASE Verify
    BY <1>9 DEF Verify
<1>10. CASE Interrupted
    BY <1>10 DEF Interrupted
<1>11. CASE UNCHANGED vars
    BY <1>11 DEF vars
<1>12. QED
    BY <1>1, <1>2, <1>3, <1>4, <1>5, <1>6, <1>7, <1>8, <1>9, <1>10, <1>11 DEF Next

\* Each step keeps what ties the run to the directory it began with.
LEMMA RunStep == IInv /\ [Next]_vars => RunInv' /\ Undoable'
<1> SUFFICES ASSUME TypeOK, RunInv, Undoable, [Next]_vars
             PROVE  RunInv' /\ Undoable'
    BY DEF IInv
<1> USE DEF TypeOK, RunInv, PlaceInv, UntouchedInv, CopiedInv, Undoable, Kind
<1>1. ASSUME NEW backup \in BOOLEAN, NEW dry \in BOOLEAN, Start(backup, dry)
      PROVE  RunInv' /\ Undoable'
    BY <1>1 DEF Start, Selected
<1>2. CASE Pick
    BY <1>2 DEF Pick
<1>3. CASE BackupBegin
    BY <1>3 DEF BackupBegin
<1>4. CASE BackupEnd
    BY <1>4 DEF BackupEnd
<1>5. CASE LeaveAlone
    BY <1>5 DEF LeaveAlone
<1>6. CASE WriteBegin
    BY <1>6 DEF WriteBegin
<1>7. CASE WriteEnd
    BY <1>7 DEF WriteEnd
<1>8. CASE Processed
    BY <1>8 DEF Processed
<1>9. CASE Verify
    BY <1>9 DEF Verify
<1>10. CASE Interrupted
    BY <1>10 DEF Interrupted
<1>11. CASE UNCHANGED vars
    BY <1>11 DEF vars
<1>12. QED
    BY <1>1, <1>2, <1>3, <1>4, <1>5, <1>6, <1>7, <1>8, <1>9, <1>10, <1>11 DEF Next

\* The invariant holds from the first run on.
LEMMA Inductive == Spec => []IInv
<1>1. StlInit => IInv
    BY StlAssumption DEF StlInit, IInv, TypeOK, RunInv, PlaceInv, UntouchedInv, CopiedInv,
       Undoable, Copies, NoCopy, Torn, Stages, Exits
<1>2. IInv /\ [Next]_vars => IInv'
    BY TypeStep, RunStep DEF IInv, RunInv
<1>3. QED
    BY <1>1, <1>2, PTL DEF Spec

\* The variables of the script keep their types over any number of runs.
THEOREM TypeCorrect == Spec => []TypeOK
<1>1. IInv => TypeOK
    BY DEF IInv
<1>2. QED
    BY <1>1, Inductive, PTL

\* A run with backups can be undone at any point: what a file held when the
\* run began is still in it, or whole in the backup.
THEOREM RunIsUndoable == Spec => []Undoable
<1>1. IInv => Undoable
    BY DEF IInv
<1>2. QED
    BY <1>1, Inductive, PTL

-----------------------------------------------------------------------------
(* What becomes of the files that load. *)

\* A file that loaded is as it was, or was rewritten for its header and loads.
Kept(f) == Loads(First(f)) => file[f] = start[f] \/ (Solid(First(f)) /\ Loads(Kind(f)))

\* All are kept but the one being written; a run that breaks off leaves it so.
KeptInv ==
    /\ run.stage # "shell" \/ run.exit # "broken" =>
           \A f \in DOMAIN file : Kept(f) \/ (run.stage = "writing" /\ f = cur)
    /\ run.stage = "writing" => (Loads(First(cur)) => Solid(First(cur)))
    /\ Harmless

\* What a repair makes of a file that loads.
LEMMA LoadableRepair ==
    ASSUME NEW k, Loads(k)
    PROVE  /\ Repair(k) # "nothing" => Solid(k)
           /\ \A m \in Outcomes(k) : Loads(m)
BY DEF Loads, Repair, Solid, Outcomes, Written

\* Only the two writing steps touch a file, and WriteEnd makes up for WriteBegin.
LEMMA KeptStep == IInv /\ KeptInv /\ [Next]_vars => KeptInv'
<1> SUFFICES ASSUME IInv, KeptInv, [Next]_vars
             PROVE  KeptInv'
    OBVIOUS
<1> USE DEF IInv, TypeOK, RunInv, PlaceInv, UntouchedInv, KeptInv, Harmless, Lost, Kept, Kind, First
<1>1. ASSUME NEW backup \in BOOLEAN, NEW dry \in BOOLEAN, Start(backup, dry)
      PROVE  KeptInv'
    BY <1>1 DEF Start, Selected
<1>2. CASE Pick
    BY <1>2 DEF Pick
<1>3. CASE BackupBegin \/ BackupEnd
    BY <1>3 DEF BackupBegin, BackupEnd
<1>4. CASE LeaveAlone \/ Processed \/ Verify
    BY <1>4 DEF LeaveAlone, Processed, Verify
<1>5. CASE WriteBegin
    BY <1>5, LoadableRepair DEF WriteBegin
<1>6. CASE WriteEnd
  <2>1. PICK m \in Outcomes(First(cur)) : file' = [file EXCEPT ![cur] = <<m, run.number>>]
      BY <1>6 DEF WriteEnd
  <2>2. Loads(First(cur)) => Loads(m) /\ Solid(First(cur))
      BY <1>6, <2>1, LoadableRepair DEF WriteEnd
  <2>3. QED
      BY <1>6, <2>1, <2>2 DEF WriteEnd
<1>7. CASE Interrupted
    BY <1>7 DEF Interrupted
<1>8. CASE UNCHANGED vars
    BY <1>8 DEF vars
<1>9. QED
    BY <1>1, <1>2, <1>3, <1>4, <1>5, <1>6, <1>7, <1>8 DEF Next

\* A dry run writes nothing; another rewrites no mesh that loads unless its
\* header begins like an ASCII file, and loses none but one it breaks off in.
THEOREM RepairIsHarmless == Spec => []Harmless
<1>1. StlInit => KeptInv
    BY DEF StlInit, KeptInv, Kept, Harmless, Lost, Kind, First
<1>2. KeptInv => Harmless
    BY DEF KeptInv
<1>3. QED
    BY <1>1, <1>2, KeptStep, Inductive, PTL DEF Spec

-----------------------------------------------------------------------------
(* Why a run that goes through may fail all the same. *)

\* The file loads and would be left alone, or there is a reason the script can
\* do nothing about.
Settled(f) == \/ Loads(Kind(f)) /\ ~Solid(Kind(f))
              \/ ~Kind(f).whole /\ file[f] = start[f]
              \/ Kind(f).faces = First(f).faces /\ Kind(f).faces \in {"few", "over"}

\* What a run that writes has done with is settled.
SettledInv ==
    /\ run.stage # "shell" /\ ~run.dry =>
           \A f \in Selected : f \in todo \/ f = cur \/ Settled(f)
    /\ run.stage = "verify" => todo = {} /\ ~run.dry
    /\ FailureExplained

LEMMA SettledStep == IInv /\ SettledInv /\ [Next]_vars => SettledInv'
<1> SUFFICES ASSUME IInv, SettledInv, [Next]_vars
             PROVE  SettledInv'
    OBVIOUS
<1> USE DEF IInv, TypeOK, RunInv, PlaceInv, UntouchedInv, SettledInv, FailureExplained, Settled,
            Kind, First
<1>0. NoFile \notin Names /\ NoFile \notin Selected /\ Selected \subseteq DOMAIN file
    BY StlAssumption DEF NoFile, Names, Selected
<1>1. ASSUME NEW backup \in BOOLEAN, NEW dry \in BOOLEAN, Start(backup, dry)
      PROVE  SettledInv'
    BY <1>1 DEF Start, Selected, Kind
<1>2. CASE Pick
  <2>1. PICK f \in todo :
          LET passed == Kind(f) = Short \/ run.dry
          IN  /\ todo' = todo \ {f}
              /\ cur' = IF passed THEN NoFile ELSE f
              /\ run' = [run EXCEPT !.stage = IF passed THEN "files"
                                              ELSE IF run.backup THEN "backup" ELSE "write"]
      BY <1>2 DEF Pick
  <2>2. UNCHANGED <<file, start>> /\ cur = NoFile /\ run.stage = "files"
      BY <1>2 DEF Pick
  <2>3. run'.stage \in {"files", "backup", "write"} /\ run'.dry = run.dry
      BY <2>1
  <2>4. ASSUME NEW g \in Selected, ~run.dry PROVE g \in todo' \/ g = cur' \/ Settled(g)
    <3>1. Kind(g) = Short => Settled(g)
        BY <1>0, <2>2, <2>4 DEF Short, NoMesh
    <3>2. g \in todo \/ Settled(g)
        BY <1>0, <2>2, <2>4
    <3>3. QED
        BY <2>1, <2>4, <3>1, <3>2
  <2>5. QED
      BY <2>2, <2>3, <2>4 DEF Selected
<1>3. CASE BackupBegin \/ BackupEnd
    BY <1>3 DEF BackupBegin, BackupEnd, Selected, Kind
<1>4. CASE LeaveAlone
  <2>1. cur \in DOMAIN file /\ Kind(cur) \in Kinds /\ file[cur] = start[cur]
      BY <1>4 DEF LeaveAlone, Kind
  <2>2. Kind(cur).faces \in {"few", "fit"} /\ ~Solid(Kind(cur))
      BY <1>4, <2>1 DEF LeaveAlone, Repair, Kinds, Meshes, Short, NoMesh
  <2>3. Kind(cur).format # "ascii" /\ Kind(cur).whole \in BOOLEAN
      BY <2>1, <2>2 DEF Solid, Kinds, Meshes, Short, NoMesh
  <2>4. Settled(cur)
      BY <2>1, <2>2, <2>3 DEF Loads
  <2>5. QED
      BY <1>4, <2>4 DEF LeaveAlone, Selected
<1>5. CASE WriteBegin \/ WriteEnd
  <2>1. cur \in DOMAIN file /\ run.stage \in {"write", "writing"} /\ ~run.dry
      BY <1>5 DEF WriteBegin, WriteEnd
  <2>2. /\ run'.stage \in {"writing", "files"} /\ run'.dry = run.dry
        /\ UNCHANGED <<todo, start>> /\ DOMAIN file' = DOMAIN file
        /\ \A f \in DOMAIN file : f # cur => file'[f] = file[f]
      BY <1>5, <2>1 DEF WriteBegin, WriteEnd
  <2>3. Selected' = Selected
      BY <2>2 DEF Selected
  <2>4. PICK c : c = cur
      OBVIOUS
  <2>5. cur' = c \/ Settled(c)'
    <3>1. CASE WriteBegin
        BY <2>4, <3>1 DEF WriteBegin
    <3>2. CASE WriteEnd
      <4>1. PICK m \in Outcomes(First(cur)) : file' = [file EXCEPT ![cur] = <<m, run.number>>]
          BY <3>2 DEF WriteEnd
      <4>2. file'[cur][1] = m /\ start' = start
          BY <2>1, <3>2, <4>1 DEF WriteEnd
      <4>3. First(cur) \in Kinds
          BY <2>1
      <4>4. \E faces \in {"few", "fit", "over"} :
              m = Written(faces) /\ (faces # "fit" => faces = First(cur).faces)
          BY <4>3, OutcomeFaces
      <4>5. QED
          BY <2>4, <4>2, <4>4 DEF Loads, Solid, Written
    <3>3. QED
        BY <1>5, <3>1, <3>2
  <2>6. \A f \in Selected : f \in todo \/ f = c \/ Settled(f)
      BY <2>1, <2>4
  <2>7. \A f \in Selected : f # c => (Settled(f) <=> Settled(f)')
      BY <1>0, <2>2, <2>4 DEF Kind
  <2>8. \A f \in Selected' : f \in todo' \/ f = cur' \/ Settled(f)'
    <3>1. ASSUME NEW f \in Selected PROVE f \in todo \/ f = cur' \/ Settled(f)'
      <4>1. CASE f = c
          BY <2>5, <4>1
      <4>2. CASE f # c
          BY <2>6, <2>7, <4>2
      <4>3. QED
          BY <4>1, <4>2
    <3>2. QED
        BY <2>2, <2>3, <3>1
  <2>9. QED
      BY <2>2, <2>8
<1>6. CASE Processed
    BY <1>6 DEF Processed, Selected, Kind
<1>7. CASE Verify
  <2>1. \A f \in Selected : Settled(f)
      BY <1>0, <1>7 DEF Verify
  <2>2. /\ UNCHANGED <<file, start>> /\ run'.stage = "shell"
        /\ run'.exit \in {"loads", "failed"}
        /\ run'.exit = "loads" => \A f \in Selected : Loads(Kind(f))
      BY <1>7 DEF Verify
  <2>3. \A f \in Selected : Loads(Kind(f)) => ~Solid(Kind(f))
      BY <2>1 DEF Loads
  <2>4. QED
      BY <2>1, <2>2, <2>3 DEF Selected
<1>8. CASE Interrupted
    BY <1>8 DEF Interrupted
<1>9. CASE UNCHANGED vars
    BY <1>9 DEF vars, Selected, Kind
<1>10. QED
    BY <1>1, <1>2, <1>3, <1>4, <1>5, <1>6, <1>7, <1>8, <1>9 DEF Next

\* A run that goes through leaves what it would not rewrite again and MuJoCo
\* loads, but for files it could not read, cut short before, with too few faces,
\* or where a decimation stopped above the limit.
THEOREM FailureHasCause == Spec => []FailureExplained
<1>1. StlInit => SettledInv
    BY DEF StlInit, SettledInv, FailureExplained
<1>2. SettledInv => FailureExplained
    BY DEF SettledInv
<1>3. QED
    BY <1>1, <1>2, SettledStep, Inductive, PTL DEF Spec
=============================================================================
