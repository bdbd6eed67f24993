------------------------------ MODULE StlRepair ------------------------------
(***************************************************************************)
(* tools/fix_stl_for_mujoco.py: a directory of meshes, rewritten in place  *)
(* until MuJoCo loads them, each with a copy put aside first.  The script  *)
(* may be run again on what an earlier run left, and any run may stop      *)
(* half-way: an exception of trimesh or pymeshlab, a missing mujoco        *)
(* module, Ctrl-C.  A write cut short leaves a file that is too short to   *)
(* read or whose header promises more triangles than follow.               *)
(*                                                                         *)
(* The script takes a file for ASCII by its first five bytes, "solid",     *)
(* which a binary header may begin with as well.                           *)
(*                                                                         *)
(* File f \in 1..Stems is "<stem f>.STL", file Stems + f "<stem f>.stl";   *)
(* the file system tells the two apart.  The order is that of the listing. *)
(***************************************************************************)
EXTENDS Naturals, FiniteSets

CONSTANTS Stems,      \* names without their extension
          MaxFiles,   \* bound on the files in the directory
          MaxRuns     \* bound on the runs of the script

ASSUME StlAssumption == Stems \in Nat \ {0} /\ MaxFiles \in Nat /\ MaxRuns \in Nat

VARIABLES
    file,    \* the files present: what is in them, and how often rewritten
    saved,   \* the copy of each in the backup directory
    run,     \* the run: its number, its options and where it is
    todo,    \* unique_files not processed yet
    cur,     \* the file process_stl works on, NoFile between two
    start    \* history: the directory when this run began

vars == <<file, saved, run, todo, cur, start>>

Names  == 1..(2 * Stems)
NoFile == 0

\* A mesh by what the script and MuJoCo can tell: "solid" is a binary file
\* whose header begins like an ASCII one; the faces are none, too few for the
\* four vertices MuJoCo needs, 1..MAX_FACES or more.  Not whole is a binary
\* file with fewer triangles than its header says; if the file begins with
\* "solid", one that trimesh refuses.
Meshes == [format : {"binary", "solid", "ascii"},
           faces  : {"none", "few", "fit", "over"},
           whole  : BOOLEAN]

NoMesh(why) == [format |-> why, faces |-> "none", whole |-> FALSE]

\* Without "solid", and too short for a header.
Short == NoMesh("short")

Kinds == {m \in Meshes : m.faces = "none" => m.whole} \cup {Short}

Stages == {"shell", "files", "backup", "copying", "write", "writing", "verify"}
Exits  == {"none", "listed", "loads", "failed", "broken"}

NoCopy == <<NoMesh("absent"), 0>>
Torn   == <<NoMesh("torn"), 0>>
Copies == {NoCopy, Torn} \cup Kinds \X (0..MaxRuns)

TypeOK ==
    /\ DOMAIN file \subseteq Names
    /\ \A f \in DOMAIN file : file[f] \in Kinds \X (0..MaxRuns)
    /\ DOMAIN saved = DOMAIN file
    /\ \A f \in DOMAIN file : saved[f] \in Copies
    /\ run \in [number : 0..MaxRuns, backup : BOOLEAN, dry : BOOLEAN,
                stage : Stages, exit : Exits]
    /\ todo \subseteq DOMAIN file
    /\ cur \in DOMAIN file \cup {NoFile}
    /\ DOMAIN start = DOMAIN file
    /\ \A f \in DOMAIN file : start[f] \in Kinds \X (0..MaxRuns)
    /\ run.stage \in {"shell", "files", "verify"} => cur = NoFile

Kind(f)  == file[f][1]
First(f) == start[f][1]

(***************************************************************************)
(* The choice of the files and of what is done to each.                    *)
(***************************************************************************)
\* A name seen before in the other case is dropped: ".STL" comes first.
Selected ==
    {f \in DOMAIN file : f > Stems => f - Stems \notin DOMAIN file}

\* The test for ASCII: the first five bytes.
Solid(m) == m.format \in {"solid", "ascii"}

\* Mutants of Repair: a good binary file is round-tripped as well; a 0-face
\* file is taken for a valid one.
Repair_RoundTrip(m) ==
    CASE m.faces = "none" -> "placeholder"
      [] m.faces = "over" -> "decimate"
      [] OTHER            -> "convert"

Repair_NoEmpty(m) ==
    CASE m.faces = "over" -> "decimate"
      [] m.faces # "over" /\ Solid(m) -> "convert"
      [] OTHER            -> "nothing"

\* The count decides first, then the first bytes; vertices are not counted.
Repair(m) ==
    CASE m.faces = "none" -> "placeholder"
      [] m.faces = "over" -> "decimate"
      [] m.faces \in {"few", "fit"} /\ Solid(m) -> "convert"
      [] OTHER            -> "nothing"

\* MuJoCo's own reader goes by the count in a binary header, whatever else is
\* in the header: 1..MAX_FACES faces, all there, with four vertices.
Loads(m) == m.format # "ascii" /\ m.faces = "fit" /\ m.whole

\* All three writers make a whole binary file with a header of their own.
Written(faces) == [format |-> "binary", faces |-> faces, whole |-> TRUE]

\* The tetrahedron has four vertices.  The decimation may stop above its
\* target, and nothing checks that it did.  A conversion keeps the faces.
Outcomes(m) ==
    CASE Repair(m) = "placeholder" -> {Written("fit")}
      [] Repair(m) = "decimate"    -> {Written("fit"), Written("over")}
      [] OTHER                     -> {Written(m.faces)}

-----------------------------------------------------------------------------

StlInit ==
    /\ \E present \in {P \in SUBSET Names : Cardinality(P) <= MaxFiles} :
         /\ file \in [present -> Kinds \X {0}]
         /\ saved = [f \in present |-> NoCopy]
    /\ run = [number |-> 0, backup |-> FALSE, dry |-> FALSE,
              stage |-> "shell", exit |-> "none"]
    /\ todo = {}
    /\ cur = NoFile
    /\ start = file

\* "No STL files found" is a run that does nothing at all.
Start(backup, dry) ==
    /\ run.stage = "shell" /\ run.number < MaxRuns
    /\ Selected # {}
    /\ run' = [number |-> run.number + 1, backup |-> backup, dry |-> dry,
               stage |-> "files", exit |-> "none"]
    /\ todo' = Selected
    /\ start' = file
    /\ UNCHANGED <<file, saved, cur>>

\* process_stl as far as the dry run goes: files too short are passed over, and
\* what trimesh refuses ends the run (Interrupted).
Pick ==
    /\ run.stage = "files"
    /\ \E f \in todo :
         LET passed == Kind(f) = Short \/ run.dry
         IN  /\ Solid(Kind(f)) => Kind(f).whole
             /\ \A g \in todo : f <= g
             /\ todo' = todo \ {f}
             /\ cur' = IF passed THEN NoFile ELSE f
             /\ run' = [run EXCEPT !.stage = IF passed THEN "files"
                                             ELSE IF run.backup THEN "backup"
                                             ELSE "write"]
    /\ UNCHANGED <<file, saved, start>>

\* Mutant of BackupBegin: what is in the backup already is not copied again.
BackupBegin_Once ==
    /\ run.stage = "backup"
    /\ saved' = IF saved[cur] = NoCopy THEN [saved EXCEPT ![cur] = Torn] ELSE saved
    /\ run' = [run EXCEPT !.stage = IF saved[cur] = NoCopy THEN "copying" ELSE "write"]
    /\ UNCHANGED <<file, todo, cur, start>>

\* The copy replaces whatever the backup held under that name.
BackupBegin ==
    /\ run.stage = "backup"
    /\ saved' = [saved EXCEPT ![cur] = Torn]
    /\ run' = [run EXCEPT !.stage = "copying"]
    /\ UNCHANGED <<file, todo, cur, start>>

BackupEnd ==
    /\ run.stage = "copying"
    /\ saved' = [saved EXCEPT ![cur] = file[cur]]
    /\ run' = [run EXCEPT !.stage = "write"]
    /\ UNCHANGED <<file, todo, cur, start>>

\* A file with nothing to repair is left as it is, bytes and all: its count
\* was in range a moment ago, so the second look at it changes nothing.
LeaveAlone ==
    /\ run.stage = "write" /\ Repair(Kind(cur)) = "nothing"
    /\ run' = [run EXCEPT !.stage = "files"]
    /\ cur' = NoFile
    /\ UNCHANGED <<file, saved, todo, start>>

\* Every repair opens the file itself for writing, and so truncates it.
WriteBegin ==
    /\ run.stage = "write" /\ Repair(Kind(cur)) # "nothing"
    /\ \E m \in Outcomes(Kind(cur)) :
         \E part \in {Short, [m EXCEPT !.whole = FALSE]} :
             file' = [file EXCEPT ![cur] = <<part, run.number>>]
    /\ run' = [run EXCEPT !.stage = "writing"]
    /\ UNCHANGED <<saved, todo, cur, start>>

WriteEnd ==
    /\ run.stage = "writing"
    /\ \E m \in Outcomes(First(cur)) :
         file' = [file EXCEPT ![cur] = <<m, run.number>>]
    /\ run' = [run EXCEPT !.stage = "files"]
    /\ cur' = NoFile
    /\ UNCHANGED <<saved, todo, start>>

\* All processed: a dry run ends here, another goes on to MuJoCo.
Processed ==
    /\ run.stage = "files" /\ todo = {}
    /\ run' = IF run.dry THEN [run EXCEPT !.stage = "shell", !.exit = "listed"]
              ELSE [run EXCEPT !.stage = "verify"]
    /\ UNCHANGED <<file, saved, todo, cur, start>>

Verify ==
    /\ run.stage = "verify"
    /\ LET failed == {f \in Selected : ~Loads(Kind(f))}
       IN  run' = [run EXCEPT !.stage = "shell",
                              !.exit = IF failed = {} THEN "loads" ELSE "failed"]
    /\ UNCHANGED <<file, saved, todo, cur, start>>

\* An exception nobody catches, or the process killed, wherever it is.
Interrupted ==
    /\ run.stage # "shell"
    /\ run' = [run EXCEPT !.stage = "shell", !.exit = "broken"]
    /\ todo' = {}
    /\ cur' = NoFile
    /\ UNCHANGED <<file, saved, start>>

Next ==
    \/ \E backup, dry \in BOOLEAN : Start(backup, dry)
    \/ Pick \/ BackupBegin \/ BackupEnd
    \/ LeaveAlone \/ WriteBegin \/ WriteEnd
    \/ Processed \/ Verify \/ Interrupted

Spec == StlInit /\ [][Next]_vars

-----------------------------------------------------------------------------
(***************************************************************************)
(* Properties.                                                             *)
(***************************************************************************)

\* A run that makes backups can be undone, however it ended: what a file
\* held when the run began is still in the file or whole in the backup.
Undoable ==
    run.backup => \A f \in DOMAIN file : start[f] \in {file[f], saved[f]}

\* What loaded when the run began and does not now.
Lost == {f \in DOMAIN file : Loads(First(f)) /\ ~Loads(Kind(f))}

\* A dry run writes nothing.  In another, a mesh that loads is not touched
\* unless its header begins with "solid"; if it does, the rewritten one loads,
\* too.  So what loaded is lost only while it is written, or to a run that broke
\* off there, one mesh to a run at most.
Harmless ==
    /\ run.dry => file = start
    /\ \A f \in DOMAIN file : Loads(First(f)) /\ file[f] # start[f] => Solid(First(f))
    /\ \A f, g \in Lost : f = g
    /\ \A f \in Lost : (run.stage = "writing" /\ cur = f) \/ run.exit = "broken"

\* A run that goes through leaves each mesh in a form it would not rewrite
\* again and MuJoCo loads, or there is a cause it could not mend: the file was
\* unreadable or cut short before, and is untouched; it has, as before, too few
\* faces for MuJoCo; or a decimation stopped above the limit.
FailureExplained ==
    (run.stage = "shell" /\ run.exit \in {"loads", "failed"}) =>
        \A f \in Selected :
            \/ Loads(Kind(f)) /\ ~Solid(Kind(f))
            \/ run.exit = "failed" /\ ~Kind(f).whole /\ file[f] = start[f]
            \/ run.exit = "failed" /\ Kind(f).faces = First(f).faces
                 /\ Kind(f).faces \in {"few", "over"}

\* --backup's help: "backup originals here".  Once a file is rewritten, the
\* author's version in the backup is the only one left, and would stay there;
\* the next run copies the rewritten file over it.
OriginalKept ==
    [][\A f \in DOMAIN file :
         (file[f][2] > 0 /\ saved[f] \in Kinds \X {0}) => saved'[f] = saved[f]]_vars
=============================================================================
