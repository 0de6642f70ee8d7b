----------------------------- MODULE Generators -----------------------------
(***************************************************************************)
(* The four generators under internal/cmd, at the points where they touch  *)
(* the repository.  protogen brings the generated files under api/ in line *)
(* with the compiler's output, file by file in the order of their names;   *)
(* configgen, modulegen and docsgen each write one file.  All of them go   *)
(* through a writeAtomic of their own.  A file operation can fail, the     *)
(* process can be killed between any two of them, and the generators are   *)
(* run again in any order, perhaps after their sources have changed.       *)
(***************************************************************************)
EXTENDS Naturals

CONSTANTS Protos,   \* bound on the files of protogen: 1 .. Protos in the order of their names
          Version,  \* contents a generator can produce for a file
          MaxRuns   \* bound on the runs

ASSUME GeneratorsAssumption ==
  /\ Protos \in Nat \ {0} /\ MaxRuns \in Nat
  /\ Version \cap {"absent", "hand", "torn"} = {}

Tools == {"protogen", "configgen", "modulegen", "docsgen"}
Proto == 1 .. Protos
File == 1 .. Protos + 3

VARIABLES tool,    \* the generator that runs
          disk,    \* disk[f]: "absent", "hand" (not generated), "torn", or a version
          next,    \* next[f]: what the tool wants f to be, "absent" for nothing
          current, \* the generated files protogen found under api/
          at,      \* the file it is about
          pc,
          temp,    \* the temporary file: "none", "empty", "whole"
          litter,  \* the tools that left a temporary file behind, still empty
          runs,
          before,  \* history: the disk when the run began
          killed   \* history: a run was killed

vars == <<tool, disk, next, current, at, pc, temp, litter, runs, before, killed>>

Outputs(t) == CASE t = "protogen"  -> Proto
                [] t = "configgen" -> {Protos + 1}
                [] t = "modulegen" -> {Protos + 2}
                [] t = "docsgen"   -> {Protos + 3}

Contents == Version \cup {"absent", "hand", "torn"}

TypeOK ==
  /\ tool \in Tools
  /\ disk \in [File -> Contents] /\ before \in [File -> Contents]
  /\ next \in [Outputs(tool) -> Version \cup {"absent"}]
  /\ current \subseteq Proto
  /\ at \in 1 .. Protos + 3
  /\ pc \in {"stopped", "generate", "sync", "loop", "check", "change", "write",
             "rename", "done", "failed", "killed"}
  /\ temp \in {"none", "empty", "whole"}
  /\ litter \subseteq Tools /\ runs \in 0 .. MaxRuns /\ killed \in BOOLEAN

Init ==
  /\ tool = "configgen"
  /\ disk \in [File -> Version \cup {"absent", "hand"}]
  /\ \A f \in File : disk[f] = "hand" => f \in Proto
  /\ next = [f \in Outputs("configgen") |-> "absent"]
  /\ current = {} /\ at = 1 /\ pc = "stopped" /\ temp = "none" /\ litter = {} /\ runs = 0
  /\ before = disk /\ killed = FALSE
-----------------------------------------------------------------------------
(* A run up to the moment when it knows what the files shall be. *)

Start ==
  /\ pc \in {"stopped", "done", "failed", "killed"} /\ runs < MaxRuns
  /\ tool' \in Tools
  /\ next' = [f \in Outputs(tool') |-> "absent"]
  /\ before' = disk
  /\ pc' = "generate" /\ at' = 1 /\ runs' = runs + 1 /\ current' = {}
  /\ UNCHANGED <<disk, temp, litter, killed>>

\* Broken variant: the temporary file of a failed run is not removed.
LitterOfFailure_Kept == IF temp = "empty" THEN litter \cup {tool} ELSE litter
\* The deferred Remove.
LitterOfFailure == litter

Fail == /\ pc' = "failed" /\ temp' = "none"
        /\ litter' = LitterOfFailure
        /\ UNCHANGED <<tool, disk, next, current, at, runs, before, killed>>

\* The tool makes contents of its sources without touching a destination, or fails.
Generate(contents, readable) ==
  /\ pc = "generate"
  /\ \/ /\ readable
        /\ next' \in [Outputs(tool) -> contents]
        /\ IF tool = "protogen" THEN pc' = "sync" /\ UNCHANGED at
           ELSE pc' = "change" /\ at' \in Outputs(tool)
        /\ UNCHANGED <<tool, disk, current, temp, litter, runs, before, killed>>
     \/ Fail

\* loadPackages parses every .go file below internal/ but those that end in .gen.go:
\* the temporary files of configgen and modulegen too, and an empty file does not parse.
SourcesParse == litter \cap {"configgen", "modulegen"} = {}

ConfiggenRun == tool = "configgen" /\ Generate(Version, TRUE)
ModulegenRun == tool = "modulegen" /\ Generate(Version, TRUE)
DocsgenRun   == tool = "docsgen"   /\ Generate(Version, SourcesParse)
\* protoc may have nothing to say of a file, or of any.
ProtogenRun  == tool = "protogen"  /\ Generate(Version \cup {"absent"}, TRUE)
-----------------------------------------------------------------------------
(* syncGenerated of protogen. *)

\* The layout of the output is validated and both directories are read.
Sync ==
  /\ pc = "sync"
  /\ \/ /\ current' = {f \in Proto : disk[f] \in Version}
        /\ pc' = "loop"
        /\ UNCHANGED <<tool, disk, next, at, temp, litter, runs, before, killed>>
     \/ Fail

\* Broken variant: only what the compiler produced is looked at.
Names_OfOutput == {f \in Proto : next[f] # "absent"}
Names == current \cup {f \in Proto : next[f] # "absent"}

Loop ==
  /\ pc = "loop"
  /\ IF at \notin Proto THEN pc' = "done" /\ UNCHANGED at
     ELSE IF at \in Names THEN pc' = "check" /\ UNCHANGED at
     ELSE at' = at + 1 /\ UNCHANGED pc
  /\ UNCHANGED <<tool, disk, next, current, temp, litter, runs, before, killed>>

Replaceable(f) == disk[f] # "hand"

Check ==
  /\ pc = "check"
  /\ IF Replaceable(at)
     THEN /\ pc' = "change"
          /\ UNCHANGED <<tool, disk, next, current, at, temp, litter, runs, before, killed>>
     ELSE Fail

\* The file is as it shall be.
Advance == IF tool = "protogen" THEN pc' = "loop" /\ at' = at + 1
           ELSE pc' = "done" /\ UNCHANGED at

RemoveStale ==
  /\ pc = "change" /\ next[at] = "absent"
  /\ \/ /\ disk' = [disk EXCEPT ![at] = "absent"]
        /\ Advance
        /\ UNCHANGED <<tool, next, current, temp, litter, runs, before, killed>>
     \/ Fail
-----------------------------------------------------------------------------
(* showDiff, which only reads, and writeAtomic. *)

Skip ==
  /\ pc = "change" /\ disk[at] = next[at]
  /\ \/ /\ Advance
        /\ UNCHANGED <<tool, disk, next, current, temp, litter, runs, before, killed>>
     \/ Fail

\* A temporary file beside the destination, or the file cannot be read or created.
OpenTemp ==
  /\ pc = "change" /\ next[at] # "absent"
  /\ \/ /\ temp' = "empty" /\ pc' = "write"
        /\ UNCHANGED <<tool, disk, next, current, at, litter, runs, before, killed>>
     \/ Fail

\* Broken variant: the destination itself is opened for writing.
DuringWrite_InPlace == disk' = [disk EXCEPT ![at] = "torn"]
DuringWrite == UNCHANGED disk

Write ==
  /\ pc = "write"
  /\ \/ /\ DuringWrite
        /\ temp' = "whole" /\ pc' = "rename"
        /\ UNCHANGED <<tool, next, current, at, litter, runs, before, killed>>
     \/ Fail

Rename ==
  /\ pc = "rename"
  /\ \/ /\ disk' = [disk EXCEPT ![at] = next[at]]
        /\ temp' = "none"
        /\ Advance
        /\ UNCHANGED <<tool, next, current, litter, runs, before, killed>>
     \/ Fail

Replace == OpenTemp \/ Write \/ Rename
ReplaceChanged == Skip \/ (Replace /\ disk[at] # next[at])

ProtogenWrites  == tool = "protogen"  /\ ReplaceChanged
ModulegenWrites == tool = "modulegen" /\ ReplaceChanged
DocsgenWrites   == tool = "docsgen"   /\ ReplaceChanged
ConfiggenWrites == tool = "configgen" /\ Replace   \* also when nothing has changed

\* Killed: deferred calls do not run and the temporary file stays.
Kill ==
  /\ pc \notin {"stopped", "done", "failed", "killed"}
  /\ pc' = "killed" /\ temp' = "none" /\ killed' = TRUE
  /\ litter' = IF temp = "empty" THEN litter \cup {tool} ELSE litter
  /\ UNCHANGED <<tool, disk, next, current, at, runs, before>>

Idle == runs = MaxRuns /\ pc \in {"done", "failed", "killed"} /\ UNCHANGED vars

Next == \/ Start \/ ConfiggenRun \/ ModulegenRun \/ DocsgenRun \/ ProtogenRun
        \/ Sync \/ Loop \/ Check \/ RemoveStale
        \/ ProtogenWrites \/ ModulegenWrites \/ DocsgenWrites \/ ConfiggenWrites
        \/ Kill \/ Idle

Spec == Init /\ [][Next]_vars
-----------------------------------------------------------------------------
(***************************************************************************)
(* Whenever a generator dies, every file is whole: what it was before the  *)
(* run or what the run made of it (writeAtomic, protogen/main.go:215-234,  *)
(* and its copies in the other generators).  A file under api/ that protoc *)
(* did not generate stays (protogen/main.go:178-180), whatever was killed  *)
(* or failed before; the other generators own their one file.              *)
(***************************************************************************)
FilesAreWhole ==
  \A f \in File : \/ disk[f] = before[f]
                  \/ (f \in Outputs(tool) /\ disk[f] = next[f] /\ before[f] # "hand")

(***************************************************************************)
(* A run that reports success leaves exactly what was generated, however   *)
(* an earlier run ended (protogen/main.go:165-197): stale files are gone.  *)
(***************************************************************************)
SuccessIsInSync ==
  pc = "done" => \A f \in Outputs(tool) :
                    disk[f] = next[f] \/ (disk[f] = "hand" /\ next[f] = "absent")

(***************************************************************************)
(* A run that fails leaves nothing behind that a later run of another      *)
(* generator stumbles over (the deferred Remove of each writeAtomic, e.g.  *)
(* modulegen/main.go:415, and docsgen/main.go:205, which parses whatever   *)
(* Go file lies below internal/).  Only a kill can.                        *)
(***************************************************************************)
OnlyKillsBlockDocsgen == ~SourcesParse => killed

(***************************************************************************)
(* protogen/main.go:153: destinations are validated before existing files  *)
(* are modified.  A run that ends because a destination is not a generated *)
(* file has modified nothing.                                              *)
(***************************************************************************)
RefusalModifiesNothing ==
  [][pc = "check" /\ pc' = "failed" => disk' = before]_vars
-----------------------------------------------------------------------------
(***************************************************************************)
(* The inductive invariant of the proofs.                                  *)
(***************************************************************************)
\* Only protogen goes through a list of files, and a file it changes may be replaced.
Phases ==
  /\ pc \in {"sync", "loop", "check"} => tool = "protogen"
  /\ pc \in {"change", "write", "rename"} => at \in Outputs(tool) /\ disk[at] # "hand"
  /\ pc = "check" => at \in Proto
  /\ pc \in {"generate", "sync"} => at = 1

\* Nobody writes in place, and the files of the other tools are all generated.
DiskIsSound == \A f \in File : disk[f] # "torn" /\ (disk[f] = "hand" => f \in Proto)

\* What the run has not come to is as it was.
Ahead(f) == tool = "protogen" => at <= f
ToCome(f) == \/ pc \in {"generate", "sync"}
             \/ /\ pc \in {"loop", "check", "change", "write", "rename"}
                /\ f \in Outputs(tool) => Ahead(f)
Untouched == \A f \in File : ToCome(f) => disk[f] = before[f]

\* What it has behind it is as generated.
InSync(f) == disk[f] = next[f] \/ (disk[f] = "hand" /\ next[f] = "absent")
Synced ==
  /\ pc \in {"loop", "check", "change", "write", "rename"} /\ tool = "protogen" =>
       /\ current = {f \in Proto : before[f] \in Version}
       /\ \A f \in Proto : f < at => InSync(f)
  /\ pc = "done" => \A f \in Outputs(tool) : InSync(f)

LitterOfKills == litter # {} => killed

GeneratorsInv == /\ TypeOK /\ Phases /\ DiskIsSound /\ Untouched /\ Synced /\ LitterOfKills
                 /\ FilesAreWhole
=============================================================================
