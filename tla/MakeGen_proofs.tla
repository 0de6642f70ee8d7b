--------------------------- MODULE MakeGen_proofs ---------------------------
(***************************************************************************)
(* Machine-checked proofs about the generators as make gen runs them, for  *)
(* any number of files, contents and runs, and about the documents docsgen *)
(* infers, for any routes, handlers and types, and the modules modulegen   *)
(* wires.  The inductive invariants are GeneratorsInv of Generators, for   *)
(* the files; HandlerInv of HandlerDocs, for the responses and the         *)
(* schemas; RoutesInv of RouteDocs, for the paths; WiringInv of            *)
(* ModuleWiring, for the modules; and QueryInv of QueryDocs, for the query *)
(* parameters.                                                             *)
(***************************************************************************)
EXTENDS MakeGen, FiniteSetTheorems, SequenceTheorems, WellFoundedInduction, TLAPS

(***************************************************************************)
(* protogen owns the files under api/, the others one file each.           *)
(***************************************************************************)
LEMMA OutputsAre ==
  /\ Outputs("protogen") = Proto
  /\ \A t \in Tools : Outputs(t) \subseteq File
  /\ \A t \in Tools \ {"protogen"} : \E f \in File \ Proto : Outputs(t) = {f}
  /\ Proto \subseteq File
<1>1. Outputs("protogen") = Proto
  BY DEF Outputs
<1>2. /\ Outputs("configgen") = {Protos + 1} /\ Outputs("modulegen") = {Protos + 2}
      /\ Outputs("docsgen") = {Protos + 3}
  BY DEF Outputs
<1>3. /\ {Protos + 1, Protos + 2, Protos + 3} \subseteq File \ Proto
      /\ Proto \subseteq File
  BY GeneratorsAssumption DEF File, Proto
<1>4. QED
  BY <1>1, <1>2, <1>3 DEF Tools

(***************************************************************************)
(* A tool's list of files ends where the walk ends.                        *)
(***************************************************************************)
LEMMA FilesAreNumbers ==
  /\ File \subseteq Nat /\ Proto = {f \in File : f <= Protos} /\ Protos \in Nat
  /\ File = 1 .. Protos + 3 /\ Proto = 1 .. Protos
BY GeneratorsAssumption DEF File, Proto

LEMMA InitGeneratorsInv == MakeGenInit => GeneratorsInv
<1> SUFFICES ASSUME MakeGenInit PROVE GeneratorsInv
  OBVIOUS
<1>1. Init
  BY DEF MakeGenInit
<1>2. "configgen" \in Tools /\ Outputs("configgen") \subseteq File
  BY OutputsAre DEF Tools
<1>3. TypeOK
  <2>1. disk \in [File -> Contents] /\ before \in [File -> Contents]
    BY <1>1 DEF Init, Contents
  <2>2. next \in [Outputs(tool) -> Version \cup {"absent"}]
    BY <1>1 DEF Init
  <2>3. at \in 1 .. Protos + 3 /\ runs \in 0 .. MaxRuns
    BY <1>1, GeneratorsAssumption DEF Init
  <2>4. QED
    BY <1>1, <1>2, <2>1, <2>2, <2>3 DEF Init, TypeOK
<1>4. DiskIsSound
  <2>1. disk \in [File -> Version \cup {"absent", "hand"}]
        /\ \A f \in File : disk[f] = "hand" => f \in Proto
    BY <1>1 DEF Init
  <2>2. QED
    BY <2>1, GeneratorsAssumption DEF DiskIsSound
<1>5. Phases /\ Untouched /\ Synced /\ LitterOfKills /\ FilesAreWhole
  BY <1>1 DEF Init, Phases, Untouched, ToCome, Synced, LitterOfKills, FilesAreWhole
<1>6. QED
  BY <1>3, <1>4, <1>5 DEF GeneratorsInv

(***************************************************************************)
(* A run that ends without touching the disk, as failed or killed.         *)
(***************************************************************************)
LEMMA EndingKeepsInv ==
  ASSUME GeneratorsInv, pc' \in {"failed", "killed"}, temp' = "none", litter' \in SUBSET Tools,
         killed' \in BOOLEAN, litter' # {} => killed',
         UNCHANGED <<tool, disk, next, current, at, runs, before>>
  PROVE  GeneratorsInv'
<1>1. TypeOK'
  BY DEF GeneratorsInv, TypeOK, Outputs, Contents, File, Proto, Tools
<1>2. DiskIsSound' /\ FilesAreWhole'
  BY DEF GeneratorsInv, DiskIsSound, FilesAreWhole, Outputs
<1>3. Phases' /\ Untouched' /\ Synced' /\ LitterOfKills'
  BY DEF Phases, Untouched, ToCome, Synced, LitterOfKills
<1>4. QED
  BY <1>1, <1>2, <1>3 DEF GeneratorsInv

(***************************************************************************)
(* A step inside a run that leaves the disk and the plan alone.            *)
(***************************************************************************)
LEMMA Ending ==
  ASSUME GeneratorsInv, Fail
  PROVE  GeneratorsInv'
BY EndingKeepsInv DEF Fail, LitterOfFailure, GeneratorsInv, TypeOK, LitterOfKills

LEMMA StartKeepsInv ==
  ASSUME GeneratorsInv, Start
  PROVE  GeneratorsInv'
<1>1. /\ TypeOK /\ tool' \in Tools /\ next' = [f \in Outputs(tool') |-> "absent"] /\ before' = disk
      /\ pc' = "generate" /\ at' = 1 /\ runs' = runs + 1 /\ runs < MaxRuns /\ current' = {}
      /\ UNCHANGED <<disk, temp, litter, killed>>
  BY DEF Start, GeneratorsInv
<1>2. PICK t \in Tools : t = tool'
  BY <1>1
<1>3. next' \in [Outputs(t) -> Version \cup {"absent"}]
  BY <1>1, <1>2
<1>4. TypeOK'
  <2>1. Outputs(t) = Outputs(tool)'
    BY <1>2 DEF Outputs, Proto
  <2>2. at' \in 1 .. Protos + 3 /\ runs' \in 0 .. MaxRuns
    BY <1>1, GeneratorsAssumption DEF TypeOK
  <2>3. QED
    BY <1>1, <1>2, <1>3, <2>1, <2>2 DEF TypeOK
<1>5. DiskIsSound' /\ LitterOfKills'
  BY <1>1 DEF GeneratorsInv, DiskIsSound, LitterOfKills
<1>6. Phases' /\ Untouched' /\ Synced' /\ FilesAreWhole'
  BY <1>1 DEF Phases, Untouched, Synced, FilesAreWhole
<1>7. QED
  BY <1>4, <1>5, <1>6 DEF GeneratorsInv

LEMMA GenerateKeepsInv ==
  ASSUME GeneratorsInv, NEW contents \in {Version, Version \cup {"absent"}}, NEW readable,
         Generate(contents, readable)
  PROVE  GeneratorsInv'
<1>1. CASE Fail
  BY <1>1, Ending
<1>2. CASE ~Fail
  <2>1. /\ TypeOK /\ pc = "generate" /\ next' \in [Outputs(tool) -> contents]
        /\ IF tool = "protogen" THEN pc' = "sync" /\ at' = at
           ELSE pc' = "change" /\ at' \in Outputs(tool)
        /\ UNCHANGED <<tool, disk, current, temp, litter, runs, before, killed>>
    BY <1>2 DEF Generate, GeneratorsInv
  <2>2. PICK t \in Tools : t = tool /\ Outputs(t) = Outputs(tool)
    BY <2>1 DEF TypeOK
  <2>3. Outputs(t) = Outputs(tool)' /\ Outputs(t) \subseteq File
        /\ (t # "protogen" => \E f \in File \ Proto : Outputs(t) = {f})
    BY <2>1, <2>2, OutputsAre DEF Outputs, Proto
  <2>4. \A f \in File : disk[f] = before[f]
    BY <2>1 DEF GeneratorsInv, Untouched, ToCome
  <2>5. TypeOK'
    <3>1. next' \in [Outputs(t) -> Version \cup {"absent"}] /\ at' \in File
      BY <2>1, <2>2, <2>3, FilesAreNumbers DEF TypeOK
    <3>2. QED
      BY <2>1, <2>2, <2>3, <3>1, FilesAreNumbers DEF TypeOK
  <2>6. Phases' /\ DiskIsSound'
    BY <2>1, <2>2, <2>3 DEF GeneratorsInv, Phases, DiskIsSound
  <2>7. Untouched' /\ LitterOfKills' /\ FilesAreWhole'
    BY <2>1, <2>4 DEF GeneratorsInv, Untouched, LitterOfKills, FilesAreWhole
  <2>8. Synced'
    BY <2>1 DEF Synced
  <2>9. QED
    BY <2>5, <2>6, <2>7, <2>8 DEF GeneratorsInv
<1>3. QED
  BY <1>1, <1>2

(***************************************************************************)
(* The walk of protogen.                                                   *)
(***************************************************************************)
LEMMA SyncKeepsInv ==
  ASSUME GeneratorsInv, Sync
  PROVE  GeneratorsInv'
<1>1. CASE Fail
  BY <1>1, Ending
<1>2. CASE ~Fail
  <2>1. /\ TypeOK /\ pc = "sync" /\ tool = "protogen"
        /\ current' = {f \in Proto : disk[f] \in Version}
        /\ pc' = "loop"
        /\ UNCHANGED <<tool, disk, next, at, temp, litter, runs, before, killed>>
    BY <1>2 DEF Sync, GeneratorsInv, Phases
  <2>2. \A f \in File : disk[f] = before[f]
    BY <2>1 DEF GeneratorsInv, Untouched, ToCome
  <2>3. TypeOK'
    BY <2>1 DEF TypeOK, Outputs
  <2>4. Phases' /\ DiskIsSound' /\ Untouched' /\ LitterOfKills' /\ FilesAreWhole'
    BY <2>1, <2>2
       DEF GeneratorsInv, Phases, DiskIsSound, Untouched, LitterOfKills, FilesAreWhole
  <2>5. Synced'
    <3>1. at = 1 /\ \A f \in Proto : f >= 1
      BY <2>1, FilesAreNumbers DEF GeneratorsInv, Phases
    <3>2. \A f \in Proto : disk[f] = before[f]
      BY <2>2, OutputsAre
    <3>3. QED
      BY <2>1, <3>1, <3>2, FilesAreNumbers DEF Synced
  <2>6. QED
    BY <2>3, <2>4, <2>5 DEF GeneratorsInv
<1>3. QED
  BY <1>1, <1>2

LEMMA LoopKeepsInv ==
  ASSUME GeneratorsInv, Loop
  PROVE  GeneratorsInv'
<1>1. /\ TypeOK /\ pc = "loop" /\ tool = "protogen" /\ at \in Nat /\ Outputs(tool) = Proto
      /\ UNCHANGED <<tool, disk, next, current, temp, litter, runs, before, killed>>
  BY OutputsAre, FilesAreNumbers DEF Loop, GeneratorsInv, Phases, TypeOK
<1>2. /\ current = {f \in Proto : before[f] \in Version}
      /\ \A f \in Proto : f < at => InSync(f)
      /\ \A f \in File : ToCome(f) => disk[f] = before[f]
  BY <1>1 DEF GeneratorsInv, Synced, Untouched
<1>3. \A f : InSync(f)' = InSync(f)
  BY <1>1 DEF InSync
<1>4. DiskIsSound' /\ LitterOfKills' /\ FilesAreWhole' /\ Outputs(tool)' = Proto
  BY <1>1 DEF GeneratorsInv, DiskIsSound, LitterOfKills, FilesAreWhole, Outputs
<1>5. CASE at \notin Proto
  <2>1. pc' = "done" /\ at' = at
    BY <1>1, <1>5 DEF Loop
  <2>2. TypeOK' /\ Phases' /\ Untouched'
    BY <1>1, <1>4, <2>1 DEF TypeOK, Phases, Untouched, ToCome
  <2>3. at >= 1 /\ at > Protos
    BY <1>1, <1>5, FilesAreNumbers DEF TypeOK
  <2>4. Synced'
    BY <1>1, <1>2, <1>3, <1>4, <2>1, <2>3, FilesAreNumbers DEF Synced
  <2>5. QED
    BY <1>4, <2>2, <2>4 DEF GeneratorsInv
<1>6. CASE at \in Proto /\ at \in Names
  <2>1. pc' = "check" /\ at' = at
    BY <1>1, <1>6 DEF Loop
  <2>2. TypeOK' /\ Phases'
    BY <1>1, <1>4, <1>6, <2>1 DEF TypeOK, Phases
  <2>3. Untouched'
    BY <1>1, <1>2, <1>4, <2>1 DEF Untouched, ToCome, Ahead
  <2>4. Synced'
    BY <1>1, <1>2, <1>3, <2>1 DEF Synced
  <2>5. QED
    BY <1>4, <2>2, <2>3, <2>4 DEF GeneratorsInv
<1>7. CASE at \in Proto /\ at \notin Names
  <2>1. pc' = "loop" /\ at' = at + 1
    BY <1>1, <1>7 DEF Loop
  <2>2. TypeOK' /\ Phases'
    BY <1>1, <1>4, <1>7, <2>1, FilesAreNumbers DEF TypeOK, Phases
  <2>3. Untouched'
    BY <1>1, <1>2, <1>4, <2>1, FilesAreNumbers DEF Untouched, ToCome, Ahead
  <2>4. InSync(at)
    <3>1. next[at] = "absent" /\ before[at] \notin Version
      BY <1>2, <1>7 DEF Names
    <3>2. at \in File /\ disk[at] = before[at]
      BY <1>1, <1>2, <1>7, OutputsAre, FilesAreNumbers DEF ToCome, Ahead
    <3>3. disk[at] \in {"absent", "hand"}
      BY <1>1, <3>1, <3>2 DEF GeneratorsInv, DiskIsSound, TypeOK, Contents
    <3>4. QED
      BY <3>1, <3>3 DEF InSync
  <2>5. Synced'
    BY <1>1, <1>2, <1>3, <2>1, <2>4, FilesAreNumbers DEF Synced
  <2>6. QED
    BY <1>4, <2>2, <2>3, <2>5 DEF GeneratorsInv
<1>8. QED
  BY <1>5, <1>6, <1>7

(***************************************************************************)
(* A step that keeps the file the run is about for what is to come.        *)
(***************************************************************************)
LEMMA ApproachKeepsInv ==
  ASSUME GeneratorsInv, pc \in {"check", "change", "write"}, pc' \in {"change", "write", "rename"},
         at \in Outputs(tool), disk[at] # "hand", temp' \in {"none", "empty", "whole"},
         UNCHANGED <<tool, disk, next, current, at, litter, runs, before, killed>>
  PROVE  GeneratorsInv'
<1>1. TypeOK /\ Outputs(tool)' = Outputs(tool)
  BY DEF GeneratorsInv, Outputs
<1>2. TypeOK' /\ Phases' /\ DiskIsSound' /\ LitterOfKills' /\ FilesAreWhole'
  BY <1>1 DEF GeneratorsInv, TypeOK, Phases, DiskIsSound, LitterOfKills, FilesAreWhole
<1>3. Untouched'
  BY <1>1 DEF GeneratorsInv, Untouched, ToCome, Ahead
<1>4. Synced'
  BY <1>1 DEF GeneratorsInv, Synced, InSync
<1>5. QED
  BY <1>2, <1>3, <1>4 DEF GeneratorsInv

(***************************************************************************)
(* A file gets what was generated for it, and the run goes on to the next. *)
(***************************************************************************)
LEMMA AdvanceKeepsInv ==
  ASSUME GeneratorsInv, pc \in {"change", "rename"}, Advance, temp' \in {"none", "empty", "whole"},
         disk' = [disk EXCEPT ![at] = next[at]],
         UNCHANGED <<tool, next, current, litter, runs, before, killed>>
  PROVE  GeneratorsInv'
<1>1. /\ TypeOK /\ at \in Outputs(tool) /\ disk[at] # "hand" /\ Outputs(tool) \subseteq File
      /\ Outputs(tool)' = Outputs(tool) /\ at \in File /\ at \in Nat
  BY OutputsAre, FilesAreNumbers DEF GeneratorsInv, Phases, TypeOK, Outputs
<1>2. disk[at] = before[at]
  BY <1>1 DEF GeneratorsInv, Untouched, ToCome, Ahead
<1>3. /\ disk'[at] = next[at] /\ \A f \in File \ {at} : disk'[f] = disk[f]
      /\ disk' \in [File -> Contents] /\ next[at] \in Version \cup {"absent"}
  BY <1>1 DEF TypeOK, Contents
<1>4. DiskIsSound' /\ LitterOfKills'
  BY <1>1, <1>3, GeneratorsAssumption DEF GeneratorsInv, DiskIsSound, LitterOfKills
<1>5. FilesAreWhole'
  BY <1>1, <1>2, <1>3 DEF GeneratorsInv, FilesAreWhole
<1>0. PICK here : here = at
  OBVIOUS
<1>6. /\ InSync(here)'
      /\ \A f \in File \ {here} : InSync(f)' = InSync(f)
  BY <1>0, <1>1, <1>3 DEF InSync
<1>7. CASE tool = "protogen"
  <2>1. pc' = "loop" /\ at' = at + 1 /\ Outputs(tool) = Proto
    BY <1>7, OutputsAre DEF Advance
  <2>2. TypeOK' /\ Phases'
    BY <1>1, <1>3, <1>7, <2>1, FilesAreNumbers DEF TypeOK, Phases
  <2>3. Untouched'
    <3>1. ASSUME NEW f \in File, f \in Proto => at + 1 <= f PROVE disk'[f] = before[f]
      <4>1. f # at /\ (f \in Proto => at <= f)
        BY <1>1, <2>1, <3>1, FilesAreNumbers
      <4>2. QED
        BY <1>1, <1>3, <2>1, <4>1 DEF GeneratorsInv, Untouched, ToCome, Ahead
    <3>2. QED
      BY <1>1, <1>7, <2>1, <3>1 DEF Untouched, ToCome, Ahead
  <2>4. Synced'
    <3>1. ASSUME NEW f \in Proto, f < at + 1 PROVE InSync(f)'
      <4>1. f \in File /\ (f = here \/ f < at)
        BY <1>0, <1>1, <3>1, FilesAreNumbers
      <4>2. QED
        BY <1>6, <1>7, <4>1 DEF GeneratorsInv, Synced
    <3>2. current = {f \in Proto : before[f] \in Version}
      BY <1>7 DEF GeneratorsInv, Synced
    <3>3. QED
      BY <2>1, <3>1, <3>2 DEF Synced
  <2>5. QED
    BY <1>4, <1>5, <2>2, <2>3, <2>4 DEF GeneratorsInv
<1>8. CASE tool # "protogen"
  <2>1. pc' = "done" /\ at' = at
    BY <1>8 DEF Advance
  <2>2. TypeOK' /\ Phases' /\ Untouched'
    BY <1>1, <1>3, <1>8, <2>1 DEF TypeOK, Phases, Untouched, ToCome
  <2>3. \E f \in File : Outputs(tool) = {f}
    BY <1>1, <1>8, OutputsAre DEF TypeOK
  <2>4. Synced'
    BY <1>0, <1>1, <1>6, <2>1, <2>3 DEF Synced
  <2>5. QED
    BY <1>4, <1>5, <2>2, <2>4 DEF GeneratorsInv
<1>9. QED
  BY <1>7, <1>8

LEMMA WriterKeepsInv ==
  ASSUME GeneratorsInv, RemoveStale \/ Skip \/ Replace
  PROVE  GeneratorsInv'
<1>0. TypeOK /\ Phases
  BY DEF GeneratorsInv
<1>1. CASE Fail
  BY <1>1, Ending
<1>2. CASE RemoveStale /\ ~Fail
  BY <1>0, <1>2, AdvanceKeepsInv DEF RemoveStale, TypeOK
<1>3. CASE Skip /\ ~Fail
  <2>1. disk' = [disk EXCEPT ![at] = next[at]]
    BY <1>0, <1>3 DEF Skip, TypeOK
  <2>2. QED
    BY <1>0, <1>3, <2>1, AdvanceKeepsInv DEF Skip, TypeOK
<1>4. CASE OpenTemp /\ ~Fail
  BY <1>0, <1>4, ApproachKeepsInv DEF OpenTemp, Phases
<1>5. CASE Write /\ ~Fail
  BY <1>0, <1>5, ApproachKeepsInv DEF Write, DuringWrite, Phases
<1>6. CASE Rename /\ ~Fail
  BY <1>0, <1>6, AdvanceKeepsInv DEF Rename
<1>7. QED
  BY <1>1, <1>2, <1>3, <1>4, <1>5, <1>6 DEF Replace

LEMMA NextGeneratorsInv ==
  ASSUME GeneratorsInv, Next
  PROVE  GeneratorsInv'
<1>0. TypeOK /\ Phases
  BY DEF GeneratorsInv
<1>1. CASE Start
  BY <1>1, StartKeepsInv
<1>2. CASE ConfiggenRun \/ ModulegenRun \/ DocsgenRun \/ ProtogenRun
  BY <1>2, GenerateKeepsInv DEF ConfiggenRun, ModulegenRun, DocsgenRun, ProtogenRun
<1>3. CASE Sync \/ Loop
  BY <1>3, SyncKeepsInv, LoopKeepsInv
<1>4. CASE Check
  <2>1. CASE Fail
    BY <2>1, Ending
  <2>2. CASE ~Fail
    <3>1. tool = "protogen" /\ at \in Outputs(tool)
      BY <1>0, <1>4, OutputsAre DEF Check, Phases
    <3>2. QED
      BY <1>0, <1>4, <2>2, <3>1, ApproachKeepsInv DEF Check, Replaceable, TypeOK
  <2>3. QED
    BY <2>1, <2>2
<1>5. CASE RemoveStale \/ ProtogenWrites \/ ModulegenWrites \/ DocsgenWrites \/ ConfiggenWrites
  BY <1>5, WriterKeepsInv
     DEF ProtogenWrites, ModulegenWrites, DocsgenWrites, ConfiggenWrites, ReplaceChanged
<1>6. CASE Kill
  BY <1>0, <1>6, EndingKeepsInv DEF Kill, TypeOK
<1>7. CASE Idle
  <2>1. UNCHANGED vars
    BY <1>7 DEF Idle
  <2>2. GeneratorsInv' <=> GeneratorsInv
    BY <2>1 DEF vars, GeneratorsInv, TypeOK, Contents, Phases, DiskIsSound, Untouched, ToCome,
                Ahead, Synced, InSync, LitterOfKills, FilesAreWhole, Outputs, File, Proto, Tools
  <2>3. QED
    BY <2>2
<1>8. QED
  BY <1>1, <1>2, <1>3, <1>4, <1>5, <1>6, <1>7 DEF Next

LEMMA AlwaysGeneratorsInv == MakeGenSpec => []GeneratorsInv
<1>1. ASSUME UNCHANGED vars PROVE GeneratorsInv' <=> GeneratorsInv
  BY <1>1 DEF vars, GeneratorsInv, TypeOK, Contents, Phases, DiskIsSound, Untouched, ToCome, Ahead,
              Synced, InSync, LitterOfKills, FilesAreWhole, Outputs, File, Proto, Tools
<1>2. ASSUME GeneratorsInv, [MakeGenNext]_makeGenVars PROVE GeneratorsInv'
  <2>1. Next \/ UNCHANGED vars
    BY <1>2 DEF MakeGenNext, makeGenVars, Files, Wiring, Routes, Query, Handlers, Ended
  <2>2. QED
    BY <1>1, <1>2, <2>1, NextGeneratorsInv
<1>3. QED
  BY <1>2, InitGeneratorsInv, PTL DEF MakeGenSpec

(***************************************************************************)
(* However a generator ends, and whatever ended earlier ones, every file   *)
(* is what it was or what the run made of it, and no file protoc did not   *)
(* generate is touched.                                                    *)
(***************************************************************************)
THEOREM NoFileIsTorn == MakeGenSpec => []FilesAreWhole
<1>1. GeneratorsInv => FilesAreWhole
  BY DEF GeneratorsInv
<1>2. QED
  BY <1>1, AlwaysGeneratorsInv, PTL

(***************************************************************************)
(* A run that reports success has left exactly what was generated.         *)
(***************************************************************************)
THEOREM SuccessMeansInSync == MakeGenSpec => []SuccessIsInSync
<1>1. GeneratorsInv => SuccessIsInSync
  BY DEF GeneratorsInv, Synced, InSync, SuccessIsInSync
<1>2. QED
  BY <1>1, AlwaysGeneratorsInv, PTL

(***************************************************************************)
(* No failure, only a kill, leaves a file that keeps docsgen from working. *)
(***************************************************************************)
THEOREM FailuresBlockNoOne == MakeGenSpec => []OnlyKillsBlockDocsgen
<1>1. GeneratorsInv => OnlyKillsBlockDocsgen
  BY DEF GeneratorsInv, LitterOfKills, OnlyKillsBlockDocsgen, SourcesParse
<1>2. QED
  BY <1>1, AlwaysGeneratorsInv, PTL
-----------------------------------------------------------------------------
(***************************************************************************)
(* docsgen's answers: what is shown for a status goes with what was sent.  *)
(***************************************************************************)
LEMMA OfSame ==
  ASSUME NEW status, NEW kind, NEW what,
         sent' = sent \cup {<<status, kind, what>>}
  PROVE  \A kinds : Of(status, kinds)' =
           IF kind \in kinds THEN Of(status, kinds) \cup {<<status, kind, what>>}
           ELSE Of(status, kinds)
BY DEF Of

LEMMA ReadableSame ==
  ASSUME NEW status, NEW kind, NEW what,
         sent' = sent \cup {<<status, kind, what>>}
  PROVE  Readable' = IF kind = "unread" THEN Readable ELSE Readable \cup {status}
<1>1. \A s : s \in sent' <=> s \in sent \/ s = <<status, kind, what>>
  OBVIOUS
<1>2. <<status, kind, what>>[1] = status /\ <<status, kind, what>>[2] = kind
  OBVIOUS
<1>3. QED
  BY <1>1, <1>2 DEF Readable

\* The statuses that a step does not answer with are shown as before.
LEMMA OthersShown ==
  ASSUME NEW other, Shows(other), other \in DOMAIN responses,
         responses'[other] = responses[other],
         \A kinds : Of(other, kinds)' = Of(other, kinds)
  PROVE  Shows(other)'
BY DEF Shows

LEMMA TextsAre ==
  /\ Messages \subseteq Texts /\ \A s \in Conflicts : KeyMessage[s] \in Texts
BY DEF Texts

\* Setting an answer of a value, or of a bare status.
LEMMA ValueShown ==
  ASSUME AnswersInv, NEW status, NEW kind \in Values, NEW shown, NEW what,
         responses' = With(responses, status, [messages |-> <<>>, schema |-> shown]),
         sent' = sent \cup {<<status, kind, what>>},
         Records(shown, <<status, kind, what>>)
  PROVE  /\ DOMAIN responses' = Readable'
         /\ \A other \in DOMAIN responses' : Shows(other)'
<1>1. DOMAIN responses' = Readable'
  <2>1. DOMAIN responses' = DOMAIN responses \cup {status}
    BY DEF With
  <2>2. kind # "unread"
    BY DEF Values
  <2>3. Readable' = Readable \cup {status}
    BY <2>2, ReadableSame
  <2>4. QED
    BY <2>1, <2>3 DEF AnswersInv
<1>2. ASSUME NEW other \in DOMAIN responses', other # status
      PROVE  Shows(other)'
  <2>1. other \in DOMAIN responses /\ responses'[other] = responses[other]
    BY <1>2 DEF With
  <2>2. Shows(other)
    BY <2>1 DEF AnswersInv
  <2>3. \A kinds : Of(other, kinds)' = Of(other, kinds)
    BY <1>2 DEF Of
  <2>4. QED
    BY <2>1, <2>2, <2>3, OthersShown
<1>3. Shows(status)'
  <2>1. responses'[status] = [messages |-> <<>>, schema |-> shown]
    BY DEF With
  <2>2. <<status, kind, what>> \in Of(status, Values)'
    BY OfSame
  <2>3. Of(status, Values)' # {}
    BY <2>2
  <2>4. \E s \in Of(status, Values)' : Records(shown, s)
    BY <2>2
  <2>5. <<>> \in Seq(Texts)
    OBVIOUS
  <2>6. QED
    <3>1. responses'[status].messages = <<>> /\ responses'[status].schema = shown
      BY <2>1
    <3>2. QED
      BY <2>1, <2>3, <2>4, <2>5, <3>1 DEF Shows
<1>4. QED
  BY <1>1, <1>2, <1>3

LEMMA AddedIs ==
  ASSUME NEW messages \in Seq(Texts), NEW m \in Texts
  PROVE  /\ Added(messages, m) \in Seq(Texts)
         /\ ToSet(Added(messages, m)) = ToSet(messages) \cup {m}
         /\ IsInjective(messages) => IsInjective(Added(messages, m))
         /\ Append(messages, m) \in Seq(Texts)
         /\ ToSet(Append(messages, m)) = ToSet(messages) \cup {m}
<1>1. DOMAIN messages = 1 .. Len(messages) /\ Len(messages) \in Nat
  OBVIOUS
<1>2. Contains(messages, m) <=> m \in ToSet(messages)
  BY <1>1 DEF Contains, ToSet
<1>3. /\ Append(messages, m) \in Seq(Texts)
      /\ DOMAIN Append(messages, m) = 1 .. Len(messages) + 1
      /\ Append(messages, m)[Len(messages) + 1] = m
      /\ \A k \in 1 .. Len(messages) : Append(messages, m)[k] = messages[k]
  OBVIOUS
<1>4. ToSet(Append(messages, m)) = ToSet(messages) \cup {m}
  <2>1. ASSUME NEW x \in ToSet(Append(messages, m))
        PROVE  x \in ToSet(messages) \cup {m}
    <3>1. PICK k \in 1 .. Len(messages) + 1 : x = Append(messages, m)[k]
      BY <1>3 DEF ToSet
    <3>2. CASE k = Len(messages) + 1
      BY <1>3, <3>1, <3>2
    <3>3. CASE k # Len(messages) + 1
      BY <1>1, <1>3, <3>1, <3>3 DEF ToSet
    <3>4. QED
      BY <3>2, <3>3
  <2>2. ASSUME NEW x \in ToSet(messages)
        PROVE  x \in ToSet(Append(messages, m))
    <3>1. PICK k \in 1 .. Len(messages) : x = messages[k]
      BY <1>1 DEF ToSet
    <3>2. k \in 1 .. Len(messages) + 1 /\ x = Append(messages, m)[k]
      BY <1>1, <1>3, <3>1
    <3>3. QED
      BY <1>3, <3>2 DEF ToSet
  <2>3. m \in ToSet(Append(messages, m))
    <3>1. Len(messages) + 1 \in DOMAIN Append(messages, m)
      BY <1>1, <1>3
    <3>2. QED
      BY <1>3, <3>1 DEF ToSet
  <2>4. QED
    BY <2>1, <2>2, <2>3
<1>5. ASSUME IsInjective(messages), m \notin ToSet(messages)
      PROVE  IsInjective(Append(messages, m))
  <2>1. ASSUME NEW a \in 1 .. Len(messages) + 1, NEW b \in 1 .. Len(messages) + 1,
               Append(messages, m)[a] = Append(messages, m)[b]
        PROVE  a = b
    <3>1. \A k \in 1 .. Len(messages) : messages[k] # m
      BY <1>1, <1>5 DEF ToSet
    <3>2. CASE a \in 1 .. Len(messages) /\ b \in 1 .. Len(messages)
      BY <1>1, <1>3, <1>5, <2>1, <3>2 DEF IsInjective
    <3>3. CASE a = Len(messages) + 1 \/ b = Len(messages) + 1
      <4>1. a # Len(messages) + 1 => a \in 1 .. Len(messages)
        BY <1>1
      <4>2. b # Len(messages) + 1 => b \in 1 .. Len(messages)
        BY <1>1
      <4>3. QED
        BY <1>3, <2>1, <3>1, <3>3, <4>1, <4>2
    <3>4. QED
      BY <1>1, <3>2, <3>3
  <2>2. QED
    BY <1>3, <2>1 DEF IsInjective
<1>6. CASE m \in ToSet(messages)
  BY <1>2, <1>3, <1>4, <1>6 DEF Added
<1>7. CASE m \notin ToSet(messages)
  BY <1>2, <1>3, <1>4, <1>5, <1>7 DEF Added
<1>8. QED
  BY <1>6, <1>7

\* The messages a status has so far, without any the empty list.
LEMMA MessagesAre ==
  ASSUME AnswersInv, NEW status
  PROVE  /\ MessagesOf(status) \in Seq(Texts)
         /\ Of(status, Values) = {} =>
              /\ ToSet(MessagesOf(status)) = {s[3] : s \in Of(status, {"error", "key"})}
              /\ Of(status, {"key"}) = {} => IsInjective(MessagesOf(status))
<1>1. CASE status \in DOMAIN responses
  BY <1>1 DEF AnswersInv, MessagesOf, Shows
<1>2. CASE status \notin DOMAIN responses
  <2>1. MessagesOf(status) = <<>>
    BY <1>2 DEF MessagesOf
  <2>2. \A s \in sent : s[1] = status => s[2] = "unread"
    BY <1>2 DEF AnswersInv, Readable
  <2>3. \A kinds : "unread" \notin kinds => Of(status, kinds) = {}
    BY <2>2 DEF Of
  <2>4. ToSet(<<>>) = {} /\ IsInjective(<<>>)
    BY DEF ToSet, IsInjective
  <2>5. <<>> \in Seq(Texts) /\ "unread" \notin Values /\ "unread" \notin {"error", "key"}
    BY DEF Values
  <2>6. Of(status, Values) = {} /\ Of(status, {"error", "key"}) = {}
    BY <2>3, <2>5
  <2>7. {s[3] : s \in Of(status, {"error", "key"})} = {}
    BY <2>6
  <2>8. QED
    BY <2>1, <2>4, <2>5, <2>7
<1>3. QED
  BY <1>1, <1>2

LEMMA ErrorShown ==
  ASSUME AnswersInv, NEW status, NEW message \in Messages, WriteError(status, message)
  PROVE  /\ DOMAIN responses' = Readable'
         /\ \A other \in DOMAIN responses' : Shows(other)'
<1> DEFINE added == Added(MessagesOf(status), message)
<1>1. /\ responses' = With(responses, status, [messages |-> added, schema |-> Error])
      /\ sent' = sent \cup {<<status, "error", message>>}
  BY DEF WriteError
<1>2. DOMAIN responses' = Readable'
  <2>1. DOMAIN responses' = DOMAIN responses \cup {status}
    BY <1>1 DEF With
  <2>2. Readable' = Readable \cup {status}
    BY <1>1, ReadableSame
  <2>3. QED
    BY <2>1, <2>2 DEF AnswersInv
<1>3. ASSUME NEW other \in DOMAIN responses', other # status
      PROVE  Shows(other)'
  <2>1. other \in DOMAIN responses /\ responses'[other] = responses[other]
    BY <1>1, <1>3 DEF With
  <2>2. Shows(other)
    BY <2>1 DEF AnswersInv
  <2>3. \A kinds : Of(other, kinds)' = Of(other, kinds)
    BY <1>1, <1>3 DEF Of
  <2>4. QED
    BY <1>1, <2>1, <2>2, <2>3, OthersShown
<1>4. Shows(status)'
  <2>1. responses'[status] = [messages |-> added, schema |-> Error]
    BY <1>1 DEF With
  <2>2. /\ added \in Seq(Texts)
        /\ ToSet(added) = ToSet(MessagesOf(status)) \cup {message}
        /\ IsInjective(MessagesOf(status)) => IsInjective(added)
    BY MessagesAre, AddedIs, TextsAre
  <2>3. /\ Of(status, Values)' = Of(status, Values)
        /\ Of(status, {"key"})' = Of(status, {"key"})
        /\ Of(status, {"error", "key"})'
             = Of(status, {"error", "key"}) \cup {<<status, "error", message>>}
    <3>1. \A kinds : Of(status, kinds)' =
            IF "error" \in kinds THEN Of(status, kinds) \cup {<<status, "error", message>>}
            ELSE Of(status, kinds)
      BY <1>1, OfSame
    <3>2. "error" \notin Values /\ "error" \notin {"key"} /\ "error" \in {"error", "key"}
      BY DEF Values
    <3>3. QED
      BY <3>1, <3>2
  <2>4. {s[3] : s \in Of(status, {"error", "key"})'}
          = {s[3] : s \in Of(status, {"error", "key"})} \cup {message}
    <3>1. \A s : s \in Of(status, {"error", "key"})'
                  <=> s \in Of(status, {"error", "key"}) \/ s = <<status, "error", message>>
      BY <2>3
    <3>2. <<status, "error", message>>[3] = message
      OBVIOUS
    <3>3. QED
      BY <3>1, <3>2
  <2>5. Of(status, Values) = {} =>
          /\ ToSet(added) = {s[3] : s \in Of(status, {"error", "key"})'}
          /\ Of(status, {"key"})' = {} => IsInjective(added)
    BY <2>2, <2>3, <2>4, MessagesAre
  <2>6. Of(status, {"error", "key"})' # {}
    BY <2>3
  <2> HIDE DEF added
  <2>7. QED
    BY <2>1, <2>2, <2>3, <2>5, <2>6 DEF Shows
<1>5. QED
  BY <1>2, <1>3, <1>4

\* Steps that set no variable.
LEMMA TypesKept ==
  ASSUME TypesInv, UNCHANGED <<inferred, actual, told, ambiguous>>,
         \A x \in sent' : x \in sent \/ x[2] # "variable" \/ (x[3] = actual /\ actual # Unknown)
  PROVE  TypesInv'
BY DEF TypesInv

LEMMA KeysShown ==
  ASSUME AnswersInv, EndOfHandler(TRUE)
  PROVE  AnswersInv'
<1>1. /\ responses' = [s \in DOMAIN responses \cup Conflicts |->
                         IF s \in Conflicts THEN AddedKey(s) ELSE responses[s]]
      /\ sent' = sent \cup {<<s, "key", KeyMessage[s]>> : s \in Conflicts}
      /\ UNCHANGED <<pkg, request, inferred, actual, told, decoded, ambiguous>>
  BY DEF EndOfHandler
<1>2. \A x : x \in sent' <=> x \in sent \/ \E s \in Conflicts : x = <<s, "key", KeyMessage[s]>>
  BY <1>1
<1>3. \A s : /\ <<s, "key", KeyMessage[s]>>[1] = s /\ <<s, "key", KeyMessage[s]>>[2] = "key"
             /\ <<s, "key", KeyMessage[s]>>[3] = KeyMessage[s]
  OBVIOUS
<1>4. DOMAIN responses' = Readable'
  <2>1. ASSUME NEW y \in sent', y[2] # "unread"
        PROVE  y[1] \in Readable \/ y[1] \in Conflicts
    BY <1>2, <1>3, <2>1 DEF Readable
  <2>2. ASSUME NEW s \in Conflicts
        PROVE  \E y \in sent' : y[1] = s /\ y[2] # "unread"
    <3>1. /\ <<s, "key", KeyMessage[s]>> \in sent'
          /\ <<s, "key", KeyMessage[s]>>[1] = s /\ <<s, "key", KeyMessage[s]>>[2] # "unread"
      BY <1>2, <1>3
    <3>2. QED
      BY <3>1
  <2>3. \A y \in sent : y \in sent'
    BY <1>2
  <2>4. Readable' = Readable \cup Conflicts
    BY <2>1, <2>2, <2>3 DEF Readable
  <2>5. DOMAIN responses' = DOMAIN responses \cup Conflicts
    BY <1>1
  <2>6. QED
    BY <2>4, <2>5 DEF AnswersInv
<1>5. ASSUME NEW status \in DOMAIN responses', status \notin Conflicts
      PROVE  Shows(status)'
  <2>1. status \in DOMAIN responses /\ responses'[status] = responses[status]
    BY <1>1, <1>5
  <2>2. Shows(status)
    BY <2>1 DEF AnswersInv
  <2>3. \A kinds : Of(status, kinds)' = Of(status, kinds)
    BY <1>2, <1>3, <1>5 DEF Of
  <2>4. QED
    BY <1>1, <2>1, <2>2, <2>3, OthersShown
<1>6. ASSUME NEW status \in Conflicts
      PROVE  Shows(status)'
  <2> DEFINE key == <<status, "key", KeyMessage[status]>>
             messages == AddedKey(status).messages
  <2>1. responses'[status] = AddedKey(status) /\ responses'[status].messages = messages
        /\ AddedKey(status) = [messages |-> messages, schema |-> Error]
    BY <1>1 DEF AddedKey
  <2>2. /\ \A x : x \in Of(status, Values)' <=> x \in Of(status, Values)
        /\ \A x : x \in Of(status, {"error", "key"})'
                    <=> x \in Of(status, {"error", "key"}) \/ x = key
        /\ key \in Of(status, {"key"})'
    BY <1>2, <1>3 DEF Of, Values
  <2>3. /\ messages \in Seq(Texts)
        /\ ToSet(messages) = ToSet(MessagesOf(status)) \cup {KeyMessage[status]}
    <3>1. MessagesOf(status) \in Seq(Texts) /\ KeyMessage[status] \in Texts
      BY MessagesAre, TextsAre
    <3>2. CASE MessagesOf(status) = <<KeyMessage[status]>>
      <4>1. messages = <<KeyMessage[status]>>
        BY <3>2 DEF AddedKey
      <4>2. ToSet(<<KeyMessage[status]>>) = {KeyMessage[status]}
        BY DEF ToSet
      <4>3. QED
        BY <3>1, <3>2, <4>1, <4>2
    <3>3. CASE MessagesOf(status) # <<KeyMessage[status]>>
      <4>1. messages = Append(MessagesOf(status), KeyMessage[status])
        BY <3>3 DEF AddedKey
      <4>2. QED
        BY <3>1, <4>1, AddedIs
    <3>4. QED
      BY <3>2, <3>3
  <2>4. Of(status, Values)' = {} =>
          ToSet(messages) = {s[3] : s \in Of(status, {"error", "key"})'}
    <3>1. SUFFICES ASSUME Of(status, Values)' = {}
                   PROVE  ToSet(messages) = {s[3] : s \in Of(status, {"error", "key"})'}
      OBVIOUS
    <3>2. ToSet(MessagesOf(status)) = {s[3] : s \in Of(status, {"error", "key"})}
      BY <2>2, <3>1, MessagesAre
    <3>3. key[3] = KeyMessage[status]
      OBVIOUS
    <3> HIDE DEF messages, key
    <3>4. QED
      BY <2>2, <2>3, <3>2, <3>3
  <2>5. responses'[status].schema = Error
    BY <2>1
  <2> HIDE DEF messages, key
  <2>6. /\ Of(status, {"key"})' # {} /\ Of(status, {"error", "key"})' # {}
    BY <2>2
  <2>7. QED
    BY <2>1, <2>3, <2>4, <2>5, <2>6 DEF Shows
<1>7. TypesInv'
  <2>1. \A x \in sent' : x \in sent \/ x[2] # "variable"
    BY <1>2, <1>3
  <2>2. QED
    BY <1>1, <2>1, TypesKept DEF AnswersInv
<1>8. QED
  BY <1>1, <1>4, <1>5, <1>6, <1>7 DEF AnswersInv

\* Steps that answer nothing.
LEMMA AnswersUntouched ==
  ASSUME AnswersInv, UNCHANGED <<responses, sent>>
  PROVE  /\ DOMAIN responses' = Readable'
         /\ \A status \in DOMAIN responses' : Shows(status)'
<1>1. (\A status, kinds : Of(status, kinds)' = Of(status, kinds)) /\ Readable' = Readable
  BY DEF Of, Readable
<1>2. ASSUME NEW status \in DOMAIN responses'
      PROVE  Shows(status)'
  <2>1. Shows(status) /\ status \in DOMAIN responses
    BY DEF AnswersInv
  <2>2. QED
    BY <1>1, <2>1, OthersShown
<1>3. DOMAIN responses' = Readable'
  BY <1>1 DEF AnswersInv
<1>4. QED
  BY <1>2, <1>3

\* An assignment: what is known of the variable stays right.
LEMMA TypesAssigned ==
  ASSUME TypesInv, ambiguous \in BOOLEAN, told \in BOOLEAN,
         NEW seen, NEW type, NEW unclear \in BOOLEAN,
         AssignValue(seen, type, unclear), type # Unknown,
         seen = Unknown \/ unclear \/ seen = type
  PROVE  TypesInv' /\ ambiguous' \in BOOLEAN /\ told' \in BOOLEAN
<1>1. /\ inferred' = IF inferred = Unknown /\ seen # Unknown THEN seen ELSE inferred
      /\ told' = (told \/ seen # Unknown) /\ actual' = type /\ sent' = sent
      /\ ambiguous' = (ambiguous \/ unclear \/ actual \notin {Unknown, type})
  BY DEF AssignValue
<1>2. told' \in BOOLEAN /\ ambiguous' \in BOOLEAN
  BY <1>1
<1>3. ~ambiguous' => ~ambiguous /\ ~unclear /\ actual \in {Unknown, type}
  BY <1>1
<1>4. IF told' THEN actual' # Unknown /\ (~ambiguous' => inferred' = actual')
      ELSE inferred' = Unknown
  <2>1. CASE told
    BY <1>1, <1>3, <2>1 DEF TypesInv
  <2>2. CASE ~told
    BY <1>1, <1>3, <2>2 DEF TypesInv
  <2>3. QED
    BY <2>1, <2>2
<1>5. \A s \in sent' : s[2] = "variable" => s[3] # Unknown /\ (~ambiguous' => s[3] = actual')
  BY <1>1, <1>3 DEF TypesInv
<1>6. QED
  BY <1>2, <1>4, <1>5 DEF TypesInv

LEMMA AnswersStep ==
  ASSUME HandlerInv, HandlerNext
  PROVE  AnswersInv' /\ ambiguous' \in BOOLEAN /\ told' \in BOOLEAN
<1> DEFINE Goal == AnswersInv' /\ ambiguous' \in BOOLEAN /\ told' \in BOOLEAN
           First(list) == IF Head(list).told THEN Head(list).type ELSE Unknown
           Bodies(p) == [type : DOMAIN Decls[p], told : BOOLEAN]
<1>1. /\ pkg \in Packages /\ AnswersInv /\ ambiguous \in BOOLEAN /\ told \in BOOLEAN
      /\ TypesInv /\ decoded \in Seq(Bodies(pkg)) /\ (decoded # <<>> => request = First(decoded))
  BY DEF HandlerInv, AnswersInv
<1>2. ASSUME DOMAIN responses' = Readable', \A status \in DOMAIN responses' : Shows(status)',
             TypesInv', UNCHANGED <<pkg, request, decoded>>,
             ambiguous' \in BOOLEAN, told' \in BOOLEAN
      PROVE  Goal
  BY <1>1, <1>2 DEF AnswersInv
<1>3. ASSUME NextRoute
      PROVE  Goal
  <2>1. /\ responses' = <<>> /\ inferred' = Unknown /\ sent' = {} /\ decoded' = <<>>
        /\ ambiguous' = FALSE /\ told' = FALSE
    BY <1>3 DEF NextRoute, ResetRoute
  <2>2. DOMAIN responses' = {} /\ Readable' = {}
    BY <2>1 DEF Readable
  <2>3. decoded' \in Seq(Bodies(pkg)')
    BY <2>1
  <2>4. TypesInv'
    BY <2>1 DEF TypesInv
  <2>5. QED
    BY <2>1, <2>2, <2>3, <2>4 DEF AnswersInv
<1>4. ASSUME UNCHANGED <<pkg, responses, request, inferred, actual, told, sent, decoded, ambiguous>>
      PROVE  Goal
  <2>1. TypesInv'
    BY <1>1, <1>4, TypesKept
  <2>2. /\ DOMAIN responses' = Readable'
        /\ \A status \in DOMAIN responses' : Shows(status)'
    BY <1>1, <1>4, AnswersUntouched
  <2>3. QED
    BY <1>1, <1>2, <1>4, <2>1, <2>2
<1>5. ASSUME Expand \/ Leave \/ Overflow \/ AllDescribed \/ EndOfHandler(FALSE)
      PROVE  Goal
  BY <1>4, <1>5 DEF Expand, Leave, Overflow, AllDescribed, EndOfHandler
<1>6. ASSUME EndOfHandler(TRUE)
      PROVE  Goal
  <2>1. UNCHANGED <<ambiguous, told>>
    BY <1>6 DEF EndOfHandler
  <2>2. QED
    BY <1>1, <1>6, <2>1, KeysShown
<1>7. ASSUME NEW seen, NEW type, NEW unclear \in BOOLEAN,
             AssignValue(seen, type, unclear), type # Unknown,
             seen = Unknown \/ unclear \/ seen = type
      PROVE  Goal
  <2>1. UNCHANGED <<responses, sent, pkg, request, decoded>>
    BY <1>7 DEF AssignValue, Call
  <2>2. TypesInv' /\ ambiguous' \in BOOLEAN /\ told' \in BOOLEAN
    BY <1>1, <1>7, TypesAssigned
  <2>3. /\ DOMAIN responses' = Readable'
        /\ \A status \in DOMAIN responses' : Shows(status)'
    BY <1>1, <2>1, AnswersUntouched
  <2>4. QED
    BY <1>2, <2>1, <2>2, <2>3
<1>8. \A type \in DOMAIN Decls[pkg] : type # Unknown /\ type # Variable
  BY <1>1, HandlerDocsAssumption DEF Unknown, Variable
<1>9. ASSUME \E type \in DOMAIN Decls[pkg] : AssignLiteral(type) \/ AssignUnseen(type)
      PROVE  Goal
  <2>1. PICK type \in DOMAIN Decls[pkg] : AssignLiteral(type) \/ AssignUnseen(type)
    BY <1>9
  <2>2. type # Unknown
    BY <1>8
  <2>3. AssignValue(type, type, FALSE) \/ AssignValue(Unknown, type, FALSE)
    BY <2>1 DEF AssignLiteral, AssignUnseen
  <2> HIDE DEF Goal
  <2>4. QED
    BY <1>7, <2>2, <2>3
<1>10. ASSUME \E method \in DOMAIN Results[pkg] : AssignResult(method)
       PROVE  Goal
  <2>1. PICK method \in DOMAIN Results[pkg] : AssignResult(method)
    BY <1>10
  <2> DEFINE results == Results[pkg][method]
  <2>2. PICK seen \in results, type \in results :
          AssignValue(seen, type, Cardinality(results) > 1)
    BY <2>1 DEF AssignResult
  <2>3. IsFiniteSet(results) /\ type # Unknown
    BY <1>1, HandlerDocsAssumption DEF Unknown
  <2>4. Cardinality(results) \in Nat /\ Cardinality(results) # 0
    BY <2>2, <2>3, FS_CardinalityType, FS_EmptySet
  <2>5. Cardinality(results) = 1 => seen = type
    BY <2>2, <2>3, FS_Singleton
  <2> HIDE DEF results
  <2>6. CASE Cardinality(results) = 1
    <3>1. AssignValue(seen, type, FALSE)
      BY <2>2, <2>6 DEF AssignValue
    <3> HIDE DEF Goal
    <3>2. QED
      BY <1>7, <2>3, <2>5, <2>6, <3>1
  <2>7. CASE Cardinality(results) > 1
    <3>1. AssignValue(seen, type, TRUE)
      BY <2>2, <2>7 DEF AssignValue
    <3> HIDE DEF Goal
    <3>2. QED
      BY <1>7, <2>3, <3>1
  <2>8. QED
    BY <2>4, <2>6, <2>7
<1>11. ASSUME NEW type \in DOMAIN Decls[pkg], NEW tells \in BOOLEAN, Decode(type, tells)
       PROVE  Goal
  <2>1. PICK entry : entry = [type |-> type, told |-> tells]
    OBVIOUS
  <2>2. entry \in Bodies(pkg) /\ entry.told = tells /\ entry.type = type
    BY <2>1
  <2>3. /\ decoded' = Append(decoded, entry)
        /\ decoded = <<>> => request' = IF tells THEN type ELSE Unknown
        /\ decoded # <<>> => request' = request
        /\ UNCHANGED <<responses, sent, ambiguous, inferred, actual, told, pkg>>
    BY <1>11, <2>1 DEF Decode, Call
  <2> HIDE DEF Bodies
  <2>4. /\ decoded' \in Seq(Bodies(pkg))
        /\ Head(decoded') = IF decoded = <<>> THEN entry ELSE Head(decoded)
    BY <1>1, <2>2, <2>3
  <2>5. request' = First(decoded')
    BY <1>1, <2>2, <2>3, <2>4
  <2>6. TypesInv'
    BY <1>1, <2>3, TypesKept
  <2>7. /\ DOMAIN responses' = Readable'
        /\ \A status \in DOMAIN responses' : Shows(status)'
    BY <1>1, <2>3, AnswersUntouched
  <2>8. QED
    BY <1>1, <2>3, <2>4, <2>5, <2>6, <2>7 DEF AnswersInv, Bodies
<1>12. ASSUME NEW status, NEW kind \in Values, NEW schema, NEW type,
              Answer(status, kind, schema, type), Records(schema, <<status, kind, type>>),
              kind = "variable" => type = actual /\ actual # Unknown
       PROVE  Goal
  <2>1. /\ responses' = With(responses, status, [messages |-> <<>>, schema |-> schema])
        /\ sent' = sent \cup {<<status, kind, type>>}
        /\ UNCHANGED <<ambiguous, inferred, actual, told, decoded, request, pkg>>
    BY <1>12 DEF Answer, Call
  <2>2. /\ DOMAIN responses' = Readable'
        /\ \A other \in DOMAIN responses' : Shows(other)'
    BY <1>1, <1>12, <2>1, ValueShown
  <2>3. \A x \in sent' :
         x \in sent \/ x[2] # "variable" \/ (x[3] = actual /\ actual # Unknown)
    BY <1>12, <2>1
  <2>4. TypesInv'
    BY <1>1, <2>1, <2>3, TypesKept
  <2>5. QED
    BY <1>1, <1>2, <2>1, <2>2, <2>4
<1>13. "value" \in Values /\ "variable" \in Values /\ "other" \in Values /\ "none" # Variable
  BY DEF Values, Variable
<1>14. ASSUME NEW status \in Statuses, NEW type \in DOMAIN Decls[pkg],
              WriteValue(status, type) \/ WriteOther(status, type)
       PROVE  Goal
  <2>1. CASE WriteValue(status, type)
    <3>1. Records(type, <<status, "value", type>>)
      BY <1>8 DEF Records
    <3>2. Answer(status, "value", type, type)
      BY <2>1 DEF WriteValue
    <3> HIDE DEF Goal
    <3>3. QED
      BY <1>12, <1>13, <3>1, <3>2
  <2>2. CASE WriteOther(status, type)
    <3>1. Records(Unknown, <<status, "other", type>>)
      BY DEF Records
    <3>2. Answer(status, "other", Unknown, type)
      BY <2>2 DEF WriteOther
    <3> HIDE DEF Goal
    <3>3. QED
      BY <1>12, <1>13, <3>1, <3>2
  <2>3. QED
    BY <1>14, <2>1, <2>2
<1>15. ASSUME NEW status \in Statuses, WriteVariable(status)
       PROVE  Goal
  <2>1. Records(Variable, <<status, "variable", actual>>)
    BY DEF Records
  <2>2. Answer(status, "variable", Variable, actual) /\ actual # Unknown
    BY <1>15 DEF WriteVariable
  <2> HIDE DEF Goal
  <2>3. QED
    BY <1>12, <1>13, <2>1, <2>2
<1>16. ASSUME NEW status \in Statuses, WriteStatus(status)
       PROVE  Goal
  <2>1. Records("none", <<status, "value", "none">>)
    BY <1>13 DEF Records
  <2>2. Answer(status, "value", "none", "none")
    BY <1>16 DEF WriteStatus
  <2> HIDE DEF Goal
  <2>3. QED
    BY <1>12, <1>13, <2>1, <2>2
<1>17. ASSUME NEW status \in Statuses, WriteUnread(status)
       PROVE  Goal
  <2>1. /\ sent' = sent \cup {<<status, "unread", "none">>}
        /\ UNCHANGED <<responses, ambiguous, inferred, actual, told, decoded, request, pkg>>
    BY <1>17 DEF WriteUnread, Call
  <2>2. Readable' = Readable
    BY <2>1, ReadableSame
  <2>3. ASSUME NEW other \in DOMAIN responses'
        PROVE  Shows(other)'
    <3>1. Shows(other) /\ other \in DOMAIN responses /\ responses'[other] = responses[other]
      BY <1>1, <2>1 DEF AnswersInv
    <3>2. Of(other, Values)' = Of(other, Values)
      BY <2>1 DEF Of, Values
    <3>3. /\ Of(other, {"key"})' = Of(other, {"key"})
          /\ Of(other, {"error", "key"})' = Of(other, {"error", "key"})
      BY <2>1 DEF Of
    <3>4. QED
      BY <3>1, <3>2, <3>3 DEF Shows
  <2>4. \A x \in sent' : x \in sent \/ x[2] # "variable"
    BY <2>1
  <2>5. TypesInv'
    BY <1>1, <2>1, <2>4, TypesKept
  <2>6. DOMAIN responses' = Readable'
    BY <1>1, <2>1, <2>2 DEF AnswersInv
  <2>7. QED
    BY <1>1, <1>2, <2>1, <2>3, <2>5, <2>6
<1>18. ASSUME NEW status \in Statuses, NEW message \in Messages, WriteError(status, message)
       PROVE  Goal
  <2>1. /\ sent' = sent \cup {<<status, "error", message>>}
        /\ UNCHANGED <<ambiguous, inferred, actual, told, decoded, request, pkg>>
    BY <1>18 DEF WriteError, Call
  <2>2. /\ DOMAIN responses' = Readable'
        /\ \A other \in DOMAIN responses' : Shows(other)'
    BY <1>1, <1>18, ErrorShown
  <2>3. \A x \in sent' : x \in sent \/ x[2] # "variable"
    BY <2>1
  <2>4. TypesInv'
    BY <1>1, <2>1, <2>3, TypesKept
  <2>5. QED
    BY <1>1, <1>2, <2>1, <2>2, <2>4
<1> HIDE DEF Goal
<1>19. ASSUME \E type \in DOMAIN Decls[pkg] :
                 \/ AssignLiteral(type) \/ AssignUnseen(type)
                 \/ Decode(type, TRUE) \/ Decode(type, FALSE)
       PROVE  Goal
  BY <1>9, <1>11, <1>19
<1>20. ASSUME \E status \in Statuses :
                 \/ \E type \in DOMAIN Decls[pkg] :
                      WriteValue(status, type) \/ WriteOther(status, type)
                 \/ WriteVariable(status) \/ WriteStatus(status) \/ WriteUnread(status)
                 \/ \E message \in Messages : WriteError(status, message)
       PROVE  Goal
  BY <1>14, <1>15, <1>16, <1>17, <1>18, <1>20
<1>21. ASSUME \E idempotent \in BOOLEAN : EndOfHandler(idempotent)
       PROVE  Goal
  BY <1>5, <1>6, <1>21
<1>22. Goal
  BY <1>3, <1>5, <1>10, <1>19, <1>20, <1>21 DEF HandlerNext
<1>23. QED
  BY <1>22 DEF Goal
-----------------------------------------------------------------------------
(***************************************************************************)
(* The expansion of types: its stack is a way through the declarations.    *)
(***************************************************************************)
LEMMA DeclsAre ==
  ASSUME NEW p \in Packages, NEW name \in DOMAIN Decls[p]
  PROVE  /\ Decls[p][name].struct \in BOOLEAN /\ Decls[p][name].uses \in Seq(STRING)
         /\ IsFiniteSet(DOMAIN Decls[p])
<1>1. Decls[p][name] \in [struct : BOOLEAN, uses : Seq(STRING)] /\ IsFiniteSet(DOMAIN Decls[p])
  BY HandlerDocsAssumption
<1>2. QED
  BY <1>1

\* A type that is opened lengthens the way.
LEMMA WayOn ==
  ASSUME NEW p \in Packages, NEW V, NEW fs, Way(p, fs, V),
         NEW name \in DOMAIN Decls[p],
         fs # <<>> => name \in UsedIn(p, fs[Len(fs)].name),
         StructIn(p, name) => name \notin V
  PROVE  Way(p, Append(fs, [name |-> name, rest |-> Decls[p][name].uses]),
             IF StructIn(p, name) THEN V \cup {name} ELSE V)
<1> DEFINE n == Len(fs)
           f == [name |-> name, rest |-> Decls[p][name].uses]
           gs == Append(fs, f)
           W == IF StructIn(p, name) THEN V \cup {name} ELSE V
<1>1. fs \in Seq(Frames(p)) /\ n \in Nat /\ DOMAIN fs = 1 .. n /\ (n # 0 => fs # <<>>)
  BY DEF Way
<1>2. f \in Frames(p) /\ f.name = name /\ f.rest = Decls[p][name].uses
  BY DeclsAre DEF Frames
<1>3. /\ gs \in Seq(Frames(p)) /\ DOMAIN gs = 1 .. n + 1 /\ gs[n + 1] = f
      /\ \A k \in 1 .. n : gs[k] = fs[k]
  <2> HIDE DEF f
  <2>1. QED
    BY <1>1, <1>2
<1> HIDE DEF f, gs, n
<1>4. ASSUME NEW k \in DOMAIN gs
      PROVE  /\ ToSet(gs[k].rest) \subseteq UsedIn(p, gs[k].name)
             /\ k > 1 => gs[k].name \in UsedIn(p, gs[k - 1].name)
             /\ StructIn(p, gs[k].name) => gs[k].name \in W
  <2>1. CASE k = n + 1
    <3>1. k > 1 => n \in 1 .. n /\ n # 0 /\ gs[k - 1] = fs[n]
      BY <1>1, <1>3, <2>1
    <3>2. k > 1 => name \in UsedIn(p, fs[n].name)
      BY <1>1, <3>1 DEF n
    <3>3. QED
      BY <1>2, <1>3, <2>1, <3>1, <3>2 DEF UsedIn
  <2>2. CASE k # n + 1
    <3>1. k \in 1 .. n /\ gs[k] = fs[k] /\ (k > 1 => k - 1 \in 1 .. n /\ gs[k - 1] = fs[k - 1])
      BY <1>1, <1>3, <2>2
    <3>2. QED
      BY <1>1, <3>1 DEF Way
  <2>3. QED
    BY <2>1, <2>2
<1>5. ASSUME NEW j \in DOMAIN gs, NEW k \in DOMAIN gs,
             StructIn(p, gs[j].name), gs[j].name = gs[k].name
      PROVE  j = k
  <2>1. \A i \in 1 .. n : StructIn(p, fs[i].name) => fs[i].name # name
    BY <1>1 DEF Way
  <2>2. \A i \in DOMAIN gs : i = n + 1 \/ i \in 1 .. n
    BY <1>1, <1>3
  <2>3. CASE j \in 1 .. n /\ k \in 1 .. n
    BY <1>1, <1>3, <1>5, <2>3 DEF Way
  <2>4. CASE j = n + 1 /\ k = n + 1
    BY <2>4
  <2>5. CASE j = n + 1 /\ k \in 1 .. n
    BY <1>2, <1>3, <1>5, <2>1, <2>5
  <2>6. CASE j \in 1 .. n /\ k = n + 1
    BY <1>2, <1>3, <1>5, <2>1, <2>6
  <2>7. QED
    BY <2>2, <2>3, <2>4, <2>5, <2>6
<1>6. ASSUME NEW other \in W
      PROVE  StructIn(p, other) /\ \E k \in DOMAIN gs : gs[k].name = other
  <2>1. CASE other \in V
    <3>1. StructIn(p, other) /\ \E k \in DOMAIN fs : fs[k].name = other
      BY <2>1 DEF Way
    <3>2. PICK k \in 1 .. n : fs[k].name = other
      BY <1>1, <3>1
    <3>3. k \in DOMAIN gs /\ gs[k].name = other
      BY <1>1, <1>3, <3>2
    <3>4. QED
      BY <3>1, <3>3
  <2>2. CASE other \notin V
    <3>1. other = name /\ StructIn(p, name)
      BY <2>2
    <3>2. n + 1 \in DOMAIN gs /\ gs[n + 1].name = name
      BY <1>1, <1>2, <1>3
    <3>3. QED
      BY <3>1, <3>2
  <2>3. QED
    BY <2>1, <2>2
<1>7. QED
  BY <1>3, <1>4, <1>5, <1>6 DEF Way, f, gs

\* Its end is taken back when the type has been expanded.
LEMMA WayBack ==
  ASSUME NEW p \in Packages, NEW V, NEW fs, Way(p, fs, V), fs # <<>>
  PROVE  Way(p, Front(fs), V \ {Last(fs).name})
<1> DEFINE n == Len(fs)
           gs == Front(fs)
           last == fs[n].name
<1>1. fs \in Seq(Frames(p)) /\ n \in Nat \ {0} /\ DOMAIN fs = 1 .. n
  BY DEF Way
<1>2. /\ gs \in Seq(Frames(p)) /\ DOMAIN gs = 1 .. n - 1
      /\ \A k \in 1 .. n - 1 : gs[k] = fs[k]
  BY <1>1 DEF Front
<1>3. n \in DOMAIN fs /\ Last(fs) = fs[n]
  BY <1>1 DEF Last
<1> HIDE DEF gs, n
<1>4. \A k \in 1 .. n - 1 : k \in DOMAIN fs /\ k # n
  BY <1>1
<1>5. \A k \in 1 .. n - 1 : StructIn(p, fs[k].name) => fs[k].name # last
  BY <1>3, <1>4 DEF Way
<1>6. ASSUME NEW k \in DOMAIN gs
      PROVE  /\ ToSet(gs[k].rest) \subseteq UsedIn(p, gs[k].name)
             /\ k > 1 => gs[k].name \in UsedIn(p, gs[k - 1].name)
             /\ StructIn(p, gs[k].name) => gs[k].name \in V \ {last}
  <2>1. gs[k] = fs[k] /\ k \in DOMAIN fs /\ (k > 1 => k - 1 \in 1 .. n - 1 /\ gs[k - 1] = fs[k - 1])
    BY <1>1, <1>2
  <2>2. QED
    BY <1>2, <1>5, <2>1 DEF Way
<1>7. \A j, k \in DOMAIN gs : StructIn(p, gs[j].name) /\ gs[j].name = gs[k].name => j = k
  BY <1>2, <1>4 DEF Way
<1>8. ASSUME NEW other \in V \ {last}
      PROVE  StructIn(p, other) /\ \E k \in DOMAIN gs : gs[k].name = other
  <2>1. StructIn(p, other) /\ \E k \in DOMAIN fs : fs[k].name = other
    BY DEF Way
  <2>2. PICK k \in 1 .. n : fs[k].name = other
    BY <1>1, <2>1
  <2>3. k \in 1 .. n - 1
    BY <1>1, <2>2
  <2>4. QED
    BY <1>2, <2>1, <2>2, <2>3
<1>9. QED
  BY <1>2, <1>3, <1>6, <1>7, <1>8 DEF Way, gs

LEMMA WayBegins ==
  ASSUME NEW p, NEW V
  PROVE  Way(p, <<>>, V) <=> V = {}
<1>1. DOMAIN <<>> = {} /\ <<>> \in Seq(Frames(p))
  OBVIOUS
<1>2. QED
  BY <1>1 DEF Way

\* The name at the head of what is left of the end is taken off it.
LEMMA WayRest ==
  ASSUME NEW p \in Packages, NEW V, NEW fs, Way(p, fs, V), fs # <<>>, Last(fs).rest # <<>>
  PROVE  LET gs == [fs EXCEPT ![Len(fs)].rest = Tail(@)]
         IN  Way(p, gs, V) /\ gs # <<>> /\ Head(Last(fs).rest) \in UsedIn(p, gs[Len(gs)].name)
<1> DEFINE n == Len(fs)
           gs == [fs EXCEPT ![n].rest = Tail(@)]
<1>1. fs \in Seq(Frames(p)) /\ n \in Nat \ {0} /\ DOMAIN fs = 1 .. n /\ n \in DOMAIN fs
  BY DEF Way
<1>2. Last(fs) = fs[n] /\ fs[n] \in Frames(p)
  BY <1>1 DEF Last
<1>3. PICK rest : rest = fs[n].rest
  OBVIOUS
<1>4. rest \in Seq(STRING) /\ rest # <<>>
  BY <1>2, <1>3 DEF Frames
<1>5. /\ Tail(rest) \in Seq(STRING) /\ Head(rest) \in ToSet(rest)
      /\ ToSet(Tail(rest)) \subseteq ToSet(rest)
  <2>1. /\ Tail(rest) \in Seq(STRING) /\ DOMAIN rest = 1 .. Len(rest) /\ Len(rest) \in Nat \ {0}
        /\ DOMAIN Tail(rest) = 1 .. Len(rest) - 1
        /\ \A k \in 1 .. Len(rest) - 1 : Tail(rest)[k] = rest[k + 1]
        /\ Head(rest) = rest[1]
    BY <1>4
  <2>2. 1 \in DOMAIN rest /\ \A k \in 1 .. Len(rest) - 1 : k + 1 \in DOMAIN rest
    BY <2>1
  <2>3. QED
    BY <2>1, <2>2 DEF ToSet
<1>6. /\ DOMAIN gs = 1 .. n
      /\ \A k \in 1 .. n : gs[k] = IF k = n THEN [fs[n] EXCEPT !.rest = Tail(rest)] ELSE fs[k]
  BY <1>1, <1>3
<1>7. [fs[n] EXCEPT !.rest = Tail(rest)] \in Frames(p)
      /\ [fs[n] EXCEPT !.rest = Tail(rest)].name = fs[n].name
      /\ [fs[n] EXCEPT !.rest = Tail(rest)].rest = Tail(rest)
  BY <1>2, <1>5 DEF Frames
<1>8. gs \in Seq(Frames(p)) /\ Len(gs) = n
  <2>1. gs = [k \in 1 .. n |-> gs[k]]
    BY <1>6
  <2> HIDE DEF gs
  <2>2. ASSUME NEW k \in 1 .. n
        PROVE  gs[k] \in Frames(p)
    <3>1. CASE k = n
      BY <1>6, <1>7, <3>1
    <3>2. CASE k # n
      <4>1. gs[k] = fs[k] /\ k \in DOMAIN fs
        BY <1>1, <1>6, <3>2
      <4>2. QED
        BY <1>1, <4>1
    <3>3. QED
      BY <3>1, <3>2
  <2>3. gs \in [1 .. n -> Frames(p)]
    BY <2>1, <2>2
  <2>4. QED
    BY <1>1, <1>6, <2>3
<1>9. /\ \A k \in 1 .. n : gs[k].name = fs[k].name
      /\ \A k \in 1 .. n : gs[k].rest = IF k = n THEN Tail(rest) ELSE fs[k].rest
  BY <1>6, <1>7
<1> HIDE DEF gs, n
<1>10. \A k \in 1 .. n : /\ ToSet(gs[k].rest) \subseteq UsedIn(p, gs[k].name)
                         /\ k > 1 => gs[k].name \in UsedIn(p, gs[k - 1].name)
                         /\ StructIn(p, gs[k].name) => gs[k].name \in V
  <2>1. \A k \in 1 .. n : k > 1 => k - 1 \in 1 .. n
    BY <1>1
  <2>2. \A k \in 1 .. n : ToSet(fs[k].rest) \subseteq UsedIn(p, fs[k].name)
    BY <1>1 DEF Way
  <2>3. \A k \in 1 .. n : ToSet(gs[k].rest) \subseteq UsedIn(p, gs[k].name)
    BY <1>3, <1>5, <1>9, <2>2
  <2>4. \A k \in 1 .. n : /\ k > 1 => fs[k].name \in UsedIn(p, fs[k - 1].name)
                          /\ StructIn(p, fs[k].name) => fs[k].name \in V
    BY <1>1 DEF Way
  <2>5. QED
    BY <1>9, <2>1, <2>3, <2>4
<1>11. \A j, k \in 1 .. n : StructIn(p, gs[j].name) /\ gs[j].name = gs[k].name => j = k
  BY <1>1, <1>9 DEF Way
<1>12. \A name \in V : StructIn(p, name) /\ \E k \in 1 .. n : gs[k].name = name
  BY <1>1, <1>9 DEF Way
<1>13. Way(p, gs, V)
  BY <1>6, <1>8, <1>10, <1>11, <1>12 DEF Way
<1>14. gs # <<>>
  BY <1>1, <1>8
<1>15. Head(rest) \in UsedIn(p, gs[Len(gs)].name)
  <2>1. ToSet(rest) \subseteq UsedIn(p, fs[n].name) /\ n \in 1 .. n
    BY <1>1, <1>3 DEF Way
  <2>2. QED
    BY <1>5, <1>8, <1>9, <2>1
<1>16. QED
  BY <1>2, <1>3, <1>13, <1>14, <1>15 DEF gs, n

\* typeSchema of a name, from a stack that is a way.
LEMMA Entering ==
  ASSUME pkg \in Packages, NEW fs, Way(pkg, fs, visiting), ComponentsInv, NEW name,
         fs # <<>> => name \in UsedIn(pkg, fs[Len(fs)].name),
         Enter(name, fs), UNCHANGED <<pkg, components>>
  PROVE  Way(pkg, stack', visiting') /\ ComponentsInv'
<1> DEFINE struct == name \in DOMAIN Decls[pkg] /\ Decls[pkg][name].struct
           opens == name \in DOMAIN Decls[pkg] /\ (struct => name \notin visiting)
<1>1. /\ stack' = IF opens THEN Append(fs, [name |-> name, rest |-> Decls[pkg][name].uses])
                  ELSE fs
      /\ visiting' = IF struct /\ opens THEN visiting \cup {name} ELSE visiting
      /\ refs' = IF struct THEN refs \cup {<<pkg, name>>} ELSE refs
  BY DEF Enter, Expands
<1>2. ComponentsInv'
  <2>1. \A other \in visiting' : <<pkg', other>> \in refs'
    BY <1>1 DEF ComponentsInv
  <2>2. \A other \in DOMAIN components' : <<components'[other], other>> \in refs'
    BY <1>1 DEF ComponentsInv
  <2>3. ASSUME NEW ref \in refs'
        PROVE  ref[2] \in DOMAIN components' \cup visiting'
    <3>1. CASE ref \in refs
      BY <1>1, <3>1 DEF ComponentsInv
    <3>2. CASE ref \notin refs
      <4>1. struct /\ ref = <<pkg, name>>
        BY <1>1, <3>2
      <4>2. ref[2] = name
        BY <4>1
      <4>3. name \in visiting'
        BY <1>1, <4>1
      <4>4. QED
        BY <4>2, <4>3
    <3>3. QED
      BY <3>1, <3>2
  <2>4. QED
    BY <2>1, <2>2, <2>3 DEF ComponentsInv
<1>3. CASE opens
  <2>1. StructIn(pkg, name) => name \notin visiting
    BY <1>3 DEF StructIn
  <2>2. Way(pkg, Append(fs, [name |-> name, rest |-> Decls[pkg][name].uses]),
                 IF StructIn(pkg, name) THEN visiting \cup {name} ELSE visiting)
    BY <1>3, <2>1, WayOn
  <2>3. visiting' = IF StructIn(pkg, name) THEN visiting \cup {name} ELSE visiting
    BY <1>1, <1>3 DEF StructIn
  <2>4. stack' = Append(fs, [name |-> name, rest |-> Decls[pkg][name].uses])
    BY <1>1, <1>3
  <2>5. QED
    BY <1>2, <2>2, <2>3, <2>4
<1>4. CASE ~opens
  <2>1. stack' = fs /\ visiting' = visiting
    BY <1>1, <1>4
  <2>2. QED
    BY <1>2, <2>1
<1>5. QED
  BY <1>3, <1>4

\* The component of an error is there from the first error on.
LEMMA ErrorDescribed ==
  ASSUME ComponentsInv, components' = WithError, refs' = refs \cup {<<Own, Error>>},
         UNCHANGED <<pkg, visiting>>
  PROVE  ComponentsInv'
<1>1. /\ DOMAIN components' = DOMAIN components \cup {Error}
      /\ \A name \in DOMAIN components' : \/ name \in DOMAIN components
                                             /\ components'[name] = components[name]
                                          \/ name = Error /\ components'[name] = Own
  BY DEF WithError, With
<1>2. <<Own, Error>>[2] = Error
  OBVIOUS
<1>3. \A ref \in refs' : ref[2] \in DOMAIN components' \cup visiting'
  BY <1>1, <1>2 DEF ComponentsInv
<1>4. \A name \in visiting' : <<pkg', name>> \in refs'
  BY DEF ComponentsInv
<1>5. \A name \in DOMAIN components' : <<components'[name], name>> \in refs'
  BY <1>1 DEF ComponentsInv
<1>6. QED
  BY <1>3, <1>4, <1>5 DEF ComponentsInv

LEMMA StackStep ==
  ASSUME HandlerInv, HandlerNext
  PROVE  /\ pkg' \in Packages
         /\ docs' \in {"next", "describing", "described", "done", "crashed"}
         /\ StackInv' /\ ComponentsInv'
<1> DEFINE Steps == docs \in {"next", "describing", "described"}
           Goal == /\ pkg' \in Packages
                   /\ docs' \in {"next", "describing", "described", "done", "crashed"}
                   /\ StackInv' /\ ComponentsInv'
<1>1. pkg \in Packages /\ Way(pkg, stack, visiting) /\ ComponentsInv
      /\ (docs \in {"next", "described", "done"} => stack = <<>>)
      /\ docs \in {"next", "describing", "described", "done", "crashed"}
  BY DEF HandlerInv, StackInv
<1>2. ASSUME pkg' \in Packages, docs' \in {"next", "describing", "described", "done", "crashed"},
             Way(pkg', stack', visiting'), ComponentsInv',
             docs' \in {"next", "described", "done"} => stack' = <<>>,
             docs' = "crashed" => Len(stack') > Deepest'
      PROVE  Goal
  BY <1>2 DEF StackInv
<1>3. stack = <<>> => visiting = {}
  BY <1>1, WayBegins
<1> SUFFICES Goal
  OBVIOUS
<1> HIDE DEF Goal
<1>4. ASSUME NEW name, Call, Enter(name, stack), UNCHANGED components
      PROVE  Goal
  <2>1. stack = <<>> /\ docs' = "describing" /\ pkg' = pkg
    BY <1>4 DEF Call
  <2>2. Way(pkg, stack', visiting') /\ ComponentsInv'
    BY <1>1, <1>4, <2>1, Entering
  <2>3. QED
    BY <1>1, <1>2, <2>1, <2>2
<1>5. ASSUME Call, UNCHANGED <<stack, visiting, components, refs>>
      PROVE  Goal
  <2>1. docs' = "describing" /\ pkg' = pkg
    BY <1>5 DEF Call
  <2>2. ComponentsInv'
    BY <1>1, <1>5, <2>1 DEF ComponentsInv
  <2>3. QED
    BY <1>1, <1>2, <1>5, <2>1, <2>2
<1>6. CASE NextRoute
  <2>1. /\ stack = <<>> /\ visiting = {} /\ pkg' \in Packages /\ docs' = "describing"
        /\ UNCHANGED <<stack, visiting, components, refs>>
    BY <1>1, <1>3, <1>6 DEF NextRoute
  <2>2. Way(pkg', stack', visiting')
    BY <2>1, WayBegins
  <2>3. ComponentsInv'
    BY <1>1, <2>1 DEF ComponentsInv
  <2>4. QED
    BY <1>2, <2>1, <2>2, <2>3
<1>7. CASE Expand
  <2> DEFINE gs == [stack EXCEPT ![Len(stack)].rest = Tail(@)]
             name == Head(Last(stack).rest)
  <2>1. /\ stack # <<>> /\ Last(stack).rest # <<>> /\ docs' = "describing"
        /\ Enter(name, gs) /\ UNCHANGED <<pkg, components>>
    BY <1>7 DEF Expand
  <2>2. Way(pkg, gs, visiting) /\ name \in UsedIn(pkg, gs[Len(gs)].name)
    BY <1>1, <2>1, WayRest
  <2> HIDE DEF gs, name
  <2>3. Way(pkg, stack', visiting') /\ ComponentsInv'
    BY <1>1, <2>1, <2>2, Entering
  <2>4. QED
    BY <1>1, <1>2, <2>1, <2>3
<1>8. CASE Leave
  <2>1. PICK name : name = Last(stack).name
    OBVIOUS
  <2>2. /\ stack # <<>> /\ docs' = "describing" /\ UNCHANGED <<pkg, refs>>
        /\ components' = IF StructIn(pkg, name) THEN With(components, name, pkg) ELSE components
        /\ visiting' = visiting \ {name} /\ stack' = Front(stack)
    BY <1>8, <2>1 DEF Leave, StructIn
  <2>3. Way(pkg, stack', visiting')
    BY <1>1, <2>1, <2>2, WayBack
  <2>4. name \in visiting <=> StructIn(pkg, name)
    <3>1. /\ stack \in Seq(Frames(pkg)) /\ Len(stack) \in DOMAIN stack
          /\ Last(stack) = stack[Len(stack)]
      BY <1>1, <2>2 DEF Way, Last
    <3>2. QED
      BY <1>1, <2>1, <3>1 DEF Way
  <2>5. ComponentsInv'
    <3>1. DOMAIN components' = IF StructIn(pkg, name) THEN DOMAIN components \cup {name}
                               ELSE DOMAIN components
      BY <2>2 DEF With
    <3>2. \A other \in DOMAIN components' : \/ other \in DOMAIN components
                                               /\ components'[other] = components[other]
                                            \/ other = name /\ StructIn(pkg, name)
                                               /\ components'[other] = pkg
      BY <2>2 DEF With
    <3>3. \A other \in visiting' : <<pkg', other>> \in refs'
      BY <1>1, <2>2 DEF ComponentsInv
    <3>4. \A other \in DOMAIN components' : <<components'[other], other>> \in refs'
      BY <1>1, <2>2, <2>4, <3>2 DEF ComponentsInv
    <3>5. \A ref \in refs' : ref[2] \in DOMAIN components' \cup visiting'
      BY <1>1, <2>2, <2>4, <3>1 DEF ComponentsInv
    <3>6. QED
      BY <3>3, <3>4, <3>5 DEF ComponentsInv
  <2>6. QED
    BY <1>1, <1>2, <2>2, <2>3, <2>5
<1>9. CASE Overflow \/ AllDescribed \/ EndOfHandler(FALSE)
  <2>1. /\ UNCHANGED <<pkg, stack, visiting, components, refs>>
        /\ \/ docs' = "crashed" /\ Len(stack) > Deepest
           \/ docs' \in {"done", "described"} /\ stack = <<>>
    BY <1>1, <1>9 DEF Overflow, AllDescribed, EndOfHandler
  <2>2. ComponentsInv'
    BY <1>1, <2>1 DEF ComponentsInv
  <2>3. Deepest' = Deepest
    BY <2>1 DEF Deepest
  <2>4. QED
    BY <1>1, <1>2, <2>1, <2>2, <2>3
<1>10. CASE EndOfHandler(TRUE)
  <2>1. /\ components' = WithError /\ refs' = refs \cup {<<Own, Error>>}
        /\ UNCHANGED <<pkg, stack, visiting>> /\ docs' = "described" /\ stack = <<>>
    BY <1>10 DEF EndOfHandler
  <2>2. ComponentsInv'
    BY <1>1, <2>1, ErrorDescribed
  <2>3. QED
    BY <1>1, <1>2, <2>1, <2>2
<1>11. ASSUME NEW seen, NEW type, NEW unclear, AssignValue(seen, type, unclear)
       PROVE  Goal
  <2>1. Call /\ UNCHANGED components
        /\ (Enter(seen, stack) \/ UNCHANGED <<stack, visiting, refs>>)
    BY <1>11 DEF AssignValue
  <2>2. QED
    BY <1>4, <1>5, <2>1
<1>12. CASE \E type \in DOMAIN Decls[pkg] :
              \/ AssignLiteral(type) \/ AssignUnseen(type)
              \/ Decode(type, TRUE) \/ Decode(type, FALSE)
  <2>1. ASSUME NEW type, AssignLiteral(type) \/ AssignUnseen(type) PROVE Goal
    BY <1>11, <2>1 DEF AssignLiteral, AssignUnseen
  <2>2. ASSUME NEW type, NEW tells, Decode(type, tells) PROVE Goal
    BY <1>4, <1>5, <2>2 DEF Decode
  <2>3. QED
    BY <1>12, <2>1, <2>2
<1>13. CASE \E method \in DOMAIN Results[pkg] : AssignResult(method)
  BY <1>11, <1>13 DEF AssignResult
<1>14. CASE \E status \in Statuses :
              \/ \E type \in DOMAIN Decls[pkg] :
                   WriteValue(status, type) \/ WriteOther(status, type)
              \/ WriteVariable(status) \/ WriteStatus(status) \/ WriteUnread(status)
  <2>1. PICK status \in Statuses :
              \/ \E type \in DOMAIN Decls[pkg] :
                   WriteValue(status, type) \/ WriteOther(status, type)
              \/ WriteVariable(status) \/ WriteStatus(status) \/ WriteUnread(status)
    BY <1>14
  <2>2. /\ Call /\ UNCHANGED components
        /\ (\E name : Enter(name, stack)) \/ UNCHANGED <<stack, visiting, refs>>
    BY <2>1 DEF WriteValue, WriteOther, WriteVariable, WriteStatus, WriteUnread, Answer
  <2>3. QED
    BY <1>4, <1>5, <2>2
<1>15. CASE \E status \in Statuses, message \in Messages : WriteError(status, message)
  <2>1. /\ Call /\ components' = WithError /\ refs' = refs \cup {<<Own, Error>>}
        /\ UNCHANGED <<stack, visiting>>
    BY <1>15 DEF WriteError
  <2>2. pkg' = pkg /\ docs' = "describing"
    BY <2>1 DEF Call
  <2>3. ComponentsInv'
    BY <1>1, <2>1, <2>2, ErrorDescribed
  <2>4. QED
    BY <1>1, <1>2, <2>1, <2>2, <2>3
<1>16. CASE \E idempotent \in BOOLEAN : EndOfHandler(idempotent)
  BY <1>9, <1>10, <1>16
<1>17. QED
  BY <1>6, <1>7, <1>8, <1>9, <1>12, <1>13, <1>14, <1>15, <1>16 DEF HandlerNext

LEMMA HandlerBegins == HandlerInit => HandlerInv
<1> SUFFICES ASSUME HandlerInit PROVE HandlerInv
  OBVIOUS
<1>1. /\ pkg \in Packages /\ docs = "next" /\ ambiguous = FALSE /\ stack = <<>> /\ visiting = {}
      /\ components = <<>> /\ refs = {} /\ responses = <<>> /\ sent = {} /\ decoded = <<>>
      /\ inferred = Unknown /\ told = FALSE
  BY DEF HandlerInit
<1>2. AnswersInv
  <2>1. DOMAIN responses = {} /\ Readable = {} /\ TypesInv
    BY <1>1 DEF Readable, TypesInv
  <2>2. decoded \in Seq([type : DOMAIN Decls[pkg], told : BOOLEAN])
    BY <1>1
  <2>3. QED
    BY <1>1, <2>1, <2>2 DEF AnswersInv
<1>3. StackInv
  BY <1>1, WayBegins DEF StackInv
<1>4. ComponentsInv
  BY <1>1 DEF ComponentsInv
<1>5. QED
  BY <1>1, <1>2, <1>3, <1>4 DEF HandlerInv

LEMMA HandlerStep == HandlerInv /\ [HandlerNext]_handlerVars => HandlerInv'
<1>1. ASSUME HandlerInv, HandlerNext PROVE HandlerInv'
  BY <1>1, AnswersStep, StackStep DEF HandlerInv
<1>2. ASSUME HandlerInv, UNCHANGED handlerVars PROVE HandlerInv'
  <2>1. AnswersInv'
    <3>1. /\ DOMAIN responses' = Readable'
          /\ \A status \in DOMAIN responses' : Shows(status)'
      BY <1>2, AnswersUntouched DEF HandlerInv, handlerVars
    <3>2. TypesInv'
      BY <1>2, TypesKept DEF HandlerInv, AnswersInv, handlerVars
    <3>3. QED
      BY <1>2, <3>1, <3>2 DEF HandlerInv, handlerVars, AnswersInv
  <2>2. StackInv'
    BY <1>2 DEF HandlerInv, handlerVars, StackInv, Deepest
  <2>3. ComponentsInv'
    BY <1>2 DEF HandlerInv, handlerVars, ComponentsInv
  <2>4. QED
    BY <1>2, <2>1, <2>2, <2>3 DEF HandlerInv, handlerVars
<1>3. QED
  BY <1>1, <1>2
-----------------------------------------------------------------------------
LEMMA ShownAsSent == HandlerInv => ResponsesAsSent
<1> SUFFICES ASSUME HandlerInv PROVE ResponsesAsSent
  OBVIOUS
<1>1. AnswersInv
  BY DEF HandlerInv
<1>2. ASSUME NEW status \in DOMAIN responses, Of(status, {"error", "key"}) = {}, ~ambiguous,
             \A s, t \in Of(status, Values) : s[3] = t[3], NEW s \in Of(status, Values)
      PROVE  \/ Schema(status) = s[3]
             \/ Schema(status) = Unknown /\ \E t \in Of(status, Values) : ~Tells(t)
  <2>1. PICK t \in Of(status, Values) : Records(responses[status].schema, t)
    BY <1>1, <1>2 DEF AnswersInv, Shows
  <2>2. s[3] = t[3] /\ t \in sent
    BY <1>2 DEF Of
  <2>3. CASE /\ t[2] = "value"
             /\ responses[status].schema = t[3] /\ responses[status].schema # Variable
    BY <2>2, <2>3 DEF Schema
  <2>4. CASE t[2] = "variable" /\ responses[status].schema = Variable
    <3>1. Schema(status) = inferred /\ t[3] = actual
      BY <1>1, <1>2, <2>2, <2>4 DEF Schema, AnswersInv, TypesInv
    <3>2. CASE told
      BY <1>1, <1>2, <2>2, <3>1, <3>2 DEF AnswersInv, TypesInv
    <3>3. CASE ~told
      <4>1. inferred = Unknown
        BY <1>1, <3>3 DEF AnswersInv, TypesInv
      <4>2. ~Tells(t)
        BY <2>4, <3>3 DEF Tells
      <4>3. QED
        BY <2>1, <3>1, <4>1, <4>2
    <3>4. QED
      BY <3>2, <3>3
  <2>5. CASE t[2] = "other" /\ responses[status].schema = Unknown
    <3>1. Schema(status) = Unknown
      BY <2>5 DEF Schema, Unknown, Variable
    <3>2. ~Tells(t)
      BY <2>5 DEF Tells
    <3>3. QED
      BY <2>1, <3>1, <3>2
  <2>6. QED
    BY <2>1, <2>3, <2>4, <2>5 DEF Records
<1>3. \A status \in DOMAIN responses :
        Of(status, Values) = {} =>
          /\ responses[status].schema = Error
          /\ ToSet(responses[status].messages) = {s[3] : s \in Of(status, {"error", "key"})}
          /\ Of(status, {"key"}) = {} => IsInjective(responses[status].messages)
  BY <1>1 DEF AnswersInv, Shows
<1>4. /\ DOMAIN responses = Readable
      /\ decoded # <<>> => request = IF Head(decoded).told THEN Head(decoded).type ELSE Unknown
  BY <1>1 DEF AnswersInv
<1>5. QED
  BY <1>2, <1>3, <1>4 DEF ResponsesAsSent

\* A way that is longer than Deepest comes back to a type without a struct between.
LEMMA LongWaysCycle ==
  ASSUME NEW p \in Packages, NEW V, NEW fs, Way(p, fs, V),
         Len(fs) > (Cardinality(DOMAIN Decls[p]) + 1) * (Cardinality(DOMAIN Decls[p]) + 1)
  PROVE  Cyclic(p)
<1> DEFINE N == DOMAIN Decls[p]
           c == Cardinality(N)
           n == Len(fs)
           Met(k) == {name \in N : StructIn(p, name) /\ \E i \in 1 .. k : fs[i].name = name}
           T == (0 .. c) \X N
           f == [k \in 1 .. n |-> <<Cardinality(Met(k)), fs[k].name>>]
<1>1. fs \in Seq(Frames(p)) /\ n \in Nat /\ DOMAIN fs = 1 .. n
  BY DEF Way
<1>2. \A k \in 1 .. n : fs[k].name \in N
  <2>1. \A k \in 1 .. n : fs[k] \in Frames(p)
    BY <1>1
  <2>2. QED
    BY <2>1 DEF Frames
<1>3. IsFiniteSet(N) /\ c \in Nat
  BY HandlerDocsAssumption, FS_CardinalityType
<1>4. \A k : IsFiniteSet(Met(k)) /\ Cardinality(Met(k)) \in 0 .. c
  <2>1. ASSUME NEW k
        PROVE  IsFiniteSet(Met(k)) /\ Cardinality(Met(k)) <= c
    <3>1. Met(k) \in SUBSET N
      OBVIOUS
    <3> HIDE DEF Met, N
    <3>2. QED
      BY <1>3, <3>1, FS_Subset DEF c
  <2> HIDE DEF Met, N, c
  <2>2. \A k : Cardinality(Met(k)) \in Nat
    BY <2>1, FS_CardinalityType
  <2>3. QED
    BY <1>3, <2>1, <2>2
<1>5. IsFiniteSet(T) /\ Cardinality(T) = (c + 1) * c
  <2>1. IsFiniteSet(0 .. c) /\ Cardinality(0 .. c) = c + 1
    BY <1>3, FS_Interval
  <2> HIDE DEF N
  <2>2. QED
    BY <1>3, <2>1, FS_Product
<1>6. IsFiniteSet(1 .. n) /\ Cardinality(1 .. n) = n
  <2> HIDE DEF n
  <2>1. QED
    BY <1>1, FS_Interval
<1> HIDE DEF N, c, n, Met
<1>7. f \in [1 .. n -> T]
  BY <1>2, <1>4
<1>8. Cardinality(T) < Cardinality(1 .. n)
  <2>1. n > (c + 1) * (c + 1)
    BY DEF n, c, N
  <2>2. (c + 1) * c + (c + 1) = (c + 1) * (c + 1) /\ (c + 1) * c \in Nat
    BY <1>3
  <2>3. QED
    BY <1>1, <1>3, <1>5, <1>6, <2>1, <2>2
<1>9. PICK a \in 1 .. n, b \in 1 .. n : a # b /\ f[a] = f[b]
  <2> HIDE DEF f, T
  <2>1. QED
    BY <1>5, <1>6, <1>7, <1>8, FS_PigeonHole
<1>10. PICK i \in 1 .. n, j \in 1 .. n :
         i < j /\ Cardinality(Met(i)) = Cardinality(Met(j)) /\ fs[i].name = fs[j].name
  BY <1>1, <1>9
<1>11. Met(i) = Met(j)
  <2>1. Met(i) \in SUBSET Met(j)
    <3>1. \A k \in 1 .. i : k \in 1 .. j
      BY <1>1, <1>10
    <3>2. QED
      BY <3>1 DEF Met
  <2>2. QED
    BY <1>4, <1>10, <2>1, FS_Subset
<1> DEFINE s == {fs[k].name : k \in i + 1 .. j}
<1>12. \A k \in i + 1 .. j : k \in 1 .. n /\ k > 1 /\ k # i
  BY <1>1
<1>13. ASSUME NEW k \in i + 1 .. j
       PROVE  ~StructIn(p, fs[k].name)
  <2>1. SUFFICES ASSUME StructIn(p, fs[k].name) PROVE FALSE
    OBVIOUS
  <2>2. fs[k].name \in Met(j)
    <3>1. k \in 1 .. j
      BY <1>1
    <3>2. QED
      BY <1>2, <1>12, <2>1, <3>1 DEF Met
  <2>3. PICK l \in 1 .. i : fs[l].name = fs[k].name
    BY <1>11, <2>2 DEF Met
  <2>4. l \in 1 .. n /\ l # k
    BY <1>1, <1>10, <2>3
  <2>5. QED
    BY <1>1, <1>12, <2>1, <2>3, <2>4 DEF Way
<1>14. j \in i + 1 .. j /\ i + 1 \in i + 1 .. j
  BY <1>1, <1>10
<1>15. s \in (SUBSET {name \in DOMAIN Decls[p] : ~Decls[p][name].struct}) \ {{}}
  <2>1. \A k \in i + 1 .. j : fs[k].name \in DOMAIN Decls[p] /\ ~Decls[p][fs[k].name].struct
    BY <1>2, <1>12, <1>13 DEF StructIn, N
  <2>2. fs[j].name \in s
    BY <1>14
  <2>3. s \subseteq {name \in DOMAIN Decls[p] : ~Decls[p][name].struct}
    BY <2>1
  <2> HIDE DEF s
  <2>4. s # {} /\ s \in SUBSET {name \in DOMAIN Decls[p] : ~Decls[p][name].struct}
    BY <2>2, <2>3
  <2>5. QED
    BY <2>4
<1>16. ASSUME NEW name \in s
       PROVE  ToSet(Decls[p][name].uses) \cap s # {}
  <2>1. PICK k \in i + 1 .. j : name = fs[k].name
    OBVIOUS
  <2>2. PICK l \in i + 1 .. j : fs[l].name \in UsedIn(p, fs[k].name)
    <3>1. CASE k = j
      <4>1. i + 1 \in DOMAIN fs /\ i + 1 > 1 /\ (i + 1) - 1 = i
        BY <1>1, <1>12, <1>14
      <4>2. fs[i + 1].name \in UsedIn(p, fs[i].name)
        BY <4>1 DEF Way
      <4>3. QED
        BY <1>10, <1>14, <3>1, <4>2
    <3>2. CASE k # j
      <4>1. k + 1 \in i + 1 .. j /\ k + 1 \in DOMAIN fs /\ k + 1 > 1 /\ (k + 1) - 1 = k
        BY <1>1, <1>12, <3>2
      <4>2. fs[k + 1].name \in UsedIn(p, fs[k].name)
        BY <4>1 DEF Way
      <4>3. QED
        BY <4>1, <4>2
    <3>3. QED
      BY <3>1, <3>2
  <2>3. fs[l].name \in s
    OBVIOUS
  <2>4. QED
    BY <2>1, <2>2, <2>3 DEF UsedIn
<1>17. QED
  BY <1>15, <1>16 DEF Cyclic

LEMMA RefsAreDescribed == HandlerInv => RefsMeanTheirTypes
<1> SUFFICES ASSUME HandlerInv PROVE RefsMeanTheirTypes
  OBVIOUS
<1>1. /\ pkg \in Packages /\ Way(pkg, stack, visiting) /\ ComponentsInv
      /\ docs = "done" => stack = <<>>
      /\ docs = "crashed" => Len(stack) > Deepest
  BY DEF HandlerInv, StackInv
<1>2. ASSUME docs = "done", NEW ref \in refs
      PROVE  /\ ref[2] \in DOMAIN components
             /\ components[ref[2]] = ref[1] \/ \E other \in refs \ {ref} : other[2] = ref[2]
  <2>1. visiting = {}
    BY <1>1, <1>2, WayBegins
  <2>2. ref[2] \in DOMAIN components
    BY <1>1, <2>1 DEF ComponentsInv
  <2>3. PICK other : other = <<components[ref[2]], ref[2]>>
    OBVIOUS
  <2>4. other \in refs /\ other[1] = components[ref[2]] /\ other[2] = ref[2]
    BY <1>1, <2>2, <2>3 DEF ComponentsInv
  <2>5. QED
    BY <2>2, <2>4
<1>3. docs = "crashed" => Cyclic(pkg)
  BY <1>1, LongWaysCycle DEF Deepest
<1>4. QED
  BY <1>2, <1>3 DEF RefsMeanTheirTypes

(***************************************************************************)
(* The part that describes handlers takes HandlerDocs' steps only, and the *)
(* others leave it alone.                                                  *)
(***************************************************************************)
LEMMA AlwaysHandlerInv == MakeGenSpec => []HandlerInv
<1>1. MakeGenInit => HandlerInv
  BY HandlerBegins DEF MakeGenInit
<1>2. ASSUME HandlerInv, [MakeGenNext]_makeGenVars PROVE HandlerInv'
  <2>1. [HandlerNext]_handlerVars
    BY <1>2 DEF MakeGenNext, makeGenVars, Files, Wiring, Routes, Query, Handlers, Ended
  <2>2. QED
    BY <1>2, <2>1, HandlerStep
<1>3. QED
  BY <1>1, <1>2, PTL DEF MakeGenSpec

(***************************************************************************)
(* For any handlers, results and messages: the document has the statuses   *)
(* that the source spells, the messages of those that only report errors,  *)
(* and of values of one type that type, or an object where the source does *)
(* not tell it.                                                            *)
(***************************************************************************)
THEOREM DocumentsShowAnswers == MakeGenSpec => []ResponsesAsSent
BY AlwaysHandlerInv, ShownAsSent, PTL

(***************************************************************************)
(* For any declarations: every schema that is referred to is described, by *)
(* a struct of that name in the package that refers to it or another one;  *)
(* and docsgen only dies of types that contain themselves.                 *)
(***************************************************************************)
THEOREM DocumentsAreClosed == MakeGenSpec => []RefsMeanTheirTypes
BY AlwaysHandlerInv, RefsAreDescribed, PTL
-----------------------------------------------------------------------------
(***************************************************************************)
(* docsgen's routes: what the walker knows and what the program means.     *)
(***************************************************************************)
LEMMA LastOf ==
  ASSUME NEW n \in Nat, NEW S, S \subseteq 1 .. n, S # {}
  PROVE  \E x \in S : \A y \in S : y <= x
<1> DEFINE Above(x) == x .. n
           Aboves == {Above(x) : x \in S}
<1>1. Aboves \subseteq FiniteSubsetsOf(Nat) /\ Aboves # {}
  <2>1. ASSUME NEW x \in S
        PROVE  Above(x) \subseteq Nat /\ IsFiniteSet(Above(x))
    BY FS_Interval
  <2>2. QED
    BY <2>1 DEF FiniteSubsetsOf
<1>2. PICK least \in Aboves : \A b \in Aboves : <<b, least>> \notin StrictSubsetOrdering(Nat)
  <2> HIDE DEF Aboves
  <2>1. QED
    BY <1>1, WFMin, FS_StrictSubsetOrderingWellFounded
<1>3. PICK x \in S : least = Above(x)
  OBVIOUS
<1>4. ASSUME NEW y \in S, ~(y <= x)
      PROVE  FALSE
  <2>1. x \in Above(x) /\ x \notin Above(y) /\ Above(y) \subseteq Above(x)
    BY <1>4
  <2>2. Above(y) # Above(x)
    BY <2>1
  <2>3. <<Above(y), Above(x)>> \in StrictSubsetOrdering(Nat)
    BY <2>1, <2>2 DEF StrictSubsetOrdering
  <2>4. QED
    BY <1>2, <1>3, <2>3
<1>5. QED
  BY <1>4

LEMMA MeansOne ==
  ASSUME NEW fs, NEW k \in Nat, NEW var, NEW i, NEW j, Means(fs, k, var, i), Means(fs, k, var, j)
  PROVE  i = j
<1>1. i \in 1 .. k /\ j \in 1 .. k
  BY DEF Means
<1>2. i < j => j \in i + 1 .. k
  BY <1>1
<1>3. j < i => i \in j + 1 .. k
  BY <1>1
<1>4. ~(i < j) /\ ~(j < i)
  BY <1>2, <1>3 DEF Means
<1>5. QED
  BY <1>1, <1>4

LEMMA TabledFrames ==
  ASSUME NEW n \in Nat, n # 0, NEW gs, gs = [k \in 1 .. n |-> gs[k]]
  PROVE  gs \in Seq(ToSet(gs)) /\ gs # <<>> /\ Len(gs) = n /\ DOMAIN gs = 1 .. n
<1>1. DOMAIN gs = 1 .. n /\ \A k \in 1 .. n : gs[k] \in ToSet(gs)
  BY DEF ToSet
<1>2. gs \in [1 .. n -> ToSet(gs)]
  BY <1>1
<1>3. gs \in Seq(ToSet(gs)) /\ Len(gs) = n
  BY <1>1, <1>2
<1>4. QED
  BY <1>1, <1>3

LEMMA FramesAre ==
  ASSUME frames \in Seq(ToSet(frames)), frames # <<>>
  PROVE  /\ Len(frames) \in Nat /\ Len(frames) # 0 /\ DOMAIN frames = 1 .. Len(frames)
         /\ Len(frames) \in DOMAIN frames /\ Top = frames[Len(frames)]
         /\ frames = [k \in 1 .. Len(frames) |-> frames[k]]
BY DEF Top, Last

LEMMA InnermostMeans ==
  ASSUME frames \in Seq(ToSet(frames)), frames # <<>>, NEW var, Declared(var)
  PROVE  Means(frames, Len(frames), var, Innermost(var))
<1> DEFINE S == {k \in DOMAIN frames : Declares(k, var)}
           n == Len(frames)
<1>1. n \in Nat /\ DOMAIN frames = 1 .. n
  BY FramesAre
<1>2. S \subseteq 1 .. n /\ S # {}
  BY <1>1 DEF Declared
<1>3. PICK x \in S : \A y \in S : y <= x
  <2> HIDE DEF S, n
  <2>1. QED
    BY <1>1, <1>2, LastOf
<1>4. \E k \in DOMAIN frames : /\ Declares(k, var)
                               /\ \A j \in DOMAIN frames : Declares(j, var) => j <= k
  BY <1>3
<1>5. PICK k : k = Innermost(var)
  OBVIOUS
<1>6. /\ k \in DOMAIN frames /\ Declares(k, var)
      /\ \A j \in DOMAIN frames : Declares(j, var) => j <= k
  BY <1>4, <1>5 DEF Innermost
<1>7. \A i \in k + 1 .. n : i \in 1 .. n /\ ~(i <= k)
  BY <1>1, <1>6
<1>8. Means(frames, n, var, k)
  BY <1>1, <1>6, <1>7 DEF Means, Declares
<1>9. QED
  BY <1>5, <1>8

LEMMA AgreeAt ==
  ASSUME NEW fs, NEW seen, Agree(fs, seen), NEW k \in DOMAIN fs
  PROVE  /\ \A var \in DOMAIN fs[k].bound : IsBound(fs[k].bound[var])
         /\ fs[k].followed => KnowsRight(fs, k)
         /\ fs[k].followed /\ AllKnown(seen) => KnowsAll(fs, k)
<1>1. /\ \A var \in DOMAIN fs[k].bound : IsBound(fs[k].bound[var])
      /\ fs[k].followed => KnowsRight(fs, k) /\ (AllKnown(seen) => KnowsAll(fs, k))
  BY Zenon DEF Agree
<1>2. ASSUME fs[k].followed
      PROVE  KnowsRight(fs, k) /\ (AllKnown(seen) => KnowsAll(fs, k))
  BY <1>1, <1>2, Zenon
<1>3. ASSUME fs[k].followed, AllKnown(seen)
      PROVE  KnowsAll(fs, k)
  BY <1>2, <1>3, Zenon
<1>4. QED
  BY <1>1, <1>2, <1>3

\* The value of a router expression, and what the walker makes of it.
LEMMA ValueAgrees ==
  ASSUME frames \in Seq(ToSet(frames)), frames # <<>>, routers = 1,
         NEW seen, Agree(frames, seen), NEW expr, expr.var # New, Usable(expr)
  PROVE  /\ GoValue(expr) = [router |-> 1, path |-> GoValue(expr).path]
         /\ Top.followed /\ Follows(expr, Top.known)
              => RouterPath(expr, Top.known) = GoValue(expr).path
         /\ /\ AllKnown(seen) /\ Top.followed
            /\ \A k \in DOMAIN expr.calls : expr.calls[k].name \in {"With", "Group"}
            => Follows(expr, Top.known)
<1> DEFINE n == Len(frames)
           var == expr.var
           j == Innermost(var)
           value == frames[j].bound[var]
<1>1. Declared(var) /\ value # None /\ GoValue(expr) = [value EXCEPT !.path = Join(@, expr.calls)]
  BY DEF Usable, ValueOf, GoValue
<1>2. Means(frames, n, var, j)
  BY <1>1, InnermostMeans
<1>3. n \in Nat /\ DOMAIN frames = 1 .. n /\ n \in DOMAIN frames /\ Top = frames[n]
  BY FramesAre
<1> HIDE DEF n, j, value
<1>4. j \in DOMAIN frames /\ var \in DOMAIN frames[j].bound
  BY <1>2, <1>3 DEF Means
<1>5. value = [router |-> 1, path |-> value.path]
  <2>1. IsBound(value)
    BY <1>4, AgreeAt DEF value
  <2>2. QED
    BY <1>1, <2>1 DEF IsBound
<1>6. PICK p : p = value.path
  OBVIOUS
<1>7. GoValue(expr) = [router |-> 1, path |-> Join(p, expr.calls)]
  BY <1>1, <1>5, <1>6
<1>8. GoValue(expr).path = Join(p, expr.calls)
  BY <1>7
<1>9. ASSUME Top.followed, Follows(expr, Top.known)
      PROVE  RouterPath(expr, Top.known) = Join(p, expr.calls)
  <2>1. var \in DOMAIN Top.known
    BY <1>9 DEF Follows
  <2>2. PICK i \in 1 .. n : /\ Means(frames, n, var, i)
                            /\ frames[i].bound[var] = [router |-> 1, path |-> Top.known[var]]
    <3>1. KnowsRight(frames, n)
      BY <1>3, <1>9, AgreeAt
    <3>2. QED
      BY <1>3, <2>1, <3>1 DEF KnowsRight
  <2>3. i = j
    BY <1>2, <1>3, <2>2, MeansOne
  <2>4. value = [router |-> 1, path |-> Top.known[var]]
    BY <2>2, <2>3 DEF value
  <2>5. p = Top.known[var]
    BY <1>6, <2>4
  <2>6. QED
    BY <2>5 DEF RouterPath
<1>10. ASSUME AllKnown(seen), Top.followed,
              \A k \in DOMAIN expr.calls : expr.calls[k].name \in {"With", "Group"}
       PROVE  Follows(expr, Top.known)
  <2>1. KnowsAll(frames, n)
    BY <1>3, <1>10, AgreeAt
  <2>2. var \in DOMAIN Top.known
    BY <1>1, <1>2, <1>3, <1>4, <2>1 DEF KnowsAll, value
  <2>3. QED
    BY <1>10, <2>2 DEF Follows
<1>11. QED
  BY <1>7, <1>8, <1>9, <1>10

LEMMA AgreeLess ==
  ASSUME NEW fs, NEW seen, NEW more, Agree(fs, seen), seen \subseteq more
  PROVE  Agree(fs, more)
BY DEF Agree, AllKnown

\* What a block means depends on the blocks up to it.
LEMMA AgreeUpTo ==
  ASSUME NEW fs, NEW gs, NEW k \in Nat, \A i \in 1 .. k : gs[i] = fs[i]
  PROVE  /\ \A var, j : Means(gs, k, var, j) <=> Means(fs, k, var, j)
         /\ k # 0 => /\ KnowsRight(gs, k) <=> KnowsRight(fs, k)
                     /\ KnowsAll(gs, k) <=> KnowsAll(fs, k)
<1>1. ASSUME NEW var, NEW j
      PROVE  Means(gs, k, var, j) <=> Means(fs, k, var, j)
  <2>1. j \in 1 .. k => \A i \in j + 1 .. k : i \in 1 .. k
    OBVIOUS
  <2>2. QED
    BY <2>1 DEF Means
<1>2. ASSUME k # 0
      PROVE  (KnowsRight(gs, k) <=> KnowsRight(fs, k)) /\ (KnowsAll(gs, k) <=> KnowsAll(fs, k))
  <2>1. k \in 1 .. k
    BY <1>2
  <2>2. gs[k] = fs[k]
    BY <2>1
  <2>3. QED
    BY <1>1, <2>2 DEF KnowsRight, KnowsAll
<1>3. QED
  BY <1>1, <1>2

\* A variable of the innermost block is set, and what the walker then knows.
SetIn(fs, gs, n, var, value) ==
  /\ DOMAIN fs = 1 .. n /\ DOMAIN gs = 1 .. n
  /\ \A k \in 1 .. n : k # n => gs[k] = fs[k]
  /\ gs[n].followed = fs[n].followed
  /\ DOMAIN gs[n].bound = DOMAIN fs[n].bound \cup {var} /\ gs[n].bound[var] = value
  /\ \A v \in DOMAIN fs[n].bound : v # var => gs[n].bound[v] = fs[n].bound[v]

LearntIn(fs, gs, n, var, value, more) ==
  /\ DOMAIN gs[n].known \ {var} = DOMAIN fs[n].known \ {var}
  /\ \A v \in DOMAIN fs[n].known : v # var => gs[n].known[v] = fs[n].known[v]
  /\ var \in DOMAIN gs[n].known => value = [router |-> 1, path |-> gs[n].known[var]]
  /\ AllKnown(more) /\ value # None => var \in DOMAIN gs[n].known

LEMMA AgreeSet ==
  ASSUME NEW n \in Nat, n # 0, NEW fs, NEW gs, NEW var, NEW value, IsBound(value),
         SetIn(fs, gs, n, var, value),
         NEW seen, NEW more, Agree(fs, seen), seen \subseteq more,
         fs[n].followed => LearntIn(fs, gs, n, var, value, more)
  PROVE  Agree(gs, more)
<1> USE DEF SetIn, LearntIn
<1>1. ASSUME NEW k \in 1 .. n, k # n
      PROVE  /\ \A v \in DOMAIN gs[k].bound : IsBound(gs[k].bound[v])
             /\ gs[k].followed => KnowsRight(gs, k) /\ (AllKnown(more) => KnowsAll(gs, k))
  <2>1. k \in Nat /\ k # 0 /\ \A i \in 1 .. k : i \in 1 .. n /\ i # n
    BY <1>1
  <2>2. gs[k] = fs[k] /\ \A i \in 1 .. k : gs[i] = fs[i]
    BY <1>1, <2>1
  <2>3. (KnowsRight(gs, k) <=> KnowsRight(fs, k)) /\ (KnowsAll(gs, k) <=> KnowsAll(fs, k))
    BY <2>1, <2>2, AgreeUpTo
  <2>4. AllKnown(more) => AllKnown(seen)
    BY DEF AllKnown
  <2>5. QED
    BY <2>2, <2>3, <2>4, AgreeAt
<1>2. \A v \in DOMAIN gs[n].bound : IsBound(gs[n].bound[v])
  <2>1. n \in DOMAIN fs
    OBVIOUS
  <2>2. QED
    BY <2>1, AgreeAt
<1>3. ASSUME NEW v, v # var, NEW j
      PROVE  Means(gs, n, v, j) <=> Means(fs, n, v, j)
  <2>1. \A i \in 1 .. n : v \in DOMAIN gs[i].bound <=> v \in DOMAIN fs[i].bound
    BY <1>3
  <2>2. j \in 1 .. n => \A i \in j + 1 .. n : i \in 1 .. n
    OBVIOUS
  <2>3. QED
    BY <2>1, <2>2 DEF Means
<1>4. Means(gs, n, var, n)
  BY DEF Means
<1>5. \A v, j : v # var /\ Means(fs, n, v, j) => j \in 1 .. n /\ gs[j].bound[v] = fs[j].bound[v]
  BY DEF Means
<1>6. ASSUME gs[n].followed
      PROVE  KnowsRight(gs, n)
  <2>1. fs[n].followed /\ n \in DOMAIN fs /\ KnowsRight(fs, n)
    <3>1. fs[n].followed /\ n \in DOMAIN fs
      BY <1>6
    <3>2. QED
      BY <3>1, AgreeAt
  <2>2. ASSUME NEW v \in DOMAIN gs[n].known, v # var
        PROVE  \E j \in 1 .. n : /\ Means(gs, n, v, j)
                                 /\ gs[j].bound[v] = [router |-> 1, path |-> gs[n].known[v]]
    <3>1. v \in DOMAIN fs[n].known /\ gs[n].known[v] = fs[n].known[v]
      BY <2>1, <2>2
    <3>2. PICK j \in 1 .. n : /\ Means(fs, n, v, j)
                              /\ fs[j].bound[v] = [router |-> 1, path |-> fs[n].known[v]]
      BY <2>1, <3>1 DEF KnowsRight
    <3>3. Means(gs, n, v, j) /\ gs[j].bound[v] = fs[j].bound[v]
      BY <1>3, <1>5, <2>2, <3>2
    <3>4. QED
      BY <3>1, <3>2, <3>3
  <2>3. ASSUME var \in DOMAIN gs[n].known
        PROVE  \E j \in 1 .. n : /\ Means(gs, n, var, j)
                                 /\ gs[j].bound[var] = [router |-> 1, path |-> gs[n].known[var]]
    <3>1. n \in 1 .. n /\ gs[n].bound[var] = [router |-> 1, path |-> gs[n].known[var]]
      BY <2>1, <2>3
    <3>2. QED
      BY <1>4, <3>1
  <2>4. QED
    BY <2>2, <2>3 DEF KnowsRight
<1>7. ASSUME gs[n].followed, AllKnown(more)
      PROVE  KnowsAll(gs, n)
  <2>1. fs[n].followed /\ n \in DOMAIN fs /\ KnowsAll(fs, n)
    <3>1. fs[n].followed /\ n \in DOMAIN fs /\ AllKnown(seen)
      BY <1>7 DEF AllKnown
    <3>2. QED
      BY <3>1, AgreeAt
  <2>2. ASSUME NEW j \in 1 .. n, NEW v \in DOMAIN gs[j].bound,
               Means(gs, n, v, j), gs[j].bound[v] # None
        PROVE  v \in DOMAIN gs[n].known
    <3>1. CASE v = var
      <4>1. j = n
        BY <1>4, <2>2, <3>1, MeansOne
      <4>2. QED
        BY <1>7, <2>1, <2>2, <3>1, <4>1
    <3>2. CASE v # var
      <4>1. Means(fs, n, v, j) /\ gs[j].bound[v] = fs[j].bound[v]
        BY <1>3, <1>5, <2>2, <3>2
      <4>2. v \in DOMAIN fs[j].bound
        BY <4>1 DEF Means
      <4>3. v \in DOMAIN fs[n].known
        BY <2>1, <2>2, <4>1, <4>2 DEF KnowsAll
      <4>4. QED
        BY <2>1, <3>2, <4>3
    <3>3. QED
      BY <3>1, <3>2
  <2>3. QED
    BY <2>2 DEF KnowsAll
<1>8. QED
  BY <1>1, <1>2, <1>6, <1>7 DEF Agree

\* A block is opened in another one, with a router or without.
Opens(outer, f) ==
  /\ \A v \in DOMAIN f.bound : f.bound[v] = [router |-> 1, path |-> f.bound[v].path]
  /\ f.followed => /\ outer.followed
                   /\ DOMAIN f.known = DOMAIN outer.known \cup DOMAIN f.bound
                   /\ \A v \in DOMAIN f.known :
                        f.known[v] = IF v \in DOMAIN f.bound THEN f.bound[v].path
                                     ELSE outer.known[v]

LEMMA AgreePush ==
  ASSUME NEW n \in Nat, n # 0, NEW fs, DOMAIN fs = 1 .. n, NEW gs, DOMAIN gs = 1 .. n + 1,
         \A k \in 1 .. n : gs[k] = fs[k], NEW f, gs[n + 1] = f, Opens(fs[n], f),
         NEW seen, NEW more, Agree(fs, seen), seen \subseteq more
  PROVE  Agree(gs, more)
<1> USE DEF Opens
<1>1. ASSUME NEW k \in 1 .. n
      PROVE  /\ \A v \in DOMAIN gs[k].bound : IsBound(gs[k].bound[v])
             /\ gs[k].followed => KnowsRight(gs, k) /\ (AllKnown(more) => KnowsAll(gs, k))
  <2>1. k \in Nat /\ k # 0 /\ \A i \in 1 .. k : i \in 1 .. n
    OBVIOUS
  <2>2. gs[k] = fs[k] /\ \A i \in 1 .. k : gs[i] = fs[i]
    BY <1>1, <2>1
  <2>3. (KnowsRight(gs, k) <=> KnowsRight(fs, k)) /\ (KnowsAll(gs, k) <=> KnowsAll(fs, k))
    BY <2>1, <2>2, AgreeUpTo
  <2>4. AllKnown(more) => AllKnown(seen)
    BY DEF AllKnown
  <2>5. QED
    BY <2>2, <2>3, <2>4, AgreeAt
<1>2. \A v \in DOMAIN gs[n + 1].bound : IsBound(gs[n + 1].bound[v])
  BY DEF IsBound
<1>3. ASSUME NEW v, NEW j
      PROVE  Means(gs, n + 1, v, j) <=>
               IF v \in DOMAIN f.bound THEN j = n + 1 ELSE Means(fs, n, v, j)
  <2>1. CASE j = n + 1
    <3>1. j \in 1 .. n + 1 /\ (j + 1) .. (n + 1) = {} /\ j \notin 1 .. n
      BY <2>1
    <3>2. QED
      BY <2>1, <3>1 DEF Means
  <2>2. CASE j # n + 1
    <3>1. ASSUME j \in 1 .. n
          PROVE  \A i : i \in j + 1 .. n + 1 <=> i \in j + 1 .. n \/ i = n + 1
      BY <3>1
    <3>2. j \in 1 .. n + 1 <=> j \in 1 .. n
      BY <2>2
    <3>3. \A i \in j + 1 .. n : j \in 1 .. n => gs[i] = fs[i]
      OBVIOUS
    <3>4. QED
      BY <2>2, <3>1, <3>2, <3>3 DEF Means
  <2>3. QED
    BY <2>1, <2>2
<1>4. \A v, j : Means(fs, n, v, j) => j \in 1 .. n /\ j \in 1 .. n + 1 /\ gs[j] = fs[j]
  BY DEF Means
<1>5. ASSUME gs[n + 1].followed
      PROVE  KnowsRight(gs, n + 1)
  <2>1. n \in DOMAIN fs /\ KnowsRight(fs, n)
    <3>1. fs[n].followed /\ n \in DOMAIN fs
      BY <1>5
    <3>2. QED
      BY <3>1, AgreeAt
  <2>2. ASSUME NEW v \in DOMAIN f.known
        PROVE  \E j \in 1 .. n + 1 : /\ Means(gs, n + 1, v, j)
                                     /\ gs[j].bound[v] = [router |-> 1, path |-> f.known[v]]
    <3>1. CASE v \in DOMAIN f.bound
      <4>1. n + 1 \in 1 .. n + 1 /\ Means(gs, n + 1, v, n + 1)
        BY <1>3, <3>1
      <4>2. f.known[v] = f.bound[v].path
        BY <1>5, <2>2, <3>1
      <4>3. gs[n + 1].bound[v] = [router |-> 1, path |-> f.known[v]]
        BY <3>1, <4>2
      <4>4. QED
        BY <4>1, <4>3
    <3>2. CASE v \notin DOMAIN f.bound
      <4>1. v \in DOMAIN fs[n].known /\ f.known[v] = fs[n].known[v]
        BY <1>5, <2>2, <3>2
      <4>2. PICK j \in 1 .. n : /\ Means(fs, n, v, j)
                                /\ fs[j].bound[v] = [router |-> 1, path |-> fs[n].known[v]]
        BY <2>1, <4>1 DEF KnowsRight
      <4>3. Means(gs, n + 1, v, j) /\ gs[j] = fs[j] /\ j \in 1 .. n + 1
        BY <1>3, <1>4, <3>2, <4>2
      <4>4. QED
        BY <4>1, <4>2, <4>3
    <3>3. QED
      BY <3>1, <3>2
  <2>3. QED
    BY <2>2 DEF KnowsRight
<1>6. ASSUME gs[n + 1].followed, AllKnown(more)
      PROVE  KnowsAll(gs, n + 1)
  <2>1. n \in DOMAIN fs /\ KnowsAll(fs, n)
    <3>1. fs[n].followed /\ n \in DOMAIN fs /\ AllKnown(seen)
      BY <1>6 DEF AllKnown
    <3>2. QED
      BY <3>1, AgreeAt
  <2>2. ASSUME NEW j \in 1 .. n + 1, NEW v \in DOMAIN gs[j].bound,
               Means(gs, n + 1, v, j), gs[j].bound[v] # None
        PROVE  v \in DOMAIN f.known
    <3>1. CASE v \in DOMAIN f.bound
      BY <1>6, <3>1
    <3>2. CASE v \notin DOMAIN f.bound
      <4>1. Means(fs, n, v, j) /\ j \in 1 .. n /\ gs[j] = fs[j]
        BY <1>3, <1>4, <2>2, <3>2
      <4>2. v \in DOMAIN fs[n].known
        BY <2>1, <2>2, <4>1 DEF KnowsAll
      <4>3. QED
        BY <1>6, <4>2
    <3>3. QED
      BY <3>1, <3>2
  <2>3. QED
    BY <2>2 DEF KnowsAll
<1>7. ASSUME NEW k \in DOMAIN gs
      PROVE  /\ \A v \in DOMAIN gs[k].bound : IsBound(gs[k].bound[v])
             /\ gs[k].followed => KnowsRight(gs, k) /\ (AllKnown(more) => KnowsAll(gs, k))
  <2>1. CASE k = n + 1
    BY <1>2, <1>5, <1>6, <2>1
  <2>2. CASE k # n + 1
    <3>1. k \in 1 .. n
      BY <2>2
    <3>2. QED
      BY <1>1, <3>1
  <2>3. QED
    BY <2>1, <2>2
<1>8. QED
  BY <1>7 DEF Agree

\* The innermost block is closed.
LEMMA AgreePop ==
  ASSUME NEW n \in Nat, n # 0, NEW fs, DOMAIN fs = 1 .. n + 1, NEW gs, DOMAIN gs = 1 .. n,
         \A k \in 1 .. n : gs[k] = fs[k], NEW seen, Agree(fs, seen)
  PROVE  Agree(gs, seen)
<1>1. ASSUME NEW k \in 1 .. n
      PROVE  /\ \A v \in DOMAIN gs[k].bound : IsBound(gs[k].bound[v])
             /\ gs[k].followed => KnowsRight(gs, k) /\ (AllKnown(seen) => KnowsAll(gs, k))
  <2>1. k \in Nat /\ k # 0 /\ k \in 1 .. n + 1 /\ \A i \in 1 .. k : i \in 1 .. n
    OBVIOUS
  <2>2. gs[k] = fs[k] /\ \A i \in 1 .. k : gs[i] = fs[i]
    BY <1>1, <2>1
  <2>3. (KnowsRight(gs, k) <=> KnowsRight(fs, k)) /\ (KnowsAll(gs, k) <=> KnowsAll(fs, k))
    BY <2>1, <2>2, AgreeUpTo
  <2>4. QED
    BY <2>1, <2>2, <2>3, AgreeAt
<1>2. QED
  BY <1>1 DEF Agree
-----------------------------------------------------------------------------
\* Tables of frames that steps make.
LEMMA FramesSet ==
  ASSUME FramesInv, NEW known, NEW bound,
         SetTop([Top EXCEPT !.known = known, !.bound = bound])
  PROVE  /\ FramesInv' /\ Len(frames') = Len(frames) /\ DOMAIN frames' = 1 .. Len(frames)
         /\ \A k \in 1 .. Len(frames) : k # Len(frames) => frames'[k] = frames[k]
         /\ frames'[Len(frames)].known = known /\ frames'[Len(frames)].bound = bound
         /\ frames'[Len(frames)].followed = Top.followed
<1> DEFINE n == Len(frames)
<1>1. /\ n \in Nat /\ n # 0 /\ DOMAIN frames = 1 .. n /\ n \in DOMAIN frames /\ Top = frames[n]
  BY FramesAre DEF FramesInv
<1>2. Top = Frame(Top.known, Top.bound, Top.followed) /\ Top.followed \in BOOLEAN
  BY <1>1 DEF FramesInv, IsFrame
<1>3. PICK f : f = [Top EXCEPT !.known = known, !.bound = bound]
  OBVIOUS
<1>4. f = Frame(known, bound, Top.followed)
  BY <1>2, <1>3 DEF Frame
<1>5. f.known = known /\ f.bound = bound /\ f.followed = Top.followed
  BY <1>4 DEF Frame
<1>6. frames' = [frames EXCEPT ![n] = f]
  BY <1>3 DEF SetTop
<1> HIDE DEF n
<1>7. /\ frames' = [k \in 1 .. n |-> frames'[k]]
      /\ \A k \in 1 .. n : frames'[k] = IF k = n THEN f ELSE frames[k]
  BY <1>1, <1>6
<1>8. /\ frames' \in Seq(ToSet(frames')) /\ frames' # <<>> /\ Len(frames') = n
      /\ DOMAIN frames' = 1 .. n
  BY <1>1, <1>7, TabledFrames
<1>9. \A k \in 1 .. n : IsFrame(frames'[k])
  BY <1>1, <1>2, <1>4, <1>5, <1>7 DEF FramesInv, IsFrame
<1>10. QED
  BY <1>1, <1>5, <1>7, <1>8, <1>9 DEF FramesInv, n

LEMMA FramesPush ==
  ASSUME FramesInv, NEW known, NEW bound, NEW followed \in BOOLEAN,
         frames' = Append(frames, Frame(known, bound, followed))
  PROVE  /\ FramesInv' /\ Len(frames') = Len(frames) + 1 /\ DOMAIN frames' = 1 .. Len(frames) + 1
         /\ \A k \in 1 .. Len(frames) : frames'[k] = frames[k]
         /\ frames'[Len(frames) + 1].known = known /\ frames'[Len(frames) + 1].bound = bound
         /\ frames'[Len(frames) + 1].followed = followed
<1> DEFINE n == Len(frames)
<1>1. n \in Nat /\ n # 0 /\ DOMAIN frames = 1 .. n /\ frames \in Seq(ToSet(frames))
  BY FramesAre DEF FramesInv
<1>2. PICK f : f = Frame(known, bound, followed)
  OBVIOUS
<1>3. f.known = known /\ f.bound = bound /\ f.followed = followed
  BY <1>2 DEF Frame
<1>4. PICK S : frames \in Seq(S) /\ f \in S
  <2>1. frames \in Seq(ToSet(frames) \cup {f})
    BY <1>1
  <2>2. QED
    BY <2>1
<1>5. frames' = Append(frames, f)
  BY <1>2
<1>6. /\ frames' \in Seq(S) /\ DOMAIN frames' = 1 .. n + 1 /\ frames'[n + 1] = f
      /\ \A k \in 1 .. n : frames'[k] = frames[k]
  BY <1>1, <1>4, <1>5
<1>7. frames' = [k \in 1 .. n + 1 |-> frames'[k]]
  <2>1. PICK gs : gs = frames'
    OBVIOUS
  <2>2. gs \in Seq(S)
    BY <1>6, <2>1
  <2>3. gs = [k \in DOMAIN gs |-> gs[k]]
    BY <2>2
  <2>4. QED
    BY <1>6, <2>1, <2>3
<1>8. /\ frames' \in Seq(ToSet(frames')) /\ frames' # <<>> /\ Len(frames') = n + 1
  <2>1. n + 1 \in Nat /\ n + 1 # 0
    BY <1>1
  <2> HIDE DEF n
  <2>2. QED
    BY <1>7, <2>1, TabledFrames
<1>9. \A k \in 1 .. n + 1 : IsFrame(frames'[k])
  BY <1>1, <1>2, <1>3, <1>6 DEF FramesInv, IsFrame
<1>10. QED
  BY <1>3, <1>6, <1>8, <1>9 DEF FramesInv

LEMMA FramesPop ==
  ASSUME FramesInv, Len(frames) > 1, frames' = Front(frames)
  PROVE  /\ FramesInv' /\ DOMAIN frames' = 1 .. Len(frames) - 1
         /\ \A k \in 1 .. Len(frames) - 1 : frames'[k] = frames[k]
<1> DEFINE n == Len(frames)
<1>1. /\ n \in Nat /\ DOMAIN frames = 1 .. n /\ frames \in Seq(ToSet(frames))
      /\ n - 1 \in Nat /\ n - 1 # 0
  BY FramesAre DEF FramesInv
<1>2. DOMAIN frames' = 1 .. n - 1 /\ \A k \in 1 .. n - 1 : frames'[k] = frames[k]
  BY <1>1 DEF Front
<1>3. frames' = [k \in 1 .. n - 1 |-> frames'[k]]
  BY <1>1 DEF Front
<1>4. frames' \in Seq(ToSet(frames')) /\ frames' # <<>>
  BY <1>1, <1>3, TabledFrames
<1>5. \A k \in 1 .. n - 1 : IsFrame(frames'[k])
  BY <1>1, <1>2 DEF FramesInv
<1>6. QED
  BY <1>2, <1>4, <1>5 DEF FramesInv

\* Steps that find no route.
LEMMA FoundKept ==
  ASSUME RoutesInv, walk = "walking", walk' = "walking", odd \subseteq odd',
         UNCHANGED <<registered, documented>>
  PROVE  FoundInv' /\ RoutesAsServed' /\ (Quiet' => Quiet)
<1>1. Quiet' => Quiet
  BY DEF Quiet
<1>2. FoundInv'
  <2>1. Paths' = Paths
    BY DEF Paths
  <2>2. QED
    BY <1>1, <2>1 DEF RoutesInv, FoundInv
<1>3. RoutesAsServed'
  BY DEF RoutesAsServed
<1>4. QED
  BY <1>1, <1>2, <1>3

LEMMA OddSays ==
  ASSUME NEW expr
  PROVE  /\ "second router" \notin OddOf(expr) => expr.var # New
         /\ "helper" \notin OddOf(expr) =>
              \A k \in DOMAIN expr.calls : expr.calls[k].name \in {"With", "Group"}
BY DEF OddOf

\* What the walker knows after a variable is set: it follows, or it passes over a name it
\* does not know.
LearnsOrPasses(var, expr, known) ==
  \/ known = Learn(var, expr)
  \/ /\ known = Top.known
     /\ Top.followed => var \notin DOMAIN known /\ (expr # None => "var" \in odd')

\* A variable of the innermost block is set to the value of expr.
LEMMA ScopesSet ==
  ASSUME FramesInv, FramesInv', ScopesInv, Quiet', Quiet' => Quiet, odd \subseteq odd',
         UNCHANGED mounts, NEW var, NEW expr, NEW value,
         value = IF expr = None THEN None ELSE GoValue(expr),
         expr # None => Usable(expr) /\ MadeBy(expr) /\ OddOf(expr) \subseteq odd',
         expr = None => UNCHANGED routers,
         Len(frames') = Len(frames), DOMAIN frames' = 1 .. Len(frames),
         \A k \in 1 .. Len(frames) : k # Len(frames) => frames'[k] = frames[k],
         LearnsOrPasses(var, expr, frames'[Len(frames)].known),
         frames'[Len(frames)].followed = Top.followed,
         DOMAIN frames'[Len(frames)].bound = DOMAIN Top.bound \cup {var},
         frames'[Len(frames)].bound[var] = value,
         \A v \in DOMAIN Top.bound : v # var => frames'[Len(frames)].bound[v] = Top.bound[v]
  PROVE  ScopesInv'
<1> DEFINE n == Len(frames)
<1>1. PICK seen : seen = odd
  OBVIOUS
<1>2. PICK more : more = odd'
  OBVIOUS
<1>3. routers = 1 /\ mounts = {} /\ Agree(frames, seen) /\ seen \subseteq more
  BY <1>1, <1>2 DEF ScopesInv
<1>4. expr # None => expr.var # New /\ "second router" \notin OddOf(expr)
  BY OddSays DEF Quiet
<1>5. routers' = 1 /\ mounts' = {}
  BY <1>3, <1>4 DEF MadeBy
<1>6. /\ n \in Nat /\ n # 0 /\ DOMAIN frames = 1 .. n /\ n \in DOMAIN frames /\ Top = frames[n]
      /\ frames \in Seq(ToSet(frames)) /\ frames # <<>>
  BY FramesAre DEF FramesInv
<1>7. expr # None =>
        /\ value = [router |-> 1, path |-> value.path]
        /\ Top.followed /\ Follows(expr, Top.known) => RouterPath(expr, Top.known) = value.path
        /\ AllKnown(seen) /\ Top.followed /\ "helper" \notin OddOf(expr)
             => Follows(expr, Top.known)
  <2>1. SUFFICES ASSUME expr # None
                 PROVE  /\ value = [router |-> 1, path |-> value.path]
                        /\ Top.followed /\ Follows(expr, Top.known)
                             => RouterPath(expr, Top.known) = value.path
                        /\ AllKnown(seen) /\ Top.followed /\ "helper" \notin OddOf(expr)
                             => Follows(expr, Top.known)
    OBVIOUS
  <2>2. expr.var # New /\ Usable(expr) /\ value = GoValue(expr)
    BY <1>4, <2>1
  <2>3. /\ GoValue(expr) = [router |-> 1, path |-> GoValue(expr).path]
        /\ Top.followed /\ Follows(expr, Top.known)
             => RouterPath(expr, Top.known) = GoValue(expr).path
        /\ /\ AllKnown(seen) /\ Top.followed
           /\ \A k \in DOMAIN expr.calls : expr.calls[k].name \in {"With", "Group"}
           => Follows(expr, Top.known)
    BY <1>3, <1>6, <2>2, ValueAgrees
  <2>4. QED
    BY <2>2, <2>3, OddSays
<1>8. IsBound(value)
  BY <1>7 DEF IsBound
<1>9. Top.followed =>
        /\ DOMAIN frames'[n].known \ {var} = DOMAIN Top.known \ {var}
        /\ \A v \in DOMAIN Top.known : v # var => frames'[n].known[v] = Top.known[v]
        /\ var \in DOMAIN frames'[n].known => value = [router |-> 1, path |-> frames'[n].known[var]]
        /\ AllKnown(more) /\ value # None => var \in DOMAIN frames'[n].known
  <2>1. SUFFICES ASSUME Top.followed
                 PROVE  /\ DOMAIN frames'[n].known \ {var} = DOMAIN Top.known \ {var}
                        /\ \A v \in DOMAIN Top.known : v # var => frames'[n].known[v] = Top.known[v]
                        /\ var \in DOMAIN frames'[n].known
                             => value = [router |-> 1, path |-> frames'[n].known[var]]
                        /\ AllKnown(more) /\ value # None => var \in DOMAIN frames'[n].known
    OBVIOUS
  <2>2. PICK known : known = frames'[n].known
    OBVIOUS
  <2>3. \/ known = Rebound(var, expr)
        \/ known = Top.known /\ var \notin DOMAIN known /\ (expr # None => "var" \in more)
    BY <1>2, <2>1, <2>2 DEF Learn, LearnsOrPasses
  <2>4. CASE known = Rebound(var, expr) /\ expr # None /\ Follows(expr, Top.known)
    <3>1. known = [v \in DOMAIN Top.known \cup {var} |->
                     IF v = var THEN RouterPath(expr, Top.known) ELSE Top.known[v]]
      BY <2>3, <2>4 DEF Rebound
    <3>2. RouterPath(expr, Top.known) = value.path /\ value = [router |-> 1, path |-> value.path]
      BY <1>7, <2>1, <2>4
    <3>3. DOMAIN known = DOMAIN Top.known \cup {var} /\ known[var] = value.path
          /\ \A v \in DOMAIN Top.known : v # var => known[v] = Top.known[v]
      BY <3>1, <3>2
    <3>4. QED
      BY <2>2, <3>2, <3>3
  <2>5. CASE known = Rebound(var, expr) /\ ~(expr # None /\ Follows(expr, Top.known))
    <3>1. known = [v \in DOMAIN Top.known \ {var} |-> Top.known[v]]
      <4>1. Rebound(var, expr) = [v \in DOMAIN Top.known \ {var} |-> Top.known[v]]
        BY <2>5 DEF Rebound
      <4>2. QED
        BY <2>5, <4>1
    <3>2. AllKnown(more) => AllKnown(seen) /\ ("helper" \notin OddOf(expr) \/ expr = None)
      <4>1. expr # None => OddOf(expr) \subseteq odd'
        OBVIOUS
      <4>2. QED
        BY <1>2, <1>3, <4>1 DEF AllKnown
    <3>3. ~(AllKnown(more) /\ value # None)
      BY <1>7, <2>1, <2>5, <3>2
    <3>4. QED
      BY <2>2, <3>1, <3>3
  <2>6. CASE known = Top.known /\ var \notin DOMAIN known /\ (expr # None => "var" \in more)
    <3>1. ~(AllKnown(more) /\ value # None)
      BY <2>6 DEF AllKnown
    <3>2. QED
      BY <2>2, <2>6, <3>1
  <2>7. QED
    BY <2>3, <2>4, <2>5, <2>6
<1>10. Agree(frames', more)
  <2> HIDE DEF n
  <2>1. Len(frames) = n
    BY DEF n
  <2>2. PICK gs : gs = frames'
    OBVIOUS
  <2>3. PICK fs : fs = frames
    OBVIOUS
  <2>4. SetIn(fs, gs, n, var, value)
    BY <1>6, <2>1, <2>2, <2>3 DEF SetIn
  <2>5. fs[n].followed => LearntIn(fs, gs, n, var, value, more)
    BY <1>6, <1>9, <2>2, <2>3 DEF LearntIn
  <2>6. Agree(fs, seen)
    BY <1>3, <2>3
  <2>7. Agree(gs, more)
    BY <1>3, <1>6, <1>8, <2>4, <2>5, <2>6, AgreeSet
  <2>8. QED
    BY <2>2, <2>7
<1>11. QED
  BY <1>2, <1>5, <1>10 DEF ScopesInv

LEMMA DeclareAsStep ==
  ASSUME RoutesInv, NEW var, NEW expr, NEW known, NEW form, DeclareAs(var, expr, known, form),
         Quiet' => LearnsOrPasses(var, expr, known)
  PROVE  RoutesInv'
<1>1. PICK value : value = IF expr = None THEN None ELSE GoValue(expr)
  OBVIOUS
<1>2. PICK bound : bound = [v \in DOMAIN Top.bound \cup {var} |->
                              IF v = var THEN value ELSE Top.bound[v]]
  OBVIOUS
<1>3. /\ walk = "walking" /\ walk' = "walking" /\ style' = style /\ style # "plain"
      /\ expr # None => Usable(expr) /\ MadeBy(expr)
      /\ expr = None => UNCHANGED routers
      /\ odd' = odd \cup form \cup (IF expr = None THEN {} ELSE OddOf(expr))
      /\ UNCHANGED <<documented, registered, mounts>>
      /\ SetTop([Top EXCEPT !.known = known, !.bound = bound])
  BY <1>1, <1>2 DEF DeclareAs, Statement
<1>4. FramesInv /\ ScopesInv
  BY DEF RoutesInv
<1>5. odd \subseteq odd' /\ (expr # None => OddOf(expr) \subseteq odd')
  BY <1>3
<1>6. FoundInv' /\ RoutesAsServed' /\ (Quiet' => Quiet)
  BY <1>3, <1>5, FoundKept
<1>7. /\ FramesInv' /\ Len(frames') = Len(frames) /\ DOMAIN frames' = 1 .. Len(frames)
      /\ \A k \in 1 .. Len(frames) : k # Len(frames) => frames'[k] = frames[k]
      /\ frames'[Len(frames)].known = known /\ frames'[Len(frames)].bound = bound
      /\ frames'[Len(frames)].followed = Top.followed
  BY <1>3, <1>4, FramesSet
<1>8. /\ DOMAIN bound = DOMAIN Top.bound \cup {var} /\ bound[var] = value
      /\ \A v \in DOMAIN Top.bound : v # var => bound[v] = Top.bound[v]
  BY <1>2
<1>9. ScopesInv'
  <2>1. CASE Quiet'
    BY <1>1, <1>3, <1>4, <1>5, <1>6, <1>7, <1>8, <2>1, ScopesSet
  <2>2. CASE ~Quiet'
    BY <2>2 DEF ScopesInv
  <2>3. QED
    BY <2>1, <2>2
<1>10. QED
  BY <1>3, <1>6, <1>7, <1>9 DEF RoutesInv

LEMMA DeclareStep ==
  ASSUME RoutesInv, NEW var, NEW expr, Declare(var, expr)
  PROVE  RoutesInv'
<1>1. PICK known, form : known = Learn(var, expr) /\ form = {}
  OBVIOUS
<1>2. DeclareAs(var, expr, known, form)
  BY <1>1 DEF Declare
<1>3. LearnsOrPasses(var, expr, known)
  BY <1>1 DEF LearnsOrPasses
<1>4. QED
  BY <1>2, <1>3, DeclareAsStep

LEMMA DeclareVarStep ==
  ASSUME RoutesInv, NEW var, NEW expr, DeclareVar(var, expr)
  PROVE  RoutesInv'
<1>1. PICK known, form : known = Top.known /\ form = OddVar(var, expr)
  OBVIOUS
<1>2. DeclareAs(var, expr, known, form)
  BY <1>1 DEF DeclareVar
<1>3. form \subseteq odd'
  BY <1>2 DEF DeclareAs
<1>4. Quiet' => LearnsOrPasses(var, expr, known)
  BY <1>1, <1>3 DEF LearnsOrPasses, OddVar, Quiet
<1>5. QED
  BY <1>2, <1>4, DeclareAsStep

LEMMA AssignStep ==
  ASSUME RoutesInv, NEW var, NEW expr \in Routers[style], Assign(var, expr)
  PROVE  RoutesInv'
<1> DEFINE n == Len(frames)
           inner == Innermost(var)
           new(k) == Frame(IF k = n THEN Learn(var, expr) ELSE frames[k].known,
                           IF k = inner THEN [frames[k].bound EXCEPT ![var] = GoValue(expr)]
                           ELSE frames[k].bound,
                           frames[k].followed)
<1>1. /\ walk = "walking" /\ walk' = "walking" /\ style' = style /\ style # "plain"
      /\ Usable(expr) /\ Declared(var) /\ MadeBy(expr)
      /\ odd' = odd \cup OddOf(expr) \cup (IF Declares(n, var) THEN {} ELSE {"outer"})
      /\ UNCHANGED <<documented, registered, mounts>>
  BY DEF Assign, Statement
<1>2. FramesInv /\ ScopesInv /\ style \in {"chi", "gin", "plain"} /\ expr # None
  BY RouteDocsAssumption DEF RoutesInv, None
<1>3. odd \subseteq odd' /\ OddOf(expr) \subseteq odd' /\ (Quiet' => Declares(n, var))
  BY <1>1 DEF Quiet
<1>4. FoundInv' /\ RoutesAsServed' /\ (Quiet' => Quiet)
  BY <1>1, <1>3, FoundKept
<1>5. /\ n \in Nat /\ n # 0 /\ DOMAIN frames = 1 .. n /\ n \in DOMAIN frames /\ Top = frames[n]
      /\ frames \in Seq(ToSet(frames)) /\ frames # <<>>
  BY <1>2, FramesAre DEF FramesInv
<1>6. frames' = [k \in 1 .. n |-> new(k)]
  <2>1. \A k \in 1 .. n : frames[k] = Frame(frames[k].known, frames[k].bound, frames[k].followed)
    BY <1>2, <1>5 DEF FramesInv, IsFrame
  <2>2. ASSUME NEW k \in 1 .. n
        PROVE  [frames[k] EXCEPT
                  !.known = IF k = n THEN Learn(var, expr) ELSE @,
                  !.bound = IF k = inner THEN [@ EXCEPT ![var] = GoValue(expr)] ELSE @] = new(k)
    <3>1. PICK known, bound, followed :
            known = frames[k].known /\ bound = frames[k].bound /\ followed = frames[k].followed
      OBVIOUS
    <3>2. PICK f : f = frames[k]
      OBVIOUS
    <3>3. f = [known |-> known, bound |-> bound, followed |-> followed]
      BY <2>1, <3>1, <3>2 DEF Frame
    <3>4. PICK learnt, set :
            /\ learnt = IF k = n THEN Learn(var, expr) ELSE known
            /\ set = IF k = inner THEN [bound EXCEPT ![var] = GoValue(expr)] ELSE bound
      OBVIOUS
    <3>5. [f EXCEPT !.known = learnt, !.bound = set]
            = [known |-> learnt, bound |-> set, followed |-> followed]
      <4>1. PICK g : g = [f EXCEPT !.known = learnt, !.bound = set]
        OBVIOUS
      <4>2. g = Frame(learnt, set, followed)
        BY <3>3, <4>1 DEF Frame
      <4>3. QED
        BY <4>1, <4>2 DEF Frame
    <3>6. new(k) = [known |-> learnt, bound |-> set, followed |-> followed]
      BY <3>1, <3>4 DEF Frame
    <3> HIDE DEF n, inner, new
    <3>7. [frames[k] EXCEPT
             !.known = IF k = n THEN Learn(var, expr) ELSE @,
             !.bound = IF k = inner THEN [@ EXCEPT ![var] = GoValue(expr)] ELSE @]
            = [f EXCEPT !.known = learnt, !.bound = set]
      BY <3>1, <3>2, <3>4
    <3>8. QED
      BY <3>5, <3>6, <3>7
  <2>3. frames' = [k \in 1 .. n |->
                     [frames[k] EXCEPT
                        !.known = IF k = n THEN Learn(var, expr) ELSE @,
                        !.bound = IF k = inner THEN [@ EXCEPT ![var] = GoValue(expr)] ELSE @]]
    BY <1>5 DEF Assign
  <2> HIDE DEF new, n, inner
  <2>4. QED
    BY <2>2, <2>3
<1>7. \A k : /\ new(k).known = IF k = n THEN Learn(var, expr) ELSE frames[k].known
             /\ new(k).bound = IF k = inner THEN [frames[k].bound EXCEPT ![var] = GoValue(expr)]
                               ELSE frames[k].bound
             /\ new(k).followed = frames[k].followed
             /\ new(k) = Frame(new(k).known, new(k).bound, new(k).followed)
  BY DEF Frame
<1> HIDE DEF new, n, inner
<1>8. /\ frames' \in Seq(ToSet(frames')) /\ frames' # <<>> /\ Len(frames') = n
      /\ DOMAIN frames' = 1 .. n /\ \A k \in 1 .. n : frames'[k] = new(k)
  <2>1. frames' = [k \in 1 .. n |-> frames'[k]]
    BY <1>6
  <2>2. QED
    BY <1>5, <1>6, <2>1, TabledFrames
<1>9. FramesInv'
  <2>1. \A k \in 1 .. n : IsFrame(frames'[k])
    BY <1>2, <1>5, <1>7, <1>8 DEF FramesInv, IsFrame
  <2>2. QED
    BY <1>8, <2>1 DEF FramesInv
<1>10. CASE Quiet'
  <2>1. inner = n
    <3>1. Means(frames, n, var, inner)
      BY <1>1, <1>5, InnermostMeans DEF n, inner
    <3>2. Means(frames, n, var, n)
      BY <1>3, <1>5, <1>10 DEF Means, Declares
    <3>3. QED
      BY <1>5, <3>1, <3>2, MeansOne
  <2>2. \A k \in 1 .. n : k # n => frames'[k] = frames[k]
    <3>1. \A k \in 1 .. n : frames[k] = Frame(frames[k].known, frames[k].bound, frames[k].followed)
      BY <1>2, <1>5 DEF FramesInv, IsFrame
    <3>2. QED
      BY <1>8, <2>1, <3>1 DEF new
  <2>3. /\ frames'[n].known = Learn(var, expr) /\ frames'[n].followed = Top.followed
        /\ frames'[n].bound = [Top.bound EXCEPT ![var] = GoValue(expr)]
    BY <1>5, <1>7, <1>8, <2>1
  <2>4. var \in DOMAIN Top.bound
    BY <1>3, <1>5, <1>10 DEF Declares
  <2>5. /\ DOMAIN frames'[n].bound = DOMAIN Top.bound \cup {var}
        /\ frames'[n].bound[var] = GoValue(expr)
        /\ \A v \in DOMAIN Top.bound : v # var => frames'[n].bound[v] = Top.bound[v]
    BY <2>3, <2>4
  <2>6. PICK value : value = GoValue(expr)
    OBVIOUS
  <2>7. ScopesInv'
    <3>1. Len(frames) = n
      BY DEF n
    <3>2. value = IF expr = None THEN None ELSE GoValue(expr)
      BY <1>2, <2>6
    <3>3. LearnsOrPasses(var, expr, frames'[n].known)
      BY <2>3 DEF LearnsOrPasses
    <3>4. QED
      BY <1>1, <1>2, <1>3, <1>4, <1>8, <1>9, <1>10, <2>2, <2>3, <2>5, <2>6,
         <3>1, <3>2, <3>3, ScopesSet
  <2>8. QED
    BY <1>1, <1>2, <1>4, <1>9, <2>7 DEF RoutesInv
<1>11. CASE ~Quiet'
  BY <1>1, <1>2, <1>4, <1>9, <1>11 DEF RoutesInv, ScopesInv
<1>12. QED
  BY <1>10, <1>11

\* A block is opened: Nest with a router for its parameter, Open without.
LEMMA ScopesPush ==
  ASSUME RoutesInv, style # "plain", walk = "walking", UNCHANGED <<style, walk>>,
         odd \subseteq odd', UNCHANGED <<documented, registered, mounts, routers>>,
         NEW known, NEW bound, NEW followed \in BOOLEAN,
         frames' = Append(frames, Frame(known, bound, followed)),
         Quiet' => \A v \in DOMAIN bound : bound[v] = [router |-> 1, path |-> bound[v].path],
         Quiet' /\ followed =>
           /\ Top.followed /\ DOMAIN known = DOMAIN Top.known \cup DOMAIN bound
           /\ \A v \in DOMAIN known :
                known[v] = IF v \in DOMAIN bound THEN bound[v].path ELSE Top.known[v]
  PROVE  RoutesInv'
<1>1. FramesInv /\ ScopesInv /\ style \in {"chi", "gin", "plain"}
  BY DEF RoutesInv
<1>2. FoundInv' /\ RoutesAsServed' /\ (Quiet' => Quiet)
  BY FoundKept
<1>3. /\ Len(frames) \in Nat /\ Len(frames) # 0 /\ DOMAIN frames = 1 .. Len(frames)
      /\ Top = frames[Len(frames)]
  BY <1>1, FramesAre DEF FramesInv
<1>4. PICK n : n = Len(frames)
  OBVIOUS
<1>5. /\ FramesInv' /\ DOMAIN frames' = 1 .. n + 1
      /\ \A k \in 1 .. n : frames'[k] = frames[k]
      /\ frames'[n + 1].known = known /\ frames'[n + 1].bound = bound
      /\ frames'[n + 1].followed = followed
  BY <1>1, <1>4, FramesPush
<1>6. CASE Quiet'
  <2>1. routers' = 1 /\ mounts' = {} /\ Agree(frames, odd)
    BY <1>1, <1>2, <1>6 DEF ScopesInv
  <2>2. PICK fs, gs, f, seen, more : /\ fs = frames /\ gs = frames' /\ f = frames'[n + 1]
                                     /\ seen = odd /\ more = odd'
    OBVIOUS
  <2>3. Agree(fs, seen) /\ seen \subseteq more
    BY <2>1, <2>2
  <2>4. /\ DOMAIN fs = 1 .. n /\ DOMAIN gs = 1 .. n + 1 /\ \A k \in 1 .. n : gs[k] = fs[k]
        /\ gs[n + 1] = f /\ n \in Nat /\ n # 0
    BY <1>3, <1>4, <1>5, <2>2
  <2>5. Opens(fs[n], f)
    BY <1>3, <1>4, <1>5, <1>6, <2>2 DEF Opens
  <2>6. \A k \in 1 .. n : gs[k] = fs[k]
    BY <2>4
  <2>7. Agree(gs, more)
    BY <2>3, <2>4, <2>5, <2>6, AgreePush
  <2>8. ScopesInv'
    BY <2>1, <2>2, <2>7 DEF ScopesInv
  <2>9. QED
    BY <1>1, <1>2, <1>5, <2>8 DEF RoutesInv
<1>7. CASE ~Quiet'
  BY <1>1, <1>2, <1>5, <1>7 DEF RoutesInv, ScopesInv
<1>8. QED
  BY <1>6, <1>7

LEMMA NestStep ==
  ASSUME RoutesInv, NEW expr, NEW prefix, NEW param, Nest(expr, prefix, param)
  PROVE  RoutesInv'
<1>1. PICK followed : followed = (Top.followed /\ Follows(expr, Top.known))
  OBVIOUS
<1>2. PICK value : value = [GoValue(expr) EXCEPT !.path = @ \o prefix]
  OBVIOUS
<1>3. PICK known : known = IF followed
                           THEN [v \in DOMAIN Top.known \cup {param} |->
                                   IF v = param THEN RouterPath(expr, Top.known) \o prefix
                                   ELSE Top.known[v]]
                           ELSE Top.known
  OBVIOUS
<1>4. PICK bound : bound = [v \in {param} |-> value]
  OBVIOUS
<1>5. /\ walk = "walking" /\ walk' = "walking" /\ style' = style /\ style # "plain"
      /\ expr.var # New /\ Usable(expr) /\ odd' = odd \cup OddOf(expr)
      /\ UNCHANGED <<documented, registered, mounts, routers>>
      /\ frames' = Append(frames, Frame(known, bound, followed))
  BY <1>1, <1>2, <1>3, <1>4 DEF Nest, Statement, ChildPath
<1>6. FramesInv /\ ScopesInv
  BY DEF RoutesInv
<1>7. followed \in BOOLEAN
  BY <1>1
<1>8. ASSUME Quiet'
      PROVE  /\ value = [router |-> 1, path |-> value.path]
             /\ followed => RouterPath(expr, Top.known) \o prefix = value.path
  <2>1. Quiet
    BY <1>5, <1>8 DEF Quiet
  <2>2. routers = 1 /\ Agree(frames, odd)
    BY <1>6, <2>1 DEF ScopesInv
  <2>3. PICK p : p = GoValue(expr).path
    OBVIOUS
  <2>4. PICK seen : seen = odd
    OBVIOUS
  <2>5. Agree(frames, seen)
    BY <2>2, <2>4
  <2>6. /\ GoValue(expr) = [router |-> 1, path |-> GoValue(expr).path]
        /\ Top.followed /\ Follows(expr, Top.known)
             => RouterPath(expr, Top.known) = GoValue(expr).path
    BY <1>5, <1>6, <2>2, <2>5, ValueAgrees DEF FramesInv
  <2>7. value = [router |-> 1, path |-> p \o prefix]
    <3>1. PICK g : g = GoValue(expr)
      OBVIOUS
    <3>2. g = [router |-> 1, path |-> p]
      BY <2>3, <2>6, <3>1
    <3>3. value = [g EXCEPT !.path = @ \o prefix]
      BY <1>2, <3>1
    <3>4. QED
      BY <3>2, <3>3
  <2>8. QED
    BY <1>1, <2>3, <2>6, <2>7
<1>9. DOMAIN bound = {param} /\ bound[param] = value
  BY <1>4
<1>10. Quiet' => \A v \in DOMAIN bound : bound[v] = [router |-> 1, path |-> bound[v].path]
  BY <1>8, <1>9
<1>11. ASSUME Quiet', followed
       PROVE  /\ Top.followed /\ DOMAIN known = DOMAIN Top.known \cup DOMAIN bound
              /\ \A v \in DOMAIN known :
                   known[v] = IF v \in DOMAIN bound THEN bound[v].path ELSE Top.known[v]
  BY <1>1, <1>3, <1>8, <1>9, <1>11
<1>12. odd \subseteq odd'
  BY <1>5
<1>13. QED
  BY <1>5, <1>7, <1>10, <1>11, <1>12, ScopesPush

LEMMA OpenStep ==
  ASSUME RoutesInv, NEW branch \in BOOLEAN, Open(branch)
  PROVE  RoutesInv'
<1>1. PICK followed : followed = (Top.followed /\ ~branch)
  OBVIOUS
<1>2. PICK known, bound : known = Top.known /\ bound = Nothing
  OBVIOUS
<1>3. /\ walk = "walking" /\ walk' = "walking" /\ style' = style /\ style # "plain"
      /\ UNCHANGED <<documented, registered, mounts, routers, odd>>
      /\ frames' = Append(frames, Frame(known, bound, followed))
  BY <1>1, <1>2 DEF Open, Statement
<1>4. DOMAIN bound = {} /\ followed \in BOOLEAN /\ (followed => Top.followed)
  BY <1>1, <1>2 DEF Nothing
<1>5. QED
  BY <1>2, <1>3, <1>4, ScopesPush

LEMMA CloseStep == RoutesInv /\ Close => RoutesInv'
<1> SUFFICES ASSUME RoutesInv, Close PROVE RoutesInv'
  OBVIOUS
<1>1. /\ walk = "walking" /\ walk' = "walking" /\ Len(frames) > 1 /\ frames' = Front(frames)
      /\ UNCHANGED <<style, documented, registered, mounts, routers, odd>>
  BY DEF Close
<1>2. FramesInv /\ ScopesInv
  BY DEF RoutesInv
<1>3. FoundInv' /\ RoutesAsServed' /\ (Quiet' => Quiet)
  BY <1>1, FoundKept
<1>4. Len(frames) \in Nat /\ DOMAIN frames = 1 .. Len(frames)
  BY <1>2, FramesAre DEF FramesInv
<1>5. PICK n : n = Len(frames) - 1
  OBVIOUS
<1>6. n \in Nat /\ n # 0 /\ DOMAIN frames = 1 .. n + 1
  BY <1>1, <1>4, <1>5
<1>7. FramesInv' /\ DOMAIN frames' = 1 .. n /\ \A k \in 1 .. n : frames'[k] = frames[k]
  BY <1>1, <1>2, <1>5, FramesPop
<1>8. ScopesInv'
  <2>1. SUFFICES ASSUME Quiet' PROVE routers' = 1 /\ mounts' = {} /\ Agree(frames', odd')
    BY DEF ScopesInv
  <2>2. routers = 1 /\ mounts = {} /\ Agree(frames, odd)
    BY <1>2, <1>3, <2>1 DEF ScopesInv
  <2>3. PICK fs, gs, seen : fs = frames /\ gs = frames' /\ seen = odd
    OBVIOUS
  <2>4. Agree(gs, seen)
    BY <1>6, <1>7, <2>2, <2>3, AgreePop
  <2>5. QED
    BY <1>1, <2>2, <2>3, <2>4
<1>9. QED
  BY <1>1, <1>3, <1>7, <1>8 DEF RoutesInv

\* There is no other router to mount as long as NewRouter() was called once.
LEMMA MountStep ==
  ASSUME RoutesInv, NEW expr, NEW prefix, NEW child, Mount(expr, prefix, child)
  PROVE  RoutesInv'
<1>1. /\ walk = "walking" /\ walk' = "walking" /\ style' = style /\ style # "plain"
      /\ expr.var # New /\ Usable(expr) /\ Declared(child) /\ ValueOf(child) # None
      /\ ValueOf(child).router # GoValue(expr).router
      /\ UNCHANGED <<frames, documented, registered, routers, odd>>
  BY DEF Mount, Statement
<1>2. FramesInv /\ ScopesInv
  BY DEF RoutesInv
<1>3. FoundInv' /\ RoutesAsServed' /\ (Quiet' => Quiet)
  BY <1>1, FoundKept
<1>4. FramesInv'
  BY <1>1, <1>2 DEF FramesInv
<1>5. ASSUME Quiet'
      PROVE  FALSE
  <2>1. routers = 1 /\ Agree(frames, odd)
    BY <1>2, <1>3, <1>5 DEF ScopesInv
  <2>2. PICK seen : seen = odd
    OBVIOUS
  <2>3. Agree(frames, seen)
    BY <2>1, <2>2
  <2>4. GoValue(expr) = [router |-> 1, path |-> GoValue(expr).path]
    BY <1>1, <1>2, <2>1, <2>3, ValueAgrees DEF FramesInv
  <2>5. GoValue(expr).router = 1
    BY <2>4
  <2>6. PICK j : j = Innermost(child)
    OBVIOUS
  <2>7. Means(frames, Len(frames), child, j)
    BY <1>1, <1>2, <2>6, InnermostMeans DEF FramesInv
  <2>8. j \in DOMAIN frames /\ child \in DOMAIN frames[j].bound
    BY <1>2, <2>7, FramesAre DEF FramesInv, Means
  <2>9. IsBound(frames[j].bound[child])
    BY <2>3, <2>8, AgreeAt
  <2>10. PICK value : value = ValueOf(child)
    OBVIOUS
  <2>11. value = [router |-> 1, path |-> value.path]
    BY <1>1, <2>6, <2>9, <2>10 DEF IsBound, ValueOf
  <2>12. value.router = 1
    BY <2>11
  <2>13. QED
    BY <1>1, <2>5, <2>10, <2>12
<1>6. QED
  BY <1>1, <1>3, <1>4, <1>5 DEF RoutesInv, ScopesInv

LEMMA MentionStep ==
  ASSUME RoutesInv, NEW method, Mention(method)
  PROVE  RoutesInv'
<1>1. /\ walk = "walking" /\ walk' = "walking" /\ style' = style
      /\ UNCHANGED <<frames, documented, registered, mounts, routers, odd>>
  BY DEF Mention, Statement
<1>2. FoundInv' /\ RoutesAsServed'
  BY <1>1, FoundKept
<1>3. FramesInv' /\ ScopesInv'
  BY <1>1 DEF RoutesInv, FramesInv, ScopesInv, Quiet
<1>4. QED
  BY <1>1, <1>2, <1>3 DEF RoutesInv

\* A route is found where it is registered.
LEMMA RegisterStep ==
  ASSUME RoutesInv, NEW expr, NEW reg \in Registrations, Register(expr, reg)
  PROVE  RoutesInv'
<1>1. PICK p, w : p = GoValue(expr).path /\ w = RouterPath(expr, Top.known)
  OBVIOUS
<1>2. PICK follows : follows = IsFound(expr, reg)
  OBVIOUS
<1>3. /\ walk = "walking" /\ walk' = "walking" /\ style' = style /\ style # "plain"
      /\ expr.var # New /\ Usable(expr)
      /\ documented' = IF follows THEN documented \cup {<<reg.method, w \o reg.path>>}
                       ELSE documented
      /\ registered' = registered \cup
           {<<m, GoValue(expr).router, p \o reg.path>> : m \in reg.methods}
      /\ odd' = odd \cup OddOf(expr)
                \cup (IF reg.literal /\ reg.local THEN {} ELSE {"helper"})
                \cup (IF reg.method # NoMethod THEN {} ELSE {"no method"})
                \cup (IF Top.followed THEN {} ELSE {"branch"})
      /\ UNCHANGED <<frames, mounts, routers>>
  BY <1>1, <1>2 DEF Register, Statement
<1>4. FramesInv /\ ScopesInv /\ FoundInv
  BY DEF RoutesInv
<1>5. odd \subseteq odd' /\ (Quiet' => Quiet)
  BY <1>3 DEF Quiet
<1>6. FramesInv'
  BY <1>3, <1>4 DEF FramesInv
<1>7. RoutesAsServed'
  BY <1>3 DEF RoutesAsServed
<1>8. ASSUME Quiet'
      PROVE  /\ routers' = 1 /\ mounts' = {} /\ Agree(frames', odd')
             /\ \A r \in registered' : r[2] = 1
             /\ documented' \subseteq Paths' /\ (odd' = {} => documented' = Paths')
  <2>1. routers = 1 /\ mounts = {} /\ Agree(frames, odd)
    BY <1>4, <1>5, <1>8 DEF ScopesInv
  <2>2. PICK seen, more : seen = odd /\ more = odd'
    OBVIOUS
  <2>3. Agree(frames, seen) /\ Agree(frames, more)
    BY <1>5, <2>1, <2>2, AgreeLess
  <2>4. /\ GoValue(expr) = [router |-> 1, path |-> GoValue(expr).path]
        /\ Top.followed /\ Follows(expr, Top.known) => w = p
        /\ /\ AllKnown(seen) /\ Top.followed
           /\ \A k \in DOMAIN expr.calls : expr.calls[k].name \in {"With", "Group"}
           => Follows(expr, Top.known)
    BY <1>1, <1>3, <1>4, <2>1, <2>3, ValueAgrees DEF FramesInv
  <2>5. GoValue(expr).router = 1
    BY <2>4
  <2>6. PICK ways : ways = {<<m, p \o reg.path>> : m \in reg.methods}
    OBVIOUS
  <2>7. registered' = registered \cup {<<m, 1, p \o reg.path>> : m \in reg.methods}
    BY <1>3, <2>5
  <2>8. Paths' = Paths \cup ways /\ \A x \in registered' : x \in registered \/ x[2] = 1
    <3>1. \A x : x \in registered' <=>
                  x \in registered \/ \E m \in reg.methods : x = <<m, 1, p \o reg.path>>
      BY <2>7
    <3>2. \A m : /\ <<m, 1, p \o reg.path>>[1] = m /\ <<m, 1, p \o reg.path>>[2] = 1
                 /\ <<m, 1, p \o reg.path>>[3] = p \o reg.path
      OBVIOUS
    <3>3. ASSUME NEW x PROVE x \in Paths' => x \in Paths \/ x \in ways
      BY <2>6, <3>1, <3>2 DEF Paths
    <3>4. Paths \subseteq Paths'
      BY <3>1 DEF Paths
    <3>5. ASSUME NEW m \in reg.methods PROVE <<m, p \o reg.path>> \in Paths'
      <4>1. <<m, 1, p \o reg.path>> \in registered'
        BY <3>1
      <4>2. QED
        BY <3>2, <4>1 DEF Paths
    <3>6. Paths' = Paths \cup ways
      BY <2>6, <3>3, <3>4, <3>5
    <3>7. \A x \in registered' : x \in registered \/ x[2] = 1
      BY <3>1, <3>2
    <3>8. QED
      BY <3>6, <3>7
  <2>9. /\ \A x \in registered : x[2] = 1
        /\ documented \subseteq Paths /\ (odd = {} => documented = Paths)
    BY <1>3, <1>4, <1>5, <1>8 DEF FoundInv
  <2>10. follows => w = p /\ ways = {<<reg.method, p \o reg.path>>}
    <3>1. SUFFICES ASSUME follows PROVE w = p /\ ways = {<<reg.method, p \o reg.path>>}
      OBVIOUS
    <3>2. w = p /\ reg.method # NoMethod
      BY <1>2, <2>4, <3>1 DEF IsFound
    <3>3. reg.methods = {reg.method}
      BY <3>2, RouteDocsAssumption
    <3>4. QED
      BY <2>6, <3>2, <3>3
  <2>11. odd' = {} => follows
    <3>1. SUFFICES ASSUME odd' = {} PROVE follows
      OBVIOUS
    <3>2. /\ AllKnown(seen) /\ "helper" \notin OddOf(expr) /\ Top.followed
          /\ reg.literal /\ reg.local /\ reg.method # NoMethod
      BY <1>3, <2>2, <3>1 DEF AllKnown
    <3>3. QED
      BY <1>2, <2>4, <3>2, OddSays DEF IsFound
  <2>12. documented' \subseteq Paths' /\ (odd' = {} => documented' = Paths')
    <3>1. odd' = {} => odd = {}
      BY <1>3
    <3>2. CASE follows
      <4>1. documented' = documented \cup ways
        BY <1>3, <2>10, <3>2
      <4>2. QED
        BY <2>8, <2>9, <3>1, <4>1
    <3>3. CASE ~follows
      BY <1>3, <2>8, <2>9, <2>11, <3>3
    <3>4. QED
      BY <3>2, <3>3
  <2>13. QED
    BY <1>3, <2>1, <2>2, <2>3, <2>8, <2>9, <2>12
<1>9. ScopesInv' /\ FoundInv'
  BY <1>8 DEF ScopesInv, FoundInv
<1>10. QED
  BY <1>3, <1>6, <1>7, <1>9 DEF RoutesInv

\* In the end the document has what was found, or what stands for a handler of its own.
LEMMA FinishStep == RoutesInv /\ Finish => RoutesInv'
<1> SUFFICES ASSUME RoutesInv, Finish PROVE RoutesInv'
  OBVIOUS
<1>1. /\ walk = "walking" /\ walk' = "done"
      /\ documented' = IF documented = {} /\ style # "gin" THEN Fallback ELSE documented
      /\ odd' = odd \cup (IF documented = {} /\ style = "chi" THEN {"no routes"} ELSE {})
                \cup (IF style = "plain" /\ mentioned = {} THEN {"any method"} ELSE {})
      /\ UNCHANGED <<style, frames, registered, mounts, routers, mentioned>>
  BY DEF Finish
<1>2. FramesInv /\ ScopesInv /\ FoundInv /\ style \in {"chi", "gin", "plain"}
      /\ (style = "plain" => registered = {} /\ documented = {} /\ odd = {})
  BY <1>1 DEF RoutesInv
<1>3. odd \subseteq odd' /\ (Quiet' => Quiet)
  BY <1>1 DEF Quiet
<1>4. FramesInv'
  BY <1>1, <1>2 DEF FramesInv
<1>5. FoundInv'
  BY <1>1 DEF FoundInv
<1>6. ScopesInv'
  <2>1. SUFFICES ASSUME Quiet' PROVE routers' = 1 /\ mounts' = {} /\ Agree(frames', odd')
    BY DEF ScopesInv
  <2>2. routers = 1 /\ mounts = {} /\ Agree(frames, odd)
    BY <1>2, <1>3, <2>1 DEF ScopesInv
  <2>3. PICK seen, more : seen = odd /\ more = odd'
    OBVIOUS
  <2>4. Agree(frames, more)
    BY <1>3, <2>2, <2>3, AgreeLess
  <2>5. QED
    BY <1>1, <2>2, <2>3, <2>4
<1>7. RoutesAsServed'
  <2>1. CASE style = "plain"
    <3>1. documented' = Fallback /\ style' = "plain" /\ mentioned' = mentioned
      BY <1>1, <1>2, <2>1
    <3>2. Served' = {<<m, <<>>>> : m \in IF mentioned = {} THEN Methods ELSE mentioned}
      BY <3>1 DEF Served
    <3>3. CASE mentioned = {}
      <4>1. "any method" \in odd' /\ Fallback = {<<"GET", <<>>>>} /\ "GET" \in Methods
        BY <1>1, <2>1, <3>3, RouteDocsAssumption DEF Fallback
      <4>2. documented' \subseteq Served' /\ odd' # {}
        BY <3>1, <3>2, <3>3, <4>1
      <4>3. QED
        BY <4>2 DEF RoutesAsServed
    <3>4. CASE mentioned # {}
      <4>1. documented' = Served'
        BY <3>1, <3>2, <3>4 DEF Fallback
      <4>2. QED
        BY <4>1 DEF RoutesAsServed
    <3>5. QED
      BY <3>3, <3>4
  <2>2. CASE style # "plain" /\ ~(documented = {} /\ style = "chi")
    <3>1. documented' = documented /\ odd' = odd /\ style' # "plain"
      BY <1>1, <1>2, <2>2
    <3>2. ASSUME odd \subseteq {"branch", "helper", "any method", "no method", "var"}
          PROVE  documented \subseteq Served' /\ (odd = {} => documented = Served')
      <4>1. Quiet
        BY <3>2 DEF Quiet
      <4>2. /\ \A r \in registered : r[2] = 1
            /\ documented \subseteq Paths /\ (odd = {} => documented = Paths) /\ mounts = {}
        BY <1>1, <1>2, <4>1 DEF FoundInv, ScopesInv
      <4>3. Served' = Paths
        <5>1. \A r : Mounted(r)' = {}
          BY <1>1, <4>2 DEF Mounted
        <5>2. {x \in registered' : x[2] = 1} = registered
          BY <1>1, <4>2
        <5>3. UNION {{<<r[1], m.path \o r[3]>> : m \in Mounted(r)'} : r \in registered'} = {}
          BY <5>1
        <5>4. QED
          BY <3>1, <5>2, <5>3 DEF Served, Paths
      <4>4. QED
        BY <4>2, <4>3
    <3>3. QED
      BY <3>1, <3>2 DEF RoutesAsServed
  <2>3. CASE documented = {} /\ style = "chi"
    <3>1. "no routes" \in odd'
      BY <1>1, <2>3
    <3>2. QED
      BY <3>1 DEF RoutesAsServed
  <2>4. QED
    BY <2>1, <2>2, <2>3
<1>8. QED
  BY <1>1, <1>2, <1>4, <1>5, <1>6, <1>7 DEF RoutesInv

LEMMA RoutesBegin == RouteInit => RoutesInv
<1> SUFFICES ASSUME RouteInit PROVE RoutesInv
  OBVIOUS
<1>1. PICK f : f = IF style = "plain" THEN Frame(Nothing, Nothing, TRUE)
                   ELSE Frame([v \in (IF odd = {} THEN {"r"} ELSE {}) |-> <<>>],
                              [v \in {"r"} |-> [router |-> 1, path |-> <<>>]], TRUE)
  OBVIOUS
<1>2. /\ style \in {"chi", "gin", "plain"} /\ frames = <<f>> /\ routers = 1
      /\ documented = {} /\ registered = {} /\ mounts = {} /\ walk = "walking"
      /\ odd = {} \/ (odd = {"var"} /\ style # "plain")
  BY <1>1 DEF RouteInit
<1>3. f = Frame(f.known, f.bound, f.followed) /\ f.followed = TRUE
  BY <1>1 DEF Frame
<1>4. DOMAIN frames = {1} /\ frames[1] = f /\ Len(frames) = 1
  BY <1>2
<1>5. FramesInv
  <2>1. frames = [k \in 1 .. 1 |-> frames[k]]
    BY <1>2
  <2>2. frames \in Seq(ToSet(frames)) /\ frames # <<>>
    BY <2>1, TabledFrames
  <2>3. QED
    BY <1>3, <1>4, <2>2 DEF FramesInv, IsFrame
<1>6. /\ \A v \in DOMAIN f.bound : /\ f.bound[v] = [router |-> 1, path |-> <<>>]
                                   /\ odd = {} => v \in DOMAIN f.known
      /\ \A v \in DOMAIN f.known : v \in DOMAIN f.bound /\ f.known[v] = <<>>
  <2>1. CASE style = "plain"
    <3>1. f.bound = Nothing /\ f.known = Nothing
      BY <1>1, <2>1 DEF Frame
    <3>2. QED
      BY <3>1 DEF Nothing
  <2>2. CASE style # "plain"
    <3>1. /\ f.known = [v \in (IF odd = {} THEN {"r"} ELSE {}) |-> <<>>]
          /\ f.bound = [v \in {"r"} |-> [router |-> 1, path |-> <<>>]]
      BY <1>1, <2>2 DEF Frame
    <3>2. QED
      BY <3>1
  <2>3. QED
    BY <2>1, <2>2
<1>7. \A v \in DOMAIN f.known : /\ v \in DOMAIN f.bound /\ f.known[v] = <<>>
                                /\ f.bound[v] = [router |-> 1, path |-> <<>>]
  BY <1>6
<1>8. Agree(frames, odd)
  <2>1. 1 .. 1 = {1} /\ 2 .. 1 = {}
    OBVIOUS
  <2>2. \A v \in DOMAIN f.bound : Means(frames, 1, v, 1)
    BY <1>4, <2>1 DEF Means
  <2>3. KnowsRight(frames, 1)
    BY <1>4, <1>7, <2>1, <2>2 DEF KnowsRight
  <2>4. AllKnown(odd) => KnowsAll(frames, 1)
    <3>1. AllKnown(odd) => odd = {}
      BY <1>2 DEF AllKnown
    <3>2. QED
      BY <1>4, <1>6, <2>1, <3>1 DEF KnowsAll
  <2>5. \A v \in DOMAIN f.bound : IsBound(f.bound[v])
    BY <1>6 DEF IsBound
  <2>6. QED
    BY <1>4, <2>3, <2>4, <2>5 DEF Agree
<1>9. FoundInv /\ RoutesAsServed
  BY <1>2 DEF FoundInv, RoutesAsServed, Paths
<1>10. QED
  BY <1>2, <1>5, <1>8, <1>9 DEF RoutesInv, ScopesInv

LEMMA RoutesStep == RoutesInv /\ [RouteNext]_routeVars => RoutesInv'
<1>1. ASSUME RoutesInv, RouteNext PROVE RoutesInv'
  <2>1. CASE \E var \in Var, expr \in Routers[style] :
               \/ Declare(var, expr) \/ DeclareVar(var, expr) \/ Assign(var, expr)
               \/ \E prefix \in Literals : Nest(expr, prefix, var) \/ Mount(expr, prefix, var)
    BY <1>1, <2>1, DeclareStep, DeclareVarStep, AssignStep, NestStep, MountStep
  <2>2. CASE \E var \in Var : Declare(var, None) \/ DeclareVar(var, None)
    BY <1>1, <2>2, DeclareStep, DeclareVarStep
  <2>3. CASE \E expr \in Routers[style], reg \in Registrations : Register(expr, reg)
    BY <1>1, <2>3, RegisterStep
  <2>4. CASE \E branch \in BOOLEAN : Open(branch)
    BY <1>1, <2>4, OpenStep
  <2>5. CASE \E method \in Methods : Mention(method)
    BY <1>1, <2>5, MentionStep
  <2>6. QED
    BY <1>1, <2>1, <2>2, <2>3, <2>4, <2>5, CloseStep, FinishStep DEF RouteNext
<1>2. ASSUME RoutesInv, UNCHANGED routeVars PROVE RoutesInv'
  <2>1. FramesInv' /\ ScopesInv' /\ FoundInv'
    BY <1>2 DEF RoutesInv, routeVars, FramesInv, ScopesInv, Quiet, FoundInv, Paths
  <2>2. RoutesAsServed'
    <3>1. Served' = Served
      BY <1>2 DEF routeVars, Served, Mounted
    <3>2. QED
      BY <1>2, <3>1 DEF RoutesInv, routeVars, RoutesAsServed
  <2>3. QED
    BY <1>2, <2>1, <2>2 DEF RoutesInv, routeVars
<1>3. QED
  BY <1>1, <1>2

LEMMA AlwaysRoutesInv == MakeGenSpec => []RoutesInv
<1>1. MakeGenInit => RoutesInv
  BY RoutesBegin DEF MakeGenInit
<1>2. ASSUME RoutesInv, [MakeGenNext]_makeGenVars PROVE RoutesInv'
  <2>1. [RouteNext]_routeVars
    BY <1>2 DEF MakeGenNext, makeGenVars, Files, Wiring, Routes, Query, Handlers, Ended
  <2>2. QED
    BY <1>2, <2>1, RoutesStep
<1>3. QED
  BY <1>1, <1>2, PTL DEF MakeGenSpec

(***************************************************************************)
(* For any method of a module, any nesting of blocks and any number of     *)
(* variables: the document shows the routes that are served, where all are *)
(* registered in the forms that are read, and what the walker passes over  *)
(* adds nothing wrong unless a var shadows a router that it knows.         *)
(***************************************************************************)
THEOREM DocumentsShowRoutes == MakeGenSpec => []RoutesAsServed
<1>1. RoutesInv => RoutesAsServed
  BY DEF RoutesInv
<1>2. QED
  BY <1>1, AlwaysRoutesInv, PTL
-----------------------------------------------------------------------------
(***************************************************************************)
(* modulegen: what it takes the names of the sources to stand for.         *)
(***************************************************************************)
(***************************************************************************)
(* A name that some import has stands for the path of one of them.         *)
(***************************************************************************)
LEMMA PathIs ==
  ASSUME NEW imports \in Seq(ImportSpec), NEW sel
  PROVE  /\ (\E k \in DOMAIN imports : Alias(imports[k]) = sel) =>
              \E k \in DOMAIN imports : /\ Alias(imports[k]) = sel
                                        /\ PathOf(imports, sel) = imports[k].path
         /\ (\A k \in DOMAIN imports : Alias(imports[k]) # sel) => PathOf(imports, sel) = ""
<1> DEFINE named == {k \in DOMAIN imports : Alias(imports[k]) = sel}
<1>1. named \subseteq 1 .. Len(imports) /\ Len(imports) \in Nat
  OBVIOUS
<1>2. ASSUME named # {} PROVE Max(named) \in named
  <2>1. PICK x \in named : \A y \in named : y <= x
    <3> HIDE DEF named
    <3>1. QED
      BY <1>1, <1>2, LastOf
  <2>2. \A y \in named : x >= y
    <3> HIDE DEF named
    <3>1. \A y \in named : x \in Int /\ y \in Int
      BY <1>1
    <3>2. QED
      BY <2>1, <3>1
  <2>3. QED
    BY <2>2 DEF Max
<1>3. QED
  BY <1>2 DEF PathOf

LEMMA GoPathIs ==
  ASSUME NEW imports \in Seq(ImportSpec), NEW sel
  PROVE  /\ (\E k \in DOMAIN imports : GoName(imports[k]) = sel) =>
              \E k \in DOMAIN imports : /\ GoName(imports[k]) = sel
                                        /\ GoPath(imports, sel) = imports[k].path
         /\ (\A k \in DOMAIN imports : GoName(imports[k]) # sel) => GoPath(imports, sel) = ""
<1> DEFINE named == {k \in DOMAIN imports : GoName(imports[k]) = sel}
<1>1. named \subseteq 1 .. Len(imports) /\ Len(imports) \in Nat
  OBVIOUS
<1>2. ASSUME named # {} PROVE Max(named) \in named
  <2>1. PICK x \in named : \A y \in named : y <= x
    <3> HIDE DEF named
    <3>1. QED
      BY <1>1, <1>2, LastOf
  <2>2. \A y \in named : x >= y
    <3> HIDE DEF named
    <3>1. \A y \in named : x \in Int /\ y \in Int
      BY <1>1
    <3>2. QED
      BY <2>1, <3>1
  <2>3. QED
    BY <2>2 DEF Max
<1>3. QED
  BY <1>2 DEF GoPath

(***************************************************************************)
(* Where no import is renamed, modulegen knows every name as Go does.      *)
(***************************************************************************)
LEMMA NoneRenamed ==
  ASSUME NEW imports \in Seq(ImportSpec), ~Renamed(imports)
  PROVE  (\A sel : PathOf(imports, sel) = GoPath(imports, sel)) /\ Told(imports)
<1>1. \A k \in DOMAIN imports : Alias(imports[k]) = GoName(imports[k])
  BY DEF Renamed, Alias, GoName, ToSet
<1>2. ASSUME NEW sel PROVE PathOf(imports, sel) = GoPath(imports, sel)
  <2>1. {k \in DOMAIN imports : Alias(imports[k]) = sel}
          = {k \in DOMAIN imports : GoName(imports[k]) = sel}
    BY <1>1
  <2>2. QED
    BY <2>1 DEF PathOf, GoPath
<1>3. Told(imports)
  <2> DEFINE names == {GoName(i) : i \in ToSet(imports)}
             lost == {GoPath(imports, sel) : sel \in {n \in names : PathOf(imports, n) = ""}}
  <2>1. \A p \in lost : p = ""
    BY <1>2
  <2>2. \A sel \in names : PathOf(imports, sel) =
                            IF GoPath(imports, sel) \in lost THEN "" ELSE GoPath(imports, sel)
    <3> HIDE DEF names, lost
    <3>1. TAKE sel \in names
    <3>2. PathOf(imports, sel) = GoPath(imports, sel)
      BY <1>2
    <3>3. CASE GoPath(imports, sel) \in lost
      BY <2>1, <3>2, <3>3
    <3>4. CASE GoPath(imports, sel) \notin lost
      BY <3>2, <3>4
    <3>5. QED
      BY <3>3, <3>4
  <2>3. QED
    BY <2>2 DEF Told
<1>4. QED
  BY <1>2, <1>3

(***************************************************************************)
(* Where no import passes for another, each name is known rightly or not   *)
(* at all.                                                                 *)
(***************************************************************************)
LEMMA ToldImports ==
  ASSUME NEW imports \in Seq(ImportSpec), Unmistaken(imports),
         NEW types, Compile(types, imports)
  PROVE  Told(imports)
<1> DEFINE names == {GoName(i) : i \in ToSet(imports)}
           lost == {GoPath(imports, sel) : sel \in {n \in names : PathOf(imports, n) = ""}}
<1>1. CASE ~Renamed(imports)
  BY <1>1, NoneRenamed
<1>2. CASE Renamed(imports)
  <2>1. ASSUME NEW k \in DOMAIN imports
        PROVE  /\ GoPath(imports, GoName(imports[k])) = imports[k].path
               /\ PathOf(imports, GoName(imports[k])) \in {"", imports[k].path}
    <3> DEFINE sel == GoName(imports[k])
    <3>1. GoPath(imports, sel) = imports[k].path
      <4>1. PICK i \in DOMAIN imports : /\ GoName(imports[i]) = sel
                                        /\ GoPath(imports, sel) = imports[i].path
        BY GoPathIs
      <4>2. QED
        BY <4>1 DEF Compile
    <3>2. CASE \E i \in DOMAIN imports : Alias(imports[i]) = sel
      <4>1. PICK i \in DOMAIN imports : /\ Alias(imports[i]) = sel
                                        /\ PathOf(imports, sel) = imports[i].path
        BY <3>2, PathIs
      <4>2. i = k
        <5>1. CASE imports[i].as = ""
          BY <1>2, <4>1, <5>1 DEF Unmistaken, Alias
        <5>2. CASE imports[i].as # ""
          <6>1. GoName(imports[i]) = sel
            BY <4>1, <5>2 DEF Alias, GoName
          <6>2. QED
            BY <6>1 DEF Compile
        <5>3. QED
          BY <5>1, <5>2
      <4>3. QED
        BY <3>1, <4>1, <4>2
    <3>3. CASE \A i \in DOMAIN imports : Alias(imports[i]) # sel
      BY <3>1, <3>3, PathIs
    <3>4. QED
      BY <3>2, <3>3
  <2>2. ASSUME NEW sel \in names
        PROVE  PathOf(imports, sel) =
                 IF GoPath(imports, sel) \in lost THEN "" ELSE GoPath(imports, sel)
    <3>1. PICK k \in DOMAIN imports : sel = GoName(imports[k])
      BY DEF ToSet
    <3>2. CASE GoPath(imports, sel) \in lost
      <4>1. PICK other \in names : /\ PathOf(imports, other) = ""
                                   /\ GoPath(imports, other) = GoPath(imports, sel)
        BY <3>2
      <4>2. PICK l \in DOMAIN imports : other = GoName(imports[l])
        BY DEF ToSet
      <4>3. imports[l].path = imports[k].path
        BY <2>1, <3>1, <4>1, <4>2
      <4>4. l = k
        BY <1>2, <4>3 DEF Unmistaken
      <4>5. QED
        BY <3>1, <3>2, <4>1, <4>2, <4>4
    <3>3. CASE GoPath(imports, sel) \notin lost
      <4>1. PathOf(imports, sel) # ""
        BY <3>3
      <4> HIDE DEF names, lost
      <4>2. QED
        BY <2>1, <3>1, <3>3, <4>1
    <3>4. QED
      BY <3>2, <3>3
  <2>3. QED
    BY <2>2 DEF Told
<1>3. QED
  BY <1>1, <1>2

(***************************************************************************)
(* What the names of told imports stand for.                               *)
(***************************************************************************)
KnownBut(imports, lost) ==
  \A i \in ToSet(imports) : LET sel == GoName(i) IN
    /\ GoPath(imports, sel) \notin {"", AppPath}
    /\ PathOf(imports, sel) = IF GoPath(imports, sel) \in lost THEN "" ELSE GoPath(imports, sel)

LEMMA ToldPaths ==
  ASSUME NEW imports \in Seq(ImportSpec), Told(imports), NEW types, Compile(types, imports)
  PROVE  \E lost : KnownBut(imports, lost)
<1> DEFINE names == {GoName(i) : i \in ToSet(imports)}
           lost == {GoPath(imports, sel) : sel \in {n \in names : PathOf(imports, n) = ""}}
<1>1. ASSUME NEW sel \in names
      PROVE  /\ GoPath(imports, sel) \notin {"", AppPath}
             /\ PathOf(imports, sel) =
                  IF GoPath(imports, sel) \in lost THEN "" ELSE GoPath(imports, sel)
  <2>1. PICK k \in DOMAIN imports : GoName(imports[k]) = sel
    BY DEF ToSet
  <2>2. PICK i \in DOMAIN imports : GoPath(imports, sel) = imports[i].path
    BY <2>1, GoPathIs
  <2>3. imports[i].path \notin {"", AppPath}
    BY DEF Compile, ToSet
  <2>4. QED
    BY <2>2, <2>3 DEF Told
<1>2. QED
  <2> HIDE DEF lost
  <2>1. KnownBut(imports, lost)
    BY <1>1 DEF KnownBut
  <2>2. QED
    BY <2>1

(***************************************************************************)
(* The fields of Application that modulegen finds under a type of another  *)
(* package are those of that type, or it does not know the package.        *)
(***************************************************************************)
LEMMA FieldsFound ==
  ASSUME tree \in Trees, Told(tree.imports), NEW ptr, NEW path, NEW name, path \notin {"", AppPath}
  PROVE  LET key == Key(ptr, path, name)
         IN  /\ ApplicationFields(key) = {} \/ ApplicationFields(key) = FieldsOfType(key)
             /\ ~Renamed(tree.imports) => ApplicationFields(key) = FieldsOfType(key)
<1> DEFINE key == Key(ptr, path, name)
           types == {f.type : f \in tree.fields}
<1>1. /\ tree.imports \in Seq(ImportSpec) /\ Compile(types, tree.imports)
      /\ \A f \in tree.fields : f.type \in TypeExpr
  BY WiringAssumption DEF WiringAssumption
<1>2. PICK lost : KnownBut(tree.imports, lost)
  <2> HIDE DEF types
  <2>1. QED
    BY <1>1, ToldPaths
<1>3. ASSUME NEW f \in tree.fields, f.type.sel = ""
      PROVE  f \notin ApplicationFields(key) /\ f \notin FieldsOfType(key)
  BY <1>3, WiringAssumption DEF ApplicationFields, FieldsOfType, TypeKey, GoType, Key
<1>4. ASSUME NEW f \in tree.fields, f.type.sel = "[]"
      PROVE  f \notin ApplicationFields(key) /\ f \notin FieldsOfType(key)
  <2>1. PathOf(tree.imports, "[]") = ""
    <3>1. \A i \in ToSet(tree.imports) : Alias(i) # "[]"
      BY <1>1 DEF Compile
    <3>2. QED
      BY <1>1, <3>1, PathIs DEF ToSet
  <2>2. QED
    BY <1>4, <2>1 DEF ApplicationFields, FieldsOfType, Supported
<1>5. ASSUME NEW f \in tree.fields, f.type.sel \notin {"", "[]"}
      PROVE  /\ f \in FieldsOfType(key) <=>
                  /\ f.name # "" /\ GoPath(tree.imports, f.type.sel) = path
                  /\ f.type.ptr = ptr /\ f.type.name = name
             /\ f \in ApplicationFields(key) <=>
                  /\ f.name # "" /\ PathOf(tree.imports, f.type.sel) = path
                  /\ f.type.ptr = ptr /\ f.type.name = name
             /\ PathOf(tree.imports, f.type.sel) =
                  IF GoPath(tree.imports, f.type.sel) \in lost
                  THEN "" ELSE GoPath(tree.imports, f.type.sel)
  <2>1. \E i \in ToSet(tree.imports) : GoName(i) = f.type.sel
    BY <1>1, <1>5 DEF Compile
  <2>2. QED
    BY <1>2, <1>5, <2>1
       DEF KnownBut, ApplicationFields, FieldsOfType, TypeKey, GoType, Key, Supported
<1>6. ApplicationFields(key) \subseteq tree.fields /\ FieldsOfType(key) \subseteq tree.fields
  BY DEF ApplicationFields, FieldsOfType
<1>7. CASE path \in lost
  <2>1. ApplicationFields(key) = {}
    BY <1>3, <1>4, <1>5, <1>6, <1>7
  <2>2. ASSUME ~Renamed(tree.imports), NEW f \in FieldsOfType(key) PROVE FALSE
    <3>1. f \in tree.fields /\ f.type.sel \notin {"", "[]"}
      BY <1>3, <1>4, <1>6, <2>2
    <3>2. PathOf(tree.imports, f.type.sel) = GoPath(tree.imports, f.type.sel)
      BY <1>1, <2>2, NoneRenamed
    <3>3. QED
      BY <1>5, <1>7, <2>2, <3>1, <3>2
  <2>3. QED
    BY <2>1, <2>2
<1>8. CASE path \notin lost
  <2>1. ASSUME NEW f \in tree.fields
        PROVE  f \in ApplicationFields(key) <=> f \in FieldsOfType(key)
    BY <1>3, <1>4, <1>5, <1>8
  <2>2. QED
    BY <1>6, <2>1
<1>9. QED
  BY <1>7, <1>8

LEMMA FileOf ==
  ASSUME tree \in Trees, NEW k \in DOMAIN tree.dirs, NEW package \in tree.dirs[k].packages,
         NEW file \in package.files
  PROVE  /\ file \in SourceFile /\ file.imports \in Seq(ImportSpec)
         /\ Compile(UNION {ToSet(new.params) : new \in file.news}, file.imports)
         /\ tree.dirs \in Seq(Directory) /\ tree.dirs[k] \in Directory
         /\ tree.dirs[k].path \notin {"", AppPath} /\ AppPath # ""
<1>1. tree.dirs \in Seq(Directory)
  BY WiringAssumption DEF WiringAssumption
<1>2. tree.dirs[k] \in Directory
  BY <1>1
<1>3. file \in SourceFile
  BY <1>2 DEF Directory
<1>4. file.imports \in Seq(ImportSpec)
  BY <1>3 DEF SourceFile
<1>5. QED
  BY <1>1, <1>2, <1>3, <1>4, WiringAssumption DEF WiringAssumption

(***************************************************************************)
(* What a module asserts is what Go says it asserts.                       *)
(***************************************************************************)
LEMMA AssertsFound ==
  ASSUME tree \in Trees, NEW k \in DOMAIN tree.dirs, NEW package \in tree.dirs[k].packages,
         \A file \in package.files : Told(file.imports)
  PROVE  AssertedModules(package) = GoAsserts(package)
<1>1. ASSUME NEW file \in package.files
      PROVE  /\ file.imports \in Seq(ImportSpec)
             /\ Compile(UNION {ToSet(new.params) : new \in file.news}, file.imports)
             /\ Told(file.imports)
  BY FileOf
<1>2. ASSUME NEW file \in package.files, NEW sel
      PROVE  PathOf(file.imports, sel) = Root <=> GoPath(file.imports, sel) = Root
  <2> DEFINE imports == file.imports
  <2>1. PICK lost : KnownBut(imports, lost)
    BY <1>1, ToldPaths
  <2>2. /\ \A i \in ToSet(imports) : i.path # ""
        /\ \A i \in ToSet(imports) : i.path = Root => Alias(i) = GoName(i)
    BY <1>1, WiringAssumption DEF WiringAssumption, Compile, Alias, GoName
  <2>3. Root # "" /\ \A i \in DOMAIN imports : imports[i] \in ToSet(imports)
    BY WiringAssumption DEF WiringAssumption, ToSet
  <2>4. ASSUME PathOf(imports, sel) = Root PROVE GoPath(imports, sel) = Root
    <3>1. PICK i \in DOMAIN imports : Alias(imports[i]) = sel /\ imports[i].path = Root
      BY <1>1, <2>3, <2>4, PathIs
    <3>2. GoName(imports[i]) = sel
      BY <2>2, <2>3, <3>1
    <3>3. QED
      BY <2>1, <2>3, <2>4, <3>2 DEF KnownBut
  <2>5. ASSUME GoPath(imports, sel) = Root PROVE PathOf(imports, sel) = Root
    <3>1. PICK i \in DOMAIN imports : GoName(imports[i]) = sel /\ imports[i].path = Root
      BY <1>1, <2>3, <2>5, GoPathIs
    <3>2. Alias(imports[i]) = sel
      BY <2>2, <2>3, <3>1
    <3>3. PathOf(imports, sel) # ""
      BY <1>1, <2>2, <2>3, <3>2, PathIs
    <3>4. QED
      BY <2>1, <2>3, <2>5, <3>1, <3>3 DEF KnownBut
  <2>6. QED
    BY <2>4, <2>5
<1>3. QED
  BY <1>2 DEF AssertedModules, GoAsserts

(***************************************************************************)
(* The field modulegen takes for a parameter has the type of the parameter *)
(* in Go.                                                                  *)
(***************************************************************************)
LEMMA DependencyFound ==
  ASSUME tree \in Trees, NEW k \in DOMAIN tree.dirs, NEW package \in tree.dirs[k].packages,
         NEW file \in package.files, Told(tree.imports), Told(file.imports),
         NEW new \in file.news, NEW j \in DOMAIN new.params
  PROVE  LET type  == new.params[j]
             path  == tree.dirs[k].path
             right == FieldsOfType(GoType(type, file.imports, path))
         IN  /\ Satisfied(type, file, path) =>
                  Shadowed(type) \/ Dependency(type, file, path) = right
             /\ ~Renamed(tree.imports) /\ ~Renamed(file.imports) /\ ~Shadowed(type) /\ Single(right)
                  => Satisfied(type, file, path)
<1> DEFINE type  == new.params[j]
           path  == tree.dirs[k].path
           right == FieldsOfType(GoType(type, file.imports, path))
           types == UNION {ToSet(n.params) : n \in file.news}
           Goal  == /\ Satisfied(type, file, path) =>
                         Shadowed(type) \/ Dependency(type, file, path) = right
                    /\ ~Renamed(tree.imports) /\ ~Renamed(file.imports) /\ ~Shadowed(type)
                         /\ Single(right) => Satisfied(type, file, path)
<1> SUFFICES Goal
  OBVIOUS
<1>1. /\ file.imports \in Seq(ImportSpec) /\ Compile(types, file.imports)
      /\ path \notin {"", AppPath} /\ AppPath # ""
      /\ type \in types
  <2>1. type \in ToSet(new.params)
    BY DEF ToSet
  <2>2. QED
    BY <2>1, FileOf
<1>2. ASSUME NEW ptr, NEW p, NEW name, p \notin {"", AppPath}
      PROVE  LET key == Key(ptr, p, name)
             IN  /\ ApplicationFields(key) = {} \/ ApplicationFields(key) = FieldsOfType(key)
                 /\ ~Renamed(tree.imports) => ApplicationFields(key) = FieldsOfType(key)
  BY <1>2, FieldsFound
<1>3. CASE type.sel = ""
  <2> DEFINE local == Key(type.ptr, "", type.name)
             own   == Key(type.ptr, path, type.name)
  <2>1. /\ TypeKey(type, file.imports) = local /\ local.path = ""
        /\ Key(local.ptr, path, local.name) = own
        /\ GoType(type, file.imports, path) = own /\ Supported(type, file.imports)
    <3> HIDE DEF type, path
    <3>1. TypeKey(type, file.imports) = local /\ GoType(type, file.imports, path) = own
      BY <1>3 DEF TypeKey, GoType
    <3>2. local.path = "" /\ Key(local.ptr, path, local.name) = own
      BY DEF Key
    <3>3. Supported(type, file.imports)
      BY <1>3 DEF Supported
    <3>4. QED
      BY <3>1, <3>2, <3>3
  <2>2. ASSUME ApplicationFields(local) # {} PROVE Shadowed(type)
    <3>1. PICK f \in tree.fields : /\ Supported(f.type, tree.imports)
                                   /\ TypeKey(f.type, tree.imports) = local
      BY <2>2 DEF ApplicationFields
    <3>2. f.type.sel = "" /\ f.type.name = type.name
      BY <3>1 DEF TypeKey, Key, Supported
    <3>3. QED
      BY <1>3, <3>2 DEF Shadowed
  <2>3. ASSUME ApplicationFields(local) = {}
        PROVE  /\ Dependency(type, file, path) = ApplicationFields(own)
               /\ Satisfied(type, file, path) <=> Single(ApplicationFields(own))
    <3> HIDE DEF local, own, type
    <3>1. Dependency(type, file, path) = ApplicationFields(own)
      BY <2>1, <2>3 DEF Dependency
    <3>2. QED
      BY <2>1, <3>1 DEF Satisfied
  <2>4. ~Single({})
    BY DEF Single
  <2>5. /\ ApplicationFields(own) = {} \/ ApplicationFields(own) = FieldsOfType(own)
        /\ ~Renamed(tree.imports) => ApplicationFields(own) = FieldsOfType(own)
    BY <1>1, <1>2
  <2>6. ASSUME ~Shadowed(type) PROVE ApplicationFields(local) = {}
    BY <2>2, <2>6
  <2>7. QED
    <3> HIDE DEF local, own, type, path
    <3>1. right = FieldsOfType(own)
      BY <2>1
    <3> HIDE DEF right
    <3>2. QED
      BY <2>1, <2>3, <2>4, <2>5, <2>6, <3>1
<1>4. CASE type.sel = "[]"
  <2>1. PathOf(file.imports, type.sel) = "" /\ GoPath(file.imports, type.sel) = ""
    <3>1. \A i \in DOMAIN file.imports : /\ Alias(file.imports[i]) # "[]"
                                         /\ GoName(file.imports[i]) # "[]"
      BY <1>1 DEF Compile, ToSet
    <3>2. PathOf(file.imports, "[]") = "" /\ GoPath(file.imports, "[]") = ""
      <4>1. /\ {i \in DOMAIN file.imports : Alias(file.imports[i]) = "[]"} = {}
            /\ {i \in DOMAIN file.imports : GoName(file.imports[i]) = "[]"} = {}
        BY <3>1
      <4>2. QED
        BY <4>1 DEF PathOf, GoPath
    <3>3. QED
      BY <1>4, <3>2
  <2>2. ~Satisfied(type, file, path)
    BY <1>4, <2>1 DEF Satisfied, Supported
  <2>3. ASSUME NEW f \in right PROVE FALSE
    <3>1. /\ f \in tree.fields /\ f.type.sel # "[]"
          /\ GoType(f.type, tree.imports, AppPath).path = ""
      BY <1>4, <2>1, <2>3 DEF FieldsOfType, GoType, Key
    <3>2. f.type.sel # "" /\ GoPath(tree.imports, f.type.sel) = ""
      BY <1>1, <3>1 DEF GoType, Key
    <3>3. /\ tree.imports \in Seq(ImportSpec)
          /\ Compile({g.type : g \in tree.fields}, tree.imports)
      BY WiringAssumption DEF WiringAssumption
    <3>4. \E i \in ToSet(tree.imports) : GoName(i) = f.type.sel
      BY <3>1, <3>2, <3>3 DEF Compile
    <3>5. PICK lost : KnownBut(tree.imports, lost)
      BY <3>3, ToldPaths
    <3>6. QED
      BY <3>2, <3>4, <3>5 DEF KnownBut
  <2>4. ~Single(right)
    BY <2>3 DEF Single
  <2>5. QED
    BY <2>2, <2>4
<1>5. CASE type.sel \notin {"", "[]"}
  <2> DEFINE p     == PathOf(file.imports, type.sel)
             go    == GoPath(file.imports, type.sel)
  <2>1. PICK lost : KnownBut(file.imports, lost)
    <3> HIDE DEF types
    <3>1. QED
      BY <1>1, ToldPaths
  <2>2. \E i \in ToSet(file.imports) : GoName(i) = type.sel
    BY <1>1, <1>5 DEF Compile
  <2>3. go \notin {"", AppPath} /\ p \in {"", go}
    BY <2>1, <2>2 DEF KnownBut
  <2>4. /\ TypeKey(type, file.imports) = Key(type.ptr, p, type.name)
        /\ GoType(type, file.imports, path) = Key(type.ptr, go, type.name)
        /\ Supported(type, file.imports) <=> p # ""
    BY <1>5 DEF TypeKey, GoType, Supported
  <2>5. ASSUME p # ""
        PROVE  /\ Dependency(type, file, path) = ApplicationFields(Key(type.ptr, go, type.name))
               /\ Satisfied(type, file, path) <=>
                    Single(ApplicationFields(Key(type.ptr, go, type.name)))
    <3>1. p = go /\ Key(type.ptr, p, type.name).path # ""
      BY <2>3, <2>5 DEF Key
    <3>2. Dependency(type, file, path) = ApplicationFields(Key(type.ptr, go, type.name))
      BY <2>4, <3>1 DEF Dependency
    <3>3. QED
      BY <2>4, <2>5, <3>2 DEF Satisfied
  <2>6. ASSUME p = "" PROVE ~Satisfied(type, file, path)
    BY <2>4, <2>6 DEF Satisfied
  <2>7. ~Renamed(file.imports) => p = go
    BY <1>1, NoneRenamed
  <2>8. ~Single({})
    BY DEF Single
  <2>9. /\ \/ ApplicationFields(Key(type.ptr, go, type.name)) = {}
           \/ ApplicationFields(Key(type.ptr, go, type.name)) = right
        /\ ~Renamed(tree.imports) => ApplicationFields(Key(type.ptr, go, type.name)) = right
    BY <1>2, <2>3, <2>4
  <2>10. QED
    <3> HIDE DEF p, go, right, type, path
    <3>1. QED
      BY <2>3, <2>5, <2>6, <2>7, <2>8, <2>9
<1>6. QED
  BY <1>3, <1>4, <1>5

(***************************************************************************)
(* What is said of the sources does not change with the run.               *)
(***************************************************************************)
LEMMA SameTree ==
  ASSUME tree' = tree
  PROVE  /\ ModuleDirs' = ModuleDirs /\ (Ordinary' <=> Ordinary)
         /\ \A s, dir : FoundIn(s, dir)' <=> FoundIn(s, dir)
         /\ \A dir : CanBeWired(dir)' <=> CanBeWired(dir)
<1>1. \A key : FieldsOfType(key)' = FieldsOfType(key)
  BY DEF FieldsOfType
<1>2. \A type : Shadowed(type)' <=> Shadowed(type)
  BY DEF Shadowed
<1>3. \A s, dir : RightArguments(s, dir)' <=> RightArguments(s, dir)
  BY <1>1, <1>2 DEF RightArguments
<1>4. \A s, dir : WiredRight(s, dir)' <=> WiredRight(s, dir)
  BY <1>1, <1>3 DEF WiredRight
<1>5. ModuleDirs' = ModuleDirs
  BY DEF ModuleDirs
<1>6. \A s, dir : FoundIn(s, dir)' <=> FoundIn(s, dir)
  BY <1>4, <1>5 DEF FoundIn
<1>7. \A dir : CanBeWired(dir)' <=> CanBeWired(dir)
  BY <1>1, <1>2 DEF CanBeWired
<1>8. Ordinary' <=> Ordinary
  BY <1>5 DEF Ordinary
<1>9. QED
  BY <1>5, <1>6, <1>7, <1>8

(***************************************************************************)
(* The directory looked at is the next one of the sources.                 *)
(***************************************************************************)
LEMMA NextDirectory ==
  ASSUME WiringInv, entries # <<>>
  PROVE  /\ Visited + 1 \in DOMAIN tree.dirs /\ Head(entries) = tree.dirs[Visited + 1]
         /\ Head(entries) \in ToSet(tree.dirs) /\ Head(entries) \in Directory
<1>1. /\ entries \in Seq(Directory) /\ tree.dirs \in Seq(Directory) /\ Visited \in Nat
      /\ \A k \in DOMAIN entries : entries[k] = tree.dirs[Visited + k]
  BY WiringAssumption DEF WiringAssumption, WiringInv
<1>2. Len(entries) \in Nat \ {0} /\ Head(entries) = entries[1] /\ 1 \in DOMAIN entries
  BY <1>1
<1>3. Visited + 1 \in 1 .. Len(tree.dirs)
  BY <1>1, <1>2 DEF Visited
<1>4. QED
  BY <1>1, <1>2, <1>3 DEF ToSet

LEMMA Advances ==
  ASSUME WiringInv, entries # <<>>, entries' = Tail(entries), tree' = tree
  PROVE  /\ tree' \in Trees /\ entries' \in Seq(Directory)
         /\ Visited' = Visited + 1 /\ Visited' \in Nat /\ Visited \in Nat
         /\ \A k \in DOMAIN entries' : entries'[k] = tree'.dirs[Visited' + k]
<1>1. /\ entries \in Seq(Directory) /\ tree.dirs \in Seq(Directory) /\ Visited \in Nat
      /\ \A k \in DOMAIN entries : entries[k] = tree.dirs[Visited + k] /\ tree \in Trees
  BY WiringAssumption, NextDirectory DEF WiringAssumption, WiringInv
<1>2. /\ entries' \in Seq(Directory) /\ Len(entries') = Len(entries) - 1
      /\ Len(entries) \in Nat \ {0} /\ Len(tree.dirs) \in Nat
      /\ \A k \in DOMAIN entries' : k + 1 \in DOMAIN entries /\ entries'[k] = entries[k + 1]
  BY <1>1
<1>3. Visited' = Visited + 1
  BY <1>2 DEF Visited
<1>4. ASSUME NEW k \in DOMAIN entries' PROVE entries'[k] = tree'.dirs[Visited' + k]
  <2>1. k \in Nat /\ Visited + (k + 1) = Visited' + k
    BY <1>1, <1>2, <1>3
  <2>2. QED
    BY <1>1, <1>2, <2>1
<1>5. QED
  BY <1>1, <1>2, <1>3, <1>4

(***************************************************************************)
(* A directory without a module is passed over.                            *)
(***************************************************************************)
LEMMA PassKeepsInv ==
  ASSUME WiringInv, wiring = "inspecting", entries # <<>>, Pass,
         Head(entries) \in ModuleDirs => AssertedModules(ThePackage(Head(entries))) = {}
  PROVE  WiringInv'
<1>1. entries' = Tail(entries) /\ tree' = tree /\ specs' = specs /\ wiring' = wiring
  BY DEF Pass
<1>2. /\ tree' \in Trees /\ entries' \in Seq(Directory)
      /\ Visited' = Visited + 1 /\ Visited' \in Nat /\ Visited \in Nat
      /\ \A k \in DOMAIN entries' : entries'[k] = tree'.dirs[Visited' + k]
  BY <1>1, Advances
<1>3. (\A k \in DOMAIN specs : \E i \in 1 .. Visited : FoundIn(specs[k], tree.dirs[i]))'
  <2>1. ASSUME NEW k \in DOMAIN specs
        PROVE  \E i \in 1 .. Visited + 1 : FoundIn(specs[k], tree.dirs[i])
    <3>1. PICK i \in 1 .. Visited : FoundIn(specs[k], tree.dirs[i])
      BY DEF WiringInv
    <3>2. i \in 1 .. Visited + 1
      BY <1>2
    <3>3. QED
      BY <3>1, <3>2
  <2>2. \A s, dir : FoundIn(s, dir)' <=> FoundIn(s, dir)
    BY <1>1, SameTree
  <2>3. QED
    BY <1>1, <1>2, <2>1, <2>2
<1>4. ASSUME NEW i \in 1 .. Visited + 1,
             tree.dirs[i] \in ModuleDirs, AssertedModules(ThePackage(tree.dirs[i])) # {}
      PROVE  \E k \in DOMAIN specs : specs[k].path = tree.dirs[i].path
  <2>1. i \in 1 .. Visited \/ i = Visited + 1
    BY <1>2
  <2>2. i # Visited + 1
    BY <1>4, NextDirectory
  <2>3. QED
    BY <1>4, <2>1, <2>2 DEF WiringInv
<1>5. \A i \in 1 .. Visited' :
        tree'.dirs[i] \in ModuleDirs' /\ AssertedModules(ThePackage(tree'.dirs[i])) # {} =>
          \E k \in DOMAIN specs' : specs'[k].path = tree'.dirs[i].path
  BY <1>1, <1>2, <1>4, SameTree
<1>6. /\ specs' \in Seq(ModuleSpec)
      /\ \A k, l \in DOMAIN specs' : specs'[k].path = specs'[l].path => k = l
  BY <1>1 DEF WiringInv
<1>7. wiring' = "inspecting"
  BY <1>1
<1>8. QED
  BY <1>2, <1>3, <1>5, <1>6, <1>7 DEF WiringInv

LEMMA FailKeepsInv ==
  ASSUME WiringInv, WiringFails, Ordinary => \E dir \in ModuleDirs : ~CanBeWired(dir)
  PROVE  WiringInv'
<1>1. /\ wiring' = "failed" /\ tree' = tree /\ entries' = entries /\ specs' = specs
      /\ mounted' = mounted /\ Visited' = Visited
  BY DEF WiringFails, Visited
<1>2. /\ ModuleDirs' = ModuleDirs /\ (Ordinary' <=> Ordinary)
      /\ \A s, dir : FoundIn(s, dir)' <=> FoundIn(s, dir)
      /\ \A dir : CanBeWired(dir)' <=> CanBeWired(dir)
  BY <1>1, SameTree
<1>3. Ordinary' => \E dir \in ModuleDirs' : ~CanBeWired(dir)'
  BY <1>2
<1>4. /\ tree' \in Trees
      /\ entries' \in Seq(Directory) /\ Visited' \in Nat
      /\ \A k \in DOMAIN entries' : entries'[k] = tree'.dirs[Visited' + k]
      /\ specs' \in Seq(ModuleSpec)
      /\ \A k, l \in DOMAIN specs' : specs'[k].path = specs'[l].path => k = l
  BY <1>1 DEF WiringInv
<1>5. (\A k \in DOMAIN specs : \E i \in 1 .. Visited : FoundIn(specs[k], tree.dirs[i]))'
  <2>1. \A k \in DOMAIN specs : \E i \in 1 .. Visited : FoundIn(specs[k], tree.dirs[i])
    BY DEF WiringInv
  <2>2. QED
    BY <1>1, <1>2, <2>1
<1>6. \A i \in 1 .. Visited' :
        tree'.dirs[i] \in ModuleDirs' /\ AssertedModules(ThePackage(tree'.dirs[i])) # {} =>
          \E k \in DOMAIN specs' : specs'[k].path = tree'.dirs[i].path
  <2>1. \A i \in 1 .. Visited :
          tree.dirs[i] \in ModuleDirs /\ AssertedModules(ThePackage(tree.dirs[i])) # {} =>
            \E k \in DOMAIN specs : specs[k].path = tree.dirs[i].path
    BY DEF WiringInv
  <2>2. QED
    BY <1>1, <1>2, <2>1
<1>7. QED
  BY <1>1, <1>3, <1>4, <1>5, <1>6 DEF WiringInv

(***************************************************************************)
(* A module that is found and not refused.                                 *)
(***************************************************************************)
SpecOf(package, dir, instance, arguments) ==
  [path |-> dir.path, alias |-> package.name, instance |-> instance, arguments |-> arguments,
   http |-> \E a \in AssertedModules(package) : a.interface # "GRPCModule",
   grpc |-> \E a \in AssertedModules(package) : a.interface = "GRPCModule"]

Adds(package, dir, instance, arguments) ==
  /\ specs' = Append(specs, SpecOf(package, dir, instance, arguments))
  /\ entries' = Tail(entries) /\ tree' = tree /\ wiring' = wiring

RightIn(s, dir) ==
  /\ dir \in ModuleDirs /\ Told(tree.imports)
  /\ \A file \in ThePackage(dir).files : Told(file.imports)
  => WiredRight(s, dir)

LEMMA AddKeepsInv ==
  ASSUME WiringInv, wiring = "inspecting", entries # <<>>, NEW dir, dir = Head(entries),
         ~dir.hidden, NEW package \in dir.packages, AssertedModules(package) # {},
         NEW instance \in Instance, NEW arguments \in Seq(STRING),
         Adds(package, dir, instance, arguments),
         RightIn(SpecOf(package, dir, instance, arguments), dir)
  PROVE  WiringInv'
<1> DEFINE s == SpecOf(package, dir, instance, arguments)
           n == Len(specs)
<1>1. entries' = Tail(entries) /\ tree' = tree /\ wiring' = wiring /\ specs' = Append(specs, s)
  BY DEF Adds
<1>2. /\ tree' \in Trees /\ entries' \in Seq(Directory)
      /\ Visited' = Visited + 1 /\ Visited' \in Nat /\ Visited \in Nat
      /\ \A k \in DOMAIN entries' : entries'[k] = tree'.dirs[Visited' + k]
  BY <1>1, Advances
<1>3. /\ Visited + 1 \in DOMAIN tree.dirs /\ dir = tree.dirs[Visited + 1]
      /\ dir \in Directory
      /\ DOMAIN tree.dirs = 1 .. Len(tree.dirs) /\ Len(tree.dirs) \in Nat
  <2>1. tree.dirs \in Seq(Directory)
    BY WiringAssumption DEF WiringAssumption, WiringInv
  <2>2. QED
    BY <2>1, NextDirectory
<1>4. s \in ModuleSpec /\ s.path = dir.path
  <2>1. dir.path \in STRING /\ package.name \in STRING
    BY <1>3 DEF Directory
  <2>2. QED
    BY <2>1 DEF SpecOf, ModuleSpec
<1>5. FoundIn(s, dir)
  BY DEF FoundIn, RightIn, SpecOf
<1> HIDE DEF s
<1>6. /\ specs \in Seq(ModuleSpec) /\ specs' \in Seq(ModuleSpec) /\ n \in Nat
      /\ DOMAIN specs = 1 .. n /\ DOMAIN specs' = 1 .. n + 1
      /\ \A k \in 1 .. n : specs'[k] = specs[k]
      /\ specs'[n + 1] = s
  <2>1. specs \in Seq(ModuleSpec)
    BY DEF WiringInv
  <2>2. QED
    BY <1>1, <1>4, <2>1, AppendProperties
<1> HIDE DEF n
<1>7. \A i \in 1 .. Visited : tree.dirs[i].path # dir.path
  <2>1. \A i \in 1 .. Visited : i # Visited + 1
    BY <1>2
  <2>2. \A i \in 1 .. Visited : i \in DOMAIN tree.dirs
    BY <1>2, <1>3
  <2>3. \A i \in DOMAIN tree.dirs :
          tree.dirs[i].path = tree.dirs[Visited + 1].path => i = Visited + 1
    BY <1>3, WiringAssumption DEF WiringAssumption, WiringInv
  <2>4. QED
    BY <1>3, <2>1, <2>2, <2>3
<1>8. \A k \in 1 .. n : specs[k].path # s.path
  <2>1. ASSUME NEW k \in 1 .. n PROVE specs[k].path # s.path
    <3>1. PICK i \in 1 .. Visited : FoundIn(specs[k], tree.dirs[i])
      BY <1>6 DEF WiringInv
    <3>2. QED
      BY <1>4, <1>7, <3>1 DEF FoundIn
  <2>2. QED
    BY <2>1
<1>9. \A k, l \in DOMAIN specs' : specs'[k].path = specs'[l].path => k = l
  <2>1. \A k, l \in 1 .. n : specs[k].path = specs[l].path => k = l
    BY <1>6 DEF WiringInv
  <2>2. \A k \in 1 .. n + 1 : k \in 1 .. n \/ k = n + 1
    BY <1>6
  <2>3. QED
    BY <1>6, <1>8, <2>1, <2>2
<1>10. (\A k \in DOMAIN specs : \E i \in 1 .. Visited : FoundIn(specs[k], tree.dirs[i]))'
  <2>1. ASSUME NEW k \in 1 .. n + 1
        PROVE  \E i \in 1 .. Visited + 1 : FoundIn(specs'[k], tree.dirs[i])
    <3>1. CASE k = n + 1
      <4>1. Visited + 1 \in 1 .. Visited + 1
        BY <1>2
      <4>2. QED
        BY <1>3, <1>5, <1>6, <3>1, <4>1
    <3>2. CASE k \in 1 .. n
      <4>1. PICK i \in 1 .. Visited : FoundIn(specs[k], tree.dirs[i])
        BY <1>6, <3>2 DEF WiringInv
      <4>2. i \in 1 .. Visited + 1
        BY <1>2
      <4>3. QED
        BY <1>6, <3>2, <4>1, <4>2
    <3>3. QED
      BY <1>6, <3>1, <3>2
  <2>2. \A t, d : FoundIn(t, d)' <=> FoundIn(t, d)
    BY <1>1, SameTree
  <2>3. QED
    BY <1>1, <1>2, <1>6, <2>1, <2>2
<1>11. \A i \in 1 .. Visited' :
         tree'.dirs[i] \in ModuleDirs' /\ AssertedModules(ThePackage(tree'.dirs[i])) # {} =>
           \E k \in DOMAIN specs' : specs'[k].path = tree'.dirs[i].path
  <2>1. ASSUME NEW i \in 1 .. Visited + 1,
               tree.dirs[i] \in ModuleDirs, AssertedModules(ThePackage(tree.dirs[i])) # {}
        PROVE  \E k \in 1 .. n + 1 : specs'[k].path = tree.dirs[i].path
    <3>1. CASE i = Visited + 1
      <4>1. n + 1 \in 1 .. n + 1
        BY <1>6
      <4>2. QED
        BY <1>3, <1>4, <1>6, <3>1, <4>1
    <3>2. CASE i \in 1 .. Visited
      <4>1. PICK k \in DOMAIN specs : specs[k].path = tree.dirs[i].path
        BY <2>1, <3>2 DEF WiringInv
      <4>2. k \in 1 .. n /\ k \in 1 .. n + 1
        BY <1>6
      <4>3. QED
        BY <1>6, <4>1, <4>2
    <3>3. QED
      BY <1>2, <3>1, <3>2
  <2>2. QED
    BY <1>1, <1>2, <1>6, <2>1, SameTree
<1>12. wiring' = "inspecting"
  BY <1>1
<1>13. QED
  BY <1>2, <1>6, <1>9, <1>10, <1>11, <1>12 DEF WiringInv

LEMMA FieldNameIs ==
  ASSUME NEW S, Single(S)
  PROVE  \E f \in S : S = {f} /\ FieldName(S) = f.name
BY DEF Single, FieldName

LEMMA TheOnly ==
  ASSUME NEW dir, Single(dir.packages), NEW package \in dir.packages
  PROVE  ThePackage(dir) = package
BY DEF Single, ThePackage

(***************************************************************************)
(* A module with an instance, or a constructor, is wired right.            *)
(***************************************************************************)
LEMMA InstanceIsRight ==
  ASSUME tree \in Trees, NEW k \in DOMAIN tree.dirs, NEW dir, dir = tree.dirs[k],
         NEW package \in dir.packages, NEW a \in AssertedModules(package),
         NEW own, own = ApplicationFields(Key(TRUE, dir.path, a.type)), Single(own)
  PROVE  /\ RightIn(SpecOf(package, dir, FieldName(own), <<>>), dir)
         /\ FieldName(own) \in Instance
<1>1. PICK f \in own : own = {f} /\ FieldName(own) = f.name
  BY FieldNameIs
<1>2. f \in tree.fields /\ f.name \in STRING
  <2>1. f \in tree.fields
    BY DEF ApplicationFields
  <2>2. tree.fields \subseteq [name : STRING, type : TypeExpr]
    BY WiringAssumption DEF WiringAssumption
  <2>3. QED
    BY <2>1, <2>2
<1>3. ASSUME dir \in ModuleDirs, Told(tree.imports),
             \A file \in ThePackage(dir).files : Told(file.imports)
      PROVE  WiredRight(SpecOf(package, dir, FieldName(own), <<>>), dir)
  <2>1. ThePackage(dir) = package
    BY <1>3, TheOnly DEF ModuleDirs
  <2>2. AssertedModules(package) = GoAsserts(package)
    BY <1>3, <2>1, AssertsFound
  <2>3. dir.path \notin {"", AppPath}
    BY WiringAssumption DEF WiringAssumption
  <2>4. FieldsOfType(Key(TRUE, dir.path, a.type)) = own
    <3>1. own # {}
      BY DEF Single
    <3>2. QED
      BY <1>3, <2>3, <3>1, FieldsFound
  <2>5. {g.name : g \in own} = {f.name}
    BY <1>1
  <2>6. SpecOf(package, dir, FieldName(own), <<>>).instance = f.name
    BY <1>1 DEF SpecOf
  <2>7. a \in GoAsserts(ThePackage(dir))
    BY <2>1, <2>2
  <2>8. QED
    BY <2>4, <2>5, <2>6, <2>7 DEF WiredRight
<1>4. QED
  BY <1>1, <1>2, <1>3 DEF RightIn, Instance

ArgumentsOf(new, file, dir) ==
  [j \in DOMAIN new.params |-> FieldName(Dependency(new.params[j], file, dir.path))]

LEMMA ConstructorIsRight ==
  ASSUME tree \in Trees, NEW k \in DOMAIN tree.dirs, NEW dir, dir = tree.dirs[k],
         NEW package \in dir.packages, NEW file \in package.files, NEW new \in file.news,
         \A j \in DOMAIN new.params : Satisfied(new.params[j], file, dir.path)
  PROVE  /\ RightIn(SpecOf(package, dir, "", ArgumentsOf(new, file, dir)), dir)
         /\ ArgumentsOf(new, file, dir) \in Seq(STRING)
<1> DEFINE arguments == ArgumentsOf(new, file, dir)
<1>1. new.params \in Seq(TypeExpr)
  <2>1. file \in SourceFile
    BY FileOf
  <2>2. QED
    BY <2>1 DEF SourceFile
<1>2. ASSUME NEW j \in DOMAIN new.params
      PROVE  \E f \in Dependency(new.params[j], file, dir.path) :
               /\ Dependency(new.params[j], file, dir.path) = {f}
               /\ arguments[j] = f.name /\ f.name \in STRING
  <2> DEFINE fields == Dependency(new.params[j], file, dir.path)
  <2>1. Single(fields)
    BY DEF Satisfied
  <2>2. PICK f \in fields : fields = {f} /\ FieldName(fields) = f.name
    <3> HIDE DEF fields
    <3>1. QED
      BY <2>1, FieldNameIs
  <2>3. fields \subseteq tree.fields
    BY DEF Dependency, ApplicationFields
  <2>4. tree.fields \subseteq [name : STRING, type : TypeExpr]
    BY WiringAssumption DEF WiringAssumption
  <2>5. arguments[j] = FieldName(fields)
    BY DEF ArgumentsOf
  <2> HIDE DEF fields, arguments
  <2>6. QED
    BY <2>2, <2>3, <2>4, <2>5 DEF fields
<1>3. DOMAIN arguments = DOMAIN new.params
  BY DEF ArgumentsOf
<1>4. arguments \in Seq(STRING)
  <2>1. \A j \in DOMAIN new.params : arguments[j] \in STRING
    BY <1>2
  <2>2. DOMAIN new.params = 1 .. Len(new.params) /\ Len(new.params) \in Nat
    BY <1>1
  <2>3. arguments = [j \in 1 .. Len(new.params) |-> arguments[j]]
    BY <2>2 DEF ArgumentsOf
  <2> HIDE DEF arguments
  <2>4. arguments \in [1 .. Len(new.params) -> STRING]
    BY <2>1, <2>2, <2>3
  <2>5. QED
    BY <2>2, <2>4, SeqDef
<1>5. ASSUME dir \in ModuleDirs, Told(tree.imports),
             \A other \in ThePackage(dir).files : Told(other.imports)
      PROVE  WiredRight(SpecOf(package, dir, "", arguments), dir)
  <2> DEFINE s == SpecOf(package, dir, "", arguments)
  <2>1. ThePackage(dir) = package
    BY <1>5, TheOnly DEF ModuleDirs
  <2>2. s.instance = "" /\ s.arguments = arguments
    BY DEF SpecOf
  <2>3. ASSUME NEW j \in DOMAIN new.params, ~Shadowed(new.params[j])
        PROVE  {arguments[j]} =
                 {f.name : f \in FieldsOfType(GoType(new.params[j], file.imports, dir.path))}
    <3>1. Dependency(new.params[j], file, dir.path)
            = FieldsOfType(GoType(new.params[j], file.imports, dir.path))
      BY <1>5, <2>1, <2>3, DependencyFound
    <3>2. PICK f \in Dependency(new.params[j], file, dir.path) :
               /\ Dependency(new.params[j], file, dir.path) = {f}
               /\ arguments[j] = f.name
      BY <1>2
    <3> HIDE DEF arguments
    <3>3. QED
      BY <3>1, <3>2
  <2> HIDE DEF arguments, s
  <2>4. RightArguments(s, dir)
    BY <1>3, <2>1, <2>2, <2>3 DEF RightArguments
  <2>5. QED
    BY <2>2, <2>4 DEF WiredRight, s
<1>6. QED
  BY <1>4, <1>5 DEF RightIn

(***************************************************************************)
(* Of ordinary sources modulegen knows what Go knows.                      *)
(***************************************************************************)
LEMMA OrdinaryModule ==
  ASSUME tree \in Trees, Ordinary, NEW k \in DOMAIN tree.dirs, NEW dir, dir = tree.dirs[k],
         ~dir.hidden, NEW package \in dir.packages
  PROVE  /\ dir \in ModuleDirs /\ ThePackage(dir) = package
         /\ Told(tree.imports) /\ ~Renamed(tree.imports)
         /\ \A file \in package.files : Told(file.imports) /\ ~Renamed(file.imports)
         /\ AssertedModules(package) = GoAsserts(package)
         /\ \A t : ApplicationFields(Key(TRUE, dir.path, t)) = FieldsOfType(Key(TRUE, dir.path, t))
<1>1. dir \in ModuleDirs /\ Single(dir.packages)
  BY DEF Ordinary, ModuleDirs, ToSet
<1>2. ThePackage(dir) = package
  BY <1>1, TheOnly
<1>3. ~Renamed(tree.imports) /\ \A file \in package.files : ~Renamed(file.imports)
  BY <1>1, <1>2 DEF Ordinary
<1>4. Told(tree.imports)
  <2>1. tree.imports \in Seq(ImportSpec)
    BY WiringAssumption DEF WiringAssumption
  <2>2. QED
    BY <1>3, <2>1, NoneRenamed
<1>5. \A file \in package.files : Told(file.imports)
  <2>1. \A file \in package.files : file.imports \in Seq(ImportSpec)
    BY FileOf
  <2>2. QED
    BY <1>3, <2>1, NoneRenamed
<1>6. AssertedModules(package) = GoAsserts(package)
  BY <1>5, AssertsFound
<1>7. dir.path \notin {"", AppPath}
  BY WiringAssumption DEF WiringAssumption
<1>8. \A t : ApplicationFields(Key(TRUE, dir.path, t)) = FieldsOfType(Key(TRUE, dir.path, t))
  BY <1>3, <1>4, <1>7, FieldsFound
<1>9. QED
  BY <1>1, <1>2, <1>3, <1>4, <1>5, <1>6, <1>8

(***************************************************************************)
(* Each refusal has a cause in the sources.                                *)
(***************************************************************************)
LEMMA RefusedPackage ==
  ASSUME tree \in Trees, Ordinary, NEW k \in DOMAIN tree.dirs, NEW dir, dir = tree.dirs[k],
         ~dir.hidden, NEW package \in dir.packages, AssertedModules(package) # {},
         \/ ~Single({a.type : a \in AssertedModules(package)})
         \/ package.name = "modules"
  PROVE  \E d \in ModuleDirs : ~CanBeWired(d)
<1>1. /\ dir \in ModuleDirs /\ ThePackage(dir) = package
      /\ AssertedModules(package) = GoAsserts(package)
  BY OrdinaryModule
<1>2. {a.type : a \in GoAsserts(package)} # {}
  BY <1>1
<1>3. ~CanBeWired(dir)
  BY <1>1, <1>2 DEF CanBeWired
<1>4. QED
  BY <1>1, <1>3

LEMMA RefusedFields ==
  ASSUME tree \in Trees, Ordinary, NEW k \in DOMAIN tree.dirs, NEW dir, dir = tree.dirs[k],
         ~dir.hidden, NEW package \in dir.packages,
         NEW type, {a.type : a \in AssertedModules(package)} = {type},
         ApplicationFields(Key(TRUE, dir.path, type)) # {},
         ~Single(ApplicationFields(Key(TRUE, dir.path, type)))
  PROVE  \E d \in ModuleDirs : ~CanBeWired(d)
<1>1. /\ dir \in ModuleDirs /\ ThePackage(dir) = package
      /\ AssertedModules(package) = GoAsserts(package)
      /\ ApplicationFields(Key(TRUE, dir.path, type)) = FieldsOfType(Key(TRUE, dir.path, type))
  BY OrdinaryModule
<1>2. ~CanBeWired(dir)
  BY <1>1 DEF CanBeWired
<1>3. QED
  BY <1>1, <1>2

LEMMA RefusedConstructor ==
  ASSUME tree \in Trees, Ordinary, NEW k \in DOMAIN tree.dirs, NEW dir, dir = tree.dirs[k],
         ~dir.hidden, NEW package \in dir.packages,
         NEW type, {a.type : a \in AssertedModules(package)} = {type},
         ApplicationFields(Key(TRUE, dir.path, type)) = {},
         \/ \A file \in package.files : {new \in file.news : new.result = type} = {}
         \/ \E file \in package.files : \E new \in file.news : \E j \in DOMAIN new.params :
              new.result = type /\ ~Satisfied(new.params[j], file, dir.path)
  PROVE  \E d \in ModuleDirs : ~CanBeWired(d)
<1>1. /\ dir \in ModuleDirs /\ ThePackage(dir) = package
      /\ AssertedModules(package) = GoAsserts(package)
      /\ ApplicationFields(Key(TRUE, dir.path, type)) = FieldsOfType(Key(TRUE, dir.path, type))
      /\ Told(tree.imports) /\ ~Renamed(tree.imports)
      /\ \A file \in package.files : Told(file.imports) /\ ~Renamed(file.imports)
  BY OrdinaryModule
<1> DEFINE makes == UNION {{new \in file.news : new.result = type} : file \in package.files}
<1>2. ASSUME CanBeWired(dir)
      PROVE  /\ makes # {}
             /\ \A file \in package.files : \A new \in file.news \cap makes :
                  \A j \in DOMAIN new.params :
                    /\ ~Shadowed(new.params[j])
                    /\ Single(FieldsOfType(GoType(new.params[j], file.imports, dir.path)))
  <2>1. ~Single({})
    BY DEF Single
  <2>2. type \in {a.type : a \in GoAsserts(package)}
    BY <1>1
  <2>3. ~Single(FieldsOfType(Key(TRUE, dir.path, type)))
    BY <1>1, <2>1
  <2> HIDE DEF makes
  <2>4. QED
    BY <1>1, <1>2, <2>2, <2>3 DEF CanBeWired, makes
<1>3. CASE \A file \in package.files : {new \in file.news : new.result = type} = {}
  <2>1. makes = {}
    BY <1>3
  <2>2. QED
    BY <1>1, <1>2, <2>1
<1>4. CASE \E file \in package.files : \E new \in file.news : \E j \in DOMAIN new.params :
              new.result = type /\ ~Satisfied(new.params[j], file, dir.path)
  <2>1. PICK file \in package.files : \E new \in file.news : \E j \in DOMAIN new.params :
              new.result = type /\ ~Satisfied(new.params[j], file, dir.path)
    BY <1>4
  <2>2. PICK new \in file.news : \E j \in DOMAIN new.params :
              new.result = type /\ ~Satisfied(new.params[j], file, dir.path)
    BY <2>1
  <2>3. PICK j \in DOMAIN new.params :
              new.result = type /\ ~Satisfied(new.params[j], file, dir.path)
    BY <2>2
  <2>4. new \in file.news \cap makes
    BY <2>3
  <2>5. ASSUME CanBeWired(dir) PROVE FALSE
    <3>1. /\ ~Shadowed(new.params[j])
          /\ Single(FieldsOfType(GoType(new.params[j], file.imports, dir.path)))
      BY <1>2, <2>4, <2>5
    <3>2. Satisfied(new.params[j], file, dir.path)
      BY <1>1, <3>1, DependencyFound
    <3>3. QED
      BY <2>3, <3>2
  <2>6. QED
    BY <1>1, <2>5
<1>5. QED
  BY <1>3, <1>4

(***************************************************************************)
(* No ordinary module has the package name of another.                     *)
(***************************************************************************)
LEMMA NoDuplicate ==
  ASSUME WiringInv, Ordinary, entries # <<>>, NEW dir, dir = Head(entries), ~dir.hidden,
         NEW package \in dir.packages, NEW s \in ToSet(specs), s.alias = package.name
  PROVE  FALSE
<1>1. /\ Visited + 1 \in DOMAIN tree.dirs /\ dir = tree.dirs[Visited + 1]
      /\ tree \in Trees /\ Visited \in Nat /\ tree.dirs \in Seq(Directory)
  BY NextDirectory, WiringAssumption DEF WiringInv, WiringAssumption
<1>2. PICK k \in DOMAIN specs : s = specs[k]
  BY DEF ToSet
<1>3. PICK i \in 1 .. Visited : FoundIn(s, tree.dirs[i])
  BY <1>2 DEF WiringInv
<1>4. i \in DOMAIN tree.dirs /\ i # Visited + 1
  BY <1>1
<1>5. tree.dirs[i].path # dir.path
  BY <1>1, <1>4, WiringAssumption DEF WiringAssumption
<1>6. PICK other \in tree.dirs[i].packages : s.alias = other.name
  BY <1>3 DEF FoundIn
<1>7. ~tree.dirs[i].hidden
  BY <1>3 DEF FoundIn
<1>8. tree.dirs[i] \in ModuleDirs /\ ThePackage(tree.dirs[i]) = other
  BY <1>1, <1>4, <1>6, <1>7, OrdinaryModule
<1>9. dir \in ModuleDirs /\ ThePackage(dir) = package
  BY <1>1, OrdinaryModule
<1>10. QED
  BY <1>5, <1>6, <1>8, <1>9 DEF Ordinary

LEMMA AddStep ==
  ASSUME WiringInv, wiring = "inspecting", entries # <<>>, NEW dir, dir = Head(entries),
         ~dir.hidden, NEW package \in dir.packages, AssertedModules(package) # {},
         NEW instance \in Instance, NEW arguments \in Seq(STRING),
         Add(package, dir, instance, arguments),
         RightIn(SpecOf(package, dir, instance, arguments), dir)
  PROVE  WiringInv'
<1>1. CASE package.name = "modules" \/ \E s \in ToSet(specs) : s.alias = package.name
  <2>1. WiringFails
    BY <1>1 DEF Add
  <2>2. ASSUME Ordinary PROVE \E d \in ModuleDirs : ~CanBeWired(d)
    <3>1. /\ Visited + 1 \in DOMAIN tree.dirs /\ dir = tree.dirs[Visited + 1] /\ tree \in Trees
      BY NextDirectory DEF WiringInv
    <3>2. package.name = "modules"
      BY <1>1, <2>2, NoDuplicate
    <3>3. QED
      BY <2>2, <3>1, <3>2, RefusedPackage
  <2>3. QED
    BY <2>1, <2>2, FailKeepsInv
<1>2. CASE ~(package.name = "modules" \/ \E s \in ToSet(specs) : s.alias = package.name)
  <2>1. Adds(package, dir, instance, arguments)
    BY <1>2 DEF Add, Adds, SpecOf
  <2>2. QED
    BY <2>1, AddKeepsInv
<1>3. QED
  BY <1>1, <1>2

LEMMA ConstructStep ==
  ASSUME WiringInv, wiring = "inspecting", entries # <<>>, NEW dir, dir = Head(entries),
         ~dir.hidden, NEW package \in dir.packages,
         NEW type, {a.type : a \in AssertedModules(package)} = {type},
         ApplicationFields(Key(TRUE, dir.path, type)) = {},
         Construct(package, dir, type)
  PROVE  WiringInv'
<1>1. /\ Visited + 1 \in DOMAIN tree.dirs /\ dir = tree.dirs[Visited + 1] /\ tree \in Trees
  BY NextDirectory DEF WiringInv
<1>2. AssertedModules(package) # {}
  OBVIOUS
<1>3. CASE (\A file \in package.files : {new \in file.news : new.result = type} = {}) /\ WiringFails
  <2>1. Ordinary => \E d \in ModuleDirs : ~CanBeWired(d)
    BY <1>1, <1>3, RefusedConstructor
  <2>2. QED
    BY <1>3, <2>1, FailKeepsInv
<1>4. ASSUME NEW file \in package.files, NEW new \in file.news, new.result = type,
             \A j \in DOMAIN new.params : Satisfied(new.params[j], file, dir.path),
             Add(package, dir, "", ArgumentsOf(new, file, dir))
      PROVE  WiringInv'
  <2>1. /\ RightIn(SpecOf(package, dir, "", ArgumentsOf(new, file, dir)), dir)
        /\ ArgumentsOf(new, file, dir) \in Seq(STRING)
    BY <1>1, <1>4, ConstructorIsRight
  <2>2. PICK arguments \in Seq(STRING) : arguments = ArgumentsOf(new, file, dir)
    BY <2>1
  <2>3. "" \in Instance
    BY DEF Instance
  <2>4. QED
    BY <1>2, <1>4, <2>1, <2>2, <2>3, AddStep
<1>5. ASSUME NEW file \in package.files, NEW new \in file.news, new.result = type,
             NEW j \in DOMAIN new.params, ~Satisfied(new.params[j], file, dir.path), WiringFails
      PROVE  WiringInv'
  <2>1. Ordinary => \E d \in ModuleDirs : ~CanBeWired(d)
    BY <1>1, <1>5, RefusedConstructor
  <2>2. QED
    BY <1>5, <2>1, FailKeepsInv
<1>6. QED
  BY <1>3, <1>4, <1>5 DEF Construct, ArgumentsOf

LEMMA InspectStep == WiringInv /\ Inspect => WiringInv'
<1> SUFFICES ASSUME WiringInv, Inspect PROVE WiringInv'
  OBVIOUS
<1>1. PICK dir : dir = Head(entries)
  OBVIOUS
<1>2. wiring = "inspecting" /\ entries # <<>>
  BY DEF Inspect
<1>3. /\ Visited + 1 \in DOMAIN tree.dirs /\ dir = tree.dirs[Visited + 1] /\ tree \in Trees
  BY <1>1, <1>2, NextDirectory DEF WiringInv
<1>4. CASE (dir.hidden \/ dir.packages = {}) /\ Pass
  <2>1. dir \notin ModuleDirs
    BY <1>4 DEF ModuleDirs, Single
  <2>2. QED
    BY <1>1, <1>2, <1>4, <2>1, PassKeepsInv
<1>5. ASSUME ~dir.hidden, NEW package \in dir.packages, InspectPackage(package, dir)
      PROVE  WiringInv'
  <2> DEFINE implementations == {a.type : a \in AssertedModules(package)}
             own(type) == ApplicationFields(Key(TRUE, dir.path, type))
  <2>1. CASE implementations = {} /\ Pass
    <3>1. AssertedModules(package) = {}
      BY <2>1
    <3>2. dir \in ModuleDirs => ThePackage(dir) = package
      BY TheOnly DEF ModuleDirs
    <3>3. QED
      BY <1>1, <1>2, <2>1, <3>1, <3>2, PassKeepsInv
  <2>2. CASE implementations # {} /\ ~Single(implementations) /\ WiringFails
    <3>1. AssertedModules(package) # {}
      BY <2>2
    <3>2. Ordinary => \E d \in ModuleDirs : ~CanBeWired(d)
      BY <1>3, <1>5, <2>2, <3>1, RefusedPackage
    <3>3. QED
      BY <2>2, <3>2, FailKeepsInv
  <2>3. ASSUME NEW type \in implementations, implementations = {type}, own(type) = {},
               Construct(package, dir, type)
        PROVE  WiringInv'
    BY <1>1, <1>2, <1>5, <2>3, ConstructStep
  <2>4. ASSUME NEW type \in implementations, implementations = {type}, Single(own(type)),
               Add(package, dir, FieldName(own(type)), <<>>)
        PROVE  WiringInv'
    <3>1. PICK a \in AssertedModules(package) : a.type = type
      BY <2>4
    <3>2. /\ RightIn(SpecOf(package, dir, FieldName(own(type)), <<>>), dir)
          /\ FieldName(own(type)) \in Instance
      BY <1>3, <2>4, <3>1, InstanceIsRight
    <3>3. <<>> \in Seq(STRING)
      OBVIOUS
    <3>4. AssertedModules(package) # {}
      BY <3>1
    <3> HIDE DEF own
    <3>5. QED
      BY <1>1, <1>2, <1>5, <2>4, <3>2, <3>3, <3>4, AddStep
  <2>5. ASSUME NEW type \in implementations, implementations = {type}, own(type) # {},
               ~Single(own(type)), WiringFails
        PROVE  WiringInv'
    <3>1. Ordinary => \E d \in ModuleDirs : ~CanBeWired(d)
      BY <1>3, <1>5, <2>5, RefusedFields
    <3>2. QED
      BY <2>5, <3>1, FailKeepsInv
  <2>6. QED
    BY <1>5, <2>1, <2>2, <2>3, <2>4, <2>5 DEF InspectPackage
<1>6. QED
  BY <1>1, <1>4, <1>5 DEF Inspect

LEMMA MountAllStep == WiringInv /\ MountAll => WiringInv'
<1> SUFFICES ASSUME WiringInv, MountAll PROVE WiringInv'
  OBVIOUS
<1>1. /\ wiring' = "done" /\ tree' = tree /\ entries' = entries /\ specs' = specs
      /\ entries = <<>> /\ Visited' = Visited
      /\ mounted' = [http |-> {k \in DOMAIN specs : specs[k].http},
                     grpc |-> {k \in DOMAIN specs : specs[k].grpc}]
  BY DEF MountAll, Visited
<1>2. ModuleDirs' = ModuleDirs /\ \A s, dir : FoundIn(s, dir)' <=> FoundIn(s, dir)
  BY <1>1, SameTree
<1>3. /\ tree' \in Trees
      /\ entries' \in Seq(Directory) /\ Visited' \in Nat
      /\ \A k \in DOMAIN entries' : entries'[k] = tree'.dirs[Visited' + k]
      /\ specs' \in Seq(ModuleSpec)
      /\ \A k, l \in DOMAIN specs' : specs'[k].path = specs'[l].path => k = l
  BY <1>1 DEF WiringInv
<1>4. (\A k \in DOMAIN specs : \E i \in 1 .. Visited : FoundIn(specs[k], tree.dirs[i]))'
  <2>1. \A k \in DOMAIN specs : \E i \in 1 .. Visited : FoundIn(specs[k], tree.dirs[i])
    BY DEF WiringInv
  <2>2. QED
    BY <1>1, <1>2, <2>1
<1>5. \A i \in 1 .. Visited' :
        tree'.dirs[i] \in ModuleDirs' /\ AssertedModules(ThePackage(tree'.dirs[i])) # {} =>
          \E k \in DOMAIN specs' : specs'[k].path = tree'.dirs[i].path
  <2>1. \A i \in 1 .. Visited :
          tree.dirs[i] \in ModuleDirs /\ AssertedModules(ThePackage(tree.dirs[i])) # {} =>
            \E k \in DOMAIN specs : specs[k].path = tree.dirs[i].path
    BY DEF WiringInv
  <2>2. QED
    BY <1>1, <1>2, <2>1
<1>6. QED
  BY <1>1, <1>3, <1>4, <1>5 DEF WiringInv

LEMMA WiringStep == WiringInv /\ [WiringNext]_wiringVars => WiringInv'
<1>1. ASSUME WiringInv, UNCHANGED wiringVars PROVE WiringInv'
  <2>1. /\ tree' = tree /\ entries' = entries /\ specs' = specs /\ mounted' = mounted
        /\ wiring' = wiring /\ Visited' = Visited
    BY <1>1 DEF wiringVars, Visited
  <2>2. /\ ModuleDirs' = ModuleDirs /\ (Ordinary' <=> Ordinary)
        /\ \A s, dir : FoundIn(s, dir)' <=> FoundIn(s, dir)
        /\ \A dir : CanBeWired(dir)' <=> CanBeWired(dir)
    BY <2>1, SameTree
  <2>3. QED
    BY <1>1, <2>1, <2>2 DEF WiringInv
<1>2. QED
  BY <1>1, InspectStep, MountAllStep DEF WiringNext

LEMMA WiringBegins ==
  ASSUME NEW sources, sources \subseteq Trees, WiringStart(sources)
  PROVE  WiringInv
<1>1. tree \in Trees /\ entries = tree.dirs /\ specs = <<>> /\ wiring = "inspecting"
  BY DEF WiringStart
<1>2. tree.dirs \in Seq(Directory)
  BY <1>1, WiringAssumption DEF WiringAssumption
<1>3. Visited = 0 /\ Len(tree.dirs) \in Nat
  BY <1>1, <1>2 DEF Visited
<1>4. \A k \in DOMAIN entries : 0 + k = k
  BY <1>1, <1>2
<1>5. \A k \in DOMAIN entries : entries[k] = tree.dirs[Visited + k]
  BY <1>1, <1>3, <1>4
<1>6. /\ \A k \in DOMAIN specs : \E i \in 1 .. Visited : FoundIn(specs[k], tree.dirs[i])
      /\ \A k, l \in DOMAIN specs : specs[k].path = specs[l].path => k = l
      /\ specs \in Seq(ModuleSpec)
  BY <1>1
<1>7. \A i \in 1 .. Visited : FALSE
  BY <1>3
<1>8. QED
  BY <1>1, <1>2, <1>3, <1>5, <1>6, <1>7 DEF WiringInv

(***************************************************************************)
(* What the invariant says of a finished run is the property.              *)
(***************************************************************************)
LEMMA AllAreWired == WiringInv => EveryModuleIsWired
<1>1. ASSUME WiringInv, wiring = "done", Unmistaken(tree.imports), NEW dir \in ModuleDirs,
             \A file \in ThePackage(dir).files : Unmistaken(file.imports),
             NEW its, its = {k \in DOMAIN specs : specs[k].path = dir.path},
             NEW http, http = its \cap mounted.http, NEW grpc, grpc = its \cap mounted.grpc
      PROVE  /\ IF HasCapability(dir, {"Module", "HTTPModule"}) THEN Single(http) ELSE http = {}
             /\ IF HasCapability(dir, {"GRPCModule"}) THEN Single(grpc) ELSE grpc = {}
             /\ \A k \in its : WiredRight(specs[k], dir)
  <2> DEFINE package == ThePackage(dir)
             isHttp == \E a \in AssertedModules(package) : a.interface # "GRPCModule"
             isGrpc == \E a \in AssertedModules(package) : a.interface = "GRPCModule"
  <2>1. /\ tree \in Trees /\ tree.dirs \in Seq(Directory) /\ entries = <<>>
        /\ Visited = Len(tree.dirs) /\ Len(tree.dirs) \in Nat
        /\ mounted = [http |-> {k \in DOMAIN specs : specs[k].http},
                      grpc |-> {k \in DOMAIN specs : specs[k].grpc}]
    <3>1. tree \in Trees /\ entries = <<>>
      BY <1>1 DEF WiringInv
    <3>2. tree.dirs \in Seq(Directory)
      BY <3>1, WiringAssumption DEF WiringAssumption
    <3>3. mounted = [http |-> {k \in DOMAIN specs : specs[k].http},
                     grpc |-> {k \in DOMAIN specs : specs[k].grpc}]
      BY <1>1 DEF WiringInv
    <3>4. Visited = Len(tree.dirs)
      BY <3>1, <3>2 DEF Visited
    <3>5. QED
      BY <3>1, <3>2, <3>3, <3>4
  <2>2. PICK i \in 1 .. Visited : dir = tree.dirs[i]
    BY <2>1 DEF ModuleDirs, ToSet
  <2>3. i \in DOMAIN tree.dirs /\ package \in dir.packages
    BY <2>1, <2>2 DEF ModuleDirs, Single, ThePackage
  <2>4. /\ AssertedModules(package) = GoAsserts(package)
        /\ Told(tree.imports) /\ \A file \in package.files : Told(file.imports)
    <3>1. /\ tree.imports \in Seq(ImportSpec)
          /\ Compile({f.type : f \in tree.fields}, tree.imports)
      BY <2>1, WiringAssumption DEF WiringAssumption
    <3>2. Told(tree.imports)
      BY <1>1, <3>1, ToldImports
    <3>3. ASSUME NEW file \in package.files PROVE Told(file.imports)
      <4>1. /\ file.imports \in Seq(ImportSpec)
            /\ Compile(UNION {ToSet(new.params) : new \in file.news}, file.imports)
        BY <2>1, <2>2, <2>3, FileOf
      <4>2. QED
        BY <1>1, <4>1, ToldImports
    <3>4. AssertedModules(package) = GoAsserts(package)
      BY <2>1, <2>2, <2>3, <3>3, AssertsFound
    <3>5. QED
      BY <3>2, <3>3, <3>4
  <2>5. \A a \in GoAsserts(package) : a.interface \in {"Module", "HTTPModule", "GRPCModule"}
    BY DEF GoAsserts, Interfaces
  <2>6. /\ HasCapability(dir, {"Module", "HTTPModule"}) <=> isHttp
        /\ HasCapability(dir, {"GRPCModule"}) <=> isGrpc
    BY <2>4, <2>5 DEF HasCapability
  <2>7. ASSUME NEW k \in its
        PROVE  /\ (specs[k].http <=> isHttp) /\ (specs[k].grpc <=> isGrpc)
               /\ WiredRight(specs[k], dir)
    <3>1. k \in DOMAIN specs /\ specs[k].path = dir.path
      BY <1>1
    <3>2. PICK j \in 1 .. Visited : FoundIn(specs[k], tree.dirs[j])
      BY <1>1, <3>1 DEF WiringInv
    <3>3. j \in DOMAIN tree.dirs /\ tree.dirs[j].path = tree.dirs[i].path
      BY <2>1, <2>2, <3>1, <3>2 DEF FoundIn
    <3>4. j = i
      BY <2>1, <2>3, <3>3, WiringAssumption DEF WiringAssumption
    <3>5. FoundIn(specs[k], dir)
      BY <2>2, <3>2, <3>4
    <3>6. PICK other \in dir.packages :
            /\ specs[k].http = \E a \in AssertedModules(other) : a.interface # "GRPCModule"
            /\ specs[k].grpc = \E a \in AssertedModules(other) : a.interface = "GRPCModule"
      BY <3>5 DEF FoundIn
    <3>7. other = package
      BY TheOnly DEF ModuleDirs
    <3>8. WiredRight(specs[k], dir)
      BY <2>4, <3>5 DEF FoundIn
    <3>9. QED
      BY <3>6, <3>7, <3>8
  <2>8. \A k, l \in its : k = l
    BY <1>1 DEF WiringInv
  <2>9. ASSUME isHttp \/ isGrpc PROVE its # {}
    <3>1. AssertedModules(package) # {}
      BY <2>9
    <3>2. QED
      BY <1>1, <2>2, <3>1 DEF WiringInv
  <2>10. /\ http = {k \in its : specs[k].http} /\ grpc = {k \in its : specs[k].grpc}
    BY <1>1, <2>1
  <2> HIDE DEF isHttp, isGrpc, package
  <2>11. IF isHttp THEN Single(http) ELSE http = {}
    BY <2>7, <2>8, <2>9, <2>10 DEF Single
  <2>12. IF isGrpc THEN Single(grpc) ELSE grpc = {}
    BY <2>7, <2>8, <2>9, <2>10 DEF Single
  <2>13. QED
    BY <2>6, <2>7, <2>11, <2>12
<1>2. ASSUME WiringInv, wiring = "failed", Ordinary PROVE \E dir \in ModuleDirs : ~CanBeWired(dir)
  BY <1>2 DEF WiringInv
<1>3. QED
  BY <1>1, <1>2 DEF EveryModuleIsWired

LEMMA AlwaysWiringInv == MakeGenSpec => []WiringInv
<1>1. MakeGenInit => WiringInv
  <2>1. AnyTree \in Trees
    BY WiringAssumption DEF WiringAssumption, AnyTree
  <2>2. (IF part = "wiring" THEN Trees ELSE {AnyTree}) \subseteq Trees
    BY <2>1
  <2>3. QED
    BY <2>2, WiringBegins DEF MakeGenInit
<1>2. ASSUME WiringInv, [MakeGenNext]_makeGenVars PROVE WiringInv'
  <2>1. [WiringNext]_wiringVars
    BY <1>2 DEF MakeGenNext, makeGenVars, Files, Wiring, Routes, Query, Handlers, Ended
  <2>2. QED
    BY <1>2, <2>1, WiringStep
<1>3. QED
  BY <1>1, <1>2, PTL DEF MakeGenSpec

(***************************************************************************)
(* For any sources that compile, of any number of modules, files, imports, *)
(* fields and parameters: what is generated mounts each module once, as    *)
(* what it asserts, with the arguments its types ask for; and sources      *)
(* without renamed imports are refused only for a cause of their own.      *)
(***************************************************************************)
THEOREM ModulesAreWired == MakeGenSpec => []EveryModuleIsWired
<1>1. QED
  BY AllAreWired, AlwaysWiringInv, PTL

(***************************************************************************)
(* The query parameters of a handler: maps of variables.                   *)
(***************************************************************************)
LEMMA MaxOf ==
  ASSUME NEW n \in Nat, NEW S, S \subseteq 1 .. n, S # {}
  PROVE  Max(S) \in S /\ \A y \in S : y <= Max(S)
<1>1. PICK x \in S : \A y \in S : y <= x
  BY LastOf
<1>2. \A y \in S : x >= y
  <2>1. \A y \in S : x \in Int /\ y \in Int
    OBVIOUS
  <2>2. QED
    BY <1>1, <2>1
<1>3. Max(S) \in S /\ \A y \in S : Max(S) >= y
  BY <1>2 DEF Max
<1>4. PICK m : m = Max(S)
  OBVIOUS
<1>5. m \in S /\ m \in 1 .. n /\ \A y \in S : y \in 1 .. n /\ m >= y
  BY <1>3, <1>4
<1>6. \A y \in S : y <= m
  BY <1>5
<1>7. QED
  BY <1>4, <1>5, <1>6

Kept(map, becomes, var) == \A v \in DOMAIN map : v # var => becomes[v] = map[v]

LEMMA PutIs ==
  ASSUME NEW map \in VarMap, NEW var \in QueryVar, NEW key \in Keys \cup {NoKey}
  PROVE  /\ Put(map, var, key) \in VarMap
         /\ DOMAIN Put(map, var, key) = DOMAIN map \cup {var}
         /\ Put(map, var, key)[var] = key
         /\ Kept(map, Put(map, var, key), var)
         /\ NoVars \in VarMap /\ DOMAIN NoVars = {}
<1>1. PICK names \in SUBSET QueryVar : map \in [names -> Keys \cup {NoKey}]
  BY DEF VarMap
<1>2. /\ names \cup {var} \in SUBSET QueryVar
      /\ Put(map, var, key) \in [names \cup {var} -> Keys \cup {NoKey}]
  BY <1>1 DEF Put
<1>3. NoVars \in [{} -> Keys \cup {NoKey}]
  BY DEF NoVars
<1>4. QED
  BY <1>1, <1>2, <1>3 DEF VarMap, Put, NoVars, Kept

Puts(map, var, key, becomes) ==
  /\ becomes \in VarMap /\ DOMAIN becomes = DOMAIN map \cup {var} /\ becomes[var] = key
  /\ Kept(map, becomes, var)

LEMMA PutPuts ==
  \A map \in VarMap : \A var \in QueryVar : \A key \in Keys \cup {NoKey} : \A becomes :
    becomes = Put(map, var, key) => Puts(map, var, key, becomes)
<1>1. ASSUME NEW map \in VarMap, NEW var \in QueryVar, NEW key \in Keys \cup {NoKey},
             NEW becomes, becomes = Put(map, var, key)
      PROVE  Puts(map, var, key, becomes)
  <2>1. becomes \in VarMap
    BY <1>1, PutIs
  <2>2. DOMAIN becomes = DOMAIN map \cup {var} /\ becomes[var] = key
    BY <1>1, PutIs
  <2>3. Kept(map, becomes, var)
    BY <1>1, PutIs
  <2>4. QED
    BY <2>1, <2>2, <2>3 DEF Puts
<1>2. QED
  BY <1>1

LEMMA VarMapIs ==
  ASSUME NEW map \in VarMap
  PROVE  DOMAIN map \subseteq QueryVar /\ \A v \in DOMAIN map : map[v] \in Keys \cup {NoKey}
BY DEF VarMap

LEMMA WrittenIs ==
  ASSUME Written
  PROVE  /\ body \in Seq(BodyLine) /\ scopes \in Seq(Seq(VarMap))
         /\ Len(body) \in Nat /\ DOMAIN body = 1 .. Len(body)
         /\ DOMAIN scopes = 1 .. Len(body) + 1 /\ Len(scopes) = Len(body) + 1
         /\ Here = scopes[Len(body) + 1] /\ Here \in Seq(VarMap)
         /\ \E n \in Nat : Len(Here) = 2 * n + 1
<1>1. body \in Seq(BodyLine) /\ scopes \in Seq(Seq(VarMap)) /\ Len(scopes) = Len(body) + 1
  BY DEF Written
<1>2. Here = scopes[Len(body) + 1] /\ Len(body) + 1 \in DOMAIN scopes
  BY <1>1 DEF Here, Last
<1>3. \E n \in 0 .. Len(Here) : Len(Here) = 2 * n + 1
  BY <1>2 DEF Written
<1>4. Here \in Seq(VarMap)
  BY <1>1, <1>2
<1>5. \A k \in 0 .. Len(Here) : k \in Nat
  BY <1>4
<1>6. \E n \in Nat : Len(Here) = 2 * n + 1
  <2>1. PICK n \in 0 .. Len(Here) : Len(Here) = 2 * n + 1
    BY <1>3
  <2>2. QED
    BY <1>5, <2>1
<1>7. Len(body) \in Nat /\ DOMAIN body = 1 .. Len(body) /\ DOMAIN scopes = 1 .. Len(body) + 1
  BY <1>1
<1>8. QED
  BY <1>1, <1>2, <1>4, <1>6, <1>7

(***************************************************************************)
(* Writing a statement.                                                    *)
(***************************************************************************)
Handed(s, scoped, became) ==
  \A i \in DOMAIN became : \A var \in DOMAIN became[i] :
    \/ \E j \in DOMAIN scoped : var \in DOMAIN scoped[j] /\ scoped[j][var] = became[i][var]
    \/ Binds(s, var) /\ s.key = became[i][var]

Odd(scoped) == \E n \in 0 .. Len(scoped) : Len(scoped) = 2 * n + 1

LEMMA WriteLineKeeps ==
  ASSUME Written, NEW s \in BodyLine, NEW became \in Seq(VarMap), Odd(became),
         s.op \in {"bind", "if", "elseif"} => s.var \in QueryVar,
         NEW scoped, scoped = Here, Moves(s, scoped, became), Handed(s, scoped, became),
         body' = Append(body, s), scopes' = Append(scopes, became)
  PROVE  Written'
<1>1. PICK n : n = Len(body)
  OBVIOUS
<1>2. /\ body \in Seq(BodyLine) /\ scopes \in Seq(Seq(VarMap))
      /\ n \in Nat /\ DOMAIN body = 1 .. n
      /\ DOMAIN scopes = 1 .. n + 1 /\ Len(scopes) = n + 1
      /\ scoped = scopes[n + 1]
  BY <1>1, WrittenIs
<1>3. /\ body' \in Seq(BodyLine) /\ scopes' \in Seq(Seq(VarMap))
      /\ Len(body') = n + 1 /\ Len(scopes') = n + 2
      /\ DOMAIN body' = 1 .. n + 1 /\ DOMAIN scopes' = 1 .. n + 2
      /\ \A k \in 1 .. n : body'[k] = body[k]
      /\ \A k \in 1 .. n + 1 : scopes'[k] = scopes[k]
      /\ body'[n + 1] = s /\ scopes'[n + 2] = became
  BY <1>2, AppendProperties
<1>4. scopes'[1] = <<NoVars>>
  <2>1. scopes[1] = <<NoVars>> /\ 1 \in 1 .. n + 1
    BY <1>2 DEF Written
  <2>2. QED
    BY <1>3, <2>1
<1>5. /\ \A k \in 1 .. n + 1 : k \in 1 .. n \/ k = n + 1
      /\ \A k \in 1 .. n + 2 : k \in 1 .. n + 1 \/ k = n + 2
      /\ \A k \in 1 .. n : k \in 1 .. n + 1 /\ k + 1 \in 1 .. n + 1
      /\ n + 1 \in 1 .. n + 1 /\ (n + 1) + 1 = n + 2
  BY <1>2
<1>6. \A k \in 1 .. n + 2 : Odd(scopes'[k])
  <2>1. \A k \in 1 .. n + 1 : Odd(scopes[k])
    BY <1>2 DEF Written, Odd
  <2>2. QED
    BY <1>3, <1>5, <2>1
<1>7. \A k \in 1 .. n + 1 : Moves(body'[k], scopes'[k], scopes'[k + 1])
  <2>1. \A k \in 1 .. n : Moves(body[k], scopes[k], scopes[k + 1])
    BY <1>2 DEF Written
  <2>2. ASSUME NEW k \in 1 .. n PROVE Moves(body'[k], scopes'[k], scopes'[k + 1])
    <3>1. body'[k] = body[k] /\ scopes'[k] = scopes[k] /\ scopes'[k + 1] = scopes[k + 1]
      BY <1>3, <1>5
    <3>2. QED
      BY <2>1, <3>1
  <2>3. Moves(body'[n + 1], scopes'[n + 1], scopes'[(n + 1) + 1])
    BY <1>2, <1>3, <1>5
  <2>4. QED
    BY <1>5, <2>2, <2>3
<1>8. \A k \in 1 .. n + 1 : body'[k].op \in {"bind", "if", "elseif"} => body'[k].var \in QueryVar
  <2>1. \A k \in 1 .. n : body[k].op \in {"bind", "if", "elseif"} => body[k].var \in QueryVar
    BY <1>2 DEF Written
  <2>2. QED
    BY <1>3, <1>5, <2>1
<1>9. \A map, var : Sourced(map, var) => Sourced(map, var)'
  <2>1. ASSUME NEW map, NEW var, Sourced(map, var) PROVE Sourced(map, var)'
    <3>1. PICK k \in 1 .. n : Binds(body[k], var) /\ body[k].key = map[var]
      BY <1>2, <2>1 DEF Sourced
    <3>2. k \in DOMAIN body' /\ body'[k] = body[k]
      BY <1>3, <1>5
    <3>3. QED
      BY <3>1, <3>2 DEF Sourced, Binds
  <2>2. QED
    BY <2>1
<1>10. ASSUME NEW i \in DOMAIN became, NEW var \in DOMAIN became[i]
      PROVE  Sourced(became[i], var)'
  <2>1. CASE \E j \in DOMAIN scoped : var \in DOMAIN scoped[j] /\ scoped[j][var] = became[i][var]
    <3>1. PICK j \in DOMAIN scoped : var \in DOMAIN scoped[j] /\ scoped[j][var] = became[i][var]
      BY <2>1
    <3>2. Sourced(scoped[j], var)
      BY <1>2, <1>5, <3>1 DEF Written
    <3>3. Sourced(became[i], var)
      BY <3>1, <3>2 DEF Sourced
    <3>4. QED
      BY <1>9, <3>3
  <2>2. CASE Binds(s, var) /\ s.key = became[i][var]
    <3>1. n + 1 \in DOMAIN body' /\ body'[n + 1] = s
      BY <1>3, <1>5
    <3>2. QED
      BY <2>2, <3>1 DEF Sourced, Binds
  <2>3. QED
    BY <2>1, <2>2 DEF Handed
<1>11. (\A k \in DOMAIN scopes : \A i \in DOMAIN scopes[k] :
         \A var \in DOMAIN scopes[k][i] : Sourced(scopes[k][i], var))'
  <2>1. ASSUME NEW k \in 1 .. n + 1, NEW i \in DOMAIN scopes[k], NEW var \in DOMAIN scopes[k][i]
        PROVE  Sourced(scopes[k][i], var)'
    <3>1. PICK map : map = scopes[k][i]
      OBVIOUS
    <3>2. Sourced(map, var)
      BY <1>2, <3>1 DEF Written
    <3>3. PICK map2 : map2 = scopes'[k][i]
      OBVIOUS
    <3>4. map2 = map
      BY <1>3, <3>1, <3>3
    <3>5. QED
      BY <1>9, <3>2, <3>3, <3>4
  <2>2. ASSUME NEW i \in DOMAIN became, NEW var \in DOMAIN became[i]
        PROVE  Sourced(scopes[n + 2][i], var)'
    <3>1. PICK map2 : map2 = scopes'[n + 2][i]
      OBVIOUS
    <3>2. map2 = became[i]
      BY <1>3, <3>1
    <3>3. QED
      BY <1>10, <3>1, <3>2
  <2>3. QED
    BY <1>3, <1>5, <2>1, <2>2
<1>12. Len(scopes') = Len(body') + 1
  BY <1>2, <1>3
<1>13. \A k \in DOMAIN scopes' : \E m \in 0 .. Len(scopes'[k]) : Len(scopes'[k]) = 2 * m + 1
  BY <1>3, <1>6 DEF Odd
<1>14. QED
  BY <1>3, <1>4, <1>7, <1>8, <1>11, <1>12, <1>13 DEF Written

LEMMA DeclaringIs ==
  ASSUME NEW scoped \in Seq(VarMap), NEW var, Declaring(scoped, var) # {}
  PROVE  /\ Max(Declaring(scoped, var)) \in DOMAIN scoped
         /\ var \in DOMAIN scoped[Max(Declaring(scoped, var))]
         /\ \A k \in Declaring(scoped, var) : k <= Max(Declaring(scoped, var))
<1>1. Declaring(scoped, var) \subseteq 1 .. Len(scoped) /\ Len(scoped) \in Nat
  BY DEF Declaring
<1>2. /\ Max(Declaring(scoped, var)) \in Declaring(scoped, var)
      /\ \A k \in Declaring(scoped, var) : k <= Max(Declaring(scoped, var))
  BY <1>1, MaxOf
<1>3. QED
  BY <1>2 DEF Declaring

Replaced(scoped, k, var, key) == [scoped EXCEPT ![k] = Put(@, var, key)]

Gives(s, var, key) == Binds(s, var) /\ s.key = key

LEMMA ReplaceOne ==
  ASSUME NEW scoped \in Seq(VarMap), Odd(scoped), NEW k \in DOMAIN scoped,
         NEW var \in QueryVar, NEW key \in Keys \cup {NoKey}, NEW s, Gives(s, var, key),
         NEW became, became = Replaced(scoped, k, var, key)
  PROVE  became \in Seq(VarMap) /\ Odd(became) /\ Handed(s, scoped, became)
<1>1. PICK old \in VarMap : old = scoped[k]
  OBVIOUS
<1>2. /\ Put(old, var, key) \in VarMap
      /\ DOMAIN Put(old, var, key) = DOMAIN old \cup {var}
      /\ Put(old, var, key)[var] = key
      /\ Kept(old, Put(old, var, key), var)
  BY PutIs
<1>3. PICK map : map = Put(old, var, key)
  OBVIOUS
<1>4. became \in Seq(VarMap) /\ Len(became) = Len(scoped)
  BY <1>1, <1>2, <1>3, ExceptSeq DEF Replaced
<1>5. ASSUME NEW i \in DOMAIN became, NEW v \in DOMAIN became[i]
      PROVE  \/ \E j \in DOMAIN scoped : v \in DOMAIN scoped[j] /\ scoped[j][v] = became[i][v]
             \/ Binds(s, v) /\ s.key = became[i][v]
  <2>1. i \in DOMAIN scoped
    BY <1>4
  <2>2. CASE i # k
    <3>1. became[i] = scoped[i]
      BY <2>1, <2>2 DEF Replaced
    <3>2. QED
      BY <2>1, <3>1
  <2>3. CASE i = k
    <3>1. became[i] = map
      BY <1>1, <1>3, <2>3 DEF Replaced
    <3>2. QED
      BY <1>1, <1>2, <1>3, <2>3, <3>1 DEF Kept, Gives
  <2>4. QED
    BY <2>2, <2>3
<1>6. QED
  BY <1>4, <1>5 DEF Handed, Odd

LEMMA LinesAre ==
  ASSUME NEW op \in {"bind", "if", "elseif", "close", "parse"}, NEW var \in QueryVar \cup {NoKey},
         NEW key \in Keys \cup {NoKey}, NEW kind \in Kinds \cup {"string"}
  PROVE  /\ Line(op, var, key, kind) \in BodyLine
         /\ Line(op, var, key, kind).op = op /\ Line(op, var, key, kind).var = var
         /\ Line(op, var, key, kind).key = key /\ Line(op, var, key, kind).kind = kind
BY DEF Line, BodyLine

LEMMA BindKeeps ==
  ASSUME Written, NEW var \in QueryVar, NEW key \in Keys \cup {NoKey}, NEW declares \in BOOLEAN,
         Bind(var, key, declares)
  PROVE  Written'
<1>1. PICK scoped : scoped = Here
  OBVIOUS
<1>2. scoped \in Seq(VarMap) /\ Odd(scoped) /\ Len(scoped) \in DOMAIN scoped
  <2>1. PICK n \in Nat : Len(scoped) = 2 * n + 1
    BY <1>1, WrittenIs
  <2>2. n \in 0 .. Len(scoped)
    BY <2>1
  <2>3. scoped \in Seq(VarMap)
    BY <1>1, WrittenIs
  <2>4. Odd(scoped)
    BY <2>1, <2>2 DEF Odd
  <2>5. QED
    BY <2>1, <2>3, <2>4
<1>3. PICK k \in DOMAIN scoped :
        WriteLine(Line("bind", var, key, "string"), [scoped EXCEPT ![k] = Put(@, var, key)])
  <2>1. CASE declares
    BY <1>1, <1>2, <2>1 DEF Bind
  <2>2. CASE ~declares
    <3>1. Max(Declaring(scoped, var)) \in DOMAIN scoped
      BY <1>1, <1>2, <2>2, DeclaringIs DEF Bind
    <3>2. QED
      BY <1>1, <2>2, <3>1 DEF Bind
  <2>3. QED
    BY <2>1, <2>2
<1>4. PICK s : s = Line("bind", var, key, "string")
  OBVIOUS
<1>5. PICK became : became = [scoped EXCEPT ![k] = Put(@, var, key)]
  OBVIOUS
<1>6. s \in BodyLine /\ s.op = "bind" /\ s.var = var /\ s.key = key
  BY <1>4, LinesAre
<1>7. Gives(s, var, key)
  BY <1>6 DEF Binds, Gives
<1>8. became \in Seq(VarMap) /\ Odd(became) /\ Handed(s, scoped, became)
  BY <1>2, <1>5, <1>6, <1>7, ReplaceOne DEF Replaced
<1>9. Moves(s, scoped, became)
  BY <1>5, <1>6 DEF Moves
<1>10. body' = Append(body, s) /\ scopes' = Append(scopes, became)
  BY <1>3, <1>4, <1>5 DEF WriteLine
<1>11. QED
  BY <1>1, <1>6, <1>8, <1>9, <1>10, WriteLineKeeps

LEMMA IfKeeps ==
  ASSUME Written, NEW var \in QueryVar, NEW key \in Keys \cup {NoKey}, If(var, key)
  PROVE  Written'
<1>1. PICK scoped : scoped = Here
  OBVIOUS
<1>2. PICK n \in Nat : Len(scoped) = 2 * n + 1
  BY <1>1, WrittenIs
<1>3. scoped \in Seq(VarMap)
  BY <1>1, WrittenIs
<1>4. PICK s : s = Line("if", var, key, "string")
  OBVIOUS
<1>5. s \in BodyLine /\ s.op = "if" /\ s.var = var /\ s.key = key
  BY <1>4, LinesAre
<1>6. PICK map : map = Put(NoVars, var, key)
  OBVIOUS
<1>7. /\ NoVars \in VarMap /\ DOMAIN NoVars = {}
      /\ map \in VarMap /\ DOMAIN map = {var} /\ map[var] = key
  <2>1. NoVars \in VarMap /\ DOMAIN NoVars = {}
    BY DEF NoVars, VarMap
  <2>2. QED
    BY <1>6, <2>1, PutIs
<1>8. PICK none : none = NoVars
  OBVIOUS
<1>9. PICK became : became = scoped \o <<map, none>>
  OBVIOUS
<1>10. /\ became \in Seq(VarMap) /\ Len(became) = Len(scoped) + 2
       /\ \A i \in 1 .. Len(scoped) : became[i] = scoped[i]
       /\ became[Len(scoped) + 1] = map /\ became[Len(scoped) + 2] = none
  BY <1>3, <1>7, <1>8, <1>9
<1>11. Odd(became)
  <2>1. n + 1 \in 0 .. Len(became) /\ Len(became) = 2 * (n + 1) + 1
    BY <1>2, <1>10
  <2>2. QED
    BY <2>1 DEF Odd
<1>12. Handed(s, scoped, became)
  <2>1. ASSUME NEW i \in DOMAIN became, NEW v \in DOMAIN became[i]
        PROVE  \/ \E j \in DOMAIN scoped : v \in DOMAIN scoped[j] /\ scoped[j][v] = became[i][v]
               \/ Binds(s, v) /\ s.key = became[i][v]
    <3>1. i \in 1 .. Len(scoped) \/ i = Len(scoped) + 1 \/ i = Len(scoped) + 2
      BY <1>2, <1>10
    <3>2. CASE i \in 1 .. Len(scoped)
      BY <1>3, <1>10, <3>2
    <3>3. CASE i = Len(scoped) + 1
      BY <1>5, <1>7, <1>10, <3>3 DEF Binds
    <3>4. CASE i = Len(scoped) + 2
      BY <1>7, <1>8, <1>10, <3>4
    <3>5. QED
      BY <3>1, <3>2, <3>3, <3>4
  <2>2. QED
    BY <2>1 DEF Handed
<1>13. Moves(s, scoped, became)
  BY <1>5, <1>6, <1>8, <1>9 DEF Moves
<1>14. body' = Append(body, s) /\ scopes' = Append(scopes, became)
  BY <1>1, <1>4, <1>6, <1>8, <1>9 DEF If, WriteLine
<1>15. QED
  BY <1>1, <1>5, <1>10, <1>11, <1>12, <1>13, <1>14, WriteLineKeeps

LEMMA ElseIfKeeps ==
  ASSUME Written, NEW var \in QueryVar, NEW key \in Keys \cup {NoKey}, ElseIf(var, key)
  PROVE  Written'
<1>1. PICK scoped : scoped = Here
  OBVIOUS
<1>2. PICK n \in Nat : Len(scoped) = 2 * n + 1
  BY <1>1, WrittenIs
<1>3. scoped \in Seq(VarMap) /\ Len(scoped) > 1
  BY <1>1, WrittenIs DEF ElseIf
<1>4. PICK s : s = Line("elseif", var, key, "string")
  OBVIOUS
<1>5. s \in BodyLine /\ s.op = "elseif" /\ s.var = var /\ s.key = key
  BY <1>4, LinesAre
<1>6. PICK k : k = Len(scoped) - 1
  OBVIOUS
<1>7. /\ k \in DOMAIN scoped /\ Len(scoped) \in DOMAIN scoped /\ k # Len(scoped)
      /\ n \in 0 .. Len(scoped)
  BY <1>2, <1>3, <1>6
<1>8. PICK middle : middle = [scoped EXCEPT ![k] = Put(@, var, key)]
  OBVIOUS
<1>9. middle \in Seq(VarMap) /\ Odd(middle) /\ Handed(s, scoped, middle)
  <2>1. Gives(s, var, key) /\ Odd(scoped)
    BY <1>2, <1>5, <1>7 DEF Binds, Gives, Odd
  <2>2. QED
    BY <1>3, <1>5, <1>7, <1>8, <2>1, ReplaceOne DEF Replaced
<1>10. NoVars \in VarMap /\ DOMAIN NoVars = {}
  BY DEF NoVars, VarMap
<1>11. PICK none : none = NoVars
  OBVIOUS
<1>12. PICK became : became = [middle EXCEPT ![Len(scoped)] = none]
  OBVIOUS
<1>13. became \in Seq(VarMap) /\ Len(became) = Len(middle) /\ Len(middle) = Len(scoped)
  BY <1>3, <1>8, <1>9, <1>10, <1>11, <1>12, ExceptSeq
<1>14. Odd(became)
  BY <1>9, <1>13 DEF Odd
<1>15. Handed(s, scoped, became)
  <2>1. ASSUME NEW i \in DOMAIN became, NEW v \in DOMAIN became[i]
        PROVE  \/ \E j \in DOMAIN scoped : v \in DOMAIN scoped[j] /\ scoped[j][v] = became[i][v]
               \/ Binds(s, v) /\ s.key = became[i][v]
    <3>1. i \in DOMAIN middle
      BY <1>9, <1>13
    <3>2. i # Len(scoped)
      BY <1>10, <1>11, <1>12, <3>1
    <3>3. became[i] = middle[i]
      BY <1>12, <3>1, <3>2
    <3>4. QED
      BY <1>9, <3>1, <3>3 DEF Handed
  <2>2. QED
    BY <2>1 DEF Handed
<1>16. became = [scoped EXCEPT ![Len(scoped) - 1] = Put(@, var, key), ![Len(scoped)] = NoVars]
  BY <1>6, <1>8, <1>11, <1>12
<1>17. Moves(s, scoped, became)
  BY <1>3, <1>5, <1>16 DEF Moves
<1>18. body' = Append(body, s) /\ scopes' = Append(scopes, became)
  BY <1>1, <1>4, <1>16 DEF ElseIf, WriteLine
<1>19. QED
  BY <1>1, <1>5, <1>13, <1>14, <1>15, <1>17, <1>18, WriteLineKeeps

LEMMA CloseIfKeeps ==
  ASSUME Written, CloseIf
  PROVE  Written'
<1>1. PICK scoped : scoped = Here
  OBVIOUS
<1>2. PICK n \in Nat : Len(scoped) = 2 * n + 1
  BY <1>1, WrittenIs
<1>3. scoped \in Seq(VarMap) /\ Len(scoped) > 1
  BY <1>1, WrittenIs DEF CloseIf
<1>4. PICK s : s = Line("close", NoKey, NoKey, "string")
  OBVIOUS
<1>5. s \in BodyLine /\ s.op = "close"
  BY <1>4, LinesAre
<1>6. PICK became : became = SubSeq(scoped, 1, Len(scoped) - 2)
  OBVIOUS
<1>7. n - 1 \in Nat /\ Len(scoped) - 2 = 2 * (n - 1) + 1
  BY <1>2, <1>3
<1>8. /\ became \in Seq(VarMap) /\ Len(became) = Len(scoped) - 2
      /\ \A i \in DOMAIN became : i \in DOMAIN scoped /\ became[i] = scoped[i]
  BY <1>2, <1>3, <1>6, <1>7
<1>9. Odd(became)
  <2>1. n - 1 \in 0 .. Len(became)
    BY <1>7, <1>8
  <2>2. QED
    BY <1>7, <1>8, <2>1 DEF Odd
<1>10. Handed(s, scoped, became)
  BY <1>8 DEF Handed
<1>11. Moves(s, scoped, became)
  BY <1>3, <1>5, <1>6 DEF Moves
<1>12. body' = Append(body, s) /\ scopes' = Append(scopes, became)
  BY <1>1, <1>4, <1>6 DEF CloseIf, WriteLine
<1>13. QED
  BY <1>1, <1>5, <1>8, <1>9, <1>10, <1>11, <1>12, WriteLineKeeps

LEMMA ParseKeeps ==
  ASSUME Written, NEW var \in QueryVar \cup {NoKey}, NEW key \in Keys \cup {NoKey},
         NEW kind \in Kinds, key = NoKey => Declaring(Here, var) # {},
         WriteLine(Line("parse", var, key, kind), Here)
  PROVE  Written'
<1>1. PICK scoped : scoped = Here
  OBVIOUS
<1>2. PICK n \in Nat : Len(scoped) = 2 * n + 1
  BY <1>1, WrittenIs
<1>3. scoped \in Seq(VarMap) /\ n \in 0 .. Len(scoped)
  BY <1>1, <1>2, WrittenIs
<1>4. Odd(scoped)
  BY <1>2, <1>3 DEF Odd
<1>5. PICK s : s = Line("parse", var, key, kind)
  OBVIOUS
<1>6. s \in BodyLine /\ s.op = "parse" /\ s.var = var /\ s.key = key
  BY <1>5, LinesAre
<1>7. Handed(s, scoped, scoped)
  BY DEF Handed
<1>8. Moves(s, scoped, scoped)
  BY <1>1, <1>6 DEF Moves
<1>9. body' = Append(body, s) /\ scopes' = Append(scopes, scoped)
  BY <1>1, <1>5 DEF WriteLine
<1>10. QED
  BY <1>1, <1>3, <1>4, <1>6, <1>7, <1>8, <1>9, WriteLineKeeps

(***************************************************************************)
(* The last walk follows Go's scopes.                                      *)
(***************************************************************************)
Agrees(one, two, var) ==
  /\ var \in DOMAIN one <=> var \in DOMAIN two
  /\ var \in DOMAIN one => one[var] = two[var]

Keeps(map, becomes, var) == var \in DOMAIN map => var \in DOMAIN becomes /\ becomes[var] = map[var]

AgreeTo(scoped, after, i, var) == \A q \in 1 .. 2 * i - 2 : Agrees(scoped[q], after[q], var)

LEMMA AsScopedStays ==
  ASSUME NEW i \in Nat, NEW map, NEW becomes, NEW scoped, NEW after, NEW var,
         AsScoped(map, scoped, i, var), Keeps(map, becomes, var), AgreeTo(scoped, after, i, var)
  PROVE  AsScoped(becomes, after, i, var)
<1>1. ASSUME NEW j \in 1 .. i - 1, var \in DOMAIN after[2 * j],
             \A l \in j + 1 .. i - 1 : var \notin DOMAIN after[2 * l]
      PROVE  var \in DOMAIN becomes /\ becomes[var] = after[2 * j][var]
  <2>1. \A l \in 1 .. i - 1 : 2 * l \in 1 .. 2 * i - 2
    OBVIOUS
  <2>2. \A l \in 1 .. i - 1 : Agrees(scoped[2 * l], after[2 * l], var)
    BY <2>1 DEF AgreeTo
  <2>3. var \in DOMAIN scoped[2 * j] /\ scoped[2 * j][var] = after[2 * j][var]
    BY <1>1, <2>2 DEF Agrees
  <2>4. \A l \in j + 1 .. i - 1 : l \in 1 .. i - 1
    BY <1>1
  <2>5. \A l \in j + 1 .. i - 1 : var \notin DOMAIN scoped[2 * l]
    BY <1>1, <2>2, <2>4 DEF Agrees
  <2>6. var \in DOMAIN map /\ map[var] = scoped[2 * j][var]
    BY <1>1, <2>3, <2>5 DEF AsScoped
  <2>7. QED
    BY <2>3, <2>6 DEF Keeps
<1>2. QED
  BY <1>1 DEF AsScoped

LEMMA LineIs ==
  ASSUME Written, NEW k \in DOMAIN body, NEW s, s = body[k]
  PROVE  /\ s \in BodyLine /\ s.key \in Keys \cup {NoKey}
         /\ s.op \in {"bind", "if", "elseif", "close", "parse"}
         /\ s.op \in {"bind", "if", "elseif"} => s.var \in QueryVar /\ Binds(s, s.var)
         /\ k \in DOMAIN scopes /\ k + 1 \in DOMAIN scopes
         /\ scopes[k] \in Seq(VarMap) /\ scopes[k + 1] \in Seq(VarMap)
         /\ Moves(s, scopes[k], scopes[k + 1])
<1>1. s \in BodyLine
  BY WrittenIs
<1>2. s.op \in {"bind", "if", "elseif", "close", "parse"} /\ s.key \in Keys \cup {NoKey}
  BY <1>1 DEF BodyLine
<1>3. s.op \in {"bind", "if", "elseif"} => s.var \in QueryVar
  BY DEF Written
<1>4. s.op \in {"bind", "if", "elseif"} => Binds(s, s.var)
  BY DEF Binds
<1>5. Moves(s, scopes[k], scopes[k + 1])
  BY DEF Written
<1>6. k \in DOMAIN scopes /\ k + 1 \in DOMAIN scopes
  BY WrittenIs
<1>7. scopes[k] \in Seq(VarMap) /\ scopes[k + 1] \in Seq(VarMap)
  BY <1>6, WrittenIs
<1>8. QED
  BY <1>1, <1>2, <1>3, <1>4, <1>5, <1>6, <1>7

LEMMA OpenIfIs ==
  ASSUME Written, NEW k \in DOMAIN body, NEW s, s = body[k],
         s.op \in {"if", "elseif"},
         NEW level, GoodLevel(level), NEW own \in BOOLEAN,
         NEW becomes, becomes = [map |-> OpenIf(level.map, s), own |-> own]
  PROVE  /\ GoodLevel(becomes)
         /\ \A var : var # s.var => Keeps(level.map, becomes.map, var)
         /\ s.key # NoKey => s.var \in DOMAIN becomes.map /\ becomes.map[s.var] = s.key
<1>1. s.var \in QueryVar /\ s.key \in Keys \cup {NoKey} /\ Binds(s, s.var)
  BY LineIs
<1>2. PICK map : map = level.map
  OBVIOUS
<1>3. /\ map \in VarMap /\ \A var \in QueryVar : Assigning(var) # {} => var \in DOMAIN map
      /\ \A var \in DOMAIN map : Sourced(map, var) /\ map[var] # NoKey
  BY <1>2 DEF GoodLevel, Level
<1>4. CASE s.key = NoKey
  <2>1. becomes.map = map /\ becomes.own = own /\ becomes = [map |-> map, own |-> own]
    BY <1>2, <1>4 DEF OpenIf
  <2>2. GoodLevel(becomes)
    BY <1>3, <2>1 DEF GoodLevel, Level
  <2>3. QED
    BY <1>2, <1>4, <2>1, <2>2 DEF Keeps
<1>5. CASE s.key # NoKey
  <2>1. PICK x, c : x = s.var /\ c = s.key
    OBVIOUS
  <2>2. PICK new : new = Put(map, x, c)
    OBVIOUS
  <2>3. x \in QueryVar /\ c \in Keys \cup {NoKey} /\ map \in VarMap
    BY <1>1, <1>3, <2>1
  <2>4. Puts(map, x, c, new)
    BY <2>2, <2>3, PutPuts
  <2>5. /\ new \in VarMap /\ DOMAIN new = DOMAIN map \cup {x} /\ new[x] = c
        /\ Kept(map, new, x)
    BY <2>4 DEF Puts
  <2>6. DOMAIN new = DOMAIN map \cup {s.var}
    BY <2>1, <2>5
  <2>7. new[s.var] = s.key
    BY <2>1, <2>5
  <2>8. \A v \in DOMAIN map : v # s.var => new[v] = map[v]
    BY <2>1, <2>5 DEF Kept
  <2>9. becomes.map = new /\ becomes = [map |-> new, own |-> own]
    BY <1>2, <1>5, <2>1, <2>2 DEF OpenIf
  <2>10. ASSUME NEW v \in DOMAIN new PROVE Sourced(new, v) /\ new[v] # NoKey
    <3>1. CASE v = s.var
      <4>1. Binds(body[k], v) /\ body[k].key = new[v]
        BY <1>1, <2>7, <3>1
      <4>2. QED
        BY <1>5, <2>7, <3>1, <4>1 DEF Sourced
    <3>2. CASE v # s.var
      <4>1. v \in DOMAIN map /\ new[v] = map[v]
        BY <2>6, <2>8, <3>2
      <4>2. QED
        BY <1>3, <4>1 DEF Sourced
    <3>3. QED
      BY <3>1, <3>2
  <2>11. GoodLevel(becomes)
    BY <1>3, <2>5, <2>6, <2>9, <2>10 DEF GoodLevel, Level
  <2>12. QED
    BY <1>2, <2>6, <2>7, <2>8, <2>9, <2>11 DEF Keeps
<1>6. QED
  BY <1>4, <1>5

LEMMA LevelsAre ==
  ASSUME Written, NEW k \in DOMAIN scopes, NEW levels, Followed(levels, scopes[k])
  PROVE  /\ Len(levels) \in Nat /\ Len(levels) >= 1 /\ DOMAIN levels = 1 .. Len(levels)
         /\ levels \in Seq(Level)
         /\ scopes[k] \in Seq(VarMap) /\ Len(scopes[k]) = 2 * Len(levels) - 1
         /\ DOMAIN scopes[k] = 1 .. 2 * Len(levels) - 1
         /\ \A i \in DOMAIN levels : GoodLevel(levels[i])
<1>1. /\ levels \in Seq(Level) /\ Len(scopes[k]) = 2 * Len(levels) - 1
      /\ \A i \in DOMAIN levels : GoodLevel(levels[i])
  BY DEF Followed
<1>2. scopes[k] \in Seq(VarMap)
  BY WrittenIs
<1>3. Len(levels) \in Nat /\ DOMAIN levels = 1 .. Len(levels)
  BY <1>1
<1>4. Len(scopes[k]) \in Nat /\ DOMAIN scopes[k] = 1 .. Len(scopes[k])
  BY <1>2
<1>5. Len(levels) >= 1
  BY <1>1, <1>3, <1>4
<1>6. QED
  BY <1>1, <1>2, <1>3, <1>4, <1>5

Extended(scoped, given, none, after) ==
  /\ Len(after) = Len(scoped) + 2 /\ \A q \in 1 .. Len(scoped) : after[q] = scoped[q]
  /\ after[Len(scoped) + 1] = given /\ after[Len(scoped) + 2] = none

LEMMA TwoMore ==
  \A scoped \in Seq(VarMap) : \A given, none, after :
    after = scoped \o <<given, none>> => Extended(scoped, given, none, after)
BY DEF Extended

LEMMA IfFollows ==
  ASSUME Written, NEW k \in DOMAIN body, NEW s, s = body[k], s.op = "if",
         NEW levels, Followed(levels, scopes[k]),
         NEW entered, entered = Append(levels, [map |-> OpenIf(Last(levels).map, s), own |-> TRUE])
  PROVE  Followed(entered, scopes[k + 1])
<1>1. PICK scoped, after : scoped = scopes[k] /\ after = scopes[k + 1]
  OBVIOUS
<1>2. PICK n : n = Len(levels)
  OBVIOUS
<1>3. k \in DOMAIN scopes /\ k + 1 \in DOMAIN scopes /\ after \in Seq(VarMap)
  BY <1>1, WrittenIs
<1>4. /\ n \in Nat /\ n >= 1 /\ DOMAIN levels = 1 .. n
      /\ levels \in Seq(Level)
      /\ scoped \in Seq(VarMap) /\ Len(scoped) = 2 * n - 1
      /\ \A i \in DOMAIN levels : GoodLevel(levels[i])
  BY <1>1, <1>2, <1>3, LevelsAre
<1>5. s.var \in QueryVar /\ s.key \in Keys \cup {NoKey} /\ Binds(s, s.var)
  BY LineIs
<1>6. PICK given, none : given = Put(NoVars, s.var, s.key) /\ none = NoVars
  OBVIOUS
<1>7. DOMAIN none = {}
  BY <1>6 DEF NoVars
<1>8. DOMAIN given = {s.var} /\ given[s.var] = s.key
  BY <1>6 DEF Put, NoVars
<1>9. after = scoped \o <<given, none>>
  BY <1>1, <1>6 DEF Written, Moves
<1>10. PICK m : m = Len(scoped)
  OBVIOUS
<1>11. /\ Len(after) = m + 2 /\ \A q \in 1 .. m : after[q] = scoped[q]
       /\ after[m + 1] = given /\ after[m + 2] = none
  <2>1. Extended(scoped, given, none, after)
    BY <1>4, <1>9, TwoMore
  <2>2. QED
    BY <1>10, <2>1 DEF Extended
<1>12. m = 2 * n - 1 /\ m + 1 = 2 * n /\ m + 2 = 2 * (n + 1) - 1
  BY <1>4, <1>10
<1>13. /\ Len(after) = 2 * (n + 1) - 1
       /\ \A q \in 1 .. 2 * n - 1 : after[q] = scoped[q]
       /\ after[2 * n] = given /\ after[2 * (n + 1) - 1] = none
  BY <1>11, <1>12
<1>14. PICK new : new = [map |-> OpenIf(levels[n].map, s), own |-> TRUE]
  OBVIOUS
<1>15. PICK top : top = levels[n]
  OBVIOUS
<1>16. GoodLevel(top) /\ new = [map |-> OpenIf(top.map, s), own |-> TRUE]
  BY <1>4, <1>14, <1>15
<1>17. /\ GoodLevel(new) /\ \A var : var # s.var => Keeps(levels[n].map, new.map, var)
       /\ s.key # NoKey => s.var \in DOMAIN new.map /\ new.map[s.var] = s.key
  BY <1>15, <1>16, OpenIfIs
<1>18. new \in Level
  BY <1>17 DEF GoodLevel, Level
<1>19. Last(levels) = levels[n]
  BY <1>2 DEF Last
<1>20. /\ entered \in Seq(Level) /\ Len(entered) = n + 1
       /\ \A i \in 1 .. n : entered[i] = levels[i]
       /\ entered[n + 1] = new
       /\ DOMAIN entered = 1 .. n + 1
  BY <1>2, <1>4, <1>14, <1>18, <1>19, AppendProperties
<1>21. \A i \in 1 .. n + 1 : i \in 1 .. n \/ i = n + 1
  BY <1>4
<1>22. \A i \in DOMAIN entered : GoodLevel(entered[i])
  BY <1>4, <1>17, <1>20, <1>21
<1>23. ASSUME NEW var \in QueryVar, OnlyIfs(var) PROVE Tracked(entered, after, var)
  <2>1. Tracked(levels, scoped, var)
    BY <1>1, <1>23 DEF Followed
  <2>2. \A i \in 1 .. n : /\ 2 * i - 1 \in 1 .. 2 * n - 1
                          /\ \A q \in 1 .. 2 * i - 2 : q \in 1 .. 2 * n - 1
    BY <1>4
  <2>3. ASSUME NEW i \in 1 .. n
        PROVE  var \notin DOMAIN after[2 * i - 1] /\ AsScoped(entered[i].map, after, i, var)
    <3>1. var \notin DOMAIN scoped[2 * i - 1] /\ AsScoped(levels[i].map, scoped, i, var)
      BY <1>4, <2>1 DEF Tracked
    <3>2. AgreeTo(scoped, after, i, var)
      BY <1>13, <2>2 DEF Agrees, AgreeTo
    <3>3. Keeps(levels[i].map, entered[i].map, var)
      BY <1>20 DEF Keeps
    <3>4. PICK one, two : one = levels[i].map /\ two = entered[i].map
      OBVIOUS
    <3>5. AsScoped(two, after, i, var)
      <4>1. AsScoped(one, scoped, i, var) /\ Keeps(one, two, var) /\ i \in Nat
        BY <1>4, <3>1, <3>3, <3>4
      <4>2. QED
        BY <3>2, <4>1, AsScopedStays
    <3>6. AsScoped(entered[i].map, after, i, var)
      BY <3>4, <3>5
    <3>7. QED
      BY <1>13, <2>2, <3>1, <3>6
  <2>4. var \notin DOMAIN after[2 * (n + 1) - 1]
    BY <1>7, <1>13
  <2>5. ASSUME NEW j \in 1 .. (n + 1) - 1, var \in DOMAIN after[2 * j],
               \A l \in j + 1 .. (n + 1) - 1 : var \notin DOMAIN after[2 * l]
        PROVE  var \in DOMAIN new.map /\ new.map[var] = after[2 * j][var]
    <3>1. j \in 1 .. n
      BY <1>4
    <3>2. CASE j = n
      <4>1. var = s.var /\ after[2 * j] = given
        BY <1>8, <1>13, <2>5, <3>2
      <4>2. s.key # NoKey
        BY <1>5, <1>23, <4>1 DEF OnlyIfs
      <4>3. QED
        BY <1>8, <1>17, <4>1, <4>2
    <3>3. CASE j # n
      <4>1. /\ n \in j + 1 .. (n + 1) - 1 /\ j \in 1 .. n - 1
            /\ 2 * j \in 1 .. 2 * n - 1
            /\ \A l \in j + 1 .. n - 1 : l \in j + 1 .. (n + 1) - 1 /\ 2 * l \in 1 .. 2 * n - 1
        BY <1>4, <3>1, <3>3
      <4>2. var \notin DOMAIN after[2 * n]
        BY <2>5, <4>1
      <4>3. var # s.var
        BY <1>8, <1>13, <4>2
      <4>4. after[2 * j] = scoped[2 * j]
        BY <1>13, <4>1
      <4>5. \A l \in j + 1 .. n - 1 : var \notin DOMAIN scoped[2 * l]
        BY <1>13, <2>5, <4>1
      <4>6. AsScoped(levels[n].map, scoped, n, var)
        BY <1>4, <2>1 DEF Tracked
      <4>7. var \in DOMAIN levels[n].map /\ levels[n].map[var] = scoped[2 * j][var]
        BY <2>5, <4>1, <4>4, <4>5, <4>6 DEF AsScoped
      <4>8. QED
        BY <1>17, <4>3, <4>4, <4>7 DEF Keeps
    <3>4. QED
      BY <3>2, <3>3
  <2>6. AsScoped(new.map, after, n + 1, var)
    BY <2>5 DEF AsScoped
  <2>7. QED
    BY <1>20, <1>21, <2>3, <2>4, <2>6 DEF Tracked
<1>24. QED
  BY <1>1, <1>13, <1>20, <1>22, <1>23 DEF Followed

Shortened(seq, kept, n) ==
  /\ kept \in Seq(Level) /\ Len(kept) = n /\ DOMAIN kept = 1 .. n
  /\ \A i \in 1 .. n : kept[i] = seq[i]

LEMMA FirstOf ==
  ASSUME NEW T, NEW seq \in Seq(T), NEW n \in Nat, n <= Len(seq)
  PROVE  /\ SubSeq(seq, 1, n) \in Seq(T) /\ Len(SubSeq(seq, 1, n)) = n
         /\ DOMAIN SubSeq(seq, 1, n) = 1 .. n
         /\ \A i \in 1 .. n : SubSeq(seq, 1, n)[i] = seq[i]
OBVIOUS

LEMMA FirstOnes ==
  \A seq \in Seq(Level) : \A n \in Nat : \A kept :
    n <= Len(seq) /\ kept = SubSeq(seq, 1, n) => Shortened(seq, kept, n)
<1>1. ASSUME NEW T, NEW seq \in Seq(T), NEW n \in Nat, NEW kept, n <= Len(seq),
             kept = SubSeq(seq, 1, n)
      PROVE  /\ kept \in Seq(T) /\ Len(kept) = n /\ DOMAIN kept = 1 .. n
             /\ \A i \in 1 .. n : kept[i] = seq[i]
  BY <1>1, FirstOf
<1>2. ASSUME NEW seq \in Seq(Level), NEW n \in Nat, NEW kept,
             n <= Len(seq), kept = SubSeq(seq, 1, n)
      PROVE  Shortened(seq, kept, n)
  BY <1>1, <1>2 DEF Shortened
<1>3. QED
  BY <1>2

LEMMA CloseFollows ==
  ASSUME Written, NEW k \in DOMAIN body, NEW s, s = body[k], s.op = "close",
         NEW levels, Followed(levels, scopes[k]),
         NEW left, left = SubSeq(levels, 1, Len(levels) - 1)
  PROVE  Followed(left, scopes[k + 1])
<1>1. PICK scoped, after : scoped = scopes[k] /\ after = scopes[k + 1]
  OBVIOUS
<1>2. PICK n : n = Len(levels)
  OBVIOUS
<1>3. k \in DOMAIN scopes /\ Moves(s, scoped, after)
  BY <1>1, LineIs
<1>4. /\ n \in Nat /\ n >= 1 /\ DOMAIN levels = 1 .. n
      /\ levels \in Seq(Level)
      /\ scoped \in Seq(VarMap) /\ Len(scoped) = 2 * n - 1
      /\ \A i \in DOMAIN levels : GoodLevel(levels[i])
  BY <1>1, <1>2, <1>3, LevelsAre
<1>5. after = SubSeq(scoped, 1, Len(scoped) - 2) /\ Len(scoped) > 1
  BY <1>3 DEF Moves
<1>6. n >= 2
  BY <1>4, <1>5
<1>7. /\ left \in Seq(Level) /\ Len(left) = n - 1
      /\ DOMAIN left = 1 .. n - 1
      /\ \A i \in 1 .. n - 1 : left[i] = levels[i]
  <2>1. n - 1 \in Nat /\ n - 1 <= Len(levels) /\ left = SubSeq(levels, 1, n - 1)
    BY <1>2, <1>4, <1>6
  <2>2. Shortened(levels, left, n - 1)
    BY <1>4, <2>1, FirstOnes
  <2>3. QED
    BY <2>2 DEF Shortened
<1>8. /\ Len(after) = 2 * (n - 1) - 1
      /\ \A q \in 1 .. 2 * n - 3 : after[q] = scoped[q]
  BY <1>4, <1>5, <1>6
<1>9. \A i \in DOMAIN left : GoodLevel(left[i])
  BY <1>4, <1>6, <1>7
<1>10. ASSUME NEW var \in QueryVar, OnlyIfs(var) PROVE Tracked(left, after, var)
  <2>1. Tracked(levels, scoped, var)
    BY <1>1, <1>10 DEF Followed
  <2>2. ASSUME NEW i \in 1 .. n - 1
        PROVE  var \notin DOMAIN after[2 * i - 1] /\ AsScoped(left[i].map, after, i, var)
    <3>1. /\ 2 * i - 1 \in 1 .. 2 * n - 3 /\ i \in 1 .. n /\ i \in Nat
          /\ \A q \in 1 .. 2 * i - 2 : q \in 1 .. 2 * n - 3
      BY <1>4
    <3>2. var \notin DOMAIN scoped[2 * i - 1] /\ AsScoped(levels[i].map, scoped, i, var)
      BY <1>4, <2>1, <3>1 DEF Tracked
    <3>3. AgreeTo(scoped, after, i, var)
      BY <1>8, <3>1 DEF Agrees, AgreeTo
    <3>4. PICK map : map = levels[i].map
      OBVIOUS
    <3>5. Keeps(map, map, var)
      BY DEF Keeps
    <3>6. AsScoped(map, after, i, var)
      BY <3>1, <3>2, <3>3, <3>4, <3>5, AsScopedStays
    <3>7. left[i].map = map
      BY <1>7, <3>4
    <3>8. QED
      BY <1>8, <3>1, <3>2, <3>6, <3>7
  <2>3. QED
    BY <1>7, <2>2 DEF Tracked
<1>11. QED
  BY <1>1, <1>7, <1>8, <1>9, <1>10 DEF Followed

(***************************************************************************)
(* What becomes of the scopes at a statement that is neither an if nor its *)
(* end: only its variable can change.                                      *)
(***************************************************************************)
Changed(scoped, after, var) ==
  /\ after \in Seq(VarMap) /\ Len(after) = Len(scoped)
  /\ \A q \in DOMAIN scoped : \A other : other # var => Agrees(scoped[q], after[q], other)

LEMMA OthersAgree ==
  \A scoped \in Seq(VarMap) : \A k \in DOMAIN scoped : \A var \in QueryVar :
    \A key \in Keys \cup {NoKey} : \A after :
      after = Replaced(scoped, k, var, key) => Changed(scoped, after, var)
<1>1. ASSUME NEW scoped \in Seq(VarMap), NEW k \in DOMAIN scoped, NEW var \in QueryVar,
             NEW key \in Keys \cup {NoKey}, NEW after, after = Replaced(scoped, k, var, key)
      PROVE  Changed(scoped, after, var)
  <2>1. PICK old \in VarMap : old = scoped[k]
    OBVIOUS
  <2>2. PICK new : new = Put(old, var, key)
    OBVIOUS
  <2>3. Puts(old, var, key, new)
    BY <2>2, PutPuts
  <2>4. new \in VarMap /\ \A other : other # var => Agrees(old, new, other)
    BY <2>3 DEF Puts, Kept, Agrees
  <2>5. after = [scoped EXCEPT ![k] = new]
    BY <1>1, <2>1, <2>2 DEF Replaced
  <2>6. after \in Seq(VarMap) /\ Len(after) = Len(scoped)
    BY <2>4, <2>5, ExceptSeq
  <2>7. ASSUME NEW q \in DOMAIN scoped, NEW other, other # var
        PROVE  Agrees(scoped[q], after[q], other)
    <3>1. CASE q = k
      BY <2>1, <2>4, <2>5, <2>7, <3>1
    <3>2. CASE q # k
      BY <2>5, <3>2 DEF Agrees
    <3>3. QED
      BY <3>1, <3>2
  <2>8. QED
    BY <2>6, <2>7 DEF Changed
<1>2. QED
  BY <1>1

LEMMA NoVarsIs == NoVars \in VarMap /\ DOMAIN NoVars = {}
BY DEF NoVars, VarMap

LEMMA StillTracked ==
  ASSUME NEW levels, NEW after, NEW scoped, NEW n \in Nat, DOMAIN levels = 1 .. n, NEW var,
         Tracked(levels, scoped, var),
         NEW became, DOMAIN became = DOMAIN levels,
         \A i \in 1 .. n : Keeps(levels[i].map, became[i].map, var),
         \A q \in 1 .. 2 * n - 1 : Agrees(scoped[q], after[q], var)
  PROVE  Tracked(became, after, var)
<1>1. ASSUME NEW i \in 1 .. n
      PROVE  var \notin DOMAIN after[2 * i - 1] /\ AsScoped(became[i].map, after, i, var)
  <2>1. /\ 2 * i - 1 \in 1 .. 2 * n - 1 /\ i \in Nat
        /\ \A q \in 1 .. 2 * i - 2 : q \in 1 .. 2 * n - 1
    OBVIOUS
  <2>2. var \notin DOMAIN scoped[2 * i - 1] /\ AsScoped(levels[i].map, scoped, i, var)
    BY DEF Tracked
  <2>3. AgreeTo(scoped, after, i, var)
    BY <2>1 DEF AgreeTo
  <2>4. PICK one, two : one = levels[i].map /\ two = became[i].map
    OBVIOUS
  <2>5. AsScoped(one, scoped, i, var) /\ Keeps(one, two, var)
    BY <2>2, <2>4
  <2>6. AsScoped(two, after, i, var)
    BY <2>1, <2>3, <2>5, AsScopedStays
  <2>7. QED
    BY <2>1, <2>2, <2>4, <2>6 DEF Agrees
<1>2. QED
  BY <1>1 DEF Tracked

LEMMA BindFollows ==
  ASSUME Written, NEW k \in DOMAIN body, NEW s, s = body[k], s.op = "bind",
         NEW levels, Followed(levels, scopes[k])
  PROVE  Followed(levels, scopes[k + 1])
<1>1. PICK scoped, after : scoped = scopes[k] /\ after = scopes[k + 1]
  OBVIOUS
<1>2. PICK n : n = Len(levels)
  OBVIOUS
<1>3. /\ k \in DOMAIN scopes /\ Moves(s, scoped, after)
      /\ s.var \in QueryVar /\ s.key \in Keys \cup {NoKey} /\ Binds(s, s.var)
  BY <1>1, LineIs
<1>4. /\ n \in Nat /\ DOMAIN levels = 1 .. n
      /\ levels \in Seq(Level)
      /\ scoped \in Seq(VarMap) /\ Len(scoped) = 2 * n - 1
      /\ DOMAIN scoped = 1 .. 2 * n - 1
      /\ \A i \in DOMAIN levels : GoodLevel(levels[i])
  BY <1>1, <1>2, <1>3, LevelsAre
<1>5. PICK x, c : x = s.var /\ c = s.key
  OBVIOUS
<1>6. PICK m \in DOMAIN scoped : after = Replaced(scoped, m, x, c)
  BY <1>3, <1>5 DEF Moves, Replaced
<1>7. x \in QueryVar /\ c \in Keys \cup {NoKey}
  BY <1>3, <1>5
<1>8. /\ Len(after) = 2 * n - 1
      /\ \A q \in 1 .. 2 * n - 1 : \A var : var # x => Agrees(scoped[q], after[q], var)
  <2>1. Changed(scoped, after, x)
    BY <1>4, <1>6, <1>7, OthersAgree
  <2>2. QED
    BY <1>4, <2>1 DEF Changed
<1>9. ASSUME NEW var \in QueryVar, OnlyIfs(var) PROVE Tracked(levels, after, var)
  <2>1. Tracked(levels, scoped, var)
    BY <1>1, <1>9 DEF Followed
  <2>2. var # x
    BY <1>3, <1>5, <1>9 DEF OnlyIfs
  <2>3. \A q \in 1 .. 2 * n - 1 : Agrees(scoped[q], after[q], var)
    BY <1>8, <2>2
  <2>4. \A i \in 1 .. n : Keeps(levels[i].map, levels[i].map, var)
    BY DEF Keeps
  <2>5. QED
    BY <1>4, <2>1, <2>3, <2>4, StillTracked
<1>10. QED
  BY <1>1, <1>2, <1>4, <1>8, <1>9 DEF Followed

LEMMA ParseFollows ==
  ASSUME Written, NEW k \in DOMAIN body, NEW s, s = body[k], s.op = "parse",
         NEW levels, Followed(levels, scopes[k])
  PROVE  Followed(levels, scopes[k + 1])
<1>1. scopes[k + 1] = scopes[k]
  BY LineIs DEF Moves
<1>2. QED
  BY <1>1

ElseOf(level, s) == IF level.own THEN [map |-> level.map, own |-> FALSE]
                                 ELSE [map |-> OpenIf(level.map, s), own |-> TRUE]

LEMMA ElseIfFollows ==
  ASSUME Written, NEW k \in DOMAIN body, NEW s, s = body[k], s.op = "elseif",
         NEW levels, Followed(levels, scopes[k]),
         NEW became, became = [levels EXCEPT ![Len(levels)] = ElseOf(levels[Len(levels)], s)]
  PROVE  Followed(became, scopes[k + 1])
<1>1. PICK scoped, after : scoped = scopes[k] /\ after = scopes[k + 1]
  OBVIOUS
<1>2. PICK n : n = Len(levels)
  OBVIOUS
<1>3. /\ k \in DOMAIN scopes /\ Moves(s, scoped, after)
      /\ s.var \in QueryVar /\ s.key \in Keys \cup {NoKey} /\ Binds(s, s.var)
  BY <1>1, LineIs
<1>4. /\ n \in Nat /\ n >= 1 /\ DOMAIN levels = 1 .. n
      /\ levels \in Seq(Level)
      /\ scoped \in Seq(VarMap) /\ Len(scoped) = 2 * n - 1
      /\ DOMAIN scoped = 1 .. 2 * n - 1
      /\ \A i \in DOMAIN levels : GoodLevel(levels[i])
  BY <1>1, <1>2, <1>3, LevelsAre
<1>5. PICK x, c : x = s.var /\ c = s.key
  OBVIOUS
<1>6. x \in QueryVar /\ c \in Keys \cup {NoKey}
  BY <1>3, <1>5
<1>7. PICK m : m = 2 * n - 1
  OBVIOUS
<1>8. PICK none : none = NoVars
  OBVIOUS
<1>9. PICK middle : middle = Replaced(scoped, m - 1, x, c)
  OBVIOUS
<1>10. after = [middle EXCEPT ![m] = none] /\ m > 1
  BY <1>3, <1>4, <1>5, <1>7, <1>8, <1>9 DEF Moves, Replaced
<1>11. m - 1 \in DOMAIN scoped /\ m \in DOMAIN scoped /\ n >= 2 /\ DOMAIN scoped = 1 .. m
  BY <1>4, <1>7, <1>10
<1>12. none \in VarMap /\ DOMAIN none = {}
  BY <1>8, NoVarsIs
<1>13. /\ middle \in Seq(VarMap) /\ Len(middle) = m
       /\ \A q \in 1 .. m : \A var : var # x => Agrees(scoped[q], middle[q], var)
  <2>1. Changed(scoped, middle, x)
    BY <1>4, <1>6, <1>9, <1>11, OthersAgree
  <2>2. QED
    BY <1>4, <1>7, <1>11, <2>1 DEF Changed
<1>14. /\ Len(after) = m /\ after[m] = none
       /\ \A q \in 1 .. m : q # m => after[q] = middle[q]
  <2>1. m \in DOMAIN middle /\ DOMAIN middle = 1 .. m
    BY <1>11, <1>13
  <2>2. after \in Seq(VarMap) /\ Len(after) = Len(middle)
    BY <1>10, <1>12, <1>13, <2>1, ExceptSeq
  <2>3. after[m] = none /\ \A q \in 1 .. m : q # m => after[q] = middle[q]
    BY <1>10, <2>1
  <2>4. QED
    BY <1>13, <2>2, <2>3
<1>15. PICK top, new : top = levels[n] /\ new = ElseOf(top, s)
  OBVIOUS
<1>16. GoodLevel(top)
  BY <1>4, <1>15
<1>17. GoodLevel(new) /\ \A var : var # x => Keeps(top.map, new.map, var)
  <2>1. CASE top.own
    <3>1. new = [map |-> top.map, own |-> FALSE] /\ new.map = top.map
      BY <1>15, <2>1 DEF ElseOf
    <3>2. GoodLevel(new)
      BY <1>16, <3>1 DEF GoodLevel, Level
    <3>3. QED
      BY <3>1, <3>2 DEF Keeps
  <2>2. CASE ~top.own
    <3>1. new = [map |-> OpenIf(top.map, s), own |-> TRUE]
      BY <1>15, <2>2 DEF ElseOf
    <3>2. QED
      BY <1>5, <1>16, <3>1, OpenIfIs
  <2>3. QED
    BY <2>1, <2>2
<1>18. new \in Level
  BY <1>17 DEF GoodLevel, Level
<1>19. became = [levels EXCEPT ![n] = new]
  BY <1>2, <1>15
<1>20. /\ became \in Seq(Level) /\ Len(became) = n
       /\ DOMAIN became = 1 .. n /\ became[n] = new
       /\ \A i \in 1 .. n : i # n => became[i] = levels[i]
  BY <1>2, <1>4, <1>18, <1>19, ExceptSeq
<1>21. \A i \in DOMAIN became : GoodLevel(became[i])
  BY <1>4, <1>17, <1>20
<1>22. ASSUME NEW var \in QueryVar, OnlyIfs(var) PROVE Tracked(became, after, var)
  <2>1. Tracked(levels, scoped, var)
    BY <1>1, <1>22 DEF Followed
  <2>2. var # x
    BY <1>3, <1>5, <1>22 DEF OnlyIfs
  <2>3. \A q \in 1 .. m : Agrees(scoped[q], middle[q], var)
    BY <1>13, <2>2
  <2>4. var \notin DOMAIN scoped[m]
    BY <1>4, <1>7, <2>1 DEF Tracked
  <2>5. \A q \in 1 .. m : Agrees(scoped[q], after[q], var)
    BY <1>12, <1>14, <2>3, <2>4 DEF Agrees
  <2>6. \A i \in 1 .. n : Keeps(levels[i].map, became[i].map, var)
    BY <1>15, <1>17, <1>20, <2>2 DEF Keeps
  <2>7. QED
    BY <1>4, <1>7, <1>20, <2>1, <2>5, <2>6, StillTracked
<1>23. QED
  BY <1>1, <1>7, <1>14, <1>20, <1>21, <1>22 DEF Followed

(***************************************************************************)
(* What a statement reads.                                                 *)
(***************************************************************************)
LEMMA SourceIs ==
  ASSUME NEW map, NEW var, Sourced(map, var)
  PROVE  map[var] \in BodyKeys \cup {NoKey}
BY DEF Sourced, BodyKeys

LEMMA HeldSourced ==
  ASSUME Written, NEW k \in DOMAIN scopes, NEW var, Declaring(scopes[k], var) # {}
  PROVE  /\ Max(Declaring(scopes[k], var)) \in DOMAIN scopes[k]
         /\ var \in DOMAIN scopes[k][Max(Declaring(scopes[k], var))]
         /\ \A q \in Declaring(scopes[k], var) : q <= Max(Declaring(scopes[k], var))
         /\ Sourced(scopes[k][Max(Declaring(scopes[k], var))], var)
         /\ var \in QueryVar
<1>1. PICK scoped : scoped = scopes[k]
  OBVIOUS
<1>2. scoped \in Seq(VarMap)
  BY <1>1, WrittenIs
<1>3. PICK top : top = Max(Declaring(scoped, var))
  OBVIOUS
<1>4. /\ top \in DOMAIN scoped /\ var \in DOMAIN scoped[top]
      /\ \A q \in Declaring(scoped, var) : q <= top
  BY <1>1, <1>2, <1>3, DeclaringIs
<1>5. Sourced(scoped[top], var)
  BY <1>1, <1>4 DEF Written
<1>6. scoped[top] \in VarMap
  BY <1>2, <1>4
<1>7. var \in QueryVar
  BY <1>4, <1>6, VarMapIs
<1>8. QED
  BY <1>1, <1>3, <1>4, <1>5, <1>7

LEMMA ReadIsKey ==
  ASSUME Written, NEW k \in DOMAIN body
  PROVE  ReadAt(k) \in BodyKeys \cup {NoKey}
<1>1. PICK s : s = body[k]
  OBVIOUS
<1>2. CASE s.op = "parse" /\ s.key = NoKey
  <2>1. k \in DOMAIN scopes /\ Moves(s, scopes[k], scopes[k + 1])
    BY <1>1, LineIs
  <2>2. Declaring(scopes[k], s.var) # {}
    BY <1>2, <2>1 DEF Moves
  <2>3. PICK x : x = s.var
    OBVIOUS
  <2>4. PICK map : map = scopes[k][Max(Declaring(scopes[k], x))]
    OBVIOUS
  <2>5. Sourced(map, x)
    BY <2>1, <2>2, <2>3, <2>4, HeldSourced
  <2>6. ReadAt(k) = map[x]
    BY <1>1, <1>2, <2>3, <2>4 DEF ReadAt, Holds
  <2>7. QED
    BY <2>5, <2>6, SourceIs
<1>3. CASE ~(s.op = "parse" /\ s.key = NoKey)
  BY <1>1, <1>3 DEF ReadAt, BodyKeys
<1>4. QED
  BY <1>2, <1>3

LEMMA KeysAreRead ==
  ASSUME Written
  PROVE  BodyKeys = ReadKeys
<1>1. ReadKeys \subseteq BodyKeys
  BY ReadIsKey DEF ReadKeys
<1>2. ASSUME NEW key \in BodyKeys PROVE key \in ReadKeys
  <2>1. PICK k \in DOMAIN body : key = body[k].key /\ key # NoKey
    BY DEF BodyKeys
  <2>2. ReadAt(k) = key
    BY <2>1 DEF ReadAt
  <2>3. QED
    BY <2>1, <2>2 DEF ReadKeys
<1>3. QED
  BY <1>1, <1>2

LEMMA ParamIsKey ==
  ASSUME Written, NEW k \in DOMAIN body, NEW s, s = body[k], NEW level, GoodLevel(level)
  PROVE  ParamOf(level.map, s) \in BodyKeys \cup {NoKey}
<1>1. CASE s.key # NoKey
  BY <1>1 DEF ParamOf, BodyKeys
<1>2. CASE s.key = NoKey /\ s.var \in DOMAIN level.map
  <2>1. PICK map, x : map = level.map /\ x = s.var
    OBVIOUS
  <2>2. Sourced(map, x)
    BY <1>2, <2>1 DEF GoodLevel
  <2>3. ParamOf(level.map, s) = map[x]
    BY <1>2, <2>1 DEF ParamOf
  <2>4. QED
    BY <2>2, <2>3, SourceIs
<1>3. CASE s.key = NoKey /\ s.var \notin DOMAIN level.map
  BY <1>3 DEF ParamOf
<1>4. QED
  BY <1>1, <1>2, <1>3

(***************************************************************************)
(* What the last walk takes a statement to read: what it reads.            *)
(***************************************************************************)
LEMMA EvenOne ==
  ASSUME NEW n \in Nat, NEW top \in 1 .. 2 * n - 1, \A i \in 1 .. n : top # 2 * i - 1
  PROVE  \E j \in 1 .. n - 1 : top = 2 * j
<1>1. PICK j : j = (top + 1) \div 2
  OBVIOUS
<1>2. j \in Int /\ (top = 2 * j \/ top = 2 * j - 1)
  BY <1>1
<1>3. j \in 1 .. n
  BY <1>2
<1>4. top = 2 * j
  BY <1>2, <1>3
<1>5. j \in 1 .. n - 1
  BY <1>2, <1>4
<1>6. QED
  BY <1>4, <1>5

LEMMA HeldByLevel ==
  ASSUME Written, NEW k \in DOMAIN scopes, NEW var, Declaring(scopes[k], var) # {},
         OneMeaning(var),
         NEW levels, Followed(levels, scopes[k]), NEW map, map = levels[Len(levels)].map
  PROVE  Holds(scopes[k], var) = IF var \in DOMAIN map THEN map[var] ELSE NoKey
<1>1. PICK scoped, n : scoped = scopes[k] /\ n = Len(levels)
  OBVIOUS
<1>2. PICK top : top = Max(Declaring(scoped, var))
  OBVIOUS
<1>3. /\ top \in DOMAIN scoped /\ var \in DOMAIN scoped[top] /\ Sourced(scoped[top], var)
      /\ \A q \in Declaring(scoped, var) : q <= top
      /\ var \in QueryVar /\ Holds(scoped, var) = scoped[top][var]
  BY <1>1, <1>2, HeldSourced DEF Holds
<1>4. /\ n \in Nat /\ n >= 1 /\ DOMAIN levels = 1 .. n
      /\ DOMAIN scoped = 1 .. 2 * n - 1
      /\ GoodLevel(levels[n]) /\ map = levels[n].map
  BY <1>1, LevelsAre
<1>5. CASE OnlyIfs(var)
  <2>1. Tracked(levels, scoped, var)
    BY <1>1, <1>3, <1>5 DEF Followed
  <2>2. top \in 1 .. 2 * n - 1 /\ \A i \in 1 .. n : top # 2 * i - 1
    BY <1>3, <1>4, <2>1 DEF Tracked
  <2>3. \E j \in 1 .. n - 1 : top = 2 * j
    BY <1>4, <2>2, EvenOne
  <2>4. PICK j \in 1 .. n - 1 : top = 2 * j
    BY <2>3
  <2>5. ASSUME NEW l \in j + 1 .. n - 1 PROVE var \notin DOMAIN scoped[2 * l]
    <3>1. 2 * l \in 1 .. 2 * n - 1 /\ ~(2 * l <= top)
      BY <1>4, <2>4
    <3>2. QED
      BY <1>3, <1>4, <3>1 DEF Declaring
  <2>6. AsScoped(map, scoped, n, var)
    BY <1>4, <2>1 DEF Tracked
  <2>7. var \in DOMAIN map /\ map[var] = scoped[2 * j][var]
    BY <1>3, <2>4, <2>5, <2>6 DEF AsScoped
  <2>8. QED
    BY <1>1, <1>3, <2>4, <2>7
<1>6. CASE ~OnlyIfs(var)
  <2>1. \A i, j \in DOMAIN body :
          Binds(body[i], var) /\ Binds(body[j], var) => body[i].key = body[j].key
    BY <1>6 DEF OneMeaning
  <2>2. PICK i \in DOMAIN body : Binds(body[i], var) /\ body[i].key = scoped[top][var]
    BY <1>3 DEF Sourced
  <2>3. CASE var \in DOMAIN map
    <3>1. Sourced(map, var)
      BY <1>4, <2>3 DEF GoodLevel
    <3>2. PICK j \in DOMAIN body : Binds(body[j], var) /\ body[j].key = map[var]
      BY <3>1 DEF Sourced
    <3>3. QED
      BY <1>1, <1>3, <2>1, <2>2, <2>3, <3>2
  <2>4. CASE var \notin DOMAIN map
    <3>1. Assigning(var) = {}
      BY <1>3, <1>4, <2>4 DEF GoodLevel
    <3>2. body[i].key = NoKey
      BY <2>2, <3>1 DEF Assigning
    <3>3. QED
      BY <1>1, <1>3, <2>2, <2>4, <3>2
  <2>5. QED
    BY <2>3, <2>4
<1>7. QED
  BY <1>5, <1>6

LEMMA ParamIsRead ==
  ASSUME Written, NEW k \in DOMAIN body, NEW s, s = body[k], s.op = "parse",
         \A var \in QueryVar : OneMeaning(var),
         NEW levels, Followed(levels, scopes[k]), NEW map, map = levels[Len(levels)].map
  PROVE  ParamOf(map, s) = ReadAt(k)
<1>1. CASE s.key # NoKey
  BY <1>1 DEF ParamOf, ReadAt
<1>2. CASE s.key = NoKey
  <2>1. k \in DOMAIN scopes /\ Moves(s, scopes[k], scopes[k + 1])
    BY LineIs
  <2>2. PICK x : x = s.var
    OBVIOUS
  <2>3. Declaring(scopes[k], x) # {}
    BY <1>2, <2>1, <2>2 DEF Moves
  <2>4. OneMeaning(x)
    BY <2>1, <2>3, HeldSourced
  <2>5. Holds(scopes[k], x) = IF x \in DOMAIN map THEN map[x] ELSE NoKey
    BY <2>1, <2>3, <2>4, HeldByLevel
  <2>6. QED
    BY <1>2, <2>2, <2>5 DEF ParamOf, ReadAt
<1>3. QED
  BY <1>1, <1>2

TypesRead(types, n) ==
  \A key \in DOMAIN types :
    types[key] \in IF ParsedAs(key, n) = {} THEN {"string"} ELSE ParsedAs(key, n)

LEMMA ParsedMore ==
  ASSUME Written, NEW k \in DOMAIN body, NEW key
  PROVE  ParsedAs(key, k) = ParsedAs(key, k - 1)
           \cup {body[j].kind : j \in {i \in {k} : body[i].op = "parse" /\ ReadAt(i) = key}}
<1>1. 1 .. k = 1 .. k - 1 \cup {k}
  BY WrittenIs
<1>2. QED
  BY <1>1 DEF ParsedAs

LEMMA ParsedOther ==
  ASSUME Written, NEW k \in DOMAIN body, NEW key, body[k].op # "parse" \/ ReadAt(k) # key
  PROVE  ParsedAs(key, k) = ParsedAs(key, k - 1)
<1>1. PICK here : here = {i \in {k} : body[i].op = "parse" /\ ReadAt(i) = key}
  OBVIOUS
<1>2. {body[j].kind : j \in here} = {}
  BY <1>1
<1>3. ParsedAs(key, k) = ParsedAs(key, k - 1) \cup {body[j].kind : j \in here}
  BY <1>1, ParsedMore
<1>4. QED
  BY <1>2, <1>3

LEMMA NotParsed ==
  ASSUME Written, NEW k \in DOMAIN body, NEW types, TypesRead(types, k - 1),
         body[k].op # "parse" \/ ReadAt(k) \notin DOMAIN types
  PROVE  TypesRead(types, k)
<1>1. ASSUME NEW key \in DOMAIN types PROVE ParsedAs(key, k) = ParsedAs(key, k - 1)
  BY ParsedOther
<1>2. QED
  BY <1>1 DEF TypesRead

LEMMA OneParsed ==
  ASSUME Written, NEW k \in DOMAIN body, NEW types, TypesRead(types, k - 1),
         body[k].op = "parse", ReadAt(k) \in DOMAIN types,
         NEW became, became = Put(types, ReadAt(k), body[k].kind)
  PROVE  TypesRead(became, k) /\ DOMAIN became = DOMAIN types
<1>1. PICK param, kind : param = ReadAt(k) /\ kind = body[k].kind
  OBVIOUS
<1>2. /\ DOMAIN became = DOMAIN types /\ became[param] = kind
      /\ \A key \in DOMAIN types : key # param => became[key] = types[key]
  BY <1>1 DEF Put
<1>3. ASSUME NEW key \in DOMAIN types
      PROVE  became[key] \in IF ParsedAs(key, k) = {} THEN {"string"} ELSE ParsedAs(key, k)
  <2>1. PICK earlier, now : earlier = ParsedAs(key, k - 1) /\ now = ParsedAs(key, k)
    OBVIOUS
  <2>2. CASE key = param
    <3>1. kind \in now
      BY <1>1, <2>1, <2>2, ParsedMore
    <3>2. QED
      BY <1>2, <2>1, <2>2, <3>1
  <2>3. CASE key # param
    <3>1. now = earlier
      <4>1. ReadAt(k) # key
        BY <1>1, <2>3
      <4>2. ParsedAs(key, k) = ParsedAs(key, k - 1)
        BY <4>1, ParsedOther
      <4>3. QED
        BY <2>1, <4>2
    <3>2. types[key] \in IF earlier = {} THEN {"string"} ELSE earlier
      BY <2>1 DEF TypesRead
    <3>3. QED
      BY <1>2, <2>1, <2>3, <3>1, <3>2
  <2>4. QED
    BY <2>2, <2>3
<1>4. QED
  BY <1>2, <1>3 DEF TypesRead

LEMMA SameBody ==
  ASSUME body' = body, scopes' = scopes
  PROVE  /\ Written => Written'
         /\ BodyKeys' = BodyKeys
         /\ \A var : OneMeaning(var)' <=> OneMeaning(var)
         /\ \A levels, scoped : Followed(levels, scoped)' <=> Followed(levels, scoped)
         /\ \A types, n : TypesRead(types, n)' <=> TypesRead(types, n)
<1>1. \A map, var : Sourced(map, var)' <=> Sourced(map, var)
  BY DEF Sourced, Binds
<1>2. \A var : Assigning(var)' = Assigning(var)
  BY DEF Assigning, Binds
<1>3. \A var : OnlyIfs(var)' <=> OnlyIfs(var)
  BY DEF OnlyIfs, Binds
<1>4. \A var : OneMeaning(var)' <=> OneMeaning(var)
  BY <1>3 DEF OneMeaning, Binds
<1>5. \A level : GoodLevel(level)' <=> GoodLevel(level)
  BY <1>1, <1>2 DEF GoodLevel, Level, VarMap
<1>6. \A levels, scoped : Followed(levels, scoped)' <=> Followed(levels, scoped)
  BY <1>3, <1>5 DEF Followed, Tracked, AsScoped, Level, VarMap
<1>7. \A k : ReadAt(k)' = ReadAt(k)
  BY DEF ReadAt, Holds, Declaring
<1>8. \A key, n : ParsedAs(key, n)' = ParsedAs(key, n)
  BY <1>7 DEF ParsedAs
<1>9. \A types, n : TypesRead(types, n)' <=> TypesRead(types, n)
  BY <1>8 DEF TypesRead
<1>10. BodyKeys' = BodyKeys
  BY DEF BodyKeys
<1>11. ASSUME Written PROVE Written'
  <2>1. ASSUME NEW k \in DOMAIN scopes, NEW i \in DOMAIN scopes[k],
               NEW var \in DOMAIN scopes[k][i]
        PROVE  Sourced(scopes[k][i], var)'
    <3>1. PICK map, map2 : map = scopes[k][i] /\ map2 = scopes'[k][i]
      OBVIOUS
    <3>2. map2 = map /\ Sourced(map, var)
      BY <1>11, <3>1 DEF Written
    <3>3. Sourced(map2, var)'
      BY <1>1, <3>2
    <3>4. QED
      BY <3>1, <3>3
  <2>2. (\A k \in DOMAIN scopes : \A i \in DOMAIN scopes[k] :
           \A var \in DOMAIN scopes[k][i] : Sourced(scopes[k][i], var))'
    BY <2>1
  <2>3. /\ body' \in Seq(BodyLine)' /\ scopes' \in Seq(Seq(VarMap))'
        /\ Len(scopes') = Len(body') + 1 /\ scopes'[1] = <<NoVars>>
        /\ \A k \in DOMAIN body' :
             body'[k].op \in {"bind", "if", "elseif"} => body'[k].var \in QueryVar
    BY <1>11 DEF Written, BodyLine, VarMap
  <2>4. \A k \in DOMAIN scopes' : \E n \in 0 .. Len(scopes'[k]) : Len(scopes'[k]) = 2 * n + 1
    BY <1>11 DEF Written
  <2>5. \A k \in DOMAIN body' : Moves(body'[k], scopes'[k], scopes'[k + 1])
    BY <1>11 DEF Written
  <2>6. QED
    BY <2>2, <2>3, <2>4, <2>5 DEF Written
<1>12. QED
  BY <1>4, <1>6, <1>9, <1>10, <1>11

LEMMA QueryBegins ==
  ASSUME QueryInit
  PROVE  QueryInv
<1>1. body = <<>> /\ scopes = <<<<NoVars>>>> /\ looked = 0 /\ query = "writing"
  BY DEF QueryInit
<1>2. PICK none : none = NoVars
  OBVIOUS
<1>3. none \in VarMap /\ DOMAIN none = {}
  BY <1>2, NoVarsIs
<1>4. PICK first : first = <<none>>
  OBVIOUS
<1>5. first \in Seq(VarMap) /\ Len(first) = 1 /\ first[1] = none
  BY <1>3, <1>4
<1>6. scopes = <<first>>
  BY <1>1, <1>2, <1>4
<1>7. scopes \in Seq(Seq(VarMap)) /\ Len(scopes) = 1 /\ scopes[1] = first /\ DOMAIN scopes = {1}
  BY <1>5, <1>6
<1>8. body \in Seq(BodyLine) /\ Len(body) = 0 /\ DOMAIN body = {}
  BY <1>1
<1>9. \A k \in DOMAIN scopes : \E n \in 0 .. Len(scopes[k]) : Len(scopes[k]) = 2 * n + 1
  <2>1. 0 \in 0 .. Len(first) /\ Len(first) = 2 * 0 + 1
    BY <1>5
  <2>2. QED
    BY <1>7, <2>1
<1>10. \A k \in DOMAIN scopes : \A i \in DOMAIN scopes[k] :
         \A var \in DOMAIN scopes[k][i] : Sourced(scopes[k][i], var)
  <2>1. DOMAIN first = {1}
    BY <1>5
  <2>2. QED
    BY <1>3, <1>5, <1>7, <2>1
<1>11. Written
  BY <1>2, <1>4, <1>7, <1>8, <1>9, <1>10 DEF Written
<1>12. QED
  BY <1>1, <1>8, <1>11 DEF QueryInv

LEMMA WritingStep ==
  ASSUME QueryInv, NEW statement, NEW after, WriteLine(statement, after), Written'
  PROVE  QueryInv'
<1>1. /\ query = "writing" /\ query' = query /\ looked = 0 /\ looked' = looked
      /\ body' = Append(body, statement) /\ Len(body) \in Nat
  BY WrittenIs DEF QueryInv, WriteLine
<1>2. Len(body') \in Nat
  BY <1>1
<1>3. QED
  BY <1>1, <1>2 DEF QueryInv

LEMMA CollectStep ==
  ASSUME QueryInv, Collect
  PROVE  QueryInv'
<1>1. /\ Written /\ looked = 0 /\ looked' = 0 /\ query' = "collected"
      /\ body' = body /\ scopes' = scopes /\ scopes[1] = <<NoVars>>
  BY DEF QueryInv, Collect, Written
<1>2. PICK map : map = variables'
  OBVIOUS
<1>3. map = [var \in {v \in QueryVar : Assigning(v) # {}} |-> body[Max(Assigning(var))].key]
  BY <1>2 DEF Collect
<1>4. ASSUME NEW var \in DOMAIN map PROVE Sourced(map, var) /\ map[var] \in Keys
  <2>1. Assigning(var) # {} /\ map[var] = body[Max(Assigning(var))].key
    BY <1>3
  <2>2. Assigning(var) \subseteq 1 .. Len(body) /\ Len(body) \in Nat
    BY <1>1, WrittenIs DEF Assigning
  <2>3. Max(Assigning(var)) \in Assigning(var)
    BY <2>1, <2>2, MaxOf
  <2>4. PICK k : k = Max(Assigning(var))
    OBVIOUS
  <2>5. k \in DOMAIN body /\ Binds(body[k], var) /\ body[k].key # NoKey /\ map[var] = body[k].key
    BY <2>1, <2>3, <2>4 DEF Assigning
  <2>6. body[k].key \in Keys \cup {NoKey}
    BY <1>1, <2>5, LineIs
  <2>7. QED
    BY <2>5, <2>6 DEF Sourced
<1>5. /\ DOMAIN map = {v \in QueryVar : Assigning(v) # {}}
      /\ \A v \in DOMAIN map : map[v] \in Keys \cup {NoKey} /\ map[v] # NoKey
  BY <1>3, <1>4, QueryDocsAssumption DEF QueryDocsAssumption
<1>6. map \in VarMap
  <2>1. map \in [DOMAIN map -> Keys \cup {NoKey}] /\ DOMAIN map \in SUBSET QueryVar
    BY <1>3, <1>5
  <2>2. QED
    BY <2>1 DEF VarMap
<1>7. PICK level : level = [map |-> map, own |-> FALSE]
  OBVIOUS
<1>8. level \in Level /\ level.map = map
  BY <1>6, <1>7 DEF Level
<1>9. GoodLevel(level)
  BY <1>4, <1>5, <1>8 DEF GoodLevel
<1>10. PICK levels : levels = open'
  OBVIOUS
<1>11. levels = <<level>>
  BY <1>2, <1>7, <1>10 DEF Collect
<1>12. levels \in Seq(Level) /\ Len(levels) = 1 /\ DOMAIN levels = {1} /\ levels[1] = level
  BY <1>8, <1>11
<1>13. PICK none, scoped : none = NoVars /\ scoped = scopes[1]
  OBVIOUS
<1>14. Len(scoped) = 1 /\ scoped[1] = none /\ DOMAIN none = {}
  BY <1>1, <1>13, NoVarsIs
<1>15. \A var : Tracked(levels, scoped, var)
  <2>1. \A var : AsScoped(level.map, scoped, 1, var)
    BY DEF AsScoped
  <2>2. QED
    BY <1>12, <1>14, <2>1 DEF Tracked
<1>16. Followed(levels, scoped)
  BY <1>9, <1>12, <1>14, <1>15 DEF Followed
<1>17. Followed(open, scopes[looked + 1])'
  <2>1. PICK scoped2 : scoped2 = scopes'[looked' + 1]
    OBVIOUS
  <2>2. scoped2 = scoped
    BY <1>1, <1>13, <2>1
  <2>3. Followed(levels, scoped2)'
    BY <1>1, <1>16, <2>2, SameBody
  <2>4. QED
    BY <1>10, <2>1, <2>3
<1>18. PICK types : types = found'
  OBVIOUS
<1>19. types = [key \in BodyKeys |-> "string"]
  BY <1>18 DEF Collect
<1>20. TypesRead(types, 0)
  <2>1. \A key : ParsedAs(key, 0) = {}
    BY DEF ParsedAs
  <2>2. QED
    BY <1>19, <2>1 DEF TypesRead
<1>21. TypeRead(looked)'
  <2>1. TypesRead(types, 0)'
    BY <1>1, <1>20, SameBody
  <2>2. QED
    BY <1>1, <1>18, <2>1 DEF TypesRead, TypeRead
<1>22. DOMAIN found' = BodyKeys' /\ Written'
  BY <1>1, <1>18, <1>19, SameBody
<1>23. looked' \in Nat /\ looked' <= Len(body')
  BY <1>1, WrittenIs
<1>24. QED
  BY <1>1, <1>17, <1>21, <1>22, <1>23 DEF QueryInv

(***************************************************************************)
(* The last walk.                                                          *)
(***************************************************************************)
LEMMA TypeReadIs == \A n : TypeRead(n) <=> TypesRead(found, n)
BY DEF TypeRead, TypesRead

LEMMA WalkIs ==
  ASSUME QueryInv, query # "writing"
  PROVE  /\ Followed(open, scopes[looked + 1]) /\ DOMAIN found = BodyKeys
         /\ (\A var \in QueryVar : OneMeaning(var)) => TypesRead(found, looked)
<1>1. Followed(open, scopes[looked + 1]) /\ DOMAIN found = BodyKeys
  BY DEF QueryInv
<1>2. ASSUME \A var \in QueryVar : OneMeaning(var) PROVE TypeRead(looked)
  BY <1>2 DEF QueryInv
<1>3. QED
  BY <1>1, <1>2, TypeReadIs

LEMMA VisitStep ==
  ASSUME QueryInv, Visit
  PROVE  QueryInv'
<1>1. PICK k, s : k = looked + 1 /\ s = body[k]
  OBVIOUS
<1>2. /\ Written /\ looked \in Nat /\ looked' = k /\ k - 1 = looked
      /\ query = "collected" /\ query' = "collected"
      /\ body' = body /\ scopes' = scopes
      /\ looked < Len(body) /\ Len(body) \in Nat
      /\ k \in DOMAIN body /\ k \in DOMAIN scopes
      /\ VisitIf(s) \/ VisitElseIf(s) \/ VisitClose(s) \/ VisitParse(s) \/ VisitBind(s)
  BY <1>1, WrittenIs DEF QueryInv, Visit
<1>3. /\ Followed(open, scopes[k]) /\ DOMAIN found = BodyKeys
      /\ (\A var \in QueryVar : OneMeaning(var)) => TypesRead(found, k - 1)
  BY <1>1, <1>2, WalkIs
<1>4. PICK levels, scoped : levels = open /\ scoped = scopes[k]
  OBVIOUS
<1>5. /\ Followed(levels, scopes[k]) /\ Len(levels) \in Nat /\ Len(levels) >= 1
      /\ DOMAIN levels = 1 .. Len(levels) /\ \A i \in DOMAIN levels : GoodLevel(levels[i])
  BY <1>2, <1>3, <1>4, LevelsAre
<1>6. Last(levels) = levels[Len(levels)] /\ Last(open) = Last(levels)
  BY <1>4 DEF Last
<1>7. PICK became, types : became = open' /\ types = found'
  OBVIOUS
<1> DEFINE Goal == /\ Followed(became, scopes[k + 1]) /\ DOMAIN types = BodyKeys
                   /\ (\A var \in QueryVar : OneMeaning(var)) => TypesRead(types, k)
<1>8. ASSUME s.op # "parse", found' = found
      PROVE  /\ DOMAIN types = BodyKeys
             /\ (\A var \in QueryVar : OneMeaning(var)) => TypesRead(types, k)
  <2>1. PICK earlier : earlier = found
    OBVIOUS
  <2>2. types = earlier
    BY <1>7, <1>8, <2>1
  <2>3. TypesRead(earlier, k - 1) => TypesRead(earlier, k)
    BY <1>1, <1>2, <1>8, NotParsed
  <2>4. QED
    BY <1>3, <2>1, <2>2, <2>3
<1>9. ASSUME VisitIf(s) PROVE Goal
  <2>1. s.op = "if" /\ found' = found
        /\ became = Append(levels, [map |-> OpenIf(Last(levels).map, s), own |-> TRUE])
    BY <1>4, <1>7, <1>9 DEF VisitIf
  <2>2. Followed(became, scopes[k + 1])
    BY <1>1, <1>2, <1>5, <2>1, IfFollows
  <2>3. QED
    BY <1>8, <2>1, <2>2
<1>10. ASSUME VisitElseIf(s) PROVE Goal
  <2>1. /\ s.op = "elseif" /\ found' = found
        /\ became = [levels EXCEPT ![Len(levels)] = ElseOf(levels[Len(levels)], s)]
    BY <1>4, <1>7, <1>10 DEF VisitElseIf, ElseOf
  <2>2. Followed(became, scopes[k + 1])
    BY <1>1, <1>2, <1>5, <2>1, ElseIfFollows
  <2>3. QED
    BY <1>8, <2>1, <2>2
<1>11. ASSUME VisitClose(s) PROVE Goal
  <2>1. /\ s.op = "close" /\ found' = found
        /\ became = SubSeq(levels, 1, Len(levels) - 1)
    BY <1>4, <1>7, <1>11 DEF VisitClose
  <2>2. Followed(became, scopes[k + 1])
    BY <1>1, <1>2, <1>5, <2>1, CloseFollows
  <2>3. QED
    BY <1>8, <2>1, <2>2
<1>12. ASSUME VisitBind(s) PROVE Goal
  <2>1. s.op = "bind" /\ found' = found /\ became = levels
    BY <1>4, <1>7, <1>12 DEF VisitBind
  <2>2. Followed(levels, scopes[k + 1])
    BY <1>1, <1>2, <1>5, <2>1, BindFollows
  <2>3. QED
    BY <1>8, <2>1, <2>2
<1>13. ASSUME VisitParse(s) PROVE Goal
  <2>1. PICK level, map, param : level = levels[Len(levels)] /\ map = level.map
                                 /\ param = ParamOf(map, s)
    OBVIOUS
  <2>2. PICK earlier : earlier = found
    OBVIOUS
  <2>3. /\ s.op = "parse" /\ became = levels
        /\ types = IF param = NoKey THEN earlier ELSE Put(earlier, param, s.kind)
    BY <1>4, <1>6, <1>7, <1>13, <2>1, <2>2 DEF VisitParse
  <2>4. Followed(levels, scopes[k + 1])
    BY <1>1, <1>2, <1>5, <2>3, ParseFollows
  <2>5. param \in BodyKeys \cup {NoKey}
    BY <1>1, <1>2, <1>5, <2>1, ParamIsKey
  <2>6. NoKey \notin BodyKeys /\ DOMAIN earlier = BodyKeys
    BY <1>3, <2>2 DEF BodyKeys
  <2>7. DOMAIN types = BodyKeys
    BY <2>3, <2>5, <2>6 DEF Put
  <2>8. ASSUME \A var \in QueryVar : OneMeaning(var) PROVE TypesRead(types, k)
    <3>1. param = ReadAt(k)
      BY <1>1, <1>2, <1>5, <2>1, <2>3, <2>8, ParamIsRead
    <3>2. TypesRead(earlier, k - 1) /\ body[k].op = "parse" /\ body[k].kind = s.kind
      BY <1>1, <1>3, <2>2, <2>3, <2>8
    <3>3. CASE param = NoKey
      <4>1. ReadAt(k) \notin DOMAIN earlier /\ types = earlier
        BY <2>3, <2>6, <3>1, <3>3
      <4>2. QED
        BY <1>2, <3>2, <4>1, NotParsed
    <3>4. CASE param # NoKey
      <4>1. ReadAt(k) \in DOMAIN earlier /\ types = Put(earlier, ReadAt(k), body[k].kind)
        BY <2>3, <2>5, <2>6, <3>1, <3>2, <3>4
      <4>2. QED
        BY <1>2, <3>2, <4>1, OneParsed
    <3>5. QED
      BY <3>3, <3>4
  <2>9. QED
    BY <2>3, <2>4, <2>7, <2>8
<1>14. Goal
  BY <1>2, <1>9, <1>10, <1>11, <1>12, <1>13
<1>15. Followed(open, scopes[looked + 1])'
  <2>1. PICK scoped2 : scoped2 = scopes'[looked' + 1]
    OBVIOUS
  <2>2. Followed(became, scoped2)
    BY <1>2, <1>14, <2>1
  <2>3. Followed(became, scoped2)'
    BY <1>2, <2>2, SameBody
  <2>4. QED
    BY <1>7, <2>1, <2>3
<1>16. ((\A var \in QueryVar : OneMeaning(var)) => TypeRead(looked))'
  <2>1. ASSUME \A var \in QueryVar : OneMeaning(var)' PROVE TypeRead(looked)'
    <3>1. \A var \in QueryVar : OneMeaning(var)
      BY <1>2, <2>1, SameBody
    <3>2. TypesRead(types, k)'
      BY <1>2, <1>14, <3>1, SameBody
    <3>3. QED
      BY <1>2, <1>7, <3>2 DEF TypesRead, TypeRead
  <2>2. QED
    BY <2>1
<1>17. DOMAIN found' = BodyKeys' /\ Written'
  BY <1>2, <1>7, <1>14, SameBody
<1>18. looked' \in Nat /\ looked' <= Len(body')
  BY <1>1, <1>2
<1>19. QED
  BY <1>2, <1>15, <1>16, <1>17, <1>18 DEF QueryInv

LEMMA QueryRests ==
  ASSUME QueryInv, body' = body, scopes' = scopes, open' = open, looked' = looked, found' = found,
         \/ query' = query
         \/ query = "collected" /\ query' = "done" /\ looked = Len(body)
  PROVE  QueryInv'
<1>1. Written /\ Written'
  BY SameBody DEF QueryInv
<1>2. ASSUME query' # "writing"
      PROVE  /\ Followed(open, scopes[looked + 1])'
             /\ ((\A var \in QueryVar : OneMeaning(var)) => TypeRead(looked))'
             /\ DOMAIN found' = BodyKeys'
  <2>1. query # "writing"
    BY <1>2
  <2>2. PICK levels, scoped, types, n :
          levels = open /\ scoped = scopes[looked + 1] /\ types = found /\ n = looked
    OBVIOUS
  <2>3. /\ Followed(levels, scoped) /\ DOMAIN found = BodyKeys
        /\ (\A var \in QueryVar : OneMeaning(var)) => TypesRead(types, n)
    BY <2>1, <2>2, WalkIs
  <2>4. Followed(levels, scoped)'
    BY <2>3, SameBody
  <2>5. Followed(open, scopes[looked + 1])'
    BY <2>2, <2>4
  <2>6. ASSUME \A var \in QueryVar : OneMeaning(var)' PROVE TypeRead(looked)'
    <3>1. \A var \in QueryVar : OneMeaning(var)
      BY <2>6, SameBody
    <3>2. TypesRead(types, n)'
      BY <2>3, <3>1, SameBody
    <3>3. QED
      BY <2>2, <3>2 DEF TypesRead, TypeRead
  <2>7. QED
    BY <2>3, <2>5, <2>6, SameBody
<1>3. query' \in {"writing", "collected", "done"} /\ looked' \in Nat /\ looked' <= Len(body')
      /\ (query' = "writing" => looked' = 0) /\ (query' = "done" => looked' = Len(body'))
  BY DEF QueryInv
<1>4. QED
  BY <1>1, <1>2, <1>3 DEF QueryInv

LEMMA QueryStep ==
  ASSUME QueryInv, [QueryNext]_queryVars
  PROVE  QueryInv'
<1>1. Written
  BY DEF QueryInv
<1>2. ASSUME NEW var \in QueryVar, NEW key \in Keys \cup {NoKey}, NEW declares \in BOOLEAN,
             Bind(var, key, declares)
      PROVE  QueryInv'
  <2>1. Written'
    BY <1>1, <1>2, BindKeeps
  <2>2. PICK statement, after : WriteLine(statement, after)
    BY <1>2 DEF Bind
  <2>3. QED
    BY <2>1, <2>2, WritingStep
<1>3. ASSUME NEW var \in QueryVar, NEW key \in Keys \cup {NoKey}, If(var, key)
      PROVE  QueryInv'
  <2>1. Written'
    BY <1>1, <1>3, IfKeeps
  <2>2. PICK statement, after : WriteLine(statement, after)
    BY <1>3 DEF If
  <2>3. QED
    BY <2>1, <2>2, WritingStep
<1>4. ASSUME NEW var \in QueryVar, NEW key \in Keys \cup {NoKey}, ElseIf(var, key)
      PROVE  QueryInv'
  <2>1. Written'
    BY <1>1, <1>4, ElseIfKeeps
  <2>2. PICK statement, after : WriteLine(statement, after)
    BY <1>4 DEF ElseIf
  <2>3. QED
    BY <2>1, <2>2, WritingStep
<1>5. ASSUME NEW var \in QueryVar, NEW kind \in Kinds, Parse(var, kind)
      PROVE  QueryInv'
  <2>1. Written'
    BY <1>1, <1>5, ParseKeeps DEF Parse
  <2>2. PICK statement, after : WriteLine(statement, after)
    BY <1>5 DEF Parse
  <2>3. QED
    BY <2>1, <2>2, WritingStep
<1>6. ASSUME NEW key \in Keys, NEW kind \in Kinds, ParseDirectly(key, kind)
      PROVE  QueryInv'
  <2>1. key # NoKey
    BY QueryDocsAssumption DEF QueryDocsAssumption
  <2>2. Written'
    BY <1>1, <1>6, <2>1, ParseKeeps DEF ParseDirectly
  <2>3. PICK statement, after : WriteLine(statement, after)
    BY <1>6 DEF ParseDirectly
  <2>4. QED
    BY <2>2, <2>3, WritingStep
<1>7. ASSUME CloseIf PROVE QueryInv'
  <2>1. Written'
    BY <1>1, <1>7, CloseIfKeeps
  <2>2. PICK statement, after : WriteLine(statement, after)
    BY <1>7 DEF CloseIf
  <2>3. QED
    BY <2>1, <2>2, WritingStep
<1>8. ASSUME Convert PROVE QueryInv'
  BY <1>8, QueryRests DEF Convert
<1>9. ASSUME UNCHANGED queryVars PROVE QueryInv'
  BY <1>9, QueryRests DEF queryVars
<1>10. QED
  BY <1>2, <1>3, <1>4, <1>5, <1>6, <1>7, <1>8, <1>9, CollectStep, VisitStep DEF QueryNext

LEMMA TypesFollow ==
  ASSUME QueryInv
  PROVE  QueryTypesFollowReads
<1>1. ASSUME query = "done", \A var \in QueryVar : OneMeaning(var)
      PROVE  DOMAIN found = ReadKeys /\ TypeRead(Len(body))
  <2>1. /\ DOMAIN found = BodyKeys /\ TypeRead(looked) /\ looked = Len(body) /\ Written
    BY <1>1 DEF QueryInv
  <2>2. QED
    BY <2>1, KeysAreRead
<1>2. QED
  BY <1>1 DEF QueryTypesFollowReads

LEMMA AlwaysQueryInv == MakeGenSpec => []QueryInv
<1>1. MakeGenInit => QueryInv
  BY QueryBegins DEF MakeGenInit
<1>2. ASSUME QueryInv, [MakeGenNext]_makeGenVars PROVE QueryInv'
  <2>1. [QueryNext]_queryVars
    BY <1>2 DEF MakeGenNext, makeGenVars, Files, Wiring, Routes, Query, Handlers, Ended
  <2>2. QED
    BY <1>2, <2>1, QueryStep
<1>3. QED
  BY <1>1, <1>2, PTL DEF MakeGenSpec

(***************************************************************************)
(* For any query parameters, variables, kinds and length of the handler:   *)
(* when every variable of it has one meaning, the document has exactly the *)
(* parameters the handler reads, each of a type it is parsed as.           *)
(***************************************************************************)
THEOREM QueryTypesAreRight == MakeGenSpec => []QueryTypesFollowReads
<1>1. QED
  BY TypesFollow, AlwaysQueryInv, PTL
=============================================================================
