-------------------------- MODULE VolumeHeaderTools --------------------------
(***************************************************************************)
(* The tools that rewrite the headers of a volume, between the jobs of     *)
(* InPlaceEncryption on the same partition: ChangePwd of Common/Password.c *)
(* copies the primary header, with a new password, over both; restoring    *)
(* from the embedded backup (RestoreVolumeHeader, Mount/Mount.c) copies    *)
(* the backup header over the primary.  Neither looks whether an in-place  *)
(* job is incomplete.                                                      *)
(*                                                                         *)
(* Each may fail or crash between or in its writes.  The many passes of    *)
(* ChangePwd differ only in the salt and are one write here.               *)
(***************************************************************************)
EXTENDS InPlaceEncryption

VARIABLES tool,   \* where ChangePwd or RestoreVolumeHeader is
          copy    \* the header it writes

toolVars == <<tool, copy>>
allVars == <<vars, toolVars>>

ToolsInit == Init /\ tool = "none" /\ copy = NoHeader

InPlaceStep(A) == tool = "none" /\ A /\ UNCHANGED toolVars

RunTool(name, header) ==
  /\ pc = "idle" /\ tool = "none" /\ jobs < MaxJobs
  /\ tool' = name /\ copy' = header
  /\ jobs' = jobs + 1
  /\ UNCHANGED <<deviceVars, pending, pc, jobVars, result, faults, crashed, lost, toggled>>

(* The primary header opens with the old password.                         *)
ChangePwd(w, new) ==
  /\ primary # NoHeader /\ primary.password = w
  /\ RunTool("primary", Header(primary, new))

(* Nobody restores a header while a job is incomplete: what the primary    *)
(* header would overwrite is then part of the file system.                 *)
RestoreVolumeHeader(w) ==
  /\ backup # NoHeader /\ backup.password = w /\ backup.length = DataSize
  /\ RunTool("restore", Header(backup, w))

(* The primary header; ChangePwd also fills the reserved blocks behind it  *)
(* (WriteRandomDataToReservedHeaderAreas).                                 *)
ToolBlocks == CASE tool = "restore" -> {0}
                [] tool = "primary" -> 0..Offset - 1
                [] OTHER -> {}

WriteTool(B, newBackup) ==
  /\ disk' = [b \in Blocks |-> IF b \in B THEN Garbage ELSE disk[b]]
  /\ primary' = IF 0 \in B THEN copy ELSE primary
  /\ backup' = newBackup

EndTool(report) ==
  /\ tool' = "none" /\ copy' = NoHeader
  /\ result' = report
  /\ lost' = lost \cup Wrong(disk', backup')
  /\ toggled' = (toggled \/ HalfConcealed(disk', backup'))

ChangePrimary ==
  /\ tool = "primary"
  /\ WriteTool(ToolBlocks, backup)
  /\ tool' = "backup"
  /\ UNCHANGED <<pending, pc, jobVars, historyVars, copy>>

FinishTool ==
  /\ tool \in {"backup", "restore"}
  /\ WriteTool(ToolBlocks, IF tool = "backup" THEN copy ELSE backup)
  /\ EndTool("success")
  /\ UNCHANGED <<pending, pc, jobVars, jobs, faults, crashed>>

(* An error ends the tool where it is; so does a crash.                    *)
StopTool(report) ==
  /\ tool # "none" /\ Fault
  /\ \E B \in SUBSET ToolBlocks, h \in {backup, IF tool = "backup" THEN copy ELSE backup} :
       WriteTool(B, h)
  /\ EndTool(report)
  /\ crashed' = (crashed \/ report = "crash")
  /\ UNCHANGED <<pending, pc, jobVars, jobs>>

UseTool == \E w \in Passwords : \/ \E new \in Passwords : ChangePwd(w, new)
                                \/ RestoreVolumeHeader(w)

ToolsNext ==
  \/ InPlaceStep(Next)
  \/ UseTool \/ ChangePrimary \/ FinishTool
  \/ \E report \in {"error", "crash"} : StopTool(report)

ToolsSpec == /\ ToolsInit /\ [][ToolsNext]_allVars
             /\ WF_allVars(InPlaceStep(Work))
             /\ WF_allVars(ChangePrimary \/ FinishTool)

-----------------------------------------------------------------------------
ToolsTypeOK == /\ TypeOK
               /\ tool \in {"none", "primary", "backup", "restore"} /\ copy \in Headers

(* The promise holds for the tools and the jobs together.                  *)
ToolsKept == INSTANCE KeptContent WITH
               kept <- Data \ lost, busy <- pc # "idle" \/ tool # "none",
               MaxLoss <- UpdateInterval - 1 + Chunk - Offset
ToolsKeepContent == ToolsKept!Spec

(* Whoever starts a job or a tool gets it over with.                       *)
EverythingEnds == pc # "idle" \/ tool # "none" ~> pc = "idle" /\ tool = "none"
=============================================================================
