------------------------- MODULE BootEncryptionSetup -------------------------
(***************************************************************************)
(* The setup thread of Driver/DriveFilter.c, which encrypts or decrypts    *)
(* the system drive block by block while it is in use.  For each block it  *)
(* holds the drive's I/O queue, transforms the block on the device, moves  *)
(* the end of the encrypted area and lets the queue go on; from time to    *)
(* time it saves the end in the volume header on the drive, which is all   *)
(* that a restart knows of it.                                             *)
(*                                                                         *)
(* The device controls that start and abort it run under                   *)
(* RootDeviceControlMutex, which the thread itself takes to dismount.      *)
(*                                                                         *)
(* Assumptions: the request asks neither to zero nor to discard unreadable *)
(* sectors; the drive is not that of a hidden system (Start refuses it).   *)
(***************************************************************************)
EXTENDS EncryptedIoQueue

CONSTANTS ConfiguredStart, ConfiguredEnd, \* the area to encrypt in the end
          BlockSize,        \* TC_ENCRYPTION_SETUP_IO_BLOCK_SIZE, in sectors
          HeaderThreshold,  \* TC_ENCRYPTION_SETUP_HEADER_UPDATE_THRESHOLD
          WipePasses,       \* of the request's wipe algorithm, 0 for none
          Modes,            \* what may be asked for: "encrypt", "decrypt"
          MaxControls       \* bound: device controls in all

ASSUME SetupAssumption ==
  /\ ConfiguredStart \in Nat /\ ConfiguredEnd \in Nat
  /\ ConfiguredStart <= ConfiguredEnd
  /\ ConfiguredStart..ConfiguredEnd \subseteq Sectors
  /\ BlockSize \in Nat \ {0} /\ HeaderThreshold \in Nat \ {0}
  /\ WipePasses \in Nat /\ MaxControls \in Nat
  /\ Modes \subseteq {"encrypt", "decrypt"}

(* The encrypted area that MountDrive takes from the header begins where   *)
(* the configured one does, or there is none (DriveFilter.c:560-570).      *)
ASSUME MountAssumption ==
  \A a \in Areas : \/ a[1] = -1 /\ a[2] = -1
                   \/ a[1] = ConfiguredStart /\ a[2] \in ConfiguredStart..ConfiguredEnd

VARIABLES
  setup,                           \* where the setup thread is
  mode, result,                    \* SetupMode of the request; SetupResult
  resumable,                       \* history: whether the drive could be left alone
                                   \* when the setup was started
  offset, blockLen, pass, buffer,  \* its locals
  headerUpdateRequired, sinceUpdate,
  configured,                      \* whether there is still an area to encrypt
  header,                          \* EncryptedAreaLength on the drive, -1 if wiped
  mounted,                         \* DriveMounted: the keys are there
  control, controls,               \* the device control under way; how many so far
  rootMutex,                       \* RootDeviceControlMutex: its owner
  abortRequested, thread,          \* ...AbortRequested; EncryptionSetupThread # NULL
  setupInProgress

requestVars == <<mode, resumable>>
localVars == <<offset, blockLen, pass, buffer, headerUpdateRequired, sinceUpdate>>
driveVars == <<configured, header, mounted>>
controlVars == <<control, controls, rootMutex, abortRequested, thread, setupInProgress>>
setupVars == <<setup, requestVars, result, localVars, driveVars, controlVars>>
allVars == <<vars, setupVars>>

HeaderOf(start, end) == IF start = -1 \/ end = -1 THEN 0 ELSE end + 1 - start

(* What the header on the drive says is encrypted, and the sectors that a  *)
(* restart which believes it would not be able to read.                    *)
HeaderArea == ConfiguredStart..ConfiguredStart + header - 1
LostByRestart ==
  {s \in Sectors : disk[s][2] # IF s \in HeaderArea THEN s ELSE Plain}

(* The drive can be left alone: a restart finds every sector readable and  *)
(* the boundary where it was.                                              *)
Resumable == LostByRestart = {} /\ HeaderArea = Area

(* The drive as MountDrive leaves it.                                      *)
SetupInit ==
  /\ Init /\ ~remap /\ ~hostVolume
  /\ setup = "off" /\ mode = "encrypt" /\ result = "ok" /\ resumable = TRUE
  /\ offset = 0 /\ blockLen = 0 /\ pass = 0 /\ buffer = Empty
  /\ headerUpdateRequired = FALSE /\ sinceUpdate = 0
  /\ configured = TRUE /\ header = HeaderOf(areaStart, areaEnd) /\ mounted = TRUE
  /\ control = "idle" /\ controls = 0 /\ rootMutex = "nobody"
  /\ abortRequested = FALSE /\ thread = FALSE /\ setupInProgress = FALSE

-----------------------------------------------------------------------------
(* The setup thread.                                                       *)

(* It is not inside one of the queue's functions.                          *)
Step(from, to) == setup = from /\ hold \in {"idle", "held"} /\ setup' = to

(* What a step leaves alone: the queue but for the encrypted area and the  *)
(* device, and the device controls.                                        *)
Apart == UNCHANGED <<workVars, countVars, holdVars, stopVars, remap, keyVars, volumeVars,
                     controlVars>>

(* EncryptedIoQueueHoldWhenIdle, ...ResumeFromHold: see EncryptedIoQueue.  *)
CallHold(from, to) ==
  /\ Step(from, to)
  /\ HoldEnter
  /\ UNCHANGED <<requestVars, result, localVars, driveVars, controlVars>>

Held(from, to) ==
  /\ Step(from, to)
  /\ hold = "held"
  /\ UNCHANGED <<vars, requestVars, result, localVars, driveVars, controlVars>>

(* The hold has failed: again, unless it is time to stop.                  *)
NotHeld(from, again) ==
  /\ hold = "idle"
  /\ \/ Step(from, again) /\ ~abortRequested /\ UNCHANGED result
     \/ Step(from, "end") /\ abortRequested /\ result' = "ok"
  /\ UNCHANGED <<vars, requestVars, localVars, driveVars, controlVars>>

Release(from, to) ==
  /\ Step(from, to)
  /\ ResumeFromHold
  /\ UNCHANGED <<requestVars, result, localVars, driveVars, controlVars>>

BeginEncryption ==
  /\ mode = "encrypt"
  /\ IF areaStart = -1 \/ areaEnd = -1
     THEN /\ Step("begin", "resumeBegun")
          /\ areaStart' = ConfiguredStart /\ areaEnd' = -1
          /\ offset' = ConfiguredStart
     ELSE /\ Step("begin", IF areaEnd = ConfiguredEnd THEN "end" ELSE "resumeBegun")
          /\ offset' = areaEnd + 1
          /\ UNCHANGED <<areaStart, areaEnd>>
  /\ UNCHANGED <<result, requestVars, blockLen, pass, buffer, headerUpdateRequired, sinceUpdate,
                 driveVars>>
  /\ Apart

BeginDecryption ==
  /\ mode = "decrypt"
  /\ IF areaStart = -1 \/ areaEnd = -1
     THEN Step("begin", "end") /\ result' = "ok" /\ UNCHANGED offset
     ELSE Step("begin", "resumeBegun") /\ offset' = areaEnd + 1 /\ UNCHANGED result
  /\ UNCHANGED <<areaStart, areaEnd, requestVars, blockLen, pass, buffer, headerUpdateRequired,
                 sinceUpdate, driveVars>>
  /\ Apart

Smaller(m, n) == IF m < n THEN m ELSE n

(* Mutant of NextLen: a block is never cut to size.                        *)
WholeBlock == blockLen

NextLen == Smaller(blockLen, IF mode = "encrypt" THEN ConfiguredEnd + 1 - offset
                             ELSE offset - areaStart)

(* The next block, the last one cut to size; none is left or an abort was  *)
(* requested: success.  Decryption goes backwards.                         *)
NextBlock ==
  LET len == NextLen IN
  /\ IF abortRequested
     THEN Step("loop", "end") /\ result' = "ok" /\ UNCHANGED <<blockLen, offset>>
     ELSE /\ blockLen' = len
          /\ offset' = IF mode = "encrypt" THEN offset ELSE offset - len
          /\ IF len = 0 THEN Step("loop", "end") /\ result' = "ok"
             ELSE Step("loop", "hold") /\ UNCHANGED result
  /\ UNCHANGED <<areaStart, areaEnd, requestVars, pass, buffer, headerUpdateRequired, sinceUpdate,
                 driveVars>>
  /\ Apart

SetupBlock == Span(offset, blockLen)

Transformed(c, s) == IF mode = "encrypt" THEN Encrypt(c, s) ELSE Decrypt(c, s)
Undone(c, s) == IF mode = "encrypt" THEN Decrypt(c, s) ELSE Encrypt(c, s)

(* Apart, for the steps that use the device.                               *)
ApartFromDisk == UNCHANGED <<irpVars, queueVars, poolVars, pc, handVars, pipeVars, moved, seen,
                             countVars, holdVars, stopVars, envVars, controlVars>>

ReadBlock ==
  /\ \/ /\ Step("read", IF mode = "encrypt" /\ WipePasses > 0 THEN "wipe" ELSE "write")
        /\ buffer' = [s \in SetupBlock |-> Transformed(disk[s], s)]
        /\ pass' = 1
        /\ UNCHANGED <<failures, result>>
     \/ /\ Step("read", "end")
        /\ MayFail /\ failures' = failures + 1 /\ result' = "failed"
        /\ UNCHANGED <<pass, buffer>>
  /\ UNCHANGED <<disk, requestVars, offset, blockLen, headerUpdateRequired, sinceUpdate, driveVars>>
  /\ ApartFromDisk

(* One write of the block to the device; a failed one may have written any *)
(* part of it.                                                             *)
Put(f, from, to, otherwise) ==
  \/ /\ Step(from, to)
     /\ disk' = Merge(disk, f)
     /\ UNCHANGED failures
  \/ /\ Step(from, otherwise)
     /\ MayFail /\ failures' = failures + 1
     /\ \E S \in SUBSET DOMAIN f : disk' = Merge(disk, [s \in S |-> f[s]])

(* A wipe pass writes over the old content.                                *)
WipeBlock ==
  /\ Put([s \in SetupBlock |-> Garbage], "wipe", IF pass < WipePasses THEN "wipe" ELSE "write", "undo")
  /\ pass' = pass + 1
  /\ UNCHANGED <<requestVars, result, offset, blockLen, buffer, headerUpdateRequired, sinceUpdate,
                 driveVars>>
  /\ ApartFromDisk

WriteBlock ==
  /\ Put(buffer, "write", "move", "undo")
  /\ UNCHANGED <<requestVars, result, localVars, driveVars>>
  /\ ApartFromDisk

(* Mutant of UndoContent: the buffer goes back as it is.                   *)
UndoAsIs == buffer

UndoContent == [s \in SetupBlock |-> Undone(buffer[s], s)]

(* Undo failed write operation; nobody looks whether that succeeds.        *)
UndoBlock ==
  /\ Put(UndoContent, "undo", "end", "end")
  /\ result' = "failed"
  /\ UNCHANGED <<requestVars, localVars, driveVars>>
  /\ ApartFromDisk

(* Mutant of NextOffset: the position stays where it is.                   *)
OffsetKept == offset

NextOffset == IF mode = "encrypt" THEN offset + blockLen ELSE offset

(* The block now belongs to the other side of the boundary.                *)
MoveAreaEnd ==
  /\ Step("move", "resumeBlock")
  /\ offset' = NextOffset
  /\ areaEnd' = offset' - 1
  /\ headerUpdateRequired' = TRUE
  /\ UNCHANGED <<areaStart, requestVars, result, blockLen, pass, buffer, sinceUpdate, driveVars>>
  /\ Apart

(* Mutant of Due: the header is only saved at the end.                     *)
NeverDue(n) == FALSE

Due(n) == n >= HeaderThreshold

CountWritten ==
  /\ Step("written", IF Due(sinceUpdate + blockLen) THEN "save" ELSE "loop")
  /\ hold = "idle"
  /\ sinceUpdate' = sinceUpdate + blockLen
  /\ UNCHANGED <<areaStart, areaEnd, requestVars, result, offset, blockLen, pass, buffer,
                 headerUpdateRequired, driveVars>>
  /\ Apart

(* SaveDriveVolumeHeader: reads the header, which only this thread writes, *)
(* and writes it back.  An empty area leaves it as it is or, at the end of *)
(* a decryption, wipes it.                                                 *)
NewHeader == IF Area # {} THEN areaEnd + 1 - areaStart
             ELSE IF mode = "decrypt" THEN -1 ELSE header

SaveHeader(from, to, Succeeded, Failed) ==
  /\ Step(from, to)
  /\ \/ header' = NewHeader /\ Succeeded /\ UNCHANGED failures
     \/ /\ MayFail /\ failures' = failures + 1
        /\ header' \in {header, NewHeader}
        /\ Failed
  /\ UNCHANGED <<disk, requestVars, offset, blockLen, pass, buffer, configured, mounted>>
  /\ ApartFromDisk

SaveProgress ==
  /\ SaveHeader("save", "loop",
                headerUpdateRequired' = FALSE /\ sinceUpdate' = 0,
                UNCHANGED <<headerUpdateRequired, sinceUpdate>>)
  /\ UNCHANGED result

(* The label err; a thread that comes from the loop does not hold the      *)
(* queue.                                                                  *)
EndOfLoop ==
  /\ Step("end", IF suspended THEN "resumeEnd" ELSE "ended")
  /\ areaStart' = IF areaEnd = -1 THEN -1 ELSE areaStart
  /\ UNCHANGED <<areaEnd, requestVars, result, localVars, driveVars>>
  /\ Apart

(* A decryption that left nothing encrypted has more to do.                *)
Decrypted == mode = "decrypt" /\ Area = {}

TestDecrypted ==
  /\ Step("ended", IF Decrypted THEN "holdLast" ELSE "saveLast")
  /\ hold = "idle"
  /\ UNCHANGED <<vars, requestVars, result, localVars, driveVars, controlVars>>

HoldLastFailed ==
  /\ Step("holdingLast", "holdLast")
  /\ hold = "idle"
  /\ UNCHANGED <<vars, requestVars, result, localVars, driveVars, controlVars>>

ClearArea ==
  /\ Step("clear", "resumeLast")
  /\ configured' = FALSE
  /\ areaStart' = -1 /\ areaEnd' = -1
  /\ headerUpdateRequired' = TRUE
  /\ UNCHANGED <<requestVars, result, offset, blockLen, pass, buffer, sinceUpdate, header, mounted>>
  /\ Apart

(* Mutant of LastSaveFailed: nobody looks whether the last save succeeds.  *)
LastSaveIgnored == UNCHANGED result

LastSaveFailed == result' = "failed"

SaveLast ==
  \/ /\ headerUpdateRequired /\ hold = "idle"
     /\ SaveHeader("saveLast", "saved", UNCHANGED result, LastSaveFailed)
     /\ UNCHANGED <<headerUpdateRequired, sinceUpdate>>
  \/ /\ ~headerUpdateRequired
     /\ Step("saveLast", "saved")
     /\ UNCHANGED <<vars, requestVars, result, localVars, driveVars, controlVars>>

(* Mutant of NoLongerNeeded: any decryption ends with a dismount.          *)
DecryptionOver == mode = "decrypt" /\ mounted

NoLongerNeeded == mode = "decrypt" /\ ~configured /\ mounted

TestConfigured ==
  /\ Step("saved", IF NoLongerNeeded THEN "mutex" ELSE "exit")
  /\ UNCHANGED <<vars, requestVars, result, localVars, driveVars, controlVars>>

(* Mutant of GivesUp: the thread insists on the mutex.                     *)
Insists == FALSE

GivesUp == abortRequested

(* Try the mutex, give up if an abort was requested, else try again.       *)
TryRootMutex ==
  /\ Step("mutex", "dismount")
  /\ IF rootMutex = "nobody" THEN rootMutex' = "setup"
     ELSE GivesUp /\ UNCHANGED rootMutex
  /\ UNCHANGED <<vars, requestVars, result, localVars, driveVars, control, controls,
                 abortRequested, thread, setupInProgress>>

(* DismountDrive: the keys are freed, the queue runs on.                   *)
DismountDrive ==
  /\ Step("dismount", "unlock")
  /\ mounted' = FALSE
  /\ UNCHANGED <<vars, requestVars, result, localVars, configured, header, controlVars>>

ReleaseRootMutex ==
  /\ Step("unlock", "exit")
  /\ rootMutex' = IF abortRequested THEN rootMutex ELSE "nobody"
  /\ UNCHANGED <<vars, requestVars, result, localVars, driveVars, control, controls,
                 abortRequested, thread, setupInProgress>>

Exit ==
  /\ Step("exit", "off")
  /\ setupInProgress' = FALSE
  /\ buffer' = Empty
  /\ UNCHANGED <<vars, requestVars, result, offset, blockLen, pass, headerUpdateRequired, sinceUpdate,
                 driveVars, control, controls, rootMutex, abortRequested, thread>>

SetupThreadProc ==
  \/ CallHold("holdBegin", "holdingBegin")
  \/ Held("holdingBegin", "begin") \/ NotHeld("holdingBegin", "holdBegin")
  \/ BeginEncryption \/ BeginDecryption \/ Release("resumeBegun", "loop")
  \/ NextBlock
  \/ CallHold("hold", "holding")
  \/ Held("holding", "read") \/ NotHeld("holding", "hold")
  \/ ReadBlock \/ WipeBlock \/ WriteBlock \/ UndoBlock \/ MoveAreaEnd
  \/ Release("resumeBlock", "written") \/ CountWritten \/ SaveProgress
  \/ EndOfLoop \/ Release("resumeEnd", "ended") \/ TestDecrypted
  \/ CallHold("holdLast", "holdingLast") \/ Held("holdingLast", "clear") \/ HoldLastFailed
  \/ ClearArea \/ Release("resumeLast", "saveLast") \/ SaveLast
  \/ TestConfigured \/ TryRootMutex \/ DismountDrive \/ ReleaseRootMutex \/ Exit

-----------------------------------------------------------------------------
(* The device controls, one at a time under RootDeviceControlMutex.        *)

CGoto(from, to) == control = from /\ control' = to

(* What most of their steps leave alone.                                   *)
OnlyControls == UNCHANGED <<vars, setup, requestVars, result, localVars, driveVars, controls>>

EnterControl(kind) ==
  /\ CGoto("idle", kind)
  /\ rootMutex = "nobody" /\ rootMutex' = "control"
  /\ controls < MaxControls /\ controls' = controls + 1
  /\ UNCHANGED <<vars, setup, requestVars, result, localVars, driveVars, abortRequested, thread,
                 setupInProgress>>

LeaveControl ==
  /\ CGoto("leave", "idle")
  /\ rootMutex' = "nobody"
  /\ OnlyControls /\ UNCHANGED <<abortRequested, thread, setupInProgress>>

Startable == ~setupInProgress /\ mounted

RefuseStart ==
  /\ CGoto("start", "leave")
  /\ ~Startable
  /\ OnlyControls /\ UNCHANGED <<rootMutex, abortRequested, thread, setupInProgress>>

(* AbortBootEncryptionSetup, called for itself or by Start to be rid of a  *)
(* thread that has nothing more to do.                                     *)
Abort(from, join, to) ==
  /\ CGoto(from, IF thread THEN join ELSE to)
  /\ from = "start" => Startable
  /\ abortRequested' = (abortRequested \/ thread)
  /\ OnlyControls /\ UNCHANGED <<rootMutex, thread, setupInProgress>>

Join(from, to) ==
  /\ CGoto(from, to)
  /\ setup = "off"
  /\ thread' = FALSE
  /\ OnlyControls /\ UNCHANGED <<rootMutex, abortRequested, setupInProgress>>

(* Mutant of AbortAtStart: an earlier request to abort is not forgotten.   *)
AbortKept == abortRequested

AbortAtStart == FALSE

StartThread(m) ==
  /\ CGoto("launch", "leave")
  /\ mode' = m /\ resumable' = Resumable
  /\ abortRequested' = AbortAtStart /\ setupInProgress' = TRUE /\ thread' = TRUE
  /\ setup' = "holdBegin" /\ result' = "failed"
  /\ offset' = 0 /\ blockLen' = BlockSize /\ pass' = 0 /\ buffer' = Empty
  /\ headerUpdateRequired' = FALSE /\ sinceUpdate' = 0
  /\ UNCHANGED <<vars, driveVars, controls, rootMutex>>

DeviceControl ==
  \/ RefuseStart
  \/ Abort("start", "joinStart", "launch") \/ Join("joinStart", "launch")
  \/ \E m \in Modes : StartThread(m)
  \/ Abort("abort", "joinAbort", "leave") \/ Join("joinAbort", "leave")
  \/ LeaveControl

SetupNext ==
  \/ QueueNext /\ UNCHANGED setupVars
  \/ SetupThreadProc
  \/ EnterControl("start") \/ EnterControl("abort") \/ DeviceControl

(* The queue's threads, the setup thread and the device controls run when  *)
(* they can; no control is ever due.                                       *)
SetupFairness ==
  /\ \A i \in Irps : WF_vars(Requestor(i))
  /\ WF_vars(Main) /\ WF_vars(Io) /\ WF_vars(Completion) /\ WF_vars(Holder)
  /\ WF_allVars(SetupThreadProc) /\ WF_allVars(DeviceControl)

SetupSpec == SetupInit /\ [][SetupNext]_allVars /\ SetupFairness

-----------------------------------------------------------------------------
(* Properties.                                                             *)

(* The boundary and the thread's position stay within the configured area, *)
(* and what the thread is about to write is right next to the boundary.    *)
SetupTypeOK ==
  /\ setup # "off" => setupInProgress /\ thread
  /\ areaStart \in {-1, ConfiguredStart} /\ areaEnd \in -1..ConfiguredEnd
  /\ header \in -1..ConfiguredEnd + 1 - ConfiguredStart
  /\ rootMutex \in {"nobody", "control", "setup"}
  /\ setup \in {"read", "wipe", "write", "undo", "move"} =>
       /\ hold = "held"
       /\ blockLen \in 1..BlockSize
       /\ SetupBlock \subseteq ConfiguredStart..ConfiguredEnd
       /\ IF mode = "encrypt"
          THEN offset = IF areaEnd = -1 THEN ConfiguredStart ELSE areaEnd + 1
          ELSE offset + blockLen = areaEnd + 1

(* While the boundary moves over the drive, the file system sees the same  *)
(* disk of plain sectors as ever.  The plain content of the block being    *)
(* transformed is in the thread's buffer.                                  *)
InTransit == IF setup \in {"wipe", "write", "undo", "move"} THEN SetupBlock ELSE {}
SetupPlain(s) == IF s \in InTransit THEN buffer[s][1] ELSE PlainContent(s)[1]
BelowSetup == INSTANCE PlainDisk WITH plain <- [s \in Sectors |-> SetupPlain(s)],
                                      irp <- [i \in Irps |-> PlainIrp(i)]
SetupImplementsPlainDisk == BelowSetup!Spec

(* A power failure at any moment costs at most what was written since the  *)
(* header was last due, and the block under way (no device errors, and the *)
(* keys have not been erased).                                             *)
LossBounded ==
  failures = 0 /\ ~keysErased =>
    Cardinality(LostByRestart) <= HeaderThreshold - 1 + BlockSize

(* A setup that ends or is aborted, and says it was successful, can be     *)
(* left alone, whatever errors it met, if that was so when it started.     *)
(* (One that fails to save the header at its end says so; but the next one *)
(* knows nothing of it and may be aborted successfully at once.)           *)
CanBeResumed ==
  setup = "off" /\ result = "ok" /\ resumable /\ ~keysErased => Resumable

(* When the keys are freed with the queue running, nothing that is under   *)
(* way or will come needs them.                                            *)
UsesKeys == {"buffer", "queue", "device", "done", "post", "postAhead"}

KeysNotNeeded ==
  ~mounted =>
    /\ Area = {}
    /\ \A t \in Threads : pc[t] \in UsesKeys => req[t].enc = {}
    /\ \A t \in {"io", "completion"} : \A n \in DOMAIN queue[t] : queue[t][n].enc = {}

(* The thread does not end as the owner of the mutex (which would crash    *)
(* the system), although it releases it only if no abort was requested.    *)
MutexReturned == setup = "off" => rootMutex # "setup"

(* Whoever waits for the thread to end, holding the mutex the thread may   *)
(* want, is answered; so is every IRP.                                     *)
ControlsReturn == control # "idle" ~> control = "idle"

(* A setup nobody aborts comes to its end by itself.                       *)
SetupEnds == setup # "off" ~> setup = "off"
=============================================================================
