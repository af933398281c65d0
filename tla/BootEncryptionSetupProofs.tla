---------------------- MODULE BootEncryptionSetupProofs -----------------------
(***************************************************************************)
(* Proofs about BootEncryptionSetup: the setup thread and the device       *)
(* controls on top of the queue.                                           *)
(*                                                                         *)
(* What is proved of the queue holds here too, since a step of the setup   *)
(* thread is a step of the queue or leaves it alone but for the encrypted  *)
(* area and the device; and while it moves either, it holds the queue.     *)
(***************************************************************************)
EXTENDS BootEncryptionSetup, EncryptedIoQueueReads

(* Where the setup thread can be: outside the loop over the blocks before  *)
(* it, in it with the boundary next to its position, in it with a block    *)
(* chosen, behind it, and behind the end of the boundary's moves.          *)
Before == {"off", "holdBegin", "holdingBegin", "begin"}
Between == {"resumeBegun", "loop", "resumeBlock", "written", "save"}
AtBlock == {"hold", "holding", "read", "wipe", "write", "undo", "move"}
Finishing == {"resumeEnd", "ended", "holdLast", "holdingLast", "clear"}
After == {"resumeLast", "saveLast", "saved", "mutex", "dismount", "unlock", "exit"}
InLoop == Between \cup AtBlock
SetupPcs == Before \cup InLoop \cup {"end"} \cup Finishing \cup After
ControlPcs == {"idle", "start", "abort", "joinStart", "joinAbort", "launch", "leave"}

(* The mutex, the flags and the threads: who owns the mutex, who waits for *)
(* whom.                                                                   *)
Controlled ==
  /\ setup \in SetupPcs /\ control \in ControlPcs
  /\ rootMutex \in {"nobody", "control", "setup"}
  /\ abortRequested \in BOOLEAN /\ thread \in BOOLEAN /\ setupInProgress \in BOOLEAN
  /\ mounted \in BOOLEAN /\ configured \in BOOLEAN
  /\ setup # "off" => setupInProgress /\ thread
  /\ (rootMutex = "control") <=> (control # "idle")
  /\ rootMutex = "setup" => setup \in {"dismount", "unlock"}
  /\ setup \in {"dismount", "unlock"} => ((rootMutex = "setup") <=> ~abortRequested)
  /\ abortRequested /\ setup # "off" => control \in {"joinStart", "joinAbort"}
  /\ control \in {"joinStart", "launch"} => setup = "off" /\ mounted /\ ~setupInProgress

(* While the thread uses the block or moves the area for good, it holds    *)
(* the queue.                                                              *)
Holding ==
  setup \in {"read", "wipe", "write", "undo", "move", "clear"} => hold = "held"

(* Where the boundary can be.                                              *)
Bounded ==
  /\ mode \in {"encrypt", "decrypt"}
  /\ areaStart \in {-1, ConfiguredStart}
  /\ \/ areaEnd = -1
     \/ areaEnd \in ConfiguredStart..ConfiguredEnd
     \/ /\ areaEnd = ConfiguredStart - 1 /\ mode = "decrypt"
        /\ setup \in InLoop \cup {"end"} \cup Finishing
  /\ areaStart = -1 => areaEnd = -1
  /\ setup \in InLoop => areaStart = ConfiguredStart
  /\ setup \notin InLoop \cup {"end"} => (areaStart = -1 <=> areaEnd = -1)
  /\ setup \in {"holdLast", "holdingLast", "clear"} => mode = "decrypt" /\ Area = {}

(* Where the thread is, next to the boundary.                              *)
Boundary == IF mode = "encrypt" /\ areaEnd = -1 THEN ConfiguredStart ELSE areaEnd + 1
Located ==
  /\ blockLen \in 0..BlockSize /\ offset \in Int
  /\ setup \in AtBlock \cup {"resumeBlock", "written"} => blockLen >= 1
  /\ setup \in Between => offset = Boundary /\ offset >= ConfiguredStart
  /\ setup \in AtBlock =>
       /\ offset >= ConfiguredStart /\ offset + blockLen <= ConfiguredEnd + 1
       /\ offset + (IF mode = "encrypt" THEN 0 ELSE blockLen) = Boundary

HeaderInRange == header \in -1..ConfiguredEnd + 1 - ConfiguredStart
-----------------------------------------------------------------------------
(* Every step is one of these.                                             *)
LEMMA SetupCases ==
  ASSUME [SetupNext]_allVars
  PROVE  \/ [QueueNext]_vars /\ UNCHANGED setupVars
         \/ SetupThreadProc
         \/ EnterControl("start") \/ EnterControl("abort") \/ DeviceControl
  BY DEF SetupNext, allVars

(* The steps of the setup thread that call the queue, those that look at   *)
(* what is there, those that change the area and those that use the        *)
(* device.                                                                 *)
Calls == \/ CallHold("holdBegin", "holdingBegin") \/ CallHold("hold", "holding")
         \/ CallHold("holdLast", "holdingLast")
Releases == \/ Release("resumeBegun", "loop") \/ Release("resumeBlock", "written")
            \/ Release("resumeEnd", "ended") \/ Release("resumeLast", "saveLast")
IsHeld == \/ Held("holdingBegin", "begin") \/ Held("holding", "read")
          \/ Held("holdingLast", "clear")
IsNotHeld == NotHeld("holdingBegin", "holdBegin") \/ NotHeld("holding", "hold")
NothingToSave == /\ ~headerUpdateRequired
                 /\ Step("saveLast", "saved")
                 /\ UNCHANGED <<vars, requestVars, result, localVars, driveVars, controlVars>>
SavesLast == /\ headerUpdateRequired /\ hold = "idle"
             /\ SaveHeader("saveLast", "saved", UNCHANGED result, LastSaveFailed)
             /\ UNCHANGED <<headerUpdateRequired, sinceUpdate>>
Looks == \/ IsHeld \/ IsNotHeld \/ TestDecrypted \/ HoldLastFailed \/ NothingToSave
         \/ TestConfigured \/ TryRootMutex \/ DismountDrive \/ ReleaseRootMutex \/ Exit
AreaSteps == \/ BeginEncryption \/ BeginDecryption \/ NextBlock \/ MoveAreaEnd \/ CountWritten
             \/ EndOfLoop \/ ClearArea
DiskSteps == ReadBlock \/ WipeBlock \/ WriteBlock \/ UndoBlock \/ SaveProgress \/ SavesLast

(* There are no others.                                                    *)
LEMMA ThreadCases == SetupThreadProc => Calls \/ Releases \/ Looks \/ AreaSteps \/ DiskSteps
  BY DEF SetupThreadProc, Calls, Releases, IsHeld, IsNotHeld, Looks, AreaSteps, DiskSteps,
     SaveLast, NothingToSave, SavesLast

(* What they leave alone.                                                  *)
LEMMA ThreadFrame ==
  /\ Calls => HoldEnter /\ UNCHANGED <<requestVars, result, localVars, driveVars, controlVars>>
  /\ Releases => ResumeFromHold /\ UNCHANGED <<requestVars, result, localVars, driveVars, controlVars>>
  /\ Looks => UNCHANGED <<vars, requestVars, configured, header, control, controls, abortRequested,
                          thread, offset, blockLen, pass, headerUpdateRequired, sinceUpdate>>
  /\ AreaSteps => Apart /\ UNCHANGED <<requestVars, header, mounted>>
  /\ DiskSteps => ApartFromDisk /\ UNCHANGED <<requestVars, offset, blockLen, configured, mounted>>
<1> USE DEF vars, requestVars, localVars, driveVars, controlVars
<1>1. Calls => HoldEnter /\ UNCHANGED <<requestVars, result, localVars, driveVars, controlVars>>
  BY DEF Calls, CallHold
<1>2. Releases => ResumeFromHold
                  /\ UNCHANGED <<requestVars, result, localVars, driveVars, controlVars>>
  BY DEF Releases, Release
<1>3. Looks => UNCHANGED <<vars, requestVars, configured, header, control, controls, abortRequested,
                          thread, offset, blockLen, pass, headerUpdateRequired, sinceUpdate>>
  BY DEF Looks, IsHeld, IsNotHeld, Held, NotHeld, TestDecrypted, HoldLastFailed, NothingToSave,
     TestConfigured, TryRootMutex, DismountDrive, ReleaseRootMutex, Exit
<1>4. AreaSteps => Apart /\ UNCHANGED <<requestVars, header, mounted>>
  BY DEF AreaSteps, BeginEncryption, BeginDecryption, NextBlock, MoveAreaEnd, CountWritten,
     EndOfLoop, ClearArea
<1>5. DiskSteps => ApartFromDisk /\ UNCHANGED <<requestVars, offset, blockLen, configured, mounted>>
  BY DEF DiskSteps, ReadBlock, WipeBlock, WriteBlock, UndoBlock, SaveProgress, SavesLast, SaveHeader
<1> QED
  BY <1>1, <1>2, <1>3, <1>4, <1>5

(* Where each of them is from, and goes to.                                *)
LEMMA ThreadMoves ==
  ASSUME SetupThreadProc
  PROVE  /\ setup \in SetupPcs \ {"off"} /\ setup' \in SetupPcs
         /\ setup' = "off" => Exit
         /\ setup' = "dismount" => TryRootMutex
         /\ setup' = "unlock" => DismountDrive
         /\ setup = "dismount" => DismountDrive
         /\ setup = "unlock" => ReleaseRootMutex
<1> USE DEF Step, SetupPcs, Before, InLoop, Between, AtBlock, Finishing, After
<1>1. CASE Calls \/ Releases
  BY <1>1 DEF Calls, Releases, CallHold, Release
<1>2. CASE Looks
  BY <1>2 DEF Looks, IsHeld, IsNotHeld, Held, NotHeld, TestDecrypted, HoldLastFailed,
     NothingToSave, TestConfigured, TryRootMutex, DismountDrive, ReleaseRootMutex, Exit
<1>3. CASE AreaSteps
  BY <1>3 DEF AreaSteps, BeginEncryption, BeginDecryption, NextBlock, MoveAreaEnd, CountWritten,
     EndOfLoop, ClearArea
<1>4. CASE DiskSteps
  BY <1>4 DEF DiskSteps, ReadBlock, Put, WipeBlock, WriteBlock, UndoBlock, SaveProgress, SavesLast,
     SaveHeader
<1> QED
  BY <1>1, <1>2, <1>3, <1>4, ThreadCases

(* The device controls do not touch the drive, and only a start the setup. *)
LEMMA ControlFrame ==
  ASSUME EnterControl("start") \/ EnterControl("abort") \/ DeviceControl
  PROVE  /\ UNCHANGED <<vars, driveVars>>
         /\ UNCHANGED <<setup, requestVars, result, localVars>> \/ \E m \in Modes : StartThread(m)
  BY DEF EnterControl, DeviceControl, RefuseStart, Abort, Join, StartThread, LeaveControl,
     OnlyControls

-----------------------------------------------------------------------------
(* The mutex and the flags.                                                *)

(* To begin with.                                                          *)
LEMMA ControlledInit == SetupInit => Controlled
  BY DEF SetupInit, Controlled, SetupPcs, Before, ControlPcs

(* Every step keeps that.                                                  *)
LEMMA ControlledStep == Controlled /\ [SetupNext]_allVars => Controlled'
<1> SUFFICES ASSUME Controlled, [SetupNext]_allVars PROVE Controlled'
  OBVIOUS
<1> USE DEF driveVars, controlVars
<1>1. CASE UNCHANGED setupVars
  BY <1>1 DEF Controlled, setupVars
<1>2. CASE SetupThreadProc
  <2>1. UNCHANGED <<control, controls, abortRequested, thread>>
    BY <1>2, ThreadCases, ThreadFrame DEF Apart, ApartFromDisk
  <2>2. CASE TryRootMutex
    BY <2>1, <2>2, ThreadMoves DEF TryRootMutex, Step, Controlled, GivesUp, SetupPcs, After
  <2>3. CASE DismountDrive
    <3>1. /\ setup = "dismount" /\ setup' = "unlock" /\ setup' \in SetupPcs
          /\ UNCHANGED <<rootMutex, setupInProgress, configured>>
          /\ mounted' \in BOOLEAN
      BY <2>3 DEF DismountDrive, Step, SetupPcs, After
    <3> QED
      BY <2>1, <3>1 DEF Controlled
  <2>4. CASE ReleaseRootMutex
    BY <2>1, <2>4 DEF ReleaseRootMutex, Step, Controlled, SetupPcs, After
  <2>5. CASE Exit
    BY <2>1, <2>5 DEF Exit, Step, Controlled, SetupPcs, Before
  <2>6. CASE ~TryRootMutex /\ ~DismountDrive /\ ~ReleaseRootMutex /\ ~Exit
    <3>1. /\ UNCHANGED <<mounted, rootMutex, setupInProgress>>
          /\ configured' \in BOOLEAN
      <4>1. CASE Calls \/ Releases \/ DiskSteps
        BY <4>1, ThreadFrame DEF ApartFromDisk, Controlled
      <4>2. CASE Looks
        BY <2>6, <4>2 DEF Looks, IsHeld, IsNotHeld, Held, NotHeld, TestDecrypted, HoldLastFailed,
           NothingToSave, TestConfigured, Controlled
      <4>3. CASE AreaSteps
        BY <4>3, ThreadFrame DEF AreaSteps, BeginEncryption, BeginDecryption, NextBlock,
           MoveAreaEnd, CountWritten, EndOfLoop, ClearArea, Apart, Controlled
      <4> QED
        BY <1>2, <4>1, <4>2, <4>3, ThreadCases
    <3>2. /\ setup \in SetupPcs \ {"off", "dismount", "unlock"}
          /\ setup' \in SetupPcs \ {"off", "dismount", "unlock"}
      BY <1>2, <2>6, ThreadMoves
    <3> QED
      BY <2>1, <3>1, <3>2 DEF Controlled
  <2> QED
    BY <2>2, <2>3, <2>4, <2>5, <2>6
<1>3. CASE EnterControl("start") \/ EnterControl("abort")
  BY <1>3 DEF EnterControl, CGoto, Controlled, ControlPcs
<1>4. CASE DeviceControl
  <2>1. CASE RefuseStart \/ LeaveControl
    BY <2>1 DEF RefuseStart, LeaveControl, CGoto, OnlyControls, Controlled, ControlPcs
  <2>2. CASE Abort("start", "joinStart", "launch") \/ Abort("abort", "joinAbort", "leave")
    BY <2>2 DEF Abort, Startable, CGoto, OnlyControls, Controlled, ControlPcs
  <2>3. CASE Join("joinStart", "launch") \/ Join("joinAbort", "leave")
    <3>1. /\ control' \in {"leave", "launch"} /\ setup = "off" /\ thread' \in BOOLEAN
          /\ control \in {"joinStart", "joinAbort"} /\ (control' = "launch" => control = "joinStart")
          /\ UNCHANGED <<setup, rootMutex, abortRequested, setupInProgress, mounted, configured>>
      BY <2>3 DEF Join, CGoto, OnlyControls
    <3> QED
      BY <3>1 DEF Controlled, ControlPcs
  <2>4. ASSUME NEW m \in Modes, StartThread(m)
        PROVE  Controlled'
    BY <2>4 DEF StartThread, AbortAtStart, CGoto, Controlled, ControlPcs, SetupPcs, Before
  <2> QED
    BY <1>4, <2>1, <2>2, <2>3, <2>4 DEF DeviceControl
<1> QED
  BY <1>1, <1>2, <1>3, <1>4, SetupCases

(* So they always are.                                                     *)
LEMMA ControlledAlways == SetupSpec => []Controlled
  BY ControlledInit, ControlledStep, PTL DEF SetupSpec

(* Whoever ends the setup thread, and however often it was aborted and     *)
(* started again, it does not end as the owner of the mutex.               *)
THEOREM MutexIsReturned == SetupSpec => []MutexReturned
<1>1. Controlled => MutexReturned
  BY DEF Controlled, MutexReturned
<1> QED
  BY <1>1, ControlledAlways, PTL

-----------------------------------------------------------------------------
(* The queue.                                                              *)

(* A step of the setup thread is none of the queue, or it calls it; a held *)
(* queue is let go of by the setup thread only.                            *)
Moves == Elsewhere /\ UNCHANGED <<remap, keyVars, volumeVars, moved, seen>>

(* Nothing but the setup thread can let go of a held queue.                *)
LEMMA HeldByNobodyElse ==
  ASSUME [QueueNext]_vars, hold = "held"
  PROVE  hold' = "held"
<1> USE DEF irpVars, queueVars, poolVars, handVars, mainVars, fragmentVars, ioVars, pipeVars,
            countVars, holdVars, stopVars, envVars, diskVars, outerVars, workVars
<1>1. CASE UNCHANGED vars \/ Finished
  BY <1>1 DEF vars, Finished
<1>2. ASSUME NEW i \in Irps, Ask(i) \/ Requestor(i)
      PROVE  hold' = hold
  BY <1>2 DEF Ask, Requestor, Issue, AddIrp, Reject, RejectSignal
<1>3. ASSUME NEW t \in Threads, Common(t)
      PROVE  hold' = hold
  BY SMTT(60), <1>3 DEF Common, Wake, Drained, CompleteIrp, Decrement, SignalIdle, ReleaseItem,
     ReleaseRequest
<1>4. ASSUME Main
      PROVE  hold' = hold
  BY SMTT(60), <1>3, <1>4 DEF Main, TakeIrp, TestSuspended, PoolEmpty, AwaitPoolBuffer, Refuse,
     Protect, Accept, GetItem, ReadMisaligned, DecryptMisaligned, NextFragment, GetRequest,
     FillFragment, QueueFragment, Threads, AwaitResume
<1>5. ASSUME Io
      PROVE  hold' = hold
  BY SMTT(60), <1>3, <1>5 DEF Io, TakeRequest, DoPiece, WriteDone, ReadDone, PostCompletion,
     ReadAhead, Threads
<1>6. ASSUME Completion
      PROVE  hold' = hold
  BY ZenonT(60), <1>3, <1>6 DEF Completion, DecryptFragment, Threads
<1>7. ASSUME StopBegin \/ Stop \/ Block \/ EraseKeys
      PROVE  hold' = hold
  BY <1>7 DEF StopBegin, Stop, StopCount, StopWait, StopExit, StopNext, Block, EraseKeys
<1>8. ~Holder
  BY DEF Holder, HoldWhenIdle, HoldCount, HoldWait, HoldTimeout, HoldOvertaken, HoldIdle, HoldSuspend,
     HoldConfirm, HoldRetreat, SignalResumed, HGoto
<1> QED
  BY <1>1, <1>2, <1>4, <1>5, <1>6, <1>7, <1>8 DEF QueueNext

(* What a step is for the queue.                                           *)
LEMMA QueuePart ==
  ASSUME [SetupNext]_allVars
  PROVE  /\ [QueueStep]_vars \/ Moves
         /\ AnyStep
         /\ UNCHANGED <<remap, hostVolume, protected>>
         /\ hold = "held" /\ ~Releases => hold' = "held"
<1>1. CASE [QueueNext]_vars /\ UNCHANGED setupVars
  <2>1. [QueueStep]_vars
    BY <1>1 DEF QueueStep
  <2> QED
    BY <1>1, <2>1, FixedStep, StepKnown, HeldByNobodyElse
<1>2. CASE Calls \/ Releases
  <2>1. [QueueStep]_vars
    BY <1>2, ThreadFrame DEF QueueStep
  <2>2. Calls => hold # "held"
    BY ThreadFrame DEF HoldEnter, HGoto
  <2> QED
    BY <1>2, <2>1, <2>2, FixedStep, StepKnown
<1>3. CASE AreaSteps \/ DiskSteps
  <2>1. Moves /\ UNCHANGED <<hold, remap, hostVolume, protected>>
    BY <1>3, ThreadFrame DEF Apart, ApartFromDisk, Moves, Elsewhere, workVars, envVars, areaVars,
       volumeVars, holdVars, pipeVars, diskVars
  <2> QED
    BY <2>1 DEF AnyStep, Moves
<1>4. CASE UNCHANGED vars
  <2>1. [QueueStep]_vars /\ UNCHANGED <<hold, remap, hostVolume, protected>>
    BY <1>4 DEF vars, envVars, areaVars, volumeVars, holdVars
  <2> QED
    BY <2>1, StepKnown
<1> QED
  BY <1>1, <1>2, <1>3, <1>4, SetupCases, ThreadCases, ThreadFrame, ControlFrame

(* It holds the queue while it works on it.                                *)
LEMMA HoldingStep == Holding /\ [SetupNext]_allVars => Holding'
<1> SUFFICES ASSUME Holding, [SetupNext]_allVars PROVE Holding'
  OBVIOUS
<1> DEFINE Works == {"read", "wipe", "write", "undo", "move", "clear"}
<1>1. CASE setup' = setup
  <2>1. setup \in Works => ~Releases
    BY DEF Releases, Release, Step
  <2> QED
    BY <1>1, <2>1, QueuePart DEF Holding
<1>2. CASE Calls \/ Releases \/ AreaSteps
  <2>1. setup' \notin Works
    BY <1>2 DEF Calls, Releases, CallHold, Release, AreaSteps, BeginEncryption, BeginDecryption,
       NextBlock, MoveAreaEnd, CountWritten, EndOfLoop, ClearArea, Step
  <2> QED
    BY <2>1 DEF Holding
<1>3. CASE IsHeld
  <2>1. hold' = "held"
    BY <1>3 DEF IsHeld, Held, vars, holdVars
  <2> QED
    BY <2>1 DEF Holding
<1>4. CASE Looks /\ ~IsHeld
  <2>1. setup' \notin Works
    BY <1>4 DEF Looks, IsNotHeld, NotHeld, TestDecrypted, HoldLastFailed, NothingToSave,
       TestConfigured, TryRootMutex, DismountDrive, ReleaseRootMutex, Exit, Step
  <2> QED
    BY <2>1 DEF Holding
<1>5. CASE DiskSteps
  <2>1. setup' \in Works => setup \in Works
    BY <1>5 DEF DiskSteps, ReadBlock, Put, WipeBlock, WriteBlock, UndoBlock, SaveProgress, SavesLast,
       SaveHeader, Step
  <2>2. hold' = hold
    BY <1>5, ThreadFrame DEF ApartFromDisk, holdVars
  <2> QED
    BY <2>1, <2>2 DEF Holding
<1>6. ASSUME NEW m \in Modes, StartThread(m)
      PROVE  Holding'
  BY <1>6 DEF StartThread, Holding
<1> QED
  BY <1>1, <1>2, <1>3, <1>4, <1>5, <1>6, SetupCases, ThreadCases, ControlFrame DEF setupVars

-----------------------------------------------------------------------------
(* The boundary and the thread's position.                                 *)

(* To begin with.                                                          *)
LEMMA PositionInit == SetupInit => Bounded /\ Located /\ HeaderInRange
<1> SUFFICES ASSUME SetupInit PROVE Bounded /\ Located /\ HeaderInRange
  OBVIOUS
<1>1. PICK a \in Areas : areaStart = a[1] /\ areaEnd = a[2]
  BY DEF SetupInit, Init
<1>2. \/ areaStart = -1 /\ areaEnd = -1
      \/ areaStart = ConfiguredStart /\ areaEnd \in ConfiguredStart..ConfiguredEnd
  BY <1>1, MountAssumption
<1>3. setup = "off" /\ mode = "encrypt" /\ blockLen = 0 /\ offset = 0
      /\ header = HeaderOf(areaStart, areaEnd)
  BY DEF SetupInit
<1>4. Bounded
  BY <1>2, <1>3, SetupAssumption DEF Bounded, InLoop, Between, AtBlock, Finishing
<1>5. Located
  BY <1>3, SetupAssumption DEF Located, Between, AtBlock
<1>6. HeaderInRange
  BY <1>2, <1>3, SetupAssumption DEF HeaderInRange, HeaderOf
<1> QED
  BY <1>4, <1>5, <1>6

(* The steps that move neither the boundary nor the position.              *)
LEMMA PositionKept ==
  ASSUME Controlled, Bounded, Located, [SetupNext]_allVars, ~AreaSteps, ~TestDecrypted,
         ~(\E m \in Modes : StartThread(m))
  PROVE  Bounded' /\ Located'
<1> USE DEF requestVars, localVars, driveVars, areaVars
<1>1. UNCHANGED <<areaStart, areaEnd, mode, offset, blockLen>>
  <2>1. CASE [QueueNext]_vars /\ UNCHANGED setupVars
    <3>1. [QueueStep]_vars
      BY <2>1 DEF QueueStep
    <3> QED
      BY <2>1, <3>1, FixedStep DEF setupVars
  <2>2. CASE Calls \/ Releases
    <3>1. [QueueStep]_vars
      BY <2>2, ThreadFrame DEF QueueStep
    <3> QED
      BY <2>2, <3>1, FixedStep, ThreadFrame
  <2>3. CASE Looks
    BY <2>3, ThreadFrame DEF vars, envVars
  <2>4. CASE DiskSteps
    BY <2>4, ThreadFrame DEF ApartFromDisk, envVars
  <2>5. CASE EnterControl("start") \/ EnterControl("abort") \/ DeviceControl
    BY <2>5, ControlFrame DEF vars, envVars
  <2> QED
    BY <2>1, <2>2, <2>3, <2>4, <2>5, SetupCases, ThreadCases
<1>2. \/ setup' = setup
      \/ setup \in Before /\ setup' \in Before
      \/ setup \in Between /\ setup' \in {"loop", "written"} /\ (setup' = "written" => setup = "resumeBlock")
      \/ setup \in AtBlock /\ setup' \in AtBlock
      \/ setup \in InLoop \cup Before /\ setup' = "end"
      \/ setup = "resumeEnd" /\ setup' = "ended"
      \/ setup \in {"holdLast", "holdingLast"} /\ setup' \in {"holdLast", "holdingLast", "clear"}
      \/ setup \in After /\ setup' \in After \cup {"off"}
  <2> USE DEF Step, Before, InLoop, Between, AtBlock, After
  <2>1. CASE [QueueNext]_vars /\ UNCHANGED setupVars
    BY <2>1 DEF setupVars
  <2>2. CASE Calls \/ Releases
    BY <2>2 DEF Calls, Releases, CallHold, Release
  <2>3. CASE Looks
    BY <2>3 DEF Looks, IsHeld, IsNotHeld, Held, NotHeld, HoldLastFailed, NothingToSave,
       TestConfigured, TryRootMutex, DismountDrive, ReleaseRootMutex, Exit
  <2>4. CASE DiskSteps
    BY <2>4 DEF DiskSteps, ReadBlock, Put, WipeBlock, WriteBlock, UndoBlock, SaveProgress, SavesLast,
       SaveHeader
  <2>5. CASE EnterControl("start") \/ EnterControl("abort") \/ DeviceControl
    BY <2>5, ControlFrame
  <2> QED
    BY <2>1, <2>2, <2>3, <2>4, <2>5, SetupCases, ThreadCases
<1>3. Area' = Area /\ Boundary' = Boundary
  BY <1>1 DEF Area, Boundary
<1>4. Bounded'
  BY <1>1, <1>2, <1>3, SetupAssumption DEF Bounded, InLoop, Before, Between, AtBlock, Finishing, After
<1>5. Located'
  BY <1>1, <1>2, <1>3 DEF Located, InLoop, Before, Between, AtBlock, Finishing, After
<1> QED
  BY <1>4, <1>5

(* Every step keeps the boundary within the area and the thread next to it.*)
LEMMA PositionStep ==
  ASSUME Controlled, Bounded, Located, [SetupNext]_allVars
  PROVE  Bounded' /\ Located'
<1> USE SetupAssumption
    DEF requestVars, driveVars, Apart, InLoop, Before, Between, AtBlock, Finishing, After, Step
<1>1. CASE BeginEncryption
  <2>1. /\ setup = "begin" /\ setup' \in {"resumeBegun", "end"} /\ mode = "encrypt"
        /\ UNCHANGED <<mode, blockLen>>
    BY <1>1 DEF BeginEncryption
  <2>2. CASE areaStart = -1 \/ areaEnd = -1
    <3>1. setup' = "resumeBegun" /\ areaStart' = ConfiguredStart /\ areaEnd' = -1
          /\ offset' = ConfiguredStart
      BY <1>1, <2>2 DEF BeginEncryption
    <3> QED
      BY <2>1, <3>1 DEF Bounded, Located, Boundary
  <2>3. CASE ~(areaStart = -1 \/ areaEnd = -1)
    <3>1. /\ UNCHANGED <<areaStart, areaEnd>> /\ offset' = areaEnd + 1
          /\ setup' = "resumeBegun" => areaEnd # ConfiguredEnd
      BY <1>1, <2>3 DEF BeginEncryption
    <3>2. areaStart = ConfiguredStart /\ areaEnd \in ConfiguredStart..ConfiguredEnd
      BY <2>1, <2>3 DEF Bounded
    <3> QED
      BY <2>1, <3>1, <3>2 DEF Bounded, Located, Boundary
  <2> QED
    BY <2>2, <2>3
<1>2. CASE BeginDecryption
  <2>1. /\ setup = "begin" /\ setup' \in {"resumeBegun", "end"} /\ mode = "decrypt"
        /\ UNCHANGED <<mode, blockLen, areaStart, areaEnd>>
        /\ offset' = offset \/ offset' = areaEnd + 1
        /\ setup' = "resumeBegun" => areaStart # -1 /\ areaEnd # -1 /\ offset' = areaEnd + 1
    BY <1>2 DEF BeginDecryption
  <2>2. areaEnd = -1 \/ (areaStart = ConfiguredStart /\ areaEnd \in ConfiguredStart..ConfiguredEnd)
    BY <2>1 DEF Bounded
  <2> QED
    BY <2>1, <2>2 DEF Bounded, Located, Boundary
<1>3. CASE NextBlock
  <2>1. /\ setup = "loop" /\ setup' \in {"hold", "end"}
        /\ UNCHANGED <<mode, areaStart, areaEnd>>
        /\ setup' = "hold" => blockLen' = NextLen /\ NextLen # 0
                              /\ offset' = IF mode = "encrypt" THEN offset ELSE offset - NextLen
        /\ \/ UNCHANGED <<blockLen, offset>>
           \/ blockLen' = NextLen /\ offset' = IF mode = "encrypt" THEN offset ELSE offset - NextLen
    BY <1>3 DEF NextBlock
  <2>2. /\ offset = Boundary /\ offset >= ConfiguredStart /\ offset \in Int
        /\ areaStart = ConfiguredStart
        /\ blockLen \in 0..BlockSize
        /\ mode \in {"encrypt", "decrypt"}
    BY <2>1 DEF Located, Bounded
  <2>3. Boundary <= ConfiguredEnd + 1
    BY DEF Boundary, Bounded
  <2>4. /\ NextLen \in 0..BlockSize
        /\ mode = "encrypt" => offset + NextLen <= ConfiguredEnd + 1
        /\ mode = "decrypt" => offset - NextLen >= ConfiguredStart
    BY <2>2, <2>3 DEF NextLen, Smaller
  <2>5. Bounded'
    BY <2>1 DEF Bounded
  <2>6. Boundary' = Boundary
    BY <2>1 DEF Boundary
  <2>7. Located'
    BY <2>1, <2>2, <2>3, <2>4, <2>6 DEF Located
  <2> QED
    BY <2>5, <2>7
<1>4. CASE MoveAreaEnd
  <2>1. /\ setup = "move" /\ setup' = "resumeBlock"
        /\ UNCHANGED <<mode, areaStart, blockLen>>
        /\ offset' = (IF mode = "encrypt" THEN offset + blockLen ELSE offset)
        /\ areaEnd' = offset' - 1
    BY <1>4 DEF MoveAreaEnd, NextOffset
  <2>2. /\ offset >= ConfiguredStart /\ offset + blockLen <= ConfiguredEnd + 1
        /\ blockLen \in 1..BlockSize /\ areaStart = ConfiguredStart /\ offset \in Int
        /\ mode \in {"encrypt", "decrypt"}
    BY <2>1 DEF Located, Bounded
  <2>3. /\ offset' \in Int /\ areaEnd' + 1 = offset'
        /\ mode = "encrypt" => areaEnd' \in ConfiguredStart..ConfiguredEnd
        /\ mode = "decrypt" => areaEnd' \in ConfiguredStart - 1..ConfiguredEnd
    BY <2>1, <2>2
  <2>4. Bounded'
    BY <2>1, <2>2, <2>3 DEF Bounded
  <2>5. Located'
    BY <2>1, <2>2, <2>3 DEF Located, Boundary
  <2> QED
    BY <2>4, <2>5
<1>5. CASE CountWritten
  <2>1. /\ setup = "written" /\ setup' \in {"save", "loop"}
        /\ UNCHANGED <<mode, areaStart, areaEnd, blockLen, offset>>
    BY <1>5 DEF CountWritten
  <2> QED
    BY <2>1 DEF Bounded, Located, Boundary
<1>6. CASE EndOfLoop
  <2>1. /\ setup = "end" /\ setup' \in {"resumeEnd", "ended"}
        /\ UNCHANGED <<mode, areaEnd, blockLen, offset>>
        /\ areaStart' = IF areaEnd = -1 THEN -1 ELSE areaStart
    BY <1>6 DEF EndOfLoop, localVars
  <2> QED
    BY <2>1 DEF Bounded, Located
<1>7. CASE ClearArea
  <2>1. /\ setup = "clear" /\ setup' = "resumeLast"
        /\ UNCHANGED <<mode, blockLen, offset>>
        /\ areaStart' = -1 /\ areaEnd' = -1
    BY <1>7 DEF ClearArea
  <2> QED
    BY <2>1 DEF Bounded, Located
<1>8. CASE TestDecrypted
  <2>1. /\ setup = "ended"
        /\ setup' = IF mode = "decrypt" /\ Area = {} THEN "holdLast" ELSE "saveLast"
        /\ UNCHANGED <<mode, areaStart, areaEnd, blockLen, offset>>
    BY <1>8 DEF TestDecrypted, Decrypted, vars, envVars, areaVars, localVars
  <2>2. Area' = Area
    BY <2>1 DEF Area
  <2>3. areaStart = -1 <=> areaEnd = -1
    BY <2>1 DEF Bounded
  <2>4. mode = "decrypt" /\ Area # {} => areaEnd >= areaStart /\ areaStart # -1
    BY <2>3 DEF Area, Bounded
  <2>5. Bounded'
    BY <2>1, <2>2, <2>3, <2>4 DEF Bounded
  <2>6. Located'
    BY <2>1 DEF Located
  <2> QED
    BY <2>5, <2>6
<1>9. ASSUME NEW m \in Modes, StartThread(m)
      PROVE  Bounded' /\ Located'
  <2>1. /\ setup = "off" /\ setup' = "holdBegin" /\ mode' \in {"encrypt", "decrypt"}
        /\ UNCHANGED <<areaStart, areaEnd>> /\ offset' = 0 /\ blockLen' = BlockSize
    BY <1>9 DEF StartThread, CGoto, Controlled, vars, envVars, areaVars
  <2> QED
    BY <2>1 DEF Bounded, Located
<1> QED
  BY <1>1, <1>2, <1>3, <1>4, <1>5, <1>6, <1>7, <1>8, <1>9, PositionKept DEF AreaSteps

(* Only a save changes the header.                                         *)
LEMMA HeaderCases ==
  ASSUME [SetupNext]_allVars
  PROVE  \/ header' = header
         \/ (SaveProgress \/ SavesLast) /\ header' = NewHeader
<1> USE DEF driveVars
<1>1. CASE [QueueNext]_vars /\ UNCHANGED setupVars
  BY <1>1 DEF setupVars
<1>2. CASE Calls \/ Releases \/ Looks \/ AreaSteps
  BY <1>2, ThreadFrame
<1>3. CASE ReadBlock \/ WipeBlock \/ WriteBlock \/ UndoBlock
  BY <1>3 DEF ReadBlock, WipeBlock, WriteBlock, UndoBlock
<1>4. CASE SaveProgress \/ SavesLast
  BY <1>4 DEF SaveProgress, SavesLast, SaveHeader
<1> QED
  BY <1>1, <1>2, <1>3, <1>4, SetupCases, ThreadCases, ControlFrame DEF DiskSteps

(* What it writes is in range.                                             *)
LEMMA HeaderStep ==
  ASSUME Bounded, HeaderInRange, [SetupNext]_allVars
  PROVE  HeaderInRange'
<1>1. NewHeader \in -1..ConfiguredEnd + 1 - ConfiguredStart
  <2>1. Area # {} => areaStart = ConfiguredStart /\ areaEnd \in ConfiguredStart..ConfiguredEnd
    BY SetupAssumption DEF Area, Bounded
  <2> QED
    BY <2>1, SetupAssumption DEF NewHeader, HeaderInRange
<1> QED
  BY <1>1, HeaderCases DEF HeaderInRange

Position == Controlled /\ Holding /\ Bounded /\ Located /\ HeaderInRange

(* All that always holds.                                                  *)
LEMMA PositionAlways == SetupSpec => []Position
<1>1. SetupInit => Position
  BY ControlledInit, PositionInit DEF Position, SetupInit, Holding
<1>2. Position /\ [SetupNext]_allVars => Position'
  BY ControlledStep, HoldingStep, PositionStep, HeaderStep DEF Position
<1> QED
  BY <1>1, <1>2, PTL DEF SetupSpec

(* The boundary and the header's length stay within the configured area,   *)
(* and so does the block the thread transforms, which is right next to the *)
(* boundary; the thread holds the queue while it does.                     *)
THEOREM SetupTypeCorrect == SetupSpec => []SetupTypeOK
<1>1. ASSUME Position
      PROVE  SetupTypeOK
  <2>1. /\ setup # "off" => setupInProgress /\ thread
        /\ areaStart \in {-1, ConfiguredStart} /\ areaEnd \in -1..ConfiguredEnd
        /\ header \in -1..ConfiguredEnd + 1 - ConfiguredStart
        /\ rootMutex \in {"nobody", "control", "setup"}
    BY <1>1, SetupAssumption DEF Position, Controlled, Bounded, HeaderInRange
  <2>2. ASSUME setup \in {"read", "wipe", "write", "undo", "move"}
        PROVE  /\ hold = "held"
               /\ blockLen \in 1..BlockSize
               /\ SetupBlock \subseteq ConfiguredStart..ConfiguredEnd
               /\ IF mode = "encrypt"
                  THEN offset = IF areaEnd = -1 THEN ConfiguredStart ELSE areaEnd + 1
                  ELSE offset + blockLen = areaEnd + 1
    <3>1. hold = "held"
      BY <1>1, <2>2 DEF Position, Holding
    <3>2. /\ blockLen \in 1..BlockSize /\ offset \in Int
          /\ offset >= ConfiguredStart /\ offset + blockLen <= ConfiguredEnd + 1
          /\ offset + (IF mode = "encrypt" THEN 0 ELSE blockLen) = Boundary
      BY <1>1, <2>2, SetupAssumption DEF Position, Located, AtBlock
    <3>3. SetupBlock \subseteq ConfiguredStart..ConfiguredEnd
      BY <3>2, SetupAssumption DEF SetupBlock, Span
    <3> QED
      BY <3>1, <3>2, <3>3 DEF Boundary
  <2> QED
    BY <2>1, <2>2 DEF SetupTypeOK
<1> QED
  BY <1>1, PositionAlways, PTL

-----------------------------------------------------------------------------
(* The keys.                                                               *)

(* Only a read that is done makes the I/O thread pass its request on.      *)
LEMMA IoPosts ==
  ASSUME Links, [QueueStep]_vars, pc'["io"] \in {"post", "postAhead"}
  PROVE  /\ pc["io"] \in {"done", "post", "postAhead"}
         /\ req'["io"] = req["io"]
<1> USE DEF irpVars, queueVars, poolVars, handVars, mainVars, fragmentVars, ioVars, pipeVars,
            countVars, diskVars, outerVars, holdVars, stopVars, envVars, areaVars, keyVars,
            volumeVars
<1>1. DOMAIN pc = Threads /\ DOMAIN req = Threads
  BY DEF Links, Shape, PcShape, RequestShape
<1>2. ASSUME NEW i \in Irps, NEW op, NEW first, NEW len,
             Issue(i, op, first, len) \/ AddIrp(i) \/ Reject(i) \/ RejectSignal(i)
      PROVE  pc' = pc /\ req' = req
  BY <1>2 DEF Issue, AddIrp, Reject, RejectSignal
<1>3. ASSUME NEW t \in Threads,
             \/ Wake(t) \/ Drained(t) \/ CompleteIrp(t) \/ Decrement(t) \/ SignalIdle(t)
             \/ ReleaseItem(t) \/ ReleaseRequest(t)
      PROVE  t # "io" /\ pc'["io"] = pc["io"] /\ req'["io"] = req["io"]
  BY <1>1, <1>3, SMTT(60) DEF Wake, Drained, CompleteIrp, Decrement, SignalIdle, ReleaseItem,
     ReleaseRequest, Goto, AfterDecrement, Threads
<1>4. ASSUME \/ TakeIrp \/ TestSuspended \/ AwaitResume \/ AwaitsPool \/ LooksAgain
             \/ Refuse \/ Protect \/ Accept \/ ReadMisaligned \/ DecryptMisaligned \/ NextFragment
             \/ GetRequest \/ FillFragment \/ QueueFragment \/ DecryptFragment
      PROVE  pc'["io"] = pc["io"] /\ req'["io"] = req["io"]
  <2>1. CASE \/ TakeIrp \/ TestSuspended \/ AwaitResume \/ AwaitsPool \/ LooksAgain
             \/ DecryptMisaligned \/ NextFragment \/ FillFragment
    BY <1>1, <2>1, SMTT(60) DEF TakeIrp, TestSuspended, AwaitResume, AwaitsPool, LooksAgain,
       PoolEmpty, AwaitPoolBuffer, DecryptMisaligned, NextFragment, FillFragment, Goto, Threads
  <2>2. CASE Refuse \/ Protect \/ Accept
    BY <1>1, <2>2, SMTT(60) DEF Refuse, Protect, Accept, GetItem, Goto, Threads
  <2>3. CASE ReadMisaligned
    BY <1>1, <2>3, SMTT(60) DEF ReadMisaligned, Goto, Threads
  <2>4. CASE GetRequest
    <3>1. /\ pc' = [pc EXCEPT !["main"] = "buffer"]
          /\ \E x : req' = [req EXCEPT !["main"] = x]
      BY <2>4 DEF GetRequest, Goto
    <3> QED
      BY <1>1, <3>1 DEF Threads
  <2>5. CASE QueueFragment
    BY <1>1, <2>5, QueueFragmentMoves DEF Threads
  <2>6. CASE DecryptFragment
    BY <1>1, <2>6, DecryptFragmentMoves DEF Threads
  <2> QED
    BY <1>4, <2>1, <2>2, <2>3, <2>4, <2>5, <2>6
<1>5. ASSUME TakeRequest \/ DoPiece \/ WriteDone \/ PassesOn \/ ReadAhead
      PROVE  FALSE
  BY <1>1, <1>5, SMTT(60) DEF TakeRequest, DoPiece, WriteDone, PassesOn, PostCompletion, ReadAhead,
     AfterRequest, Goto, Threads
<1>6. CASE ReadDone
  BY <1>6 DEF ReadDone
<1>7. CASE UNCHANGED <<coreVars, dataVars>>
  BY <1>7 DEF coreVars
<1> QED
  BY <1>2, <1>3, <1>4, <1>5, <1>6, <1>7, ActionCases

(* What is past the device, on its way to be decrypted.                    *)
PastDevice ==
  /\ pc["io"] \in {"post", "postAhead"} => req["io"].enc = {}
  /\ \A n \in Queued("completion") : queue["completion"][n].enc = {}

(* Without an encrypted area nothing comes that would have to be.          *)
LEMMA PastDeviceStep ==
  ASSUME Links, Cut, Area = {}, PastDevice, [QueueStep]_vars
  PROVE  PastDevice'
<1>1. ASSUME pc'["io"] \in {"post", "postAhead"}
      PROVE  req'["io"].enc = {}
  <2>1. req["io"] \in Requests
    BY DEF Links, Shape, RequestShape, Threads
  <2>2. CASE pc["io"] = "done"
    <3>1. Pipe(req["io"])
      BY <2>2 DEF Pipe, IoUses
    <3> QED
      BY <1>1, <2>1, <3>1, IoPosts DEF Cut, Cuts
  <2> QED
    BY <1>1, <2>2, IoPosts DEF PastDevice
<1>2. ASSUME NEW n \in Queued("completion")'
      PROVE  queue'["completion"][n].enc = {}
  <2>1. CASE PassesOn
    BY <1>2, <2>1, PassesOnMoves DEF PastDevice
  <2>2. CASE DecryptFragment
    BY <1>2, <2>2, DecryptFragmentMoves DEF PastDevice
  <2>3. CASE queue'["completion"] = queue["completion"]
    BY <1>2, <2>3 DEF PastDevice, Queued
  <2>4. (\E i \in Irps : AddIrp(i)) \/ TakeIrp => queue'["completion"] = queue["completion"]
    BY DEF AddIrp, TakeIrp, Links, Shape, QueueShape, Threads
  <2>5. QueueFragment => queue'["completion"] = queue["completion"]
    BY QueueFragmentMoves
  <2>6. TakeRequest => queue'["completion"] = queue["completion"]
    BY TakeRequestMoves
  <2>7. (\E t \in Threads : ReleaseItem(t) \/ ReleaseRequest(t)) \/ Refuse \/ Protect \/ Accept
        \/ ReadMisaligned \/ GetRequest \/ DoPiece => queue' = queue
    BY DEF ReleaseItem, ReleaseRequest, Refuse, Protect, Accept, GetItem, ReadMisaligned, GetRequest,
       DoPiece, queueVars
  <2> QED
    BY <2>1, <2>2, <2>3, <2>4, <2>5, <2>6, <2>7, PlaceFrame, StepKnown
<1> QED
  BY <1>1, <1>2 DEF PastDevice

(* What is known of the queue, whether it is held or not, and wherever the *)
(* boundary is.                                                            *)
QueueSound == /\ Sound /\ Buffered /\ Volume /\ MainSafe /\ Cut /\ ToDo /\ Filled
              /\ HasPlaces /\ ~remap /\ ~hostVolume

(* To begin with.                                                          *)
LEMMA QueueSoundInit == SetupInit => QueueSound
<1> SUFFICES ASSUME SetupInit PROVE QueueSound
  OBVIOUS
<1>1. Kept
  BY KeptInit DEF SetupInit
<1> QED
  BY <1>1 DEF SetupInit, Kept, QueueSound, Readable, HasPlaces

(* Only the move of the boundary behind a block changes what is encrypted. *)
LEMMA AreaCases ==
  ASSUME Holding, [SetupNext]_allVars
  PROVE  \/ Area' = Area
         \/ MoveAreaEnd /\ hold = "held"
         \/ ClearArea /\ hold = "held"
<1> USE DEF areaVars, envVars
<1>1. CASE BeginEncryption
  <2>1. \/ UNCHANGED <<areaStart, areaEnd>>
        \/ areaEnd' = -1 /\ (areaStart = -1 \/ areaEnd = -1)
    BY <1>1 DEF BeginEncryption
  <2> QED
    BY <2>1 DEF Area
<1>2. CASE EndOfLoop
  <2>1. areaEnd' = areaEnd /\ areaStart' = IF areaEnd = -1 THEN -1 ELSE areaStart
    BY <1>2 DEF EndOfLoop
  <2> QED
    BY <2>1 DEF Area
<1>3. CASE BeginDecryption \/ NextBlock \/ CountWritten
  <2>1. UNCHANGED <<areaStart, areaEnd>>
    BY <1>3 DEF BeginDecryption, NextBlock, CountWritten
  <2> QED
    BY <2>1 DEF Area
<1>4. CASE MoveAreaEnd \/ ClearArea
  BY <1>4 DEF MoveAreaEnd, ClearArea, Step, Holding
<1>5. CASE DiskSteps \/ Looks
  <2>1. UNCHANGED <<areaStart, areaEnd>>
    BY <1>5, ThreadFrame DEF ApartFromDisk, vars
  <2> QED
    BY <2>1 DEF Area
<1>6. CASE EnterControl("start") \/ EnterControl("abort") \/ DeviceControl
  <2>1. UNCHANGED <<areaStart, areaEnd>>
    BY <1>6, ControlFrame DEF vars
  <2> QED
    BY <2>1 DEF Area
<1>7. CASE [QueueStep]_vars
  BY <1>7, FixedStep DEF Area
<1> QED
  BY <1>1, <1>2, <1>3, <1>4, <1>5, <1>6, <1>7, SetupCases, ThreadCases, ThreadFrame
     DEF QueueStep, AreaSteps

(* What the setup thread may write to the device.                          *)
LEMMA DiskCases ==
  ASSUME [SetupNext]_allVars
  PROVE  \/ [QueueStep]_vars
         \/ UNCHANGED disk
         \/ /\ WipeBlock \/ WriteBlock \/ UndoBlock
            /\ \E f : /\ disk' = Merge(disk, f)
                      /\ DOMAIN f \subseteq SetupBlock \cup DOMAIN buffer
<1> USE DEF workVars, diskVars, vars
<1>1. CASE AreaSteps
  BY <1>1, ThreadFrame DEF Apart
<1>2. CASE Looks
  BY <1>2, ThreadFrame
<1>3. CASE ReadBlock \/ SaveProgress \/ SavesLast
  BY <1>3 DEF ReadBlock, SaveProgress, SavesLast, SaveHeader
<1>4. ASSUME NEW f, NEW from, NEW to, NEW otherwise, Put(f, from, to, otherwise)
      PROVE  \E g : disk' = Merge(disk, g) /\ DOMAIN g \subseteq DOMAIN f
  <2>1. CASE disk' = Merge(disk, f)
    BY <2>1
  <2>2. ASSUME NEW S \in SUBSET DOMAIN f, disk' = Merge(disk, [s \in S |-> f[s]])
        PROVE  \E g : disk' = Merge(disk, g) /\ DOMAIN g \subseteq DOMAIN f
    <3>1. DOMAIN [s \in S |-> f[s]] \subseteq DOMAIN f
      OBVIOUS
    <3> QED
      BY <2>2, <3>1
  <2> QED
    BY <1>4, <2>1, <2>2 DEF Put
<1>5. CASE WipeBlock
  <2>1. \E to : Put([s \in SetupBlock |-> Garbage], "wipe", to, "undo")
    BY <1>5 DEF WipeBlock
  <2> QED
    BY <1>4, <1>5, <2>1
<1>6. CASE WriteBlock
  BY <1>4, <1>6 DEF WriteBlock
<1>7. CASE UndoBlock
  <2>1. Put(UndoContent, "undo", "end", "end") /\ DOMAIN UndoContent = SetupBlock
    BY <1>7 DEF UndoBlock, UndoContent
  <2> QED
    BY <1>4, <1>7, <2>1
<1>8. CASE EnterControl("start") \/ EnterControl("abort") \/ DeviceControl
  BY <1>8, ControlFrame
<1>9. CASE Calls \/ Releases
  BY <1>9, ThreadFrame DEF QueueStep
<1> QED
  BY <1>1, <1>2, <1>3, <1>5, <1>6, <1>7, <1>8, <1>9, SetupCases, ThreadCases DEF QueueStep, DiskSteps

(* A block is in work from the first write to it to the move of the        *)
(* boundary behind it.                                                     *)
InWork == {"wipe", "write", "undo", "move"}

(* The steps that keep or reach a block in work.                           *)
LEMMA WorkCases ==
  ASSUME [SetupNext]_allVars, setup' \in InWork
  PROVE  \/ setup' = setup /\ UNCHANGED <<setup, requestVars, localVars>> /\ ~SetupThreadProc
         \/ ReadBlock
         \/ setup \in InWork /\ (WipeBlock \/ WriteBlock)
<1>1. CASE Calls \/ Releases
  BY <1>1 DEF Calls, Releases, CallHold, Release, Step, InWork
<1>2. CASE Looks
  BY <1>2 DEF Looks, IsHeld, IsNotHeld, Held, NotHeld, TestDecrypted, HoldLastFailed,
     NothingToSave, TestConfigured, TryRootMutex, DismountDrive, ReleaseRootMutex, Exit, Step, InWork
<1>3. CASE AreaSteps
  BY <1>3 DEF AreaSteps, BeginEncryption, BeginDecryption, NextBlock, MoveAreaEnd, CountWritten,
     EndOfLoop, ClearArea, Step, InWork
<1>4. CASE DiskSteps
  BY <1>4 DEF DiskSteps, UndoBlock, WipeBlock, WriteBlock, Put, SaveProgress, SavesLast, SaveHeader,
     Step, InWork
<1>5. CASE ~SetupThreadProc /\ ~(\E m \in Modes : StartThread(m))
  <2>1. UNCHANGED <<setup, requestVars, localVars>>
    BY <1>5, SetupCases, ControlFrame DEF setupVars
  <2> QED
    BY <1>5, <2>1
<1>6. ASSUME NEW m \in Modes, StartThread(m)
      PROVE  FALSE
  BY <1>6 DEF StartThread, InWork
<1> QED
  BY <1>1, <1>2, <1>3, <1>4, <1>5, <1>6, ThreadCases

(* The buffer holds the block in work.                                     *)
BlockRead == setup \in InWork => DOMAIN buffer = SetupBlock

(* Every step keeps that.                                                  *)
LEMMA BlockReadStep == BlockRead /\ [SetupNext]_allVars => BlockRead'
<1> SUFFICES ASSUME BlockRead, [SetupNext]_allVars, setup' \in InWork
             PROVE  DOMAIN buffer' = SetupBlock'
  BY DEF BlockRead
<1> USE DEF localVars
<1>1. CASE UNCHANGED <<setup, offset, blockLen, buffer>>
  BY <1>1 DEF BlockRead, SetupBlock, Span
<1>2. CASE ReadBlock
  <2>1. setup' # "end" /\ UNCHANGED <<offset, blockLen>>
    BY <1>2 DEF ReadBlock, InWork
  <2>2. buffer' = [s \in SetupBlock |-> Transformed(disk[s], s)]
    BY <1>2, <2>1 DEF ReadBlock, Step
  <2> QED
    BY <2>1, <2>2 DEF SetupBlock, Span
<1>3. CASE setup \in InWork /\ (WipeBlock \/ WriteBlock)
  <2>1. UNCHANGED <<offset, blockLen, buffer>>
    BY <1>3 DEF WipeBlock, WriteBlock
  <2> QED
    BY <1>3, <2>1 DEF BlockRead, SetupBlock, Span
<1> QED
  BY <1>1, <1>2, <1>3, WorkCases

(* The block in work lies in the drive.                                    *)
LEMMA BlockInside ==
  ASSUME Position, setup \in AtBlock
  PROVE  SetupBlock \subseteq ConfiguredStart..ConfiguredEnd /\ SetupBlock \subseteq Sectors
<1>1. /\ offset \in Int /\ blockLen \in Int
      /\ offset >= ConfiguredStart /\ offset + blockLen <= ConfiguredEnd + 1
  BY SetupAssumption DEF Position, Located
<1> QED
  BY <1>1, SetupAssumption DEF SetupBlock, Span

(* In a held queue there is nothing in the pipe.                           *)
LEMMA HeldIsEmpty ==
  ASSUME Sound, hold = "held"
  PROVE  \A r \in Requests : ~Pipe(r)
<1>1. Quiet
  BY DEF Sound, HeldSafely
<1>2. Queued("io") = {}
  BY <1>1 DEF Quiet, Queued
<1> QED
  BY <1>1, <1>2 DEF Quiet, Still, Resting, Pipe, IoUses, Threads

(* What is sound stays sound while the setup goes on.                      *)
LEMMA QueueSoundStep ==
  ASSUME QueueSound, Position, Position', BlockRead, [SetupNext]_allVars
  PROVE  QueueSound'
<1> USE DEF QueueSound
<1>1. Sound' /\ Links
  BY SoundStep, QueuePart DEF Sound
<1>2. ~remap' /\ ~hostVolume'
  BY QueuePart
<1>3. CASE [QueueStep]_vars
  <2>1. Buffered' /\ Volume' /\ MainSafe' /\ Cut' /\ ToDo' /\ Filled'
    BY <1>1, <1>3, BufferedStep, VolumeStep, MainSafeStep, CutStep, ToDoStep, FilledStep
  <2>2. HasPlaces'
    <3>1. CASE disk' = disk
      BY <3>1 DEF HasPlaces, Locations
    <3>2. CASE DoPiece /\ disk' # disk
      <4>1. /\ irp[item[own["io"]].irp].op = "write" /\ WritePiece(todo[1])
        BY <1>1, <3>2, PieceDone DEF ReadPiece
      <4> QED
        BY <1>1, <3>2, <4>1, PieceWritten
    <3> QED
      BY <1>3, <3>1, <3>2, DiskFrame
  <2> QED
    BY <1>1, <1>2, <2>1, <2>2
<1>4. CASE Moves
  <2> USE DEF Moves, Elsewhere, irpVars, queueVars, poolVars, handVars, mainVars, fragmentVars,
              ioVars, pipeVars, countVars, keyVars, volumeVars
  <2>1. Buffered'
    BY <1>4 DEF Buffered, Queued, IoUses
  <2>2. Volume'
    <3>1. areaStart' \in Int /\ areaEnd' \in Int
      BY SetupAssumption DEF Position, Bounded
    <3>2. Area' \subseteq Sectors
      BY SetupAssumption DEF Position, Bounded, Area
    <3> QED
      BY <1>2, <1>4, <3>1, <3>2 DEF Volume
  <2>3. MainSafe'
    BY <1>4 DEF MainSafe, SafeIn
  <2>4. ToDo'
    BY <1>4 DEF ToDo, PieceOf, FragmentSectors, Span
  <2>5. \A r \in Requests : (Pipe(r)' <=> Pipe(r)) /\ (Loaded(r)' <=> Loaded(r)) /\ (Loaded(r) => Pipe(r))
    BY <1>4 DEF Pipe, Loaded, IoUses, Queued
  <2>6. Cut'
    <3>1. \A i \in Irps : IrpSectors(i)' \subseteq Sectors
      BY <1>4 DEF Cut, IrpSectors, Span
    <3>2. CASE Area' = Area
      BY <2>5, <3>1, <3>2 DEF Cut, Cuts, FragmentSectors, Span
    <3>3. CASE hold = "held"
      BY <2>5, <3>1, <3>3, HeldIsEmpty DEF Cut
    <3> QED
      BY <3>2, <3>3, AreaCases DEF Position
  <2>7. Filled'
    <3>1. CASE Area' = Area
      <4>1. \A i, S : Written(i, S)' = Written(i, S)
        BY <1>4, <3>1 DEF Written, Unit
      <4>2. \A r : FilledRequest(r)' <=> FilledRequest(r)
        BY <1>4, <4>1 DEF FilledRequest, FragmentSectors, Span
      <4>3. FilledRequest(req["io"])' <=> FilledRequest(req["io"])
        BY <1>4, <4>1 DEF FilledRequest, FragmentSectors, Span
      <4> QED
        BY <1>4, <2>5, <4>2, <4>3 DEF Filled
    <3>2. CASE hold = "held"
      <4>1. \A r \in Requests : ~Loaded(r)'
        BY <2>5, <3>2, HeldIsEmpty
      <4>2. req["io"] \in Requests
        BY <1>1 DEF Links, Shape, RequestShape, Threads
      <4>3. pc["io"] # "device"
        BY <3>2, <4>2, HeldIsEmpty DEF Pipe, IoUses
      <4> QED
        BY <1>4, <4>1, <4>3 DEF Filled
    <3> QED
      BY <3>1, <3>2, AreaCases DEF Position
  <2>8. HasPlaces'
    <3>1. CASE UNCHANGED disk
      BY <3>1 DEF HasPlaces, Locations
    <3>2. ASSUME NEW f, disk' = Merge(disk, f), DOMAIN f \subseteq SetupBlock \cup DOMAIN buffer,
                 WipeBlock \/ WriteBlock \/ UndoBlock
          PROVE  HasPlaces'
      <4>1. setup \in InWork
        BY <3>2 DEF WipeBlock, WriteBlock, UndoBlock, Put, Step, InWork
      <4>2. DOMAIN f \subseteq Locations
        BY <3>2, <4>1, BlockInside DEF BlockRead, InWork, AtBlock, Locations
      <4> QED
        BY <3>2, <4>2 DEF HasPlaces, Merge, Locations
    <3>3. CASE [QueueStep]_vars
      BY <1>1, <1>3, <3>3
    <3> QED
      BY <3>1, <3>2, <3>3, DiskCases
  <2> QED
    BY <1>1, <1>2, <2>1, <2>2, <2>3, <2>4, <2>6, <2>7, <2>8
<1> QED
  BY <1>3, <1>4, QueuePart

(* When the area is gone for good, so is what would need the keys; only    *)
(* then does the thread go for the mutex, to free them.                    *)
KeysGone ==
  /\ ~mounted => ~configured
  /\ setup \in {"mutex", "dismount"} => ~configured
  /\ ~configured =>
       /\ mode = "decrypt" /\ areaStart = -1 /\ areaEnd = -1 /\ PastDevice
       /\ setup \in After \cup {"off"}
       /\ mounted => setup \in {"resumeLast", "saveLast", "saved", "mutex", "dismount"}

(* The thread runs over the blocks, then finishes, then ends.              *)
Running == (Before \ {"off"}) \cup InLoop

(* It does not go back.                                                    *)
LEMMA ThreadGoes ==
  ASSUME SetupThreadProc
  PROVE  \/ setup \in Running /\ setup' \in Running \cup {"end"}
         \/ /\ setup \in {"end"} \cup Finishing
            /\ setup' \in Finishing \cup {"resumeLast", "saveLast"}
         \/ setup \in After
<1> USE DEF Step, Running, Before, InLoop, Between, AtBlock, Finishing, After
<1>1. CASE Calls \/ Releases
  BY <1>1 DEF Calls, Releases, CallHold, Release
<1>2. CASE Looks
  BY <1>2 DEF Looks, IsHeld, IsNotHeld, Held, NotHeld, TestDecrypted, HoldLastFailed,
     NothingToSave, TestConfigured, TryRootMutex, DismountDrive, ReleaseRootMutex, Exit
<1>3. CASE AreaSteps
  BY <1>3 DEF AreaSteps, BeginEncryption, BeginDecryption, NextBlock, MoveAreaEnd, CountWritten,
     EndOfLoop, ClearArea
<1>4. CASE DiskSteps
  BY <1>4 DEF DiskSteps, ReadBlock, Put, WipeBlock, WriteBlock, UndoBlock, SaveProgress, SavesLast,
     SaveHeader
<1> QED
  BY <1>1, <1>2, <1>3, <1>4, ThreadCases

(* What the thread does after its last move of the boundary.               *)
LEMMA LastSteps ==
  ASSUME SetupThreadProc, setup \in After
  PROVE  /\ UNCHANGED <<areaStart, areaEnd, requestVars, configured>>
         /\ mounted' = (IF setup = "dismount" THEN FALSE ELSE mounted)
         /\ \/ setup = "resumeLast" /\ setup' = "saveLast"
            \/ setup = "saveLast" /\ setup' = "saved"
            \/ setup = "saved" /\ setup' = IF NoLongerNeeded THEN "mutex" ELSE "exit"
            \/ setup = "mutex" /\ setup' = "dismount"
            \/ setup = "dismount" /\ setup' = "unlock"
            \/ setup = "unlock" /\ setup' = "exit"
            \/ setup = "exit" /\ setup' = "off"
<1> USE DEF requestVars, driveVars, areaVars, envVars, Step, After
<1>1. CASE Calls
  BY <1>1 DEF Calls, CallHold
<1>2. CASE Releases
  <2>1. setup = "resumeLast" /\ setup' = "saveLast"
    BY <1>2 DEF Releases, Release
  <2>2. UNCHANGED <<areaStart, areaEnd>>
    BY <1>2, ThreadFrame, FixedStep DEF QueueStep
  <2> QED
    BY <1>2, <2>1, <2>2, ThreadFrame
<1>3. CASE Looks
  <2>1. UNCHANGED <<areaStart, areaEnd, requestVars, configured>>
    BY <1>3, ThreadFrame DEF vars
  <2>2. CASE DismountDrive
    BY <2>1, <2>2 DEF DismountDrive
  <2>3. CASE ~DismountDrive
    BY <1>3, <2>1, <2>3 DEF Looks, IsHeld, IsNotHeld, Held, NotHeld, TestDecrypted, HoldLastFailed,
       NothingToSave, TestConfigured, TryRootMutex, ReleaseRootMutex, Exit
  <2> QED
    BY <2>2, <2>3
<1>4. CASE AreaSteps
  BY <1>4 DEF AreaSteps, BeginEncryption, BeginDecryption, NextBlock, MoveAreaEnd, CountWritten,
     EndOfLoop, ClearArea
<1>5. CASE DiskSteps
  <2>1. setup = "saveLast" /\ setup' = "saved"
    BY <1>5 DEF DiskSteps, ReadBlock, UndoBlock, WipeBlock, WriteBlock, Put, SaveProgress, SavesLast,
       SaveHeader
  <2> QED
    BY <1>5, <2>1, ThreadFrame DEF ApartFromDisk
<1> QED
  BY <1>1, <1>2, <1>3, <1>4, <1>5, ThreadCases

(* Only ClearArea gives up the area, and only DismountDrive frees the keys.*)
LEMMA DriveCases ==
  ASSUME [SetupNext]_allVars
  PROVE  /\ configured' = configured \/ ClearArea
         /\ mounted' = mounted \/ DismountDrive
<1> USE DEF driveVars
<1>1. CASE [QueueNext]_vars /\ UNCHANGED setupVars
  BY <1>1 DEF setupVars
<1>2. CASE Calls \/ Releases
  BY <1>2, ThreadFrame
<1>3. CASE Looks
  BY <1>3, ThreadFrame DEF Looks, IsHeld, IsNotHeld, Held, NotHeld, TestDecrypted, HoldLastFailed,
     NothingToSave, TestConfigured, TryRootMutex, DismountDrive, ReleaseRootMutex, Exit
<1>4. CASE AreaSteps
  BY <1>4, ThreadFrame DEF AreaSteps, BeginEncryption, BeginDecryption, NextBlock, MoveAreaEnd,
     CountWritten, EndOfLoop
<1>5. CASE DiskSteps
  BY <1>5, ThreadFrame
<1> QED
  BY <1>1, <1>2, <1>3, <1>4, <1>5, SetupCases, ThreadCases, ControlFrame

(* To begin with.                                                          *)
LEMMA KeysGoneInit == SetupInit => KeysGone
  BY DEF SetupInit, KeysGone, After

(* Every step keeps that: the area is given up while the queue is held,    *)
(* with nothing on its way.                                                *)
LEMMA KeysGoneStep ==
  ASSUME KeysGone, QueueSound, Position, [SetupNext]_allVars
  PROVE  KeysGone'
<1>1. CASE ClearArea
  <2>1. /\ setup = "clear" /\ setup' = "resumeLast" /\ configured' = FALSE
        /\ areaStart' = -1 /\ areaEnd' = -1 /\ mode' = mode /\ mounted' = mounted
        /\ UNCHANGED <<pc, req, queue>>
    BY <1>1 DEF ClearArea, Step, Apart, workVars, queueVars, handVars, requestVars
  <2>2. mode = "decrypt" /\ hold = "held"
    BY <2>1 DEF Position, Bounded, Holding
  <2>3. Quiet
    BY <2>2 DEF QueueSound, Sound, HeldSafely
  <2>4. PastDevice'
    BY <2>1, <2>3 DEF PastDevice, Quiet, Still, Resting, Queued, Threads
  <2> QED
    BY <2>1, <2>2, <2>4 DEF KeysGone, After
<1>2. CASE ~ClearArea
  <2>1. configured' = configured
    BY <1>2, DriveCases
  <2>2. ~mounted' => ~configured
    BY DriveCases DEF KeysGone, DismountDrive, Step
  <2>3. CASE configured
    <3>1. mounted
      BY <2>3 DEF KeysGone
    <3>2. CASE setup' = setup
      BY <2>1, <2>2, <2>3, <3>2 DEF KeysGone
    <3>3. CASE SetupThreadProc /\ setup' \in {"mutex", "dismount"}
      <4>1. setup \in After
        BY <3>3, ThreadGoes DEF Running, Before, InLoop, Between, AtBlock, Finishing
      <4> QED
        BY <2>3, <3>3, <4>1, LastSteps DEF NoLongerNeeded, KeysGone
    <3>4. ASSUME NEW m \in Modes, StartThread(m)
          PROVE  setup' \notin {"mutex", "dismount"}
      BY <3>4 DEF StartThread
    <3> QED
      BY <2>1, <2>2, <2>3, <3>2, <3>3, <3>4, SetupCases, ControlFrame DEF KeysGone, setupVars
  <2>4. CASE ~configured
    <3>1. /\ mode = "decrypt" /\ areaStart = -1 /\ areaEnd = -1 /\ PastDevice
          /\ setup \in After \cup {"off"}
          /\ mounted => setup \in {"resumeLast", "saveLast", "saved", "mutex", "dismount"}
      BY <2>4 DEF KeysGone
    <3>2. ~(\E m \in Modes : StartThread(m))
      BY <3>1 DEF StartThread, CGoto, Position, Controlled
    <3>3. ASSUME SetupThreadProc
          PROVE  /\ UNCHANGED <<areaStart, areaEnd, mode>>
                 /\ setup' \in After \cup {"off"}
                 /\ mounted' => setup' \in {"resumeLast", "saveLast", "saved", "mutex", "dismount"}
      <4>1. setup \in After
        BY <3>1, <3>3, ThreadMoves
      <4>2. UNCHANGED <<areaStart, areaEnd, mode>>
        BY <3>3, <4>1, LastSteps DEF requestVars
      <4>3. /\ setup' \in After \cup {"off"}
            /\ mounted' => setup' \in {"resumeLast", "saveLast", "saved", "mutex", "dismount"}
        BY <3>1, <3>3, <4>1, LastSteps, <2>4 DEF NoLongerNeeded, After
      <4> QED
        BY <4>2, <4>3
    <3>4. ASSUME ~SetupThreadProc
          PROVE  /\ UNCHANGED <<areaStart, areaEnd, mode>>
                 /\ setup' \in After \cup {"off"}
                 /\ mounted' => setup' \in {"resumeLast", "saveLast", "saved", "mutex", "dismount"}
      <4>1. UNCHANGED <<areaStart, areaEnd, mode, mounted, setup>>
        BY <3>2, <3>4, SetupCases, ControlFrame, FixedStep DEF setupVars, requestVars, driveVars,
           vars, envVars, areaVars, QueueStep
      <4> QED
        BY <3>1, <4>1
    <3>5. PastDevice'
      <4>1. CASE [QueueStep]_vars
        BY <3>1, <4>1, PastDeviceStep DEF QueueSound, Sound, Area
      <4>2. CASE Moves
        BY <3>1, <4>2 DEF Moves, Elsewhere, PastDevice, queueVars, handVars, Queued
      <4> QED
        BY <4>1, <4>2, QueuePart
    <3> QED
      BY <2>1, <2>2, <2>4, <3>3, <3>4, <3>5, <3>1 DEF KeysGone
  <2> QED
    BY <2>3, <2>4
<1> QED
  BY <1>1, <1>2

(* What is known of the drive, the thread and the queue together.          *)
SetupSound == QueueSound /\ Position /\ BlockRead /\ KeysGone

(* To begin with.                                                          *)
LEMMA SetupSoundInit == SetupInit => SetupSound
<1>1. SetupInit => Position
  BY ControlledInit, PositionInit DEF Position, SetupInit, Holding
<1>2. SetupInit => BlockRead
  BY DEF SetupInit, BlockRead, InWork
<1> QED
  BY <1>1, <1>2, QueueSoundInit, KeysGoneInit DEF SetupSound

(* Every step keeps that.                                                  *)
LEMMA SetupSoundStep == SetupSound /\ [SetupNext]_allVars => SetupSound'
<1> SUFFICES ASSUME SetupSound, [SetupNext]_allVars PROVE SetupSound'
  OBVIOUS
<1>1. Position'
  BY ControlledStep, HoldingStep, PositionStep, HeaderStep DEF Position, SetupSound
<1> QED
  BY <1>1, QueueSoundStep, BlockReadStep, KeysGoneStep DEF SetupSound

(* So it always is.                                                        *)
LEMMA SetupSoundAlways == SetupSpec => []SetupSound
  BY SetupSoundInit, SetupSoundStep, PTL DEF SetupSpec

(* When the keys are freed, nothing that is under way or will come needs   *)
(* them, although the queue runs on.                                       *)
THEOREM KeysAreNotNeeded == SetupSpec => []KeysNotNeeded
<1>1. ASSUME SetupSound
      PROVE  KeysNotNeeded
  <2> SUFFICES ASSUME ~mounted PROVE KeysNotNeeded
    BY DEF KeysNotNeeded
  <2>1. Area = {} /\ PastDevice /\ Links /\ Cut
    BY <1>1 DEF SetupSound, KeysGone, Area, QueueSound, Sound
  <2>2. \A r \in Requests : Pipe(r) => r.enc = {}
    BY <2>1 DEF Cut, Cuts
  <2>3. ASSUME NEW t \in Threads, pc[t] \in UsesKeys
        PROVE  req[t].enc = {}
    <3>1. req[t] \in Requests
      BY <2>1 DEF Links, Shape, RequestShape
    <3>2. CASE t = "main"
      <4>1. pc["main"] \in {"buffer", "queue"}
        BY <2>1, <2>3, <3>2, SMTT(60) DEF Links, Shape, PcShape, UsesKeys, MainPcs, Resting, MainTakes,
           MainOwns, Cutting, Ending
      <4> QED
        BY <2>2, <3>1, <3>2, <4>1 DEF Pipe
    <3>3. CASE t = "io"
      <4>1. pc["io"] \in {"device", "done", "post", "postAhead"}
        BY <2>1, <2>3, <3>3, SMTT(60) DEF Links, Shape, PcShape, UsesKeys, IoPcs, Resting, Ending
      <4> QED
        BY <2>1, <2>2, <3>1, <3>3, <4>1 DEF Pipe, IoUses, PastDevice
    <3>4. t # "completion"
      BY <2>1, <2>3, SMTT(60) DEF Links, Shape, PcShape, UsesKeys, CompletionPcs, Resting, Ending
    <3> QED
      BY <3>2, <3>3, <3>4 DEF Threads
  <2>4. ASSUME NEW n \in DOMAIN queue["io"]
        PROVE  queue["io"][n].enc = {}
    <3>1. queue["io"] \in Seq(Requests)
      BY <2>1 DEF Links, Shape, QueueShape
    <3>2. n \in Queued("io") /\ queue["io"][n] \in Requests
      BY <2>4, <3>1 DEF Queued
    <3> QED
      BY <2>2, <3>2 DEF Pipe
  <2>5. ASSUME NEW n \in DOMAIN queue["completion"]
        PROVE  queue["completion"][n].enc = {}
    <3>1. queue["completion"] \in Seq(Requests)
      BY <2>1 DEF Links, Shape, QueueShape
    <3> QED
      BY <2>1, <2>5, <3>1 DEF Queued, PastDevice
  <2> QED
    BY <2>1, <2>3, <2>4, <2>5 DEF KeysNotNeeded
<1> QED
  BY <1>1, SetupSoundAlways, PTL

-----------------------------------------------------------------------------
(* The drive.                                                              *)

(* The setup has not given up: it goes on, or it says it was successful,   *)
(* or there never was an error.                                            *)
Undamaged == ~keysErased /\ resumable /\ (setup \in Running \/ result = "ok" \/ failures = 0)

(* The data unit a sector is under on its side of the boundary, and on the *)
(* side the thread moves it to.                                            *)
UnitOf(s) == IF s \in Area THEN s ELSE Plain
NewUnit(s) == IF mode = "encrypt" THEN s ELSE Plain

(* Outside the block in work every sector is what the boundary says; the   *)
(* buffer holds what the block is to become, and before the boundary is    *)
(* moved behind it, so does the device.                                    *)
Settled == \A s \in Sectors :
             ~(setup \in InWork /\ s \in SetupBlock) => disk[s][2] = UnitOf(s)
InBuffer == setup \in InWork => \A s \in SetupBlock : buffer[s][2] = NewUnit(s)
OnDevice == setup = "move" => \A s \in SetupBlock : disk[s][2] = NewUnit(s)

(* The header knows the boundary, or the thread knows that it does not.    *)
Saved == {"saved", "mutex", "dismount", "unlock", "exit", "off"}
Noted == /\ setup \in Saved \/ ~headerUpdateRequired => HeaderArea = Area
         /\ mode = "encrypt" /\ headerUpdateRequired => Area # {}

OnTrack ==
  /\ failures \in Nat
  /\ setup = "undo" => failures # 0
  /\ failures = 0 /\ ~keysErased => resumable
  /\ Undamaged => Settled /\ InBuffer /\ OnDevice /\ Noted

(* What a write to the device does to a sector.                            *)
LEMMA Merged ==
  ASSUME NEW f, NEW g, NEW x \in DOMAIN f
  PROVE  Merge(f, g)[x] = IF x \in DOMAIN g THEN g[x] ELSE f[x]
  BY DEF Merge

(* Errors are counted, and never forgotten.                                *)
LEMMA FailuresStep ==
  ASSUME failures \in Nat, [SetupNext]_allVars
  PROVE  failures' \in Nat /\ (failures' = 0 => failures = 0)
<1> USE DEF workVars, diskVars
<1>1. CASE [QueueStep]_vars
  <2>1. failures' = failures \/ failures' = failures + 1
    BY <1>1, FailuresFrame DEF ReadMisaligned, DoPiece
  <2> QED
    BY <2>1
<1>2. CASE AreaSteps
  BY <1>2, ThreadFrame DEF Apart
<1>3. CASE DiskSteps
  <2>1. failures' = failures \/ failures' = failures + 1
    BY <1>3 DEF DiskSteps, ReadBlock, Put, WipeBlock, WriteBlock, UndoBlock, SaveProgress,
       SavesLast, SaveHeader
  <2> QED
    BY <2>1
<1>4. CASE UNCHANGED vars
  BY <1>4 DEF vars
<1> QED
  BY <1>1, <1>2, <1>3, <1>4, SetupCases, ThreadCases, ThreadFrame, ControlFrame DEF QueueStep

(* The keys do not come back.                                              *)
LEMMA KeysStayErased ==
  ASSUME [SetupNext]_allVars
  PROVE  keysErased => keysErased'
<1>1. CASE [QueueStep]_vars
  BY <1>1, KeysStep
<1>2. CASE Moves
  BY <1>2 DEF Moves, keyVars
<1> QED
  BY <1>1, <1>2, QueuePart

(* A setup that has once given up stays so.                                *)
LEMMA UndamagedBefore ==
  ASSUME failures \in Nat, [SetupNext]_allVars, ~(\E m \in Modes : StartThread(m)), Undamaged'
  PROVE  Undamaged /\ ~(SetupThreadProc /\ setup' \notin Running /\ result' = "failed" /\ failures' # 0)
<1>1. ~keysErased
  BY KeysStayErased DEF Undamaged
<1>2. CASE ~SetupThreadProc
  <2>1. UNCHANGED <<setup, resumable, result>>
    BY <1>2, SetupCases, ControlFrame DEF setupVars, requestVars
  <2> QED
    BY <1>1, <1>2, <2>1, FailuresStep DEF Undamaged
<1>3. CASE SetupThreadProc
  <2>1. resumable' = resumable
    BY <1>3, ThreadCases, ThreadFrame DEF requestVars
  <2>2. CASE setup \in Running
    BY <1>1, <2>1, <2>2 DEF Undamaged
  <2>3. CASE setup \notin Running
    <3>1. result' = result \/ result' = "failed"
      <4>1. CASE Calls \/ Releases
        BY <4>1, ThreadFrame
      <4>2. CASE Looks
        BY <2>3, <4>2 DEF Looks, IsHeld, IsNotHeld, Held, NotHeld, TestDecrypted, HoldLastFailed,
           NothingToSave, TestConfigured, TryRootMutex, DismountDrive, ReleaseRootMutex, Exit, Step,
           Running, Before, InLoop, AtBlock
      <4>3. CASE AreaSteps
        BY <2>3, <4>3 DEF AreaSteps, BeginEncryption, BeginDecryption, NextBlock, MoveAreaEnd,
           CountWritten, EndOfLoop, ClearArea, Step, Running, Before, InLoop, AtBlock, Between
      <4>4. CASE DiskSteps
        BY <2>3, <4>4 DEF DiskSteps, ReadBlock, Put, WipeBlock, WriteBlock, UndoBlock, SaveProgress,
           SavesLast, SaveHeader, LastSaveFailed, Step, Running, Before, InLoop, AtBlock
      <4> QED
        BY <1>3, <4>1, <4>2, <4>3, <4>4, ThreadCases
    <3>2. setup' \notin Running
      BY <1>3, <2>3, ThreadGoes, LastSteps DEF Running, Finishing, Before, InLoop, Between, AtBlock,
         After
    <3> QED
      BY <1>1, <2>1, <3>1, <3>2, FailuresStep DEF Undamaged
  <2> QED
    BY <2>2, <2>3 DEF Undamaged
<1> QED
  BY <1>2, <1>3

(* What a save writes into the header is where the boundary is.            *)
LEMMA NewHeaderRight ==
  ASSUME Bounded, header' = NewHeader, Area' = Area, mode = "encrypt" /\ Area = {} => HeaderArea = Area
  PROVE  HeaderArea' = Area'
<1> USE SetupAssumption
<1>1. CASE Area # {}
  <2>1. areaStart = ConfiguredStart /\ areaEnd \in ConfiguredStart..ConfiguredEnd
        /\ Area = ConfiguredStart..areaEnd
    BY <1>1 DEF Area, Bounded
  <2>2. header' = areaEnd + 1 - ConfiguredStart
    BY <1>1, <2>1 DEF NewHeader
  <2> QED
    BY <2>1, <2>2 DEF HeaderArea
<1>2. CASE Area = {} /\ mode = "decrypt"
  BY <1>2 DEF NewHeader, HeaderArea
<1>3. CASE Area = {} /\ mode = "encrypt"
  BY <1>3 DEF NewHeader, HeaderArea
<1> QED
  BY <1>1, <1>2, <1>3 DEF Bounded

(* A write of the queue leaves a sector under the data unit it is to have. *)
LEMMA QueueKeepsUnits ==
  ASSUME QueueSound, [QueueStep]_vars, disk' # disk
  PROVE  /\ \A s \in Sectors : disk'[s] = disk[s] \/ disk'[s][2] = UnitOf(s)
         /\ hold # "held"
<1> USE DEF QueueSound
<1>1. DoPiece
  BY DiskFrame
<1>2. irp[item[own["io"]].irp].op = "write" /\ WritePiece(todo[1])
  BY <1>1, PieceDone DEF ReadPiece, Sound
<1>3. \A s \in Sectors :
        disk'[Location(s, Area)] =
          IF s \in todo[1]
          THEN <<item[own["io"]].irp, IF s \in Area THEN Unit(s) ELSE Plain>>
          ELSE disk[Location(s, Area)]
  BY <1>1, <1>2, PieceWritten DEF Sound
<1>4. \A s : Location(s, Area) = s /\ Unit(s) = s
  BY DEF Location, Unit
<1>5. hold # "held"
  BY <1>1 DEF DoPiece, Sound, HeldSafely, Quiet, Still, Resting, Threads
<1>6. ASSUME NEW s \in Sectors
      PROVE  disk'[s] = disk[s] \/ disk'[s][2] = UnitOf(s)
  <2>1. disk'[s] = IF s \in todo[1] THEN <<item[own["io"]].irp, UnitOf(s)>> ELSE disk[s]
    BY <1>3, <1>4 DEF UnitOf
  <2> QED
    BY <2>1
<1> QED
  BY <1>5, <1>6

(* To begin with.                                                          *)
LEMMA OnTrackInit == SetupInit => OnTrack
<1> SUFFICES ASSUME SetupInit PROVE OnTrack
  OBVIOUS
<1>1. /\ setup = "off" /\ failures = 0 /\ resumable = TRUE /\ mode = "encrypt"
      /\ headerUpdateRequired = FALSE /\ header = HeaderOf(areaStart, areaEnd) /\ ~remap
      /\ disk = [l \in Locations |->
           IF remap THEN <<NoIrp, IF l - RemapOffset \in Area THEN l ELSE Plain>>
           ELSE <<NoIrp, IF l \in Area THEN l ELSE Plain>>]
  BY DEF SetupInit, Init
<1>2. Settled /\ InBuffer /\ OnDevice
  BY <1>1 DEF Settled, InBuffer, OnDevice, InWork, UnitOf, Locations
<1>3. HeaderArea = Area
  <2>1. PICK a \in Areas : areaStart = a[1] /\ areaEnd = a[2]
    BY DEF SetupInit, Init
  <2>2. \/ areaStart = -1 /\ areaEnd = -1
        \/ areaStart = ConfiguredStart /\ areaEnd \in ConfiguredStart..ConfiguredEnd
    BY <2>1, MountAssumption
  <2> QED
    BY <1>1, <2>2, SetupAssumption DEF HeaderOf, HeaderArea, Area
<1> QED
  BY <1>1, <1>2, <1>3 DEF OnTrack, Noted

(* Whenever a setup is started; one that never met an error has left the   *)
(* drive so that it can be resumed.                                        *)
LEMMA OnTrackStart ==
  ASSUME OnTrack, Controlled, NEW m \in Modes, StartThread(m)
  PROVE  OnTrack'
<1>1. /\ setup' = "holdBegin" /\ resumable' = Resumable /\ headerUpdateRequired' = FALSE
      /\ UNCHANGED <<disk, failures, keysErased, areaStart, areaEnd, header>>
  BY DEF StartThread, vars, workVars, diskVars, envVars, areaVars, keyVars, driveVars
<1>2. Area' = Area /\ HeaderArea' = HeaderArea
  BY <1>1 DEF Area, HeaderArea
<1>3. ASSUME Resumable
      PROVE  (Settled /\ InBuffer /\ OnDevice /\ Noted)'
  <2>1. HeaderArea = Area
    BY <1>3 DEF Resumable
  <2>2. \A s \in Sectors : disk[s][2] = IF s \in Area THEN s ELSE Plain
    BY <1>3, <2>1 DEF Resumable, LostByRestart
  <2>3. Settled'
    BY <1>1, <1>2, <2>2 DEF Settled, UnitOf
  <2> QED
    BY <1>1, <1>2, <2>1, <2>3 DEF InBuffer, OnDevice, Noted, InWork, Saved
<1>4. ASSUME failures = 0, ~keysErased
      PROVE  Resumable
  <2>1. setup = "off"
    BY DEF StartThread, CGoto, Controlled
  <2>2. Settled /\ Noted
    BY <1>4 DEF OnTrack, Undamaged
  <2> QED
    BY <2>1, <2>2 DEF Resumable, LostByRestart, Settled, Noted, UnitOf, InWork, Saved
<1> QED
  BY <1>1, <1>3, <1>4 DEF OnTrack, Undamaged

(* What every step of the thread that moves neither the boundary nor the   *)
(* header, nor writes to the device, keeps.                                *)
LEMMA OnTrackKept ==
  ASSUME Settled, InBuffer, OnDevice, Noted,
         UNCHANGED <<disk, mode, header, headerUpdateRequired>>, Area' = Area,
         \/ UNCHANGED <<setup, offset, blockLen, buffer>>
         \/ setup \notin InWork /\ setup' \notin InWork,
         setup' \in Saved => setup \in Saved \/ (setup = "saveLast" /\ ~headerUpdateRequired)
  PROVE  (Settled /\ InBuffer /\ OnDevice /\ Noted)'
<1>1. HeaderArea' = HeaderArea
  BY DEF HeaderArea
<1>2. Noted'
  BY <1>1 DEF Noted
<1>3. \A s : UnitOf(s)' = UnitOf(s) /\ NewUnit(s)' = NewUnit(s)
  BY DEF UnitOf, NewUnit
<1>4. CASE UNCHANGED <<setup, offset, blockLen, buffer>>
  <2>1. SetupBlock' = SetupBlock
    BY <1>4 DEF SetupBlock, Span
  <2> QED
    BY <1>2, <1>3, <1>4, <2>1 DEF Settled, InBuffer, OnDevice
<1>5. CASE setup \notin InWork /\ setup' \notin InWork
  <2>1. Settled'
    BY <1>3, <1>5 DEF Settled
  <2>2. setup' # "move"
    BY <1>5 DEF InWork
  <2> QED
    BY <1>2, <1>5, <2>1, <2>2 DEF InBuffer, OnDevice
<1> QED
  BY <1>4, <1>5

(* The steps of the queue and the device controls.                         *)
LEMMA OnTrackOthers ==
  ASSUME QueueSound, Position, Settled, InBuffer, OnDevice, Noted, [SetupNext]_allVars,
         ~SetupThreadProc, ~(\E m \in Modes : StartThread(m))
  PROVE  (Settled /\ InBuffer /\ OnDevice /\ Noted)'
<1>1. /\ UNCHANGED <<setup, mode, offset, blockLen, buffer, header, headerUpdateRequired>>
      /\ [QueueStep]_vars
  BY SetupCases, ControlFrame DEF setupVars, requestVars, localVars, driveVars, QueueStep
<1>2. Area' = Area
  BY <1>1, FixedStep DEF Area
<1>3. CASE disk' = disk
  BY <1>1, <1>2, <1>3, OnTrackKept
<1>4. CASE disk' # disk
  <2>1. setup \notin InWork
    BY <1>1, <1>4, QueueKeepsUnits DEF Position, Holding, InWork, QueueSound
  <2>2. \A s : UnitOf(s)' = UnitOf(s)
    BY <1>2 DEF UnitOf
  <2>3. Settled'
    <3> SUFFICES ASSUME NEW s \in Sectors PROVE disk'[s][2] = UnitOf(s)
      BY <2>2 DEF Settled
    <3>1. disk[s][2] = UnitOf(s)
      BY <2>1 DEF Settled
    <3> QED
      BY <1>1, <3>1, QueueKeepsUnits
  <2>4. HeaderArea' = HeaderArea
    BY <1>1 DEF HeaderArea
  <2> QED
    BY <1>1, <1>2, <2>1, <2>3, <2>4 DEF InBuffer, OnDevice, Noted, InWork
<1> QED
  BY <1>3, <1>4

(* The calls of the queue and what only looks.                             *)
LEMMA OnTrackCalls ==
  ASSUME Settled, InBuffer, OnDevice, Noted, Calls \/ Releases \/ Looks
  PROVE  (Settled /\ InBuffer /\ OnDevice /\ Noted)'
<1>1. UNCHANGED <<disk, mode, header, headerUpdateRequired>>
  BY ThreadFrame DEF HoldEnter, ResumeFromHold, workVars, diskVars, requestVars, localVars,
     driveVars, vars
<1>2. Area' = Area
  BY ThreadFrame, FixedStep DEF Area, QueueStep, vars, envVars, areaVars
<1>3. /\ setup \notin InWork /\ setup' \notin InWork
      /\ setup' \in Saved => setup \in Saved \/ (setup = "saveLast" /\ ~headerUpdateRequired)
  <2> USE DEF Step, InWork, Saved
  <2>1. CASE Calls \/ Releases
    BY <2>1 DEF Calls, Releases, CallHold, Release
  <2>2. CASE Looks
    BY <2>2 DEF Looks, IsHeld, IsNotHeld, Held, NotHeld, TestDecrypted, HoldLastFailed,
       NothingToSave, TestConfigured, TryRootMutex, DismountDrive, ReleaseRootMutex, Exit
  <2> QED
    BY <2>1, <2>2
<1> QED
  BY <1>1, <1>2, <1>3, OnTrackKept

(* The boundary is moved behind the block, and over nothing else.          *)
LEMMA MovedArea ==
  ASSUME Position, MoveAreaEnd
  PROVE  /\ \A s \in Sectors : (s \in Area') <=>
              IF s \in SetupBlock THEN mode = "encrypt" ELSE s \in Area
         /\ mode = "encrypt" => Area' # {}
<1>1. /\ setup = "move" /\ areaStart' = areaStart /\ offset' = NextOffset /\ areaEnd' = offset' - 1
  BY DEF MoveAreaEnd, Step
<1>2. /\ mode \in {"encrypt", "decrypt"} /\ areaStart = ConfiguredStart
      /\ offset \in Int /\ blockLen \in Nat /\ blockLen >= 1 /\ offset >= ConfiguredStart
      /\ offset + (IF mode = "encrypt" THEN 0 ELSE blockLen) = Boundary
      /\ areaEnd \in Int
  BY <1>1, SetupAssumption DEF Position, Bounded, Located, AtBlock, InLoop
<1>3. CASE mode = "encrypt"
  <2>1. /\ areaEnd' = offset + blockLen - 1
        /\ areaEnd = -1 => offset = ConfiguredStart
        /\ areaEnd # -1 => offset = areaEnd + 1
    BY <1>1, <1>2, <1>3 DEF NextOffset, Boundary
  <2>2. Area' = ConfiguredStart..offset + blockLen - 1 /\ Area' # {}
    <3>1. areaStart' = ConfiguredStart /\ ConfiguredStart # -1
      BY <1>1, <1>2, SetupAssumption
    <3>2. areaEnd' >= ConfiguredStart /\ areaEnd' \in Int /\ areaEnd' # -1
      BY <1>2, <2>1, SetupAssumption
    <3>3. Area' = ConfiguredStart..areaEnd'
      BY <3>1, <3>2 DEF Area
    <3>4. ConfiguredStart \in Area'
      BY <3>2, <3>3, SetupAssumption
    <3> QED
      BY <2>1, <3>3, <3>4
  <2>3. \A s \in Int : (s \in Area') <=> (s \in Area \/ s \in SetupBlock)
    <3>1. CASE areaEnd = -1
      BY <1>2, <2>1, <2>2, <3>1, SetupAssumption DEF Area, SetupBlock, Span
    <3>2. CASE areaEnd # -1
      <4>1. Area = ConfiguredStart..areaEnd
        BY <1>2, <3>2, SetupAssumption DEF Area
      <4>2. offset = areaEnd + 1
        BY <2>1, <3>2
      <4> QED
        BY <1>2, <2>2, <4>1, <4>2, SetupAssumption DEF SetupBlock, Span
    <3> QED
      BY <3>1, <3>2
  <2>4. \A s \in Sectors : s \in Int
    BY QueueAssumption
  <2> QED
    BY <1>3, <2>2, <2>3, <2>4
<1>4. CASE mode = "decrypt"
  <2>1. /\ areaEnd' = offset - 1 /\ offset + blockLen = areaEnd + 1 /\ areaEnd # -1
    BY <1>1, <1>2, <1>4, SetupAssumption DEF NextOffset, Boundary
  <2>2. \A s \in Int : (s \in Area') <=> (s \in Area /\ s \notin SetupBlock)
    BY <1>1, <1>2, <2>1, SetupAssumption DEF Area, SetupBlock, Span
  <2>3. \A s \in Sectors : s \in Int
    BY QueueAssumption
  <2> QED
    BY <1>4, <2>2, <2>3
<1> QED
  BY <1>2, <1>3, <1>4

(* The moves of the boundary.                                              *)
LEMMA OnTrackArea ==
  ASSUME Position, Settled, InBuffer, OnDevice, Noted, AreaSteps, [SetupNext]_allVars
  PROVE  (Settled /\ InBuffer /\ OnDevice /\ Noted)'
<1>1. UNCHANGED <<disk, mode, header>>
  BY ThreadFrame DEF Apart, workVars, diskVars, requestVars
<1>2. CASE ~MoveAreaEnd /\ ~ClearArea
  <2>1. Area' = Area
    BY <1>2, AreaCases DEF Position
  <2>2. /\ setup \notin InWork /\ setup' \notin InWork /\ setup' \notin Saved
        /\ UNCHANGED headerUpdateRequired
    BY <1>2 DEF AreaSteps, BeginEncryption, BeginDecryption, NextBlock, CountWritten, EndOfLoop,
       localVars, InWork, Saved, Step
  <2> QED
    BY <1>1, <2>1, <2>2, OnTrackKept
<1>3. CASE MoveAreaEnd
  <2>1. setup = "move" /\ setup' = "resumeBlock" /\ headerUpdateRequired' = TRUE
    BY <1>3 DEF MoveAreaEnd, Step
  <2>2. Settled'
    <3> SUFFICES ASSUME NEW s \in Sectors PROVE disk[s][2] = IF s \in Area' THEN s ELSE Plain
      BY <1>1, <2>1 DEF Settled, UnitOf, InWork
    <3> QED
      BY <1>3, <2>1, MovedArea DEF Settled, OnDevice, UnitOf, NewUnit
  <2>3. mode = "encrypt" => Area' # {}
    BY <1>3, MovedArea
  <2> QED
    BY <1>1, <2>1, <2>2, <2>3 DEF InBuffer, OnDevice, Noted, InWork, Saved
<1>4. CASE ClearArea
  <2>1. /\ setup = "clear" /\ setup' = "resumeLast" /\ headerUpdateRequired' = TRUE
        /\ areaStart' = -1 /\ areaEnd' = -1
    BY <1>4 DEF ClearArea, Step
  <2>2. mode = "decrypt" /\ Area = {}
    BY <2>1 DEF Position, Bounded
  <2>3. Area' = {}
    BY <2>1 DEF Area
  <2>4. \A s : UnitOf(s)' = UnitOf(s)
    BY <2>2, <2>3 DEF UnitOf
  <2> QED
    BY <1>1, <2>1, <2>2, <2>4 DEF Settled, InBuffer, OnDevice, Noted, InWork, Saved
<1> QED
  BY <1>2, <1>3, <1>4

(* The block the thread transforms is on its old side of the boundary.     *)
LEMMA BlockSide ==
  ASSUME Position, setup \in AtBlock, NEW s \in SetupBlock
  PROVE  /\ s \in Sectors /\ s # Plain
         /\ (s \in Area) <=> (mode = "decrypt")
<1> USE SetupAssumption
<1>1. s \in Sectors /\ s \in Nat
  BY BlockInside, QueueAssumption
<1>2. /\ mode \in {"encrypt", "decrypt"} /\ areaStart = ConfiguredStart
      /\ offset \in Int /\ blockLen \in Nat /\ blockLen >= 1 /\ offset >= ConfiguredStart
      /\ offset + (IF mode = "encrypt" THEN 0 ELSE blockLen) = Boundary
      /\ areaEnd \in Int
  BY DEF Position, Bounded, Located, AtBlock, InLoop
<1>3. s >= offset /\ s < offset + blockLen
  BY <1>1, <1>2 DEF SetupBlock, Span
<1>4. CASE mode = "encrypt"
  BY <1>1, <1>2, <1>3, <1>4 DEF Area, Boundary, Plain
<1>5. CASE mode = "decrypt"
  <2>1. offset + blockLen = areaEnd + 1 /\ areaEnd # -1
    BY <1>2, <1>5 DEF Boundary
  <2> QED
    BY <1>1, <1>2, <1>3, <1>5, <2>1 DEF Area, Plain
<1> QED
  BY <1>2, <1>4, <1>5

(* A block that has been read.                                             *)
LEMMA OnTrackRead ==
  ASSUME Position, ~keysErased, Settled, Noted, ReadBlock, setup' # "end"
  PROVE  (Settled /\ InBuffer /\ OnDevice /\ Noted)'
<1>1. /\ setup = "read" /\ setup' \in {"wipe", "write"}
      /\ buffer' = [s \in SetupBlock |-> Transformed(disk[s], s)]
      /\ UNCHANGED <<disk, mode, offset, blockLen, headerUpdateRequired, header>>
  BY DEF ReadBlock, Step, requestVars, driveVars
<1>2. UNCHANGED <<areaStart, areaEnd>>
  BY DEF ReadBlock, ApartFromDisk, envVars, areaVars
<1>3. Area' = Area /\ SetupBlock' = SetupBlock /\ HeaderArea' = HeaderArea
  BY <1>1, <1>2 DEF Area, SetupBlock, Span, HeaderArea
<1>4. \A s : UnitOf(s)' = UnitOf(s) /\ NewUnit(s)' = NewUnit(s)
  BY <1>1, <1>3 DEF UnitOf, NewUnit
<1>5. Settled'
  BY <1>1, <1>3, <1>4 DEF Settled, InWork
<1>6. InBuffer'
  <2> SUFFICES ASSUME NEW s \in SetupBlock PROVE buffer'[s][2] = NewUnit(s)
    BY <1>3, <1>4 DEF InBuffer
  <2>1. s \in Sectors /\ s # Plain /\ ((s \in Area) <=> (mode = "decrypt"))
    BY <1>1, BlockSide DEF AtBlock
  <2>2. disk[s][2] = UnitOf(s)
    BY <1>1, <2>1 DEF Settled, InWork
  <2>3. mode \in {"encrypt", "decrypt"}
    BY DEF Position, Bounded
  <2>4. buffer'[s] = <<disk[s][1], NewUnit(s)>>
    BY <1>1, <2>1, <2>2, <2>3 DEF Transformed, Encrypt, Decrypt, Opened, UnitOf, NewUnit
  <2> QED
    BY <2>4
<1> QED
  BY <1>1, <1>3, <1>5, <1>6 DEF OnDevice, Noted, Saved

(* A block that is wiped or written.                                       *)
LEMMA OnTrackWrite ==
  ASSUME QueueSound, Position, BlockRead, Settled, InBuffer, Noted, WipeBlock \/ WriteBlock,
         [SetupNext]_allVars
  PROVE  (Settled /\ InBuffer /\ OnDevice /\ Noted)'
<1>1. /\ setup \in {"wipe", "write"} /\ setup' \in {"wipe", "write", "undo", "move"}
      /\ UNCHANGED <<mode, offset, blockLen, buffer, headerUpdateRequired, header>>
      /\ setup' = "move" => disk' = Merge(disk, buffer)
  BY DEF WipeBlock, WriteBlock, Put, Step, requestVars, localVars, driveVars
<1>2. UNCHANGED <<areaStart, areaEnd>>
  BY DEF WipeBlock, WriteBlock, ApartFromDisk, envVars, areaVars
<1>3. Area' = Area /\ SetupBlock' = SetupBlock /\ HeaderArea' = HeaderArea
  BY <1>1, <1>2 DEF Area, SetupBlock, Span, HeaderArea
<1>4. \A s : UnitOf(s)' = UnitOf(s) /\ NewUnit(s)' = NewUnit(s)
  BY <1>1, <1>3 DEF UnitOf, NewUnit
<1>5. DOMAIN buffer = SetupBlock /\ DOMAIN disk = Locations /\ Sectors \subseteq Locations
  BY <1>1 DEF BlockRead, InWork, QueueSound, HasPlaces, Locations
<1>6. \A s \in Sectors : s \notin SetupBlock => disk'[s] = disk[s]
  <2>1. CASE disk' = disk
    BY <2>1
  <2>2. CASE [QueueStep]_vars /\ disk' # disk
    BY <1>1, <2>2, QueueKeepsUnits DEF Position, Holding
  <2>3. ASSUME NEW f, disk' = Merge(disk, f), DOMAIN f \subseteq SetupBlock \cup DOMAIN buffer
        PROVE  \A s \in Sectors : s \notin SetupBlock => disk'[s] = disk[s]
    BY <1>5, <2>3, Merged
  <2> QED
    BY <2>1, <2>2, <2>3, DiskCases
<1>7. Settled'
  BY <1>1, <1>3, <1>4, <1>6 DEF Settled, InWork
<1>8. InBuffer'
  BY <1>1, <1>3, <1>4 DEF InBuffer, InWork
<1>9. OnDevice'
  <2> SUFFICES ASSUME setup' = "move", NEW s \in SetupBlock PROVE disk'[s][2] = NewUnit(s)
    BY <1>3, <1>4 DEF OnDevice
  <2>1. disk'[s] = buffer[s]
    BY <1>1, <1>5, BlockSide, Merged DEF AtBlock
  <2> QED
    BY <1>1, <2>1 DEF InBuffer, InWork
<1> QED
  BY <1>1, <1>3, <1>7, <1>8, <1>9 DEF Noted, Saved

(* A save, unless it is the last and failed.                               *)
LEMMA OnTrackSave ==
  ASSUME Position, failures \in Nat, Settled, InBuffer, OnDevice, Noted, SaveProgress \/ SavesLast,
         ~(setup' \notin Running /\ result' = "failed" /\ failures' # 0)
  PROVE  (Settled /\ InBuffer /\ OnDevice /\ Noted)'
<1>1. /\ UNCHANGED <<disk, mode, offset, blockLen, buffer>>
      /\ setup \in {"save", "saveLast"}
      /\ setup = "save" => setup' = "loop"
      /\ setup = "saveLast" => setup' = "saved"
  BY DEF SaveProgress, SavesLast, SaveHeader, Step, requestVars
<1>2. UNCHANGED <<areaStart, areaEnd>>
  BY DEF SaveProgress, SavesLast, SaveHeader, ApartFromDisk, envVars, areaVars
<1>3. Area' = Area
  BY <1>2 DEF Area
<1>4. \A s : UnitOf(s)' = UnitOf(s)
  BY <1>3 DEF UnitOf
<1>5. Settled' /\ InBuffer' /\ OnDevice'
  BY <1>1, <1>4 DEF Settled, InBuffer, OnDevice, InWork
<1>6. mode = "encrypt" /\ Area = {} => HeaderArea = Area
  BY DEF Noted
<1>7. CASE header' = NewHeader
  <2>1. HeaderArea' = Area'
    BY <1>3, <1>6, <1>7, NewHeaderRight DEF Position
  <2>2. headerUpdateRequired' = headerUpdateRequired \/ headerUpdateRequired' = FALSE
    BY DEF SaveProgress, SavesLast, SaveHeader
  <2> QED
    BY <1>1, <1>3, <1>5, <2>1, <2>2 DEF Noted
<1>8. CASE header' = header /\ header' # NewHeader
  <2>1. failures' = failures + 1 /\ headerUpdateRequired' = headerUpdateRequired
    BY <1>8 DEF SaveProgress, SavesLast, SaveHeader
  <2>2. setup = "saveLast" => result' = "failed" /\ setup' = "saved"
    BY <1>1, <1>8 DEF SaveProgress, SavesLast, SaveHeader, LastSaveFailed, Step
  <2>3. setup = "save"
    BY <1>1, <2>1, <2>2 DEF Running, Before, InLoop, Between, AtBlock
  <2>4. HeaderArea' = HeaderArea
    BY <1>8 DEF HeaderArea
  <2> QED
    BY <1>1, <1>3, <1>5, <2>1, <2>3, <2>4 DEF Noted, Saved
<1> QED
  BY <1>7, <1>8 DEF SaveProgress, SavesLast, SaveHeader

(* Every step keeps the drive on track, as long as the setup does not give *)
(* up.                                                                     *)
LEMMA OnTrackStep ==
  ASSUME OnTrack, SetupSound, [SetupNext]_allVars
  PROVE  OnTrack'
<1> USE DEF SetupSound
<1>1. failures' \in Nat /\ (failures' = 0 => failures = 0)
  BY FailuresStep DEF OnTrack
<1>2. ASSUME NEW m \in Modes, StartThread(m)
      PROVE  OnTrack'
  BY <1>2, OnTrackStart DEF Position
<1>3. CASE ~(\E m \in Modes : StartThread(m))
  <2>1. setup' = "undo" => failures' # 0
    <3>1. CASE setup = "undo"
      BY <1>1, <3>1 DEF OnTrack
    <3>2. CASE WipeBlock \/ WriteBlock
      BY <3>2 DEF WipeBlock, WriteBlock, Put, Step, OnTrack
    <3>3. setup' = "undo" => setup' = setup \/ WipeBlock \/ WriteBlock
      <4>1. ReadBlock => setup' # "undo"
        BY DEF ReadBlock, Step
      <4> QED
        BY <4>1, WorkCases DEF InWork
    <3> QED
      BY <3>1, <3>2, <3>3
  <2>2. failures' = 0 /\ ~keysErased' => resumable'
    <3>1. resumable' = resumable
      BY <1>3, SetupCases, ThreadCases, ThreadFrame, ControlFrame DEF setupVars, requestVars
    <3> QED
      BY <1>1, <3>1, KeysStayErased DEF OnTrack
  <2>3. ASSUME Undamaged'
        PROVE  (Settled /\ InBuffer /\ OnDevice /\ Noted)'
    <3>1. /\ Undamaged /\ Settled /\ InBuffer /\ OnDevice /\ Noted
          /\ ~(SetupThreadProc /\ setup' \notin Running /\ result' = "failed" /\ failures' # 0)
      BY <1>3, <2>3, UndamagedBefore DEF OnTrack
    <3>2. ~keysErased
      BY <3>1 DEF Undamaged
    <3>3. CASE ~SetupThreadProc
      BY <1>3, <3>1, <3>3, OnTrackOthers
    <3>4. CASE Calls \/ Releases \/ Looks
      BY <3>1, <3>4, OnTrackCalls
    <3>5. CASE AreaSteps
      BY <3>1, <3>5, OnTrackArea
    <3>6. CASE ReadBlock /\ SetupThreadProc
      <4>1. setup' # "end"
        <5>1. setup' = "end" => result' = "failed" /\ failures' = failures + 1
          BY <3>6 DEF ReadBlock, Step
        <5>2. failures + 1 # 0
          BY DEF OnTrack
        <5> QED
          BY <3>1, <3>6, <5>1, <5>2 DEF Running, Before, InLoop, Between, AtBlock
      <4> QED
        BY <3>1, <3>2, <3>6, <4>1, OnTrackRead
    <3>7. CASE WipeBlock \/ WriteBlock
      BY <3>1, <3>7, OnTrackWrite
    <3>8. CASE UndoBlock /\ SetupThreadProc
      <4>1. setup = "undo" /\ setup' = "end" /\ result' = "failed"
        BY <3>8 DEF UndoBlock, Put, Step
      <4>2. failures' # 0
        BY <1>1, <4>1 DEF OnTrack
      <4> QED
        BY <3>1, <3>8, <4>1, <4>2 DEF Running, Before, InLoop, Between, AtBlock
    <3>9. CASE (SaveProgress \/ SavesLast) /\ SetupThreadProc
      BY <3>1, <3>9, OnTrackSave DEF OnTrack
    <3> QED
      BY <3>3, <3>4, <3>5, <3>6, <3>7, <3>8, <3>9, ThreadCases DEF DiskSteps
  <2> QED
    BY <1>1, <2>1, <2>2, <2>3 DEF OnTrack
<1> QED
  BY <1>2, <1>3

(* So it always is.                                                        *)
LEMMA OnTrackAlways == SetupSpec => []OnTrack
  BY OnTrackInit, OnTrackStep, SetupSoundAlways, PTL DEF SetupSpec

(* A setup that ends or is aborted and says it was successful, whatever    *)
(* errors it met, leaves a drive that a restart can go on with, if that    *)
(* was so when it was started.                                             *)
THEOREM SetupCanBeResumed == SetupSpec => []CanBeResumed
<1>1. ASSUME OnTrack
      PROVE  CanBeResumed
  <2> SUFFICES ASSUME setup = "off", result = "ok", resumable, ~keysErased PROVE Resumable
    BY DEF CanBeResumed
  <2>1. Settled /\ Noted
    BY <1>1 DEF OnTrack, Undamaged
  <2> QED
    BY <2>1 DEF Resumable, LostByRestart, Settled, Noted, UnitOf, InWork, Saved
<1> QED
  BY <1>1, OnTrackAlways, PTL

-----------------------------------------------------------------------------
(* What a power failure costs.                                             *)

(* How far the header lags behind the boundary.                            *)
HeaderEnd == IF header = -1 THEN ConfiguredStart ELSE ConfiguredStart + header
AreaStop == IF areaEnd = -1 THEN ConfiguredStart ELSE areaEnd + 1
Lag == IF mode = "encrypt" THEN AreaStop - HeaderEnd ELSE HeaderEnd - AreaStop

(* Without errors that is what was written since the last save; a block    *)
(* whose boundary has just been moved is not yet counted.                  *)
Lagging ==
  failures = 0 /\ ~keysErased /\ setup \notin Saved =>
    /\ sinceUpdate \in 0..(HeaderThreshold - 1 + (IF setup = "save" THEN BlockSize ELSE 0))
    /\ Lag = sinceUpdate + (IF setup \in {"resumeBlock", "written"} THEN blockLen ELSE 0)

(* The two areas by their ends.                                            *)
LEMMA AreaByEnd ==
  ASSUME Bounded, NEW s \in Int
  PROVE  (s \in Area) <=> (ConfiguredStart <= s /\ s < AreaStop)
<1> USE SetupAssumption
<1>1. CASE areaEnd = -1
  BY <1>1 DEF Area, AreaStop
<1>2. CASE areaEnd # -1
  <2>1. areaStart = ConfiguredStart /\ areaEnd \in Int
    BY <1>2 DEF Bounded
  <2> QED
    BY <1>2, <2>1 DEF Area, AreaStop
<1> QED
  BY <1>1, <1>2

(* The same of the header's.                                               *)
LEMMA HeaderByEnd ==
  ASSUME HeaderInRange, NEW s \in Int
  PROVE  (s \in HeaderArea) <=> (ConfiguredStart <= s /\ s < HeaderEnd)
<1> USE SetupAssumption
<1>1. CASE header = -1
  BY <1>1 DEF HeaderArea, HeaderEnd
<1>2. CASE header # -1
  BY <1>2 DEF HeaderArea, HeaderEnd, HeaderInRange
<1> QED
  BY <1>1, <1>2

(* Areas that are the same have the same end.                              *)
LEMMA EndsAgree ==
  ASSUME Bounded, HeaderInRange, HeaderArea = Area
  PROVE  HeaderEnd = AreaStop
<1> USE SetupAssumption
<1>1. /\ HeaderEnd \in Int /\ AreaStop \in Int
      /\ HeaderEnd >= ConfiguredStart /\ AreaStop >= ConfiguredStart
  BY DEF HeaderEnd, AreaStop, Bounded, HeaderInRange
<1>2. HeaderEnd < AreaStop => FALSE
  BY <1>1, AreaByEnd, HeaderByEnd
<1>3. AreaStop < HeaderEnd => FALSE
  BY <1>1, AreaByEnd, HeaderByEnd
<1> QED
  BY <1>1, <1>2, <1>3

(* The steps that change neither end.                                      *)
LEMMA LaggingKept ==
  ASSUME Lagging, failures = 0, ~keysErased, setup \notin Saved,
         UNCHANGED <<header, mode, sinceUpdate>>, AreaStop' = AreaStop,
         setup' = setup \/ setup \notin {"resumeBlock", "written", "save"},
         setup' = setup \/ setup' \notin {"resumeBlock", "written", "save"},
         setup \in {"resumeBlock", "written"} => blockLen' = blockLen
  PROVE  Lagging'
<1>1. HeaderEnd' = HeaderEnd
  BY DEF HeaderEnd
<1>2. Lag' = Lag
  BY <1>1 DEF Lag
<1> QED
  BY <1>2 DEF Lagging

(* When a setup is started the header is right.                            *)
LEMMA LaggingStart ==
  ASSUME OnTrack, OnTrack', Position', NEW m \in Modes, StartThread(m)
  PROVE  Lagging'
<1>1. setup' = "holdBegin" /\ sinceUpdate' = 0 /\ headerUpdateRequired' = FALSE
  BY DEF StartThread
<1> SUFFICES ASSUME failures' = 0, ~keysErased' PROVE Lagging'
  BY DEF Lagging
<1>2. HeaderArea' = Area'
  BY <1>1 DEF OnTrack, Undamaged, Noted
<1>3. /\ HeaderEnd' = AreaStop'
      /\ HeaderEnd' \in Int
  <2>1. (Bounded /\ HeaderInRange)'
    BY DEF Position
  <2>2. (Bounded /\ HeaderInRange /\ HeaderArea = Area => HeaderEnd = AreaStop)'
    BY EndsAgree, PTL
  <2> QED
    BY <1>2, <2>1, <2>2, SetupAssumption DEF HeaderEnd, HeaderInRange
<1>4. Lag' = 0
  <2>1. \A x \in Int : x - x = 0
    OBVIOUS
  <2>2. Lag' = IF mode' = "encrypt" THEN HeaderEnd' - HeaderEnd' ELSE HeaderEnd' - HeaderEnd'
    BY <1>3, Zenon DEF Lag
  <2> QED
    BY <1>3, <2>1, <2>2
<1>5. HeaderThreshold - 1 \in Nat
  BY SetupAssumption
<1> QED
  BY <1>1, <1>4, <1>5 DEF Lagging

(* The steps that save the header, or count what was written.              *)
LEMMA LaggingMoves ==
  ASSUME Lagging, Position, failures = 0, ~keysErased, setup \notin Saved,
         MoveAreaEnd \/ CountWritten
  PROVE  Lagging'
<1> USE SetupAssumption
<1>1. HeaderEnd' = HeaderEnd /\ HeaderEnd \in Int /\ AreaStop \in Int /\ mode' = mode
  BY DEF MoveAreaEnd, CountWritten, HeaderEnd, AreaStop, Position, Bounded, HeaderInRange,
     requestVars, driveVars
<1>2. mode \in {"encrypt", "decrypt"} /\ blockLen \in 0..BlockSize
  BY DEF Position, Bounded, Located
<1>3. CASE MoveAreaEnd
  <2>1. /\ setup = "move" /\ setup' = "resumeBlock"
        /\ UNCHANGED <<blockLen, sinceUpdate>>
        /\ offset' = NextOffset /\ areaEnd' = offset' - 1
    BY <1>3 DEF MoveAreaEnd, Step
  <2>2. /\ offset \in Int /\ blockLen >= 1 /\ offset >= ConfiguredStart
        /\ offset + (IF mode = "encrypt" THEN 0 ELSE blockLen) = Boundary
        /\ areaEnd \in Int
    BY <2>1 DEF Position, Bounded, Located, AtBlock
  <2>3. AreaStop' = offset'
    BY <1>2, <2>1, <2>2 DEF AreaStop, NextOffset
  <2>4. AreaStop' = IF mode = "encrypt" THEN AreaStop + blockLen ELSE AreaStop - blockLen
    BY <1>2, <2>1, <2>2, <2>3 DEF AreaStop, NextOffset, Boundary
  <2>5. sinceUpdate \in 0..HeaderThreshold - 1 /\ Lag = sinceUpdate
    BY <2>1 DEF Lagging
  <2>6. Lag' = Lag + blockLen
    BY <1>1, <1>2, <2>4 DEF Lag
  <2> QED
    BY <2>1, <2>5, <2>6 DEF Lagging
<1>4. CASE CountWritten
  <2>1. /\ setup = "written"
        /\ setup' = IF sinceUpdate + blockLen >= HeaderThreshold THEN "save" ELSE "loop"
        /\ sinceUpdate' = sinceUpdate + blockLen /\ areaEnd' = areaEnd
    BY <1>4 DEF CountWritten, Due, Step
  <2>2. Lag' = Lag
    BY <1>1, <2>1 DEF Lag, AreaStop
  <2>3. sinceUpdate \in 0..HeaderThreshold - 1 /\ Lag = sinceUpdate + blockLen
    BY <2>1 DEF Lagging
  <2> QED
    BY <1>2, <2>1, <2>2, <2>3 DEF Lagging
<1> QED
  BY <1>3, <1>4

(* A save that succeeds.                                                   *)
LEMMA LaggingSaved ==
  ASSUME OnTrack', Position', SaveProgress, failures = 0, failures' = 0, ~keysErased'
  PROVE  Lagging'
<1>1. setup' = "loop" /\ sinceUpdate' = 0 /\ headerUpdateRequired' = FALSE
  BY DEF SaveProgress, SaveHeader, Step
<1>2. HeaderArea' = Area'
  BY <1>1 DEF OnTrack, Undamaged, Noted
<1>3. HeaderEnd' = AreaStop' /\ HeaderEnd' \in Int
  <2>1. (Bounded /\ HeaderInRange)'
    BY DEF Position
  <2>2. (Bounded /\ HeaderInRange /\ HeaderArea = Area => HeaderEnd = AreaStop)'
    BY EndsAgree, PTL
  <2> QED
    BY <1>2, <2>1, <2>2, SetupAssumption DEF HeaderEnd, HeaderInRange
<1>4. Lag' = 0
  <2>1. \A x \in Int : x - x = 0
    OBVIOUS
  <2>2. Lag' = IF mode' = "encrypt" THEN HeaderEnd' - HeaderEnd' ELSE HeaderEnd' - HeaderEnd'
    BY <1>3, Zenon DEF Lag
  <2> QED
    BY <1>3, <2>1, <2>2
<1>5. HeaderThreshold - 1 \in Nat
  BY SetupAssumption
<1> QED
  BY <1>1, <1>4, <1>5 DEF Lagging

(* Every step keeps that.                                                  *)
LEMMA LaggingStep ==
  ASSUME Lagging, OnTrack, OnTrack', SetupSound, Position', [SetupNext]_allVars
  PROVE  Lagging'
<1> USE DEF SetupSound
<1>1. ASSUME NEW m \in Modes, StartThread(m)
      PROVE  Lagging'
  BY <1>1, LaggingStart
<1>2. ASSUME ~(\E m \in Modes : StartThread(m)), failures' = 0, ~keysErased', setup' \notin Saved
      PROVE  Lagging'
  <2>1. failures = 0 /\ ~keysErased
    BY <1>2, FailuresStep, KeysStayErased DEF OnTrack
  <2>2. CASE ~SetupThreadProc
    <3>1. /\ UNCHANGED <<setup, mode, blockLen, header, sinceUpdate>>
          /\ [QueueStep]_vars
      BY <1>2, <2>2, SetupCases, ControlFrame DEF setupVars, requestVars, localVars, driveVars,
         QueueStep
    <3>2. AreaStop' = AreaStop
      BY <3>1, FixedStep DEF AreaStop
    <3> QED
      BY <1>2, <2>1, <3>1, <3>2, LaggingKept
  <2>3. CASE SetupThreadProc
    <3>1. setup \notin Saved
      BY <1>2, <2>3, ThreadMoves, LastSteps DEF Saved, After
    <3>2. CASE Calls \/ Releases \/ Looks
      <4>1. UNCHANGED <<header, mode, sinceUpdate, blockLen>>
        BY <3>2, ThreadFrame DEF requestVars, localVars, driveVars
      <4>2. AreaStop' = AreaStop
        BY <3>2, ThreadFrame, FixedStep DEF AreaStop, QueueStep, vars, envVars, areaVars
      <4>3. CASE Release("resumeBlock", "written")
        <5>1. setup = "resumeBlock" /\ setup' = "written"
          BY <4>3 DEF Release, Step
        <5>2. Lag' = Lag
          BY <4>1, <4>2 DEF Lag, HeaderEnd
        <5> QED
          BY <2>1, <4>1, <5>1, <5>2 DEF Lagging, Saved
      <4>4. CASE ~Release("resumeBlock", "written")
        <5>1. setup \notin {"resumeBlock", "written", "save"} /\ setup' \notin {"resumeBlock", "written", "save"}
          BY <3>2, <4>4 DEF Calls, CallHold, Releases, Release, Looks, IsHeld, IsNotHeld, Held, NotHeld,
             TestDecrypted, HoldLastFailed, NothingToSave, TestConfigured, TryRootMutex,
             DismountDrive, ReleaseRootMutex, Exit, Step
        <5> QED
          BY <2>1, <3>1, <4>1, <4>2, <5>1, LaggingKept
      <4> QED
        BY <4>3, <4>4
    <3>3. CASE MoveAreaEnd \/ CountWritten
      BY <2>1, <3>1, <3>3, LaggingMoves
    <3>4. CASE AreaSteps /\ ~MoveAreaEnd /\ ~CountWritten
      <4>1. /\ UNCHANGED <<header, mode, sinceUpdate>>
            /\ setup \notin {"resumeBlock", "written", "save"}
            /\ setup' \notin {"resumeBlock", "written", "save"}
        BY <3>4 DEF AreaSteps, BeginEncryption, BeginDecryption, NextBlock, EndOfLoop, ClearArea, Step,
           requestVars, localVars, driveVars
      <4>2. AreaStop' = AreaStop
        <5>1. CASE ClearArea
          <6>1. setup = "clear" /\ areaEnd' = -1
            BY <5>1 DEF ClearArea, Step
          <6>2. Area = {}
            BY <6>1 DEF Position, Bounded
          <6>3. areaEnd # -1 => areaEnd < ConfiguredStart
            BY <6>2, SetupAssumption DEF Area, Position, Bounded
          <6>4. areaEnd # -1 => areaEnd = ConfiguredStart - 1
            BY <6>3, SetupAssumption DEF Position, Bounded
          <6> QED
            BY <6>1, <6>4, SetupAssumption DEF AreaStop
        <5>2. CASE BeginEncryption
          <6>1. areaEnd' = areaEnd \/ (areaEnd' = -1 /\ (areaStart = -1 \/ areaEnd = -1))
            BY <5>2 DEF BeginEncryption
          <6>2. areaStart = -1 => areaEnd = -1
            BY DEF Position, Bounded
          <6> QED
            BY <6>1, <6>2 DEF AreaStop
        <5>3. CASE BeginDecryption \/ NextBlock \/ EndOfLoop
          BY <5>3 DEF BeginDecryption, NextBlock, EndOfLoop, AreaStop
        <5> QED
          BY <3>4, <5>1, <5>2, <5>3 DEF AreaSteps
      <4> QED
        BY <2>1, <3>1, <4>1, <4>2, LaggingKept
    <3>5. CASE SaveProgress
      BY <1>2, <2>1, <3>5, LaggingSaved
    <3>6. CASE ReadBlock \/ WipeBlock \/ WriteBlock \/ UndoBlock
      <4>1. /\ UNCHANGED <<header, mode, sinceUpdate>>
            /\ setup \notin {"resumeBlock", "written", "save"}
            /\ setup' \notin {"resumeBlock", "written", "save"}
        BY <3>6 DEF ReadBlock, WipeBlock, WriteBlock, UndoBlock, Put, Step, requestVars, localVars,
           driveVars
      <4>2. AreaStop' = AreaStop
        BY <3>6 DEF ReadBlock, WipeBlock, WriteBlock, UndoBlock, ApartFromDisk, envVars, areaVars,
           AreaStop
      <4> QED
        BY <2>1, <3>1, <4>1, <4>2, LaggingKept
    <3>7. ~SavesLast
      BY <1>2 DEF SavesLast, SaveHeader, Step, Saved
    <3> QED
      BY <2>3, <3>2, <3>3, <3>4, <3>5, <3>6, <3>7, ThreadCases DEF DiskSteps
  <2> QED
    BY <2>2, <2>3
<1> QED
  BY <1>1, <1>2 DEF Lagging

(* To begin with.                                                          *)
LEMMA LaggingInit == SetupInit => Lagging
  BY DEF SetupInit, Lagging, Saved

(* So it always is.                                                        *)
LEMMA LaggingAlways == SetupSpec => []Lagging
<1>1. SetupSound /\ SetupSound' /\ OnTrack /\ OnTrack' /\ Lagging /\ [SetupNext]_allVars => Lagging'
  BY LaggingStep DEF SetupSound
<1> QED
  BY <1>1, LaggingInit, OnTrackAlways, SetupSoundAlways, PTL DEF SetupSpec

(* Sectors between two ends are not more than there is room for.           *)
LEMMA FewBetween ==
  ASSUME NEW a \in Int, NEW b \in Int, NEW n \in Nat, b - a <= n, NEW S, \A s \in S : s \in Int /\ a <= s /\ s < b
  PROVE  Cardinality(S) <= n
<1>1. S \subseteq a..b - 1
  OBVIOUS
<1>2. IsFiniteSet(a..b - 1) /\ Cardinality(a..b - 1) = IF a > b - 1 THEN 0 ELSE b - 1 - a + 1
  BY FS_Interval
<1>3. Cardinality(a..b - 1) <= n
  BY <1>2
<1>4. IsFiniteSet(S) /\ Cardinality(S) <= Cardinality(a..b - 1)
  BY <1>1, <1>2, FS_Subset
<1>5. Cardinality(S) \in Nat /\ Cardinality(a..b - 1) \in Nat
  BY <1>2, <1>4, FS_CardinalityType
<1> QED
  BY <1>3, <1>4, <1>5

(* What a restart could not read lies between the ends of the two areas or *)
(* in the block in work, which is next to the boundary.                    *)
LEMMA FewLost ==
  ASSUME Position, OnTrack, Lagging, failures = 0, ~keysErased, setup \notin Saved
  PROVE  Cardinality(LostByRestart) <= HeaderThreshold - 1 + BlockSize
<1> USE SetupAssumption
<1> DEFINE most == HeaderThreshold - 1 + BlockSize
           len == IF setup \in InWork THEN blockLen ELSE 0
<1>1. /\ Bounded /\ HeaderInRange /\ Settled
      /\ HeaderEnd \in Int /\ AreaStop \in Int /\ mode \in {"encrypt", "decrypt"}
  BY DEF Position, OnTrack, Undamaged, HeaderEnd, AreaStop, Bounded, HeaderInRange
<1>2. most \in Nat /\ len \in Nat /\ Lag \in Nat /\ Lag + len <= most
  <2>1. blockLen \in 0..BlockSize
    BY DEF Position, Located
  <2>2. CASE setup \in InWork
    BY <2>1, <2>2 DEF Lagging, InWork
  <2>3. CASE setup \notin InWork
    <3>1. sinceUpdate \in Nat /\ Lag \in Nat /\ Lag <= most
      BY <2>1 DEF Lagging
    <3> QED
      BY <2>3, <3>1
  <2> QED
    BY <2>2, <2>3
<1>3. ASSUME NEW s \in LostByRestart
      PROVE  /\ s \in Int
             /\ \/ setup \in InWork /\ s \in SetupBlock
                \/ s >= AreaStop /\ s < HeaderEnd
                \/ s >= HeaderEnd /\ s < AreaStop
  <2>1. s \in Sectors /\ s \in Int /\ disk[s][2] # IF s \in HeaderArea THEN s ELSE Plain
    BY QueueAssumption DEF LostByRestart
  <2>2. CASE ~(setup \in InWork /\ s \in SetupBlock)
    <3>1. ~((s \in Area) <=> (s \in HeaderArea))
      BY <1>1, <2>1, <2>2 DEF Settled, UnitOf
    <3> QED
      BY <1>1, <2>1, <3>1, AreaByEnd, HeaderByEnd
  <2> QED
    BY <2>1, <2>2
<1>4. ASSUME NEW s \in SetupBlock, s \in Int, setup \in InWork
      PROVE  IF mode = "encrypt" THEN s >= AreaStop /\ s < AreaStop + len
                                 ELSE s >= AreaStop - len /\ s < AreaStop
  <2>1. /\ offset \in Int /\ blockLen \in Nat /\ blockLen >= 1 /\ offset >= ConfiguredStart
        /\ offset + (IF mode = "encrypt" THEN 0 ELSE blockLen) = Boundary
        /\ areaEnd \in Int
    BY <1>4 DEF Position, Bounded, Located, AtBlock, InWork
  <2>2. s >= offset /\ s < offset + blockLen
    BY <1>4, <2>1 DEF SetupBlock, Span
  <2>3. len = blockLen
    BY <1>4
  <2>4. offset + (IF mode = "encrypt" THEN 0 ELSE blockLen) = AreaStop
    BY <1>1, <2>1 DEF AreaStop, Boundary
  <2> QED
    BY <1>4, <2>1, <2>2, <2>3, <2>4
<1> HIDE DEF most, len
<1>5. CASE mode = "encrypt"
  <2>1. AreaStop = HeaderEnd + Lag
    BY <1>1, <1>5 DEF Lag
  <2>2. \A s \in LostByRestart : s \in Int /\ HeaderEnd <= s /\ s < AreaStop + len
    BY <1>1, <1>2, <1>3, <1>4, <1>5, <2>1
  <2>3. AreaStop + len \in Int /\ AreaStop + len - HeaderEnd <= most
    BY <1>1, <1>2, <2>1
  <2> QED
    BY <1>1, <1>2, <2>2, <2>3, FewBetween DEF most
<1>6. CASE mode = "decrypt"
  <2>1. HeaderEnd = AreaStop + Lag
    BY <1>1, <1>6 DEF Lag
  <2>2. \A s \in LostByRestart : s \in Int /\ AreaStop - len <= s /\ s < HeaderEnd
    BY <1>1, <1>2, <1>3, <1>4, <1>6, <2>1
  <2>3. AreaStop - len \in Int /\ HeaderEnd - (AreaStop - len) <= most
    BY <1>1, <1>2, <2>1
  <2> QED
    BY <1>1, <1>2, <2>2, <2>3, FewBetween DEF most
<1> QED
  BY <1>1, <1>5, <1>6

(* A power failure at any moment costs at most what was written since the  *)
(* header was last due, and the block under way, however large the drive   *)
(* is; as long as there was no error and the keys have not been erased.    *)
THEOREM LossIsBounded == SetupSpec => []LossBounded
<1>1. ASSUME SetupSound, OnTrack, Lagging
      PROVE  LossBounded
  <2> SUFFICES ASSUME failures = 0, ~keysErased
               PROVE  Cardinality(LostByRestart) <= HeaderThreshold - 1 + BlockSize
    BY DEF LossBounded
  <2>1. CASE setup \in Saved
    <3>1. Settled /\ Noted
      BY <1>1 DEF OnTrack, Undamaged
    <3>2. LostByRestart = {}
      BY <2>1, <3>1 DEF LostByRestart, Settled, Noted, UnitOf, InWork, Saved
    <3> QED
      BY <3>2, FS_EmptySet, SetupAssumption
  <2>2. CASE setup \notin Saved
    BY <1>1, <2>2, FewLost DEF SetupSound
  <2> QED
    BY <2>1, <2>2
<1> QED
  BY <1>1, SetupSoundAlways, OnTrackAlways, LaggingAlways, PTL

-----------------------------------------------------------------------------
(* The plain disk.                                                         *)

(* The requests under way are served in the same way as without a setup.   *)
QueueServed == Untouched /\ Harmless /\ Served

(* To begin with.                                                          *)
LEMMA QueueServedInit == SetupInit => QueueServed
  BY KeptInit, ServedInit DEF SetupInit, Kept, QueueServed

(* While the queue is held nothing is in line.                             *)
LEMMA HeldHasNoLine ==
  ASSUME Sound, hold = "held"
  PROVE  pc["main"] \notin {"buffer", "queue"} /\ \A r : ~InLine(r)
<1>1. Quiet
  BY DEF Sound, HeldSafely
<1>2. Queued("io") = {} /\ Queued("completion") = {}
  BY <1>1 DEF Quiet, Queued
<1> QED
  BY <1>1, <1>2 DEF Quiet, Still, Resting, InLine, IoHolds, Threads

(* Every step keeps that.                                                  *)
LEMMA QueueServedStep ==
  ASSUME QueueSound, Position, QueueServed, [SetupNext]_allVars
  PROVE  QueueServed'
<1>1. CASE [QueueStep]_vars
  <2>1. Harmless'
    BY <1>1, HarmlessStep DEF QueueSound, Sound, QueueServed
  <2>2. Untouched'
    BY <1>1, UntouchedStep DEF QueueSound, Sound, QueueServed
  <2>3. Served'
    BY <1>1, ServedStep DEF QueueSound, Sound, QueueServed
  <2> QED
    BY <2>1, <2>2, <2>3 DEF QueueServed
<1>2. CASE Moves
  <2> USE DEF Moves, Elsewhere, irpVars, queueVars, poolVars, handVars, mainVars, fragmentVars,
              ioVars, pipeVars, volumeVars
  <2>1. Harmless'
    <3>1. \A r : Pipe(r)' <=> Pipe(r)
      BY <1>2 DEF Pipe, IoUses, Queued
    <3>2. UNCHANGED <<irp, item, late, protected>>
      BY <1>2
    <3> QED
      BY <1>2, <3>1, <3>2 DEF QueueServed, Harmless, HarmlessIn, FragmentSectors, Span
  <2>2. Untouched'
    BY <1>2 DEF QueueServed, Untouched
  <2>3. Histories' /\ Clean' /\ NoIoAfterFailure'
    BY <1>2 DEF QueueServed, Served, Histories, Clean, NotServed, Live, NoIoAfterFailure
  <2>4. WithinIrp' /\ Parts' /\ Recorded' /\ Straight'
    BY <1>2 DEF QueueServed, Served, WithinIrp, MainIrp, Parts, Recorded, Straight, IrpSectors,
       Span
  <2>5. \A r : InLine(r)' <=> InLine(r)
    BY <1>2 DEF InLine, Queued
  <2>6. Passed'
    BY <1>2, <2>5 DEF QueueServed, Served, Passed, Behind
  <2>7. Lined'
    BY <1>2 DEF QueueServed, Served, Lined, Separate, Queued
  <2>8. Progress'
    <3>1. \A k : (Going(k)' <=> Going(k)) /\ Op(k)' = Op(k)
      BY <1>2 DEF Going, Live, Op, OpOf
    <3>2. \A k, s : Waits(k, s)' <=> Waits(k, s)
      BY <1>2 DEF Waits, Uncut, ForIo, AtDevice, Queued, FragmentSectors, Span
    <3>3. \A i : IrpSectors(i)' = IrpSectors(i)
      BY <1>2 DEF IrpSectors, Span
    <3> QED
      BY <1>2, <3>1, <3>2, <3>3 DEF QueueServed, Served, Progress
  <2>9. AtNext' /\ Fitting'
    <3>1. CASE Area' = Area
      <4>1. AtNext'
        BY <1>2, <3>1 DEF QueueServed, Served, AtNext, MainIrp, FragmentSectors, Span
      <4>2. \A r : Fits(r)' <=> Fits(r)
        BY <1>2, <3>1 DEF Fits, IrpSectors, FragmentSectors, Span
      <4> QED
        BY <2>5, <4>1, <4>2 DEF QueueServed, Served, Fitting
    <3>2. CASE hold = "held"
      <4>1. pc'["main"] \notin {"buffer", "queue"} /\ \A r : ~InLine(r)'
        BY <1>2, <2>5, <3>2, HeldHasNoLine DEF QueueSound
      <4> QED
        BY <4>1 DEF AtNext, Fitting
    <3> QED
      BY <3>1, <3>2, AreaCases DEF Position
  <2> QED
    BY <2>1, <2>2, <2>3, <2>4, <2>6, <2>7, <2>8, <2>9 DEF QueueServed, Served
<1> QED
  BY <1>1, <1>2, QueuePart

(* Who wrote what a sector holds for the file system; while its block is   *)
(* in work, that is in the buffer of the thread.                           *)
Author(s) == IF setup \in InWork /\ s \in SetupBlock THEN buffer[s][1] ELSE disk[s][1]
Authors == [s \in Sectors |-> Author(s)]

(* Whatever happened, every sector is what somebody wrote, under its data  *)
(* unit on its side of the boundary, or its block is in work: then the     *)
(* buffer holds the same under the other unit.                             *)
Shown ==
  /\ disk \in [Locations -> Contents]
  /\ \A s \in Sectors :
       ~(setup \in InWork /\ s \in SetupBlock) => disk[s] \in Writers \X {UnitOf(s)}
  /\ setup \in InWork => \A s \in SetupBlock : buffer[s] \in Writers \X {NewUnit(s)}
  /\ setup = "move" => \A s \in SetupBlock : disk[s] = buffer[s]

(* Nothing is read or restored without the keys, and no undo fails.        *)
Undisturbed ==
  /\ ReadBlock \/ UndoBlock => ~keysErased
  /\ UndoBlock => UNCHANGED failures

(* Where no block is in work, that is what is known of the queue alone.    *)
LEMMA ShownReadable ==
  ASSUME ~remap, setup \notin InWork
  PROVE  Shown <=> Readable
<1>1. \A s : Location(s, Area) = s /\ (IF s \in Area THEN Unit(s) ELSE Plain) = UnitOf(s)
  BY DEF Location, Unit, UnitOf
<1> QED
  BY <1>1 DEF Shown, Readable, InWork

(* To begin with.                                                          *)
LEMMA ShownInit == SetupInit => Shown
<1> SUFFICES ASSUME SetupInit PROVE Shown
  OBVIOUS
<1>1. Readable /\ ~remap /\ setup \notin InWork
  BY KeptInit DEF SetupInit, Kept, InWork
<1> QED
  BY <1>1, ShownReadable

(* What does not touch a block in work, the device or the boundary.        *)
LEMMA ShownKept ==
  ASSUME Shown, disk' = disk, Area' = Area,
         \/ UNCHANGED <<setup, mode, offset, blockLen, buffer>>
         \/ setup \notin InWork /\ setup' \notin InWork
  PROVE  Shown' /\ Authors' = Authors
<1>1. \A s : UnitOf(s)' = UnitOf(s)
  BY DEF UnitOf
<1>2. CASE UNCHANGED <<setup, mode, offset, blockLen, buffer>>
  <2>1. SetupBlock' = SetupBlock /\ \A s : NewUnit(s)' = NewUnit(s)
    BY <1>2 DEF SetupBlock, Span, NewUnit
  <2>2. \A s : Author(s)' = Author(s)
    BY <1>2, <2>1 DEF Author
  <2> QED
    BY <1>1, <1>2, <2>1, <2>2 DEF Shown, Authors
<1>3. CASE setup \notin InWork /\ setup' \notin InWork
  <2>1. \A s : Author(s)' = Author(s)
    BY <1>3 DEF Author
  <2>2. setup' # "move"
    BY <1>3 DEF InWork
  <2> QED
    BY <1>1, <1>3, <2>1, <2>2 DEF Shown, Authors
<1> QED
  BY <1>2, <1>3

(* What is in the buffer can be on the device.                             *)
LEMMA UnitsInside == \A s \in Sectors : \A u \in {s, Plain} : Writers \X {u} \subseteq Contents
  BY DEF Writers, Contents, Units, Locations

(* A block that is read.                                                   *)
LEMMA ShownRead ==
  ASSUME Position, Shown, ReadBlock, ~keysErased, setup' # "end"
  PROVE  Shown' /\ Authors' = Authors
<1>1. /\ setup = "read" /\ setup' \in {"wipe", "write"}
      /\ buffer' = [s \in SetupBlock |-> Transformed(disk[s], s)]
      /\ UNCHANGED <<disk, mode, offset, blockLen>>
  BY DEF ReadBlock, Step, requestVars
<1>2. UNCHANGED <<areaStart, areaEnd>>
  BY DEF ReadBlock, ApartFromDisk, envVars, areaVars
<1>3. Area' = Area /\ SetupBlock' = SetupBlock
  BY <1>1, <1>2 DEF Area, SetupBlock, Span
<1>4. \A s : UnitOf(s)' = UnitOf(s) /\ NewUnit(s)' = NewUnit(s)
  BY <1>1, <1>3 DEF UnitOf, NewUnit
<1>5. ASSUME NEW s \in SetupBlock
      PROVE  /\ buffer'[s] = <<disk[s][1], NewUnit(s)>>
             /\ buffer'[s] \in Writers \X {NewUnit(s)}
  <2>1. s \in Sectors /\ s # Plain /\ ((s \in Area) <=> (mode = "decrypt"))
    BY <1>1, BlockSide DEF AtBlock
  <2>2. disk[s] \in Writers \X {UnitOf(s)}
    BY <1>1, <2>1 DEF Shown, InWork
  <2>3. mode \in {"encrypt", "decrypt"}
    BY DEF Position, Bounded
  <2>4. buffer'[s] = <<disk[s][1], NewUnit(s)>>
    BY <1>1, <2>1, <2>2, <2>3 DEF Transformed, Encrypt, Decrypt, Opened, UnitOf, NewUnit
  <2> QED
    BY <2>2, <2>4
<1>6. Shown'
  BY <1>1, <1>3, <1>4, <1>5 DEF Shown, InWork
<1>7. \A s \in Sectors : Author(s)' = Author(s)
  BY <1>1, <1>3, <1>5 DEF Author, InWork
<1> QED
  BY <1>6, <1>7 DEF Authors

(* What a write of the thread does to the device.                          *)
LEMMA PutWrites ==
  ASSUME NEW f, NEW from, NEW to, NEW otherwise, Put(f, from, to, otherwise),
         DOMAIN disk = Locations, DOMAIN f \subseteq Locations
  PROVE  /\ disk' = [l \in Locations |-> disk'[l]]
         /\ \A l \in Locations : disk'[l] = disk[l] \/ (l \in DOMAIN f /\ disk'[l] = f[l])
<1>1. CASE disk' = Merge(disk, f)
  BY <1>1 DEF Merge
<1>2. ASSUME NEW S \in SUBSET DOMAIN f, disk' = Merge(disk, [s \in S |-> f[s]])
      PROVE  /\ disk' = [l \in Locations |-> disk'[l]]
             /\ \A l \in Locations : disk'[l] = disk[l] \/ (l \in DOMAIN f /\ disk'[l] = f[l])
  BY <1>2 DEF Merge
<1> QED
  BY <1>1, <1>2 DEF Put

(* A block that is wiped or written.                                       *)
LEMMA ShownWrite ==
  ASSUME Position, BlockRead, Shown, WipeBlock \/ WriteBlock
  PROVE  Shown' /\ Authors' = Authors
<1>1. /\ setup \in {"wipe", "write"} /\ setup' \in {"wipe", "write", "undo", "move"}
      /\ UNCHANGED <<mode, offset, blockLen, buffer>>
      /\ setup' = "move" => disk' = Merge(disk, buffer)
  BY DEF WipeBlock, WriteBlock, Put, Step, requestVars, localVars
<1>2. UNCHANGED <<areaStart, areaEnd>>
  BY DEF WipeBlock, WriteBlock, ApartFromDisk, envVars, areaVars
<1>3. Area' = Area /\ SetupBlock' = SetupBlock
  BY <1>1, <1>2 DEF Area, SetupBlock, Span
<1>4. \A s : UnitOf(s)' = UnitOf(s) /\ NewUnit(s)' = NewUnit(s)
  BY <1>1, <1>3 DEF UnitOf, NewUnit
<1>5. /\ DOMAIN buffer = SetupBlock /\ DOMAIN disk = Locations
      /\ Sectors \subseteq Locations /\ SetupBlock \subseteq Sectors
  BY <1>1, BlockInside DEF BlockRead, InWork, AtBlock, Shown, Locations
<1>6. /\ disk' = [l \in Locations |-> disk'[l]]
      /\ \A l \in Locations :
           disk'[l] = disk[l] \/ (l \in SetupBlock /\ disk'[l] \in {Garbage, buffer[l]})
  <2>1. CASE WipeBlock
    <3> DEFINE f == [s \in SetupBlock |-> Garbage]
    <3>1. \E to : Put(f, "wipe", to, "undo")
      BY <2>1 DEF WipeBlock
    <3> QED
      BY <1>5, <3>1, PutWrites
  <2>2. CASE WriteBlock
    <3>1. Put(buffer, "write", "move", "undo")
      BY <2>2 DEF WriteBlock
    <3> QED
      BY <1>5, <3>1, PutWrites
  <2> QED
    BY <2>1, <2>2
<1>7. disk' \in [Locations -> Contents]
  <2>1. Garbage \in Contents
    BY DEF Garbage, Contents, Units
  <2>2. \A s \in SetupBlock : buffer[s] \in Contents
    <3> SUFFICES ASSUME NEW s \in SetupBlock PROVE buffer[s] \in Contents
      OBVIOUS
    <3>1. buffer[s] \in Writers \X {NewUnit(s)} /\ NewUnit(s) \in {s, Plain}
      BY <1>1 DEF Shown, InWork, NewUnit
    <3> QED
      BY <1>5, <3>1, UnitsInside
  <2> QED
    BY <1>6, <2>1, <2>2 DEF Shown
<1>8. \A s \in SetupBlock : setup' = "move" => disk'[s] = buffer[s]
  BY <1>1, <1>5, Merged
<1>9. Shown'
  BY <1>1, <1>3, <1>4, <1>5, <1>6, <1>7, <1>8 DEF Shown, InWork
<1>10. \A s \in Sectors : Author(s)' = Author(s)
  BY <1>1, <1>3, <1>5, <1>6 DEF Author, InWork
<1> QED
  BY <1>9, <1>10 DEF Authors

(* A block that is put back.                                               *)
LEMMA ShownUndo ==
  ASSUME Position, BlockRead, Shown, UndoBlock, ~keysErased, failures' = failures, failures \in Nat
  PROVE  Shown' /\ Authors' = Authors
<1>1. /\ setup = "undo" /\ setup' = "end"
      /\ UNCHANGED <<mode, offset, blockLen, buffer>>
      /\ disk' = Merge(disk, UndoContent)
  BY DEF UndoBlock, Put, Step, requestVars, localVars
<1>2. UNCHANGED <<areaStart, areaEnd>>
  BY DEF UndoBlock, ApartFromDisk, envVars, areaVars
<1>3. Area' = Area
  BY <1>2 DEF Area
<1>4. \A s : UnitOf(s)' = UnitOf(s)
  BY <1>3 DEF UnitOf
<1>5. DOMAIN disk = Locations /\ Sectors \subseteq Locations /\ SetupBlock \subseteq Sectors
  BY <1>1, BlockInside DEF AtBlock, Shown, Locations
<1>6. ASSUME NEW s \in SetupBlock
      PROVE  disk'[s] = <<buffer[s][1], UnitOf(s)>> /\ disk'[s] \in Writers \X {UnitOf(s)}
  <2>1. s \in Sectors /\ s # Plain /\ ((s \in Area) <=> (mode = "decrypt"))
    BY <1>1, BlockSide DEF AtBlock
  <2>2. buffer[s] \in Writers \X {NewUnit(s)}
    BY <1>1 DEF Shown, InWork
  <2>3. mode \in {"encrypt", "decrypt"}
    BY DEF Position, Bounded
  <2>4. disk'[s] = Undone(buffer[s], s)
    BY <1>1, <1>5, Merged DEF UndoContent
  <2>5. disk'[s] = <<buffer[s][1], UnitOf(s)>>
    BY <2>1, <2>2, <2>3, <2>4 DEF Undone, Encrypt, Decrypt, Opened, UnitOf, NewUnit
  <2> QED
    BY <2>2, <2>5
<1>7. \A l \in Locations : l \notin SetupBlock => disk'[l] = disk[l]
  BY <1>1, <1>5, Merged DEF UndoContent
<1>8. disk' \in [Locations -> Contents]
  <2>1. disk' = [l \in Locations |-> disk'[l]]
    BY <1>1, <1>5 DEF Merge, UndoContent
  <2>2. \A s \in SetupBlock : disk'[s] \in Contents
    BY <1>5, <1>6, UnitsInside DEF UnitOf
  <2> QED
    BY <1>7, <2>1, <2>2 DEF Shown
<1>9. Shown'
  BY <1>1, <1>4, <1>5, <1>6, <1>7, <1>8 DEF Shown, InWork
<1>10. \A s \in Sectors : Author(s)' = Author(s)
  BY <1>1, <1>5, <1>6, <1>7 DEF Author, InWork
<1> QED
  BY <1>9, <1>10 DEF Authors

(* The moves of the boundary.                                              *)
LEMMA ShownArea ==
  ASSUME Position, Shown, AreaSteps, [SetupNext]_allVars
  PROVE  Shown' /\ Authors' = Authors
<1>1. UNCHANGED <<disk, mode>>
  BY ThreadFrame DEF Apart, workVars, diskVars, requestVars
<1>2. CASE ~MoveAreaEnd
  <2>1. Area' = Area
    <3>1. CASE ClearArea
      <4>1. Area = {}
        BY <3>1 DEF ClearArea, Step, Position, Bounded
      <4>2. areaStart' = -1
        BY <3>1 DEF ClearArea
      <4> QED
        BY <4>1, <4>2 DEF Area
    <3> QED
      BY <1>2, <3>1, AreaCases DEF Position
  <2>2. setup \notin InWork /\ setup' \notin InWork
    BY <1>2 DEF AreaSteps, BeginEncryption, BeginDecryption, NextBlock, CountWritten, EndOfLoop,
       ClearArea, InWork, Step
  <2> QED
    BY <1>1, <2>1, <2>2, ShownKept
<1>3. CASE MoveAreaEnd
  <2>1. setup = "move" /\ setup' = "resumeBlock"
    BY <1>3 DEF MoveAreaEnd, Step
  <2>2. \A s \in SetupBlock : s \in Sectors
    BY <2>1, BlockInside DEF AtBlock
  <2>3. ASSUME NEW s \in Sectors
        PROVE  disk[s] \in Writers \X {UnitOf(s)'}
    <3>1. UnitOf(s)' = IF s \in Area' THEN s ELSE Plain
      BY DEF UnitOf
    <3>2. CASE s \in SetupBlock
      BY <1>3, <2>1, <3>1, <3>2, MovedArea DEF Shown, NewUnit, InWork
    <3>3. CASE s \notin SetupBlock
      BY <1>3, <3>1, <3>3, MovedArea DEF Shown, UnitOf
    <3> QED
      BY <3>2, <3>3
  <2>4. Shown'
    BY <1>1, <2>1, <2>3 DEF Shown, InWork
  <2>5. \A s \in Sectors : Author(s)' = Author(s)
    BY <1>1, <2>1 DEF Author, InWork, Shown
  <2> QED
    BY <2>4, <2>5 DEF Authors
<1> QED
  BY <1>2, <1>3

(* What a step does, next to the block in work.                            *)
LEMMA StepKinds ==
  ASSUME Holding, Controlled, [SetupNext]_allVars
  PROVE  \/ [QueueStep]_vars /\ setup \notin InWork /\ setup' \notin InWork
         \/ /\ [QueueStep]_vars /\ setup \in InWork /\ hold = "held"
            /\ UNCHANGED <<setup, requestVars, localVars>>
         \/ AreaSteps
         \/ DiskSteps
<1>1. CASE [QueueStep]_vars /\ UNCHANGED <<setup, requestVars, localVars>>
  BY <1>1 DEF Holding, InWork
<1>2. CASE Calls \/ Releases
  <2>1. [QueueStep]_vars
    BY <1>2, ThreadFrame DEF QueueStep
  <2>2. setup \notin InWork /\ setup' \notin InWork
    BY <1>2 DEF Calls, Releases, CallHold, Release, Step, InWork
  <2> QED
    BY <2>1, <2>2
<1>3. CASE Looks
  <2>1. [QueueStep]_vars
    BY <1>3, ThreadFrame
  <2>2. setup \notin InWork /\ setup' \notin InWork
    BY <1>3 DEF Looks, IsHeld, IsNotHeld, Held, NotHeld, TestDecrypted, HoldLastFailed,
       NothingToSave, TestConfigured, TryRootMutex, DismountDrive, ReleaseRootMutex, Exit, Step,
       InWork
  <2> QED
    BY <2>1, <2>2
<1>4. ASSUME NEW m \in Modes, StartThread(m)
      PROVE  [QueueStep]_vars /\ setup \notin InWork /\ setup' \notin InWork
  BY <1>4 DEF StartThread, CGoto, Controlled, InWork
<1>5. CASE EnterControl("start") \/ EnterControl("abort") \/ DeviceControl
  BY <1>1, <1>4, <1>5, ControlFrame
<1>6. CASE [QueueNext]_vars /\ UNCHANGED setupVars
  BY <1>1, <1>6 DEF QueueStep, setupVars
<1> QED
  BY <1>2, <1>3, <1>5, <1>6, SetupCases, ThreadCases

(* What the thread does next to the queue, as long as it is undisturbed,   *)
(* changes neither what is shown nor by whom it was written.               *)
LEMMA ShownWork ==
  ASSUME SetupSound, failures \in Nat, Shown, [SetupNext]_allVars, [Undisturbed]_allVars,
         AreaSteps \/ DiskSteps
  PROVE  Shown' /\ Authors' = Authors
<1> USE DEF SetupSound
<1>1. CASE AreaSteps
  BY <1>1, ShownArea
<1>2. CASE ReadBlock \/ UndoBlock
  <2>1. setup' # setup
    BY <1>2 DEF ReadBlock, UndoBlock, Put, Step
  <2>2. Undisturbed
    BY <2>1 DEF allVars, setupVars
  <2>3. CASE UndoBlock
    BY <2>2, <2>3, ShownUndo DEF Undisturbed
  <2>4. CASE ReadBlock /\ setup' # "end"
    BY <2>2, <2>4, ShownRead DEF Undisturbed
  <2>5. CASE ReadBlock /\ setup' = "end"
    <3>1. setup = "read" /\ UNCHANGED <<disk, areaStart, areaEnd>>
      BY <2>5 DEF ReadBlock, Step, ApartFromDisk, envVars, areaVars
    <3>2. Area' = Area
      BY <3>1 DEF Area
    <3> QED
      BY <2>5, <3>1, <3>2, ShownKept DEF InWork
  <2> QED
    BY <1>2, <2>3, <2>4, <2>5
<1>3. CASE WipeBlock \/ WriteBlock
  BY <1>3, ShownWrite
<1>4. CASE SaveProgress \/ SavesLast
  <2>1. /\ setup \notin InWork /\ setup' \notin InWork
        /\ UNCHANGED <<disk, areaStart, areaEnd>>
    BY <1>4 DEF SaveProgress, SavesLast, SaveHeader, Step, InWork, ApartFromDisk, envVars, areaVars
  <2>2. Area' = Area
    BY <2>1 DEF Area
  <2> QED
    BY <2>1, <2>2, ShownKept
<1> QED
  BY <1>1, <1>2, <1>3, <1>4 DEF DiskSteps

(* Nor does the queue, but for what it writes while no block is in work.   *)
LEMMA ShownStep ==
  ASSUME SetupSound, SetupSound', failures \in Nat, Shown, [SetupNext]_allVars,
         [Undisturbed]_allVars
  PROVE  Shown'
<1> USE DEF SetupSound
<1>1. CASE [QueueStep]_vars /\ setup \notin InWork /\ setup' \notin InWork
  <2>1. Readable
    BY <1>1, ShownReadable DEF QueueSound
  <2>2. Readable'
    BY <1>1, <2>1, ReadableStep DEF QueueSound, Sound
  <2>3. (~remap /\ setup \notin InWork => (Shown <=> Readable))'
    BY ShownReadable, PTL
  <2> QED
    BY <1>1, <2>2, <2>3 DEF QueueSound
<1>2. CASE /\ [QueueStep]_vars /\ setup \in InWork /\ hold = "held"
           /\ UNCHANGED <<setup, requestVars, localVars>>
  <2>1. disk' = disk
    BY <1>2, QueueKeepsUnits
  <2>2. Area' = Area
    BY <1>2, FixedStep DEF Area
  <2> QED
    BY <1>2, <2>1, <2>2, ShownKept DEF requestVars, localVars
<1>3. CASE AreaSteps \/ DiskSteps
  BY <1>3, ShownWork
<1> QED
  BY <1>1, <1>2, <1>3, StepKinds DEF Position

(* What the file system sees of the drive.                                 *)
SetupSectors == [s \in Sectors |-> SetupPlain(s)]

(* It is who wrote what.                                                   *)
AuthorsSeen == SetupSectors = Authors
LEMMA SeesAuthors == QueueSound /\ Shown => AuthorsSeen
<1> SUFFICES ASSUME QueueSound, Shown, NEW s \in Sectors
             PROVE  SetupPlain(s) = Author(s)
  BY DEF AuthorsSeen, SetupSectors, Authors
<1>1. CASE setup \in InWork /\ s \in SetupBlock
  BY <1>1 DEF SetupPlain, Author, InTransit, InWork
<1>2. CASE ~(setup \in InWork /\ s \in SetupBlock)
  <2>1. SetupPlain(s) = PlainContent(s)[1] /\ Author(s) = disk[s][1]
    BY <1>2 DEF SetupPlain, Author, InTransit, InWork
  <2>2. disk[s] \in Writers \X {UnitOf(s)}
    BY <1>2 DEF Shown
  <2>3. PlainContent(s) = IF s \in Area THEN Opened(disk[s], s) ELSE disk[s]
    BY DEF PlainContent, Location, Unit, QueueSound
  <2>4. PlainContent(s)[1] = disk[s][1]
    BY <2>2, <2>3 DEF Opened, UnitOf
  <2> QED
    BY <2>1, <2>4
<1> QED
  BY <1>1, <1>2

(* A step of the plain disk below the queue is one of the plain disk below *)
(* the setup, when both see the same sectors.                              *)
LEMMA SameDisk ==
  ASSUME SetupSectors = PlainSectors, SetupSectors' = PlainSectors', Below!Next
  PROVE  BelowSetup!Next
<1> USE DEF PlainSectors, SetupSectors, Below!Span, BelowSetup!Span, Below!NoRequest,
            BelowSetup!NoRequest
<1>1. PICK i \in Irps : IF PlainIrps[i] = Below!NoRequest THEN Below!Issue(i)
                        ELSE Below!Serve(i) \/ Below!Answer(i)
  BY DEF Below!Next, PlainIrps
<1>2. Below!RequestSectors(i) = BelowSetup!RequestSectors(i)
  BY DEF Below!RequestSectors, BelowSetup!RequestSectors
<1>3. Below!Pending(i) <=> BelowSetup!Pending(i)
  BY DEF Below!Pending, BelowSetup!Pending
<1>4. Below!Issue(i) => BelowSetup!Issue(i)
  BY DEF Below!Issue, BelowSetup!Issue, Below!Requests, BelowSetup!Requests
<1>5. Below!Answer(i) => BelowSetup!Answer(i)
  BY <1>3 DEF Below!Answer, BelowSetup!Answer
<1>6. Below!Serve(i) => BelowSetup!Serve(i)
  <2>1. ASSUME NEW S, Below!Write(i, S)
        PROVE  BelowSetup!Write(i, S)
    BY <1>2, <1>3, <2>1 DEF Below!Write, BelowSetup!Write
  <2>2. ASSUME NEW S, Below!Read(i, S)
        PROVE  BelowSetup!Read(i, S)
    <3>1. /\ seen' = [seen EXCEPT ![i] = [s \in DOMAIN @ \cup S |->
                                          IF s \in S THEN PlainSectors[s] ELSE @[s]]]
          /\ PlainSectors' = PlainSectors
      BY <2>2 DEF Below!Read
    <3>2. /\ seen' = [seen EXCEPT ![i] = [s \in DOMAIN @ \cup S |->
                                          IF s \in S THEN SetupSectors[s] ELSE @[s]]]
          /\ SetupSectors' = SetupSectors
      <4> HIDE DEF PlainSectors, SetupSectors
      <4> QED
        BY <3>1
    <3> QED
      BY <1>2, <1>3, <2>2, <3>2 DEF Below!Read, BelowSetup!Read
  <2>3. ASSUME NEW status, Below!Settle(i, status)
        PROVE  BelowSetup!Settle(i, status)
    BY <1>2, <1>3, <2>3 DEF Below!Settle, BelowSetup!Settle
  <2> QED
    BY <1>2, <2>1, <2>2, <2>3 DEF Below!Serve, BelowSetup!Serve
<1> QED
  BY <1>1, <1>4, <1>5, <1>6 DEF BelowSetup!Next, PlainIrps

(* It is also one while a block is in work, when neither sees a change and *)
(* nothing is transferred.                                                 *)
LEMMA SameRequests ==
  ASSUME SetupSectors' = SetupSectors, UNCHANGED <<moved, seen>>,
         [Below!Next]_<<PlainSectors, PlainIrps, moved, seen>>
  PROVE  [BelowSetup!Next]_<<SetupSectors, PlainIrps, moved, seen>>
<1> USE DEF SetupSectors, PlainIrps, Below!Span, BelowSetup!Span, Below!NoRequest,
            BelowSetup!NoRequest
<1> SUFFICES ASSUME PlainIrps' # PlainIrps PROVE BelowSetup!Next
  OBVIOUS
<1>1. PICK i \in Irps : IF PlainIrps[i] = Below!NoRequest THEN Below!Issue(i)
                        ELSE Below!Serve(i) \/ Below!Answer(i)
  BY DEF Below!Next
<1>2. Below!RequestSectors(i) = BelowSetup!RequestSectors(i)
  BY DEF Below!RequestSectors, BelowSetup!RequestSectors
<1>3. Below!Pending(i) <=> BelowSetup!Pending(i)
  BY DEF Below!Pending, BelowSetup!Pending
<1>4. Below!Issue(i) => BelowSetup!Issue(i)
  BY DEF Below!Issue, BelowSetup!Issue, Below!Requests, BelowSetup!Requests
<1>5. Below!Answer(i) => BelowSetup!Answer(i)
  BY <1>3 DEF Below!Answer, BelowSetup!Answer
<1>6. Below!Serve(i) => BelowSetup!Serve(i)
  <2>1. \A S : ~Below!Write(i, S) /\ ~Below!Read(i, S)
    BY DEF Below!Write, Below!Read
  <2>2. ASSUME NEW status, Below!Settle(i, status)
        PROVE  BelowSetup!Settle(i, status)
    BY <1>2, <1>3, <2>2 DEF Below!Settle, BelowSetup!Settle
  <2> QED
    BY <2>1, <2>2 DEF Below!Serve, BelowSetup!Serve
<1> QED
  BY <1>1, <1>4, <1>5, <1>6 DEF BelowSetup!Next

(* To begin with the disk below is as it should be.                        *)
LEMMA SetupPlainInit == SetupInit => BelowSetup!Init
<1> SUFFICES ASSUME SetupInit PROVE BelowSetup!Init
  OBVIOUS
<1>1. Below!Init
  BY PlainInit DEF SetupInit
<1>2. SetupSectors = PlainSectors
  BY DEF SetupInit, SetupSectors, PlainSectors, SetupPlain, InTransit
<1>3. PlainSectors = [s \in Sectors |-> NoIrp] /\ PlainIrps = [i \in Irps |-> Below!NoRequest]
  BY <1>1 DEF Below!Init, PlainSectors, PlainIrps
<1> QED
  BY <1>1, <1>2, <1>3 DEF Below!Init, BelowSetup!Init, SetupSectors, PlainIrps, Below!NoRequest,
     BelowSetup!NoRequest

(* Every step of the queue, the thread or a device control is one of the   *)
(* plain disk, or none at all.                                             *)
LEMMA SetupStepsPlain ==
  ASSUME SetupSound, SetupSound', failures \in Nat, Shown, Shown', QueueServed, Results, Results',
         AuthorsSeen, AuthorsSeen',
         [SetupNext]_allVars, [Undisturbed]_allVars
  PROVE  [BelowSetup!Next]_<<SetupSectors, PlainIrps, moved, seen>>
<1> USE DEF SetupSound
<1>1. ASSUME [QueueStep]_vars, setup \notin InWork \/ ~DoPiece
      PROVE  [Below!Next]_<<PlainSectors, PlainIrps, moved, seen>>
  <2>1. DoPiece => Readable
    BY <1>1, ShownReadable DEF QueueSound
  <2> QED
    BY <1>1, <2>1, StepsPlain DEF QueueSound, Sound, QueueServed
<1>2. CASE [QueueStep]_vars /\ setup \notin InWork /\ setup' \notin InWork
  <2>1. SetupSectors = PlainSectors /\ SetupSectors' = PlainSectors'
    BY <1>2 DEF SetupSectors, PlainSectors, SetupPlain, InTransit, InWork
  <2>2. CASE Below!Next
    BY <2>1, <2>2, SameDisk
  <2>3. CASE UNCHANGED <<PlainSectors, PlainIrps, moved, seen>>
    BY <2>1, <2>3
  <2> QED
    BY <1>1, <1>2, <2>2, <2>3
<1>3. CASE /\ [QueueStep]_vars /\ setup \in InWork /\ hold = "held"
           /\ UNCHANGED <<setup, requestVars, localVars>>
  <2>1. \A t \in Threads : pc[t] \notin {"complete", "misaligned", "device"}
    BY <1>3 DEF QueueSound, Sound, HeldSafely, Quiet, Still, Resting
  <2>2. ~DoPiece /\ ~ReadMisaligned /\ \A t \in Threads : ~CompleteIrp(t)
    BY <2>1 DEF DoPiece, ReadMisaligned, CompleteIrp, Goto, Threads
  <2>3. UNCHANGED <<moved, seen>>
    BY <1>3, <2>2, HistoryFrame
  <2>4. disk' = disk
    BY <1>3, QueueKeepsUnits
  <2>5. Area' = Area
    BY <1>3, FixedStep DEF Area
  <2>6. Authors' = Authors
    BY <1>3, <2>4, <2>5, ShownKept DEF requestVars, localVars
  <2>7. SetupSectors' = SetupSectors
    BY <2>6 DEF AuthorsSeen
  <2> QED
    BY <1>1, <1>3, <2>2, <2>3, <2>7, SameRequests
<1>4. CASE AreaSteps \/ DiskSteps
  <2>1. Authors' = Authors
    BY <1>4, ShownWork
  <2>2. UNCHANGED <<irp, item, pc, own, moved, seen>>
    BY <1>4, ThreadFrame DEF Apart, ApartFromDisk, workVars, diskVars, irpVars, queueVars, poolVars,
       handVars
  <2>3. PlainIrps' = PlainIrps
    BY <2>2 DEF PlainIrps, PlainIrp, Completing
  <2> QED
    BY <2>1, <2>2, <2>3 DEF AuthorsSeen
<1> QED
  BY <1>2, <1>3, <1>4, StepKinds DEF Position

(* What is served is always served in the same way.                        *)
LEMMA QueueServedAlways == SetupSpec => []QueueServed
<1>1. SetupSound /\ QueueServed /\ [SetupNext]_allVars => QueueServed'
  BY QueueServedStep DEF SetupSound
<1> QED
  BY <1>1, QueueServedInit, SetupSoundAlways, PTL DEF SetupSpec

(* While the setup thread moves the boundary over the drive, and through   *)
(* every pause, abort, restart of the setup, device error and refused or   *)
(* failed request, the file system sees the same disk of plain sectors as  *)
(* without it, as long as the keys are there when a block is read or put   *)
(* back, and putting it back does not fail too.                            *)
THEOREM SetupIsPlainDisk ==
  SetupSpec /\ [][Undisturbed]_allVars => SetupImplementsPlainDisk
<1>1. OnTrack => failures \in Nat
  BY DEF OnTrack
<1>2. /\ SetupSound /\ SetupSound' /\ failures \in Nat /\ Shown
      /\ [SetupNext]_allVars /\ [Undisturbed]_allVars
      => Shown'
  BY ShownStep
<1>3. SetupSpec /\ [][Undisturbed]_allVars => []Shown
  BY <1>1, <1>2, ShownInit, SetupSoundAlways, OnTrackAlways, PTL DEF SetupSpec
<1>4. SetupSound => QueueSound /\ Links
  BY DEF SetupSound, QueueSound, Sound
<1>5. QueueServed => Progress /\ Straight
  BY DEF QueueServed, Served
<1>6. /\ SetupSound /\ SetupSound' /\ failures \in Nat /\ Shown /\ Shown' /\ QueueServed
      /\ Results /\ Results' /\ AuthorsSeen /\ AuthorsSeen'
      /\ [SetupNext]_allVars /\ [Undisturbed]_allVars
      => [BelowSetup!Next]_<<SetupSectors, PlainIrps, moved, seen>>
  BY SetupStepsPlain
<1>7. [BelowSetup!Next]_<<SetupSectors, PlainIrps, moved, seen>> =>
        [BelowSetup!Next]_<<[s \in Sectors |-> SetupPlain(s)], [i \in Irps |-> PlainIrp(i)],
                            moved, seen>>
  BY DEF SetupSectors, PlainIrps
<1> QED
  BY <1>1, <1>3, <1>4, <1>5, <1>6, <1>7, SeesAuthors, ResultsHold, SetupPlainInit,
     SetupSoundAlways, OnTrackAlways, QueueServedAlways,
     PTL DEF SetupSpec, SetupImplementsPlainDisk, BelowSetup!Spec
=============================================================================
