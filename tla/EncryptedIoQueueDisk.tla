------------------------ MODULE EncryptedIoQueueDisk --------------------------
(***************************************************************************)
(* Proofs about the fragment buffers and the device of EncryptedIoQueue: a *)
(* fragment buffer has one user, a hidden volume in a mounted one keeps    *)
(* what it holds, and the disk stays readable.                             *)
(*                                                                         *)
(* A request is in the pipe from the moment the main thread has cut it     *)
(* until the I/O thread has done it.  What is shown of the requests in the *)
(* pipe is shown when they enter it: nothing they depend on changes after  *)
(* that, since the items they belong to are live.                          *)
(***************************************************************************)
EXTENDS EncryptedIoQueueProofs, SequenceTheorems

(* The I/O thread works on its request.                                    *)
IoUses == pc["io"] \in {"device", "done"}

Pipe(r) ==
  \/ pc["main"] \in {"buffer", "queue"} /\ r = req["main"]
  \/ \E n \in Queued("io") : r = queue["io"][n]
  \/ IoUses /\ r = req["io"]

(* Whoever uses a fragment buffer has acquired it, and nobody else has.    *)
Buffered ==
  /\ pc["main"] \in {"buffer", "queue"} => req["main"].buf = active
  /\ \A m, n \in Queued("io") : queue["io"][m].buf = queue["io"][n].buf => m = n
  /\ \A n \in Queued("io") :
       /\ ~fragmentFree[queue["io"][n].buf]
       /\ pc["main"] = "queue" => req["main"].buf # queue["io"][n].buf
       /\ IoUses => req["io"].buf # queue["io"][n].buf
  /\ pc["main"] = "queue" => ~fragmentFree[req["main"].buf]
  /\ pc["main"] = "queue" /\ IoUses => req["io"].buf # req["main"].buf
  /\ IoUses => ~fragmentFree[req["io"].buf]
  /\ \A b \in Fragments : ~fragmentFree[b] =>
       \/ pc["main"] = "queue" /\ req["main"].buf = b
       \/ IoUses /\ req["io"].buf = b
       \/ \E n \in Queued("io") : queue["io"][n].buf = b

(* Which volumes have something to protect.                                *)
Volume ==
  /\ areaStart \in Int /\ areaEnd \in Int
  /\ protected \subseteq Sectors /\ Area \subseteq Sectors
  /\ hostVolume => ~remap /\ Area = Sectors
  /\ ~hostVolume => protected = {}
  /\ protectionAction => hostVolume /\ protected # {}
  /\ late # {} => protectionAction

(* A fragment lies in the drive, and so does its encrypted part in it.     *)
Cuts(r) == /\ FragmentSectors(r) \subseteq Sectors
           /\ r.enc = FragmentSectors(r) \cap Area
Cut == /\ \A i \in Irps : IrpSectors(i) \subseteq Sectors
       /\ \A r \in Requests : Pipe(r) => Cuts(r)

(* A write that has been accepted, and each of its fragments, stays away   *)
(* from the hidden volume.                                                 *)
SafeIn(irps, items, lates, k) ==
  LET i == items[k].irp IN
  irps[i].op = "write" =>
    i \notin lates /\ Span(irps[i].first, irps[i].len) \cap protected = {}
HarmlessIn(irps, items, lates, r) ==
  LET i == items[r.item].irp IN
  irps[i].op = "write" => i \notin lates /\ FragmentSectors(r) \cap protected = {}
MainSafe ==
  pc["main"] \in Cutting =>
    SafeIn(irp, item, late, own["main"]) /\ next >= irp[item[own["main"]].irp].first
Harmless == \A r \in Requests : Pipe(r) => HarmlessIn(irp, item, late, r)

(* Nothing is transferred for an IRP before it has been looked at, nor for *)
(* a write that came too late.                                             *)
Untouched ==
  /\ moved \in [Irps -> SUBSET Int] /\ late \subseteq Irps
  /\ \A i \in Irps : irp[i].op = "none" \/ ipc[i] = "counted" => moved[i] = {}
  /\ \A i \in late : irp[i].op = "write" => moved[i] = {}
Intact == \A s \in protected : s \in DOMAIN disk /\ disk[s] = <<NoIrp, s>>

(* What is left to do of the I/O thread's request: pieces of it, each      *)
(* remapped as a whole or not at all.                                      *)
PieceOf(P, r) ==
  /\ P \subseteq FragmentSectors(r)
  /\ remap => P \subseteq r.enc \/ P \cap r.enc = {}
ToDo ==
  pc["io"] = "device" =>
    /\ todo \in Seq(SUBSET Int) /\ todo # <<>>
    /\ \A n \in 1..Len(todo) : PieceOf(todo[n], req["io"])
    /\ ~remap => Len(todo) = 1 /\ todo[1] = FragmentSectors(req["io"])

(* A fragment to be written holds its data, encrypted where the drive is,  *)
(* or will not be written since the drive has been blocked.                *)
Written(i, S) == [s \in S |-> <<i, IF s \in Area THEN Unit(s) ELSE Plain>>]
FilledRequest(r) ==
  LET i == item[r.item].irp IN
  irp[i].op = "write" => fragment[r.buf] = Written(i, FragmentSectors(r))
Loaded(r) ==
  \/ pc["main"] = "queue" /\ r = req["main"]
  \/ \E n \in Queued("io") : r = queue["io"][n]
Filled ==
  /\ DOMAIN fragment = Fragments
  /\ keysErased => blocked
  /\ ~blocked => \A r \in Requests : Loaded(r) => FilledRequest(r)
  /\ pc["io"] = "device" => FilledRequest(req["io"])

(* Every sector holds what somebody wrote, under its data unit.            *)
Writers == Irps \cup {NoIrp}
HasPlaces == DOMAIN disk = Locations
Readable ==
  /\ disk \in [Locations -> Contents]
  /\ \A s \in Sectors : disk[Location(s, Area)] \in
       Writers \X {IF s \in Area THEN Unit(s) ELSE Plain}

-----------------------------------------------------------------------------
dataVars == <<areaVars, volumeVars, todo, lastRead, fragment, disk, failures, moved, seen, data,
              late>>

(* Every step is one of these; what the others, those that hold or stop    *)
(* the queue or erase the keys, may change besides.                        *)
LEMMA ActionCases ==
  ASSUME [QueueStep]_vars
  PROVE  \/ (\E i \in Irps, op \in {"read", "write", "skewed"}, first \in Nat, len \in Nat :
                 Issue(i, op, first, len))
         \/ (\E i \in Irps : AddIrp(i))
         \/ (\E i \in Irps : Reject(i))
         \/ (\E i \in Irps : RejectSignal(i))
         \/ (\E t \in Threads : Wake(t))
         \/ (\E t \in Threads : Drained(t))
         \/ (\E t \in Threads : CompleteIrp(t))
         \/ (\E t \in Threads : Decrement(t))
         \/ (\E t \in Threads : SignalIdle(t))
         \/ (\E t \in Threads : ReleaseItem(t))
         \/ (\E t \in Threads : ReleaseRequest(t))
         \/ TakeIrp
         \/ TestSuspended
         \/ AwaitResume
         \/ AwaitsPool
         \/ LooksAgain
         \/ Refuse
         \/ Protect
         \/ Accept
         \/ ReadMisaligned
         \/ DecryptMisaligned
         \/ NextFragment
         \/ GetRequest
         \/ FillFragment
         \/ QueueFragment
         \/ TakeRequest
         \/ DoPiece
         \/ WriteDone
         \/ ReadDone
         \/ PassesOn
         \/ ReadAhead
         \/ DecryptFragment
         \/ /\ UNCHANGED <<coreVars, dataVars>> /\ readAhead' \in {readAhead, Empty}
            /\ blocked => blocked'
            /\ keysErased' => keysErased \/ blocked
            /\ keysErased => keysErased'
<1> USE DEF irpVars, queueVars, poolVars, handVars, mainVars, fragmentVars, ioVars, pipeVars,
            countVars, workVars, diskVars, envVars, areaVars, keyVars, volumeVars, coreVars,
              dataVars
<1> DEFINE Other == /\ UNCHANGED <<coreVars, dataVars>> /\ readAhead' \in {readAhead, Empty}
                    /\ blocked => blocked'
                    /\ keysErased' => keysErased \/ blocked
                    /\ keysErased => keysErased'
<1>1. CASE UNCHANGED vars
  BY <1>1 DEF vars
<1>2. ASSUME NEW i \in Irps, Ask(i)
      PROVE  \E op \in {"read", "write", "skewed"}, first \in Nat, len \in Nat :
               Issue(i, op, first, len)
  BY <1>2, QueueAssumption DEF Ask
<1>3. ASSUME Holder \/ HoldEnter \/ ResumeFromHold
      PROVE  Other
  <2>1. CASE HoldConfirm
    BY <2>1 DEF HoldConfirm
  <2>2. CASE ~HoldConfirm
    BY <1>3, <2>2 DEF Holder, HoldEnter, ResumeFromHold, HoldWhenIdle, HoldCount,
       HoldWait,
       HoldTimeout, HoldOvertaken, HoldGiveUp, HoldIdle, HoldSuspend, HoldRetreat,
       SignalResumed
  <2> QED
    BY <2>1, <2>2
<1>4. ASSUME StopBegin \/ Stop
      PROVE  Other
  BY <1>4 DEF StopBegin, Stop, StopCount, StopWait, StopExit, StopNext
<1>5. ASSUME Block \/ EraseKeys
      PROVE  Other
  BY <1>5 DEF Block, EraseKeys
<1>6. CASE Finished
  BY <1>1, <1>6 DEF Finished
<1>7. CASE Main
  BY <1>7 DEF Main, AwaitsPool, LooksAgain, Common, Threads
<1>8. CASE Io \/ Completion
  BY SMTT(60), <1>8 DEF Io, PassesOn, Completion, Common, Threads
<1> QED
  BY <1>1, <1>2, <1>3, <1>4, <1>5, <1>6, <1>7, <1>8 DEF QueueStep, QueueNext, Requestor

(* The area, and what is protected, stay where they are.                   *)
LEMMA FixedStep ==
  ASSUME [QueueStep]_vars
  PROVE  \/ UNCHANGED <<areaStart, areaEnd, remap, hostVolume, protected>>
  BY ZenonT(60), ActionCases DEF coreVars, dataVars, irpVars, queueVars, poolVars, handVars,
     mainVars,
     fragmentVars, ioVars, pipeVars, countVars, diskVars, outerVars, holdVars, stopVars,
     envVars, areaVars, keyVars, volumeVars, Issue, IGoto, AddIrp, Reject, RejectSignal, Wake,
     Goto, Drained, CompleteIrp, Decrement, AfterDecrement, SignalIdle, ReleaseItem,
     ReleaseRequest, TakeIrp, TestSuspended, AwaitResume, AwaitsPool, PoolEmpty, LooksAgain,
     AwaitPoolBuffer, Refuse, GetItem, Protect, Accept, ReadMisaligned, DecryptMisaligned,
     NextFragment, GetRequest, FillFragment, QueueFragment, TakeRequest, DoPiece, WriteDone,
     AfterRequest, ReleaseFragmentBuffer, ReadDone, PassesOn, PostCompletion, ReadAhead,
     DecryptFragment


(* The keys do not come back.                                              *)
LEMMA KeysStep ==
  ASSUME [QueueStep]_vars
  PROVE  /\ blocked => blocked'
         /\ keysErased' => keysErased \/ blocked
         /\ keysErased => keysErased'
<1> DEFINE Other == /\ blocked => blocked'
                    /\ keysErased' => keysErased \/ blocked
                    /\ keysErased => keysErased'
<1>1. UNCHANGED <<blocked, keysErased>> \/ Other
  BY ZenonT(60), ActionCases DEF irpVars, queueVars, poolVars, handVars, mainVars,
     fragmentVars, ioVars, pipeVars, countVars, diskVars, outerVars, holdVars, stopVars,
     envVars, areaVars, keyVars, volumeVars, Issue, IGoto, AddIrp, Reject, RejectSignal, Wake,
     Goto, Drained, CompleteIrp, Decrement, AfterDecrement, SignalIdle, ReleaseItem,
     ReleaseRequest, TakeIrp, TestSuspended, AwaitResume, AwaitsPool, PoolEmpty, LooksAgain,
     AwaitPoolBuffer, Refuse, GetItem, Protect, Accept, ReadMisaligned, DecryptMisaligned,
     NextFragment, GetRequest, FillFragment, QueueFragment, TakeRequest, DoPiece, WriteDone,
     AfterRequest, ReleaseFragmentBuffer, ReadDone, PassesOn, PostCompletion, ReadAhead,
     DecryptFragment
<1> QED BY <1>1


(* The steps that change irp, item, late.                                  *)
LEMMA KeepFrame ==
  ASSUME [QueueStep]_vars
  PROVE  \/ UNCHANGED <<irp, item, late>>
         \/ (\E i \in Irps, op \in {"read", "write", "skewed"}, first \in Nat, len \in Nat :
                 Issue(i, op, first, len))
         \/ (\E i \in Irps : Reject(i))
         \/ (\E t \in Threads : CompleteIrp(t))
         \/ (\E t \in Threads : ReleaseItem(t))
         \/ Refuse
         \/ Protect
         \/ Accept
         \/ ReadMisaligned
         \/ TakeRequest
         \/ DoPiece
  BY ZenonT(60), ActionCases DEF coreVars, dataVars, irpVars, queueVars, poolVars, handVars,
     mainVars,
     fragmentVars, ioVars, pipeVars, countVars, diskVars, outerVars, holdVars, stopVars,
     envVars, areaVars, keyVars, volumeVars, AddIrp, IGoto, RejectSignal, Wake, Goto, Drained,
     Decrement, AfterDecrement, SignalIdle, ReleaseRequest, TakeIrp, TestSuspended, AwaitResume,
     AwaitsPool, PoolEmpty, LooksAgain, AwaitPoolBuffer, DecryptMisaligned, NextFragment,
     GetRequest, FillFragment, QueueFragment, WriteDone, AfterRequest, ReleaseFragmentBuffer,
     ReadDone, PassesOn, PostCompletion, ReadAhead, DecryptFragment


(* The steps that change protectionAction, late.                           *)
LEMMA VolumeFrame ==
  ASSUME [QueueStep]_vars
  PROVE  \/ UNCHANGED <<protectionAction, late>>
         \/ (\E i \in Irps, op \in {"read", "write", "skewed"}, first \in Nat, len \in Nat :
                 Issue(i, op, first, len))
         \/ (\E i \in Irps : Reject(i))
         \/ (\E t \in Threads : CompleteIrp(t))
         \/ Protect
  BY ZenonT(60), ActionCases DEF coreVars, dataVars, irpVars, queueVars, poolVars, handVars,
     mainVars,
     fragmentVars, ioVars, pipeVars, countVars, diskVars, outerVars, holdVars, stopVars,
     envVars, areaVars, keyVars, volumeVars, AddIrp, IGoto, RejectSignal, Wake, Goto, Drained,
     Decrement, AfterDecrement, SignalIdle, ReleaseItem, ReleaseRequest, TakeIrp, TestSuspended,
     AwaitResume, AwaitsPool, PoolEmpty, LooksAgain, AwaitPoolBuffer, Refuse, GetItem, Accept,
     ReadMisaligned, DecryptMisaligned, NextFragment, GetRequest, FillFragment, QueueFragment,
     TakeRequest, DoPiece, WriteDone, AfterRequest, ReleaseFragmentBuffer, ReadDone, PassesOn,
     PostCompletion, ReadAhead, DecryptFragment


(* The steps that change moved, irp, ipc, late.                            *)
LEMMA MovedFrame ==
  ASSUME [QueueStep]_vars
  PROVE  \/ UNCHANGED <<moved, irp, ipc, late>>
         \/ (\E i \in Irps, op \in {"read", "write", "skewed"}, first \in Nat, len \in Nat :
                 Issue(i, op, first, len))
         \/ (\E i \in Irps : AddIrp(i))
         \/ (\E i \in Irps : Reject(i))
         \/ (\E i \in Irps : RejectSignal(i))
         \/ (\E t \in Threads : CompleteIrp(t))
         \/ ReadMisaligned
         \/ DoPiece
  BY ZenonT(60), ActionCases DEF coreVars, dataVars, irpVars, queueVars, poolVars, handVars,
     mainVars,
     fragmentVars, ioVars, pipeVars, countVars, diskVars, outerVars, holdVars, stopVars,
     envVars, areaVars, keyVars, volumeVars, Wake, Goto, Drained, Decrement, AfterDecrement,
     SignalIdle, ReleaseItem, ReleaseRequest, TakeIrp, TestSuspended, AwaitResume, AwaitsPool,
     PoolEmpty, LooksAgain, AwaitPoolBuffer, Refuse, GetItem, Protect, Accept,
     DecryptMisaligned, NextFragment, GetRequest, FillFragment, QueueFragment, TakeRequest,
     WriteDone, AfterRequest, ReleaseFragmentBuffer, ReadDone, PassesOn, PostCompletion,
     ReadAhead, DecryptFragment


(* The steps that change disk.                                             *)
LEMMA DiskFrame ==
  ASSUME [QueueStep]_vars
  PROVE  \/ UNCHANGED <<disk>>
         \/ DoPiece
  BY ZenonT(60), ActionCases DEF coreVars, dataVars, irpVars, queueVars, poolVars, handVars,
     mainVars,
     fragmentVars, ioVars, pipeVars, countVars, diskVars, outerVars, holdVars, stopVars,
     envVars, areaVars, keyVars, volumeVars, Issue, IGoto, AddIrp, Reject, RejectSignal, Wake,
     Goto, Drained, CompleteIrp, Decrement, AfterDecrement, SignalIdle, ReleaseItem,
     ReleaseRequest, TakeIrp, TestSuspended, AwaitResume, AwaitsPool, PoolEmpty, LooksAgain,
     AwaitPoolBuffer, Refuse, GetItem, Protect, Accept, ReadMisaligned, DecryptMisaligned,
     NextFragment, GetRequest, FillFragment, QueueFragment, TakeRequest, WriteDone,
     AfterRequest, ReleaseFragmentBuffer, ReadDone, PassesOn, PostCompletion, ReadAhead,
     DecryptFragment


(* The steps that change failures.                                         *)
LEMMA FailuresFrame ==
  ASSUME [QueueStep]_vars
  PROVE  \/ UNCHANGED <<failures>>
         \/ ReadMisaligned
         \/ DoPiece
  BY ZenonT(60), ActionCases DEF coreVars, dataVars, irpVars, queueVars, poolVars, handVars,
     mainVars,
     fragmentVars, ioVars, pipeVars, countVars, diskVars, outerVars, holdVars, stopVars,
     envVars, areaVars, keyVars, volumeVars, Issue, IGoto, AddIrp, Reject, RejectSignal, Wake,
     Goto, Drained, CompleteIrp, Decrement, AfterDecrement, SignalIdle, ReleaseItem,
     ReleaseRequest, TakeIrp, TestSuspended, AwaitResume, AwaitsPool, PoolEmpty, LooksAgain,
     AwaitPoolBuffer, Refuse, GetItem, Protect, Accept, DecryptMisaligned,
     NextFragment, GetRequest, FillFragment, QueueFragment, TakeRequest, WriteDone,
     AfterRequest, ReleaseFragmentBuffer, ReadDone, PassesOn, PostCompletion, ReadAhead,
     DecryptFragment


(* The steps that change fragment.                                         *)
LEMMA FragmentFrame ==
  ASSUME [QueueStep]_vars
  PROVE  \/ UNCHANGED <<fragment>>
         \/ FillFragment
         \/ DoPiece
         \/ WriteDone
         \/ ReadDone
  BY ZenonT(60), ActionCases DEF coreVars, dataVars, irpVars, queueVars, poolVars, handVars,
     mainVars,
     fragmentVars, ioVars, pipeVars, countVars, diskVars, outerVars, holdVars, stopVars,
     envVars, areaVars, keyVars, volumeVars, Issue, IGoto, AddIrp, Reject, RejectSignal, Wake,
     Goto, Drained, CompleteIrp, Decrement, AfterDecrement, SignalIdle, ReleaseItem,
     ReleaseRequest, TakeIrp, TestSuspended, AwaitResume, AwaitsPool, PoolEmpty, LooksAgain,
     AwaitPoolBuffer, Refuse, GetItem, Protect, Accept, ReadMisaligned, DecryptMisaligned,
     NextFragment, GetRequest, QueueFragment, TakeRequest, PassesOn, PostCompletion, ReadAhead,
     DecryptFragment, AfterRequest


(* The steps that change todo.                                             *)
LEMMA ToDoFrame ==
  ASSUME [QueueStep]_vars
  PROVE  \/ UNCHANGED <<todo>>
         \/ TakeRequest
         \/ DoPiece
  BY ZenonT(60), ActionCases DEF coreVars, dataVars, irpVars, queueVars, poolVars, handVars,
     mainVars,
     fragmentVars, ioVars, pipeVars, countVars, diskVars, outerVars, holdVars, stopVars,
     envVars, areaVars, keyVars, volumeVars, Issue, IGoto, AddIrp, Reject, RejectSignal, Wake,
     Goto, Drained, CompleteIrp, Decrement, AfterDecrement, SignalIdle, ReleaseItem,
     ReleaseRequest, TakeIrp, TestSuspended, AwaitResume, AwaitsPool, PoolEmpty, LooksAgain,
     AwaitPoolBuffer, Refuse, GetItem, Protect, Accept, ReadMisaligned, DecryptMisaligned,
     NextFragment, GetRequest, FillFragment, QueueFragment, WriteDone, AfterRequest,
     ReleaseFragmentBuffer, ReadDone, PassesOn, PostCompletion, ReadAhead, DecryptFragment


(* The steps that change freeRequests.                                     *)
LEMMA PoolFrame ==
  ASSUME [QueueStep]_vars
  PROVE  \/ UNCHANGED <<freeRequests>>
         \/ (\E t \in Threads : ReleaseRequest(t))
         \/ GetRequest
  BY ZenonT(60), ActionCases DEF coreVars, dataVars, irpVars, queueVars, poolVars, handVars,
     mainVars,
     fragmentVars, ioVars, pipeVars, countVars, diskVars, outerVars, holdVars, stopVars,
     envVars, areaVars, keyVars, volumeVars, Issue, IGoto, AddIrp, Reject, RejectSignal, Wake,
     Goto, Drained, CompleteIrp, Decrement, AfterDecrement, SignalIdle, ReleaseItem, TakeIrp,
     TestSuspended, AwaitResume, AwaitsPool, PoolEmpty, LooksAgain, AwaitPoolBuffer, Refuse,
     GetItem, Protect, Accept, ReadMisaligned, DecryptMisaligned, NextFragment, FillFragment,
     QueueFragment, TakeRequest, DoPiece, WriteDone, AfterRequest, ReleaseFragmentBuffer,
     ReadDone, PassesOn, PostCompletion, ReadAhead, DecryptFragment


(* A live item keeps its IRP, and the IRP stays what it is.                *)
LEMMA LiveKept ==
  ASSUME Links, [QueueStep]_vars, NEW k \in Items, Live(k), LiveIn(item', pc', own', k)
  PROVE  /\ item'[k].irp = item[k].irp /\ item[k].irp \in Irps
         /\ irp'[item[k].irp] = irp[item[k].irp]
         /\ item[k].irp \in late' => item[k].irp \in late
<1> DEFINE i == item[k].irp
<1>1. /\ i \in Irps /\ irp[i].op # "none" /\ ipc[i] # "counted"
      /\ \A l \in Items : Live(l) /\ item[l].irp = i => l = k
  BY UsedItems DEF Links, Linked, LinkedItems, Live, LiveIn, InUse
<1> DEFINE Keeps == item'[k].irp = i /\ irp'[i] = irp[i] /\ (i \in late' => i \in late)
<1> USE DEF irpVars
<1>2. CASE UNCHANGED <<irp, item, late>>
  BY <1>1, <1>2
<1>3. ASSUME NEW j \in Irps, NEW op \in {"read", "write", "skewed"}, NEW first \in Nat,
             NEW len \in Nat, Issue(j, op, first, len)
      PROVE  Keeps
  BY <1>1, <1>3 DEF Issue, poolVars, NoRequest, Links, Shape, IrpShape
<1>4. ASSUME NEW j \in Irps, Reject(j)
      PROVE  Keeps
  BY <1>1, <1>4 DEF Reject, IGoto, poolVars, Links, Shape, IrpShape
<1>5. ASSUME NEW t \in Threads, CompleteIrp(t)
      PROVE  Keeps
  <2>1. /\ pc[t] = "complete" /\ pc' = [pc EXCEPT ![t] = "decrement"] /\ own' = own
        /\ own[t] \in Items /\ Live(own[t]) /\ item' = item
    BY <1>5, LiveOnes, Holders DEF CompleteIrp, Goto, poolVars, handVars, Links, Hands, Threads,
       MainOwns
  <2>2. own[t] # k
    BY <2>1 DEF LiveIn, Ending, Links, Shape, PcShape
  <2>3. item[own[t]].irp # i
    BY <1>1, <2>1, <2>2
  <2> QED
    BY <1>1, <1>5, <2>1, <2>3 DEF CompleteIrp, Links, Shape, IrpShape
<1>6. ASSUME NEW t \in Threads, ReleaseItem(t)
      PROVE  Keeps
  <2>1. k # own[t]
    BY <1>6 DEF ReleaseItem, Goto, Live, LiveIn, Ending
  <2> QED
    BY <1>6, <2>1 DEF ReleaseItem, Links, Shape, ItemShape
<1>7. CASE Refuse \/ Protect \/ Accept
  <2>1. PICK l \in Items, status \in {"ok", "failed"} :
          /\ ~InUse(l)
          /\ item' = [item EXCEPT ![l] = [irp |-> taken, status |-> status]]
          /\ UNCHANGED irp
    BY <1>7, GetItemTakes
  <2>2. l # k
    BY <2>1 DEF Live, LiveIn, InUse
  <2>3. late' = late
    BY <1>7 DEF Refuse, Protect, Accept, GetItem
  <2> QED
    BY <1>1, <2>1, <2>2, <2>3 DEF Links, Shape, ItemShape
<1>8. CASE ReadMisaligned \/ TakeRequest \/ DoPiece
  <2>1. UNCHANGED <<irp, late>>
    BY <1>8 DEF ReadMisaligned, TakeRequest, DoPiece
  <2> QED
    BY SMTT(60), <1>1, <1>8, <2>1, OnlyStatus
<1> HIDE DEF i
<1> QED
  BY <1>1, <1>2, <1>3, <1>4, <1>5, <1>6, <1>7, <1>8, KeepFrame DEF i


(* A request enters the pipe when the main thread has cut it.              *)
LEMMA PipeStep ==
  ASSUME Links, NEW r \in Requests, Pipe(r)', [QueueStep]_vars
  PROVE  Pipe(r) \/ (GetRequest /\ r = req'["main"])
<1> USE DEF irpVars, queueVars, poolVars, handVars, mainVars, fragmentVars, ioVars, pipeVars,
            countVars, diskVars, outerVars, holdVars, stopVars, envVars, areaVars, keyVars,
            volumeVars
<1>1. ASSUME NEW i \in Irps, NEW op \in {"read", "write", "skewed"}, NEW first \in Nat,
             NEW len \in Nat, Issue(i, op, first, len)
      PROVE  Pipe(r) \/ (GetRequest /\ r = req'["main"])
  <2>1. UNCHANGED <<pc, req>> /\ queue'["io"] = queue["io"]
    BY <1>1 DEF Issue, IGoto, Links, Shape, QueueShape, Threads
  <2> QED
    BY <2>1 DEF Pipe, IoUses, Queued
<1>2. ASSUME NEW i \in Irps, AddIrp(i) PROVE Pipe(r) \/ (GetRequest /\ r = req'["main"])
  <2>1. UNCHANGED <<pc, req>> /\ queue'["io"] = queue["io"]
    BY <1>2 DEF AddIrp, IGoto, Links, Shape, QueueShape, Threads
  <2> QED
    BY <2>1 DEF Pipe, IoUses, Queued
<1>3. ASSUME NEW i \in Irps, Reject(i) PROVE Pipe(r) \/ (GetRequest /\ r = req'["main"])
  <2>1. UNCHANGED <<pc, req>> /\ queue'["io"] = queue["io"]
    BY <1>3 DEF Reject, IGoto, Links, Shape, QueueShape, Threads
  <2> QED
    BY <2>1 DEF Pipe, IoUses, Queued
<1>4. ASSUME NEW i \in Irps, RejectSignal(i)
      PROVE  Pipe(r) \/ (GetRequest /\ r = req'["main"])
  <2>1. UNCHANGED <<pc, req>> /\ queue'["io"] = queue["io"]
    BY <1>4 DEF RejectSignal, IGoto, Links, Shape, QueueShape, Threads
  <2> QED
    BY <2>1 DEF Pipe, IoUses, Queued
<1>5. ASSUME NEW t \in Threads, Wake(t) PROVE Pipe(r) \/ (GetRequest /\ r = req'["main"])
  <2>1. /\ queue'["io"] = queue["io"] /\ pc' = [pc EXCEPT ![t] = pc'[t]]
        /\ \A u \in Threads : u # t => req'[u] = req[u]
        /\ pc[t] \notin {"buffer", "queue", "device", "done"}
             /\ pc'[t] \notin {"buffer", "queue", "device", "done"}
    BY <1>5 DEF Wake, Goto, Links, Shape, PcShape, QueueShape, RequestShape, Threads
  <2> QED
    BY <2>1 DEF Pipe, IoUses, Queued, Links, Shape, PcShape, Threads
<1>6. ASSUME NEW t \in Threads, Drained(t)
      PROVE  Pipe(r) \/ (GetRequest /\ r = req'["main"])
  <2>1. /\ queue'["io"] = queue["io"] /\ pc' = [pc EXCEPT ![t] = pc'[t]]
        /\ \A u \in Threads : u # t => req'[u] = req[u]
        /\ pc[t] \notin {"buffer", "queue", "device", "done"}
             /\ pc'[t] \notin {"buffer", "queue", "device", "done"}
    BY <1>6 DEF Drained, Goto, Links, Shape, PcShape, QueueShape, RequestShape, Threads
  <2> QED
    BY <2>1 DEF Pipe, IoUses, Queued, Links, Shape, PcShape, Threads
<1>7. ASSUME NEW t \in Threads, CompleteIrp(t)
      PROVE  Pipe(r) \/ (GetRequest /\ r = req'["main"])
  <2>1. /\ queue'["io"] = queue["io"] /\ pc' = [pc EXCEPT ![t] = pc'[t]]
        /\ \A u \in Threads : u # t => req'[u] = req[u]
        /\ pc[t] \notin {"buffer", "queue", "device", "done"}
             /\ pc'[t] \notin {"buffer", "queue", "device", "done"}
    BY <1>7 DEF CompleteIrp, Goto, Links, Shape, PcShape, QueueShape, RequestShape, Threads
  <2> QED
    BY <2>1 DEF Pipe, IoUses, Queued, Links, Shape, PcShape, Threads
<1>8. ASSUME NEW t \in Threads, Decrement(t)
      PROVE  Pipe(r) \/ (GetRequest /\ r = req'["main"])
  <2>1. /\ queue'["io"] = queue["io"] /\ pc' = [pc EXCEPT ![t] = pc'[t]]
        /\ \A u \in Threads : u # t => req'[u] = req[u]
        /\ pc[t] \notin {"buffer", "queue", "device", "done"}
             /\ pc'[t] \notin {"buffer", "queue", "device", "done"}
    BY <1>8 DEF Decrement, Goto, AfterDecrement, Links, Shape, PcShape, QueueShape, RequestShape,
       Threads
  <2> QED
    BY <2>1 DEF Pipe, IoUses, Queued, Links, Shape, PcShape, Threads
<1>9. ASSUME NEW t \in Threads, SignalIdle(t)
      PROVE  Pipe(r) \/ (GetRequest /\ r = req'["main"])
  <2>1. /\ queue'["io"] = queue["io"] /\ pc' = [pc EXCEPT ![t] = pc'[t]]
        /\ \A u \in Threads : u # t => req'[u] = req[u]
        /\ pc[t] \notin {"buffer", "queue", "device", "done"}
             /\ pc'[t] \notin {"buffer", "queue", "device", "done"}
    BY <1>9 DEF SignalIdle, Goto, AfterDecrement, Links, Shape, PcShape, QueueShape,
       RequestShape, Threads
  <2> QED
    BY <2>1 DEF Pipe, IoUses, Queued, Links, Shape, PcShape, Threads
<1>10. ASSUME NEW t \in Threads, ReleaseItem(t)
      PROVE  Pipe(r) \/ (GetRequest /\ r = req'["main"])
  <2>1. /\ queue'["io"] = queue["io"] /\ pc' = [pc EXCEPT ![t] = pc'[t]]
        /\ \A u \in Threads : u # t => req'[u] = req[u]
        /\ pc[t] \notin {"buffer", "queue", "device", "done"}
             /\ pc'[t] \notin {"buffer", "queue", "device", "done"}
    BY <1>10 DEF ReleaseItem, Goto, Links, Shape, PcShape, QueueShape, RequestShape, Threads
  <2> QED
    BY <2>1 DEF Pipe, IoUses, Queued, Links, Shape, PcShape, Threads
<1>11. ASSUME NEW t \in Threads, ReleaseRequest(t)
      PROVE  Pipe(r) \/ (GetRequest /\ r = req'["main"])
  <2>1. /\ queue'["io"] = queue["io"] /\ pc' = [pc EXCEPT ![t] = pc'[t]]
        /\ \A u \in Threads : u # t => req'[u] = req[u]
        /\ pc[t] \notin {"buffer", "queue", "device", "done"}
             /\ pc'[t] \notin {"buffer", "queue", "device", "done"}
    BY <1>11 DEF ReleaseRequest, Goto, Links, Shape, PcShape, QueueShape, RequestShape, Threads
  <2> QED
    BY <2>1 DEF Pipe, IoUses, Queued, Links, Shape, PcShape, Threads
<1>12. ASSUME TakeIrp PROVE Pipe(r) \/ (GetRequest /\ r = req'["main"])
  <2>1. /\ queue'["io"] = queue["io"] /\ pc' = [pc EXCEPT !["main"] = pc'["main"]]
        /\ req' = req
        /\ pc["main"] \notin {"buffer", "queue", "device", "done"}
             /\ pc'["main"] \notin {"buffer", "queue", "device", "done"}
    BY <1>12 DEF TakeIrp, Goto, Links, Shape, PcShape, QueueShape, RequestShape, Threads
  <2> QED
    BY <1>12, <2>1 DEF Pipe, IoUses, Queued, Links, Shape, PcShape, Threads
<1>13. ASSUME TestSuspended PROVE Pipe(r) \/ (GetRequest /\ r = req'["main"])
  <2>1. /\ queue'["io"] = queue["io"] /\ pc' = [pc EXCEPT !["main"] = pc'["main"]]
        /\ req' = req
        /\ pc["main"] \notin {"buffer", "queue", "device", "done"}
             /\ pc'["main"] \notin {"buffer", "queue", "device", "done"}
    BY <1>13 DEF TestSuspended, Goto, Links, Shape, PcShape, QueueShape, RequestShape, Threads
  <2> QED
    BY <1>13, <2>1 DEF Pipe, IoUses, Queued, Links, Shape, PcShape, Threads
<1>14. ASSUME AwaitResume PROVE Pipe(r) \/ (GetRequest /\ r = req'["main"])
  <2>1. /\ queue'["io"] = queue["io"] /\ pc' = [pc EXCEPT !["main"] = pc'["main"]]
        /\ req' = req
        /\ pc["main"] \notin {"buffer", "queue", "device", "done"}
             /\ pc'["main"] \notin {"buffer", "queue", "device", "done"}
    BY <1>14 DEF AwaitResume, Goto, Links, Shape, PcShape, QueueShape, RequestShape, Threads
  <2> QED
    BY <1>14, <2>1 DEF Pipe, IoUses, Queued, Links, Shape, PcShape, Threads
<1>15. ASSUME AwaitsPool PROVE Pipe(r) \/ (GetRequest /\ r = req'["main"])
  <2>1. /\ queue'["io"] = queue["io"] /\ pc' = [pc EXCEPT !["main"] = pc'["main"]]
        /\ req' = req
        /\ pc["main"] \notin {"buffer", "queue", "device", "done"}
             /\ pc'["main"] \notin {"buffer", "queue", "device", "done"}
    BY <1>15 DEF AwaitsPool, PoolEmpty, Goto, Links, Shape, PcShape, QueueShape, RequestShape,
       Threads
  <2> QED
    BY <1>15, <2>1 DEF Pipe, IoUses, Queued, Links, Shape, PcShape, Threads
<1>16. ASSUME LooksAgain PROVE Pipe(r) \/ (GetRequest /\ r = req'["main"])
  <2>1. /\ queue'["io"] = queue["io"] /\ pc' = [pc EXCEPT !["main"] = pc'["main"]]
        /\ req' = req
        /\ pc["main"] \notin {"buffer", "queue", "device", "done"}
             /\ pc'["main"] \notin {"buffer", "queue", "device", "done"}
    BY <1>16 DEF LooksAgain, AwaitPoolBuffer, Goto, Links, Shape, PcShape, QueueShape,
       RequestShape, Threads
  <2> QED
    BY <1>16, <2>1 DEF Pipe, IoUses, Queued, Links, Shape, PcShape, Threads
<1>17. ASSUME Refuse PROVE Pipe(r) \/ (GetRequest /\ r = req'["main"])
  <2>1. /\ queue'["io"] = queue["io"] /\ pc' = [pc EXCEPT !["main"] = pc'["main"]]
        /\ req' = req
        /\ pc["main"] \notin {"buffer", "queue", "device", "done"}
             /\ pc'["main"] \notin {"buffer", "queue", "device", "done"}
    BY <1>17 DEF Refuse, GetItem, Goto, Links, Shape, PcShape, QueueShape, RequestShape, Threads
  <2> QED
    BY <1>17, <2>1 DEF Pipe, IoUses, Queued, Links, Shape, PcShape, Threads
<1>18. ASSUME Protect PROVE Pipe(r) \/ (GetRequest /\ r = req'["main"])
  <2>1. /\ queue'["io"] = queue["io"] /\ pc' = [pc EXCEPT !["main"] = pc'["main"]]
        /\ req' = req
        /\ pc["main"] \notin {"buffer", "queue", "device", "done"}
             /\ pc'["main"] \notin {"buffer", "queue", "device", "done"}
    BY <1>18 DEF Protect, GetItem, Goto, Links, Shape, PcShape, QueueShape, RequestShape, Threads
  <2> QED
    BY <1>18, <2>1 DEF Pipe, IoUses, Queued, Links, Shape, PcShape, Threads
<1>19. ASSUME Accept PROVE Pipe(r) \/ (GetRequest /\ r = req'["main"])
  <2>1. /\ queue'["io"] = queue["io"] /\ pc' = [pc EXCEPT !["main"] = pc'["main"]]
        /\ req' = req
        /\ pc["main"] \notin {"buffer", "queue", "device", "done"}
             /\ pc'["main"] \notin {"buffer", "queue", "device", "done"}
    BY <1>19 DEF Accept, GetItem, Goto, Links, Shape, PcShape, QueueShape, RequestShape, Threads
  <2> QED
    BY <1>19, <2>1 DEF Pipe, IoUses, Queued, Links, Shape, PcShape, Threads
<1>20. ASSUME ReadMisaligned PROVE Pipe(r) \/ (GetRequest /\ r = req'["main"])
  <2>1. /\ queue'["io"] = queue["io"] /\ pc' = [pc EXCEPT !["main"] = pc'["main"]]
        /\ req' = req
        /\ pc["main"] \notin {"buffer", "queue", "device", "done"}
             /\ pc'["main"] \notin {"buffer", "queue", "device", "done"}
    BY <1>20 DEF ReadMisaligned, Goto, Links, Shape, PcShape, QueueShape, RequestShape, Threads
  <2> QED
    BY <1>20, <2>1 DEF Pipe, IoUses, Queued, Links, Shape, PcShape, Threads
<1>21. ASSUME DecryptMisaligned PROVE Pipe(r) \/ (GetRequest /\ r = req'["main"])
  <2>1. /\ queue'["io"] = queue["io"] /\ pc' = [pc EXCEPT !["main"] = pc'["main"]]
        /\ req' = req
        /\ pc["main"] \notin {"buffer", "queue", "device", "done"}
             /\ pc'["main"] \notin {"buffer", "queue", "device", "done"}
    BY <1>21 DEF DecryptMisaligned, Goto, Links, Shape, PcShape, QueueShape, RequestShape, Threads
  <2> QED
    BY <1>21, <2>1 DEF Pipe, IoUses, Queued, Links, Shape, PcShape, Threads
<1>22. ASSUME NextFragment PROVE Pipe(r) \/ (GetRequest /\ r = req'["main"])
  <2>1. /\ queue'["io"] = queue["io"] /\ pc' = [pc EXCEPT !["main"] = pc'["main"]]
        /\ req' = req
        /\ pc["main"] \notin {"buffer", "queue", "device", "done"}
             /\ pc'["main"] \notin {"buffer", "queue", "device", "done"}
    BY <1>22 DEF NextFragment, Goto, Links, Shape, PcShape, QueueShape, RequestShape, Threads
  <2> QED
    BY <1>22, <2>1 DEF Pipe, IoUses, Queued, Links, Shape, PcShape, Threads
<1>23. ASSUME GetRequest PROVE Pipe(r) \/ (GetRequest /\ r = req'["main"])
  <2>1. /\ queue'["io"] = queue["io"] /\ pc' = [pc EXCEPT !["main"] = pc'["main"]]
        /\ \A u \in Threads \ {"main"} : req'[u] = req[u]
        /\ pc["main"] = "request" /\ pc'["main"] = "buffer"
    BY <1>23 DEF GetRequest, Goto, Links, Shape, PcShape, QueueShape, RequestShape, Threads
  <2> QED
    BY <1>23, <2>1 DEF Pipe, IoUses, Queued, Links, Shape, PcShape, Threads
<1>24. ASSUME FillFragment PROVE Pipe(r) \/ (GetRequest /\ r = req'["main"])
  <2>1. /\ queue'["io"] = queue["io"] /\ pc' = [pc EXCEPT !["main"] = pc'["main"]]
        /\ req' = req
        /\ pc["main"] = "buffer" /\ pc'["main"] = "queue"
    BY <1>24 DEF FillFragment, Goto, Links, Shape, PcShape, QueueShape, RequestShape, Threads
  <2> QED
    BY <1>24, <2>1 DEF Pipe, IoUses, Queued, Links, Shape, PcShape, Threads
<1>25. ASSUME QueueFragment PROVE Pipe(r) \/ (GetRequest /\ r = req'["main"])
  <2>1. /\ \A n \in Queued("io")' : \/ n \in Queued("io") /\ queue'["io"][n] = queue["io"][n]
                                    \/ queue'["io"][n] = req["main"]
        /\ pc["main"] = "queue" /\ pc'["main"] \notin {"buffer", "queue"}
        /\ pc'["io"] = pc["io"] /\ req'["io"] = req["io"]
    BY <1>25, QueueFragmentMoves DEF Links, Shape, PcShape, RequestShape, Threads
  <2> QED
    BY <2>1 DEF Pipe, IoUses
<1>26. ASSUME TakeRequest PROVE Pipe(r) \/ (GetRequest /\ r = req'["main"])
  <2>1. /\ \A n \in Queued("io")' : n + 1 \in Queued("io") /\ queue'["io"][n] = queue["io"][n + 1]
        /\ 1 \in Queued("io") /\ req'["io"] = queue["io"][1]
        /\ pc'["main"] = pc["main"] /\ req'["main"] = req["main"]
    BY <1>26, TakeRequestMoves DEF Links, Shape, PcShape, RequestShape, Threads
  <2> QED
    BY <2>1 DEF Pipe
<1>27. ASSUME DoPiece PROVE Pipe(r) \/ (GetRequest /\ r = req'["main"])
  <2>1. /\ queue'["io"] = queue["io"] /\ pc' = [pc EXCEPT !["io"] = pc'["io"]]
        /\ req' = req
        /\ pc["io"] \in {"device", "done"}
    BY <1>27 DEF DoPiece, Goto, Links, Shape, PcShape, QueueShape, RequestShape, Threads
  <2> QED
    BY <1>27, <2>1 DEF Pipe, IoUses, Queued, Links, Shape, PcShape, Threads
<1>28. ASSUME WriteDone PROVE Pipe(r) \/ (GetRequest /\ r = req'["main"])
  <2>1. /\ queue'["io"] = queue["io"] /\ pc' = [pc EXCEPT !["io"] = pc'["io"]]
        /\ req' = req
        /\ pc["io"] \in {"device", "done"}
    BY <1>28 DEF WriteDone, Goto, AfterRequest, ReleaseFragmentBuffer, Links, Shape, PcShape,
       QueueShape, RequestShape, Threads
  <2> QED
    BY <1>28, <2>1 DEF Pipe, IoUses, Queued, Links, Shape, PcShape, Threads
<1>29. ASSUME ReadDone PROVE Pipe(r) \/ (GetRequest /\ r = req'["main"])
  <2>1. /\ queue'["io"] = queue["io"] /\ pc' = [pc EXCEPT !["io"] = pc'["io"]]
        /\ req' = req
        /\ pc["io"] \in {"device", "done"}
    BY <1>29 DEF ReadDone, Goto, ReleaseFragmentBuffer, Links, Shape, PcShape, QueueShape,
       RequestShape, Threads
  <2> QED
    BY <1>29, <2>1 DEF Pipe, IoUses, Queued, Links, Shape, PcShape, Threads
<1>30. ASSUME PassesOn PROVE Pipe(r) \/ (GetRequest /\ r = req'["main"])
  <2>1. /\ queue'["io"] = queue["io"] /\ pc' = [pc EXCEPT !["io"] = pc'["io"]]
        /\ \A u \in Threads \ {"io"} : req'[u] = req[u]
        /\ pc["io"] \notin {"buffer", "queue", "device", "done"}
             /\ pc'["io"] \notin {"buffer", "queue", "device", "done"}
    BY <1>30 DEF PassesOn, PostCompletion, Goto, Links, Shape, PcShape, QueueShape, RequestShape,
       Threads
  <2> QED
    BY <1>30, <2>1 DEF Pipe, IoUses, Queued, Links, Shape, PcShape, Threads
<1>31. ASSUME ReadAhead PROVE Pipe(r) \/ (GetRequest /\ r = req'["main"])
  <2>1. /\ queue'["io"] = queue["io"] /\ pc' = [pc EXCEPT !["io"] = pc'["io"]]
        /\ req' = req
        /\ pc["io"] \notin {"buffer", "queue", "device", "done"}
             /\ pc'["io"] \notin {"buffer", "queue", "device", "done"}
    BY <1>31 DEF ReadAhead, Goto, Links, Shape, PcShape, QueueShape, RequestShape, Threads
  <2> QED
    BY <1>31, <2>1 DEF Pipe, IoUses, Queued, Links, Shape, PcShape, Threads
<1>32. ASSUME DecryptFragment PROVE Pipe(r) \/ (GetRequest /\ r = req'["main"])
  <2>1. /\ queue'["io"] = queue["io"] /\ pc' = [pc EXCEPT !["completion"] = pc'["completion"]]
        /\ \A u \in Threads \ {"completion"} : req'[u] = req[u]
        /\ pc["completion"] \notin {"buffer", "queue", "device", "done"}
             /\ pc'["completion"] \notin {"buffer", "queue", "device", "done"}
    BY <1>32 DEF DecryptFragment, Goto, AfterRequest, Links, Shape, PcShape, QueueShape,
       RequestShape, Threads
  <2> QED
    BY SMTT(60), <1>32, <2>1 DEF Pipe, IoUses, Queued, Links, Shape, PcShape, Threads
<1>33. CASE UNCHANGED <<coreVars, dataVars>>
  BY <1>33 DEF Pipe, IoUses, Queued, coreVars
<1> QED BY ActionCases, <1>1, <1>2, <1>3, <1>4, <1>5, <1>6, <1>7, <1>8, <1>9, <1>10, <1>11,
     <1>12, <1>13, <1>14, <1>15, <1>16, <1>17, <1>18, <1>19, <1>20, <1>21, <1>22, <1>23, <1>24,
     <1>25, <1>26, <1>27, <1>28, <1>29, <1>30, <1>31, <1>32, <1>33


(* The item of a request in the pipe is live.                              *)
PipeLives == \A r \in Requests : Pipe(r) => r.item \in Items /\ Live(r.item)

(* Whoever works on the request sees to that.                              *)
LEMMA PipeLive == Links => PipeLives
<1> SUFFICES ASSUME Links, NEW r \in Requests, Pipe(r)
             PROVE  r.item \in Items /\ Live(r.item)
  BY DEF PipeLives
<1>1. CASE pc["main"] \in {"buffer", "queue"} /\ r = req["main"]
  BY <1>1, LiveOnes, Holders DEF Links, Hands, Cutting, MainOwns, Threads
<1>2. CASE \E n \in Queued("io") : r = queue["io"][n]
  BY <1>2, LiveOnes, Holders
<1>3. CASE IoUses /\ r = req["io"]
  BY <1>3, LiveOnes, Holders DEF IoUses, Links, Hands, Threads
<1> QED
  BY <1>1, <1>2, <1>3 DEF Pipe

(* One that stays in it keeps its IRP.                                     *)
LEMMA PipeKept ==
  ASSUME Links, [QueueStep]_vars, NEW r \in Requests, Pipe(r), Pipe(r)'
  PROVE  LET i == item[r.item].irp IN
         /\ r.item \in Items /\ i \in Irps /\ item'[r.item].irp = i /\ irp'[i] = irp[i]
         /\ i \in late' => i \in late
<1>1. r.item \in Items /\ Live(r.item)
  BY PipeLive DEF PipeLives
<1>2. Links'
  BY LinksStep, StepKnown
<1>3. PipeLives'
  BY <1>2, PipeLive, PTL
<1>4. LiveIn(item', pc', own', r.item)
  BY <1>3 DEF PipeLives, Live
<1> QED
  BY <1>1, <1>4, LiveKept


(* What the use of the fragment buffers depends on.                        *)
BuffersAlone ==
  /\ queue'["io"] = queue["io"] /\ fragmentFree' = fragmentFree
  /\ pc'["main"] = "queue" <=> pc["main"] = "queue"
  /\ IoUses' <=> IoUses
  /\ pc["main"] = "queue" => req'["main"] = req["main"]
  /\ IoUses => req'["io"] = req["io"]
  /\ pc'["main"] \in {"buffer", "queue"} => req'["main"].buf = active'

(* When none of that changes, nothing changes.                             *)
LEMMA BufferedKept ==
  ASSUME Buffered, BuffersAlone
  PROVE  Buffered'
<1>1. Queued("io")' = Queued("io")
  BY DEF BuffersAlone, Queued
<1> QED
  BY <1>1 DEF Buffered, BuffersAlone, IoUses


(* Every step keeps the use of the buffers in order.                       *)
LEMMA BufferedStep ==
  ASSUME Links, Buffered, [QueueStep]_vars
  PROVE  Buffered'
<1> USE DEF irpVars, queueVars, poolVars, handVars, mainVars, fragmentVars, ioVars, pipeVars,
            countVars, diskVars, outerVars, holdVars, stopVars, envVars, areaVars, keyVars,
            volumeVars
<1>1. ASSUME NEW i \in Irps, NEW op \in {"read", "write", "skewed"}, NEW first \in Nat,
             NEW len \in Nat, Issue(i, op, first, len)
      PROVE  Buffered'
  <2>1. UNCHANGED <<pc, req, active, fragmentFree>> /\ queue'["io"] = queue["io"]
    BY <1>1 DEF Issue, IGoto, Links, Shape, QueueShape, Threads
  <2> QED
    BY <2>1, BufferedKept DEF BuffersAlone, IoUses, Buffered
<1>2. ASSUME NEW i \in Irps, AddIrp(i) PROVE Buffered'
  <2>1. UNCHANGED <<pc, req, active, fragmentFree>> /\ queue'["io"] = queue["io"]
    BY <1>2 DEF AddIrp, IGoto, Links, Shape, QueueShape, Threads
  <2> QED
    BY <2>1, BufferedKept DEF BuffersAlone, IoUses, Buffered
<1>3. ASSUME NEW i \in Irps, Reject(i) PROVE Buffered'
  <2>1. UNCHANGED <<pc, req, active, fragmentFree>> /\ queue'["io"] = queue["io"]
    BY <1>3 DEF Reject, IGoto, Links, Shape, QueueShape, Threads
  <2> QED
    BY <2>1, BufferedKept DEF BuffersAlone, IoUses, Buffered
<1>4. ASSUME NEW i \in Irps, RejectSignal(i) PROVE Buffered'
  <2>1. UNCHANGED <<pc, req, active, fragmentFree>> /\ queue'["io"] = queue["io"]
    BY SMTT(60), <1>4 DEF RejectSignal, IGoto, Links, Shape, QueueShape, Threads
  <2> QED
    BY <2>1, BufferedKept DEF BuffersAlone, IoUses, Buffered
<1>5. ASSUME NEW t \in Threads, Wake(t) PROVE Buffered'
  <2>1. /\ queue'["io"] = queue["io"] /\ pc' = [pc EXCEPT ![t] = pc'[t]]
        /\ \A u \in Threads : u # t => req'[u] = req[u]
        /\ pc[t] \notin {"buffer", "queue", "device", "done"}
             /\ pc'[t] \notin {"buffer", "queue", "device", "done"}
        /\ fragmentFree' = fragmentFree /\ active' = active
    BY <1>5 DEF Wake, Goto, Links, Shape, PcShape, QueueShape, RequestShape, Threads
  <2> QED
    BY <2>1, BufferedKept DEF BuffersAlone, Buffered, IoUses, Links, Shape, PcShape, Threads
<1>6. ASSUME NEW t \in Threads, Drained(t) PROVE Buffered'
  <2>1. /\ queue'["io"] = queue["io"] /\ pc' = [pc EXCEPT ![t] = pc'[t]]
        /\ \A u \in Threads : u # t => req'[u] = req[u]
        /\ pc[t] \notin {"buffer", "queue", "device", "done"}
             /\ pc'[t] \notin {"buffer", "queue", "device", "done"}
        /\ fragmentFree' = fragmentFree /\ active' = active
    BY <1>6 DEF Drained, Goto, Links, Shape, PcShape, QueueShape, RequestShape, Threads
  <2> QED
    BY <2>1, BufferedKept DEF BuffersAlone, Buffered, IoUses, Links, Shape, PcShape, Threads
<1>7. ASSUME NEW t \in Threads, CompleteIrp(t) PROVE Buffered'
  <2>1. /\ queue'["io"] = queue["io"] /\ pc' = [pc EXCEPT ![t] = pc'[t]]
        /\ \A u \in Threads : u # t => req'[u] = req[u]
        /\ pc[t] \notin {"buffer", "queue", "device", "done"}
             /\ pc'[t] \notin {"buffer", "queue", "device", "done"}
        /\ fragmentFree' = fragmentFree /\ active' = active
    BY <1>7 DEF CompleteIrp, Goto, Links, Shape, PcShape, QueueShape, RequestShape, Threads
  <2> QED
    BY <2>1, BufferedKept DEF BuffersAlone, Buffered, IoUses, Links, Shape, PcShape, Threads
<1>8. ASSUME NEW t \in Threads, Decrement(t) PROVE Buffered'
  <2>1. /\ queue'["io"] = queue["io"] /\ pc' = [pc EXCEPT ![t] = pc'[t]]
        /\ \A u \in Threads : u # t => req'[u] = req[u]
        /\ pc[t] \notin {"buffer", "queue", "device", "done"}
             /\ pc'[t] \notin {"buffer", "queue", "device", "done"}
        /\ fragmentFree' = fragmentFree /\ active' = active
    BY <1>8 DEF Decrement, Goto, AfterDecrement, Links, Shape, PcShape, QueueShape, RequestShape,
       Threads
  <2> QED
    BY <2>1, BufferedKept DEF BuffersAlone, Buffered, IoUses, Links, Shape, PcShape, Threads
<1>9. ASSUME NEW t \in Threads, SignalIdle(t) PROVE Buffered'
  <2>1. /\ queue'["io"] = queue["io"] /\ pc' = [pc EXCEPT ![t] = pc'[t]]
        /\ \A u \in Threads : u # t => req'[u] = req[u]
        /\ pc[t] \notin {"buffer", "queue", "device", "done"}
             /\ pc'[t] \notin {"buffer", "queue", "device", "done"}
        /\ fragmentFree' = fragmentFree /\ active' = active
    BY <1>9 DEF SignalIdle, Goto, AfterDecrement, Links, Shape, PcShape, QueueShape,
       RequestShape, Threads
  <2> QED
    BY <2>1, BufferedKept DEF BuffersAlone, Buffered, IoUses, Links, Shape, PcShape, Threads
<1>10. ASSUME NEW t \in Threads, ReleaseItem(t) PROVE Buffered'
  <2>1. /\ queue'["io"] = queue["io"] /\ pc' = [pc EXCEPT ![t] = pc'[t]]
        /\ \A u \in Threads : u # t => req'[u] = req[u]
        /\ pc[t] \notin {"buffer", "queue", "device", "done"}
             /\ pc'[t] \notin {"buffer", "queue", "device", "done"}
        /\ fragmentFree' = fragmentFree /\ active' = active
    BY <1>10 DEF ReleaseItem, Goto, Links, Shape, PcShape, QueueShape, RequestShape, Threads
  <2> QED
    BY <2>1, BufferedKept DEF BuffersAlone, Buffered, IoUses, Links, Shape, PcShape, Threads
<1>11. ASSUME NEW t \in Threads, ReleaseRequest(t) PROVE Buffered'
  <2>1. /\ queue'["io"] = queue["io"] /\ pc' = [pc EXCEPT ![t] = pc'[t]]
        /\ \A u \in Threads : u # t => req'[u] = req[u]
        /\ pc[t] \notin {"buffer", "queue", "device", "done"}
             /\ pc'[t] \notin {"buffer", "queue", "device", "done"}
        /\ fragmentFree' = fragmentFree /\ active' = active
    BY <1>11 DEF ReleaseRequest, Goto, Links, Shape, PcShape, QueueShape, RequestShape, Threads
  <2> QED
    BY <2>1, BufferedKept DEF BuffersAlone, Buffered, IoUses, Links, Shape, PcShape, Threads
<1>12. ASSUME TakeIrp PROVE Buffered'
  <2>1. /\ queue'["io"] = queue["io"] /\ pc' = [pc EXCEPT !["main"] = pc'["main"]]
        /\ \A u \in Threads \ {"main"} : req'[u] = req[u]
        /\ pc["main"] \notin {"buffer", "queue", "device", "done"}
             /\ pc'["main"] \notin {"buffer", "queue", "device", "done"}
        /\ fragmentFree' = fragmentFree /\ active' = active
    BY <1>12 DEF TakeIrp, Goto, Links, Shape, PcShape, QueueShape, RequestShape, Threads
  <2> QED
    BY <2>1, BufferedKept DEF BuffersAlone, Buffered, IoUses, Links, Shape, PcShape, Threads
<1>13. ASSUME TestSuspended PROVE Buffered'
  <2>1. /\ queue'["io"] = queue["io"] /\ pc' = [pc EXCEPT !["main"] = pc'["main"]]
        /\ \A u \in Threads \ {"main"} : req'[u] = req[u]
        /\ pc["main"] \notin {"buffer", "queue", "device", "done"}
             /\ pc'["main"] \notin {"buffer", "queue", "device", "done"}
        /\ fragmentFree' = fragmentFree /\ active' = active
    BY <1>13 DEF TestSuspended, Goto, Links, Shape, PcShape, QueueShape, RequestShape, Threads
  <2> QED
    BY <2>1, BufferedKept DEF BuffersAlone, Buffered, IoUses, Links, Shape, PcShape, Threads
<1>14. ASSUME AwaitResume PROVE Buffered'
  <2>1. /\ queue'["io"] = queue["io"] /\ pc' = [pc EXCEPT !["main"] = pc'["main"]]
        /\ \A u \in Threads \ {"main"} : req'[u] = req[u]
        /\ pc["main"] \notin {"buffer", "queue", "device", "done"}
             /\ pc'["main"] \notin {"buffer", "queue", "device", "done"}
        /\ fragmentFree' = fragmentFree /\ active' = active
    BY <1>14 DEF AwaitResume, Goto, Links, Shape, PcShape, QueueShape, RequestShape, Threads
  <2> QED
    BY <2>1, BufferedKept DEF BuffersAlone, Buffered, IoUses, Links, Shape, PcShape, Threads
<1>15. ASSUME AwaitsPool PROVE Buffered'
  <2>1. /\ queue'["io"] = queue["io"] /\ pc' = [pc EXCEPT !["main"] = pc'["main"]]
        /\ \A u \in Threads \ {"main"} : req'[u] = req[u]
        /\ pc["main"] \notin {"buffer", "queue", "device", "done"}
             /\ pc'["main"] \notin {"buffer", "queue", "device", "done"}
        /\ fragmentFree' = fragmentFree /\ active' = active
    BY <1>15 DEF AwaitsPool, PoolEmpty, Goto, Links, Shape, PcShape, QueueShape, RequestShape,
       Threads
  <2> QED
    BY <2>1, BufferedKept DEF BuffersAlone, Buffered, IoUses, Links, Shape, PcShape, Threads
<1>16. ASSUME LooksAgain PROVE Buffered'
  <2>1. /\ queue'["io"] = queue["io"] /\ pc' = [pc EXCEPT !["main"] = pc'["main"]]
        /\ \A u \in Threads \ {"main"} : req'[u] = req[u]
        /\ pc["main"] \notin {"buffer", "queue", "device", "done"}
             /\ pc'["main"] \notin {"buffer", "queue", "device", "done"}
        /\ fragmentFree' = fragmentFree /\ active' = active
    BY <1>16 DEF LooksAgain, AwaitPoolBuffer, Goto, Links, Shape, PcShape, QueueShape,
       RequestShape, Threads
  <2> QED
    BY <2>1, BufferedKept DEF BuffersAlone, Buffered, IoUses, Links, Shape, PcShape, Threads
<1>17. ASSUME Refuse PROVE Buffered'
  <2>1. /\ queue'["io"] = queue["io"] /\ pc' = [pc EXCEPT !["main"] = pc'["main"]]
        /\ \A u \in Threads \ {"main"} : req'[u] = req[u]
        /\ pc["main"] \notin {"buffer", "queue", "device", "done"}
             /\ pc'["main"] \notin {"buffer", "queue", "device", "done"}
        /\ fragmentFree' = fragmentFree /\ active' = active
    BY <1>17 DEF Refuse, GetItem, Goto, Links, Shape, PcShape, QueueShape, RequestShape, Threads
  <2> QED
    BY <2>1, BufferedKept DEF BuffersAlone, Buffered, IoUses, Links, Shape, PcShape, Threads
<1>18. ASSUME Protect PROVE Buffered'
  <2>1. /\ queue'["io"] = queue["io"] /\ pc' = [pc EXCEPT !["main"] = pc'["main"]]
        /\ \A u \in Threads \ {"main"} : req'[u] = req[u]
        /\ pc["main"] \notin {"buffer", "queue", "device", "done"}
             /\ pc'["main"] \notin {"buffer", "queue", "device", "done"}
        /\ fragmentFree' = fragmentFree /\ active' = active
    BY <1>18 DEF Protect, GetItem, Goto, Links, Shape, PcShape, QueueShape, RequestShape, Threads
  <2> QED
    BY <2>1, BufferedKept DEF BuffersAlone, Buffered, IoUses, Links, Shape, PcShape, Threads
<1>19. ASSUME Accept PROVE Buffered'
  <2>1. /\ queue'["io"] = queue["io"] /\ pc' = [pc EXCEPT !["main"] = pc'["main"]]
        /\ \A u \in Threads \ {"main"} : req'[u] = req[u]
        /\ pc["main"] \notin {"buffer", "queue", "device", "done"}
             /\ pc'["main"] \notin {"buffer", "queue", "device", "done"}
        /\ fragmentFree' = fragmentFree /\ active' = active
    BY <1>19 DEF Accept, GetItem, Goto, Links, Shape, PcShape, QueueShape, RequestShape, Threads
  <2> QED
    BY <2>1, BufferedKept DEF BuffersAlone, Buffered, IoUses, Links, Shape, PcShape, Threads
<1>20. ASSUME ReadMisaligned PROVE Buffered'
  <2>1. /\ queue'["io"] = queue["io"] /\ pc' = [pc EXCEPT !["main"] = pc'["main"]]
        /\ \A u \in Threads \ {"main"} : req'[u] = req[u]
        /\ pc["main"] \notin {"buffer", "queue", "device", "done"}
             /\ pc'["main"] \notin {"buffer", "queue", "device", "done"}
        /\ fragmentFree' = fragmentFree /\ active' = active
    BY <1>20 DEF ReadMisaligned, Goto, Links, Shape, PcShape, QueueShape, RequestShape, Threads
  <2> QED
    BY <2>1, BufferedKept DEF BuffersAlone, Buffered, IoUses, Links, Shape, PcShape, Threads
<1>21. ASSUME DecryptMisaligned PROVE Buffered'
  <2>1. /\ queue'["io"] = queue["io"] /\ pc' = [pc EXCEPT !["main"] = pc'["main"]]
        /\ \A u \in Threads \ {"main"} : req'[u] = req[u]
        /\ pc["main"] \notin {"buffer", "queue", "device", "done"}
             /\ pc'["main"] \notin {"buffer", "queue", "device", "done"}
        /\ fragmentFree' = fragmentFree /\ active' = active
    BY SMTT(60), <1>21 DEF DecryptMisaligned, Goto, Links, Shape, PcShape, QueueShape,
       RequestShape, Threads
  <2> QED
    BY <2>1, BufferedKept DEF BuffersAlone, Buffered, IoUses, Links, Shape, PcShape, Threads
<1>22. ASSUME NextFragment PROVE Buffered'
  <2>1. /\ queue'["io"] = queue["io"] /\ pc' = [pc EXCEPT !["main"] = pc'["main"]]
        /\ \A u \in Threads \ {"main"} : req'[u] = req[u]
        /\ pc["main"] \notin {"buffer", "queue", "device", "done"}
             /\ pc'["main"] \notin {"buffer", "queue", "device", "done"}
        /\ fragmentFree' = fragmentFree
    BY SMTT(60), <1>22 DEF NextFragment, Goto, Links, Shape, PcShape, QueueShape, RequestShape,
       Threads
  <2> QED
    BY <2>1, BufferedKept DEF BuffersAlone, Buffered, IoUses, Links, Shape, PcShape, Threads
<1>23. ASSUME GetRequest PROVE Buffered'
  <2>1. /\ queue'["io"] = queue["io"] /\ pc' = [pc EXCEPT !["main"] = pc'["main"]]
        /\ \A u \in Threads \ {"main"} : req'[u] = req[u]
        /\ pc["main"] = "request" /\ pc'["main"] = "buffer" /\ req'["main"].buf = active
        /\ fragmentFree' = fragmentFree /\ active' = active
    BY <1>23 DEF GetRequest, Goto, Links, Shape, PcShape, QueueShape, RequestShape, Threads
  <2> QED
    BY <2>1, BufferedKept DEF BuffersAlone, Buffered, IoUses, Links, Shape, PcShape, Threads
<1>24. ASSUME FillFragment PROVE Buffered'
  <2> DEFINE b == req["main"].buf
  <2>1. /\ queue' = queue /\ req' = req /\ active' = active
        /\ pc["main"] = "buffer" /\ pc' = [pc EXCEPT !["main"] = "queue"]
        /\ b = active /\ fragmentFree[b] /\ fragmentFree' = [fragmentFree EXCEPT ![b] = FALSE]
        /\ fragmentFree \in [Fragments -> BOOLEAN] /\ b \in Fragments
    BY <1>24 DEF FillFragment, Goto, Acquired, Buffered, Links, Shape, BufferShape, MainShape
  <2>2. /\ Queued("io")' = Queued("io") /\ (IoUses' <=> IoUses) /\ pc'["main"] = "queue"
        /\ \A c \in Fragments : fragmentFree'[c] <=> c # b /\ fragmentFree[c]
    BY <2>1 DEF Queued, IoUses, Links, Shape, PcShape, Threads
  <2>3. /\ \A n \in Queued("io") : queue["io"][n].buf # b
        /\ IoUses => req["io"].buf # b
    BY <2>1 DEF Buffered
  <2>4. /\ \A n \in Queued("io") : queue["io"][n].buf \in Fragments
        /\ req["io"].buf \in Fragments
    BY QueueHeads, RequestFields DEF Links, Shape, RequestShape, Threads
  <2> HIDE DEF b
  <2>5. req'["main"].buf = b
    BY <2>1 DEF b
  <2> QED
    BY <2>1, <2>2, <2>3, <2>4, <2>5 DEF Buffered
<1>25. ASSUME QueueFragment PROVE Buffered'
  <2>1. /\ \A n \in Queued("io") : queue'["io"][n] = queue["io"][n] /\ n \in Queued("io")'
        /\ queue'["io"][Len(queue["io"]) + 1] = req["main"]
        /\ \A n \in Queued("io")' : n \in Queued("io") \/ n = Len(queue["io"]) + 1
        /\ Len(queue["io"]) + 1 \in Queued("io")'
        /\ pc["main"] = "queue" /\ pc'["main"] \notin {"buffer", "queue"}
        /\ (IoUses' <=> IoUses) /\ req'["io"] = req["io"]
    BY <1>25, QueueFragmentMoves DEF IoUses, Links, Shape, PcShape, RequestShape, Threads
  <2>2. fragmentFree' = fragmentFree
    BY <1>25 DEF QueueFragment
  <2> DEFINE last == Len(queue["io"]) + 1
  <2>3. queue'["io"][last] = req["main"] /\ last \in Queued("io")' /\ last \notin Queued("io")
    BY <2>1 DEF Queued, Links, Shape, QueueShape
  <2>4. \A n \in Queued("io")' : n \in Queued("io") \/ n = last
    BY <2>1
  <2> HIDE DEF last
  <2> QED
    BY <2>1, <2>2, <2>3, <2>4 DEF Buffered
<1>26. ASSUME TakeRequest PROVE Buffered'
  <2>1. /\ \A n \in Queued("io")' : queue'["io"][n] = queue["io"][n + 1] /\ n + 1 \in Queued("io")
        /\ \A n \in Queued("io") : n = 1 \/ (n - 1 \in Queued("io")'
             /\ queue'["io"][n - 1] = queue["io"][n])
        /\ 1 \in Queued("io") /\ req'["io"] = queue["io"][1] /\ req'["main"] = req["main"]
        /\ pc["io"] = "pop" /\ pc'["io"] \in {"device", "done"} /\ pc'["main"] = pc["main"]
    BY <1>26, TakeRequestMoves, RemovedBack DEF Links, Shape, PcShape, RequestShape, Threads
  <2>2. fragmentFree' = fragmentFree /\ active' = active /\ ~IoUses /\ IoUses'
    BY <1>26, <2>1 DEF TakeRequest, IoUses
  <2>3. \A n \in Queued("io")' : n \in Int /\ n + 1 # 1
    BY DEF Queued, Links, Shape, QueueShape
  <2>4. \A m, n \in Queued("io")' : queue'["io"][m].buf = queue'["io"][n].buf => m = n
    BY <2>1, <2>3 DEF Buffered
  <2>5. \A n \in Queued("io")' :
          /\ ~fragmentFree'[queue'["io"][n].buf]
          /\ pc'["main"] = "queue" => req'["main"].buf # queue'["io"][n].buf
          /\ req'["io"].buf # queue'["io"][n].buf
    BY SMTT(60), <2>1, <2>2, <2>3 DEF Buffered
  <2> QED
    BY <2>1, <2>2, <2>4, <2>5 DEF Buffered
<1>27. ASSUME DoPiece PROVE Buffered'
  <2>1. /\ queue'["io"] = queue["io"] /\ pc' = [pc EXCEPT !["io"] = pc'["io"]]
        /\ req' = req
        /\ pc["io"] = "device" /\ pc'["io"] \in {"device", "done"}
        /\ fragmentFree' = fragmentFree /\ active' = active
    BY <1>27 DEF DoPiece, Goto, Links, Shape, PcShape, QueueShape, RequestShape, Threads
  <2> QED
    BY <2>1, BufferedKept DEF BuffersAlone, Buffered, IoUses, Links, Shape, PcShape, Threads
<1>28. ASSUME WriteDone PROVE Buffered'
  <2> DEFINE b == req["io"].buf
  <2>1. /\ queue' = queue /\ req' = req /\ active' = active
        /\ pc["io"] = "done" /\ pc' = [pc EXCEPT !["io"] = pc'["io"]]
             /\ pc'["io"] \notin {"device", "done"}
        /\ fragmentFree' = [fragmentFree EXCEPT ![b] = TRUE]
        /\ fragmentFree \in [Fragments -> BOOLEAN] /\ b \in Fragments
    BY <1>28, RequestFields DEF WriteDone, Goto, AfterRequest, ReleaseFragmentBuffer, IoRequest,
       AfterRequest, Links, Shape, BufferShape, RequestShape, PcShape, Threads
  <2>2. /\ Queued("io")' = Queued("io") /\ IoUses /\ ~IoUses' /\ pc'["main"] = pc["main"]
        /\ \A c \in Fragments : fragmentFree'[c] <=> c = b \/ fragmentFree[c]
    BY <2>1 DEF Queued, IoUses, Links, Shape, PcShape, Threads
  <2>3. /\ \A n \in Queued("io") : queue["io"][n].buf \in Fragments
        /\ req["main"].buf \in Fragments
    BY QueueHeads, RequestFields DEF Links, Shape, RequestShape, Threads
  <2>4. req["io"].buf = b
    OBVIOUS
  <2> HIDE DEF b
  <2> QED
    BY <2>1, <2>2, <2>3, <2>4 DEF Buffered
<1>29. ASSUME ReadDone PROVE Buffered'
  <2> DEFINE b == req["io"].buf
  <2>1. /\ queue' = queue /\ req' = req /\ active' = active
        /\ pc["io"] = "done" /\ pc' = [pc EXCEPT !["io"] = pc'["io"]]
             /\ pc'["io"] \notin {"device", "done"}
        /\ fragmentFree' = [fragmentFree EXCEPT ![b] = TRUE]
        /\ fragmentFree \in [Fragments -> BOOLEAN] /\ b \in Fragments
    BY SMTT(60), <1>29, RequestFields DEF ReadDone, Goto, ReleaseFragmentBuffer, IoRequest,
       AfterRequest,
       Links, Shape, BufferShape, RequestShape, PcShape, Threads
  <2>2. /\ Queued("io")' = Queued("io") /\ IoUses /\ ~IoUses' /\ pc'["main"] = pc["main"]
        /\ \A c \in Fragments : fragmentFree'[c] <=> c = b \/ fragmentFree[c]
    BY <2>1 DEF Queued, IoUses, Links, Shape, PcShape, Threads
  <2>3. /\ \A n \in Queued("io") : queue["io"][n].buf \in Fragments
        /\ req["main"].buf \in Fragments
    BY QueueHeads, RequestFields DEF Links, Shape, RequestShape, Threads
  <2>4. req["io"].buf = b
    OBVIOUS
  <2> HIDE DEF b
  <2> QED
    BY <2>1, <2>2, <2>3, <2>4 DEF Buffered
<1>30. ASSUME PassesOn PROVE Buffered'
  <2>1. /\ queue'["io"] = queue["io"] /\ pc' = [pc EXCEPT !["io"] = pc'["io"]]
        /\ \A u \in Threads \ {"io"} : req'[u] = req[u]
        /\ pc["io"] \notin {"buffer", "queue", "device", "done"}
             /\ pc'["io"] \notin {"buffer", "queue", "device", "done"}
        /\ fragmentFree' = fragmentFree /\ active' = active
    BY <1>30 DEF PassesOn, PostCompletion, Goto, Links, Shape, PcShape, QueueShape, RequestShape,
       Threads
  <2> QED
    BY <2>1, BufferedKept DEF BuffersAlone, Buffered, IoUses, Links, Shape, PcShape, Threads
<1>31. ASSUME ReadAhead PROVE Buffered'
  <2>1. /\ queue'["io"] = queue["io"] /\ pc' = [pc EXCEPT !["io"] = pc'["io"]]
        /\ \A u \in Threads \ {"io"} : req'[u] = req[u]
        /\ pc["io"] \notin {"buffer", "queue", "device", "done"}
             /\ pc'["io"] \notin {"buffer", "queue", "device", "done"}
        /\ fragmentFree' = fragmentFree /\ active' = active
    BY SMTT(60), <1>31 DEF ReadAhead, Goto, Links, Shape, PcShape, QueueShape, RequestShape,
       Threads
  <2> QED
    BY <2>1, BufferedKept DEF BuffersAlone, Buffered, IoUses, Links, Shape, PcShape, Threads
<1>32. ASSUME DecryptFragment PROVE Buffered'
  <2>1. /\ queue'["io"] = queue["io"] /\ pc' = [pc EXCEPT !["completion"] = pc'["completion"]]
        /\ \A u \in Threads \ {"completion"} : req'[u] = req[u]
        /\ pc["completion"] \notin {"buffer", "queue", "device", "done"}
             /\ pc'["completion"] \notin {"buffer", "queue", "device", "done"}
        /\ fragmentFree' = fragmentFree /\ active' = active
    BY <1>32 DEF DecryptFragment, Goto, AfterRequest, Links, Shape, PcShape, QueueShape,
       RequestShape, Threads
  <2> QED
    BY SMTT(60), <2>1, BufferedKept DEF BuffersAlone, Buffered, IoUses, Links, Shape, PcShape,
       Threads
<1>33. CASE UNCHANGED <<coreVars, dataVars>>
  BY <1>33, BufferedKept DEF BuffersAlone, IoUses, Buffered, coreVars
<1> QED BY ActionCases, <1>1, <1>2, <1>3, <1>4, <1>5, <1>6, <1>7, <1>8, <1>9, <1>10, <1>11,
     <1>12, <1>13, <1>14, <1>15, <1>16, <1>17, <1>18, <1>19, <1>20, <1>21, <1>22, <1>23, <1>24,
     <1>25, <1>26, <1>27, <1>28, <1>29, <1>30, <1>31, <1>32, <1>33


(* What the main thread cuts is live.                                      *)
MainLives == pc["main"] \in Cutting => Live(own["main"])

(* The main thread works on a live item.                                   *)
LEMMA MainLive == Links => MainLives
  BY LiveOnes DEF MainLives


(* The protection acts only for a hidden volume.                           *)
LEMMA VolumeStep ==
  ASSUME Links, Volume, [QueueStep]_vars
  PROVE  Volume'
<1>1. UNCHANGED <<areaStart, areaEnd, remap, hostVolume, protected>> /\ Area' = Area
  BY FixedStep DEF Area
<1>2. ASSUME protectionAction' = protectionAction, late' # {} => late # {} \/ protectionAction
      PROVE  Volume'
  BY <1>1, <1>2 DEF Volume
<1>3. CASE UNCHANGED <<protectionAction, late>>
  BY <1>2, <1>3
<1>4. ASSUME NEW i \in Irps, NEW op \in {"read", "write", "skewed"}, NEW first \in Nat,
             NEW len \in Nat, Issue(i, op, first, len)
      PROVE  Volume'
  BY <1>2, <1>4 DEF Issue, outerVars, envVars, volumeVars
<1>5. ASSUME NEW i \in Irps, Reject(i)
      PROVE  Volume'
  BY <1>2, <1>5 DEF Reject, outerVars, envVars, volumeVars
<1>6. ASSUME NEW t \in Threads, CompleteIrp(t)
      PROVE  Volume'
  BY <1>2, <1>6 DEF CompleteIrp, envVars, volumeVars
<1>7. CASE Protect
  <2>1. hostVolume /\ Endangers(taken) /\ protectionAction' /\ late' = late
    BY <1>7 DEF Protect, GetItem, irpVars
  <2>2. protected # {}
    BY <2>1 DEF Endangers
  <2> QED
    BY <1>1, <2>1, <2>2 DEF Volume
<1> QED
  BY <1>3, <1>4, <1>5, <1>6, <1>7, VolumeFrame


(* What makes the main thread go on cutting.                               *)
LEMMA MainCut ==
  ASSUME Links, [QueueStep]_vars, pc'["main"] \in Cutting
  PROVE  \/ Accept \/ QueueFragment
         \/ /\ pc["main"] \in Cutting /\ own'["main"] = own["main"] /\ next' = next
<1> USE DEF irpVars, queueVars, poolVars, handVars, mainVars, fragmentVars, ioVars, pipeVars,
            countVars, diskVars, outerVars,
            holdVars, stopVars, envVars, areaVars, keyVars, volumeVars
<1>1. CASE UNCHANGED <<coreVars, dataVars>>
  BY <1>1 DEF coreVars
<1>2. ASSUME NEW i \in Irps, NEW op \in {"read", "write", "skewed"}, NEW first \in Nat,
             NEW len \in Nat, Issue(i, op, first, len)
      PROVE  \/ Accept \/ QueueFragment
             \/ pc["main"] \in Cutting /\ own'["main"] = own["main"] /\ next' = next
  BY <1>2 DEF Issue, IGoto, Links, Shape, PcShape, OwnShape, Threads, Cutting
<1>3. ASSUME NEW i \in Irps, AddIrp(i)
      PROVE  \/ Accept \/ QueueFragment
             \/ pc["main"] \in Cutting /\ own'["main"] = own["main"] /\ next' = next
  BY <1>3 DEF AddIrp, IGoto, Links, Shape, PcShape, OwnShape, Threads, Cutting
<1>4. ASSUME NEW i \in Irps, Reject(i)
      PROVE  \/ Accept \/ QueueFragment
             \/ pc["main"] \in Cutting /\ own'["main"] = own["main"] /\ next' = next
  BY <1>4 DEF Reject, IGoto, Links, Shape, PcShape, OwnShape, Threads, Cutting
<1>5. ASSUME NEW i \in Irps, RejectSignal(i)
      PROVE  \/ Accept \/ QueueFragment
             \/ pc["main"] \in Cutting /\ own'["main"] = own["main"] /\ next' = next
  BY <1>5 DEF RejectSignal, IGoto, Links, Shape, PcShape, OwnShape, Threads, Cutting
<1>6. ASSUME NEW t \in Threads, Wake(t)
      PROVE  \/ Accept \/ QueueFragment
             \/ pc["main"] \in Cutting /\ own'["main"] = own["main"] /\ next' = next
  BY <1>6 DEF Wake, Goto, Links, Shape, PcShape, OwnShape, Threads, Cutting
<1>7. ASSUME NEW t \in Threads, Drained(t)
      PROVE  \/ Accept \/ QueueFragment
             \/ pc["main"] \in Cutting /\ own'["main"] = own["main"] /\ next' = next
  BY <1>7 DEF Drained, Goto, Links, Shape, PcShape, OwnShape, Threads, Cutting
<1>8. ASSUME NEW t \in Threads, CompleteIrp(t)
      PROVE  \/ Accept \/ QueueFragment
             \/ pc["main"] \in Cutting /\ own'["main"] = own["main"] /\ next' = next
  BY <1>8 DEF CompleteIrp, Goto, Links, Shape, PcShape, OwnShape, Threads, Cutting
<1>9. ASSUME NEW t \in Threads, Decrement(t)
      PROVE  \/ Accept \/ QueueFragment
             \/ pc["main"] \in Cutting /\ own'["main"] = own["main"] /\ next' = next
  BY <1>9 DEF Decrement, Goto, AfterDecrement, Links, Shape, PcShape, OwnShape, Threads, Cutting
<1>10. ASSUME NEW t \in Threads, SignalIdle(t)
      PROVE  \/ Accept \/ QueueFragment
             \/ pc["main"] \in Cutting /\ own'["main"] = own["main"] /\ next' = next
  BY <1>10 DEF SignalIdle, Goto, AfterDecrement, Links, Shape, PcShape, OwnShape, Threads,
     Cutting
<1>11. ASSUME NEW t \in Threads, ReleaseItem(t)
      PROVE  \/ Accept \/ QueueFragment
             \/ pc["main"] \in Cutting /\ own'["main"] = own["main"] /\ next' = next
  BY <1>11 DEF ReleaseItem, Goto, Links, Shape, PcShape, OwnShape, Threads, Cutting
<1>12. ASSUME NEW t \in Threads, ReleaseRequest(t)
      PROVE  \/ Accept \/ QueueFragment
             \/ pc["main"] \in Cutting /\ own'["main"] = own["main"] /\ next' = next
  BY <1>12 DEF ReleaseRequest, Goto, Links, Shape, PcShape, OwnShape, Threads, Cutting
<1>13. ASSUME TakeIrp
      PROVE  \/ Accept \/ QueueFragment
             \/ pc["main"] \in Cutting /\ own'["main"] = own["main"] /\ next' = next
  BY <1>13 DEF TakeIrp, Goto, Links, Shape, PcShape, OwnShape, Threads, Cutting
<1>14. ASSUME TestSuspended
      PROVE  \/ Accept \/ QueueFragment
             \/ pc["main"] \in Cutting /\ own'["main"] = own["main"] /\ next' = next
  BY <1>14 DEF TestSuspended, Goto, Links, Shape, PcShape, OwnShape, Threads, Cutting
<1>15. ASSUME AwaitResume
      PROVE  \/ Accept \/ QueueFragment
             \/ pc["main"] \in Cutting /\ own'["main"] = own["main"] /\ next' = next
  BY <1>15 DEF AwaitResume, Goto, Links, Shape, PcShape, OwnShape, Threads, Cutting
<1>16. ASSUME AwaitsPool
      PROVE  \/ Accept \/ QueueFragment
             \/ pc["main"] \in Cutting /\ own'["main"] = own["main"] /\ next' = next
  BY <1>16 DEF AwaitsPool, PoolEmpty, Goto, Links, Shape, PcShape, OwnShape, Threads, Cutting
<1>17. ASSUME LooksAgain
      PROVE  \/ Accept \/ QueueFragment
             \/ pc["main"] \in Cutting /\ own'["main"] = own["main"] /\ next' = next
  BY <1>17 DEF LooksAgain, AwaitPoolBuffer, Goto, Links, Shape, PcShape, OwnShape, Threads,
     Cutting
<1>18. ASSUME Refuse
      PROVE  \/ Accept \/ QueueFragment
             \/ pc["main"] \in Cutting /\ own'["main"] = own["main"] /\ next' = next
  BY <1>18, GetItemTakes DEF Refuse, GetItem, Goto, Links, Shape, PcShape, OwnShape, Threads,
     Cutting
<1>19. ASSUME Protect
      PROVE  \/ Accept \/ QueueFragment
             \/ pc["main"] \in Cutting /\ own'["main"] = own["main"] /\ next' = next
  BY <1>19, GetItemTakes DEF Protect, GetItem, Goto, Links, Shape, PcShape, OwnShape, Threads,
     Cutting
<1>20. ASSUME ReadMisaligned
      PROVE  \/ Accept \/ QueueFragment
             \/ pc["main"] \in Cutting /\ own'["main"] = own["main"] /\ next' = next
  BY <1>20 DEF ReadMisaligned, Goto, Links, Shape, PcShape, OwnShape, Threads, Cutting
<1>21. ASSUME DecryptMisaligned
      PROVE  \/ Accept \/ QueueFragment
             \/ pc["main"] \in Cutting /\ own'["main"] = own["main"] /\ next' = next
  BY <1>21 DEF DecryptMisaligned, Goto, Links, Shape, PcShape, OwnShape, Threads, Cutting
<1>22. ASSUME NextFragment
      PROVE  \/ Accept \/ QueueFragment
             \/ pc["main"] \in Cutting /\ own'["main"] = own["main"] /\ next' = next
  BY <1>22 DEF NextFragment, Goto, Links, Shape, PcShape, OwnShape, Threads, Cutting
<1>23. ASSUME GetRequest
      PROVE  \/ Accept \/ QueueFragment
             \/ pc["main"] \in Cutting /\ own'["main"] = own["main"] /\ next' = next
  BY <1>23 DEF GetRequest, Goto, Links, Shape, PcShape, OwnShape, Threads, Cutting
<1>24. ASSUME FillFragment
      PROVE  \/ Accept \/ QueueFragment
             \/ pc["main"] \in Cutting /\ own'["main"] = own["main"] /\ next' = next
  BY SMTT(60), <1>24 DEF FillFragment, Goto, Links, Shape, PcShape, OwnShape, Threads, Cutting
<1>25. ASSUME TakeRequest
      PROVE  \/ Accept \/ QueueFragment
             \/ pc["main"] \in Cutting /\ own'["main"] = own["main"] /\ next' = next
  BY <1>25 DEF TakeRequest, Goto, Links, Shape, PcShape, OwnShape, Threads, Cutting
<1>26. ASSUME DoPiece
      PROVE  \/ Accept \/ QueueFragment
             \/ pc["main"] \in Cutting /\ own'["main"] = own["main"] /\ next' = next
  BY <1>26 DEF DoPiece, Goto, Links, Shape, PcShape, OwnShape, Threads, Cutting
<1>27. ASSUME WriteDone
      PROVE  \/ Accept \/ QueueFragment
             \/ pc["main"] \in Cutting /\ own'["main"] = own["main"] /\ next' = next
  BY <1>27 DEF WriteDone, Goto, AfterRequest, ReleaseFragmentBuffer, Links, Shape, PcShape,
     OwnShape, Threads, Cutting
<1>28. ASSUME ReadDone
      PROVE  \/ Accept \/ QueueFragment
             \/ pc["main"] \in Cutting /\ own'["main"] = own["main"] /\ next' = next
  BY <1>28 DEF ReadDone, Goto, ReleaseFragmentBuffer, Links, Shape, PcShape, OwnShape, Threads,
     Cutting
<1>29. ASSUME PassesOn
      PROVE  \/ Accept \/ QueueFragment
             \/ pc["main"] \in Cutting /\ own'["main"] = own["main"] /\ next' = next
  BY <1>29 DEF PassesOn, PostCompletion, Goto, Links, Shape, PcShape, OwnShape, Threads, Cutting
<1>30. ASSUME ReadAhead
      PROVE  \/ Accept \/ QueueFragment
             \/ pc["main"] \in Cutting /\ own'["main"] = own["main"] /\ next' = next
  BY SMTT(60), <1>30 DEF ReadAhead, Goto, Links, Shape, PcShape, OwnShape, Threads, Cutting
<1>31. ASSUME DecryptFragment
      PROVE  \/ Accept \/ QueueFragment
             \/ pc["main"] \in Cutting /\ own'["main"] = own["main"] /\ next' = next
  BY ZenonT(60), <1>31 DEF DecryptFragment, Goto, AfterRequest, Links, Shape, PcShape, OwnShape,
     Threads,
     Cutting
<1> QED BY ActionCases, <1>1, <1>2, <1>3, <1>4, <1>5, <1>6, <1>7, <1>8, <1>9, <1>10, <1>11,
     <1>12, <1>13, <1>14, <1>15, <1>16, <1>17, <1>18, <1>19, <1>20, <1>21, <1>22, <1>23, <1>24,
     <1>25, <1>26, <1>27, <1>28, <1>29, <1>30, <1>31


(* The fragment that is cut next is a part of its IRP.                     *)
LEMMA CutInside ==
  ASSUME Links, MainSafe, GetRequest
  PROVE  LET r == req'["main"]
             i == item[own["main"]].irp IN
         /\ r.item = own["main"] /\ own["main"] \in Items /\ i \in Irps /\ pc["main"] \in Cutting
         /\ r.enc = FragmentSectors(r) \cap Area /\ FragmentSectors(r) \subseteq IrpSectors(i)
         /\ UNCHANGED <<irp, item, late>>
<1> DEFINE i == item[own["main"]].irp
           left == irp[i].first + irp[i].len - next
           len == IF left <= FragmentSize THEN left ELSE FragmentSize
<1>1. /\ req' = [req EXCEPT !["main"] =
           [item |-> own["main"], first |-> next, len |-> len, last |-> left <= FragmentSize,
            enc |-> EncryptedPart(Span(next, len)), buf |-> active]]
      /\ pc["main"] = "request" /\ UNCHANGED <<irp, item, late>>
  BY SMTT(60) DEF GetRequest, MainIrp, Goto, irpVars
<1>2. /\ own["main"] \in Items /\ i \in Irps /\ irp[i] \in IrpRecords /\ next \in Int
      /\ next >= irp[i].first /\ pc["main"] \in Cutting
  BY SMTT(60), <1>1, Holders, UsedItems DEF Links, Shape, Hands, MainShape, Cutting, MainOwns,
     Threads,
     MainSafe
<1>3. /\ req'["main"].item = own["main"] /\ req'["main"].first = next /\ req'["main"].len = len
      /\ req'["main"].enc = Span(next, len) \cap Area
  BY <1>1 DEF EncryptedPart, Links, Shape, RequestShape, Threads
<1>4. /\ irp[i].first \in Nat /\ irp[i].len \in Nat
  BY SMTT(60), <1>2 DEF IrpRecords
<1>5. Span(next, len) \subseteq IrpSectors(i)
  BY <1>2, <1>4, QueueAssumption DEF Span, IrpSectors
<1> HIDE DEF i, len
<1> QED
  BY SMTT(60), <1>1, <1>2, <1>3, <1>5 DEF FragmentSectors, i

(* Fragments are cut inside the drive.                                     *)
LEMMA CutStep ==
  ASSUME Links, Cut, MainSafe, [QueueStep]_vars
  PROVE  Cut'
<1>1. Area' = Area
  BY FixedStep DEF Area
<1>2. \A i \in Irps : IrpSectors(i)' \subseteq Sectors
  <2> USE DEF irpVars
  <2>1. CASE UNCHANGED <<irp, ipc>>
    BY <2>1 DEF Cut, IrpSectors
  <2>2. ASSUME NEW i \in Irps, NEW op \in {"read", "write", "skewed"}, NEW first \in Nat,
               NEW len \in Nat, Issue(i, op, first, len)
        PROVE  \A j \in Irps : IrpSectors(j)' \subseteq Sectors
    BY <2>2 DEF Issue, Cut, IrpSectors, Links, Shape, IrpShape
  <2>3. Span(NoRequest.first, NoRequest.len) \subseteq Sectors
    BY DEF Span, NoRequest
  <2>4. ASSUME NEW i \in Irps, Reject(i)
        PROVE  \A j \in Irps : IrpSectors(j)' \subseteq Sectors
    BY <2>3, <2>4 DEF Reject, Cut, IrpSectors, Links, Shape, IrpShape
  <2>5. ASSUME NEW i \in Irps, AddIrp(i) \/ RejectSignal(i)
        PROVE  UNCHANGED irp
    BY <2>5 DEF AddIrp, RejectSignal
  <2>6. ASSUME NEW t \in Threads, CompleteIrp(t)
        PROVE  \A j \in Irps : IrpSectors(j)' \subseteq Sectors
    BY <2>3, <2>6 DEF CompleteIrp, Cut, IrpSectors, Links, Shape, IrpShape
  <2>7. CASE UNCHANGED irp
    BY <2>7 DEF Cut, IrpSectors
  <2> QED
    BY <2>1, <2>2, <2>4, <2>5, <2>6, <2>7, IrpFrame, StepKnown
<1>3. ASSUME NEW r \in Requests, Pipe(r)'
      PROVE  Cuts(r)'
  <2>1. CASE Pipe(r)
    BY <1>1, <2>1 DEF Cut, Cuts, FragmentSectors
  <2>2. CASE GetRequest /\ r = req'["main"]
    <3>1. \A i \in Irps : IrpSectors(i) \subseteq Sectors
      BY DEF Cut
    <3> QED
      BY <1>1, <2>2, <3>1, CutInside DEF Cuts, FragmentSectors
  <2> QED
    BY <1>3, <2>1, <2>2, PipeStep
<1> QED
  BY <1>2, <1>3 DEF Cut

(* What the main thread is cutting stays harmless.                         *)
LEMMA MainSafeStep ==
  ASSUME Links, Volume, MainSafe, [QueueStep]_vars
  PROVE  MainSafe'
<1> SUFFICES ASSUME pc'["main"] \in Cutting
             PROVE  /\ SafeIn(irp', item', late', own'["main"])
                    /\ next' >= irp'[item'[own'["main"]].irp].first
  BY FixedStep DEF MainSafe, SafeIn
<1>1. protected' = protected
  BY FixedStep
<1>2. CASE Accept
  <2>1. PICK k \in Items, status \in {"ok", "failed"} :
          /\ item' = [item EXCEPT ![k] = [irp |-> taken, status |-> status]]
          /\ own' = [own EXCEPT !["main"] = k]
          /\ taken \in Irps /\ UNCHANGED irp
    BY <1>2, GetItemTakes
  <2>2. /\ ~Denied(taken) /\ late' = late /\ next' = irp[taken].first
    BY <1>2 DEF Accept, GetItem, irpVars
  <2>3. own'["main"] = k /\ item'[k].irp = taken
    BY <2>1 DEF Links, Shape, OwnShape, ItemShape, Threads
  <2>4. irp[taken].op = "write" => taken \notin late /\ IrpSectors(taken) \cap protected = {}
    BY <2>2 DEF Denied, Endangers, Volume
  <2>5. irp[taken].first \in Nat
    BY SMTT(60), <2>1 DEF Links, Shape, IrpShape, IrpRecords
  <2> QED
    BY <1>1, <2>1, <2>2, <2>3, <2>4, <2>5 DEF SafeIn, IrpSectors
<1>3. CASE QueueFragment
  <2>1. /\ own["main"] \in Items /\ UNCHANGED <<irp, item>> /\ own'["main"] = own["main"]
        /\ pc["main"] \in Cutting /\ ~req["main"].last
    BY <1>3, QueueFragmentMoves DEF Links, Shape, PcShape, OwnShape, Threads, Cutting
  <2>2. next' = next + FragmentSize /\ late' = late
    BY <1>3, <2>1 DEF QueueFragment, irpVars
  <2>3. irp[item[own["main"]].irp].first \in Nat /\ next \in Int
    BY <2>1, Holders, UsedItems DEF Links, Shape, MainShape, IrpRecords, Hands, MainOwns, Threads
  <2>4. next + FragmentSize >= irp[item[own["main"]].irp].first
    BY SMTT(60), <2>1, <2>3, QueueAssumption DEF MainSafe
  <2> QED
    BY <1>1, <2>1, <2>2, <2>4 DEF MainSafe, SafeIn
<1>4. CASE pc["main"] \in Cutting /\ own'["main"] = own["main"] /\ next' = next
  <2>1. own["main"] \in Items /\ Live(own["main"])
    BY <1>4, LiveOnes, Holders DEF Links, Hands, MainOwns, Threads
  <2>2. Live(own["main"])'
    <3>1. Links'
      BY LinksStep, StepKnown
    <3>2. MainLives'
      BY <3>1, MainLive, PTL
    <3> QED
      BY <1>4, <3>2 DEF MainLives
  <2>3. LET k == own["main"] IN
        /\ item'[k].irp = item[k].irp /\ irp'[item[k].irp] = irp[item[k].irp]
        /\ item[k].irp \in late' => item[k].irp \in late
    BY <1>4, <2>1, <2>2, LiveKept DEF Live
  <2> QED
    BY <1>1, <1>4, <2>3 DEF MainSafe, SafeIn
<1> QED
  BY SMTT(60), <1>2, <1>3, <1>4, MainCut

(* And so does every request in the pipe.                                  *)
LEMMA HarmlessStep ==
  ASSUME Links, MainSafe, Harmless, [QueueStep]_vars
  PROVE  Harmless'
<1>1. protected' = protected
  BY FixedStep
<1>2. ASSUME NEW r \in Requests, Pipe(r)'
      PROVE  HarmlessIn(irp', item', late', r)
  <2>1. CASE Pipe(r)
    BY <1>2, <2>1, PipeKept DEF Harmless, HarmlessIn
  <2>2. CASE GetRequest /\ r = req'["main"]
    <3>1. SafeIn(irp, item, late, own["main"])
      BY <2>2, CutInside DEF MainSafe
    <3> QED
      BY <2>2, <3>1, CutInside DEF SafeIn, HarmlessIn, IrpSectors
  <2> QED
    BY <1>2, <2>1, <2>2, PipeStep
<1> QED
  BY <1>1, <1>2 DEF Harmless, HarmlessIn


(* Short sequences put together.                                           *)
LEMMA Joined ==
  ASSUME NEW T, NEW x \in T, NEW y \in T
  PROVE  <<x>> \o <<y>> = <<x, y>>
<1>1. <<x>> \in Seq(T) /\ <<y>> \in Seq(T) /\ <<x, y>> \in Seq(T)
      /\ Len(<<x>>) = 1 /\ Len(<<y>>) = 1 /\ Len(<<x, y>>) = 2
  OBVIOUS
<1>2. /\ <<x>> \o <<y>> \in Seq(T) /\ Len(<<x>> \o <<y>>) = 2
      /\ \A i \in 1..2 : (<<x>> \o <<y>>)[i] = IF i <= 1 THEN <<x>>[i] ELSE <<y>>[i - 1]
  BY <1>1, ConcatProperties
<1>3. \A i \in 1..2 : (<<x>> \o <<y>>)[i] = <<x, y>>[i]
  BY <1>2
<1> QED
  BY <1>1, <1>2, <1>3, SeqEqual

(* One more element.                                                       *)
LEMMA JoinedMore ==
  ASSUME NEW T, NEW x \in T, NEW y \in T, NEW z \in T
  PROVE  <<x, y>> \o <<z>> = <<x, y, z>>
<1>1. <<x, y>> \in Seq(T) /\ <<z>> \in Seq(T) /\ <<x, y, z>> \in Seq(T)
      /\ Len(<<x, y>>) = 2 /\ Len(<<z>>) = 1 /\ Len(<<x, y, z>>) = 3
  OBVIOUS
<1>2. /\ <<x, y>> \o <<z>> \in Seq(T) /\ Len(<<x, y>> \o <<z>>) = 3
      /\ \A i \in 1..3 : (<<x, y>> \o <<z>>)[i] = IF i <= 2 THEN <<x, y>>[i] ELSE <<z>>[i - 2]
  BY <1>1, ConcatProperties
<1>3. \A i \in 1..3 : (<<x, y>> \o <<z>>)[i] = <<x, y, z>>[i]
  BY <1>2
<1> QED
  BY <1>1, <1>2, <1>3, SeqEqual

(* What is left of a sequence.                                             *)
LEMMA TailLeft ==
  ASSUME NEW T, NEW s \in Seq(T), s # <<>>
  PROVE  /\ Tail(s) \in Seq(T) /\ Len(s) \in Nat \ {0} /\ Len(Tail(s)) = Len(s) - 1
         /\ \A n \in 1..Len(Tail(s)) : Tail(s)[n] = s[n + 1] /\ n + 1 \in 1..Len(s)
         /\ Len(s) # 1 => Tail(s) # <<>>
<1>1. /\ Tail(s) \in Seq(T) /\ Len(Tail(s)) = Len(s) - 1
      /\ \A n \in 1..Len(Tail(s)) : Tail(s)[n] = s[n + 1]
  BY HeadTailProperties
<1>2. Len(s) \in Nat \ {0} /\ Len(<<>>) = 0
  BY EmptySeq
<1>3. \A n \in 1..Len(Tail(s)) : n + 1 \in 1..Len(s)
  BY <1>1, <1>2
<1>4. Len(s) # 1 => Tail(s) # <<>>
  <2>1. Len(s) # 1 => Len(Tail(s)) # 0
    BY <1>1, <1>2
  <2> QED
    BY <1>2, <2>1
<1> QED
  BY <1>1, <1>2, <1>3, <1>4


(* The pieces of a fragment make it up; each is remapped as a whole or not *)
(* at all.                                                                 *)
LEMMA PiecesOfRequest ==
  ASSUME NEW r \in Requests, Cuts(r), Volume
  PROVE  /\ Pieces(r) \in Seq(SUBSET Int) /\ Pieces(r) # <<>>
         /\ \A n \in 1..Len(Pieces(r)) : PieceOf(Pieces(r)[n], r)
         /\ ~remap => Pieces(r) = <<FragmentSectors(r)>>
         /\ \A m, n \in 1..Len(Pieces(r)) : m # n => Pieces(r)[m] \cap Pieces(r)[n] = {}
         /\ \A s \in FragmentSectors(r) : \E n \in 1..Len(Pieces(r)) : s \in Pieces(r)[n]
<1> DEFINE S == FragmentSectors(r)
           before == {s \in S : \A e \in r.enc : s < e}
           after == {s \in S : \A e \in r.enc : s > e}
<1>1. S \subseteq Int /\ r.enc = S \cap Area /\ Area \subseteq Int
  BY RequestFields DEF Cuts, FragmentSectors, Span, Area
<1>2. CASE ~(remap /\ r.enc # {})
  <2>1. Pieces(r) = <<S>>
    BY <1>2 DEF Pieces
  <2> HIDE DEF S
  <2> QED
    BY <1>1, <1>2, <2>1 DEF PieceOf, S
<1>3. CASE remap /\ r.enc # {}
  <2>1. Pieces(r) = Part(1, before) \o Part(2, r.enc) \o Part(3, after)
    BY <1>3 DEF Pieces
  <2>2. Part(2, r.enc) = <<r.enc>>
    BY <1>3 DEF Part, SubFragments
  <2>3. /\ Part(1, before) = IF before = {} THEN <<>> ELSE <<before>>
        /\ Part(3, after) = IF after = {} THEN <<>> ELSE <<after>>
    BY DEF Part, SubFragments
  <2>4. /\ before \subseteq S /\ after \subseteq S /\ r.enc \subseteq S
        /\ before \cap r.enc = {} /\ after \cap r.enc = {} /\ before \cap after = {}
    BY <1>1, <1>3
  <2>5. \A s \in S : s \in before \/ s \in r.enc \/ s \in after
    <3> SUFFICES ASSUME NEW s \in S, s \notin before, s \notin after
                 PROVE  s \in r.enc
      OBVIOUS
    <3>1. PICK e \in r.enc : ~(s < e)
      OBVIOUS
    <3>2. PICK f \in r.enc : ~(s > f)
      OBVIOUS
    <3>3. e \in Area /\ f \in Area /\ Area = areaStart..areaEnd
      BY <1>1, <3>1, <3>2 DEF Area
    <3>4. s \in Area
      <4>1. /\ areaStart \in Int /\ areaEnd \in Int /\ s \in Int /\ e \in Int /\ f \in Int
            /\ areaStart <= e /\ e <= s /\ s <= f /\ f <= areaEnd
        BY <1>1, <3>1, <3>2, <3>3 DEF Volume
      <4> QED
        BY <3>3, <4>1
    <3> QED
      BY <1>1, <3>4
  <2> DEFINE p == Pieces(r)
  <2>6. before \subseteq Int /\ after \subseteq Int /\ r.enc \subseteq Int
    BY <1>1, <2>4
  <2>7. \/ p = <<r.enc>> /\ before = {} /\ after = {}
        \/ p = <<before, r.enc>> /\ after = {}
        \/ p = <<r.enc, after>> /\ before = {}
        \/ p = <<before, r.enc, after>>
    <3> HIDE DEF S, before, after
    <3> DEFINE T == SUBSET Int
    <3>5. before \in T /\ r.enc \in T /\ after \in T
      BY <2>6
    <3>6. /\ <<before>> \in Seq(T) /\ <<r.enc>> \in Seq(T) /\ <<after>> \in Seq(T)
          /\ <<before, r.enc>> \in Seq(T)
      BY <3>5
    <3> HIDE DEF T
    <3>1. CASE before = {} /\ after = {}
      BY ZenonT(60), <2>1, <2>2, <2>3, <3>1, <3>6, ConcatEmptySeq
    <3>2. CASE before # {} /\ after = {}
      <4>1. <<before>> \o <<r.enc>> = <<before, r.enc>>
        BY <3>5, Joined
      <4> QED
        BY <2>1, <2>2, <2>3, <3>2, <3>6, <4>1, ConcatEmptySeq
    <3>3. CASE before = {} /\ after # {}
      <4>1. <<r.enc>> \o <<after>> = <<r.enc, after>>
        BY <3>5, Joined
      <4> QED
        BY <2>1, <2>2, <2>3, <3>3, <3>6, <4>1, ConcatEmptySeq
    <3>4. CASE before # {} /\ after # {}
      <4>1. <<before>> \o <<r.enc>> = <<before, r.enc>>
        BY <3>5, Joined
      <4>2. <<before, r.enc>> \o <<after>> = <<before, r.enc, after>>
        BY <3>5, <3>6, JoinedMore
      <4> QED
        BY <2>1, <2>2, <2>3, <3>4, <4>1, <4>2
    <3> QED
      BY <3>1, <3>2, <3>3, <3>4
  <2> HIDE DEF S, before, after, p
  <2>8. /\ p \in Seq(SUBSET Int) /\ p # <<>>
        /\ \A n \in 1..Len(p) : p[n] \in {before, r.enc, after}
        /\ \A m, n \in 1..Len(p) : m # n => p[m] \cap p[n] = {}
        /\ \A s \in S : \E n \in 1..Len(p) : s \in p[n]
    <3>1. CASE p = <<r.enc>> /\ before = {} /\ after = {}
      BY <2>5, <2>6, <3>1
    <3>2. CASE p = <<before, r.enc>> /\ after = {}
      <4>1. /\ Len(p) = 2 /\ p[1] = before /\ p[2] = r.enc
        BY <3>2
      <4> QED
        BY <2>4, <2>5, <2>6, <3>2, <4>1
    <3>3. CASE p = <<r.enc, after>> /\ before = {}
      <4>1. /\ Len(p) = 2 /\ p[1] = r.enc /\ p[2] = after
        BY <3>3
      <4> QED
        BY <2>4, <2>5, <2>6, <3>3, <4>1
    <3>4. CASE p = <<before, r.enc, after>>
      <4>1. /\ Len(p) = 3 /\ p[1] = before /\ p[2] = r.enc /\ p[3] = after
            /\ 1..Len(p) = {1, 2, 3}
        BY <3>4
      <4>2. p \in Seq(SUBSET Int) /\ p # <<>>
        BY <2>6, <3>4
      <4>3. \A m, n \in {1, 2, 3} : m # n => p[m] \cap p[n] = {}
        BY <2>4, <4>1
      <4> QED
        BY <2>5, <4>1, <4>2, <4>3
    <3> QED
      BY <2>7, <3>1, <3>2, <3>3, <3>4
  <2>9. \A Q \in {before, r.enc, after} : PieceOf(Q, r)
    BY <2>4 DEF PieceOf, S
  <2> QED
    BY <1>3, <2>8, <2>9 DEF p, S
<1> QED
  BY <1>2, <1>3


(* What keeps the I/O thread at the device.                                *)
LEMMA IoWork ==
  ASSUME Links, [QueueStep]_vars, pc'["io"] = "device"
  PROVE  \/ TakeRequest \/ DoPiece
         \/ pc["io"] = "device" /\ UNCHANGED <<req["io"], own["io"], todo>>
<1> USE DEF irpVars, queueVars, poolVars, handVars, mainVars, fragmentVars, ioVars, pipeVars,
            countVars, diskVars, outerVars,
            holdVars, stopVars, envVars, areaVars, keyVars, volumeVars
<1>1. CASE UNCHANGED <<coreVars, dataVars>>
  BY <1>1 DEF coreVars, dataVars
<1>2. ASSUME NEW i \in Irps, NEW op \in {"read", "write", "skewed"}, NEW first \in Nat,
             NEW len \in Nat, Issue(i, op, first, len)
      PROVE  \/ TakeRequest \/ DoPiece
             \/ pc["io"] = "device" /\ UNCHANGED <<req["io"], own["io"], todo>>
  BY <1>2 DEF Issue, IGoto, Links, Shape, PcShape, OwnShape, RequestShape, Threads
<1>3. ASSUME NEW i \in Irps, AddIrp(i)
      PROVE  \/ TakeRequest \/ DoPiece
             \/ pc["io"] = "device" /\ UNCHANGED <<req["io"], own["io"], todo>>
  BY <1>3 DEF AddIrp, IGoto, Links, Shape, PcShape, OwnShape, RequestShape, Threads
<1>4. ASSUME NEW i \in Irps, Reject(i)
      PROVE  \/ TakeRequest \/ DoPiece
             \/ pc["io"] = "device" /\ UNCHANGED <<req["io"], own["io"], todo>>
  BY <1>4 DEF Reject, IGoto, Links, Shape, PcShape, OwnShape, RequestShape, Threads
<1>5. ASSUME NEW i \in Irps, RejectSignal(i)
      PROVE  \/ TakeRequest \/ DoPiece
             \/ pc["io"] = "device" /\ UNCHANGED <<req["io"], own["io"], todo>>
  BY <1>5 DEF RejectSignal, IGoto, Links, Shape, PcShape, OwnShape, RequestShape, Threads
<1>6. ASSUME NEW t \in Threads, Wake(t)
      PROVE  \/ TakeRequest \/ DoPiece
             \/ pc["io"] = "device" /\ UNCHANGED <<req["io"], own["io"], todo>>
  BY <1>6 DEF Wake, Goto, Links, Shape, PcShape, OwnShape, RequestShape, Threads
<1>7. ASSUME NEW t \in Threads, Drained(t)
      PROVE  \/ TakeRequest \/ DoPiece
             \/ pc["io"] = "device" /\ UNCHANGED <<req["io"], own["io"], todo>>
  BY <1>7 DEF Drained, Goto, Links, Shape, PcShape, OwnShape, RequestShape, Threads
<1>8. ASSUME NEW t \in Threads, CompleteIrp(t)
      PROVE  \/ TakeRequest \/ DoPiece
             \/ pc["io"] = "device" /\ UNCHANGED <<req["io"], own["io"], todo>>
  BY <1>8 DEF CompleteIrp, Goto, Links, Shape, PcShape, OwnShape, RequestShape, Threads
<1>9. ASSUME NEW t \in Threads, Decrement(t)
      PROVE  \/ TakeRequest \/ DoPiece
             \/ pc["io"] = "device" /\ UNCHANGED <<req["io"], own["io"], todo>>
  BY <1>9 DEF Decrement, Goto, AfterDecrement, Links, Shape, PcShape, OwnShape, RequestShape,
     Threads
<1>10. ASSUME NEW t \in Threads, SignalIdle(t)
      PROVE  \/ TakeRequest \/ DoPiece
             \/ pc["io"] = "device" /\ UNCHANGED <<req["io"], own["io"], todo>>
  BY <1>10 DEF SignalIdle, Goto, AfterDecrement, Links, Shape, PcShape, OwnShape, RequestShape,
     Threads
<1>11. ASSUME NEW t \in Threads, ReleaseItem(t)
      PROVE  \/ TakeRequest \/ DoPiece
             \/ pc["io"] = "device" /\ UNCHANGED <<req["io"], own["io"], todo>>
  BY <1>11 DEF ReleaseItem, Goto, Links, Shape, PcShape, OwnShape, RequestShape, Threads
<1>12. ASSUME NEW t \in Threads, ReleaseRequest(t)
      PROVE  \/ TakeRequest \/ DoPiece
             \/ pc["io"] = "device" /\ UNCHANGED <<req["io"], own["io"], todo>>
  BY <1>12 DEF ReleaseRequest, Goto, Links, Shape, PcShape, OwnShape, RequestShape, Threads
<1>13. ASSUME TakeIrp
      PROVE  \/ TakeRequest \/ DoPiece
             \/ pc["io"] = "device" /\ UNCHANGED <<req["io"], own["io"], todo>>
  BY <1>13 DEF TakeIrp, Goto, Links, Shape, PcShape, OwnShape, RequestShape, Threads
<1>14. ASSUME TestSuspended
      PROVE  \/ TakeRequest \/ DoPiece
             \/ pc["io"] = "device" /\ UNCHANGED <<req["io"], own["io"], todo>>
  BY <1>14 DEF TestSuspended, Goto, Links, Shape, PcShape, OwnShape, RequestShape, Threads
<1>15. ASSUME AwaitResume
      PROVE  \/ TakeRequest \/ DoPiece
             \/ pc["io"] = "device" /\ UNCHANGED <<req["io"], own["io"], todo>>
  BY <1>15 DEF AwaitResume, Goto, Links, Shape, PcShape, OwnShape, RequestShape, Threads
<1>16. ASSUME AwaitsPool
      PROVE  \/ TakeRequest \/ DoPiece
             \/ pc["io"] = "device" /\ UNCHANGED <<req["io"], own["io"], todo>>
  BY <1>16 DEF AwaitsPool, PoolEmpty, Goto, Links, Shape, PcShape, OwnShape, RequestShape,
     Threads
<1>17. ASSUME LooksAgain
      PROVE  \/ TakeRequest \/ DoPiece
             \/ pc["io"] = "device" /\ UNCHANGED <<req["io"], own["io"], todo>>
  BY <1>17 DEF LooksAgain, AwaitPoolBuffer, Goto, Links, Shape, PcShape, OwnShape, RequestShape,
     Threads
<1>18. ASSUME Refuse
      PROVE  \/ TakeRequest \/ DoPiece
             \/ pc["io"] = "device" /\ UNCHANGED <<req["io"], own["io"], todo>>
  BY <1>18, GetItemTakes DEF Refuse, GetItem, Goto, Links, Shape, PcShape, OwnShape,
     RequestShape, Threads
<1>19. ASSUME Protect
      PROVE  \/ TakeRequest \/ DoPiece
             \/ pc["io"] = "device" /\ UNCHANGED <<req["io"], own["io"], todo>>
  BY <1>19, GetItemTakes DEF Protect, GetItem, Goto, Links, Shape, PcShape, OwnShape,
     RequestShape, Threads
<1>20. ASSUME Accept
      PROVE  \/ TakeRequest \/ DoPiece
             \/ pc["io"] = "device" /\ UNCHANGED <<req["io"], own["io"], todo>>
  BY <1>20, GetItemTakes DEF Accept, GetItem, Goto, Links, Shape, PcShape, OwnShape,
     RequestShape, Threads
<1>21. ASSUME ReadMisaligned
      PROVE  \/ TakeRequest \/ DoPiece
             \/ pc["io"] = "device" /\ UNCHANGED <<req["io"], own["io"], todo>>
  BY <1>21 DEF ReadMisaligned, Goto, Links, Shape, PcShape, OwnShape, RequestShape, Threads
<1>22. ASSUME DecryptMisaligned
      PROVE  \/ TakeRequest \/ DoPiece
             \/ pc["io"] = "device" /\ UNCHANGED <<req["io"], own["io"], todo>>
  BY <1>22 DEF DecryptMisaligned, Goto, Links, Shape, PcShape, OwnShape, RequestShape, Threads
<1>23. ASSUME NextFragment
      PROVE  \/ TakeRequest \/ DoPiece
             \/ pc["io"] = "device" /\ UNCHANGED <<req["io"], own["io"], todo>>
  BY <1>23 DEF NextFragment, Goto, Links, Shape, PcShape, OwnShape, RequestShape, Threads
<1>24. ASSUME GetRequest
      PROVE  \/ TakeRequest \/ DoPiece
             \/ pc["io"] = "device" /\ UNCHANGED <<req["io"], own["io"], todo>>
  BY <1>24 DEF GetRequest, Goto, Links, Shape, PcShape, OwnShape, RequestShape, Threads
<1>25. ASSUME FillFragment
      PROVE  \/ TakeRequest \/ DoPiece
             \/ pc["io"] = "device" /\ UNCHANGED <<req["io"], own["io"], todo>>
  BY <1>25 DEF FillFragment, Goto, Links, Shape, PcShape, OwnShape, RequestShape, Threads
<1>26. ASSUME QueueFragment
      PROVE  \/ TakeRequest \/ DoPiece
             \/ pc["io"] = "device" /\ UNCHANGED <<req["io"], own["io"], todo>>
  BY <1>26 DEF QueueFragment, Goto, Links, Shape, PcShape, OwnShape, RequestShape, Threads
<1>27. ASSUME WriteDone
      PROVE  \/ TakeRequest \/ DoPiece
             \/ pc["io"] = "device" /\ UNCHANGED <<req["io"], own["io"], todo>>
  BY <1>27 DEF WriteDone, Goto, AfterRequest, ReleaseFragmentBuffer, Links, Shape, PcShape,
     OwnShape, RequestShape, Threads
<1>28. ASSUME ReadDone
      PROVE  \/ TakeRequest \/ DoPiece
             \/ pc["io"] = "device" /\ UNCHANGED <<req["io"], own["io"], todo>>
  BY <1>28 DEF ReadDone, Goto, ReleaseFragmentBuffer, Links, Shape, PcShape, OwnShape,
     RequestShape, Threads
<1>29. ASSUME PassesOn
      PROVE  \/ TakeRequest \/ DoPiece
             \/ pc["io"] = "device" /\ UNCHANGED <<req["io"], own["io"], todo>>
  BY <1>29 DEF PassesOn, PostCompletion, Goto, Links, Shape, PcShape, OwnShape, RequestShape,
     Threads
<1>30. ASSUME ReadAhead
      PROVE  \/ TakeRequest \/ DoPiece
             \/ pc["io"] = "device" /\ UNCHANGED <<req["io"], own["io"], todo>>
  BY SMTT(60), <1>30 DEF ReadAhead, Goto, Links, Shape, PcShape, OwnShape, RequestShape, Threads
<1>31. ASSUME DecryptFragment
      PROVE  \/ TakeRequest \/ DoPiece
             \/ pc["io"] = "device" /\ UNCHANGED <<req["io"], own["io"], todo>>
  BY ZenonT(60), <1>31 DEF DecryptFragment, Goto, AfterRequest, Links, Shape, PcShape, OwnShape,
     RequestShape, Threads
<1> QED BY ActionCases, <1>1, <1>2, <1>3, <1>4, <1>5, <1>6, <1>7, <1>8, <1>9, <1>10, <1>11,
     <1>12, <1>13, <1>14, <1>15, <1>16, <1>17, <1>18, <1>19, <1>20, <1>21, <1>22, <1>23, <1>24,
     <1>25, <1>26, <1>27, <1>28, <1>29, <1>30, <1>31


(* The piece that is done is one of the request.                           *)
LEMMA PieceDone ==
  ASSUME Links, ToDo, DoPiece
  PROVE  LET i == item[own["io"]].irp
             r == req["io"] IN
         /\ pc["io"] = "device" /\ Pipe(r) /\ r \in Requests /\ r.item = own["io"]
         /\ own["io"] \in Items /\ i \in Irps /\ irp[i].op \in {"read", "write"}
         /\ ipc[i] # "counted"
         /\ Writing <=> irp[i].op = "write"
         /\ todo[1] \in SUBSET Int /\ PieceOf(todo[1], r)
         /\ \/ irp[i].op = "write" /\ WritePiece(todo[1])
            \/ irp[i].op = "read" /\ ReadPiece(todo[1])
            \/ UNCHANGED <<disk, fragment, moved, seen>>
         /\ UNCHANGED <<irp, ipc, queue, req, own, fragmentFree, late>>
<1> DEFINE i == item[own["io"]].irp
           r == req["io"]
<1>1. pc["io"] = "device" /\ UNCHANGED <<irp, ipc, queue, req, own, fragmentFree, late>>
  BY DEF DoPiece, Goto, irpVars, queueVars, handVars
<1>2. Pipe(r) /\ r \in Requests
  BY <1>1 DEF Pipe, IoUses, Links, Shape, RequestShape, Threads
<1>3. r.item = own["io"] /\ own["io"] \in Items /\ Live(own["io"])
  BY SMTT(60), <1>1, LiveOnes, Holders DEF Links, Hands, Threads
<1>4. i \in Irps /\ irp[i].op \in {"read", "write"} /\ ipc[i] # "counted"
  BY <1>1, <1>3, UsedItems DEF Links, Kinds, KindsIo, Op, OpOf, Live, LiveIn, InUse, Linked,
     LinkedItems
<1>5. Writing <=> irp[i].op = "write"
  BY DEF Writing, IoIrp
<1>6. todo[1] \in SUBSET Int /\ PieceOf(todo[1], r)
  BY <1>1 DEF ToDo
<1>7. \/ Writing /\ WritePiece(todo[1])
      \/ ~Writing /\ ReadPiece(todo[1])
      \/ UNCHANGED <<disk, fragment, moved, seen>>
  BY DEF DoPiece
<1> QED
  BY <1>1, <1>2, <1>3, <1>4, <1>5, <1>6, <1>7

(* What is left to do stays a part of the request.                         *)
LEMMA ToDoStep ==
  ASSUME Links, Volume, Cut, ToDo, [QueueStep]_vars
  PROVE  ToDo'
<1> SUFFICES ASSUME pc'["io"] = "device"
             PROVE  /\ todo' \in Seq(SUBSET Int) /\ todo' # <<>>
                    /\ \A n \in 1..Len(todo') : PieceOf(todo'[n], req'["io"])
                    /\ ~remap => Len(todo') = 1 /\ todo'[1] = FragmentSectors(req'["io"])
  BY FixedStep DEF ToDo, PieceOf, FragmentSectors, Span
<1>1. CASE TakeRequest
  <2> DEFINE r == queue["io"][1]
  <2>1. r \in Requests /\ Pipe(r) /\ req'["io"] = r
    BY <1>1, TakeRequestMoves DEF Pipe, Links, Shape, RequestShape, Threads
  <2>2. Permitted(r.item)
    BY <1>1 DEF TakeRequest, Goto, Links, Shape, PcShape, Threads
  <2>3. todo' = Pieces(r)
    BY <1>1, <2>2 DEF TakeRequest
  <2>4. Cuts(r)
    BY <2>1 DEF Cut
  <2> HIDE DEF r
  <2>5. ~remap => Len(Pieces(r)) = 1 /\ Pieces(r)[1] = FragmentSectors(r)
    BY <2>1, <2>4, PiecesOfRequest
  <2> QED
    BY <2>1, <2>3, <2>4, <2>5, PiecesOfRequest
<1>2. CASE DoPiece
  <2>1. pc["io"] = "device" /\ todo' = Tail(todo) /\ Len(todo) # 1 /\ req' = req
    BY <1>2 DEF DoPiece, Goto, handVars, Links, Shape, PcShape, Threads
  <2>2. todo \in Seq(SUBSET Int) /\ todo # <<>>
    BY <2>1 DEF ToDo
  <2>3. /\ Tail(todo) \in Seq(SUBSET Int) /\ Tail(todo) # <<>>
        /\ \A n \in 1..Len(Tail(todo)) : Tail(todo)[n] = todo[n + 1] /\ n + 1 \in 1..Len(todo)
    BY <2>1, <2>2, TailLeft
  <2>5. \A n \in 1..Len(Tail(todo)) : PieceOf(Tail(todo)[n], req["io"])
    BY <2>1, <2>3 DEF ToDo
  <2>6. remap
    BY <2>1 DEF ToDo
  <2> QED
    BY <2>1, <2>3, <2>5, <2>6
<1>3. CASE pc["io"] = "device" /\ UNCHANGED <<req["io"], own["io"], todo>>
  BY <1>3 DEF ToDo
<1> QED
  BY <1>1, <1>2, <1>3, IoWork

(* What is transferred for whom.                                           *)
LEMMA UntouchedStep ==
  ASSUME Links, Harmless, ToDo, Untouched, [QueueStep]_vars
  PROVE  Untouched'
<1> USE DEF irpVars
<1>1. CASE UNCHANGED <<moved, irp, ipc, late>>
  BY <1>1 DEF Untouched
<1>2. ASSUME NEW i \in Irps, NEW op \in {"read", "write", "skewed"}, NEW first \in Nat,
             NEW len \in Nat, Issue(i, op, first, len)
      PROVE  Untouched'
  BY <1>2 DEF Issue, IGoto, outerVars, diskVars, NoRequest, Untouched, Links, Shape, IrpShape
<1>3. ASSUME NEW i \in Irps, AddIrp(i) \/ RejectSignal(i)
      PROVE  Untouched'
  <2>1. UNCHANGED <<irp, moved, late>>
        /\ \A j \in Irps : ipc'[j] = "counted" => ipc[j] = "counted"
    BY <1>3 DEF AddIrp, RejectSignal, IGoto, outerVars, diskVars, Links, Shape, IrpShape
  <2> QED
    BY <2>1 DEF Untouched
<1>4. ASSUME NEW i \in Irps, Reject(i)
      PROVE  Untouched'
  BY <1>4 DEF Reject, IGoto, outerVars, diskVars, NoRequest, Untouched, Links, Shape, IrpShape
<1>5. ASSUME NEW t \in Threads, CompleteIrp(t)
      PROVE  Untouched'
  BY <1>5 DEF CompleteIrp, NoRequest, Untouched, Links, Shape, IrpShape
<1>6. CASE ReadMisaligned
  <2> DEFINE i == item[own["main"]].irp
  <2>1. /\ i \in Irps /\ irp[i].op = "skewed" /\ ipc[i] # "counted"
        /\ UNCHANGED <<irp, ipc, late>>
        /\ moved' = moved \/ moved' = [moved EXCEPT ![i] = IrpSectors(i)]
    <3>1. pc["main"] = "misaligned" /\ UNCHANGED <<irp, ipc, late>>
      BY <1>6 DEF ReadMisaligned
    <3>2. moved' = moved \/ moved' = [moved EXCEPT ![i] = IrpSectors(i)]
      BY <1>6 DEF ReadMisaligned, MainIrp
    <3>3. own["main"] \in Items /\ Live(own["main"]) /\ Op(own["main"]) = "skewed"
      BY SMTT(60), <3>1, LiveOnes, Holders DEF Links, Hands, MainOwns, Threads, Kinds, KindsMain
    <3> QED
      BY <3>1, <3>2, <3>3, UsedItems DEF Links, Linked, LinkedItems, Live, LiveIn, InUse, Op, OpOf
  <2>2. IrpSectors(i) \subseteq Int
    BY <2>1 DEF IrpSectors, Span, Links, Shape, IrpShape, IrpRecords
  <2> HIDE DEF i
  <2> QED
    BY <2>1, <2>2 DEF Untouched
<1>7. CASE DoPiece
  <2> DEFINE i == item[own["io"]].irp
  <2>1. /\ i \in Irps /\ irp[i].op \in {"read", "write"} /\ ipc[i] # "counted"
        /\ UNCHANGED <<irp, ipc, late>> /\ todo[1] \in SUBSET Int
        /\ moved' = moved \/ moved' = [moved EXCEPT ![i] = @ \cup todo[1]]
    BY <1>7, PieceDone DEF WritePiece, ReadPiece, IoIrp
  <2>2. irp[i].op = "write" => i \notin late
    BY <1>7, PieceDone DEF Harmless, HarmlessIn
  <2> HIDE DEF i
  <2> QED
    BY SMTT(60), <2>1, <2>2 DEF Untouched
<1> QED
  BY <1>1, <1>2, <1>3, <1>4, <1>5, <1>6, <1>7, MovedFrame

(* The hidden volume stays as it is.                                       *)
LEMMA IntactStep ==
  ASSUME Links, Volume, Harmless, ToDo, Intact, [QueueStep]_vars
  PROVE  Intact'
<1>1. protected' = protected
  BY FixedStep
<1>2. CASE disk' = disk
  BY <1>1, <1>2 DEF Intact
<1>3. CASE DoPiece /\ disk' # disk
  <2> DEFINE r == req["io"]
             i == item[own["io"]].irp
             P == todo[1]
  <2>1. /\ irp[i].op = "write" /\ WritePiece(P) /\ P \subseteq FragmentSectors(r)
        /\ Pipe(r) /\ r \in Requests /\ r.item = own["io"]
    BY <1>3, PieceDone DEF PieceOf, ReadPiece
  <2>2. P \cap protected = {}
    BY <2>1 DEF Harmless, HarmlessIn
  <2>3. PICK g : disk' = Merge(disk, [l \in Place(P) |-> g[l]])
    <3> DEFINE h == [l \in Place(P) |-> fragment[IoRequest.buf]
                       [CHOOSE s \in P : l = Location(s, IoRequest.enc)]]
    <3>1. disk' = Merge(disk, [l \in Place(P) |-> h[l]])
      BY <2>1 DEF WritePiece
    <3> HIDE DEF h
    <3> QED
      BY <3>1
  <2>4. ASSUME NEW s \in protected
        PROVE  s \notin Place(P)
    <3>1. ~remap
      BY <2>4 DEF Volume
    <3>2. Place(P) = P
      BY <3>1 DEF Place, Location
    <3> QED
      BY <2>2, <2>4, <3>2
  <2> HIDE DEF P
  <2>5. \A s \in protected : s \in DOMAIN disk' /\ disk'[s] = disk[s]
    BY <2>3, <2>4 DEF Merge, Intact
  <2> QED
    BY <1>1, <2>5 DEF Intact
<1> QED
  BY <1>2, <1>3, DiskFrame


(* A request is loaded when its buffer has been filled.                    *)
LEMMA LoadStep ==
  ASSUME Links, NEW r \in Requests, Loaded(r)', [QueueStep]_vars
  PROVE  Loaded(r) \/ (FillFragment /\ r = req["main"])
<1> USE DEF irpVars, queueVars, poolVars, handVars, mainVars, fragmentVars, ioVars, pipeVars,
            countVars, diskVars, outerVars, holdVars, stopVars, envVars, areaVars, keyVars,
            volumeVars
<1>1. ASSUME NEW i \in Irps, NEW op \in {"read", "write", "skewed"}, NEW first \in Nat,
             NEW len \in Nat, Issue(i, op, first, len)
      PROVE  Loaded(r) \/ (FillFragment /\ r = req["main"])
  <2>1. UNCHANGED <<pc, req>> /\ queue'["io"] = queue["io"]
    BY <1>1 DEF Issue, IGoto, Links, Shape, QueueShape, Threads
  <2> QED
    BY <2>1 DEF Loaded, Queued
<1>2. ASSUME NEW i \in Irps, AddIrp(i)
      PROVE  Loaded(r) \/ (FillFragment /\ r = req["main"])
  <2>1. UNCHANGED <<pc, req>> /\ queue'["io"] = queue["io"]
    BY <1>2 DEF AddIrp, IGoto, Links, Shape, QueueShape, Threads
  <2> QED
    BY <2>1 DEF Loaded, Queued
<1>3. ASSUME NEW i \in Irps, Reject(i)
      PROVE  Loaded(r) \/ (FillFragment /\ r = req["main"])
  <2>1. UNCHANGED <<pc, req>> /\ queue'["io"] = queue["io"]
    BY <1>3 DEF Reject, IGoto, Links, Shape, QueueShape, Threads
  <2> QED
    BY <2>1 DEF Loaded, Queued
<1>4. ASSUME NEW i \in Irps, RejectSignal(i)
      PROVE  Loaded(r) \/ (FillFragment /\ r = req["main"])
  <2>1. UNCHANGED <<pc, req>> /\ queue'["io"] = queue["io"]
    BY <1>4 DEF RejectSignal, IGoto, Links, Shape, QueueShape, Threads
  <2> QED
    BY <2>1 DEF Loaded, Queued
<1>5. ASSUME NEW t \in Threads, Wake(t)
      PROVE  Loaded(r) \/ (FillFragment /\ r = req["main"])
  <2>1. /\ queue'["io"] = queue["io"] /\ pc' = [pc EXCEPT ![t] = pc'[t]]
        /\ \A u \in Threads : u # t => req'[u] = req[u]
        /\ pc[t] # "queue" /\ pc'[t] # "queue"
    BY <1>5 DEF Wake, Goto, Links, Shape, PcShape, QueueShape, RequestShape, Threads
  <2> QED
    BY <2>1 DEF Loaded, Queued, Links, Shape, PcShape, Threads
<1>6. ASSUME NEW t \in Threads, Drained(t)
      PROVE  Loaded(r) \/ (FillFragment /\ r = req["main"])
  <2>1. /\ queue'["io"] = queue["io"] /\ pc' = [pc EXCEPT ![t] = pc'[t]]
        /\ \A u \in Threads : u # t => req'[u] = req[u]
        /\ pc[t] # "queue" /\ pc'[t] # "queue"
    BY <1>6 DEF Drained, Goto, Links, Shape, PcShape, QueueShape, RequestShape, Threads
  <2> QED
    BY <2>1 DEF Loaded, Queued, Links, Shape, PcShape, Threads
<1>7. ASSUME NEW t \in Threads, CompleteIrp(t)
      PROVE  Loaded(r) \/ (FillFragment /\ r = req["main"])
  <2>1. /\ queue'["io"] = queue["io"] /\ pc' = [pc EXCEPT ![t] = pc'[t]]
        /\ \A u \in Threads : u # t => req'[u] = req[u]
        /\ pc[t] # "queue" /\ pc'[t] # "queue"
    BY <1>7 DEF CompleteIrp, Goto, Links, Shape, PcShape, QueueShape, RequestShape, Threads
  <2> QED
    BY <2>1 DEF Loaded, Queued, Links, Shape, PcShape, Threads
<1>8. ASSUME NEW t \in Threads, Decrement(t)
      PROVE  Loaded(r) \/ (FillFragment /\ r = req["main"])
  <2>1. /\ queue'["io"] = queue["io"] /\ pc' = [pc EXCEPT ![t] = pc'[t]]
        /\ \A u \in Threads : u # t => req'[u] = req[u]
        /\ pc[t] # "queue" /\ pc'[t] # "queue"
    BY <1>8 DEF Decrement, Goto, AfterDecrement, Links, Shape, PcShape, QueueShape, RequestShape,
       Threads
  <2> QED
    BY <2>1 DEF Loaded, Queued, Links, Shape, PcShape, Threads
<1>9. ASSUME NEW t \in Threads, SignalIdle(t)
      PROVE  Loaded(r) \/ (FillFragment /\ r = req["main"])
  <2>1. /\ queue'["io"] = queue["io"] /\ pc' = [pc EXCEPT ![t] = pc'[t]]
        /\ \A u \in Threads : u # t => req'[u] = req[u]
        /\ pc[t] # "queue" /\ pc'[t] # "queue"
    BY <1>9 DEF SignalIdle, Goto, AfterDecrement, Links, Shape, PcShape, QueueShape,
       RequestShape, Threads
  <2> QED
    BY <2>1 DEF Loaded, Queued, Links, Shape, PcShape, Threads
<1>10. ASSUME NEW t \in Threads, ReleaseItem(t)
      PROVE  Loaded(r) \/ (FillFragment /\ r = req["main"])
  <2>1. /\ queue'["io"] = queue["io"] /\ pc' = [pc EXCEPT ![t] = pc'[t]]
        /\ \A u \in Threads : u # t => req'[u] = req[u]
        /\ pc[t] # "queue" /\ pc'[t] # "queue"
    BY <1>10 DEF ReleaseItem, Goto, Links, Shape, PcShape, QueueShape, RequestShape, Threads
  <2> QED
    BY <2>1 DEF Loaded, Queued, Links, Shape, PcShape, Threads
<1>11. ASSUME NEW t \in Threads, ReleaseRequest(t)
      PROVE  Loaded(r) \/ (FillFragment /\ r = req["main"])
  <2>1. /\ queue'["io"] = queue["io"] /\ pc' = [pc EXCEPT ![t] = pc'[t]]
        /\ \A u \in Threads : u # t => req'[u] = req[u]
        /\ pc[t] # "queue" /\ pc'[t] # "queue"
    BY <1>11 DEF ReleaseRequest, Goto, Links, Shape, PcShape, QueueShape, RequestShape, Threads
  <2> QED
    BY <2>1 DEF Loaded, Queued, Links, Shape, PcShape, Threads
<1>12. ASSUME TakeIrp PROVE Loaded(r) \/ (FillFragment /\ r = req["main"])
  <2>1. /\ queue'["io"] = queue["io"] /\ pc' = [pc EXCEPT !["main"] = pc'["main"]]
        /\ \A u \in Threads \ {"main"} : req'[u] = req[u]
        /\ pc["main"] # "queue" /\ pc'["main"] # "queue"
    BY <1>12 DEF TakeIrp, Goto, Links, Shape, PcShape, QueueShape, RequestShape, Threads
  <2> QED
    BY <2>1 DEF Loaded, Queued, Links, Shape, PcShape, Threads
<1>13. ASSUME TestSuspended PROVE Loaded(r) \/ (FillFragment /\ r = req["main"])
  <2>1. /\ queue'["io"] = queue["io"] /\ pc' = [pc EXCEPT !["main"] = pc'["main"]]
        /\ \A u \in Threads \ {"main"} : req'[u] = req[u]
        /\ pc["main"] # "queue" /\ pc'["main"] # "queue"
    BY <1>13 DEF TestSuspended, Goto, Links, Shape, PcShape, QueueShape, RequestShape, Threads
  <2> QED
    BY <2>1 DEF Loaded, Queued, Links, Shape, PcShape, Threads
<1>14. ASSUME AwaitResume PROVE Loaded(r) \/ (FillFragment /\ r = req["main"])
  <2>1. /\ queue'["io"] = queue["io"] /\ pc' = [pc EXCEPT !["main"] = pc'["main"]]
        /\ \A u \in Threads \ {"main"} : req'[u] = req[u]
        /\ pc["main"] # "queue" /\ pc'["main"] # "queue"
    BY <1>14 DEF AwaitResume, Goto, Links, Shape, PcShape, QueueShape, RequestShape, Threads
  <2> QED
    BY <2>1 DEF Loaded, Queued, Links, Shape, PcShape, Threads
<1>15. ASSUME AwaitsPool PROVE Loaded(r) \/ (FillFragment /\ r = req["main"])
  <2>1. /\ queue'["io"] = queue["io"] /\ pc' = [pc EXCEPT !["main"] = pc'["main"]]
        /\ \A u \in Threads \ {"main"} : req'[u] = req[u]
        /\ pc["main"] # "queue" /\ pc'["main"] # "queue"
    BY <1>15 DEF AwaitsPool, PoolEmpty, Goto, Links, Shape, PcShape, QueueShape, RequestShape,
       Threads
  <2> QED
    BY <2>1 DEF Loaded, Queued, Links, Shape, PcShape, Threads
<1>16. ASSUME LooksAgain PROVE Loaded(r) \/ (FillFragment /\ r = req["main"])
  <2>1. /\ queue'["io"] = queue["io"] /\ pc' = [pc EXCEPT !["main"] = pc'["main"]]
        /\ \A u \in Threads \ {"main"} : req'[u] = req[u]
        /\ pc["main"] # "queue" /\ pc'["main"] # "queue"
    BY <1>16 DEF LooksAgain, AwaitPoolBuffer, Goto, Links, Shape, PcShape, QueueShape,
       RequestShape, Threads
  <2> QED
    BY <2>1 DEF Loaded, Queued, Links, Shape, PcShape, Threads
<1>17. ASSUME Refuse PROVE Loaded(r) \/ (FillFragment /\ r = req["main"])
  <2>1. /\ queue'["io"] = queue["io"] /\ pc' = [pc EXCEPT !["main"] = pc'["main"]]
        /\ \A u \in Threads \ {"main"} : req'[u] = req[u]
        /\ pc["main"] # "queue" /\ pc'["main"] # "queue"
    BY <1>17 DEF Refuse, GetItem, Goto, Links, Shape, PcShape, QueueShape, RequestShape, Threads
  <2> QED
    BY <2>1 DEF Loaded, Queued, Links, Shape, PcShape, Threads
<1>18. ASSUME Protect PROVE Loaded(r) \/ (FillFragment /\ r = req["main"])
  <2>1. /\ queue'["io"] = queue["io"] /\ pc' = [pc EXCEPT !["main"] = pc'["main"]]
        /\ \A u \in Threads \ {"main"} : req'[u] = req[u]
        /\ pc["main"] # "queue" /\ pc'["main"] # "queue"
    BY <1>18 DEF Protect, GetItem, Goto, Links, Shape, PcShape, QueueShape, RequestShape, Threads
  <2> QED
    BY <2>1 DEF Loaded, Queued, Links, Shape, PcShape, Threads
<1>19. ASSUME Accept PROVE Loaded(r) \/ (FillFragment /\ r = req["main"])
  <2>1. /\ queue'["io"] = queue["io"] /\ pc' = [pc EXCEPT !["main"] = pc'["main"]]
        /\ \A u \in Threads \ {"main"} : req'[u] = req[u]
        /\ pc["main"] # "queue" /\ pc'["main"] # "queue"
    BY <1>19 DEF Accept, GetItem, Goto, Links, Shape, PcShape, QueueShape, RequestShape, Threads
  <2> QED
    BY <2>1 DEF Loaded, Queued, Links, Shape, PcShape, Threads
<1>20. ASSUME ReadMisaligned PROVE Loaded(r) \/ (FillFragment /\ r = req["main"])
  <2>1. /\ queue'["io"] = queue["io"] /\ pc' = [pc EXCEPT !["main"] = pc'["main"]]
        /\ \A u \in Threads \ {"main"} : req'[u] = req[u]
        /\ pc["main"] # "queue" /\ pc'["main"] # "queue"
    BY <1>20 DEF ReadMisaligned, Goto, Links, Shape, PcShape, QueueShape, RequestShape, Threads
  <2> QED
    BY <2>1 DEF Loaded, Queued, Links, Shape, PcShape, Threads
<1>21. ASSUME DecryptMisaligned PROVE Loaded(r) \/ (FillFragment /\ r = req["main"])
  <2>1. /\ queue'["io"] = queue["io"] /\ pc' = [pc EXCEPT !["main"] = pc'["main"]]
        /\ \A u \in Threads \ {"main"} : req'[u] = req[u]
        /\ pc["main"] # "queue" /\ pc'["main"] # "queue"
    BY <1>21 DEF DecryptMisaligned, Goto, Links, Shape, PcShape, QueueShape, RequestShape, Threads
  <2> QED
    BY <2>1 DEF Loaded, Queued, Links, Shape, PcShape, Threads
<1>22. ASSUME NextFragment PROVE Loaded(r) \/ (FillFragment /\ r = req["main"])
  <2>1. /\ queue'["io"] = queue["io"] /\ pc' = [pc EXCEPT !["main"] = pc'["main"]]
        /\ \A u \in Threads \ {"main"} : req'[u] = req[u]
        /\ pc["main"] # "queue" /\ pc'["main"] # "queue"
    BY <1>22 DEF NextFragment, Goto, Links, Shape, PcShape, QueueShape, RequestShape, Threads
  <2> QED
    BY <2>1 DEF Loaded, Queued, Links, Shape, PcShape, Threads
<1>23. ASSUME GetRequest PROVE Loaded(r) \/ (FillFragment /\ r = req["main"])
  <2>1. /\ queue'["io"] = queue["io"] /\ pc' = [pc EXCEPT !["main"] = pc'["main"]]
        /\ \A u \in Threads \ {"main"} : req'[u] = req[u]
        /\ pc["main"] # "queue" /\ pc'["main"] # "queue"
    BY <1>23 DEF GetRequest, Goto, Links, Shape, PcShape, QueueShape, RequestShape, Threads
  <2> QED
    BY <2>1 DEF Loaded, Queued, Links, Shape, PcShape, Threads
<1>24. ASSUME FillFragment PROVE Loaded(r) \/ (FillFragment /\ r = req["main"])
  <2>1. queue' = queue /\ req' = req
    BY <1>24 DEF FillFragment
  <2> QED
    BY <1>24, <2>1 DEF Loaded, Queued
<1>25. ASSUME QueueFragment PROVE Loaded(r) \/ (FillFragment /\ r = req["main"])
  <2>1. /\ \A n \in Queued("io")' : \/ n \in Queued("io") /\ queue'["io"][n] = queue["io"][n]
                                    \/ queue'["io"][n] = req["main"]
        /\ pc["main"] = "queue" /\ pc'["main"] # "queue"
    BY <1>25, QueueFragmentMoves DEF Links, Shape, PcShape, RequestShape, Threads
  <2> QED
    BY <2>1 DEF Loaded
<1>26. ASSUME TakeRequest PROVE Loaded(r) \/ (FillFragment /\ r = req["main"])
  <2>1. /\ \A n \in Queued("io")' : n + 1 \in Queued("io") /\ queue'["io"][n] = queue["io"][n + 1]
        /\ pc'["main"] = pc["main"] /\ req'["main"] = req["main"]
    BY <1>26, TakeRequestMoves DEF Links, Shape, PcShape, RequestShape, Threads
  <2> QED
    BY <2>1 DEF Loaded
<1>27. ASSUME DoPiece PROVE Loaded(r) \/ (FillFragment /\ r = req["main"])
  <2>1. /\ queue'["io"] = queue["io"] /\ pc' = [pc EXCEPT !["io"] = pc'["io"]]
        /\ \A u \in Threads \ {"io"} : req'[u] = req[u]
        /\ pc["io"] # "queue" /\ pc'["io"] # "queue"
    BY <1>27 DEF DoPiece, Goto, Links, Shape, PcShape, QueueShape, RequestShape, Threads
  <2> QED
    BY <2>1 DEF Loaded, Queued, Links, Shape, PcShape, Threads
<1>28. ASSUME WriteDone PROVE Loaded(r) \/ (FillFragment /\ r = req["main"])
  <2>1. /\ queue'["io"] = queue["io"] /\ pc' = [pc EXCEPT !["io"] = pc'["io"]]
        /\ \A u \in Threads \ {"io"} : req'[u] = req[u]
        /\ pc["io"] # "queue" /\ pc'["io"] # "queue"
    BY <1>28 DEF WriteDone, Goto, AfterRequest, ReleaseFragmentBuffer, Links, Shape, PcShape,
       QueueShape, RequestShape, Threads
  <2> QED
    BY <2>1 DEF Loaded, Queued, Links, Shape, PcShape, Threads
<1>29. ASSUME ReadDone PROVE Loaded(r) \/ (FillFragment /\ r = req["main"])
  <2>1. /\ queue'["io"] = queue["io"] /\ pc' = [pc EXCEPT !["io"] = pc'["io"]]
        /\ \A u \in Threads \ {"io"} : req'[u] = req[u]
        /\ pc["io"] # "queue" /\ pc'["io"] # "queue"
    BY <1>29 DEF ReadDone, Goto, ReleaseFragmentBuffer, Links, Shape, PcShape, QueueShape,
       RequestShape, Threads
  <2> QED
    BY <2>1 DEF Loaded, Queued, Links, Shape, PcShape, Threads
<1>30. ASSUME PassesOn PROVE Loaded(r) \/ (FillFragment /\ r = req["main"])
  <2>1. /\ queue'["io"] = queue["io"] /\ pc' = [pc EXCEPT !["io"] = pc'["io"]]
        /\ \A u \in Threads \ {"io"} : req'[u] = req[u]
        /\ pc["io"] # "queue" /\ pc'["io"] # "queue"
    BY <1>30 DEF PassesOn, PostCompletion, Goto, Links, Shape, PcShape, QueueShape, RequestShape,
       Threads
  <2> QED
    BY <2>1 DEF Loaded, Queued, Links, Shape, PcShape, Threads
<1>31. ASSUME ReadAhead PROVE Loaded(r) \/ (FillFragment /\ r = req["main"])
  <2>1. /\ queue'["io"] = queue["io"] /\ pc' = [pc EXCEPT !["io"] = pc'["io"]]
        /\ \A u \in Threads \ {"io"} : req'[u] = req[u]
        /\ pc["io"] # "queue" /\ pc'["io"] # "queue"
    BY <1>31 DEF ReadAhead, Goto, Links, Shape, PcShape, QueueShape, RequestShape, Threads
  <2> QED
    BY <2>1 DEF Loaded, Queued, Links, Shape, PcShape, Threads
<1>32. ASSUME DecryptFragment PROVE Loaded(r) \/ (FillFragment /\ r = req["main"])
  <2>1. /\ queue'["io"] = queue["io"] /\ pc' = [pc EXCEPT !["completion"] = pc'["completion"]]
        /\ \A u \in Threads \ {"completion"} : req'[u] = req[u]
        /\ pc["completion"] # "queue" /\ pc'["completion"] # "queue"
    BY ZenonT(60), <1>32 DEF DecryptFragment, Goto, AfterRequest, Links, Shape, PcShape,
       QueueShape,
       RequestShape, Threads
  <2> QED
    BY SMTT(60), <2>1 DEF Loaded, Queued, Links, Shape, PcShape, Threads
<1>33. CASE UNCHANGED <<coreVars, dataVars>>
  BY <1>33 DEF Loaded, Queued, coreVars
<1> QED BY ActionCases, <1>1, <1>2, <1>3, <1>4, <1>5, <1>6, <1>7, <1>8, <1>9, <1>10, <1>11,
     <1>12, <1>13, <1>14, <1>15, <1>16, <1>17, <1>18, <1>19, <1>20, <1>21, <1>22, <1>23, <1>24,
     <1>25, <1>26, <1>27, <1>28, <1>29, <1>30, <1>31, <1>32, <1>33


(* A loaded request has its buffer for itself.                             *)
LEMMA LoadedBuffer ==
  ASSUME Links, Buffered, NEW r \in Requests, Loaded(r)
  PROVE  /\ Pipe(r) /\ r.buf \in Fragments /\ ~fragmentFree[r.buf]
         /\ IoUses => req["io"].buf # r.buf
  BY RequestFields DEF Loaded, Pipe, Buffered

(* The steps that change the content of a buffer that is in use.           *)
LEMMA BufferKept ==
  ASSUME Links, Buffered, ToDo, [QueueStep]_vars, NEW b \in Fragments, ~fragmentFree[b],
         DOMAIN fragment = Fragments, fragment'[b] # fragment[b]
  PROVE  /\ req["io"].buf = b /\ IoUses
         /\ DoPiece => irp[item[own["io"]].irp].op = "read"
         /\ DoPiece \/ pc'["io"] \notin {"device", "done"}
<1>1. CASE FillFragment
  BY SMTT(60), <1>1 DEF FillFragment, Acquired
<1>2. CASE DoPiece
  BY <1>2, PieceDone DEF WritePiece, ReadPiece, IoRequest, IoUses
<1>3. CASE WriteDone \/ ReadDone
  <2>1. /\ pc["io"] = "done" /\ pc'["io"] \notin {"device", "done"}
        /\ fragment' = [fragment EXCEPT ![req["io"].buf] = Empty]
    BY <1>3 DEF WriteDone, ReadDone, ReleaseFragmentBuffer, IoRequest, Goto, AfterRequest,
       Links, Shape, PcShape, Threads
  <2>2. ~DoPiece
    BY <2>1 DEF DoPiece
  <2> QED
    BY <2>1, <2>2 DEF IoUses
<1> QED
  BY <1>1, <1>2, <1>3, FragmentFrame

(* What is filled stays filled.                                            *)
LEMMA FilledStep ==
  ASSUME Links, Volume, Cut, Buffered, ToDo, Filled, [QueueStep]_vars
  PROVE  Filled'
<1>1. /\ Area' = Area /\ remap' = remap
      /\ blocked => blocked'
      /\ keysErased' => blocked'
  BY FixedStep, KeysStep DEF Area, Filled
<1>2. DOMAIN fragment' = Fragments
  <2>1. CASE FillFragment \/ WriteDone \/ ReadDone
    BY SMTT(60), <2>1 DEF FillFragment, WriteDone, ReadDone, ReleaseFragmentBuffer, Filled
  <2>2. CASE DoPiece
    BY <2>2, PieceDone DEF WritePiece, ReadPiece, Filled
  <2> QED
    BY <2>1, <2>2, FragmentFrame DEF Filled
<1>3. \A i, S : Written(i, S)' = Written(i, S)
  BY <1>1 DEF Written, Unit
<1>4. ASSUME NEW r \in Requests, Pipe(r), Pipe(r)', FilledRequest(r), r.buf \in Fragments,
             fragment'[r.buf] = fragment[r.buf]
      PROVE  FilledRequest(r)'
  <2>1. item'[r.item].irp = item[r.item].irp /\ irp'[item[r.item].irp] = irp[item[r.item].irp]
    BY <1>4, PipeKept
  <2>2. \A i : Written(i, FragmentSectors(r))' = Written(i, FragmentSectors(r))
    BY <1>3 DEF FragmentSectors, Span
  <2> QED
    BY <1>4, <2>1, <2>2 DEF FilledRequest
<1>5. ASSUME NEW r \in Requests, Loaded(r)', ~blocked'
      PROVE  FilledRequest(r)'
  <2>1. Pipe(r)' /\ ~blocked
    BY <1>1, <1>5 DEF Loaded, Pipe
  <2>2. CASE Loaded(r)
    <3>1. Pipe(r) /\ FilledRequest(r) /\ r.buf \in Fragments
      BY <2>1, <2>2, LoadedBuffer DEF Filled
    <3>2. fragment'[r.buf] = fragment[r.buf]
      BY <2>2, LoadedBuffer, BufferKept DEF Filled
    <3> QED
      BY <1>4, <2>1, <3>1, <3>2
  <2>3. CASE FillFragment /\ r = req["main"]
    <3> DEFINE i == item[own["main"]].irp
    <3>1. /\ pc["main"] = "buffer" /\ UNCHANGED <<irp, item, own, req>>
          /\ fragment' = [fragment EXCEPT ![active] =
               IF irp[i].op = "read" THEN Empty
               ELSE [s \in FragmentSectors(r) |->
                       IF s \in r.enc THEN Encrypt(<<i, Plain>>, Unit(s)) ELSE <<i, Plain>>]]
      BY <2>3 DEF FillFragment, Goto, MainIrp, irpVars, poolVars, handVars
    <3>2. Pipe(r) /\ r.buf = active /\ r.item = own["main"]
      BY <2>3, <3>1 DEF Pipe, Buffered, Links, Hands
    <3>3. r.enc = FragmentSectors(r) \cap Area
      BY <3>2 DEF Cut, Cuts
    <3>4. ~keysErased
      BY <2>1 DEF Filled
    <3>5. \A s : Encrypt(<<i, Plain>>, Unit(s)) = <<i, Unit(s)>>
      BY <3>4 DEF Encrypt
    <3>6. active \in DOMAIN fragment
      BY DEF Filled, Links, Shape, MainShape
    <3>7. irp[i].op = "write" => fragment'[r.buf] = Written(i, FragmentSectors(r))
      BY <3>1, <3>2, <3>3, <3>5, <3>6 DEF Written
    <3>8. Written(i, FragmentSectors(r))' = Written(i', FragmentSectors(r))
      BY <1>3, <3>1 DEF FragmentSectors, Span
    <3>9. i' = item[r.item].irp /\ i = item[r.item].irp /\ item'[r.item] = item[r.item]
      BY <3>1, <3>2
    <3> HIDE DEF i
    <3> QED
      BY <1>3, <3>1, <3>7, <3>9 DEF FilledRequest, FragmentSectors, Span
  <2> QED
    BY <1>5, <2>2, <2>3, LoadStep
<1>6. ASSUME pc'["io"] = "device"
      PROVE  FilledRequest(req["io"])'
  <2>1. CASE TakeRequest
    <3>0. PICK r \in Requests : r = queue["io"][1]
      BY <2>1, TakeRequestMoves
    <3>1. Loaded(r) /\ req'["io"] = r
      BY SMTT(60), <2>1, <3>0, TakeRequestMoves DEF Loaded, Links, Shape, RequestShape, Threads
    <3>2. Permitted(r.item) /\ UNCHANGED blocked
      BY <1>6, <2>1, <3>0 DEF TakeRequest, Goto, Links, Shape, PcShape, Threads, outerVars,
         envVars, keyVars
    <3>3. FilledRequest(r) /\ Pipe(r) /\ r.buf \in Fragments
      BY <3>1, <3>2, LoadedBuffer DEF Filled, Permitted
    <3>4. Pipe(r)'
      BY <1>6, <3>1 DEF Pipe, IoUses
    <3>5. fragment' = fragment
      BY <2>1 DEF TakeRequest, fragmentVars
    <3>6. FilledRequest(r)'
      BY <1>4, <3>3, <3>4, <3>5
    <3> QED
      BY <3>1, <3>6 DEF FilledRequest, FragmentSectors, Span
  <2>2. CASE ~TakeRequest /\ pc["io"] = "device" /\ req'["io"] = req["io"]
    <3>0. PICK r \in Requests : r = req["io"]
      BY DEF Links, Shape, RequestShape, Threads
    <3>1. Pipe(r) /\ Pipe(r)' /\ r.buf \in Fragments /\ ~fragmentFree[r.buf] /\ req'["io"] = r
      BY <1>6, <2>2, <3>0, RequestFields DEF Pipe, IoUses, Buffered
    <3>2. FilledRequest(r)
      BY <2>2, <3>0 DEF Filled
    <3>3. r.item = own["io"]
      BY <2>2, <3>0 DEF Links, Hands
    <3>4. CASE fragment'[r.buf] = fragment[r.buf]
      <4>1. FilledRequest(r)'
        BY <1>4, <3>1, <3>2, <3>4
      <4> QED
        BY <3>1, <4>1 DEF FilledRequest, FragmentSectors, Span
    <3>5. CASE fragment'[r.buf] # fragment[r.buf]
      <4>1. irp[item[r.item].irp].op = "read"
        BY <1>6, <3>0, <3>1, <3>3, <3>5, BufferKept DEF Filled
      <4>2. item'[r.item].irp = item[r.item].irp /\ irp'[item[r.item].irp] = irp[item[r.item].irp]
        BY <3>1, PipeKept
      <4> QED
        BY <3>1, <4>1, <4>2 DEF FilledRequest
    <3> QED
      BY <3>4, <3>5
  <2>3. DoPiece => pc["io"] = "device" /\ req' = req
    BY DEF DoPiece, Goto, handVars
  <2> QED
    BY <1>6, <2>1, <2>2, <2>3, IoWork
<1> QED
  BY <1>1, <1>2, <1>5, <1>6 DEF Filled

(* Each sector has a place of its own.                                     *)
LEMMA LocationUnique ==
  ASSUME NEW s \in Sectors, NEW t \in Sectors, Location(s, Area) = Location(t, Area)
  PROVE  s = t
<1>1. s \in Nat /\ t \in Nat /\ RemapOffset \in Nat
  BY QueueAssumption
<1>2. s + RemapOffset # t /\ t + RemapOffset # s
  BY AreaAssumption
<1> QED
  BY <1>1, <1>2 DEF Location

(* What a piece that is written does to the disk.                          *)
LEMMA PieceWritten ==
  ASSUME Links, Volume, Cut, ToDo, Filled, HasPlaces, DoPiece,
         irp[item[own["io"]].irp].op = "write", WritePiece(todo[1])
  PROVE  /\ HasPlaces'
         /\ disk \in [Locations -> Contents] => disk' \in [Locations -> Contents]
         /\ \A s \in Sectors :
              disk'[Location(s, Area)] =
                IF s \in todo[1]
                THEN <<item[own["io"]].irp, IF s \in Area THEN Unit(s) ELSE Plain>>
                ELSE disk[Location(s, Area)]
<1> DEFINE r == req["io"]
           i == item[own["io"]].irp
           P == todo[1]
<1>1. /\ pc["io"] = "device" /\ Pipe(r) /\ r \in Requests /\ r.item = own["io"] /\ i \in Irps
      /\ P \subseteq FragmentSectors(r)
  BY PieceDone DEF PieceOf
<1>2. FragmentSectors(r) \subseteq Sectors /\ r.enc = FragmentSectors(r) \cap Area
  BY <1>1 DEF Cut, Cuts
<1>3. fragment[r.buf] = Written(i, FragmentSectors(r))
  BY <1>1 DEF Filled, FilledRequest
<1>4. \A s \in P : Location(s, r.enc) = Location(s, Area) /\ s \in Sectors
  BY <1>1, <1>2 DEF Location
<1>5. disk' = Merge(disk, [l \in Place(P) |->
                fragment[r.buf][CHOOSE s \in P : l = Location(s, r.enc)]])
  BY DEF WritePiece, IoRequest
<1>6. Place(P) = {Location(s, r.enc) : s \in P}
  BY DEF Place, IoRequest
<1>7. DOMAIN disk = Locations
  BY DEF HasPlaces
<1> HIDE DEF r, i, P
<1>8. \A l \in Place(P) : (CHOOSE s \in P : l = Location(s, r.enc)) \in P
                          /\ l = Location(CHOOSE s \in P : l = Location(s, r.enc), r.enc)
  BY <1>6
<1>9. ASSUME NEW s \in P
      PROVE  /\ Location(s, Area) \in Place(P)
             /\ disk'[Location(s, Area)] = <<i, IF s \in Area THEN Unit(s) ELSE Plain>>
  <2> DEFINE l == Location(s, Area)
             q == CHOOSE u \in P : l = Location(u, r.enc)
  <2>1. l \in Place(P)
    BY <1>4, <1>6
  <2>2. q \in P /\ l = Location(q, r.enc)
    BY SMTT(60), <1>8, <2>1
  <2>3. q = s
    BY ZenonT(60), <1>4, <1>9, <2>2, LocationUnique
  <2>4. disk'[l] = fragment[r.buf][q]
    BY <1>5, <2>1 DEF Merge
  <2> HIDE DEF q, l
  <2>5. disk'[l] = <<i, IF s \in Area THEN Unit(s) ELSE Plain>>
    BY <1>1, <1>3, <1>9, <2>3, <2>4 DEF Written
  <2> QED
    BY <2>1, <2>5 DEF l
<1>10. ASSUME NEW s \in Sectors, s \notin P
       PROVE  disk'[Location(s, Area)] = disk[Location(s, Area)]
  <2> DEFINE l == Location(s, Area)
  <2>1. l \notin Place(P)
    BY <1>4, <1>6, <1>10, LocationUnique
  <2>2. l \in Locations
    BY DEF Location, Locations
  <2> HIDE DEF l
  <2>3. disk'[l] = disk[l]
    BY <1>5, <1>7, <2>1, <2>2 DEF Merge
  <2> QED
    BY <2>3 DEF l
<1>11. Place(P) \subseteq Locations
  BY <1>4, <1>6 DEF Location, Locations
<1>12. HasPlaces'
  BY <1>5, <1>7, <1>11 DEF Merge, HasPlaces, Locations
<1>13. ASSUME disk \in [Locations -> Contents]
       PROVE  disk' \in [Locations -> Contents]
  <2>2. \A s \in P : fragment[r.buf][s] \in Contents
    <3>1. \A s \in P : fragment[r.buf][s] = <<i, IF s \in Area THEN Unit(s) ELSE Plain>>
      BY <1>1, <1>3 DEF Written
    <3>2. \A s \in P : Unit(s) \in Locations
      BY <1>4 DEF Unit, Locations
    <3>3. \A s \in P : (IF s \in Area THEN Unit(s) ELSE Plain) \in Units
      BY <3>2 DEF Units
    <3>4. i \in Irps \cup {NoIrp}
      BY <1>1
    <3> HIDE DEF Unit
    <3> QED
      BY SMTT(60), <3>1, <3>3, <3>4 DEF Contents
  <2>3. \A l \in Place(P) : disk'[l] \in Contents
    BY <1>5, <1>8, <2>2 DEF Merge
  <2>4. \A l \in Locations \ Place(P) : disk'[l] = disk[l]
    BY <1>5, <1>7 DEF Merge
  <2>5. DOMAIN disk' = Locations /\ disk' = [l \in DOMAIN disk' |-> disk'[l]]
    BY <1>5, <1>7, <1>11 DEF Merge
  <2> QED
    BY <1>13, <2>3, <2>4, <2>5
<1> QED
  BY <1>9, <1>10, <1>12, <1>13 DEF P, i

(* What the disk holds stays readable.                                     *)
LEMMA ReadableStep ==
  ASSUME Links, Volume, Cut, ToDo, Filled, Readable, [QueueStep]_vars
  PROVE  Readable'
<1>1. Area' = Area /\ remap' = remap
  BY FixedStep DEF Area
<1>2. \A s : Location(s, Area)' = Location(s, Area) /\ Unit(s)' = Unit(s)
  BY <1>1 DEF Location, Unit
<1>3. CASE disk' = disk
  BY <1>1, <1>2, <1>3 DEF Readable
<1>4. CASE DoPiece /\ disk' # disk
  <2>1. /\ irp[item[own["io"]].irp].op = "write" /\ WritePiece(todo[1])
        /\ item[own["io"]].irp \in Irps
    BY <1>4, PieceDone DEF ReadPiece
  <2>2. /\ disk' \in [Locations -> Contents]
        /\ \A s \in Sectors :
             disk'[Location(s, Area)] =
               IF s \in todo[1]
               THEN <<item[own["io"]].irp, IF s \in Area THEN Unit(s) ELSE Plain>>
               ELSE disk[Location(s, Area)]
    BY <1>4, <2>1, PieceWritten DEF Readable, HasPlaces
  <2>3. \A s \in Sectors : disk'[Location(s, Area)] \in
                             Writers \X {IF s \in Area THEN Unit(s) ELSE Plain}
    <3> SUFFICES ASSUME NEW s \in Sectors
                 PROVE  disk'[Location(s, Area)] \in
                          Writers \X {IF s \in Area THEN Unit(s) ELSE Plain}
      OBVIOUS
    <3> DEFINE u == IF s \in Area THEN Unit(s) ELSE Plain
               i == item[own["io"]].irp
    <3>1. CASE s \in todo[1]
      <4>1. disk'[Location(s, Area)] = <<i, u>>
        BY <2>2, <3>1
      <4>2. i \in Writers
        BY <2>1 DEF Writers
      <4> HIDE DEF i, u
      <4>3. <<i, u>> \in Writers \X {u}
        BY <4>2
      <4> QED
        BY <4>1, <4>3 DEF u
    <3>2. CASE s \notin todo[1]
      BY <2>2, <3>2 DEF Readable
    <3> QED
      BY <3>1, <3>2
  <2> QED
    BY <1>1, <1>2, <2>2, <2>3 DEF Readable
<1> QED
  BY <1>3, <1>4, DiskFrame


(* A request is only taken from the pool while it holds one.               *)
Pooled == freeRequests >= 0

(* Every step keeps that.                                                  *)
LEMMA PooledStep ==
  ASSUME Links, Pooled, [QueueStep]_vars
  PROVE  Pooled'
<1> USE DEF irpVars, queueVars, poolVars, handVars, countVars
<1>1. freeRequests \in Int
  BY DEF Links, Shape, NumberShape
<1>2. ASSUME NEW t \in Threads, ReleaseRequest(t)
      PROVE  Pooled'
  BY <1>1, <1>2 DEF ReleaseRequest, Pooled
<1>3. CASE GetRequest
  BY <1>1, <1>3 DEF GetRequest, Pooled
<1>4. CASE freeRequests' = freeRequests
  BY <1>4 DEF Pooled
<1> QED
  BY <1>2, <1>3, <1>4, PoolFrame

-----------------------------------------------------------------------------
(* Everything together.                                                    *)
Kept == /\ Sound /\ Buffered /\ Volume /\ Cut /\ MainSafe /\ Harmless
        /\ Untouched /\ Intact /\ ToDo /\ Filled /\ Readable /\ Pooled

(* It holds to begin with.                                                 *)
LEMMA KeptInit == Init => Kept
<1> SUFFICES ASSUME Init PROVE Kept
  OBVIOUS
<1>1. Sound
  BY SoundInit
<1>2. /\ \A t \in Threads : pc[t] = "wait" /\ queue[t] = <<>>
      /\ Queued("io") = {} /\ ~IoUses /\ \A r \in Requests : ~Pipe(r)
  BY DEF Init, Queued, IoUses, Pipe, Threads
<1>3. Buffered
  BY <1>2 DEF Init, Buffered, Fragments, Threads
<1>4. Volume
  <2>1. CASE hostVolume
    <3>1. areaStart \in Sectors /\ areaEnd \in Sectors /\ Area = Sectors
          /\ protected \in HiddenVolumes
          /\ ~remap /\ late = {} /\ ~protectionAction
      BY <2>1 DEF Init
    <3> QED
      BY <3>1, <2>1, QueueAssumption DEF Volume
  <2>2. CASE ~hostVolume
    <3>1. PICK a \in Areas \cup RemapAreas : areaStart = a[1] /\ areaEnd = a[2]
      BY <2>2 DEF Init
    <3>2. /\ a \in Int \X Int
          /\ -1 \in {a[1], a[2]} \/ a[1]..a[2] \subseteq Sectors
      BY AreaAssumption
    <3>3. Area \subseteq Sectors
      BY <3>1, <3>2 DEF Area
    <3>4. protected = {} /\ late = {} /\ ~protectionAction
      BY <2>2 DEF Init
    <3>5. areaStart \in Int /\ areaEnd \in Int
      BY <3>1, <3>2
    <3> QED
      BY <2>2, <3>3, <3>4, <3>5 DEF Volume
  <2> QED
    BY <2>1, <2>2
<1>5. Cut
  <2>1. \A i \in Irps : IrpSectors(i) = 0..0 + 0 - 1
    BY DEF Init, IrpSectors, NoRequest, Span
  <2> QED
    BY <1>2, <2>1 DEF Cut
<1>6. MainSafe /\ Harmless /\ ToDo /\ Pooled
  BY <1>2, QueueAssumption DEF Init, MainSafe, Harmless, ToDo, Cutting, Pooled, Threads
<1>7. Untouched
  BY DEF Init, Untouched
<1>8. /\ disk = [l \in Locations |->
                   <<NoIrp, IF (IF remap THEN l - RemapOffset ELSE l) \in Area THEN l ELSE Plain>>]
  <2>1. CASE remap
    BY <2>1 DEF Init
  <2>2. CASE ~remap
    BY <2>2 DEF Init
  <2> QED
    BY <2>1, <2>2 DEF Init
<1>9. Intact
  BY <1>4, <1>8 DEF Intact, Volume, Locations
<1>10. Filled
  BY <1>2 DEF Init, Filled, Loaded, Threads
<1>11. Readable
  <2>1. disk \in [Locations -> Contents]
    BY <1>8 DEF Contents, Units
  <2>2. ASSUME NEW s \in Sectors
        PROVE  disk[Location(s, Area)] = <<NoIrp, IF s \in Area THEN Unit(s) ELSE Plain>>
    <3>1. s \in Nat /\ RemapOffset \in Nat /\ s + RemapOffset - RemapOffset = s
      BY QueueAssumption
    <3>2. CASE remap /\ s \in Area
      <4>1. Location(s, Area) = s + RemapOffset /\ Unit(s) = s + RemapOffset
            /\ s + RemapOffset \in Locations
        BY <3>2 DEF Location, Unit, Locations
      <4> QED
        BY <1>8, <3>1, <3>2, <4>1
    <3>3. CASE remap /\ s \notin Area
      <4>1. Location(s, Area) = s /\ s \in Locations
        BY <3>3 DEF Location, Locations
      <4>2. s - RemapOffset \notin Area
        <5> SUFFICES ASSUME s - RemapOffset \in Area PROVE FALSE
          OBVIOUS
        <5>1. s - RemapOffset \in Sectors /\ s - RemapOffset + RemapOffset = s
          BY <1>4, <3>1 DEF Volume
        <5> QED
          BY <5>1, AreaAssumption
      <4> QED
        BY <1>8, <3>3, <4>1, <4>2
    <3>4. CASE ~remap
      <4>1. Location(s, Area) = s /\ Unit(s) = s /\ s \in Locations
        BY <3>4 DEF Location, Unit, Locations
      <4> QED
        BY <1>8, <3>4, <4>1
    <3> QED
      BY <3>2, <3>3, <3>4
  <2> QED
    BY <2>1, <2>2 DEF Readable, Writers
<1> QED
  BY <1>1, <1>3, <1>4, <1>5, <1>6, <1>7, <1>9, <1>10, <1>11 DEF Kept

(* Every step keeps it.                                                    *)
LEMMA KeptStep == Kept /\ [QueueStep]_vars => Kept'
<1> SUFFICES ASSUME Kept, [QueueStep]_vars PROVE Kept'
  OBVIOUS
<1>1. Sound' /\ Links
  BY SoundStep, StepKnown DEF Kept, Sound
<1>2. Buffered' /\ Volume' /\ Cut' /\ Pooled'
  BY <1>1, BufferedStep, VolumeStep, CutStep, PooledStep DEF Kept
<1>3. MainSafe' /\ Harmless' /\ Untouched' /\ Intact'
  BY <1>1, MainSafeStep, HarmlessStep, UntouchedStep, IntactStep DEF Kept
<1>4. ToDo' /\ Filled' /\ Readable'
  BY <1>1, ToDoStep, FilledStep, ReadableStep DEF Kept
<1> QED
  BY <1>1, <1>2, <1>3, <1>4 DEF Kept

(* So it always holds.                                                     *)
LEMMA KeptAlways == Spec => []Kept
  BY KeptInit, KeptStep, NextSteps, PTL DEF Spec

-----------------------------------------------------------------------------
(* No fragment buffer is used by two requests at a time, and none is lost: *)
(* a buffer whose event is reset has exactly one user.  The events of the  *)
(* two buffers are all that AcquireFragmentBuffer goes by.                 *)
THEOREM BuffersNotShared == Spec => []OneUserPerBuffer
<1>1. ASSUME Kept, NEW b \in Fragments
      PROVE  Cardinality(BufferUsers(b)) = IF fragmentFree[b] THEN 0 ELSE 1
  <2>1. Buffered /\ DOMAIN queue["io"] = Queued("io")
    BY <1>1 DEF Kept, Sound, Links, Shape, QueueShape, Queued
  <2>2. \A x : x \in BufferUsers(b) <=>
          \/ \E n \in Queued("io") : queue["io"][n].buf = b /\ x = <<"queued", n>>
          \/ pc["main"] = "queue" /\ req["main"].buf = b /\ x = <<"main", 0>>
          \/ pc["io"] \in {"device", "done"} /\ req["io"].buf = b /\ x = <<"io", 0>>
    BY <2>1 DEF BufferUsers
  <2>3. CASE fragmentFree[b]
    <3>1. BufferUsers(b) = {}
      BY <2>1, <2>2, <2>3 DEF Buffered, IoUses
    <3> QED
      BY <2>3, <3>1, FS_EmptySet
  <2>4. CASE ~fragmentFree[b]
    <3>1. CASE pc["main"] = "queue" /\ req["main"].buf = b
      <4>1. BufferUsers(b) = {<<"main", 0>>}
        BY <2>1, <2>2, <3>1 DEF Buffered, IoUses
      <4> QED
        BY <2>4, <4>1, FS_Singleton
    <3>2. CASE IoUses /\ req["io"].buf = b
      <4>1. BufferUsers(b) = {<<"io", 0>>}
        BY <2>1, <2>2, <3>2 DEF Buffered, IoUses
      <4> QED
        BY <2>4, <4>1, FS_Singleton
    <3>3. ASSUME NEW n \in Queued("io"), queue["io"][n].buf = b
          PROVE  Cardinality(BufferUsers(b)) = 1
      <4>1. BufferUsers(b) = {<<"queued", n>>}
        BY <2>1, <2>2, <3>3 DEF Buffered, IoUses
      <4> QED
        BY <4>1, FS_Singleton
    <3> QED
      BY <2>1, <2>4, <3>1, <3>2, <3>3 DEF Buffered
  <2> QED
    BY <2>3, <2>4
<1>2. Kept => OneUserPerBuffer
  BY <1>1 DEF OneUserPerBuffer
<1> QED
  BY <1>2, KeptAlways, PTL

(* Whatever is asked of a mounted volume, the hidden volume in it keeps    *)
(* what it holds; and once the protection has acted, nothing that is       *)
(* written after that reaches any sector of the volume.                    *)
THEOREM HiddenVolumeIsSafe == Spec => []HiddenVolumeKept
<1>1. Kept => HiddenVolumeKept
  BY DEF Kept, Intact, Untouched, HiddenVolumeKept
<1> QED
  BY <1>1, KeptAlways, PTL

(* Every sector can be decrypted to what somebody wrote there, be it       *)
(* remapped or not and the keys erased at any time: a fragment that was    *)
(* filled with erased keys is never written.                               *)
THEOREM NothingIsSpoilt == Spec => []DiskStaysReadable
<1>1. ASSUME Kept, NEW s \in Sectors
      PROVE  PlainContent(s) # Garbage
  <2> DEFINE l == Location(s, Area)
             u == IF s \in Area THEN Unit(s) ELSE Plain
  <2>1. disk[l] \in Writers \X {u}
    BY <1>1 DEF Kept, Readable
  <2>2. disk[l][2] = u
    BY <2>1
  <2>3. PlainContent(s) = <<disk[l][1], Plain>> \/ (PlainContent(s) = disk[l] /\ s \notin Area)
    BY <2>2 DEF PlainContent, Opened, Location
  <2> HIDE DEF l
  <2>4. PlainContent(s)[2] = Plain
    BY <2>2, <2>3
  <2> QED
    BY <2>4 DEF Garbage, Plain
<1>2. Kept => DiskStaysReadable
  BY <1>1 DEF DiskStaysReadable
<1> QED
  BY <1>2, KeptAlways, PTL

(* Every variable keeps its shape; OutstandingIoCount, the count of the    *)
(* I/O thread's pending requests and that of the free ones stay in range.  *)
THEOREM QueueTypeCorrect == Spec => []TypeOK
<1>1. ASSUME Kept
      PROVE  TypeOK
  <2>1. /\ \A i \in Irps : irp[i].op \in {"none", "read", "write", "skewed"}
        /\ ipc \in [Irps -> {"idle", "counted", "rejectSignal"}]
        /\ \A k \in Items : item[k].irp \in Irps \cup {NoIrp}
                            /\ item[k].status \in {"free", "ok", "failed"}
        /\ own \in [Threads -> 0..ItemCount] /\ active \in Fragments
        /\ fragmentFree \in [Fragments -> BOOLEAN] /\ disk \in [Locations -> Contents]
    BY <1>1 DEF Kept, Sound, Links, Shape, IrpShape, IrpRecords, ItemShape, ItemRecords, OwnShape,
       MainShape, BufferShape, Readable
  <2>2. \A b : Bit(b) \in 0..1
    BY DEF Bit
  <2>3. outstanding \in Nat
    <3> DEFINE c == Cardinality(PendingIn(irp))
               x == Bit(pc["main"] = "decrement")
               y == Bit(pc["io"] \in {"decrement", "postAhead", "readAhead"})
               z == Bit(pc["completion"] = "decrement")
    <3>1. outstanding = c + x + y + z
      BY <1>1 DEF Kept, Sound, Counted, CountedIrps
    <3>2. c \in Nat /\ x \in 0..1 /\ y \in 0..1 /\ z \in 0..1
      BY <1>1, <2>2, PendingCount DEF Kept, Sound, Counted
    <3> HIDE DEF c, x, y, z
    <3> QED
      BY <3>1, <3>2
  <2>4. Len(queue["io"]) \in Nat /\ Len(queue["completion"]) \in Nat
    BY <1>1 DEF Kept, Sound, Links, Shape, QueueShape
  <2>5. pending \in Nat
    BY <1>1, <2>2, <2>4 DEF Kept, Sound, Counted, CountedFragments
  <2>6. freeRequests \in 0..RequestCount
    <3> DEFINE p == Len(queue["io"])
               q == Len(queue["completion"])
               x == Bit(req["main"].item # 0)
               y == Bit(req["io"].item # 0)
               z == Bit(req["completion"].item # 0)
    <3>1. RequestCount = freeRequests + p + q + (x + y + z)
      BY <1>1 DEF Kept, Sound, Counted, CountedRequests, Waiting, InHand
    <3>2. p \in Nat /\ q \in Nat /\ x \in 0..1 /\ y \in 0..1 /\ z \in 0..1
      BY <2>2, <2>4
    <3>3. freeRequests \in Int /\ freeRequests >= 0 /\ RequestCount \in Nat
      BY <1>1, QueueAssumption DEF Kept, Sound, Links, Shape, NumberShape, Pooled
    <3> HIDE DEF p, q, x, y, z
    <3> QED
      BY <3>1, <3>2, <3>3
  <2> QED
    BY <2>1, <2>3, <2>5, <2>6 DEF TypeOK
<1>2. Kept => TypeOK
  BY <1>1
<1> QED
  BY <1>2, KeptAlways, PTL


=============================================================================
