------------------------ MODULE EncryptedIoQueueReads -------------------------
(***************************************************************************)
(* Proofs about what EncryptedIoQueue gives back: a read that succeeds     *)
(* returns what its sectors held when they were read, and the file system  *)
(* sees a disk of plain sectors (PlainDisk).                               *)
(*                                                                         *)
(* The fragments of an IRP follow each other through the I/O thread and    *)
(* the completion thread without a sector in common.  A sector waits until *)
(* a device operation has transferred it; its content is in the fragment   *)
(* buffer then, after that encrypted in the buffer of the IRP and finally  *)
(* decrypted there.  The holder of the last fragment finds nothing waiting *)
(* nor encrypted any more, since it is alone with the item (Links).        *)
(*                                                                         *)
(* So a thread that is about to complete an IRP with success has all of    *)
(* its sectors transferred (Results).  Asking for I/O is the step Issue of *)
(* the plain disk, a device operation or a misaligned read Write or Read,  *)
(* reaching the completion of an IRP Settle, completing or rejecting it    *)
(* Answer; every other step is none of the plain disk.                     *)
(***************************************************************************)
EXTENDS EncryptedIoQueueDisk

(* What the I/O thread has in its hands, until it has passed it on.        *)
IoHolds == {"device", "done", "post", "postAhead"}

(* The fragments on their way from there to the end.                       *)
InLine(r) ==
  \/ \E t \in {"io", "completion"} : \E n \in Queued(t) : r = queue[t][n]
  \/ pc["io"] \in IoHolds /\ r = req["io"]

(* Two fragments of an IRP have no sector in common, and the main thread   *)
(* has come past all that are in line.                                     *)
Separate(x, y) == x.item = y.item => FragmentSectors(x) \cap FragmentSectors(y) = {}
Behind(r) == pc["main"] \in Cutting /\ r.item = own["main"] => r.first + r.len <= next
Lined ==
  /\ \A t \in {"io", "completion"} : \A m, n \in Queued(t) :
       m # n => Separate(queue[t][m], queue[t][n])
  /\ \A m \in Queued("io"), n \in Queued("completion") :
       Separate(queue["io"][m], queue["completion"][n])
  /\ pc["io"] \in IoHolds => \A t \in {"io", "completion"} : \A n \in Queued(t) :
       Separate(req["io"], queue[t][n])
Passed == \A r \in Requests : InLine(r) => Behind(r)

(* Each is a part of its IRP.                                              *)
Fits(r) == /\ r.enc = FragmentSectors(r) \cap Area
           /\ FragmentSectors(r) \subseteq IrpSectors(item[r.item].irp)
Fitting == \A r \in Requests : InLine(r) => Fits(r)

(* What the I/O thread works on was taken from its queue.                  *)
LEMMA HandKept ==
  ASSUME Links, [QueueStep]_vars, pc'["io"] \in IoHolds
  PROVE  \/ TakeRequest
         \/ /\ pc["io"] \in IoHolds /\ req'["io"] = req["io"] /\ own'["io"] = own["io"]
<1> USE DEF irpVars, queueVars, poolVars, handVars, mainVars, fragmentVars, ioVars, pipeVars,
            countVars, diskVars, outerVars, holdVars, stopVars, envVars, areaVars, keyVars,
            volumeVars
<1> DEFINE Same == pc["io"] \in IoHolds /\ req'["io"] = req["io"] /\ own'["io"] = own["io"]
<1>1. ASSUME UNCHANGED <<coreVars, dataVars>>
      PROVE  Same
  BY <1>1 DEF coreVars, Links, Shape, PcShape, OwnShape, RequestShape, Threads, IoHolds,
     MainPcs, Resting, Ending
<1>2. ASSUME NEW i \in Irps, NEW op \in {"read", "write", "skewed"}, NEW first \in Nat,
             NEW len \in Nat, Issue(i, op, first, len)
      PROVE  Same
  BY <1>2 DEF Issue, IGoto, Links, Shape, PcShape, OwnShape, RequestShape, Threads, IoHolds,
     MainPcs, Resting, Ending
<1>3. ASSUME NEW i \in Irps, AddIrp(i)
      PROVE  Same
  BY <1>3 DEF AddIrp, IGoto, Links, Shape, PcShape, OwnShape, RequestShape, Threads, IoHolds,
     MainPcs, Resting, Ending
<1>4. ASSUME NEW i \in Irps, Reject(i)
      PROVE  Same
  BY <1>4 DEF Reject, IGoto, Links, Shape, PcShape, OwnShape, RequestShape, Threads, IoHolds,
     MainPcs, Resting, Ending
<1>5. ASSUME NEW i \in Irps, RejectSignal(i)
      PROVE  Same
  BY <1>5 DEF RejectSignal, IGoto, Links, Shape, PcShape, OwnShape, RequestShape, Threads,
     IoHolds, MainPcs, Resting, Ending
<1>6. ASSUME NEW t \in Threads, Wake(t)
      PROVE  Same
  BY <1>6 DEF Wake, Goto, Links, Shape, PcShape, OwnShape, RequestShape, Threads, IoHolds,
     MainPcs, Resting, Ending
<1>7. ASSUME NEW t \in Threads, Drained(t)
      PROVE  Same
  BY <1>7 DEF Drained, Goto, Links, Shape, PcShape, OwnShape, RequestShape, Threads, IoHolds,
     MainPcs, Resting, Ending
<1>8. ASSUME NEW t \in Threads, CompleteIrp(t)
      PROVE  Same
  BY <1>8 DEF CompleteIrp, Goto, Links, Shape, PcShape, OwnShape, RequestShape, Threads,
     IoHolds, MainPcs, Resting, Ending
<1>9. ASSUME NEW t \in Threads, Decrement(t)
      PROVE  Same
  BY <1>9 DEF Decrement, Goto, AfterDecrement, Links, Shape, PcShape, OwnShape, RequestShape,
     Threads, IoHolds, MainPcs, Resting, Ending
<1>10. ASSUME NEW t \in Threads, SignalIdle(t)
      PROVE  Same
  BY <1>10 DEF SignalIdle, Goto, AfterDecrement, Links, Shape, PcShape, OwnShape, RequestShape,
     Threads, IoHolds, MainPcs, Resting, Ending
<1>11. ASSUME NEW t \in Threads, ReleaseItem(t)
      PROVE  Same
  BY <1>11 DEF ReleaseItem, Goto, Links, Shape, PcShape, OwnShape, RequestShape, Threads,
     IoHolds, MainPcs, Resting, Ending
<1>12. ASSUME NEW t \in Threads, ReleaseRequest(t)
      PROVE  Same
  BY <1>12 DEF ReleaseRequest, Goto, Links, Shape, PcShape, OwnShape, RequestShape, Threads,
     IoHolds, MainPcs, Resting, Ending
<1>13. ASSUME TakeIrp
      PROVE  Same
  BY <1>13 DEF TakeIrp, Goto, Links, Shape, PcShape, OwnShape, RequestShape, Threads, IoHolds,
     MainPcs, Resting, Ending
<1>14. ASSUME TestSuspended
      PROVE  Same
  BY <1>14 DEF TestSuspended, Goto, Links, Shape, PcShape, OwnShape, RequestShape, Threads,
     IoHolds, MainPcs, Resting, Ending
<1>15. ASSUME AwaitResume
      PROVE  Same
  BY <1>15 DEF AwaitResume, Goto, Links, Shape, PcShape, OwnShape, RequestShape, Threads,
     IoHolds, MainPcs, Resting, Ending
<1>16. ASSUME AwaitsPool
      PROVE  Same
  BY <1>16 DEF AwaitsPool, PoolEmpty, Goto, Links, Shape, PcShape, OwnShape, RequestShape,
     Threads, IoHolds, MainPcs, Resting, Ending
<1>17. ASSUME LooksAgain
      PROVE  Same
  BY <1>17 DEF LooksAgain, AwaitPoolBuffer, Goto, Links, Shape, PcShape, OwnShape, RequestShape,
     Threads, IoHolds, MainPcs, Resting, Ending
<1>18. ASSUME Refuse
      PROVE  Same
  BY <1>18 DEF Refuse, GetItem, Goto, Links, Shape, PcShape, OwnShape, RequestShape, Threads,
     IoHolds, MainPcs, Resting, Ending
<1>19. ASSUME Protect
      PROVE  Same
  BY <1>19 DEF Protect, GetItem, Goto, Links, Shape, PcShape, OwnShape, RequestShape, Threads,
     IoHolds, MainPcs, Resting, Ending
<1>20. ASSUME Accept
      PROVE  Same
  BY <1>20 DEF Accept, GetItem, Goto, Links, Shape, PcShape, OwnShape, RequestShape, Threads,
     IoHolds, MainPcs, Resting, Ending
<1>21. ASSUME ReadMisaligned
      PROVE  Same
  BY SMTT(60), <1>21 DEF ReadMisaligned, Goto, Links, Shape, PcShape, OwnShape, RequestShape,
     Threads, IoHolds, MainPcs, Resting, Ending
<1>22. ASSUME DecryptMisaligned
      PROVE  Same
  BY SMTT(60), <1>22 DEF DecryptMisaligned, Goto, Links, Shape, PcShape, OwnShape, RequestShape,
     Threads, IoHolds, MainPcs, Resting, Ending
<1>23. ASSUME NextFragment
      PROVE  Same
  BY SMTT(60), <1>23 DEF NextFragment, Goto, Links, Shape, PcShape, OwnShape, RequestShape,
     Threads, IoHolds, MainPcs, Resting, Ending
<1>24. ASSUME GetRequest
      PROVE  Same
  BY <1>24 DEF GetRequest, Goto, Links, Shape, PcShape, OwnShape, RequestShape, Threads,
     IoHolds, MainPcs, Resting, Ending
<1>25. ASSUME FillFragment
      PROVE  Same
  BY SMTT(60), <1>25 DEF FillFragment, Goto, Links, Shape, PcShape, OwnShape, RequestShape,
     Threads, IoHolds, MainPcs, Resting, Ending
<1>26. ASSUME QueueFragment
      PROVE  Same
  BY <1>26 DEF QueueFragment, Goto, Links, Shape, PcShape, OwnShape, RequestShape, Threads,
     IoHolds, MainPcs, Resting, Ending
<1>27. ASSUME DoPiece
      PROVE  Same
  BY SMTT(60), <1>27 DEF DoPiece, Goto, Links, Shape, PcShape, OwnShape, RequestShape, Threads,
     IoHolds, MainPcs, Resting, Ending
<1>28. ASSUME WriteDone
      PROVE  Same
  BY <1>28 DEF WriteDone, Goto, AfterRequest, ReleaseFragmentBuffer, Links, Shape, PcShape,
     OwnShape, RequestShape, Threads, IoHolds, MainPcs, Resting, Ending
<1>29. ASSUME ReadDone
      PROVE  Same
  BY SMTT(60), <1>29 DEF ReadDone, Goto, ReleaseFragmentBuffer, Links, Shape, PcShape, OwnShape,
     RequestShape, Threads, IoHolds, MainPcs, Resting, Ending
<1>30. ASSUME PassesOn
      PROVE  Same
  BY <1>30 DEF PassesOn, PostCompletion, Goto, Links, Shape, PcShape, OwnShape, RequestShape,
     Threads, IoHolds, MainPcs, Resting, Ending
<1>31. ASSUME ReadAhead
      PROVE  Same
  BY SMTT(60), <1>31 DEF ReadAhead, Goto, Links, Shape, PcShape, OwnShape, RequestShape,
     Threads, IoHolds, MainPcs, Resting, Ending
<1>32. ASSUME DecryptFragment
      PROVE  Same
  BY ZenonT(60), <1>32 DEF DecryptFragment, Goto, AfterRequest, Links, Shape, PcShape, OwnShape,
     RequestShape, Threads, IoHolds, MainPcs, Resting, Ending
<1> HIDE DEF Same
<1>33. Same \/ TakeRequest
  BY ActionCases, <1>1, <1>2, <1>3, <1>4, <1>5, <1>6, <1>7, <1>8,
     <1>9, <1>10, <1>11, <1>12, <1>13, <1>14, <1>15, <1>16, <1>17, <1>18, <1>19, <1>20, <1>21,
     <1>22, <1>23, <1>24, <1>25, <1>26, <1>27, <1>28, <1>29, <1>30, <1>31, <1>32
<1> QED
  BY <1>33 DEF Same

(* What the main thread is about to pass on was cut by GetRequest.         *)
LEMMA MainRequestKept ==
  ASSUME Links, [QueueStep]_vars, pc'["main"] \in {"buffer", "queue"}
  PROVE  \/ GetRequest
         \/ /\ pc["main"] \in {"buffer", "queue"} /\ req'["main"] = req["main"]
            /\ own'["main"] = own["main"] /\ next' = next
<1> USE DEF irpVars, queueVars, poolVars, handVars, mainVars, fragmentVars, ioVars, pipeVars,
            countVars, diskVars, outerVars, holdVars, stopVars, envVars, areaVars, keyVars,
            volumeVars
<1> DEFINE Same == /\ pc["main"] \in {"buffer", "queue"} /\ req'["main"] = req["main"]
                   /\ own'["main"] = own["main"] /\ next' = next
<1>1. ASSUME UNCHANGED <<coreVars, dataVars>>
      PROVE  Same
  BY <1>1 DEF coreVars, Links, Shape, PcShape, OwnShape, RequestShape, Threads
<1>2. ASSUME NEW i \in Irps, NEW op \in {"read", "write", "skewed"}, NEW first \in Nat,
             NEW len \in Nat, Issue(i, op, first, len)
      PROVE  Same
  BY <1>2 DEF Issue, IGoto, Links, Shape, PcShape, OwnShape, RequestShape, Threads
<1>3. ASSUME NEW i \in Irps, AddIrp(i)
      PROVE  Same
  BY <1>3 DEF AddIrp, IGoto, Links, Shape, PcShape, OwnShape, RequestShape, Threads
<1>4. ASSUME NEW i \in Irps, Reject(i)
      PROVE  Same
  BY <1>4 DEF Reject, IGoto, Links, Shape, PcShape, OwnShape, RequestShape, Threads
<1>5. ASSUME NEW i \in Irps, RejectSignal(i)
      PROVE  Same
  BY <1>5 DEF RejectSignal, IGoto, Links, Shape, PcShape, OwnShape, RequestShape, Threads
<1>6. ASSUME NEW t \in Threads, Wake(t)
      PROVE  Same
  BY <1>6 DEF Wake, Goto, Links, Shape, PcShape, OwnShape, RequestShape, Threads
<1>7. ASSUME NEW t \in Threads, Drained(t)
      PROVE  Same
  BY <1>7 DEF Drained, Goto, Links, Shape, PcShape, OwnShape, RequestShape, Threads
<1>8. ASSUME NEW t \in Threads, CompleteIrp(t)
      PROVE  Same
  BY <1>8 DEF CompleteIrp, Goto, Links, Shape, PcShape, OwnShape, RequestShape, Threads
<1>9. ASSUME NEW t \in Threads, Decrement(t)
      PROVE  Same
  BY <1>9 DEF Decrement, Goto, AfterDecrement, Links, Shape, PcShape, OwnShape, RequestShape,
     Threads
<1>10. ASSUME NEW t \in Threads, SignalIdle(t)
      PROVE  Same
  BY <1>10 DEF SignalIdle, Goto, AfterDecrement, Links, Shape, PcShape, OwnShape, RequestShape,
     Threads
<1>11. ASSUME NEW t \in Threads, ReleaseItem(t)
      PROVE  Same
  BY <1>11 DEF ReleaseItem, Goto, Links, Shape, PcShape, OwnShape, RequestShape, Threads
<1>12. ASSUME NEW t \in Threads, ReleaseRequest(t)
      PROVE  Same
  BY <1>12 DEF ReleaseRequest, Goto, Links, Shape, PcShape, OwnShape, RequestShape, Threads
<1>13. ASSUME TakeIrp
      PROVE  Same
  BY <1>13 DEF TakeIrp, Goto, Links, Shape, PcShape, OwnShape, RequestShape, Threads
<1>14. ASSUME TestSuspended
      PROVE  Same
  BY <1>14 DEF TestSuspended, Goto, Links, Shape, PcShape, OwnShape, RequestShape, Threads
<1>15. ASSUME AwaitResume
      PROVE  Same
  BY <1>15 DEF AwaitResume, Goto, Links, Shape, PcShape, OwnShape, RequestShape, Threads
<1>16. ASSUME AwaitsPool
      PROVE  Same
  BY <1>16 DEF AwaitsPool, PoolEmpty, Goto, Links, Shape, PcShape, OwnShape, RequestShape,
     Threads
<1>17. ASSUME LooksAgain
      PROVE  Same
  BY <1>17 DEF LooksAgain, AwaitPoolBuffer, Goto, Links, Shape, PcShape, OwnShape, RequestShape,
     Threads
<1>18. ASSUME Refuse
      PROVE  Same
  BY <1>18 DEF Refuse, GetItem, Goto, Links, Shape, PcShape, OwnShape, RequestShape, Threads
<1>19. ASSUME Protect
      PROVE  Same
  BY <1>19 DEF Protect, GetItem, Goto, Links, Shape, PcShape, OwnShape, RequestShape, Threads
<1>20. ASSUME Accept
      PROVE  Same
  BY <1>20 DEF Accept, GetItem, Goto, Links, Shape, PcShape, OwnShape, RequestShape, Threads
<1>21. ASSUME ReadMisaligned
      PROVE  Same
  BY SMTT(60), <1>21 DEF ReadMisaligned, Goto, Links, Shape, PcShape, OwnShape, RequestShape,
     Threads
<1>22. ASSUME DecryptMisaligned
      PROVE  Same
  BY SMTT(60), <1>22 DEF DecryptMisaligned, Goto, Links, Shape, PcShape, OwnShape, RequestShape,
     Threads
<1>23. ASSUME NextFragment
      PROVE  Same
  BY SMTT(60), <1>23 DEF NextFragment, Goto, Links, Shape, PcShape, OwnShape, RequestShape,
     Threads
<1>24. ASSUME FillFragment
      PROVE  Same
  BY SMTT(60), <1>24 DEF FillFragment, Goto, Links, Shape, PcShape, OwnShape, RequestShape,
     Threads
<1>25. ASSUME QueueFragment
      PROVE  Same
  BY <1>25 DEF QueueFragment, Goto, Links, Shape, PcShape, OwnShape, RequestShape, Threads
<1>26. ASSUME TakeRequest
      PROVE  Same
  BY SMTT(60), <1>26 DEF TakeRequest, Goto, Links, Shape, PcShape, OwnShape, RequestShape,
     Threads
<1>27. ASSUME DoPiece
      PROVE  Same
  BY SMTT(60), <1>27 DEF DoPiece, Goto, Links, Shape, PcShape, OwnShape, RequestShape, Threads
<1>28. ASSUME WriteDone
      PROVE  Same
  BY <1>28 DEF WriteDone, Goto, AfterRequest, ReleaseFragmentBuffer, Links, Shape, PcShape,
     OwnShape, RequestShape, Threads
<1>29. ASSUME ReadDone
      PROVE  Same
  BY SMTT(60), <1>29 DEF ReadDone, Goto, ReleaseFragmentBuffer, Links, Shape, PcShape, OwnShape,
     RequestShape, Threads
<1>30. ASSUME PassesOn
      PROVE  Same
  BY <1>30 DEF PassesOn, PostCompletion, Goto, Links, Shape, PcShape, OwnShape, RequestShape,
     Threads
<1>31. ASSUME ReadAhead
      PROVE  Same
  BY SMTT(60), <1>31 DEF ReadAhead, Goto, Links, Shape, PcShape, OwnShape, RequestShape, Threads
<1>32. ASSUME DecryptFragment
      PROVE  Same
  BY ZenonT(60), <1>32 DEF DecryptFragment, Goto, AfterRequest, Links, Shape, PcShape, OwnShape,
     RequestShape, Threads
<1> HIDE DEF Same
<1>33. Same \/ GetRequest
  BY ActionCases, <1>1, <1>2, <1>3, <1>4, <1>5, <1>6, <1>7, <1>8,
     <1>9, <1>10, <1>11, <1>12, <1>13, <1>14, <1>15, <1>16, <1>17, <1>18, <1>19, <1>20, <1>21,
     <1>22, <1>23, <1>24, <1>25, <1>26, <1>27, <1>28, <1>29, <1>30, <1>31, <1>32
<1> QED
  BY <1>33 DEF Same

(* The queues of the I/O and the completion thread.                        *)
LEMMA QueueChanges ==
  ASSUME Links, [QueueStep]_vars
  PROVE  \/ queue'["io"] = queue["io"] /\ queue'["completion"] = queue["completion"]
         \/ QueueFragment \/ TakeRequest \/ PassesOn \/ DecryptFragment
<1>1. ASSUME NEW i \in Irps, AddIrp(i)
      PROVE  queue'["io"] = queue["io"] /\ queue'["completion"] = queue["completion"]
  BY <1>1 DEF AddIrp, Links, Shape, QueueShape, Threads
<1>2. CASE TakeIrp
  BY <1>2 DEF TakeIrp, Links, Shape, QueueShape, Threads
<1> QED
  BY <1>1, <1>2, QueueFrame, StepKnown

(* Which requests may be in line: records.                                 *)
LEMMA LineOfRequests ==
  ASSUME Links
  PROVE  /\ \A t \in {"io", "completion"} : \A n \in Queued(t) : queue[t][n] \in Requests
         /\ \A t \in Threads : req[t] \in Requests
  BY QueueHeads DEF Links, Shape, RequestShape

(* A request gets in line when the main thread passes it on.               *)
LEMMA LineStep ==
  ASSUME Links, [QueueStep]_vars, NEW r, InLine(r)'
  PROVE  InLine(r) \/ (QueueFragment /\ r = req["main"])
<1>1. CASE /\ queue'["io"] = queue["io"] /\ queue'["completion"] = queue["completion"]
           /\ ~TakeRequest
  BY <1>1, HandKept DEF InLine, Queued
<1>2. CASE QueueFragment
  <2>1. pc["main"] = "queue" /\ pc' = [pc EXCEPT !["main"] = pc'["main"]]
        /\ req' = [req EXCEPT !["main"] = NoIoRequest]
    BY <1>2, QueueFragmentMoves
  <2>2. pc'["io"] = pc["io"] /\ req'["io"] = req["io"]
    BY <2>1 DEF Links, Shape, PcShape, RequestShape, Threads
  <2> QED
    BY <1>2, <2>2, QueueFragmentMoves DEF InLine
<1>3. CASE TakeRequest
  <2>1. req'["io"] = queue["io"][1] /\ 1 \in Queued("io")
    BY <1>3, TakeRequestMoves DEF Links, Shape, RequestShape, Threads
  <2> QED
    BY <1>3, <2>1, TakeRequestMoves DEF InLine
<1>4. CASE PassesOn
  <2>1. pc["io"] \in IoHolds /\ pc'["io"] \notin IoHolds
    BY <1>4, PassesOnMoves DEF Links, Shape, PcShape, Threads, IoHolds
  <2> QED
    BY <1>4, <2>1, PassesOnMoves DEF InLine
<1>5. CASE DecryptFragment
  <2>1. ~TakeRequest
    BY <1>5, DecryptFragmentMoves, TakeRequestMoves DEF Links, Shape, PcShape, Threads
  <2>2. pc'["io"] \in IoHolds => pc["io"] \in IoHolds /\ req'["io"] = req["io"]
    BY <2>1, HandKept
  <2> QED
    BY <1>5, <2>2, DecryptFragmentMoves DEF InLine
<1> QED
  BY <1>1, <1>2, <1>3, <1>4, <1>5, QueueChanges

(* The item of a request in line is live.                                  *)
LEMMA LineLive ==
  ASSUME Links, NEW r, InLine(r)
  PROVE  r \in Requests /\ r.item \in Items /\ Live(r.item) /\ item[r.item].irp \in Irps
<1>1. ASSUME \E t \in {"io", "completion"} : \E n \in Queued(t) : r = queue[t][n]
      PROVE  r \in Requests /\ r.item \in Items /\ Live(r.item)
  BY <1>1, LineOfRequests, LiveOnes, Holders
<1>2. ASSUME pc["io"] \in IoHolds, r = req["io"]
      PROVE  r \in Requests /\ r.item \in Items /\ Live(r.item)
  <2>1. own["io"] # 0 /\ req["io"].item = own["io"]
    BY <1>2 DEF IoHolds, Links, Hands
  <2>2. own["io"] \in Items /\ Live(own["io"]) /\ req["io"] \in Requests
    BY <1>2, <2>1, LineOfRequests, LiveOnes, Holders DEF Threads, IoHolds
  <2> QED
    BY <1>2, <2>1, <2>2
<1>3. r \in Requests /\ r.item \in Items /\ Live(r.item)
  BY <1>1, <1>2 DEF InLine
<1> QED
  BY <1>3, UsedItems DEF Live, LiveIn, InUse

(* So are all of them, at any time.                                        *)
LinesLive == \A r \in Requests : InLine(r) => r.item \in Items /\ Live(r.item)

(* That follows from the links.                                            *)
LEMMA LinesAreLive == Links => LinesLive
  BY LineLive DEF LinesLive

(* One that stays in line keeps its IRP.                                   *)
LEMMA LineKept ==
  ASSUME Links, [QueueStep]_vars, NEW r, InLine(r), InLine(r)'
  PROVE  /\ r.item \in Items /\ item[r.item].irp \in Irps
         /\ item'[r.item].irp = item[r.item].irp
         /\ irp'[item[r.item].irp] = irp[item[r.item].irp]
<1>1. Links'
  BY LinksStep, StepKnown
<1>2. LinesLive'
  BY <1>1, LinesAreLive, PTL
<1>3. r \in Requests /\ r.item \in Items /\ Live(r.item) /\ item[r.item].irp \in Irps
  BY LineLive
<1>4. LiveIn(item', pc', own', r.item)
  BY <1>2, <1>3 DEF LinesLive, Live
<1> QED
  BY <1>3, <1>4, LiveKept

(* The main thread moves by its own steps only.                            *)
LEMMA MainMoves ==
  ASSUME Links, [QueueStep]_vars
  PROVE  \/ UNCHANGED <<pc["main"], own["main"], req["main"], next>>
         \/ Wake("main") \/ Drained("main") \/ CompleteIrp("main") \/ Decrement("main")
         \/ SignalIdle("main") \/ ReleaseItem("main") \/ ReleaseRequest("main") \/ TakeIrp
         \/ TestSuspended \/ AwaitResume \/ AwaitsPool \/ LooksAgain \/ Refuse \/ Protect
         \/ Accept \/ ReadMisaligned \/ DecryptMisaligned \/ NextFragment \/ GetRequest
         \/ FillFragment \/ QueueFragment
<1> USE DEF irpVars, queueVars, poolVars, handVars, mainVars, fragmentVars, ioVars, pipeVars,
            countVars, diskVars, outerVars, holdVars, stopVars, envVars, areaVars, keyVars,
            volumeVars
<1> DEFINE Same == UNCHANGED <<pc["main"], own["main"], req["main"], next>>
<1>1. ASSUME UNCHANGED <<coreVars, dataVars>>
      PROVE  Same
  BY <1>1 DEF coreVars, dataVars
<1>2. ASSUME NEW i \in Irps, NEW op \in {"read", "write", "skewed"}, NEW first \in Nat,
             NEW len \in Nat, Issue(i, op, first, len)
      PROVE  Same
  BY <1>2 DEF Issue, IGoto, Links, Shape, PcShape, OwnShape, RequestShape, Threads
<1>3. ASSUME NEW i \in Irps, AddIrp(i)
      PROVE  Same
  BY <1>3 DEF AddIrp, IGoto, Links, Shape, PcShape, OwnShape, RequestShape, Threads
<1>4. ASSUME NEW i \in Irps, Reject(i)
      PROVE  Same
  BY <1>4 DEF Reject, IGoto, Links, Shape, PcShape, OwnShape, RequestShape, Threads
<1>5. ASSUME NEW i \in Irps, RejectSignal(i)
      PROVE  Same
  BY <1>5 DEF RejectSignal, IGoto, Links, Shape, PcShape, OwnShape, RequestShape, Threads
<1>6. ASSUME NEW t \in Threads, Wake(t), t # "main"
      PROVE  Same
  BY <1>6 DEF Wake, Goto, Links, Shape, PcShape, OwnShape, RequestShape, Threads
<1>7. ASSUME NEW t \in Threads, Drained(t), t # "main"
      PROVE  Same
  BY <1>7 DEF Drained, Goto, Links, Shape, PcShape, OwnShape, RequestShape, Threads
<1>8. ASSUME NEW t \in Threads, CompleteIrp(t), t # "main"
      PROVE  Same
  BY <1>8 DEF CompleteIrp, Goto, Links, Shape, PcShape, OwnShape, RequestShape, Threads
<1>9. ASSUME NEW t \in Threads, Decrement(t), t # "main"
      PROVE  Same
  BY <1>9 DEF Decrement, Goto, AfterDecrement, Links, Shape, PcShape, OwnShape, RequestShape,
     Threads
<1>10. ASSUME NEW t \in Threads, SignalIdle(t), t # "main"
      PROVE  Same
  BY <1>10 DEF SignalIdle, Goto, AfterDecrement, Links, Shape, PcShape, OwnShape, RequestShape,
     Threads
<1>11. ASSUME NEW t \in Threads, ReleaseItem(t), t # "main"
      PROVE  Same
  BY <1>11 DEF ReleaseItem, Goto, Links, Shape, PcShape, OwnShape, RequestShape, Threads
<1>12. ASSUME NEW t \in Threads, ReleaseRequest(t), t # "main"
      PROVE  Same
  BY <1>12 DEF ReleaseRequest, Goto, Links, Shape, PcShape, OwnShape, RequestShape, Threads
<1>13. ASSUME TakeRequest
      PROVE  Same
  BY SMTT(60), <1>13 DEF TakeRequest, Goto, Links, Shape, PcShape, OwnShape, RequestShape,
     Threads
<1>14. ASSUME DoPiece
      PROVE  Same
  BY SMTT(60), <1>14 DEF DoPiece, Goto, Links, Shape, PcShape, OwnShape, RequestShape, Threads
<1>15. ASSUME WriteDone
      PROVE  Same
  BY <1>15 DEF WriteDone, Goto, AfterRequest, ReleaseFragmentBuffer, Links, Shape, PcShape,
     OwnShape, RequestShape, Threads
<1>16. ASSUME ReadDone
      PROVE  Same
  BY SMTT(60), <1>16 DEF ReadDone, Goto, ReleaseFragmentBuffer, Links, Shape, PcShape, OwnShape,
     RequestShape, Threads
<1>17. ASSUME PassesOn
      PROVE  Same
  BY <1>17 DEF PassesOn, PostCompletion, Goto, Links, Shape, PcShape, OwnShape, RequestShape,
     Threads
<1>18. ASSUME ReadAhead
      PROVE  Same
  BY SMTT(60), <1>18 DEF ReadAhead, Goto, Links, Shape, PcShape, OwnShape, RequestShape, Threads
<1>19. ASSUME DecryptFragment
      PROVE  Same
  <2>1. todo' = todo
    BY ZenonT(60), <1>19 DEF DecryptFragment
  <2> QED
    BY <1>19, <2>1, DecryptFragmentMoves DEF Links, Shape, PcShape, OwnShape, RequestShape, Threads
<1> HIDE DEF Same
<1>20. Same \/ Wake("main") \/ Drained("main") \/ CompleteIrp("main") \/ Decrement("main") \/
         SignalIdle("main") \/ ReleaseItem("main") \/ ReleaseRequest("main") \/ TakeIrp \/
         TestSuspended \/ AwaitResume \/ AwaitsPool \/ LooksAgain \/ Refuse \/ Protect \/ Accept
         \/ ReadMisaligned \/ DecryptMisaligned \/ NextFragment \/ GetRequest \/ FillFragment \/
         QueueFragment
  BY ZenonT(60), ActionCases, <1>1, <1>2, <1>3, <1>4, <1>5, <1>6, <1>7, <1>8, <1>9, <1>10,
     <1>11, <1>12, <1>13, <1>14, <1>15, <1>16, <1>17, <1>18, <1>19
<1> QED
  BY <1>20 DEF Same

(* So does the I/O thread.                                                 *)
LEMMA IoMoves ==
  ASSUME Links, [QueueStep]_vars
  PROVE  \/ UNCHANGED <<pc["io"], own["io"], req["io"], todo>>
         \/ Wake("io") \/ Drained("io") \/ CompleteIrp("io") \/ Decrement("io")
         \/ SignalIdle("io") \/ ReleaseItem("io") \/ ReleaseRequest("io") \/ TakeRequest
         \/ DoPiece \/ WriteDone \/ ReadDone \/ PassesOn \/ ReadAhead
<1> USE DEF irpVars, queueVars, poolVars, handVars, mainVars, fragmentVars, ioVars, pipeVars,
            countVars, diskVars, outerVars, holdVars, stopVars, envVars, areaVars, keyVars,
            volumeVars
<1> DEFINE Same == UNCHANGED <<pc["io"], own["io"], req["io"], todo>>
<1>1. ASSUME UNCHANGED <<coreVars, dataVars>>
      PROVE  Same
  BY <1>1 DEF coreVars, dataVars
<1>2. ASSUME NEW i \in Irps, NEW op \in {"read", "write", "skewed"}, NEW first \in Nat,
             NEW len \in Nat, Issue(i, op, first, len)
      PROVE  Same
  BY <1>2 DEF Issue, IGoto, Links, Shape, PcShape, OwnShape, RequestShape, Threads
<1>3. ASSUME NEW i \in Irps, AddIrp(i)
      PROVE  Same
  BY <1>3 DEF AddIrp, IGoto, Links, Shape, PcShape, OwnShape, RequestShape, Threads
<1>4. ASSUME NEW i \in Irps, Reject(i)
      PROVE  Same
  BY <1>4 DEF Reject, IGoto, Links, Shape, PcShape, OwnShape, RequestShape, Threads
<1>5. ASSUME NEW i \in Irps, RejectSignal(i)
      PROVE  Same
  BY <1>5 DEF RejectSignal, IGoto, Links, Shape, PcShape, OwnShape, RequestShape, Threads
<1>6. ASSUME NEW t \in Threads, Wake(t), t # "io"
      PROVE  Same
  BY <1>6 DEF Wake, Goto, Links, Shape, PcShape, OwnShape, RequestShape, Threads
<1>7. ASSUME NEW t \in Threads, Drained(t), t # "io"
      PROVE  Same
  BY <1>7 DEF Drained, Goto, Links, Shape, PcShape, OwnShape, RequestShape, Threads
<1>8. ASSUME NEW t \in Threads, CompleteIrp(t), t # "io"
      PROVE  Same
  BY <1>8 DEF CompleteIrp, Goto, Links, Shape, PcShape, OwnShape, RequestShape, Threads
<1>9. ASSUME NEW t \in Threads, Decrement(t), t # "io"
      PROVE  Same
  BY <1>9 DEF Decrement, Goto, AfterDecrement, Links, Shape, PcShape, OwnShape, RequestShape,
     Threads
<1>10. ASSUME NEW t \in Threads, SignalIdle(t), t # "io"
      PROVE  Same
  BY <1>10 DEF SignalIdle, Goto, AfterDecrement, Links, Shape, PcShape, OwnShape, RequestShape,
     Threads
<1>11. ASSUME NEW t \in Threads, ReleaseItem(t), t # "io"
      PROVE  Same
  BY <1>11 DEF ReleaseItem, Goto, Links, Shape, PcShape, OwnShape, RequestShape, Threads
<1>12. ASSUME NEW t \in Threads, ReleaseRequest(t), t # "io"
      PROVE  Same
  BY <1>12 DEF ReleaseRequest, Goto, Links, Shape, PcShape, OwnShape, RequestShape, Threads
<1>13. ASSUME TakeIrp
      PROVE  Same
  BY <1>13 DEF TakeIrp, Goto, Links, Shape, PcShape, OwnShape, RequestShape, Threads
<1>14. ASSUME TestSuspended
      PROVE  Same
  BY <1>14 DEF TestSuspended, Goto, Links, Shape, PcShape, OwnShape, RequestShape, Threads
<1>15. ASSUME AwaitResume
      PROVE  Same
  BY <1>15 DEF AwaitResume, Goto, Links, Shape, PcShape, OwnShape, RequestShape, Threads
<1>16. ASSUME AwaitsPool
      PROVE  Same
  BY <1>16 DEF AwaitsPool, PoolEmpty, Goto, Links, Shape, PcShape, OwnShape, RequestShape,
     Threads
<1>17. ASSUME LooksAgain
      PROVE  Same
  BY <1>17 DEF LooksAgain, AwaitPoolBuffer, Goto, Links, Shape, PcShape, OwnShape, RequestShape,
     Threads
<1>18. ASSUME Refuse
      PROVE  Same
  BY <1>18 DEF Refuse, GetItem, Goto, Links, Shape, PcShape, OwnShape, RequestShape, Threads
<1>19. ASSUME Protect
      PROVE  Same
  BY <1>19 DEF Protect, GetItem, Goto, Links, Shape, PcShape, OwnShape, RequestShape, Threads
<1>20. ASSUME Accept
      PROVE  Same
  BY <1>20 DEF Accept, GetItem, Goto, Links, Shape, PcShape, OwnShape, RequestShape, Threads
<1>21. ASSUME ReadMisaligned
      PROVE  Same
  BY SMTT(60), <1>21 DEF ReadMisaligned, Goto, Links, Shape, PcShape, OwnShape, RequestShape,
     Threads
<1>22. ASSUME DecryptMisaligned
      PROVE  Same
  BY SMTT(60), <1>22 DEF DecryptMisaligned, Goto, Links, Shape, PcShape, OwnShape, RequestShape,
     Threads
<1>23. ASSUME NextFragment
      PROVE  Same
  BY <1>23 DEF NextFragment, Goto, Links, Shape, PcShape, OwnShape, RequestShape, Threads
<1>24. ASSUME GetRequest
      PROVE  Same
  BY <1>24 DEF GetRequest, Goto, Links, Shape, PcShape, OwnShape, RequestShape, Threads
<1>25. ASSUME FillFragment
      PROVE  Same
  BY SMTT(60), <1>25 DEF FillFragment, Goto, Links, Shape, PcShape, OwnShape, RequestShape,
     Threads
<1>26. ASSUME QueueFragment
      PROVE  Same
  BY <1>26 DEF QueueFragment, Goto, Links, Shape, PcShape, OwnShape, RequestShape, Threads
<1>27. ASSUME DecryptFragment
      PROVE  Same
  <2>1. todo' = todo
    BY ZenonT(60), <1>27 DEF DecryptFragment
  <2> QED
    BY <1>27, <2>1, DecryptFragmentMoves DEF Links, Shape, PcShape, OwnShape, RequestShape, Threads
<1> HIDE DEF Same
<1>28. Same \/ Wake("io") \/ Drained("io") \/ CompleteIrp("io") \/ Decrement("io") \/
         SignalIdle("io") \/ ReleaseItem("io") \/ ReleaseRequest("io") \/ TakeRequest \/ DoPiece
         \/ WriteDone \/ ReadDone \/ PassesOn \/ ReadAhead
  BY ZenonT(60), ActionCases, <1>1, <1>2, <1>3, <1>4, <1>5, <1>6, <1>7, <1>8, <1>9, <1>10,
     <1>11, <1>12, <1>13, <1>14, <1>15, <1>16, <1>17, <1>18, <1>19, <1>20, <1>21, <1>22, <1>23,
     <1>24, <1>25, <1>26, <1>27
<1> QED
  BY <1>28 DEF Same

(* An item comes to life when the main thread takes it from the pool, and  *)
(* its life ends when its IRP is completed.                                *)
LEMMA LivesChange ==
  ASSUME Links, [QueueStep]_vars, NEW k \in Items
  PROVE  \/ LiveIn(item', pc', own', k) <=> Live(k)
         \/ \E t \in Threads : CompleteIrp(t) /\ own[t] = k
         \/ (Refuse \/ Protect \/ Accept) /\ own'["main"] = k
<1> USE DEF irpVars, queueVars, poolVars, handVars, mainVars, fragmentVars, ioVars, pipeVars,
            countVars, diskVars, outerVars, holdVars, stopVars, envVars, areaVars, keyVars,
            volumeVars
<1> DEFINE Same == LiveIn(item', pc', own', k) <=> Live(k)
           Completed == \E t \in Threads : CompleteIrp(t) /\ own[t] = k
           Begun == (Refuse \/ Protect \/ Accept) /\ own'["main"] = k
<1>1. ASSUME UNCHANGED <<coreVars, dataVars>>
      PROVE  Same
  BY <1>1 DEF coreVars, Live
<1>2. ASSUME Refuse \/ Protect \/ Accept, own'["main"] # k
      PROVE  Same
  <2>1. PICK l \in Items, status \in {"ok", "failed"} :
          /\ item' = [item EXCEPT ![l] = [irp |-> taken, status |-> status]]
          /\ own["main"] = 0 /\ own' = [own EXCEPT !["main"] = l]
          /\ pc["main"] = "item" /\ pc' = [pc EXCEPT !["main"] = pc'["main"]]
          /\ pc'["main"] \in {"complete", "misaligned", "fragment"}
    BY <1>2, GetItemTakes
  <2>2. l # k /\ k # 0
    BY <1>2, <2>1, QueueAssumption DEF Links, Shape, OwnShape, Threads, Items
  <2> QED
    BY <2>1, <2>2 DEF Live, LiveIn, Ending, Links, Shape, PcShape, OwnShape, ItemShape, Threads
<1>0. k # 0
  BY QueueAssumption DEF Items
<1>3. ASSUME NEW i \in Irps, NEW op \in {"read", "write", "skewed"}, NEW first \in Nat,
             NEW len \in Nat, Issue(i, op, first, len)
      PROVE  Same
  BY SMTT(60), <1>0, <1>3 DEF Issue, IGoto, Live, LiveIn, Ending, Links, Shape, PcShape,
     OwnShape, ItemShape, ItemRecords, Hands, Threads, Resting
<1>4. ASSUME NEW i \in Irps, AddIrp(i)
      PROVE  Same
  BY SMTT(60), <1>0, <1>4 DEF AddIrp, IGoto, Live, LiveIn, Ending, Links, Shape, PcShape,
     OwnShape, ItemShape, ItemRecords, Hands, Threads, Resting
<1>5. ASSUME NEW i \in Irps, Reject(i)
      PROVE  Same
  BY SMTT(60), <1>0, <1>5 DEF Reject, IGoto, Live, LiveIn, Ending, Links, Shape, PcShape,
     OwnShape, ItemShape, ItemRecords, Hands, Threads, Resting
<1>6. ASSUME NEW i \in Irps, RejectSignal(i)
      PROVE  Same
  BY SMTT(60), <1>0, <1>6 DEF RejectSignal, IGoto, Live, LiveIn, Ending, Links, Shape, PcShape,
     OwnShape, ItemShape, ItemRecords, Hands, Threads, Resting
<1>7. ASSUME NEW t \in Threads, Wake(t)
      PROVE  Same
  BY SMTT(60), <1>0, <1>7 DEF Wake, Goto, Live, LiveIn, Ending, Links, Shape, PcShape, OwnShape,
     ItemShape, ItemRecords, Hands, Threads, Resting
<1>8. ASSUME NEW t \in Threads, Drained(t)
      PROVE  Same
  BY SMTT(60), <1>0, <1>8 DEF Drained, Goto, Live, LiveIn, Ending, Links, Shape, PcShape,
     OwnShape, ItemShape, ItemRecords, Hands, Threads, Resting
<1>9. ASSUME NEW t \in Threads, CompleteIrp(t), own[t] # k
      PROVE  Same
  BY SMTT(60), <1>0, <1>9 DEF CompleteIrp, Goto, Live, LiveIn, Ending, Links, Shape, PcShape,
     OwnShape, ItemShape, ItemRecords, Hands, Threads, Resting
<1>10. ASSUME NEW t \in Threads, Decrement(t)
      PROVE  Same
  BY SMTT(60), <1>0, <1>10 DEF Decrement, Goto, AfterDecrement, Live, LiveIn, Ending, Links,
     Shape, PcShape, OwnShape, ItemShape, ItemRecords, Hands, Threads, Resting
<1>11. ASSUME NEW t \in Threads, SignalIdle(t)
      PROVE  Same
  BY SMTT(60), <1>0, <1>11 DEF SignalIdle, Goto, AfterDecrement, Live, LiveIn, Ending, Links,
     Shape, PcShape, OwnShape, ItemShape, ItemRecords, Hands, Threads, Resting
<1>12. ASSUME NEW t \in Threads, ReleaseItem(t)
      PROVE  Same
  BY SMTT(60), <1>0, <1>12 DEF ReleaseItem, Goto, Live, LiveIn, Ending, Links, Shape, PcShape,
     OwnShape, ItemShape, ItemRecords, Hands, Threads, Resting, FreeItem
<1>13. ASSUME NEW t \in Threads, ReleaseRequest(t)
      PROVE  Same
  BY SMTT(60), <1>0, <1>13 DEF ReleaseRequest, Goto, Live, LiveIn, Ending, Links, Shape,
     PcShape, OwnShape, ItemShape, ItemRecords, Hands, Threads, Resting
<1>14. ASSUME TakeIrp
      PROVE  Same
  BY SMTT(60), <1>0, <1>14 DEF TakeIrp, Goto, Live, LiveIn, Ending, Links, Shape, PcShape,
     OwnShape, ItemShape, ItemRecords, Hands, Threads, Resting
<1>15. ASSUME TestSuspended
      PROVE  Same
  BY SMTT(60), <1>0, <1>15 DEF TestSuspended, Goto, Live, LiveIn, Ending, Links, Shape, PcShape,
     OwnShape, ItemShape, ItemRecords, Hands, Threads, Resting
<1>16. ASSUME AwaitResume
      PROVE  Same
  BY SMTT(60), <1>0, <1>16 DEF AwaitResume, Goto, Live, LiveIn, Ending, Links, Shape, PcShape,
     OwnShape, ItemShape, ItemRecords, Hands, Threads, Resting
<1>17. ASSUME AwaitsPool
      PROVE  Same
  BY SMTT(60), <1>0, <1>17 DEF AwaitsPool, PoolEmpty, Goto, Live, LiveIn, Ending, Links, Shape,
     PcShape, OwnShape, ItemShape, ItemRecords, Hands, Threads, Resting
<1>18. ASSUME LooksAgain
      PROVE  Same
  BY SMTT(60), <1>0, <1>18 DEF LooksAgain, AwaitPoolBuffer, Goto, Live, LiveIn, Ending, Links,
     Shape, PcShape, OwnShape, ItemShape, ItemRecords, Hands, Threads, Resting
<1>19. ASSUME ReadMisaligned
      PROVE  Same
  BY SMTT(60), <1>0, <1>19, OnlyStatus DEF ReadMisaligned, Goto, Live, LiveIn, Ending, Links,
     Shape, PcShape, OwnShape, ItemShape, ItemRecords, Hands, Threads, Resting, InUse
<1>20. ASSUME DecryptMisaligned
      PROVE  Same
  BY SMTT(60), <1>0, <1>20 DEF DecryptMisaligned, Goto, Live, LiveIn, Ending, Links, Shape,
     PcShape, OwnShape, ItemShape, ItemRecords, Hands, Threads, Resting
<1>21. ASSUME NextFragment
      PROVE  Same
  BY SMTT(60), <1>0, <1>21 DEF NextFragment, Goto, Live, LiveIn, Ending, Links, Shape, PcShape,
     OwnShape, ItemShape, ItemRecords, Hands, Threads, Resting
<1>22. ASSUME GetRequest
      PROVE  Same
  BY SMTT(60), <1>0, <1>22 DEF GetRequest, Goto, Live, LiveIn, Ending, Links, Shape, PcShape,
     OwnShape, ItemShape, ItemRecords, Hands, Threads, Resting
<1>23. ASSUME FillFragment
      PROVE  Same
  BY SMTT(60), <1>0, <1>23 DEF FillFragment, Goto, Live, LiveIn, Ending, Links, Shape, PcShape,
     OwnShape, ItemShape, ItemRecords, Hands, Threads, Resting
<1>24. ASSUME QueueFragment
      PROVE  Same
  BY SMTT(60), <1>0, <1>24, QueueFragmentMoves DEF Live, LiveIn, Ending, Links, Shape, PcShape,
     OwnShape, ItemShape, ItemRecords, Hands, Threads, Resting
<1>25. ASSUME TakeRequest
      PROVE  Same
  BY SMTT(60), <1>0, <1>25, TakeRequestMoves, OnlyStatus DEF Live, LiveIn, Ending, Links, Shape,
     PcShape, OwnShape, ItemShape, ItemRecords, Hands, Threads, Resting, InUse
<1>26. ASSUME DoPiece
      PROVE  Same
  BY SMTT(60), <1>0, <1>26, OnlyStatus DEF DoPiece, Goto, Live, LiveIn, Ending, Links, Shape,
     PcShape, OwnShape, ItemShape, ItemRecords, Hands, Threads, Resting, InUse
<1>27. ASSUME WriteDone
      PROVE  Same
  BY SMTT(60), <1>0, <1>27 DEF WriteDone, Goto, AfterRequest, ReleaseFragmentBuffer, Live,
     LiveIn, Ending, Links, Shape, PcShape, OwnShape, ItemShape, ItemRecords, Hands, Threads,
     Resting
<1>28. ASSUME ReadDone
      PROVE  Same
  BY SMTT(60), <1>0, <1>28 DEF ReadDone, Goto, ReleaseFragmentBuffer, Live, LiveIn, Ending,
     Links, Shape, PcShape, OwnShape, ItemShape, ItemRecords, Hands, Threads, Resting
<1>29. ASSUME PassesOn
      PROVE  Same
  BY SMTT(60), <1>0, <1>29, PassesOnMoves DEF Live, LiveIn, Ending, Links, Shape, PcShape,
     OwnShape, ItemShape, ItemRecords, Hands, Threads, Resting
<1>30. ASSUME ReadAhead
      PROVE  Same
  BY SMTT(60), <1>0, <1>30 DEF ReadAhead, Goto, Live, LiveIn, Ending, Links, Shape, PcShape,
     OwnShape, ItemShape, ItemRecords, Hands, Threads, Resting
<1>31. ASSUME DecryptFragment
      PROVE  Same
  BY SMTT(60), <1>0, <1>31, DecryptFragmentMoves DEF Live, LiveIn, Ending, Links, Shape,
     PcShape, OwnShape, ItemShape, ItemRecords, Hands, Threads, Resting, AfterRequest
<1> HIDE DEF Same, Completed, Begun
<1>32. Same \/ Completed \/ Begun
  BY ZenonT(60), ActionCases, <1>1, <1>2, <1>3, <1>4, <1>5, <1>6, <1>7, <1>8, <1>9, <1>10,
     <1>11, <1>12, <1>13, <1>14, <1>15, <1>16, <1>17, <1>18, <1>19, <1>20, <1>21, <1>22, <1>23,
     <1>24, <1>25, <1>26, <1>27, <1>28, <1>29, <1>30, <1>31 DEF Completed, Begun
<1> QED
  BY <1>32 DEF Same, Completed, Begun

(* The main thread keeps cutting the same IRP.                             *)
LEMMA MainKept ==
  ASSUME Links, [QueueStep]_vars, pc["main"] \in Cutting, pc'["main"] \in Cutting,
         own'["main"] = own["main"]
  PROVE  LET k == own["main"] IN
         /\ k \in Items /\ item[k].irp \in Irps /\ irp[item[k].irp] \in IrpRecords
         /\ item'[k].irp = item[k].irp /\ irp'[item[k].irp] = irp[item[k].irp]
<1>1. own["main"] \in Items /\ Live(own["main"])
  BY LiveOnes, Holders DEF Links, Hands, MainOwns, Threads
<1>2. Links'
  BY LinksStep, StepKnown
<1>3. MainLives'
  BY <1>2, MainLive, PTL
<1>4. LiveIn(item', pc', own', own["main"])
  BY <1>3 DEF MainLives, Live
<1> QED
  BY <1>1, <1>4, LiveKept, UsedItems DEF Live, LiveIn, InUse

(* The next fragment begins inside the IRP or at its end ...               *)
WithinIrp == pc["main"] \in Cutting =>
               irp[MainIrp].first <= next /\ next <= irp[MainIrp].first + irp[MainIrp].len

(* ... and the main thread has that one in its hands.                      *)
AtNext ==
  pc["main"] \in {"buffer", "queue"} =>
    LET r == req["main"]
        left == irp[MainIrp].first + irp[MainIrp].len - next IN
    /\ r.item = own["main"] /\ r.first = next
    /\ r.len = IF left <= FragmentSize THEN left ELSE FragmentSize
    /\ r.last <=> left <= FragmentSize
    /\ r.enc = FragmentSectors(r) \cap Area

(* Both stay so.                                                           *)
LEMMA WithinStep ==
  ASSUME Links, WithinIrp, AtNext, [QueueStep]_vars
  PROVE  WithinIrp'
<1> SUFFICES ASSUME pc'["main"] \in Cutting
             PROVE  LET i == item'[own'["main"]].irp IN
                    irp'[i].first <= next' /\ next' <= irp'[i].first + irp'[i].len
  BY DEF WithinIrp, MainIrp
<1>1. CASE Accept
  <2>1. PICK k \in Items, status \in {"ok", "failed"} :
          /\ item' = [item EXCEPT ![k] = [irp |-> taken, status |-> status]]
          /\ own' = [own EXCEPT !["main"] = k]
          /\ taken \in Irps /\ UNCHANGED irp
    BY <1>1, GetItemTakes
  <2>2. next' = irp[taken].first
    BY <1>1 DEF Accept
  <2>3. own'["main"] = k /\ item'[k].irp = taken
    BY <2>1 DEF Links, Shape, OwnShape, ItemShape, Threads
  <2>4. irp[taken].first \in Nat /\ irp[taken].len \in Nat
    BY SMTT(60), <2>1 DEF Links, Shape, IrpShape, IrpRecords
  <2> QED
    BY <2>1, <2>2, <2>3, <2>4
<1>2. CASE QueueFragment
  <2>1. /\ own["main"] \in Items /\ UNCHANGED <<irp, item>> /\ own'["main"] = own["main"]
        /\ pc["main"] = "queue" /\ ~req["main"].last
    BY <1>2, QueueFragmentMoves DEF Links, Shape, PcShape, OwnShape, Threads, Cutting
  <2>2. next' = next + FragmentSize
    BY <1>2, <2>1 DEF QueueFragment
  <2>3. irp[MainIrp].first \in Nat /\ irp[MainIrp].len \in Nat /\ next \in Int
    BY <2>1, Holders, UsedItems DEF Links, Shape, MainShape, IrpRecords, Hands, MainOwns, Threads,
       MainIrp
  <2>4. irp[MainIrp].first <= next /\ irp[MainIrp].first + irp[MainIrp].len - next > FragmentSize
    BY <2>1, <2>3, QueueAssumption DEF WithinIrp, AtNext, Cutting
  <2> QED
    BY <2>1, <2>2, <2>3, <2>4, QueueAssumption DEF MainIrp
<1>3. CASE pc["main"] \in Cutting /\ own'["main"] = own["main"] /\ next' = next
  BY <1>3, MainKept DEF WithinIrp, MainIrp
<1> QED
  BY <1>1, <1>2, <1>3, MainCut

(* The request that is cut is this one.                                    *)
LEMMA AtNextStep ==
  ASSUME Links, AtNext, [QueueStep]_vars
  PROVE  AtNext'
<1> SUFFICES ASSUME pc'["main"] \in {"buffer", "queue"}
             PROVE  LET r == req'["main"]
                        i == item'[own'["main"]].irp
                        left == irp'[i].first + irp'[i].len - next' IN
                    /\ r.item = own'["main"] /\ r.first = next'
                    /\ r.len = IF left <= FragmentSize THEN left ELSE FragmentSize
                    /\ r.last <=> left <= FragmentSize
                    /\ r.enc = FragmentSectors(r) \cap Area
  BY FixedStep DEF AtNext, MainIrp, Area, FragmentSectors
<1>1. CASE GetRequest
  <2>1. UNCHANGED <<own, irp, item, next>>
    BY <1>1 DEF GetRequest, irpVars, pipeVars, mainVars
  <2> DEFINE left == irp[MainIrp].first + irp[MainIrp].len - next
             len == IF left <= FragmentSize THEN left ELSE FragmentSize
  <2>2. req'["main"] =
          [item |-> own["main"], first |-> next, len |-> len, last |-> left <= FragmentSize,
           enc |-> EncryptedPart(Span(next, len)), buf |-> active]
    BY SMTT(60), <1>1 DEF GetRequest, Links, Shape, RequestShape, Threads
  <2> HIDE DEF left, len
  <2>3. /\ req'["main"].item = own["main"] /\ req'["main"].first = next
        /\ req'["main"].len = len
        /\ req'["main"].enc = Span(next, req'["main"].len) \cap Area
    BY <2>2 DEF EncryptedPart
  <2>4. req'["main"].last = (left <= FragmentSize)
    BY <2>2
  <2> USE DEF left, len
  <2> QED
    BY <2>1, <2>3, <2>4 DEF MainIrp, FragmentSectors
<1>2. CASE /\ pc["main"] \in {"buffer", "queue"} /\ req'["main"] = req["main"]
           /\ own'["main"] = own["main"] /\ next' = next
  BY <1>2, MainKept DEF AtNext, MainIrp, Cutting
<1> QED
  BY <1>1, <1>2, MainRequestKept

(* What is about to be passed on is a part of the IRP.                     *)
LEMMA NextFits ==
  ASSUME Links, WithinIrp, AtNext, pc["main"] = "queue"
  PROVE  LET r == req["main"] IN
         /\ r \in Requests /\ Fits(r) /\ r.item = own["main"]
         /\ FragmentSectors(r) = next..next + r.len - 1
<1> DEFINE r == req["main"]
           i == MainIrp
<1>1. r \in Requests /\ r.item = own["main"] /\ r.first = next
      /\ r.enc = FragmentSectors(r) \cap Area
  BY DEF Links, Shape, RequestShape, Threads, AtNext
<1>2. irp[i].first \in Nat /\ irp[i].len \in Nat /\ next \in Int /\ irp[i].first <= next
  BY Holders, UsedItems DEF Links, Shape, MainShape, IrpRecords, Hands, MainOwns, Threads,
     MainIrp, Cutting, WithinIrp
<1>3. r.len \in Int /\ next + r.len <= irp[i].first + irp[i].len
  BY <1>1, <1>2, RequestFields, QueueAssumption DEF AtNext
<1>4. FragmentSectors(r) = next..next + r.len - 1
  BY <1>1 DEF FragmentSectors, Span
<1>5. FragmentSectors(r) \subseteq IrpSectors(i)
  <2> HIDE DEF i, r
  <2> QED
    BY <1>2, <1>3, <1>4 DEF IrpSectors, Span
<1> QED
  BY <1>1, <1>4, <1>5 DEF Fits, MainIrp

(* All that is in line fits into its IRP.                                  *)
LEMMA FittingStep ==
  ASSUME Links, WithinIrp, AtNext, Fitting, [QueueStep]_vars
  PROVE  Fitting'
<1>1. Area' = Area
  BY FixedStep DEF Area
<1> SUFFICES ASSUME NEW r \in Requests, InLine(r)'
             PROVE  /\ r.enc = FragmentSectors(r) \cap Area
                    /\ FragmentSectors(r) \subseteq
                         Span(irp'[item'[r.item].irp].first, irp'[item'[r.item].irp].len)
  BY <1>1 DEF Fitting, Fits, IrpSectors, FragmentSectors
<1>2. CASE InLine(r)
  BY <1>2, LineKept DEF Fitting, Fits, IrpSectors
<1>3. CASE QueueFragment /\ r = req["main"]
  <2>1. UNCHANGED <<irp, item>> /\ pc["main"] = "queue"
    BY <1>3, QueueFragmentMoves
  <2> QED
    BY <1>3, <2>1, NextFits DEF Fits, IrpSectors
<1> QED
  BY <1>2, <1>3, LineStep

(* The main thread stays past what is in line.                             *)
LEMMA PassedStep ==
  ASSUME Links, WithinIrp, AtNext, Passed, [QueueStep]_vars
  PROVE  Passed'
<1> SUFFICES ASSUME NEW r \in Requests, InLine(r)', pc'["main"] \in Cutting,
                    r.item = own'["main"]
             PROVE  r.first + r.len <= next'
  BY DEF Passed, Behind
<1>0. r.first \in Int /\ r.len \in Int /\ next \in Int
  BY RequestFields DEF Links, Shape, MainShape
<1>1. CASE Accept
  <2>1. PICK k \in Items : ~InUse(k) /\ own' = [own EXCEPT !["main"] = k]
    BY <1>1, GetItemTakes
  <2>2. r.item = k /\ ~QueueFragment
    BY <1>1, <2>1 DEF Links, Shape, OwnShape, Threads, Accept, GetItem, Goto, QueueFragment
  <2>3. InLine(r)
    BY <2>2, LineStep
  <2> QED
    BY <2>1, <2>2, <2>3, LineLive DEF Live, LiveIn, InUse
<1>2. CASE QueueFragment
  <2>1. /\ own["main"] \in Items /\ own'["main"] = own["main"]
        /\ pc["main"] = "queue" /\ ~req["main"].last
    BY <1>2, QueueFragmentMoves DEF Links, Shape, PcShape, OwnShape, Threads, Cutting
  <2>2. next' = next + FragmentSize
    BY <1>2, <2>1 DEF QueueFragment
  <2>3. CASE InLine(r)
    BY <1>0, <2>1, <2>2, <2>3, QueueAssumption DEF Passed, Behind, Cutting
  <2>4. CASE r = req["main"]
    BY <1>0, <2>1, <2>2, <2>4 DEF AtNext
  <2> QED
    BY <2>3, <2>4, LineStep
<1>3. CASE pc["main"] \in Cutting /\ own'["main"] = own["main"] /\ next' = next
  <2>1. CASE InLine(r)
    BY <1>3, <2>1 DEF Passed, Behind
  <2> QED
    BY <1>2, <2>1, LineStep
<1> QED
  BY <1>1, <1>2, <1>3, MainCut

(* The next fragment has nothing in common with them.                      *)
LEMMA NextSeparate ==
  ASSUME Links, WithinIrp, AtNext, Passed, pc["main"] = "queue", NEW r, InLine(r)
  PROVE  Separate(r, req["main"]) /\ Separate(req["main"], r)
<1>1. r \in Requests /\ r.first \in Int /\ r.len \in Int /\ next \in Int
  BY LineLive, RequestFields DEF Links, Shape, MainShape
<1>2. /\ req["main"].item = own["main"]
      /\ FragmentSectors(req["main"]) = next..next + req["main"].len - 1
  BY NextFits
<1>3. req["main"].len \in Int
  BY NextFits, RequestFields
<1>4. r.item = own["main"] => r.first + r.len <= next
  BY <1>1 DEF Passed, Behind, Cutting
<1>5. FragmentSectors(r) = r.first..r.first + r.len - 1
  BY DEF FragmentSectors, Span
<1>6. r.item = own["main"] => FragmentSectors(r) \cap FragmentSectors(req["main"]) = {}
  BY <1>1, <1>2, <1>3, <1>4, <1>5
<1> QED
  BY <1>2, <1>6 DEF Separate

(* No two in line have.                                                    *)
LEMMA LinedStep ==
  ASSUME Links, WithinIrp, AtNext, Passed, Lined, [QueueStep]_vars
  PROVE  Lined'
<1> DEFINE InIo == \A m, n \in Queued("io")' :
                     m # n => Separate(queue'["io"][m], queue'["io"][n])
           InCompletion == \A m, n \in Queued("completion")' :
                             m # n => Separate(queue'["completion"][m], queue'["completion"][n])
           Both == \A m \in Queued("io")', n \in Queued("completion")' :
                     Separate(queue'["io"][m], queue'["completion"][n])
           Hand == pc'["io"] \in IoHolds =>
                     /\ \A n \in Queued("io")' : Separate(req'["io"], queue'["io"][n])
                     /\ \A n \in Queued("completion")' :
                          Separate(req'["io"], queue'["completion"][n])
<1> SUFFICES InIo /\ InCompletion /\ Both /\ Hand
  BY DEF Lined
<1>0. /\ \A m, n \in Queued("io") : m # n => Separate(queue["io"][m], queue["io"][n])
      /\ \A m, n \in Queued("completion") :
           m # n => Separate(queue["completion"][m], queue["completion"][n])
      /\ \A m \in Queued("io"), n \in Queued("completion") :
           Separate(queue["io"][m], queue["completion"][n])
      /\ pc["io"] \in IoHolds =>
           /\ \A n \in Queued("io") : Separate(req["io"], queue["io"][n])
           /\ \A n \in Queued("completion") : Separate(req["io"], queue["completion"][n])
  BY DEF Lined
<1>1. CASE /\ queue'["io"] = queue["io"] /\ queue'["completion"] = queue["completion"]
           /\ ~TakeRequest
  <2>1. pc'["io"] \in IoHolds => pc["io"] \in IoHolds /\ req'["io"] = req["io"]
    BY <1>1, HandKept
  <2> QED
    BY <1>0, <1>1, <2>1 DEF Queued
<1>2. CASE QueueFragment
  <2> DEFINE r == req["main"]
             last == Len(queue["io"]) + 1
  <2>1. /\ pc["main"] = "queue" /\ pc'["io"] = pc["io"] /\ req'["io"] = req["io"]
        /\ Queued("completion")' = Queued("completion")
        /\ queue'["completion"] = queue["completion"]
    BY <1>2, QueueFragmentMoves DEF Links, Shape, PcShape, RequestShape, Threads
  <2>2. \A n \in Queued("io")' : \/ n \in Queued("io") /\ queue'["io"][n] = queue["io"][n]
                                 \/ n = last /\ queue'["io"][n] = r
    BY <1>2, QueueFragmentMoves
  <2>3. /\ \A t \in {"io", "completion"} : \A n \in Queued(t) :
             Separate(queue[t][n], r) /\ Separate(r, queue[t][n])
        /\ pc["io"] \in IoHolds => Separate(req["io"], r)
    BY <2>1, NextSeparate DEF InLine
  <2> HIDE DEF r, last
  <2>4. \A m, n \in Queued("io")' : m # n => Separate(queue'["io"][m], queue'["io"][n])
    BY <1>0, <2>2, <2>3
  <2>5. \A m \in Queued("io")', n \in Queued("completion") :
          Separate(queue'["io"][m], queue["completion"][n])
    BY <1>0, <2>2, <2>3
  <2>6. pc["io"] \in IoHolds => \A n \in Queued("io")' : Separate(req["io"], queue'["io"][n])
    BY <1>0, <2>2, <2>3
  <2> QED
    BY <1>0, <2>1, <2>4, <2>5, <2>6
<1>3. CASE TakeRequest
  <2>1. /\ \A n \in Queued("io")' : queue'["io"][n] = queue["io"][n + 1] /\ n + 1 \in Queued("io")
             /\ n + 1 # 1
        /\ Queued("completion")' = Queued("completion")
        /\ queue'["completion"] = queue["completion"]
        /\ req'["io"] = queue["io"][1] /\ 1 \in Queued("io")
    BY <1>3, TakeRequestMoves DEF Links, Shape, RequestShape, Threads, Queued
  <2>2. \A m, n \in Queued("io")' : m # n => m + 1 # n + 1
    BY DEF Queued
  <2>3. \A m, n \in Queued("io")' : m # n => Separate(queue'["io"][m], queue'["io"][n])
    BY <1>0, <2>1, <2>2
  <2>4. \A m \in Queued("io")', n \in Queued("completion") :
          Separate(queue'["io"][m], queue["completion"][n])
    BY <1>0, <2>1
  <2>5. /\ \A n \in Queued("io")' : Separate(req'["io"], queue'["io"][n])
        /\ \A n \in Queued("completion") : Separate(req'["io"], queue["completion"][n])
    BY <1>0, <2>1
  <2> QED
    BY <1>0, <2>1, <2>3, <2>4, <2>5
<1>4. CASE PassesOn
  <2> DEFINE last == Len(queue["completion"]) + 1
             r == req["io"]
  <2>1. /\ pc["io"] \in IoHolds /\ pc'["io"] \notin IoHolds
        /\ queue'["io"] = queue["io"] /\ Queued("io")' = Queued("io")
    BY <1>4, PassesOnMoves DEF Links, Shape, PcShape, Threads, IoHolds
  <2>2. \A n \in Queued("completion")' :
          \/ n \in Queued("completion") /\ queue'["completion"][n] = queue["completion"][n]
          \/ n = last /\ queue'["completion"][n] = r
    BY <1>4, PassesOnMoves
  <2>3. \A t \in {"io", "completion"} : \A n \in Queued(t) :
          Separate(queue[t][n], r) /\ Separate(r, queue[t][n])
    BY <1>0, <2>1 DEF Separate
  <2> HIDE DEF r, last
  <2>4. \A m, n \in Queued("completion")' :
          m # n => Separate(queue'["completion"][m], queue'["completion"][n])
    BY <1>0, <2>2, <2>3
  <2>5. \A m \in Queued("io"), n \in Queued("completion")' :
          Separate(queue["io"][m], queue'["completion"][n])
    BY <1>0, <2>2, <2>3
  <2> QED
    BY <1>0, <2>1, <2>4, <2>5
<1>5. CASE DecryptFragment
  <2>1. /\ \A n \in Queued("completion")' :
             queue'["completion"][n] = queue["completion"][n + 1] /\ n + 1 \in Queued("completion")
        /\ Queued("io")' = Queued("io") /\ queue'["io"] = queue["io"]
    BY <1>5, DecryptFragmentMoves
  <2>2. ~TakeRequest
    BY <1>5, DecryptFragmentMoves, TakeRequestMoves DEF Links, Shape, PcShape, Threads
  <2>3. pc'["io"] \in IoHolds => pc["io"] \in IoHolds /\ req'["io"] = req["io"]
    BY <2>2, HandKept
  <2>4. \A m, n \in Queued("completion")' :
          m # n => Separate(queue'["completion"][m], queue'["completion"][n])
    <3>1. \A m, n \in Queued("completion")' : m # n => m + 1 # n + 1
      BY DEF Queued
    <3> QED
      BY <1>0, <2>1, <3>1
  <2>5. \A m \in Queued("io"), n \in Queued("completion")' :
          Separate(queue["io"][m], queue'["completion"][n])
    BY <1>0, <2>1
  <2>6. pc["io"] \in IoHolds =>
          \A n \in Queued("completion")' : Separate(req["io"], queue'["completion"][n])
    BY <1>0, <2>1
  <2> QED
    BY <1>0, <2>1, <2>3, <2>4, <2>5, <2>6
<1> QED
  BY <1>1, <1>2, <1>3, <1>4, <1>5, QueueChanges

(* An item whose IRP is being served, and nothing has gone wrong so far.   *)
Going(k) == item[k].status = "ok" /\ Live(k)

(* Nobody but the I/O thread lets a failed item succeed, and it finds none *)
(* at the device: so an item goes on as long as it goes, and only an IRP   *)
(* that is accepted gets one that goes.                                    *)
LEMMA GoesOn ==
  ASSUME Links, NoIoAfterFailure, [QueueStep]_vars, NEW k \in Items,
         item'[k].status = "ok", LiveIn(item', pc', own', k)
  PROVE  \/ /\ Going(k) /\ item'[k].irp = item[k].irp /\ item[k].irp \in Irps
            /\ irp'[item[k].irp] = irp[item[k].irp]
         \/ Accept /\ own'["main"] = k /\ item'[k].irp = taken
<1> USE DEF poolVars, irpVars
<1>1. CASE Live(k)
  <2>1. item[k].status = "ok"
    <3>1. ASSUME NEW t \in Threads, ReleaseItem(t)
          PROVE  item[k].status = "ok"
      BY <3>1 DEF ReleaseItem, FreeItem, Links, Shape, ItemShape, ItemRecords
    <3>2. CASE Refuse \/ Protect \/ Accept
      <4>1. PICK l \in Items, status \in {"ok", "failed"} :
              ~InUse(l) /\ item' = [item EXCEPT ![l] = [irp |-> taken, status |-> status]]
        BY <3>2, GetItemTakes
      <4>2. l # k
        BY <1>1, <4>1 DEF Live, LiveIn, InUse
      <4> QED
        BY <4>1, <4>2 DEF Links, Shape, ItemShape
    <3>3. CASE ReadMisaligned
      BY <3>3 DEF ReadMisaligned, Links, Shape, ItemShape, ItemRecords
    <3>4. CASE TakeRequest
      BY <3>4 DEF TakeRequest, Links, Shape, ItemShape, ItemRecords
    <3>5. CASE DoPiece
      BY <3>5 DEF DoPiece, NoIoAfterFailure, Links, Shape, ItemShape, ItemRecords
    <3> QED
      BY <3>1, <3>2, <3>3, <3>4, <3>5, ItemFrame, StepKnown
  <2> QED
    BY <1>1, <2>1, LiveKept DEF Going
<1>2. ASSUME NEW t \in Threads, CompleteIrp(t), own[t] = k
      PROVE  FALSE
  BY <1>2 DEF CompleteIrp, Goto, LiveIn, Ending, handVars, Links, Shape, PcShape
<1>3. CASE (Refuse \/ Protect \/ Accept) /\ own'["main"] = k
  <2>1. item' = [item EXCEPT ![k] = item'[k]] /\ k \in DOMAIN item
    BY <1>3 DEF Refuse, Protect, Accept, GetItem, Links, Shape, ItemShape, OwnShape, Threads
  <2>2. Accept \/ item'[k].status = "failed"
    BY <1>3, <2>1 DEF Refuse, Protect, GetItem, Links, Shape, ItemShape, OwnShape, Threads
  <2>3. Accept
    BY <2>2
  <2>4. item'[k].irp = taken
    BY <1>3, <2>1, <2>3 DEF Accept, GetItem, Links, Shape, ItemShape, OwnShape, Threads
  <2> QED
    BY <1>3, <2>3, <2>4
<1> QED
  BY <1>1, <1>2, <1>3, LivesChange

(* What the main thread cuts it cuts to the end.                           *)
LEMMA CutsOn ==
  ASSUME Links, [QueueStep]_vars, pc["main"] \in Cutting, ~QueueFragment
  PROVE  pc'["main"] \in Cutting /\ UNCHANGED <<own["main"], next>>
<1> USE DEF Links, Shape, PcShape, Threads, Cutting, Ending, Goto
<1>1. CASE UNCHANGED <<pc["main"], own["main"], req["main"], next>>
  BY <1>1
<1>2. CASE NextFragment
  BY <1>2 DEF NextFragment, handVars
<1>3. CASE GetRequest
  BY <1>3 DEF GetRequest, pipeVars, mainVars
<1>4. CASE FillFragment
  BY SMTT(60), <1>4 DEF FillFragment, handVars, mainVars
<1>5. CASE AwaitsPool \/ LooksAgain
  BY <1>5 DEF AwaitsPool, LooksAgain, PoolEmpty, AwaitPoolBuffer, handVars, pipeVars, mainVars
<1>6. ~(Wake("main") \/ Drained("main") \/ CompleteIrp("main") \/ Decrement("main")
        \/ SignalIdle("main") \/ ReleaseItem("main") \/ ReleaseRequest("main"))
  BY DEF Wake, Drained, CompleteIrp, Decrement, SignalIdle, ReleaseItem, ReleaseRequest
<1>7. ~(TakeIrp \/ TestSuspended \/ AwaitResume \/ Refuse \/ Protect \/ Accept)
  BY DEF TakeIrp, TestSuspended, AwaitResume, Refuse, Protect, Accept, GetItem
<1>8. ~(ReadMisaligned \/ DecryptMisaligned)
  BY DEF ReadMisaligned, DecryptMisaligned
<1> QED
  BY <1>1, <1>2, <1>3, <1>4, <1>5, <1>6, <1>7, <1>8, MainMoves

(* The I/O thread keeps its request while it needs a fragment buffer for   *)
(* it.                                                                     *)
LEMMA UsesOn ==
  ASSUME Links, [QueueStep]_vars, IoUses, ~DoPiece, ~WriteDone, ~ReadDone
  PROVE  UNCHANGED <<pc["io"], own["io"], req["io"], todo>>
<1> USE DEF Links, Shape, PcShape, Threads, Ending, Goto, IoUses
<1>1. ~(Wake("io") \/ Drained("io") \/ CompleteIrp("io") \/ Decrement("io")
        \/ SignalIdle("io") \/ ReleaseItem("io") \/ ReleaseRequest("io"))
  BY DEF Wake, Drained, CompleteIrp, Decrement, SignalIdle, ReleaseItem, ReleaseRequest
<1>2. ~(TakeRequest \/ PassesOn \/ ReadAhead)
  BY DEF TakeRequest, PassesOn, PostCompletion, ReadAhead
<1> QED
  BY <1>1, <1>2, IoMoves

(* The pieces that are left have no sector in common.                      *)
Parts == pc["io"] = "device" =>
           \A m, n \in 1..Len(todo) : m # n => todo[m] \cap todo[n] = {}

(* That stays so.                                                          *)
LEMMA PartsStep ==
  ASSUME Links, Volume, Cut, ToDo, Parts, [QueueStep]_vars
  PROVE  Parts'
<1> SUFFICES ASSUME pc'["io"] = "device"
             PROVE  \A m, n \in 1..Len(todo') : m # n => todo'[m] \cap todo'[n] = {}
  BY DEF Parts
<1>1. CASE TakeRequest
  <2> DEFINE r == queue["io"][1]
  <2>1. r \in Requests /\ Pipe(r)
    BY <1>1, TakeRequestMoves DEF Pipe
  <2>2. Permitted(r.item)
    BY <1>1 DEF TakeRequest, Goto, Links, Shape, PcShape, Threads
  <2>3. todo' = Pieces(r)
    BY <1>1, <2>2 DEF TakeRequest
  <2>4. Cuts(r)
    BY <2>1 DEF Cut
  <2> HIDE DEF r
  <2> QED
    BY <2>1, <2>3, <2>4, PiecesOfRequest
<1>2. CASE DoPiece
  <2>1. pc["io"] = "device" /\ todo' = Tail(todo)
    BY <1>2 DEF DoPiece, Goto
  <2>2. todo \in Seq(SUBSET Int) /\ todo # <<>>
    BY <2>1 DEF ToDo
  <2>3. \A n \in 1..Len(Tail(todo)) : Tail(todo)[n] = todo[n + 1] /\ n + 1 \in 1..Len(todo)
    BY <2>2, TailLeft
  <2>4. \A m, n \in 1..Len(Tail(todo)) : m # n => m + 1 # n + 1
    OBVIOUS
  <2> QED
    BY <2>1, <2>3, <2>4 DEF Parts
<1>3. CASE pc["io"] = "device" /\ UNCHANGED <<req["io"], own["io"], todo>>
  BY <1>3 DEF Parts
<1> QED
  BY <1>1, <1>2, <1>3, IoWork

(* The sectors of an item that are still to be transferred: not cut into a *)
(* fragment yet, or in one that waits for the I/O thread, or left to do at *)
(* the device.                                                             *)
Uncut(k, s) == pc["main"] \in Cutting /\ own["main"] = k /\ s >= next
ForIo(k, s) == \E n \in Queued("io") :
                      queue["io"][n].item = k /\ s \in FragmentSectors(queue["io"][n])
AtDevice(k, s) == pc["io"] = "device" /\ own["io"] = k /\ \E n \in 1..Len(todo) : s \in todo[n]
Waits(k, s) == Uncut(k, s) \/ ForIo(k, s) \/ AtDevice(k, s)

(* What the I/O thread has in its hands is not to come again.              *)
LEMMA OnlyOnce ==
  ASSUME Links, Lined, Passed, pc["io"] \in IoHolds, NEW s \in FragmentSectors(req["io"])
  PROVE  ~Uncut(own["io"], s) /\ ~ForIo(own["io"], s)
<1> DEFINE r == req["io"]
<1>1. r \in Requests /\ r.item = own["io"] /\ InLine(r)
  BY DEF Links, Shape, RequestShape, Threads, Hands, InLine, IoHolds
<1>2. /\ r.first \in Int /\ r.len \in Int /\ next \in Int
      /\ FragmentSectors(r) = r.first..r.first + r.len - 1
  BY <1>1, RequestFields DEF Links, Shape, MainShape, FragmentSectors, Span
<1>3. ASSUME pc["main"] \in Cutting, own["main"] = own["io"]
      PROVE  s < next
  <2>1. r.first + r.len <= next
    BY <1>1, <1>3 DEF Passed, Behind
  <2>2. s \in Int /\ s <= r.first + r.len - 1
    BY <1>2
  <2> QED
    BY <1>2, <2>1, <2>2
<1>4. ASSUME NEW n \in Queued("io"), queue["io"][n].item = own["io"]
      PROVE  s \notin FragmentSectors(queue["io"][n])
  BY <1>1, <1>4 DEF Lined, Separate
<1>5. s \in Int
  BY <1>2
<1> QED
  BY <1>2, <1>3, <1>4, <1>5 DEF Uncut, ForIo

(* A sector of an item waits until a device operation has transferred it.  *)
LEMMA WaitsOn ==
  ASSUME Links, Volume, Cut, ToDo, Parts, WithinIrp, AtNext, Lined, Passed, [QueueStep]_vars,
         NEW k \in Items, Going(k), item'[k].status = "ok", LiveIn(item', pc', own', k),
         NEW s \in IrpSectors(item[k].irp)
  PROVE  Waits(k, s)' <=> (Waits(k, s) /\ ~(DoPiece /\ own["io"] = k /\ s \in todo[1]))
<1> DEFINE a == Uncut(k, s)
           b == ForIo(k, s)
           c == AtDevice(k, s)
<1>0. /\ item[k].irp \in Irps /\ k # 0 /\ InUse(k) /\ s \in Int /\ next \in Int
      /\ irp[item[k].irp].first \in Nat /\ irp[item[k].irp].len \in Nat
      /\ s < irp[item[k].irp].first + irp[item[k].irp].len
  <2>1. InUse(k) /\ k # 0
    BY QueueAssumption DEF Going, Live, LiveIn, InUse, Items
  <2>2. /\ item[k].irp \in Irps /\ irp[item[k].irp].first \in Nat /\ irp[item[k].irp].len \in Nat
    BY <2>1, UsedItems DEF IrpRecords
  <2> QED
    BY <2>1, <2>2 DEF IrpSectors, Span, Links, Shape, MainShape
<1>1. ASSUME ~QueueFragment
      PROVE  a' <=> a
  <2>1. CASE pc["main"] \in Cutting
    BY <1>1, <2>1, CutsOn DEF Uncut
  <2>2. CASE pc["main"] \notin Cutting
    <3>1. CASE pc'["main"] \in Cutting
      <4>1. Accept
        BY <1>1, <2>2, <3>1, MainCut
      <4>2. PICK l \in Items : ~InUse(l) /\ own' = [own EXCEPT !["main"] = l]
        BY <4>1, GetItemTakes
      <4>3. own'["main"] # k
        BY <1>0, <4>2 DEF Links, Shape, OwnShape, Threads
      <4> QED
        BY <2>2, <4>3 DEF Uncut
    <3> QED
      BY <2>2, <3>1 DEF Uncut
  <2> QED
    BY <2>1, <2>2
<1>2. ASSUME ~QueueFragment, ~TakeRequest
      PROVE  b' <=> b
  BY <1>2, QueueChanges, PassesOnMoves, DecryptFragmentMoves DEF ForIo, Queued
<1>3. ASSUME ~TakeRequest, ~DoPiece
      PROVE  c' <=> c
  <2>1. CASE pc["io"] = "device"
    <3>1. ~WriteDone /\ ~ReadDone
      BY <2>1 DEF WriteDone, ReadDone
    <3> QED
      BY <1>3, <2>1, <3>1, UsesOn DEF AtDevice, IoUses
  <2>2. CASE pc["io"] # "device"
    BY <1>3, <2>2, IoWork DEF AtDevice
  <2> QED
    BY <2>1, <2>2
<1>4. CASE QueueFragment
  <2> DEFINE r == req["main"]
             left == irp[MainIrp].first + irp[MainIrp].len - next
  <2>1. /\ pc["main"] = "queue"
        /\ pc' = [pc EXCEPT !["main"] = IF r.last THEN "pop" ELSE "fragment"]
        /\ own' = [own EXCEPT !["main"] = IF r.last THEN 0 ELSE @]
        /\ next' = IF r.last THEN 0 ELSE next + FragmentSize
    BY <1>4, QueueFragmentMoves DEF QueueFragment
  <2>2. pc'["io"] = pc["io"] /\ ~TakeRequest /\ ~DoPiece
    BY <2>1 DEF Links, Shape, PcShape, Threads, TakeRequest, DoPiece, Goto
  <2>3. b' <=> (b \/ (r.item = k /\ s \in FragmentSectors(r)))
    BY <1>4, QueueFragmentMoves DEF ForIo
  <2>4. r.item = own["main"] /\ FragmentSectors(r) = next..next + r.len - 1
    BY <2>1, NextFits
  <2>5. CASE own["main"] = k
    <3>1. MainIrp = item[k].irp
      BY <2>5 DEF MainIrp
    <3>2. left \in Int /\ s < next + left
      BY <1>0, <3>1
    <3>3. /\ r.last <=> (left <= FragmentSize)
          /\ r.len = IF left <= FragmentSize THEN left ELSE FragmentSize
      BY <2>1 DEF AtNext
    <3>4. a <=> s >= next
      BY <2>1, <2>5 DEF Uncut, Cutting
    <3>5. CASE r.last
      <4>1. ~a'
        BY <1>0, <2>1, <3>5 DEF Uncut, Links, Shape, PcShape, Threads, Cutting
      <4>2. s \in FragmentSectors(r) <=> s >= next
        <5> HIDE DEF left, r
        <5> QED
          BY <1>0, <2>4, <3>2, <3>3, <3>5
      <4> QED
        BY <1>3, <2>2, <2>3, <2>4, <2>5, <3>4, <4>1, <4>2 DEF Waits
    <3>6. CASE ~r.last
      <4>1. a' <=> s >= next + FragmentSize
        BY <2>1, <2>5, <3>6 DEF Uncut, Links, Shape, PcShape, OwnShape, Threads, Cutting
      <4>2. (s \in FragmentSectors(r) \/ s >= next + FragmentSize) <=> s >= next
        <5> HIDE DEF left, r
        <5> QED
          BY <1>0, <2>4, <3>2, <3>3, <3>6, QueueAssumption
      <4> QED
        BY <1>3, <2>2, <2>3, <2>4, <2>5, <3>4, <4>1, <4>2 DEF Waits
    <3> QED
      BY <3>5, <3>6
  <2>6. CASE own["main"] # k
    <3>1. ~a /\ ~a'
      BY <1>0, <2>1, <2>6 DEF Uncut, Links, Shape, OwnShape, Threads
    <3> QED
      BY <1>3, <2>2, <2>3, <2>4, <2>6, <3>1 DEF Waits
  <2> QED
    BY <2>5, <2>6
<1>5. CASE TakeRequest
  <2> DEFINE r == queue["io"][1]
  <2>1. /\ r \in Requests /\ Pipe(r) /\ 1 \in Queued("io")
        /\ own'["io"] = r.item /\ pc["io"] = "pop"
        /\ \A n \in Queued("io")' : queue'["io"][n] = queue["io"][n + 1] /\ n + 1 \in Queued("io")
        /\ \A n \in Queued("io") :
             n = 1 \/ (n - 1 \in Queued("io")' /\ queue'["io"][n - 1] = queue["io"][n])
    BY <1>5, TakeRequestMoves, RemovedBack DEF Pipe, Links, Shape, OwnShape, Threads
  <2>2. b <=> (b' \/ (r.item = k /\ s \in FragmentSectors(r)))
    BY <2>1 DEF ForIo
  <2>3. ~c /\ ~QueueFragment /\ ~DoPiece
    BY <1>5, <2>1 DEF AtDevice, QueueFragment, DoPiece, TakeRequest, Goto, Links, Shape, PcShape,
       Threads
  <2>4. r.item = k => Permitted(k)
    BY <1>5 DEF TakeRequest, Links, Shape, ItemShape, ItemRecords
  <2>5. CASE r.item = k
    <3>1. pc'["io"] = "device" /\ todo' = Pieces(r)
      BY <1>5, <2>4, <2>5 DEF TakeRequest, Goto, Links, Shape, PcShape, Threads
    <3>2. Cuts(r)
      BY <2>1 DEF Cut
    <3>3. c' <=> s \in FragmentSectors(r)
      <4>1. c' <=> \E n \in 1..Len(Pieces(r)) : s \in Pieces(r)[n]
        BY <2>1, <2>5, <3>1 DEF AtDevice
      <4> HIDE DEF r, c
      <4>2. \A n \in 1..Len(Pieces(r)) : Pieces(r)[n] \subseteq FragmentSectors(r)
        BY <2>1, <3>2, PiecesOfRequest DEF PieceOf
      <4>3. s \in FragmentSectors(r) => \E n \in 1..Len(Pieces(r)) : s \in Pieces(r)[n]
        BY <2>1, <3>2, PiecesOfRequest
      <4> QED
        BY <4>1, <4>2, <4>3
    <3> QED
      BY <1>1, <2>2, <2>3, <2>5, <3>3 DEF Waits
  <2>6. CASE r.item # k
    <3>1. ~c'
      BY <2>1, <2>6 DEF AtDevice
    <3> QED
      BY <1>1, <2>2, <2>3, <2>6, <3>1 DEF Waits
  <2> QED
    BY <2>5, <2>6
<1>6. CASE DoPiece
  <2>1. /\ pc["io"] = "device" /\ own' = own /\ todo' = Tail(todo)
        /\ pc' = [pc EXCEPT !["io"] = IF Len(todo) = 1 THEN "done" ELSE "device"]
    BY <1>6 DEF DoPiece, Goto, handVars
  <2>2. ~QueueFragment /\ ~TakeRequest
    BY <2>1 DEF QueueFragment, TakeRequest, Goto, Links, Shape, PcShape, Threads
  <2>3. todo \in Seq(SUBSET Int) /\ todo # <<>> /\ todo[1] \subseteq FragmentSectors(req["io"])
    BY <2>1 DEF ToDo, PieceOf
  <2>4. /\ Len(todo) \in Nat \ {0} /\ Len(Tail(todo)) = Len(todo) - 1
        /\ \A n \in 1..Len(Tail(todo)) : Tail(todo)[n] = todo[n + 1] /\ n + 1 \in 1..Len(todo)
    BY <2>3, TailLeft
  <2>5. CASE own["io"] = k
    <3>1. c <=> \E n \in 1..Len(todo) : s \in todo[n]
      BY <2>1, <2>5 DEF AtDevice
    <3>2. c' <=> \E n \in 1..Len(Tail(todo)) : s \in Tail(todo)[n]
      BY <2>1, <2>4, <2>5 DEF AtDevice, Links, Shape, PcShape, Threads
    <3>3. s \in todo[1] => ~\E n \in 1..Len(Tail(todo)) : s \in Tail(todo)[n]
      BY <2>1, <2>4 DEF Parts
    <3>4. \A n \in 1..Len(todo) :
            n = 1 \/ (n - 1 \in 1..Len(Tail(todo)) /\ Tail(todo)[n - 1] = todo[n])
      BY <2>4
    <3> HIDE DEF c
    <3>5. c' <=> (c /\ s \notin todo[1])
      BY <2>4, <3>1, <3>2, <3>3, <3>4
    <3>6. s \in todo[1] => ~a /\ ~b
      BY <2>1, <2>3, <2>5, OnlyOnce DEF IoHolds
    <3> QED
      BY <1>1, <1>2, <1>6, <2>2, <2>5, <3>5, <3>6 DEF Waits, c
  <2>6. CASE own["io"] # k
    <3>1. ~c /\ ~c'
      BY <2>1, <2>6 DEF AtDevice
    <3> QED
      BY <1>1, <1>2, <2>2, <2>6, <3>1 DEF Waits
  <2> QED
    BY <2>5, <2>6
<1> QED
  BY <1>1, <1>2, <1>3, <1>4, <1>5, <1>6 DEF Waits

(* While the device of a hidden system does not fail, no I/O is performed  *)
(* after a failure: only a remapped fragment takes more than one           *)
(* operation.                                                              *)
LEMMA NoIoAfterFailureStep ==
  ASSUME remap => ~RemapFailures, Links, ToDo, NoIoAfterFailure, [QueueStep]_vars
  PROVE  NoIoAfterFailure'
<1> USE DEF Links, Shape, PcShape, OwnShape, ItemShape, ItemRecords, Threads
<1> SUFFICES ASSUME pc'["io"] = "device"
             PROVE  item'[own'["io"]].status = "ok"
  BY DEF NoIoAfterFailure
<1>1. CASE TakeRequest
  <2> DEFINE k == queue["io"][1].item
  <2>1. own'["io"] = k /\ k \in Items
    BY <1>1, TakeRequestMoves
  <2>2. Permitted(k)
    BY <1>1 DEF TakeRequest, Goto
  <2> QED
    BY <1>1, <2>1, <2>2 DEF TakeRequest, Permitted
<1>2. CASE DoPiece
  <2>1. pc["io"] = "device" /\ own' = own /\ Len(todo) # 1
    BY <1>2 DEF DoPiece, Goto, handVars
  <2>2. remap
    BY <2>1 DEF ToDo
  <2>3. own["io"] \in Items
    BY <2>1, Holders DEF Hands
  <2> QED
    BY <1>2, <2>1, <2>2, <2>3 DEF DoPiece, MayFail
<1>3. CASE pc["io"] = "device" /\ UNCHANGED <<req["io"], own["io"], todo>> /\ ~DoPiece
  <2> DEFINE k == own["io"]
  <2>0. k \in Items /\ InUse(k) /\ item[k].status = "ok" /\ own'["io"] = k
    BY <1>3, Holders DEF Hands, NoIoAfterFailure
  <2> HIDE DEF k
  <2>1. ASSUME NEW t \in Threads, ReleaseItem(t)
        PROVE  item'[k].status = "ok"
    <3>1. own[t] # k
      BY <2>1, <1>3, OnlyHolder DEF ReleaseItem, Goto, Ending, k, Hands
    <3> QED
      BY <2>0, <2>1, <3>1 DEF ReleaseItem
  <2>2. CASE Refuse \/ Protect \/ Accept
    BY <2>0, <2>2, GetItemTakes
  <2>3. CASE ReadMisaligned
    <3>1. pc["main"] = "misaligned"
      BY <2>3 DEF ReadMisaligned
    <3>2. own["main"] # k
      BY <1>3, <3>1 DEF Alone, MainOwns, Cutting, k
    <3> QED
      BY <2>0, <2>3, <3>2 DEF ReadMisaligned
  <2>4. CASE TakeRequest
    BY <1>3, <2>4, TakeRequestMoves
  <2> QED
    BY <1>3, <2>0, <2>1, <2>2, <2>3, <2>4, ItemFrame, StepKnown
<1> QED
  BY <1>1, <1>2, <1>3, IoWork

(* The steps that change moved, seen.                                      *)
LEMMA HistoryFrame ==
  ASSUME [QueueStep]_vars
  PROVE  \/ UNCHANGED <<moved, seen>>
         \/ (\E t \in Threads : CompleteIrp(t))
         \/ ReadMisaligned
         \/ DoPiece
  BY ZenonT(60), ActionCases DEF coreVars, dataVars, irpVars, queueVars, poolVars, handVars,
     mainVars, fragmentVars, ioVars, pipeVars, countVars, diskVars, outerVars, holdVars,
     stopVars, envVars, areaVars, keyVars, volumeVars,
     Issue, IGoto, AddIrp, Reject, RejectSignal, Wake, Goto, Drained, Decrement, AfterDecrement,
     SignalIdle, ReleaseItem, ReleaseRequest, TakeIrp, TestSuspended, AwaitResume, AwaitsPool,
     PoolEmpty, LooksAgain, AwaitPoolBuffer, Refuse, GetItem, Protect, Accept,
     DecryptMisaligned, NextFragment, GetRequest, FillFragment, QueueFragment, TakeRequest,
     WriteDone, AfterRequest, ReleaseFragmentBuffer, ReadDone, PassesOn, PostCompletion,
     ReadAhead, DecryptFragment

(* The steps that change data.                                             *)
LEMMA DataFrame ==
  ASSUME [QueueStep]_vars
  PROVE  \/ UNCHANGED <<data>>
         \/ (\E t \in Threads : CompleteIrp(t))
         \/ ReadMisaligned
         \/ DecryptMisaligned
         \/ ReadDone
         \/ DecryptFragment
  BY ZenonT(60), ActionCases DEF coreVars, dataVars, irpVars, queueVars, poolVars, handVars,
     mainVars, fragmentVars, ioVars, pipeVars, countVars, diskVars, outerVars, holdVars,
     stopVars, envVars, areaVars, keyVars, volumeVars,
     Issue, IGoto, AddIrp, Reject, RejectSignal, Wake, Goto, Drained, Decrement, AfterDecrement,
     SignalIdle, ReleaseItem, ReleaseRequest, TakeIrp, TestSuspended, AwaitResume, AwaitsPool,
     PoolEmpty, LooksAgain, AwaitPoolBuffer, Refuse, GetItem, Protect, Accept, NextFragment,
     GetRequest, FillFragment, QueueFragment, TakeRequest, DoPiece, WriteDone, AfterRequest,
     ReleaseFragmentBuffer, PassesOn, PostCompletion, ReadAhead

(* Every IRP has a history, and a buffer.                                  *)
Histories == /\ moved \in [Irps -> SUBSET Int]
             /\ DOMAIN seen = Irps /\ DOMAIN data = Irps

(* That stays so.                                                          *)
LEMMA HistoriesStep ==
  ASSUME Links, ToDo, Untouched, Harmless, Histories, [QueueStep]_vars
  PROVE  Histories'
<1>1. moved' \in [Irps -> SUBSET Int]
  BY UntouchedStep DEF Untouched
<1>2. DOMAIN seen' = Irps
  <2>1. ASSUME NEW t \in Threads, CompleteIrp(t)
        PROVE  DOMAIN seen' = Irps
    BY <2>1 DEF CompleteIrp, Histories
  <2>2. CASE ReadMisaligned
    BY <2>2 DEF ReadMisaligned, Histories
  <2>3. CASE DoPiece
    BY <2>3, PieceDone DEF WritePiece, ReadPiece, Histories
  <2> QED
    BY <2>1, <2>2, <2>3, HistoryFrame DEF Histories
<1>3. DOMAIN data' = Irps
  <2>1. ASSUME NEW t \in Threads, CompleteIrp(t)
        PROVE  DOMAIN data' = Irps
    BY <2>1 DEF CompleteIrp, Histories
  <2>2. CASE ReadMisaligned
    BY <2>2 DEF ReadMisaligned, Histories
  <2>3. CASE DecryptMisaligned
    BY <2>3 DEF DecryptMisaligned, Histories
  <2>4. CASE ReadDone
    BY <2>4 DEF ReadDone, Histories
  <2>5. CASE DecryptFragment
    BY <2>5 DEF DecryptFragment, Histories
  <2> QED
    BY <2>1, <2>2, <2>3, <2>4, <2>5, DataFrame DEF Histories
<1> QED
  BY <1>1, <1>2, <1>3 DEF Histories

(* Only who works on an IRP changes its history or its buffer.             *)
LEMMA OnlyWorker ==
  ASSUME Links, ToDo, Histories, [QueueStep]_vars, NEW i \in Irps
  PROVE  \/ UNCHANGED <<moved[i], seen[i], data[i]>>
         \/ \E t \in Threads : CompleteIrp(t) /\ item[own[t]].irp = i
         \/ (ReadMisaligned \/ DecryptMisaligned) /\ MainIrp = i
         \/ (DoPiece \/ ReadDone) /\ IoIrp = i
         \/ DecryptFragment /\ item[queue["completion"][1].item].irp = i
<1> USE DEF Histories
<1> DEFINE Same == UNCHANGED <<moved[i], seen[i], data[i]>>
<1>1. ASSUME NEW t \in Threads, CompleteIrp(t), item[own[t]].irp # i
      PROVE  Same
  BY <1>1 DEF CompleteIrp
<1>2. ASSUME ReadMisaligned, MainIrp # i
      PROVE  Same
  BY <1>2 DEF ReadMisaligned
<1>3. ASSUME DecryptMisaligned, MainIrp # i
      PROVE  Same
  BY <1>3 DEF DecryptMisaligned, outerVars, diskVars
<1>4. ASSUME DoPiece, IoIrp # i
      PROVE  Same
  BY <1>4, PieceDone DEF WritePiece, ReadPiece, DoPiece, irpVars
<1>5. ASSUME ReadDone, IoIrp # i
      PROVE  Same
  BY <1>5 DEF ReadDone, outerVars, diskVars
<1>6. ASSUME DecryptFragment, item[queue["completion"][1].item].irp # i
      PROVE  Same
  <2>1. UNCHANGED <<moved, seen>>
    BY ZenonT(60), <1>6 DEF DecryptFragment, outerVars, diskVars
  <2>2. data'[i] = data[i]
    BY <1>6 DEF DecryptFragment
  <2> QED
    BY <2>1, <2>2
<1>7. ASSUME UNCHANGED <<moved, seen, data>>
      PROVE  Same
  BY <1>7
<1> HIDE DEF Same
<1>8. Same \/ ~Same
  OBVIOUS
<1>9. ASSUME ~Same
      PROVE  \/ \E t \in Threads : CompleteIrp(t)
             \/ ReadMisaligned \/ DecryptMisaligned \/ DoPiece \/ ReadDone \/ DecryptFragment
  BY <1>7, <1>9, HistoryFrame, DataFrame
<1> QED
  BY <1>1, <1>2, <1>3, <1>4, <1>5, <1>6, <1>9 DEF Same

(* Nothing is known of an IRP that is not being served.                    *)
Unseen == [s \in {} |-> NoIrp]
NotServed(i) == \A k \in Items : Live(k) => item[k].irp # i
Clean == \A i \in Irps : NotServed(i) =>
           moved[i] = {} /\ seen[i] = Unseen /\ data[i] = Empty

(* The end of its service takes all of that away.                          *)
LEMMA CleanStep ==
  ASSUME Links, ToDo, Histories, Clean, [QueueStep]_vars
  PROVE  Clean'
<1> SUFFICES ASSUME NEW i \in Irps,
                    \A k \in Items : LiveIn(item', pc', own', k) => item'[k].irp # i
             PROVE  moved'[i] = {} /\ seen'[i] = Unseen /\ data'[i] = Empty
  BY DEF Clean, NotServed, Live
<1>1. CASE NotServed(i)
  <2>1. ASSUME NEW t \in Threads, CompleteIrp(t)
        PROVE  item[own[t]].irp # i
    <3>1. own[t] \in Items /\ Live(own[t])
      BY <2>1, LiveOnes, Holders DEF CompleteIrp, Goto, Links, Hands, MainOwns, Threads
    <3> QED
      BY <1>1, <3>1 DEF NotServed
  <2>2. ASSUME ReadMisaligned \/ DecryptMisaligned
        PROVE  MainIrp # i
    <3>1. own["main"] \in Items /\ Live(own["main"])
      BY <2>2, LiveOnes, Holders DEF ReadMisaligned, DecryptMisaligned, Goto, Links, Hands,
         MainOwns, Threads
    <3> QED
      BY <1>1, <3>1 DEF NotServed, MainIrp
  <2>3. ASSUME DoPiece \/ ReadDone
        PROVE  IoIrp # i
    <3>1. own["io"] \in Items /\ Live(own["io"])
      <4>1. pc["io"] \in {"device", "done"}
        BY <2>3 DEF DoPiece, ReadDone
      <4> QED
        BY <4>1, LiveOnes, Holders DEF Links, Hands, Threads
    <3> QED
      BY <1>1, <3>1 DEF NotServed, IoIrp
  <2>4. ASSUME DecryptFragment
        PROVE  item[queue["completion"][1].item].irp # i
    BY <1>1, <2>4, DecryptFragmentMoves, LiveOnes, Holders DEF NotServed
  <2> QED
    BY <1>1, <2>1, <2>2, <2>3, <2>4, OnlyWorker DEF Clean
<1>2. ASSUME NEW k \in Items, Live(k), item[k].irp = i
      PROVE  moved'[i] = {} /\ seen'[i] = Unseen /\ data'[i] = Empty
  <2>1. ~LiveIn(item', pc', own', k)
    BY <1>2, LiveKept
  <2>2. ASSUME NEW t \in Threads, CompleteIrp(t), own[t] = k
        PROVE  moved'[i] = {} /\ seen'[i] = Unseen /\ data'[i] = Empty
    BY <1>2, <2>2 DEF CompleteIrp, Histories, Empty, Unseen
  <2>3. ASSUME Refuse \/ Protect \/ Accept, own'["main"] = k
        PROVE  FALSE
    BY <1>2, <2>3, GetItemTakes DEF Live, LiveIn, InUse, Links, Shape, OwnShape, Threads
  <2> QED
    BY <1>2, <2>1, <2>2, <2>3, LivesChange
<1> QED
  BY <1>1, <1>2 DEF NotServed

(* An IRP that is accepted is one that is not served yet.                  *)
LEMMA AcceptsNew ==
  ASSUME Links, Histories, Clean, Accept
  PROVE  /\ taken \in Irps /\ moved[taken] = {} /\ DOMAIN seen[taken] = {} /\ data[taken] = Empty
         /\ UNCHANGED <<moved, seen, data, irp>>
<1>1. taken \in Irps
  BY GetItemTakes
<1>2. NotServed(taken)
  BY <1>1 DEF NotServed, Links, Linked, LinkedItems
<1> QED
  BY <1>1, <1>2 DEF Clean, Accept, GetItem, irpVars, diskVars, Unseen

(* Nor has it read anything.                                               *)
LEMMA AcceptsFresh ==
  ASSUME Links, Clean, Accept
  PROVE  moved'[taken] = {} /\ seen'[taken] = Unseen
<1>1. taken \in Irps
  BY GetItemTakes
<1>2. NotServed(taken)
  BY <1>1 DEF NotServed, Links, Linked, LinkedItems
<1>3. UNCHANGED <<moved, seen>>
  BY DEF Accept, GetItem, diskVars
<1> QED
  BY <1>1, <1>2, <1>3 DEF Clean

(* As long as it goes on, only the item that serves an IRP is the one      *)
(* somebody works on.                                                      *)
LEMMA OnlyServer ==
  ASSUME Links, ToDo, Histories, [QueueStep]_vars, NEW k \in Items, Live(k),
         LiveIn(item', pc', own', k)
  PROVE  LET i == item[k].irp IN
         \/ moved'[i] = moved[i] /\ seen'[i] = seen[i] /\ data'[i] = data[i]
         \/ (ReadMisaligned \/ DecryptMisaligned) /\ own["main"] = k
         \/ (DoPiece \/ ReadDone) /\ own["io"] = k
         \/ DecryptFragment /\ queue["completion"][1].item = k
<1> DEFINE i == item[k].irp
<1>0. i \in Irps
  BY UsedItems DEF Live, LiveIn, InUse
<1>1. \A l \in Items : Live(l) /\ item[l].irp = i => l = k
  BY DEF Links, Linked, LinkedItems
<1> HIDE DEF i
<1>2. ASSUME NEW t \in Threads, CompleteIrp(t), item[own[t]].irp = i
      PROVE  FALSE
  <2>1. own[t] \in Items /\ Live(own[t])
    BY <1>2, LiveOnes, Holders DEF CompleteIrp, Goto, Links, Hands, MainOwns, Threads
  <2>2. own[t] = k
    BY <1>1, <1>2, <2>1
  <2> QED
    BY <1>2, <2>2 DEF CompleteIrp, Goto, LiveIn, Ending, handVars, Links, Shape, PcShape
<1>3. ASSUME ReadMisaligned \/ DecryptMisaligned, MainIrp = i
      PROVE  own["main"] = k
  <2>1. own["main"] \in Items /\ Live(own["main"])
    BY <1>3, LiveOnes, Holders DEF ReadMisaligned, DecryptMisaligned, Goto, Links, Hands,
       MainOwns, Threads
  <2> QED
    BY <1>1, <1>3, <2>1 DEF MainIrp
<1>4. ASSUME DoPiece \/ ReadDone, IoIrp = i
      PROVE  own["io"] = k
  <2>1. pc["io"] \in {"device", "done"}
    BY <1>4 DEF DoPiece, ReadDone
  <2>2. own["io"] \in Items /\ Live(own["io"])
    BY <2>1, LiveOnes, Holders DEF Links, Hands, Threads
  <2> QED
    BY <1>1, <1>4, <2>2 DEF IoIrp
<1>5. ASSUME DecryptFragment, item[queue["completion"][1].item].irp = i
      PROVE  queue["completion"][1].item = k
  BY <1>1, <1>5, DecryptFragmentMoves, LiveOnes, Holders
<1> QED
  BY <1>0, <1>2, <1>3, <1>4, <1>5, OnlyWorker DEF i

(* A device operation on behalf of an item that goes on has succeeded.     *)
LEMMA PieceSucceeds ==
  ASSUME Links, ToDo, Fitting, Histories, DoPiece, item'[own["io"]].status = "ok"
  PROVE  LET k == own["io"]
             i == item[k].irp IN
         /\ k \in Items /\ i \in Irps /\ pc["io"] = "device"
         /\ todo[1] \subseteq FragmentSectors(req["io"])
         /\ FragmentSectors(req["io"]) \subseteq IrpSectors(i)
         /\ req["io"].enc = FragmentSectors(req["io"]) \cap Area
         /\ moved'[i] = moved[i] \cup todo[1] /\ data' = data
         /\ Op(k) = "write" => WritePiece(todo[1])
         /\ Op(k) = "read" => ReadPiece(todo[1])
<1> DEFINE k == own["io"]
           i == item[k].irp
<1>1. /\ pc["io"] = "device" /\ req["io"] \in Requests /\ req["io"].item = k
      /\ k \in Items /\ i \in Irps /\ PieceOf(todo[1], req["io"])
      /\ (Writing <=> irp[i].op = "write")
      /\ irp[i].op \in {"read", "write"}
  BY PieceDone
<1>2. Fits(req["io"])
  BY <1>1 DEF Fitting, InLine, IoHolds
<1>3. IF Writing THEN WritePiece(todo[1]) ELSE ReadPiece(todo[1])
  BY <1>1 DEF DoPiece, Links, Shape, ItemShape, ItemRecords
<1>4. moved'[i] = moved[i] \cup todo[1]
  BY <1>1, <1>3 DEF WritePiece, ReadPiece, IoIrp, Histories
<1>5. data' = data
  BY DEF DoPiece, irpVars
<1> QED
  BY <1>1, <1>2, <1>3, <1>4, <1>5 DEF Fits, PieceOf, Op, OpOf

(* What has been transferred for an IRP is what is not left to do.         *)
Progress ==
  \A k \in Items : Going(k) /\ Op(k) \in {"read", "write"} =>
    LET i == item[k].irp IN
    /\ moved[i] \subseteq IrpSectors(i)
    /\ \A s \in IrpSectors(i) : s \in moved[i] <=> ~Waits(k, s)
    /\ Op(k) = "read" => DOMAIN seen[i] = moved[i]

(* That stays so.                                                          *)
LEMMA ProgressStep ==
  ASSUME Links, Volume, Cut, ToDo, Parts, WithinIrp, AtNext, Lined, Passed, Fitting,
         NoIoAfterFailure, Histories, Clean, Progress, [QueueStep]_vars
  PROVE  Progress'
<1> SUFFICES ASSUME NEW k \in Items, item'[k].status = "ok", LiveIn(item', pc', own', k),
                    irp'[item'[k].irp].op \in {"read", "write"}
             PROVE  LET i == item'[k].irp
                        S == Span(irp'[i].first, irp'[i].len) IN
                    /\ moved'[i] \subseteq S
                    /\ \A s \in S : s \in moved'[i] <=> ~Waits(k, s)'
                    /\ irp'[i].op = "read" => DOMAIN seen'[i] = moved'[i]
  BY DEF Progress, Going, Live, Op, OpOf, IrpSectors
<1> DEFINE i == item'[k].irp
           S == Span(irp[i].first, irp[i].len)
           Done == /\ moved'[i] \subseteq S
                   /\ \A s \in S : s \in moved'[i] <=> ~Waits(k, s)'
                   /\ irp[i].op = "read" => DOMAIN seen'[i] = moved'[i]
<1>1. CASE Accept /\ own'["main"] = k /\ i = taken
  <2>1. /\ taken \in Irps /\ moved'[taken] = {} /\ DOMAIN seen'[taken] = {} /\ irp' = irp
    BY <1>1, AcceptsNew
  <2>2. pc'["main"] = "fragment" /\ next' = irp[taken].first
    BY <1>1, <2>1 DEF Accept, GetItem, Goto, Links, Shape, PcShape, Threads
  <2>3. irp[taken].first \in Nat /\ irp[taken].len \in Nat
    BY <2>1 DEF Links, Shape, IrpShape, IrpRecords
  <2>4. \A s \in S : s >= next'
    BY <1>1, <2>2, <2>3 DEF Span
  <2>5. \A s \in S : Waits(k, s)'
    BY <1>1, <2>2, <2>4 DEF Waits, Uncut, Cutting
  <2> QED
    BY <1>1, <2>1, <2>5
<1>2. CASE Going(k) /\ i = item[k].irp /\ i \in Irps /\ irp'[i] = irp[i]
  <2>0. /\ S = IrpSectors(i) /\ irp[i].op \in {"read", "write"}
        /\ moved[i] \subseteq S
        /\ \A s \in S : s \in moved[i] <=> ~Waits(k, s)
        /\ irp[i].op = "read" => DOMAIN seen[i] = moved[i]
    BY <1>2 DEF Progress, Op, OpOf, IrpSectors
  <2>1. \A s \in S : Waits(k, s)' <=> (Waits(k, s) /\ ~(DoPiece /\ own["io"] = k /\ s \in todo[1]))
    BY <1>2, <2>0, WaitsOn
  <2>2. CASE DoPiece /\ own["io"] = k
    <3>1. /\ moved'[i] = moved[i] \cup todo[1] /\ todo[1] \subseteq S
          /\ irp[i].op = "read" => ReadPiece(todo[1])
      BY <1>2, <2>0, <2>2, PieceSucceeds DEF Op, OpOf
    <3>2. irp[i].op = "read" => DOMAIN seen'[i] = moved'[i]
      <4> SUFFICES ASSUME irp[i].op = "read"
                   PROVE  DOMAIN seen'[i] = moved'[i]
        OBVIOUS
      <4>1. seen'[i] = Merge(seen[i], [s \in todo[1] |-> PlainContent(s)[1]])
        BY <1>2, <2>2, <3>1 DEF ReadPiece, IoIrp, Histories
      <4> QED
        BY <2>0, <3>1, <4>1 DEF Merge
    <3> HIDE DEF S, i
    <3>3. \A s \in S : s \in moved'[i] <=> ~Waits(k, s)'
      BY <2>0, <2>1, <2>2, <3>1
    <3> QED
      BY <1>2, <2>0, <3>1, <3>2, <3>3 DEF S, i
  <2>3. CASE ~(DoPiece /\ own["io"] = k)
    <3>1. ASSUME ReadMisaligned \/ DecryptMisaligned, own["main"] = k
          PROVE  FALSE
      BY <1>2, <2>0, <3>1 DEF ReadMisaligned, DecryptMisaligned, Goto, Links, Kinds, KindsMain,
         Op, OpOf
    <3>2. ASSUME ReadDone \/ DecryptFragment
          PROVE  UNCHANGED <<moved, seen>>
      BY ZenonT(60), <3>2 DEF ReadDone, DecryptFragment, outerVars, diskVars
    <3>3. moved'[i] = moved[i] /\ seen'[i] = seen[i]
      BY <1>2, <2>3, <3>1, <3>2, OnlyServer DEF Going
    <3> HIDE DEF S, i
    <3> QED
      BY <1>2, <2>0, <2>1, <2>3, <3>3 DEF S, i
  <2> QED
    BY <2>2, <2>3
<1> QED
  BY <1>1, <1>2, GoesOn

(* A buffer that is to be read into is empty.                              *)
ForReading(r) == irp[item[r.item].irp].op = "read" => fragment[r.buf] = Empty
Vacant == \A r \in Requests : Loaded(r) => ForReading(r)

(* That stays so until the I/O thread reads into it.                       *)
LEMMA VacantStep ==
  ASSUME Links, Buffered, ToDo, Filled, Vacant, [QueueStep]_vars
  PROVE  Vacant'
<1> SUFFICES ASSUME NEW r \in Requests, Loaded(r)',
                    irp'[item'[r.item].irp].op = "read"
             PROVE  fragment'[r.buf] = Empty
  BY DEF Vacant, ForReading, Empty, Garbage
<1>1. CASE Loaded(r)
  <2>1. Pipe(r) /\ Pipe(r)' /\ r.buf \in Fragments /\ ~fragmentFree[r.buf]
        /\ (IoUses => req["io"].buf # r.buf)
    BY <1>1, LoadedBuffer DEF Loaded, Pipe
  <2>2. item'[r.item].irp = item[r.item].irp /\ irp'[item[r.item].irp] = irp[item[r.item].irp]
    BY <2>1, PipeKept
  <2>3. fragment'[r.buf] = fragment[r.buf]
    BY <2>1, BufferKept DEF Filled
  <2> QED
    BY <1>1, <2>2, <2>3 DEF Vacant, ForReading
<1>2. CASE FillFragment /\ r = req["main"]
  <2>1. pc["main"] = "buffer" /\ UNCHANGED <<irp, item, own, req>>
    BY <1>2 DEF FillFragment, Goto, irpVars, poolVars, handVars
  <2>2. r.buf = active /\ r.item = own["main"] /\ active \in DOMAIN fragment
    BY <1>2, <2>1 DEF Buffered, Links, Hands, Filled, Shape, MainShape
  <2> QED
    BY <1>2, <2>1, <2>2 DEF FillFragment, MainIrp
<1> QED
  BY <1>1, <1>2, LoadStep

(* While nothing is being written, the read-ahead buffer holds what is on  *)
(* the disk.                                                               *)
Fresh == ~(IoUses /\ Writing) =>
           \A l \in DOMAIN readAhead : l \in Locations /\ readAhead[l] = disk[l]

(* The buffer is discarded after a write.                                  *)
LEMMA FreshStep ==
  ASSUME Links, ToDo, Fresh, [QueueStep]_vars
  PROVE  Fresh'
<1> DEFINE k == own["io"]
<1> SUFFICES ASSUME ~(IoUses' /\ irp'[item'[own'["io"]].irp].op = "write")
             PROVE  \A l \in DOMAIN readAhead' : l \in Locations /\ readAhead'[l] = disk'[l]
  BY DEF Fresh, Writing, IoIrp, Locations
<1>1. CASE readAhead' = Empty
  BY <1>1 DEF Empty
<1>2. CASE ReadAhead
  <2>1. disk' = disk
    BY <1>2 DEF ReadAhead, outerVars, diskVars
  <2> QED
    BY <1>1, <1>2, <2>1 DEF ReadAhead
<1>3. CASE readAhead' = readAhead /\ ~WriteDone
  <2>1. ASSUME IoUses, Writing
        PROVE  FALSE
    <3>1. ~ReadDone
      BY <2>1 DEF ReadDone
    <3>2. own'["io"] = k /\ req'["io"] = req["io"] /\ IoUses'
      <4>1. CASE DoPiece
        BY <4>1 DEF DoPiece, Goto, handVars, IoUses, Links, Shape, PcShape, Threads
      <4> QED
        BY <1>3, <2>1, <3>1, <4>1, UsesOn DEF IoUses
    <3>3. /\ req["io"] \in Requests /\ req["io"].item = k
      BY <2>1 DEF IoUses, Links, Shape, RequestShape, Hands, Threads
    <3>4. PICK r \in Requests : r = req["io"]
      BY <3>3
    <3>5. Pipe(r) /\ Pipe(r)'
      BY <2>1, <3>2, <3>4 DEF Pipe
    <3>6. item'[r.item].irp = item[r.item].irp /\ irp'[item[r.item].irp] = irp[item[r.item].irp]
      BY <3>5, PipeKept
    <3> QED
      BY <2>1, <3>2, <3>3, <3>4, <3>6 DEF Writing, IoIrp
  <2>2. disk' = disk
    <3>1. ASSUME DoPiece, ~Writing
          PROVE  disk' = disk
      BY <3>1, PieceDone DEF ReadPiece
    <3>2. DoPiece => IoUses
      BY DEF DoPiece, IoUses
    <3> QED
      BY <2>1, <3>1, <3>2, DiskFrame
  <2> QED
    BY <1>3, <2>1, <2>2 DEF Fresh
<1>4. CASE WriteDone \/ HoldConfirm
  BY <1>1, <1>4 DEF WriteDone, HoldConfirm, AfterWrite
<1> QED
  BY <1>2, <1>3, <1>4, ReadAheadCases, StepKnown

(* What a sector holds, and the unit it is encrypted under.                *)
Key(s) == IF s \in Area THEN Unit(s) ELSE Plain

(* It is found where it is kept.                                           *)
LEMMA SectorFound ==
  ASSUME Readable, NEW s \in Sectors
  PROVE  disk[Location(s, Area)] = <<PlainContent(s)[1], Key(s)>>
<1> DEFINE c == disk[Location(s, Area)]
<1>1. c \in Writers \X {Key(s)}
  BY DEF Readable, Key
<1> HIDE DEF c
<1>2. c = <<c[1], Key(s)>> /\ c[2] = Key(s)
  BY <1>1
<1>3. CASE s \in Area
  BY <1>2, <1>3 DEF PlainContent, Opened, Key, c
<1>4. CASE s \notin Area
  BY <1>2, <1>4 DEF PlainContent, Location, c
<1> QED
  BY <1>3, <1>4

(* What the I/O thread works on is live.                                   *)
IoLives == IoUses => Live(own["io"])

(* That is one of the links.                                               *)
LEMMA IoLive == Links => IoLives
  BY LiveOnes DEF IoLives, IoUses, Links, Hands

(* What the I/O thread has read for a fragment so far is in its buffer,    *)
(* still encrypted.                                                        *)
Found(i, S) == [s \in S |-> <<seen[i][s], Key(s)>>]
Received ==
  LET k == own["io"]
      i == item[k].irp
      r == req["io"] IN
  IoUses /\ Op(k) = "read" /\ item[k].status = "ok" =>
    fragment[r.buf] = Found(i, FragmentSectors(r) \cap moved[i])

(* The piece that has been read is added to it, be it from the device or   *)
(* from the read-ahead buffer.                                             *)
LEMMA PieceReceived ==
  ASSUME Links, Volume, Cut, ToDo, Filled, Readable, Fresh, Fitting, NoIoAfterFailure,
         Histories, Progress, Received, DoPiece, Op(own["io"]) = "read",
         item'[own["io"]].status = "ok"
  PROVE  LET i == item[own["io"]].irp
             r == req["io"] IN
         fragment'[r.buf] = [s \in FragmentSectors(r) \cap moved'[i] |-> <<seen'[i][s], Key(s)>>]
<1> DEFINE k == own["io"]
           i == item[k].irp
           r == req["io"]
           P == todo[1]
           F == FragmentSectors(r)
           source == IF Cached(Place(P)) THEN readAhead ELSE disk
<1>1. /\ k \in Items /\ i \in Irps /\ pc["io"] = "device" /\ P \subseteq F
      /\ F \subseteq IrpSectors(i) /\ r.enc = F \cap Area
      /\ moved'[i] = moved[i] \cup P /\ ReadPiece(P)
  BY PieceSucceeds
<1>2. Going(k) /\ item[k].status = "ok" /\ IoUses /\ r \in Requests
  BY <1>1, LiveOnes DEF Going, NoIoAfterFailure, IoUses, Links, Hands, Shape, RequestShape,
     Threads
<1>3. r.buf \in Fragments /\ DOMAIN fragment = Fragments
  BY <1>2, RequestFields DEF Filled
<1>4. DOMAIN seen[i] = moved[i]
  BY <1>1, <1>2 DEF Progress
<1>5. F \subseteq Sectors
  BY <1>1, <1>2 DEF Cut, Cuts, Pipe
<1>6. \A s \in P : source[Location(s, r.enc)] = <<PlainContent(s)[1], Key(s)>>
  <2> SUFFICES ASSUME NEW s \in P
               PROVE  source[Location(s, r.enc)] = <<PlainContent(s)[1], Key(s)>>
    OBVIOUS
  <2>1. s \in Sectors /\ s \in F
    BY <1>1, <1>5
  <2>2. Location(s, r.enc) = Location(s, Area)
    BY <1>1, <2>1 DEF Location
  <2>3. ~Writing
    BY <1>1 DEF Writing, IoIrp, Op, OpOf
  <2>4. Location(s, r.enc) \in Place(P)
    BY DEF Place, IoRequest
  <2>5. source[Location(s, r.enc)] = disk[Location(s, r.enc)]
    BY <2>3, <2>4 DEF Fresh, Cached
  <2> QED
    BY <2>1, <2>2, <2>5, SectorFound
<1>7. fragment'[r.buf] = Merge(fragment[r.buf], [s \in P |-> source[Location(s, r.enc)]])
  BY <1>1, <1>3 DEF ReadPiece, IoRequest
<1>8. seen'[i] = Merge(seen[i], [s \in P |-> PlainContent(s)[1]])
  BY <1>1 DEF ReadPiece, IoIrp, Histories
<1>9. fragment[r.buf] = [s \in F \cap moved[i] |-> <<seen[i][s], Key(s)>>]
  BY <1>2 DEF Received, Found
<1> HIDE DEF k, i, r, P, F, source
<1>10. [s \in P |-> source[Location(s, r.enc)]] = [s \in P |-> <<PlainContent(s)[1], Key(s)>>]
  BY <1>6
<1>11. \A s \in F \cap moved'[i] :
         seen'[i][s] = IF s \in P THEN PlainContent(s)[1] ELSE seen[i][s]
  BY <1>1, <1>4, <1>8 DEF Merge
<1>12. fragment'[r.buf] =
         [s \in (F \cap moved[i]) \cup P |->
            IF s \in P THEN <<PlainContent(s)[1], Key(s)>> ELSE <<seen[i][s], Key(s)>>]
  BY <1>7, <1>9, <1>10 DEF Merge
<1>13. (F \cap moved[i]) \cup P = F \cap moved'[i]
  BY <1>1
<1>14. fragment'[r.buf] = [s \in F \cap moved'[i] |-> <<seen'[i][s], Key(s)>>]
  BY <1>11, <1>12, <1>13
<1> QED
  BY <1>14 DEF i, k, r, F

(* What a waiting fragment will get has not been read yet.                 *)
LEMMA NothingYet ==
  ASSUME Links, Fitting, Progress, TakeRequest, Permitted(queue["io"][1].item),
         Op(queue["io"][1].item) \in {"read", "write"}
  PROVE  LET r == queue["io"][1] IN
         FragmentSectors(r) \cap moved[item[r.item].irp] = {}
<1> DEFINE r == queue["io"][1]
<1>1. 1 \in Queued("io") /\ r \in Requests /\ InLine(r)
  BY TakeRequestMoves DEF InLine
<1>2. r.item \in Items /\ Going(r.item)
  BY <1>1, Holders, LiveOnes DEF Going, Permitted
<1>3. FragmentSectors(r) \subseteq IrpSectors(item[r.item].irp)
  BY <1>1 DEF Fitting, Fits
<1>4. \A s \in FragmentSectors(r) : Waits(r.item, s)
  BY <1>1 DEF Waits, ForIo
<1> QED
  BY <1>2, <1>3, <1>4 DEF Progress

(* That stays so.                                                          *)
LEMMA ReceivedStep ==
  ASSUME Links, Volume, Cut, Buffered, ToDo, Filled, Readable, Fresh, Vacant, Fitting,
         NoIoAfterFailure, Histories, Progress, Received, [QueueStep]_vars
  PROVE  Received'
<1> USE DEF Links, Shape, PcShape, Threads
<1>0. \A s : Key(s)' = Key(s)
  BY FixedStep DEF Key, Area, Unit
<1> SUFFICES ASSUME IoUses', item'[own'["io"]].status = "ok",
                    irp'[item'[own'["io"]].irp].op = "read"
             PROVE  LET i == item'[own'["io"]].irp
                        r == req'["io"] IN
                    fragment'[r.buf] =
                      [s \in Span(r.first, r.len) \cap moved'[i] |-> <<seen'[i][s], Key(s)>>]
  BY <1>0 DEF Received, Found, Op, OpOf, FragmentSectors, Span
<1>1. CASE TakeRequest
  <2> DEFINE r == queue["io"][1]
             i == item[r.item].irp
  <2>1. /\ 1 \in Queued("io") /\ r \in Requests /\ r.item \in Items
        /\ req'["io"] = r /\ own'["io"] = r.item /\ irp' = irp
    BY <1>1, TakeRequestMoves DEF RequestShape, OwnShape
  <2>2. Permitted(r.item) /\ item' = item
    <3>1. Permitted(r.item)
      BY <1>1, <2>1 DEF TakeRequest, ItemShape, ItemRecords
    <3> QED
      BY <1>1, <3>1 DEF TakeRequest, ItemShape, ItemRecords
  <2>3. FragmentSectors(r) \cap moved[i] = {}
    BY <1>1, <2>1, <2>2, NothingYet DEF Op, OpOf
  <2>4. fragment[r.buf] = Empty
    BY <2>1, <2>2 DEF Vacant, ForReading, Loaded
  <2>5. fragment' = fragment /\ moved' = moved /\ seen' = seen
    BY <1>1 DEF TakeRequest, fragmentVars, outerVars, diskVars
  <2> HIDE DEF r, i
  <2>6. fragment'[r.buf] = [s \in FragmentSectors(r) \cap moved[i] |-> <<seen'[i][s], Key(s)>>]
    BY <2>3, <2>4, <2>5 DEF Empty
  <2> QED
    BY <2>1, <2>2, <2>5, <2>6 DEF FragmentSectors, i
<1>2. CASE DoPiece
  <2>1. UNCHANGED <<own, req, irp>> /\ pc["io"] = "device"
    BY <1>2 DEF DoPiece, handVars, irpVars
  <2>2. item'[own["io"]].irp = item[own["io"]].irp
    BY <1>2, <2>1, OnlyStatus, Holders DEF Hands
  <2> QED
    BY <1>2, <2>1, <2>2, PieceReceived DEF FragmentSectors, Op, OpOf
<1>3. CASE ~TakeRequest /\ ~DoPiece
  <2> DEFINE k == own["io"]
             i == item[k].irp
             r == req["io"]
  <2>1. IoUses /\ own'["io"] = k /\ req'["io"] = r /\ ~WriteDone /\ ~ReadDone
    <3>1. pc["io"] \in IoHolds /\ req'["io"] = req["io"] /\ own'["io"] = own["io"]
      BY <1>3, HandKept DEF IoUses, IoHolds
    <3>2. ~WriteDone /\ ~ReadDone
      BY DEF WriteDone, ReadDone, Goto, IoUses, AfterRequest
    <3>3. ~PassesOn
      BY DEF PassesOn, PostCompletion, Goto, IoUses
    <3>4. UNCHANGED pc["io"] \/ ~IoUses'
      BY <1>3, <3>1, <3>2, <3>3, IoMoves DEF IoUses, IoHolds, Wake, Drained, CompleteIrp, Decrement,
         SignalIdle, ReleaseItem, ReleaseRequest, ReadAhead, Goto
    <3> QED
      BY <3>1, <3>2, <3>4 DEF IoUses
  <2>2. /\ k \in Items /\ Live(k) /\ r \in Requests /\ r.buf \in Fragments /\ ~fragmentFree[r.buf]
    BY <2>1, Holders, LiveOnes, RequestFields DEF IoUses, Hands, RequestShape, Buffered
  <2>3. LiveIn(item', pc', own', k)
    <3>1. Links'
      BY LinksStep, StepKnown
    <3>2. pc'["io"] \in {"device", "done"} /\ own'["io"] # 0
      BY <2>1, <2>2, QueueAssumption DEF IoUses, Items
    <3>3. IoLives'
      BY <3>1, IoLive, PTL
    <3> QED
      BY <2>1, <3>2, <3>3 DEF IoLives, Live
  <2>4. Going(k) /\ item'[k].irp = i /\ irp'[i] = irp[i] /\ i \in Irps
    <3>1. ~(Accept /\ own'["main"] = k)
      BY <2>2, GetItemTakes DEF Live, LiveIn, InUse, OwnShape
    <3> QED
      BY <2>1, <2>2, <2>3, <3>1, GoesOn
  <2>5. fragment'[r.buf] = fragment[r.buf]
    BY <1>3, <2>1, <2>2, BufferKept DEF Filled, IoUses
  <2>6. moved'[i] = moved[i] /\ seen'[i] = seen[i]
    <3>1. ASSUME ReadMisaligned \/ DecryptMisaligned, own["main"] = k
          PROVE  FALSE
      BY <2>1, <2>4, <3>1 DEF ReadMisaligned, DecryptMisaligned, Goto, Kinds, KindsMain, Op, OpOf
    <3>2. ASSUME DecryptFragment
          PROVE  UNCHANGED <<moved, seen>>
      BY ZenonT(60), <3>2 DEF DecryptFragment, outerVars, diskVars
    <3> QED
      BY <1>3, <2>1, <2>2, <2>3, <3>1, <3>2, OnlyServer
  <2>7. fragment[r.buf] = [s \in FragmentSectors(r) \cap moved[i] |-> <<seen[i][s], Key(s)>>]
    BY <2>1, <2>4 DEF Received, Found, Op, OpOf, Going
  <2> HIDE DEF k, i, r
  <2>8. fragment'[r.buf] = [s \in FragmentSectors(r) \cap moved'[i] |-> <<seen'[i][s], Key(s)>>]
    BY <2>5, <2>6, <2>7
  <2> QED
    BY <2>1, <2>4, <2>8 DEF FragmentSectors
<1> QED
  BY <1>1, <1>2, <1>3

(* The sectors that are in the buffer of the I/O thread still, and those   *)
(* that the completion thread has yet to decrypt.                          *)
Underway(k) == IF IoUses /\ own["io"] = k THEN FragmentSectors(req["io"]) ELSE {}
Posting(k, s) ==
  pc["io"] \in {"post", "postAhead"} /\ own["io"] = k /\ s \in FragmentSectors(req["io"])
Posted(k, s) == \E n \in Queued("completion") :
  queue["completion"][n].item = k /\ s \in FragmentSectors(queue["completion"][n])
Undecrypted(k, s) == Posting(k, s) \/ Posted(k, s)

(* A fragment stays in the buffer until it has been done.                  *)
LEMMA TransitOn ==
  ASSUME Links, [QueueStep]_vars, NEW k \in Items,
         ~(TakeRequest /\ queue["io"][1].item = k),
         ~((WriteDone \/ ReadDone) /\ own["io"] = k)
  PROVE  Underway(k)' = Underway(k)
<1> USE DEF Links, Shape, PcShape, Threads
<1>1. CASE TakeRequest
  <2>1. own["io"] = 0 /\ own'["io"] = queue["io"][1].item
    BY <1>1, TakeRequestMoves DEF OwnShape
  <2> QED
    BY <1>1, <2>1, QueueAssumption DEF Underway, Items
<1>2. CASE DoPiece
  <2>1. UNCHANGED <<own, req>> /\ IoUses /\ IoUses'
    BY <1>2 DEF DoPiece, Goto, handVars, IoUses
  <2> QED
    BY <2>1 DEF Underway, FragmentSectors, Span
<1>3. CASE WriteDone \/ ReadDone
  <2>1. UNCHANGED <<own, req>> /\ ~IoUses'
    BY <1>3 DEF WriteDone, ReadDone, Goto, handVars, IoUses, AfterRequest
  <2> QED
    BY <1>3, <2>1 DEF Underway
<1>4. CASE IoUses /\ ~DoPiece /\ ~WriteDone /\ ~ReadDone
  <2>1. UNCHANGED <<pc["io"], own["io"], req["io"]>>
    BY <1>4, UsesOn
  <2> QED
    BY <2>1 DEF Underway, IoUses, FragmentSectors, Span
<1>5. CASE ~IoUses /\ ~TakeRequest
  <2>1. ~IoUses'
    <3>1. CASE pc'["io"] = "device"
      BY <1>5, <3>1, IoWork DEF IoUses, DoPiece
    <3>2. CASE pc'["io"] = "done"
      <4>1. ~(Wake("io") \/ Drained("io") \/ CompleteIrp("io") \/ Decrement("io")
              \/ SignalIdle("io") \/ ReleaseItem("io") \/ ReleaseRequest("io"))
        BY <3>2 DEF Wake, Drained, CompleteIrp, Decrement, AfterDecrement, SignalIdle,
           ReleaseItem, ReleaseRequest, Goto
      <4>2. ~(DoPiece \/ WriteDone \/ ReadDone \/ PassesOn \/ ReadAhead)
        BY <1>5, <3>2 DEF IoUses, DoPiece, WriteDone, ReadDone, PassesOn, PostCompletion,
           ReadAhead, Goto
      <4> QED
        BY <1>5, <3>2, <4>1, <4>2, IoMoves DEF IoUses
    <3> QED
      BY <3>1, <3>2 DEF IoUses
  <2> QED
    BY <1>5, <2>1 DEF Underway
<1> QED
  BY <1>1, <1>2, <1>3, <1>4, <1>5

(* Undecrypted data is made by ReadDone, and it is gone when the           *)
(* completion thread has taken the fragment.                               *)
LEMMA UndecryptedOn ==
  ASSUME Links, Lined, [QueueStep]_vars, NEW k \in Items, NEW s
  PROVE  LET r == queue["completion"][1] IN
         Undecrypted(k, s)' <=>
           \/ ReadDone /\ own["io"] = k /\ s \in FragmentSectors(req["io"])
           \/ /\ Undecrypted(k, s)
              /\ ~(DecryptFragment /\ r.item = k /\ s \in FragmentSectors(r))
<1> USE DEF Links, Shape, PcShape, Threads
<1> DEFINE a == Posting(k, s)
           b == Posted(k, s)
           r == queue["completion"][1]
<1>1. CASE ReadDone
  <2>1. /\ UNCHANGED <<own, req, queue>> /\ pc["io"] = "done" /\ ~DecryptFragment
        /\ pc'["io"] \in {"post", "postAhead"}
    <3>1. UNCHANGED <<own, req, queue>> /\ pc["io"] = "done" /\ pc'["io"] \in {"post", "postAhead"}
          /\ pc'["completion"] = pc["completion"]
      BY <1>1 DEF ReadDone, Goto, handVars, queueVars
    <3>2. ~DecryptFragment
      BY <3>1 DEF DecryptFragment, AfterRequest
    <3> QED
      BY <3>1, <3>2
  <2>2. (b' <=> b) /\ ~a
    BY <2>1 DEF Posting, Posted, Queued, FragmentSectors, Span
  <2>3. a' <=> own["io"] = k /\ s \in FragmentSectors(req["io"])
    BY <2>1 DEF Posting, FragmentSectors, Span
  <2> QED
    BY <1>1, <2>1, <2>2, <2>3 DEF Undecrypted
<1>2. CASE PassesOn
  <2>1. ~DecryptFragment /\ ~ReadDone /\ pc'["io"] \notin {"post", "postAhead"}
        /\ pc["io"] \in {"post", "postAhead"} /\ req["io"].item = own["io"]
    <3>1. pc'["completion"] = pc["completion"] /\ pc["io"] \in {"post", "postAhead"}
          /\ pc'["io"] \notin {"post", "postAhead"} /\ req["io"].item = own["io"]
      BY <1>2, PassesOnMoves
    <3> QED
      BY <3>1 DEF DecryptFragment, AfterRequest, ReadDone
  <2>2. ~a'
    BY <2>1 DEF Posting
  <2>3. b' <=> (b \/ a)
    BY SMTT(60), <1>2, <2>1, PassesOnMoves DEF Posting, Posted, FragmentSectors, Span
  <2> QED
    BY <2>1, <2>2, <2>3 DEF Undecrypted
<1>3. CASE DecryptFragment
  <2>1. /\ UNCHANGED <<pc["io"], own["io"], req["io"]>> /\ ~ReadDone
        /\ 1 \in Queued("completion") /\ r \in Requests /\ queue["completion"] # <<>>
        /\ queue' = [queue EXCEPT !["completion"] = Tail(@)]
    <3>1. /\ UNCHANGED <<pc["io"], own["io"], req["io"]>> /\ pc["completion"] = "pop"
          /\ pc'["completion"] # "pop"
      BY <1>3, DecryptFragmentMoves DEF OwnShape, RequestShape, AfterRequest
    <3>2. ~ReadDone
      BY <3>1 DEF ReadDone, Goto
    <3> QED
      BY <1>3, <3>1, <3>2, DecryptFragmentMoves
  <2>2. a' <=> a
    BY <2>1 DEF Posting, FragmentSectors, Span
  <2>3. /\ \A n \in Queued("completion")' :
             queue'["completion"][n] = queue["completion"][n + 1] /\ n + 1 \in Queued("completion")
        /\ \A n \in Queued("completion") :
             n = 1 \/ (n - 1 \in Queued("completion")'
                       /\ queue'["completion"][n - 1] = queue["completion"][n])
    BY <2>1, RemovedBack, Removed
  <2>4. b <=> (b' \/ (r.item = k /\ s \in FragmentSectors(r)))
    <3>1. ASSUME b
          PROVE  b' \/ (r.item = k /\ s \in FragmentSectors(r))
      <4>1. PICK n \in Queued("completion") :
              /\ queue["completion"][n].item = k
              /\ s \in FragmentSectors(queue["completion"][n])
        BY <3>1 DEF Posted
      <4>2. CASE n = 1
        BY <4>1, <4>2
      <4>3. CASE n # 1
        <5>1. n - 1 \in Queued("completion")'
              /\ queue'["completion"][n - 1] = queue["completion"][n]
          BY <2>3, <4>3
        <5> QED
          BY <4>1, <5>1 DEF Posted, FragmentSectors, Span
      <4> QED
        BY <4>2, <4>3
    <3>2. ASSUME b'
          PROVE  b
      <4>1. PICK n \in Queued("completion")' :
              /\ queue'["completion"][n].item = k
              /\ s \in FragmentSectors(queue'["completion"][n])
        BY <3>2 DEF Posted, FragmentSectors, Span
      <4>2. n + 1 \in Queued("completion") /\ queue["completion"][n + 1] = queue'["completion"][n]
        BY <2>3
      <4> QED
        BY <4>1, <4>2 DEF Posted
    <3>3. ASSUME r.item = k, s \in FragmentSectors(r)
          PROVE  b
      BY <2>1, <3>3 DEF Posted
    <3> QED
      BY <3>1, <3>2, <3>3
  <2>5. ASSUME r.item = k, s \in FragmentSectors(r)
        PROVE  ~a /\ ~b'
    <3>1. \A n \in Queued("completion") : n # 1 =>
            ~(queue["completion"][n].item = k /\ s \in FragmentSectors(queue["completion"][n]))
      BY <2>1, <2>5 DEF Lined, Separate
    <3>2. ~a
      <4>1. pc["io"] \in {"post", "postAhead"} =>
              pc["io"] \in IoHolds /\ req["io"].item = own["io"]
        BY DEF IoHolds, Hands
      <4> QED
        BY <2>1, <2>5, <4>1 DEF Lined, Separate, Posting
    <3>3. \A n \in Queued("completion")' : n + 1 # 1
      BY DEF Queued
    <3> HIDE DEF r
    <3>4. ~b'
      BY <2>3, <3>1, <3>3 DEF Posted, FragmentSectors, Span
    <3> QED
      BY <3>2, <3>4
  <2> QED
    BY <1>3, <2>1, <2>2, <2>4, <2>5 DEF Undecrypted
<1>4. CASE ~ReadDone /\ ~PassesOn /\ ~DecryptFragment
  <2>1. queue'["completion"] = queue["completion"]
    BY <1>4, QueueChanges, QueueFragmentMoves, TakeRequestMoves
  <2>2. b' <=> b
    BY <2>1 DEF Posted, Queued, FragmentSectors, Span
  <2>3. a' <=> a
    <3>1. CASE UNCHANGED <<pc["io"], own["io"], req["io"], todo>>
      BY <3>1 DEF Posting, FragmentSectors, Span
    <3>2. CASE Wake("io") \/ Drained("io") \/ CompleteIrp("io") \/ Decrement("io")
               \/ SignalIdle("io") \/ ReleaseItem("io") \/ ReleaseRequest("io")
               \/ TakeRequest \/ DoPiece \/ WriteDone \/ ReadAhead
      <4>1. pc["io"] \notin {"post", "postAhead"} /\ pc'["io"] \notin {"post", "postAhead"}
        BY <3>2 DEF Wake, Drained, CompleteIrp, Decrement, AfterDecrement, SignalIdle,
           ReleaseItem, ReleaseRequest, TakeRequest, DoPiece, WriteDone, AfterRequest, ReadAhead,
           Goto
      <4> QED
        BY <4>1 DEF Posting
    <3> QED
      BY <1>4, <3>1, <3>2, IoMoves
  <2> QED
    BY <1>4, <2>2, <2>3 DEF Undecrypted
<1> QED
  BY <1>1, <1>2, <1>3, <1>4

(* Until the keys may be erased, the buffer of an IRP that goes on holds   *)
(* what has been read for it, decrypted by now or not.                     *)
Content(k, i, s) == <<seen[i][s], IF Undecrypted(k, s) THEN Key(s) ELSE Plain>>
Delivered ==
  ~blocked => \A k \in Items : Going(k) /\ Op(k) = "read" =>
    LET i == item[k].irp IN
    data[i] = [s \in moved[i] \ Underway(k) |-> Content(k, i, s)]

(* A device operation for it adds to what is in transit.                   *)
LEMMA DeliveredPiece ==
  ASSUME Links, ToDo, Lined, Fitting, NoIoAfterFailure, Histories, Progress, [QueueStep]_vars,
         DoPiece, NEW k \in Items, own["io"] = k, Going(k), Op(k) = "read",
         item'[k].status = "ok", NEW i \in Irps, item[k].irp = i,
         data[i] = [s \in moved[i] \ Underway(k) |-> Content(k, i, s)]
  PROVE  data'[i] = [s \in moved'[i] \ Underway(k)' |->
                       <<seen'[i][s], IF Undecrypted(k, s)' THEN Key(s) ELSE Plain>>]
<1> DEFINE F == FragmentSectors(req["io"])
           P == todo[1]
<1>1. /\ pc["io"] = "device" /\ P \subseteq F /\ moved'[i] = moved[i] \cup P /\ data' = data
      /\ ReadPiece(P)
  BY PieceSucceeds
<1>2. Underway(k) = F /\ Underway(k)' = F
  BY <1>1, TransitOn DEF Underway, IoUses, TakeRequest, WriteDone, ReadDone, Goto
<1>3. seen'[i] = Merge(seen[i], [s \in P |-> PlainContent(s)[1]])
  BY <1>1 DEF ReadPiece, IoIrp, Histories
<1>4. DOMAIN seen[i] = moved[i]
  BY DEF Progress
<1>5. \A s : Undecrypted(k, s)' <=> Undecrypted(k, s)
  <2>1. ~ReadDone /\ ~DecryptFragment
    BY <1>1, DecryptFragmentMoves DEF ReadDone, DoPiece, Goto, Links, Shape, PcShape, Threads,
       AfterRequest
  <2> QED
    BY <2>1, UndecryptedOn
<1> HIDE DEF F, P
<1>6. moved'[i] \ F = moved[i] \ F
  BY <1>1
<1>7. \A s \in moved[i] \ F : seen'[i][s] = seen[i][s]
  BY <1>1, <1>3, <1>4 DEF Merge
<1>8. \A s \in moved[i] \ F :
        <<seen'[i][s], IF Undecrypted(k, s)' THEN Key(s) ELSE Plain>> = Content(k, i, s)
  BY <1>5, <1>7 DEF Content
<1> QED
  BY <1>1, <1>2, <1>6, <1>8

(* When the fragment has been done, its data is in the buffer of the IRP.  *)
LEMMA DeliveredFragment ==
  ASSUME Links, ToDo, Lined, Fitting, Histories, Progress, Received, [QueueStep]_vars,
         ReadDone, NEW k \in Items, own["io"] = k, Going(k), Op(k) = "read",
         NEW i \in Irps, item[k].irp = i,
         data[i] = [s \in moved[i] \ Underway(k) |-> Content(k, i, s)]
  PROVE  data'[i] = [s \in moved'[i] \ Underway(k)' |->
                       <<seen'[i][s], IF Undecrypted(k, s)' THEN Key(s) ELSE Plain>>]
<1> DEFINE F == FragmentSectors(req["io"])
<1>1. /\ pc["io"] = "done" /\ UNCHANGED <<moved, seen, req, own, item>>
      /\ data' = [data EXCEPT ![IoIrp] =
           IF item[own["io"]].status = "ok" THEN Merge(@, fragment[IoRequest.buf]) ELSE @]
      /\ pc'["io"] \in {"post", "postAhead"}
  BY DEF ReadDone, Goto, handVars, outerVars, diskVars, poolVars, Links, Shape, PcShape, Threads
<1>2. data'[i] = Merge(data[i], fragment[req["io"].buf])
  BY <1>1 DEF IoIrp, IoRequest, Going, Histories
<1>3. fragment[req["io"].buf] = [s \in F \cap moved[i] |-> <<seen[i][s], Key(s)>>]
  BY <1>1 DEF Received, Found, IoUses, Going
<1>4. Underway(k) = F /\ Underway(k)' = {}
  BY <1>1 DEF Underway, IoUses
<1>5. \A s : Undecrypted(k, s)' <=> (Undecrypted(k, s) \/ s \in F)
  <2>1. ~DecryptFragment
    BY <1>1, DecryptFragmentMoves DEF ReadDone, Goto, Links, Shape, PcShape, Threads,
       AfterRequest
  <2> QED
    BY <2>1, UndecryptedOn
<1> HIDE DEF F
<1>6. data'[i] = [s \in moved[i] |->
                    IF s \in F THEN <<seen[i][s], Key(s)>> ELSE Content(k, i, s)]
  <2>1. (moved[i] \ F) \cup (F \cap moved[i]) = moved[i]
    OBVIOUS
  <2>2. data'[i] = [s \in (moved[i] \ F) \cup (F \cap moved[i]) |->
                      IF s \in F THEN <<seen[i][s], Key(s)>> ELSE Content(k, i, s)]
    BY <1>2, <1>3, <1>4 DEF Merge
  <2> QED
    BY <2>1, <2>2
<1>7. \A s : (IF s \in F THEN <<seen[i][s], Key(s)>> ELSE Content(k, i, s)) =
               <<seen'[i][s], IF Undecrypted(k, s)' THEN Key(s) ELSE Plain>>
  BY <1>1, <1>5 DEF Content
<1>8. moved[i] = moved'[i] \ Underway(k)'
  BY <1>1, <1>4
<1> QED
  BY <1>6, <1>7, <1>8

(* The completion thread decrypts it there.                                *)
LEMMA DeliveredPlain ==
  ASSUME Links, ToDo, Lined, Fitting, Filled, Histories, Progress, [QueueStep]_vars, ~blocked,
         DecryptFragment, NEW k \in Items, queue["completion"][1].item = k, Going(k),
         NEW i \in Irps, item[k].irp = i,
         data[i] = [s \in moved[i] \ Underway(k) |-> Content(k, i, s)]
  PROVE  data'[i] = [s \in moved'[i] \ Underway(k)' |->
                       <<seen'[i][s], IF Undecrypted(k, s)' THEN Key(s) ELSE Plain>>]
<1> DEFINE r == queue["completion"][1]
           F == FragmentSectors(r)
           D == moved[i] \ Underway(k)
<1>1. UNCHANGED <<moved, seen>>
  BY ZenonT(60) DEF DecryptFragment, outerVars, diskVars
<1>2. data'[i] = Merge(data[i], [s \in r.enc \cap DOMAIN data[i] |-> Decrypt(data[i][s], Unit(s))])
  BY DEF DecryptFragment, Going, Histories
<1>3. 1 \in Queued("completion") /\ r \in Requests /\ r.enc = F \cap Area
  BY DecryptFragmentMoves DEF Fitting, Fits, InLine
<1>4. ~TakeRequest /\ ~WriteDone /\ ~ReadDone
  BY DecryptFragmentMoves, TakeRequestMoves DEF WriteDone, ReadDone, Goto, Links, Shape, PcShape,
     Threads, AfterRequest
<1>5. Underway(k)' = Underway(k)
  BY <1>4, TransitOn
<1>6. \A s : Undecrypted(k, s)' <=> (Undecrypted(k, s) /\ s \notin F)
  BY <1>4, UndecryptedOn
<1>7. \A s \in F : Undecrypted(k, s)
  BY <1>3 DEF Undecrypted, Posted
<1>8. ~keysErased
  BY DEF Filled
<1>9. \A s \in r.enc \cap D : Decrypt(data[i][s], Unit(s)) = <<seen[i][s], Plain>>
  <2> SUFFICES ASSUME NEW s \in r.enc \cap D
               PROVE  Decrypt(data[i][s], Unit(s)) = <<seen[i][s], Plain>>
    OBVIOUS
  <2>1. s \in Area /\ Undecrypted(k, s)
    BY <1>3, <1>7
  <2>2. data[i][s] = <<seen[i][s], Unit(s)>>
    BY <2>1 DEF Content, Key
  <2> QED
    BY <1>8, <2>2 DEF Decrypt, Opened
<1> HIDE DEF r, F, D
<1>10. data[i] = [s \in D |-> Content(k, i, s)] /\ DOMAIN data[i] = D
  BY DEF D
<1>11. data'[i] = [s \in D |-> IF s \in r.enc THEN <<seen[i][s], Plain>> ELSE Content(k, i, s)]
  <2>1. [s \in r.enc \cap D |-> Decrypt(data[i][s], Unit(s))] =
          [s \in r.enc \cap D |-> <<seen[i][s], Plain>>]
    BY <1>9
  <2>2. data'[i] = Merge([s \in D |-> Content(k, i, s)],
                         [s \in r.enc \cap D |-> <<seen[i][s], Plain>>])
    BY <1>2, <1>10, <2>1
  <2>3. D \cup (r.enc \cap D) = D
    OBVIOUS
  <2> QED
    BY <2>2, <2>3 DEF Merge
<1>12. \A s : (IF s \in r.enc THEN <<seen[i][s], Plain>> ELSE Content(k, i, s)) =
                <<seen[i][s], IF Undecrypted(k, s)' THEN Key(s) ELSE Plain>>
  <2> SUFFICES ASSUME NEW s
               PROVE  (IF s \in r.enc THEN <<seen[i][s], Plain>> ELSE Content(k, i, s)) =
                        <<seen[i][s], IF Undecrypted(k, s)' THEN Key(s) ELSE Plain>>
    OBVIOUS
  <2>1. CASE s \in r.enc
    BY <1>3, <1>6, <2>1
  <2>2. CASE s \in F /\ s \notin r.enc
    BY <1>3, <2>2 DEF Content, Key
  <2>3. CASE s \notin F /\ s \notin r.enc
    BY <1>6, <2>3 DEF Content
  <2> QED
    BY <2>1, <2>2, <2>3
<1> QED
  BY <1>1, <1>5, <1>11, <1>12 DEF D

(* That stays so.                                                          *)
LEMMA DeliveredStep ==
  ASSUME Links, ToDo, Filled, Lined, Fitting, NoIoAfterFailure, Histories, Clean, Progress,
         Received, Delivered, [QueueStep]_vars
  PROVE  Delivered'
<1>0. (\A s : Key(s)' = Key(s)) /\ (blocked => blocked')
  BY FixedStep, KeysStep DEF Key, Area, Unit
<1> SUFFICES ASSUME ~blocked', NEW k \in Items, item'[k].status = "ok",
                    LiveIn(item', pc', own', k), irp'[item'[k].irp].op = "read"
             PROVE  LET i == item'[k].irp IN
                    data'[i] = [s \in moved'[i] \ Underway(k)' |->
                                  <<seen'[i][s], IF Undecrypted(k, s)' THEN Key(s) ELSE Plain>>]
  BY <1>0 DEF Delivered, Going, Live, Op, OpOf, Content
<1>1. CASE Accept /\ own'["main"] = k /\ item'[k].irp = taken
  <2>1. moved'[taken] = {} /\ data'[taken] = Empty
    BY <1>1, AcceptsNew
  <2> QED
    BY <1>1, <2>1 DEF Empty
<1>2. ASSUME Going(k), item'[k].irp = item[k].irp, item[k].irp \in Irps,
             irp'[item[k].irp] = irp[item[k].irp]
      PROVE  LET i == item'[k].irp IN
             data'[i] = [s \in moved'[i] \ Underway(k)' |->
                           <<seen'[i][s], IF Undecrypted(k, s)' THEN Key(s) ELSE Plain>>]
  <2>0. PICK i \in Irps : item[k].irp = i /\ item'[k].irp = i
    BY <1>2
  <2>1. /\ ~blocked /\ Op(k) = "read" /\ Live(k) /\ item[k].status = "ok"
        /\ data[i] = [s \in moved[i] \ Underway(k) |-> Content(k, i, s)]
    BY <1>0, <1>2, <2>0 DEF Delivered, Op, OpOf, Going
  <2>2. CASE DoPiece /\ own["io"] = k
    BY <1>2, <2>0, <2>1, <2>2, DeliveredPiece
  <2>3. CASE ReadDone /\ own["io"] = k
    BY <1>2, <2>0, <2>1, <2>3, DeliveredFragment
  <2>4. CASE DecryptFragment /\ queue["completion"][1].item = k
    BY <1>2, <2>0, <2>1, <2>4, DeliveredPlain
  <2>5. CASE /\ ~(DoPiece /\ own["io"] = k) /\ ~(ReadDone /\ own["io"] = k)
             /\ ~(DecryptFragment /\ queue["completion"][1].item = k)
    <3>1. ~((ReadMisaligned \/ DecryptMisaligned) /\ own["main"] = k)
      BY <2>1 DEF ReadMisaligned, DecryptMisaligned, Goto, Links, Kinds, KindsMain
    <3>2. data'[i] = data[i] /\ moved'[i] = moved[i] /\ seen'[i] = seen[i]
      BY <2>0, <2>1, <2>5, <3>1, OnlyServer
    <3>3. \A s : Undecrypted(k, s)' <=> Undecrypted(k, s)
      BY <2>5, UndecryptedOn
    <3>4. moved[i] \ Underway(k)' = moved[i] \ Underway(k)
      <4>1. CASE TakeRequest /\ queue["io"][1].item = k
        <5> DEFINE r == queue["io"][1]
        <5>1. own["io"] = 0 /\ own'["io"] = k /\ req'["io"] = r
          BY <4>1, TakeRequestMoves DEF Links, Shape, OwnShape, RequestShape, Threads
        <5>2. Permitted(k)
          BY <2>1, <4>1 DEF TakeRequest, Permitted
        <5>3. FragmentSectors(r) \cap moved[i] = {}
          BY <2>0, <2>1, <4>1, <5>2, NothingYet
        <5>4. Underway(k) = {} /\ Underway(k)' \subseteq FragmentSectors(r)
          BY <5>1, QueueAssumption DEF Underway, Items, FragmentSectors, Span
        <5> HIDE DEF r
        <5> QED
          BY <5>3, <5>4
      <4>2. CASE ~(TakeRequest /\ queue["io"][1].item = k)
        <5>1. ~(WriteDone /\ own["io"] = k)
          BY <2>1 DEF WriteDone, Writing, IoIrp, Op, OpOf
        <5> QED
          BY <2>5, <4>2, <5>1, TransitOn
      <4> QED
        BY <4>1, <4>2
    <3>5. \A s : <<seen'[i][s], IF Undecrypted(k, s)' THEN Key(s) ELSE Plain>> = Content(k, i, s)
      BY <3>2, <3>3 DEF Content
    <3> QED
      BY <2>0, <2>1, <3>2, <3>4, <3>5
  <2> QED
    BY <2>2, <2>3, <2>4, <2>5
<1> QED
  BY <1>1, <1>2, GoesOn

(* A hidden system is asked for no misaligned reads.                       *)
Aligned == remap => \A i \in Irps : irp[i].op # "skewed"

(* It is not while no such request is made.                                *)
LEMMA AlignedStep ==
  ASSUME "skewed" \notin RemapOperations, Links, Aligned, [QueueStep]_vars
  PROVE  Aligned'
<1> SUFFICES ASSUME remap', NEW j \in Irps
             PROVE  irp'[j].op # "skewed"
  BY DEF Aligned
<1>1. remap /\ irp[j].op # "skewed" /\ NoRequest.op # "skewed"
  BY FixedStep DEF Aligned, NoRequest
<1>2. CASE UNCHANGED <<irp, ipc>>
  BY <1>1, <1>2
<1>3. ASSUME NEW i \in Irps, NEW op \in {"read", "write", "skewed"}, NEW first \in Nat,
             NEW len \in Nat, Issue(i, op, first, len)
      PROVE  irp'[j].op # "skewed"
  BY <1>1, <1>3 DEF Issue, Links, Shape, IrpShape
<1>4. ASSUME NEW i \in Irps, Reject(i)
      PROVE  irp'[j].op # "skewed"
  BY <1>1, <1>4 DEF Reject, Links, Shape, IrpShape
<1>5. ASSUME NEW i \in Irps, AddIrp(i) \/ RejectSignal(i)
      PROVE  irp'[j].op # "skewed"
  BY <1>1, <1>5 DEF AddIrp, RejectSignal
<1>6. ASSUME NEW t \in Threads, CompleteIrp(t)
      PROVE  irp'[j].op # "skewed"
  BY <1>1, <1>6 DEF CompleteIrp, Links, Shape, IrpShape
<1> QED
  BY <1>2, <1>3, <1>4, <1>5, <1>6, IrpFrame, StepKnown

(* A misaligned read that has succeeded has found its sectors, and then    *)
(* they are decrypted.                                                     *)
Misaligned ==
  LET k == own["main"]
      i == item[k].irp IN
  item[k].status = "ok" =>
    /\ pc["main"] = "decrypt" => data[i] = Found(i, IrpSectors(i))
    /\ pc["main"] = "complete" /\ ~blocked =>
         data[i] = [s \in IrpSectors(i) |-> <<seen[i][s], Plain>>]

(* The item it belongs to is live.                                         *)
OwnedLives == pc["main"] \in {"decrypt", "complete"} => Live(own["main"])

(* That is one of the links.                                               *)
LEMMA OwnedLive == Links => OwnedLives
  BY LiveOnes DEF OwnedLives

(* The sectors come from the device as they are.                           *)
LEMMA MisalignedFound ==
  ASSUME Links, Cut, Readable, Aligned, Histories, ReadMisaligned, pc'["main"] = "decrypt"
  PROVE  LET i == MainIrp IN
         /\ i \in Irps /\ UNCHANGED <<irp, item, own>>
         /\ data'[i] = [s \in IrpSectors(i) |-> <<seen'[i][s], Key(s)>>]
<1> DEFINE i == MainIrp
           S == IrpSectors(i)
<1>1. /\ i \in Irps /\ irp[i].op = "skewed"
      /\ UNCHANGED <<irp, own>> /\ pc["main"] = "misaligned"
  BY UsedItems, Holders DEF ReadMisaligned, handVars, MainIrp, Links, Kinds, KindsMain, Hands,
     MainOwns, Op, OpOf, Threads
<1>2. /\ data' = [data EXCEPT ![i] = [s \in S |-> disk[s]]]
      /\ seen' = [seen EXCEPT ![i] = [s \in S |-> PlainContent(s)[1]]]
      /\ item' = item
  BY DEF ReadMisaligned, Goto, Links, Shape, PcShape, Threads
<1>3. ~remap /\ S \subseteq Sectors
  BY <1>1 DEF Aligned, Cut
<1>4. \A s \in S : disk[s] = <<PlainContent(s)[1], Key(s)>>
  BY <1>3, SectorFound DEF Location
<1>5. data'[i] = [s \in S |-> disk[s]] /\ seen'[i] = [s \in S |-> PlainContent(s)[1]]
  BY <1>1, <1>2 DEF Histories
<1> HIDE DEF i, S
<1>6. data'[i] = [s \in S |-> <<seen'[i][s], Key(s)>>]
  BY <1>4, <1>5
<1> QED
  BY <1>1, <1>2, <1>6 DEF i, S

(* There they are decrypted.                                               *)
LEMMA MisalignedPlain ==
  ASSUME Links, Filled, Aligned, Histories, Misaligned, DecryptMisaligned,
         item[own["main"]].status = "ok", ~blocked
  PROVE  LET i == MainIrp IN
         /\ i \in Irps /\ UNCHANGED <<irp, item, own, seen>>
         /\ data'[i] = [s \in IrpSectors(i) |-> <<seen[i][s], Plain>>]
<1> DEFINE i == MainIrp
           S == IrpSectors(i)
<1>1. /\ i \in Irps /\ irp[i].op = "skewed" /\ pc["main"] = "decrypt"
      /\ UNCHANGED <<irp, item, own, seen>>
  BY UsedItems, Holders DEF DecryptMisaligned, Goto, handVars, poolVars, outerVars, diskVars,
     MainIrp, Links, Kinds, KindsMain, Hands, MainOwns, Op, OpOf, Threads
<1>2. data[i] = [s \in S |-> <<seen[i][s], Key(s)>>]
  BY <1>1 DEF Misaligned, Found, MainIrp
<1>3. data'[i] = [s \in DOMAIN data[i] |->
                    IF s \in Area THEN Decrypt(data[i][s], s) ELSE data[i][s]]
  BY <1>1 DEF DecryptMisaligned, Histories
<1>4. ~remap /\ ~keysErased
  BY <1>1 DEF Aligned, Filled
<1> HIDE DEF i, S
<1>5. \A s \in S : (IF s \in Area THEN Decrypt(data[i][s], s) ELSE data[i][s]) =
                     <<seen[i][s], Plain>>
  BY <1>2, <1>4 DEF Decrypt, Opened, Key, Unit
<1>6. data'[i] = [s \in S |-> <<seen[i][s], Plain>>]
  BY <1>2, <1>3, <1>5
<1> QED
  BY <1>1, <1>6 DEF i, S

(* So it goes with every one.                                              *)
LEMMA MisalignedStep ==
  ASSUME Links, Cut, ToDo, Filled, Readable, Aligned, NoIoAfterFailure, Histories,
         Misaligned, [QueueStep]_vars
  PROVE  Misaligned'
<1>0. (\A s : Key(s)' = Key(s)) /\ (blocked => blocked')
  BY FixedStep, KeysStep DEF Key, Area, Unit
<1> DEFINE k == own'["main"]
           i == item'[k].irp
           S == Span(irp'[i].first, irp'[i].len)
<1> SUFFICES ASSUME pc'["main"] \in {"decrypt", "complete"}, item'[k].status = "ok"
             PROVE  /\ pc'["main"] = "decrypt" => data'[i] = [s \in S |-> <<seen'[i][s], Key(s)>>]
                    /\ pc'["main"] = "complete" /\ ~blocked' =>
                         data'[i] = [s \in S |-> <<seen'[i][s], Plain>>]
  BY <1>0 DEF Misaligned, Found, IrpSectors, Span
<1>1. CASE ReadMisaligned
  <2>1. pc'["main"] = "decrypt"
    <3>1. own["main"] \in Items /\ own' = own
      BY <1>1, Holders DEF ReadMisaligned, handVars, Links, Hands, MainOwns, Threads
    <3>2. CASE Goto("main", "misaligned", "decrypt")
      BY <3>2 DEF Goto, Links, Shape, PcShape, Threads
    <3>3. CASE item' = [item EXCEPT ![own["main"]].status = "failed"]
      BY <3>1, <3>3 DEF Links, Shape, ItemShape, ItemRecords
    <3> QED
      BY <1>1, <3>2, <3>3 DEF ReadMisaligned
  <2> QED
    BY <1>1, <2>1, MisalignedFound DEF MainIrp, IrpSectors
<1>2. CASE DecryptMisaligned
  <2>1. /\ pc'["main"] = "complete" /\ own'["main"] = own["main"] /\ item' = item
        /\ (blocked => blocked')
    BY <1>0, <1>2 DEF DecryptMisaligned, Goto, handVars, poolVars, Links, Shape, PcShape, Threads
  <2> QED
    BY <1>2, <2>1, MisalignedPlain DEF MainIrp, IrpSectors
<1>3. CASE ~ReadMisaligned /\ ~DecryptMisaligned
  <2>1. pc'["main"] = pc["main"] /\ own'["main"] = own["main"]
    <3>1. ASSUME Refuse \/ Protect \/ Accept
          PROVE  FALSE
      <4>1. PICK l \in Items, status \in {"ok", "failed"} :
              /\ item' = [item EXCEPT ![l] = [irp |-> taken, status |-> status]]
              /\ own' = [own EXCEPT !["main"] = l]
        BY <3>1, GetItemTakes
      <4>2. k = l /\ item'[k] = [irp |-> taken, status |-> status]
        BY <4>1 DEF Links, Shape, ItemShape, OwnShape, Threads
      <4>3. ~Accept
        BY DEF Accept, GetItem, Goto, Links, Shape, PcShape, Threads
      <4>4. item' = [item EXCEPT ![FirstFree(FreeItems)] = [irp |-> taken, status |-> "failed"]]
            /\ own' = [own EXCEPT !["main"] = FirstFree(FreeItems)]
        BY <3>1, <4>3 DEF Refuse, Protect, GetItem
      <4>5. FirstFree(FreeItems) = l
        BY <4>1, <4>4 DEF Links, Shape, OwnShape, Threads
      <4> QED
        BY <4>1, <4>2, <4>4, <4>5 DEF Links, Shape, ItemShape
    <3> QED
      BY <1>3, <3>1, MainMoves DEF Wake, Drained, CompleteIrp, Decrement, AfterDecrement,
         SignalIdle, ReleaseItem, ReleaseRequest, TakeIrp, TestSuspended, AwaitResume,
         AwaitsPool, LooksAgain, PoolEmpty, AwaitPoolBuffer, NextFragment, GetRequest,
         FillFragment, QueueFragment, Goto, Links, Shape, PcShape, Threads
  <2> DEFINE l == own["main"]
  <2>2. l \in Items /\ Live(l) /\ pc["main"] \in MainOwns \ Cutting
    BY <2>1, Holders, OwnedLive DEF OwnedLives, Links, Hands, MainOwns, Cutting, Threads
  <2>3. LiveIn(item', pc', own', l)
    <3>1. Links'
      BY LinksStep, StepKnown
    <3>2. OwnedLives'
      BY <3>1, OwnedLive, PTL
    <3> QED
      BY <2>1, <3>2 DEF OwnedLives, Live
  <2>4. Going(l) /\ item'[l].irp = item[l].irp /\ irp'[item[l].irp] = irp[item[l].irp]
    <3>1. ~(Accept /\ own'["main"] = l)
      BY <2>2, GetItemTakes DEF Live, LiveIn, InUse, Links, Shape, OwnShape, Threads
    <3> QED
      BY <2>1, <2>2, <2>3, <3>1, GoesOn
  <2>5. data'[item[l].irp] = data[item[l].irp] /\ seen'[item[l].irp] = seen[item[l].irp]
    <3>1. own["io"] # l
      BY <2>2 DEF Links, Alone
    <3>2. ~(DecryptFragment /\ queue["completion"][1].item = l)
      BY <2>2, DecryptFragmentMoves DEF Links, Alone
    <3> QED
      BY <1>3, <2>2, <2>3, <3>1, <3>2, OnlyServer
  <2>6. i = item[l].irp /\ S = IrpSectors(i)
    BY <2>1, <2>4 DEF IrpSectors
  <2>7. /\ pc["main"] = "decrypt" => data[i] = [s \in S |-> <<seen[i][s], Key(s)>>]
        /\ pc["main"] = "complete" /\ ~blocked => data[i] = [s \in S |-> <<seen[i][s], Plain>>]
    BY <2>4, <2>6 DEF Misaligned, Found, Going
  <2>8. data'[i] = data[i] /\ seen'[i] = seen[i]
    BY <2>5, <2>6
  <2> HIDE DEF i, S, l
  <2> QED
    BY <1>0, <2>1, <2>7, <2>8
<1> QED
  BY <1>1, <1>2, <1>3

-----------------------------------------------------------------------------
(* What is completed has been transferred, posted and decrypted.           *)
LEMMA ReadReturned ==
  ASSUME Links, Histories, Progress, Delivered, Misaligned
  PROVE  ReadsReturnContent
<1> SUFFICES ASSUME NEW t \in Threads, pc[t] = "complete", item[own[t]].status = "ok",
                    irp[item[own[t]].irp].op # "write", ~blocked
             PROVE  LET i == item[own[t]].irp IN
                    data[i] = [s \in IrpSectors(i) |-> <<seen[i][s], Plain>>]
  BY DEF ReadsReturnContent
<1>1. CASE t = "main"
  BY <1>1 DEF Misaligned
<1>2. CASE t = "io"
  BY <1>2 DEF Links, Kinds, KindsIo, Op, OpOf
<1>3. CASE t = "completion"
  <2> DEFINE k == own["completion"]
             i == item[k].irp
  <2>1. k \in Items /\ Going(k) /\ Op(k) = "read"
    BY <1>3, LiveOnes, Holders DEF Going, Links, Hands, Kinds, KindsCompletion, Threads
  <2>2. /\ own["main"] # k /\ own["io"] # k
        /\ \A u \in {"io", "completion"} : \A n \in Queued(u) : queue[u][n].item # k
    BY <1>3, <2>1, OnlyHolder, QueueAssumption DEF Items, Threads
  <2>3. Underway(k) = {} /\ (\A s : ~Waits(k, s)) /\ (\A s : ~Undecrypted(k, s))
    BY <2>2 DEF Underway, Waits, Uncut, ForIo, AtDevice, Undecrypted, Posting, Posted
  <2>4. moved[i] = IrpSectors(i)
    BY <2>1, <2>3 DEF Progress
  <2>5. data[i] = [s \in moved[i] \ Underway(k) |-> Content(k, i, s)]
    BY <2>1 DEF Delivered
  <2>6. \A s : Content(k, i, s) = <<seen[i][s], Plain>>
    BY <2>3 DEF Content
  <2>7. moved[i] \ Underway(k) = IrpSectors(i)
    BY <2>3, <2>4
  <2> HIDE DEF k, i
  <2>8. data[i] = [s \in IrpSectors(i) |-> <<seen[i][s], Plain>>]
    BY <2>5, <2>6, <2>7
  <2> QED
    BY <1>3, <2>8 DEF k, i
<1> QED
  BY <1>1, <1>2, <1>3 DEF Threads

(* What reads found is recorded for the IRPs.                              *)
Recorded == seen = [i \in Irps |-> seen[i]]

(* That stays so.                                                          *)
LEMMA RecordedStep ==
  ASSUME Links, ToDo, Histories, Recorded, [QueueStep]_vars
  PROVE  Recorded'
<1>1. ASSUME NEW t \in Threads, CompleteIrp(t)
      PROVE  seen' = [i \in Irps |-> seen'[i]]
  BY <1>1 DEF CompleteIrp, Histories
<1>2. CASE ReadMisaligned
  BY <1>2 DEF ReadMisaligned, Histories, Recorded
<1>3. CASE DoPiece
  BY <1>3, PieceDone DEF WritePiece, ReadPiece, Histories, Recorded
<1> QED
  BY <1>1, <1>2, <1>3, HistoryFrame DEF Recorded

(* A misaligned read transfers nothing before it is done, and then all.    *)
Straight ==
  LET k == own["main"]
      i == item[k].irp IN
  /\ pc["main"] = "misaligned" => moved[i] = {} /\ seen[i] = Unseen
  /\ pc["main"] \in {"decrypt", "complete"} /\ item[k].status = "ok" =>
       moved[i] = IrpSectors(i)

(* The item of a misaligned read is live.                                  *)
StraightLives == pc["main"] \in {"misaligned", "decrypt", "complete"} => Live(own["main"])

(* That is one of the links.                                               *)
LEMMA StraightLive == Links => StraightLives
  BY LiveOnes DEF StraightLives

(* So it goes with every one.                                              *)
LEMMA StraightStep ==
  ASSUME Links, ToDo, NoIoAfterFailure, Histories, Clean, Straight, [QueueStep]_vars
  PROVE  Straight'
<1> DEFINE k == own'["main"]
           i == item'[k].irp
           S == Span(irp'[i].first, irp'[i].len)
<1> SUFFICES ASSUME pc'["main"] \in {"misaligned", "decrypt", "complete"},
                    pc'["main"] = "misaligned" \/ item'[k].status = "ok"
             PROVE  /\ pc'["main"] = "misaligned" => moved'[i] = {} /\ seen'[i] = Unseen
                    /\ pc'["main"] \in {"decrypt", "complete"} => moved'[i] = S
  BY DEF Straight, IrpSectors, Unseen
<1>1. CASE ReadMisaligned
  <2>1. own["main"] \in Items /\ UNCHANGED <<own, irp>> /\ item[own["main"]].irp \in Irps
    BY <1>1, Holders, UsedItems DEF ReadMisaligned, handVars, Links, Hands, MainOwns, Threads
  <2>2. /\ pc'["main"] = "decrypt" /\ item' = item
        /\ moved' = [moved EXCEPT ![MainIrp] = IrpSectors(MainIrp)]
    <3>1. CASE Goto("main", "misaligned", "decrypt")
      BY <1>1, <3>1 DEF ReadMisaligned, Goto, Links, Shape, PcShape, Threads
    <3>2. CASE /\ Goto("main", "misaligned", "complete")
               /\ item' = [item EXCEPT ![own["main"]].status = "failed"]
      BY <2>1, <3>2 DEF Goto, Links, Shape, ItemShape, ItemRecords, PcShape, Threads
    <3> QED
      BY <1>1, <3>1, <3>2 DEF ReadMisaligned
  <2> QED
    BY <2>1, <2>2 DEF MainIrp, IrpSectors, Histories
<1>2. CASE Accept
  <2>1. PICK l \in Items, status \in {"ok", "failed"} :
          /\ item' = [item EXCEPT ![l] = [irp |-> taken, status |-> status]]
          /\ own' = [own EXCEPT !["main"] = l]
    BY <1>2, GetItemTakes
  <2>2. i = taken
    BY <2>1 DEF Links, Shape, ItemShape, OwnShape, Threads
  <2>3. moved'[taken] = {} /\ seen'[taken] = Unseen
    BY <1>2, AcceptsFresh
  <2>4. pc'["main"] \notin {"decrypt", "complete"}
    BY <1>2 DEF Accept, GetItem, Goto, Links, Shape, PcShape, Threads
  <2> HIDE DEF i
  <2> QED
    BY <2>2, <2>3, <2>4
<1>3. CASE ~ReadMisaligned /\ ~Accept
  <2>1. /\ own'["main"] = own["main"]
        /\ \/ pc'["main"] = pc["main"]
           \/ pc["main"] = "decrypt" /\ pc'["main"] = "complete"
    <3>1. ASSUME Refuse \/ Protect
          PROVE  FALSE
      <4>1. PICK l \in Items :
              /\ item' = [item EXCEPT ![l] = [irp |-> taken, status |-> "failed"]]
              /\ own' = [own EXCEPT !["main"] = l]
        BY <3>1, FirstFreeIsFree DEF Refuse, Protect, GetItem
      <4>2. pc'["main"] = "complete"
        BY <3>1 DEF Refuse, Protect, GetItem, Goto, Links, Shape, PcShape, Threads
      <4> QED
        BY <4>1, <4>2 DEF Links, Shape, ItemShape, OwnShape, Threads
    <3>2. ASSUME DecryptMisaligned
          PROVE  /\ own'["main"] = own["main"]
                 /\ pc["main"] = "decrypt" /\ pc'["main"] = "complete"
      BY <3>2 DEF DecryptMisaligned, Goto, handVars, Links, Shape, PcShape, Threads
    <3> QED
      BY <1>3, <3>1, <3>2, MainMoves DEF Wake, Drained, CompleteIrp, Decrement, AfterDecrement,
         SignalIdle, ReleaseItem, ReleaseRequest, TakeIrp, TestSuspended, AwaitResume,
         AwaitsPool, LooksAgain, PoolEmpty, AwaitPoolBuffer, NextFragment, GetRequest,
         FillFragment, QueueFragment, Goto, Links, Shape, PcShape, Threads
  <2> DEFINE l == own["main"]
  <2>2. l \in Items /\ Live(l) /\ pc["main"] \in MainOwns \ Cutting
    BY <2>1, Holders, StraightLive DEF StraightLives, Links, Hands, MainOwns, Cutting, Threads
  <2>3. LiveIn(item', pc', own', l)
    <3>1. Links'
      BY LinksStep, StepKnown
    <3>2. StraightLives'
      BY <3>1, StraightLive, PTL
    <3> QED
      BY <2>1, <3>2 DEF StraightLives, Live
  <2>4. item'[l].irp = item[l].irp /\ irp'[item[l].irp] = irp[item[l].irp]
    BY <2>2, <2>3, LiveKept
  <2>5. moved'[item[l].irp] = moved[item[l].irp] /\ seen'[item[l].irp] = seen[item[l].irp]
    <3>1. own["io"] # l
      BY <2>2 DEF Links, Alone
    <3>2. ~(DecryptFragment /\ queue["completion"][1].item = l)
      BY <2>2, DecryptFragmentMoves DEF Links, Alone
    <3>3. DecryptMisaligned => UNCHANGED <<moved, seen>>
      BY DEF DecryptMisaligned, outerVars, diskVars
    <3> QED
      BY <1>3, <2>2, <2>3, <3>1, <3>2, <3>3, OnlyServer
  <2>6. i = item[l].irp /\ S = IrpSectors(i)
    BY <2>1, <2>4 DEF IrpSectors
  <2>7. /\ pc["main"] = "misaligned" => moved[i] = {} /\ seen[i] = Unseen
        /\ pc'["main"] # "misaligned" => moved[i] = S
    <3>1. pc'["main"] # "misaligned" => item[l].status = "ok"
      BY <1>3, <2>1, <2>2, <2>3, GoesOn DEF Going
    <3> QED
      BY <2>1, <2>6, <3>1 DEF Straight
  <2>8. moved'[i] = moved[i] /\ seen'[i] = seen[i]
    BY <2>5, <2>6
  <2> HIDE DEF i, S, l
  <2> QED
    BY <2>1, <2>7, <2>8
<1> QED
  BY <1>1, <1>2, <1>3

(* What is known of the requests under way.                                *)
Served ==
  /\ Histories /\ Clean /\ NoIoAfterFailure
  /\ WithinIrp /\ AtNext /\ Passed /\ Lined /\ Fitting /\ Parts
  /\ Progress /\ Recorded /\ Straight

(* It holds to begin with.                                                 *)
LEMMA ServedInit == Init => Served
<1> SUFFICES ASSUME Init PROVE Served
  OBVIOUS
<1>1. /\ \A t \in Threads : pc[t] = "wait"
      /\ Queued("io") = {} /\ Queued("completion") = {} /\ ~IoUses
  BY DEF Init, Queued, IoUses, Threads
<1>2. /\ \A r : ~InLine(r)
      /\ \A k \in Items : ~Going(k)
  BY <1>1 DEF Init, InLine, IoHolds, Going, FreeItem, Threads
<1>3. Histories /\ Clean /\ Recorded
  BY DEF Init, Histories, Clean, Unseen, Empty, Recorded
<1>4. NoIoAfterFailure /\ WithinIrp /\ AtNext /\ Parts /\ Straight
  BY <1>1 DEF NoIoAfterFailure, WithinIrp, AtNext, Parts, Straight, Cutting, Threads
<1>5. Passed /\ Lined /\ Fitting /\ Progress
  BY <1>1, <1>2 DEF Passed, Lined, Fitting, Progress, IoHolds, Threads
<1> QED
  BY <1>3, <1>4, <1>5 DEF Served

(* Every step keeps it.                                                    *)
LEMMA ServedStep ==
  ASSUME remap => ~RemapFailures, Links, Volume, Cut, ToDo, Untouched, Harmless, Served,
         [QueueStep]_vars
  PROVE  Served'
<1>1. Histories' /\ Clean' /\ NoIoAfterFailure'
  BY HistoriesStep, CleanStep, NoIoAfterFailureStep DEF Served
<1>2. WithinIrp' /\ AtNext' /\ Passed' /\ Lined' /\ Fitting' /\ Parts'
  BY WithinStep, AtNextStep, PassedStep, LinedStep, FittingStep, PartsStep DEF Served
<1>3. Progress'
  BY ProgressStep DEF Served
<1>4. Recorded' /\ Straight'
  BY RecordedStep, StraightStep DEF Served
<1> QED
  BY <1>1, <1>2, <1>3, <1>4 DEF Served

(* And of what has been read.                                              *)
Reads == Served /\ Vacant /\ Fresh /\ Received /\ Delivered

(* It holds to begin with.                                                 *)
LEMMA ReadsInit == Init => Reads
<1> SUFFICES ASSUME Init PROVE Reads
  OBVIOUS
<1>1. /\ \A t \in Threads : pc[t] = "wait"
      /\ Queued("io") = {} /\ ~IoUses
  BY DEF Init, Queued, IoUses, Threads
<1>2. /\ \A r : ~Loaded(r)
      /\ \A k \in Items : ~Going(k)
  BY <1>1 DEF Init, Loaded, Going, FreeItem, Threads
<1>3. Vacant /\ Received /\ Delivered
  BY <1>1, <1>2 DEF Vacant, Received, Delivered
<1>4. Fresh
  BY DEF Init, Fresh, Empty
<1> QED
  BY <1>3, <1>4, ServedInit DEF Reads

(* Every step keeps it.                                                    *)
LEMMA ReadsStep ==
  ASSUME ~RemapFailures
  PROVE  Kept /\ Reads /\ [QueueStep]_vars => Reads'
<1> SUFFICES ASSUME Kept, Reads, [QueueStep]_vars PROVE Reads'
  OBVIOUS
<1>1. /\ Links /\ Volume /\ Cut /\ Buffered /\ ToDo /\ Untouched /\ Harmless /\ Filled /\ Readable
  BY DEF Kept, Sound
<1>2. Served'
  BY <1>1, ServedStep DEF Reads
<1>3. Vacant' /\ Fresh'
  BY <1>1, VacantStep, FreshStep DEF Reads
<1>4. Received' /\ Delivered'
  BY <1>1, ReceivedStep, DeliveredStep DEF Reads, Served
<1> QED
  BY <1>2, <1>3, <1>4 DEF Reads

(* So it always holds, if no remapped piece fails.                         *)
LEMMA ReadsAlways ==
  ASSUME ~RemapFailures
  PROVE  Spec => []Reads
<1>1. Kept /\ Reads /\ [Next]_vars => Reads'
  BY ReadsStep, NextSteps
<1> QED
  BY <1>1, ReadsInit, KeptAlways, PTL DEF Spec

(* A read that succeeds returns what its sectors held when they were read, *)
(* decrypted: whatever it was cut into, whichever part of it is encrypted  *)
(* or remapped, and whether it came from the device or from the read-ahead *)
(* buffer.  Two things must not happen to the drive of a hidden system: an *)
(* error of its device, after which a fragment in more than one piece goes *)
(* on, and a misaligned read, which is not redirected.                     *)
THEOREM ReadsAreRight ==
  ASSUME ~RemapFailures, "skewed" \notin RemapOperations
  PROVE  Spec => []ReadsReturnContent
<1>1. Init => Aligned /\ Misaligned
  BY DEF Init, Aligned, NoRequest, Misaligned, Threads
<1>2. Kept /\ Reads /\ Aligned /\ Misaligned /\ [Next]_vars => (Aligned /\ Misaligned)'
  BY AlignedStep, MisalignedStep, NextSteps DEF Kept, Sound, Reads, Served
<1>3. Kept /\ Reads /\ Misaligned => ReadsReturnContent
  BY ReadReturned DEF Kept, Sound, Reads, Served
<1> QED
  BY <1>1, <1>2, <1>3, ReadsAlways, KeptAlways, PTL DEF Spec

-----------------------------------------------------------------------------
(* The completion thread moves by steps of its own only.                   *)
LEMMA CompletionMoves ==
  ASSUME Links, [QueueStep]_vars
  PROVE  \/ UNCHANGED <<pc["completion"], own["completion"], req["completion"]>>
         \/ Wake("completion") \/ Drained("completion") \/ CompleteIrp("completion")
         \/ Decrement("completion") \/ SignalIdle("completion") \/ ReleaseItem("completion")
         \/ ReleaseRequest("completion") \/ DecryptFragment
<1> USE DEF irpVars, queueVars, poolVars, handVars, mainVars, fragmentVars, ioVars, pipeVars,
            countVars, diskVars, outerVars, holdVars, stopVars, envVars, areaVars, keyVars,
            volumeVars
<1> DEFINE Same == UNCHANGED <<pc["completion"], own["completion"], req["completion"]>>
<1>1. ASSUME UNCHANGED <<coreVars, dataVars>>
      PROVE  Same
  BY <1>1 DEF coreVars, dataVars
<1>2. ASSUME NEW i \in Irps, NEW op \in {"read", "write", "skewed"}, NEW first \in Nat,
             NEW len \in Nat, Issue(i, op, first, len)
      PROVE  Same
  BY <1>2 DEF Issue, IGoto, Links, Shape, PcShape, OwnShape, RequestShape, Threads
<1>3. ASSUME NEW i \in Irps, AddIrp(i)
      PROVE  Same
  BY <1>3 DEF AddIrp, IGoto, Links, Shape, PcShape, OwnShape, RequestShape, Threads
<1>4. ASSUME NEW i \in Irps, Reject(i)
      PROVE  Same
  BY <1>4 DEF Reject, IGoto, Links, Shape, PcShape, OwnShape, RequestShape, Threads
<1>5. ASSUME NEW i \in Irps, RejectSignal(i)
      PROVE  Same
  BY <1>5 DEF RejectSignal, IGoto, Links, Shape, PcShape, OwnShape, RequestShape, Threads
<1>6. ASSUME NEW t \in Threads, Wake(t), t # "completion"
      PROVE  Same
  BY <1>6 DEF Wake, Goto, Links, Shape, PcShape, OwnShape, RequestShape, Threads
<1>7. ASSUME NEW t \in Threads, Drained(t), t # "completion"
      PROVE  Same
  BY <1>7 DEF Drained, Goto, Links, Shape, PcShape, OwnShape, RequestShape, Threads
<1>8. ASSUME NEW t \in Threads, CompleteIrp(t), t # "completion"
      PROVE  Same
  BY <1>8 DEF CompleteIrp, Goto, Links, Shape, PcShape, OwnShape, RequestShape, Threads
<1>9. ASSUME NEW t \in Threads, Decrement(t), t # "completion"
      PROVE  Same
  BY <1>9 DEF Decrement, Goto, AfterDecrement, Links, Shape, PcShape, OwnShape, RequestShape,
     Threads
<1>10. ASSUME NEW t \in Threads, SignalIdle(t), t # "completion"
      PROVE  Same
  BY <1>10 DEF SignalIdle, Goto, AfterDecrement, Links, Shape, PcShape, OwnShape, RequestShape,
     Threads
<1>11. ASSUME NEW t \in Threads, ReleaseItem(t), t # "completion"
      PROVE  Same
  BY <1>11 DEF ReleaseItem, Goto, Links, Shape, PcShape, OwnShape, RequestShape, Threads
<1>12. ASSUME NEW t \in Threads, ReleaseRequest(t), t # "completion"
      PROVE  Same
  BY <1>12 DEF ReleaseRequest, Goto, Links, Shape, PcShape, OwnShape, RequestShape, Threads
<1>13. ASSUME TakeIrp
      PROVE  Same
  BY <1>13 DEF TakeIrp, Goto, Links, Shape, PcShape, OwnShape, RequestShape, Threads
<1>14. ASSUME TestSuspended
      PROVE  Same
  BY <1>14 DEF TestSuspended, Goto, Links, Shape, PcShape, OwnShape, RequestShape, Threads
<1>15. ASSUME AwaitResume
      PROVE  Same
  BY <1>15 DEF AwaitResume, Goto, Links, Shape, PcShape, OwnShape, RequestShape, Threads
<1>16. ASSUME AwaitsPool
      PROVE  Same
  BY <1>16 DEF AwaitsPool, PoolEmpty, Goto, Links, Shape, PcShape, OwnShape, RequestShape,
     Threads
<1>17. ASSUME LooksAgain
      PROVE  Same
  BY <1>17 DEF LooksAgain, AwaitPoolBuffer, Goto, Links, Shape, PcShape, OwnShape, RequestShape,
     Threads
<1>18. ASSUME Refuse
      PROVE  Same
  BY <1>18 DEF Refuse, GetItem, Goto, Links, Shape, PcShape, OwnShape, RequestShape, Threads
<1>19. ASSUME Protect
      PROVE  Same
  BY <1>19 DEF Protect, GetItem, Goto, Links, Shape, PcShape, OwnShape, RequestShape, Threads
<1>20. ASSUME Accept
      PROVE  Same
  BY <1>20 DEF Accept, GetItem, Goto, Links, Shape, PcShape, OwnShape, RequestShape, Threads
<1>21. ASSUME ReadMisaligned
      PROVE  Same
  BY SMTT(60), <1>21 DEF ReadMisaligned, Goto, Links, Shape, PcShape, OwnShape, RequestShape,
     Threads
<1>22. ASSUME DecryptMisaligned
      PROVE  Same
  BY SMTT(60), <1>22 DEF DecryptMisaligned, Goto, Links, Shape, PcShape, OwnShape, RequestShape,
     Threads
<1>23. ASSUME NextFragment
      PROVE  Same
  BY <1>23 DEF NextFragment, Goto, Links, Shape, PcShape, OwnShape, RequestShape, Threads
<1>24. ASSUME GetRequest
      PROVE  Same
  BY <1>24 DEF GetRequest, Goto, Links, Shape, PcShape, OwnShape, RequestShape, Threads
<1>25. ASSUME FillFragment
      PROVE  Same
  BY SMTT(60), <1>25 DEF FillFragment, Goto, Links, Shape, PcShape, OwnShape, RequestShape,
     Threads
<1>26. ASSUME QueueFragment
      PROVE  Same
  BY <1>26 DEF QueueFragment, Goto, Links, Shape, PcShape, OwnShape, RequestShape, Threads
<1>27. ASSUME TakeRequest
      PROVE  Same
  BY <1>27 DEF TakeRequest, Goto, Links, Shape, PcShape, OwnShape, RequestShape, Threads
<1>28. ASSUME DoPiece
      PROVE  Same
  BY SMTT(60), <1>28 DEF DoPiece, Goto, Links, Shape, PcShape, OwnShape, RequestShape,
     Threads
<1>29. ASSUME WriteDone
      PROVE  Same
  BY <1>29 DEF WriteDone, AfterRequest, Goto, Links, Shape, PcShape, OwnShape, RequestShape, Threads
<1>30. ASSUME ReadDone
      PROVE  Same
  BY <1>30 DEF ReadDone, Goto, Links, Shape, PcShape, OwnShape, RequestShape, Threads
<1>31. ASSUME PassesOn
      PROVE  Same
  BY <1>31 DEF PassesOn, PostCompletion, Goto, Links, Shape, PcShape, OwnShape, RequestShape,
     Threads
<1>32. ASSUME ReadAhead
      PROVE  Same
  BY <1>32 DEF ReadAhead, Goto, Links, Shape, PcShape, OwnShape, RequestShape, Threads
<1> HIDE DEF Same
<1>33. Same \/ Wake("completion") \/ Drained("completion") \/ CompleteIrp("completion") \/
         Decrement("completion") \/ SignalIdle("completion") \/ ReleaseItem("completion") \/
         ReleaseRequest("completion") \/ DecryptFragment
  BY ZenonT(60), ActionCases, <1>1, <1>2, <1>3, <1>4, <1>5, <1>6, <1>7, <1>8, <1>9, <1>10,
     <1>11, <1>12, <1>13, <1>14, <1>15, <1>16, <1>17, <1>18, <1>19, <1>20, <1>21, <1>22, <1>23,
     <1>24, <1>25, <1>26, <1>27, <1>28, <1>29, <1>30, <1>31, <1>32
<1> QED
  BY <1>33 DEF Same

(* What is being answered: the thread that is about to complete an IRP has *)
(* its item for itself, and has transferred all of it if it succeeds.      *)
Results ==
  \A t \in Threads : pc[t] = "complete" =>
    LET k == own[t]
        i == item[k].irp IN
    /\ k \in Items /\ i \in Irps /\ irp[i].op # "none" /\ item[k].status \in {"ok", "failed"}
    /\ item[k].status = "ok" => moved[i] = IrpSectors(i)
    /\ \A u \in Threads : pc[u] = "complete" /\ item[own[u]].irp = i => u = t

(* This follows from what is known.                                        *)
LEMMA ResultsHold == Links /\ Progress /\ Straight => Results
<1> SUFFICES ASSUME Links, Progress, Straight, NEW t \in Threads, pc[t] = "complete"
             PROVE  LET k == own[t]
                        i == item[k].irp IN
                    /\ k \in Items /\ i \in Irps /\ irp[i].op # "none"
                    /\ item[k].status \in {"ok", "failed"}
                    /\ item[k].status = "ok" => moved[i] = IrpSectors(i)
                    /\ \A u \in Threads : pc[u] = "complete" /\ item[own[u]].irp = i => u = t
  BY DEF Results
<1> DEFINE k == own[t]
           i == item[k].irp
<1>1. \A u \in Threads : pc[u] = "complete" => own[u] # 0 /\ own[u] \in Items /\ Live(own[u])
  <2>1. ASSUME NEW u \in Threads, pc[u] = "complete"
        PROVE  own[u] # 0
    BY <2>1 DEF Links, Hands, MainOwns, Threads
  <2> QED
    BY <2>1, LiveOnes, Holders DEF Threads
<1>2. k \in Items /\ Live(k) /\ i \in Irps /\ irp[i].op # "none"
  BY <1>1, UsedItems DEF Live, LiveIn, InUse, Links, Linked, LinkedItems
<1>3. item[k].status \in {"ok", "failed"}
  BY <1>2 DEF Live, LiveIn, Links, Shape, ItemShape, ItemRecords
<1>4. /\ \A u \in Threads : u # t => own[u] # k
      /\ \A u \in {"io", "completion"} : \A n \in Queued(u) : queue[u][n].item # k
  BY <1>1, OnlyHolder
<1>5. ASSUME item[k].status = "ok"
      PROVE  moved[i] = IrpSectors(i)
  <2>1. CASE t = "main"
    BY <1>5, <2>1 DEF Straight
  <2>2. CASE t # "main"
    <3>1. Going(k) /\ Op(k) \in {"read", "write"}
      BY <1>2, <1>5, <2>2 DEF Going, Links, Kinds, KindsIo, KindsCompletion, Threads
    <3>2. own["main"] # k /\ ~(pc["io"] = "device" /\ own["io"] = k)
      BY <1>4, <2>2 DEF Threads
    <3>3. \A s : ~Waits(k, s)
      BY <1>4, <3>2 DEF Waits, Uncut, ForIo, AtDevice
    <3> QED
      BY <1>2, <3>1, <3>3 DEF Progress
  <2> QED
    BY <2>1, <2>2
<1>6. ASSUME NEW u \in Threads, pc[u] = "complete", item[own[u]].irp = i
      PROVE  u = t
  <2>1. own[u] = k
    BY <1>1, <1>2, <1>6 DEF Links, Linked, LinkedItems
  <2> QED
    BY <1>4, <2>1
<1> QED
  BY <1>2, <1>3, <1>5, <1>6

(* Until it does complete the IRP, nobody touches it.                      *)
LEMMA ResultStays ==
  ASSUME Links, [QueueStep]_vars, NEW t \in Threads, pc[t] = "complete", ~CompleteIrp(t)
  PROVE  pc'[t] = "complete" /\ own'[t] = own[t] /\ item'[own[t]] = item[own[t]]
<1>1. pc'[t] = pc[t] /\ own'[t] = own[t]
  <2>1. CASE t = "main"
    <3>1. /\ ~Wake("main") /\ ~Drained("main") /\ ~Decrement("main") /\ ~SignalIdle("main")
          /\ ~ReleaseItem("main") /\ ~ReleaseRequest("main") /\ ~TakeIrp /\ ~TestSuspended
          /\ ~AwaitResume /\ ~AwaitsPool /\ ~LooksAgain
      BY <2>1 DEF Wake, Drained, Decrement, SignalIdle, ReleaseItem, ReleaseRequest, TakeIrp,
         TestSuspended, AwaitResume, AwaitsPool, LooksAgain, PoolEmpty, AwaitPoolBuffer, Goto
    <3>2. /\ ~Refuse /\ ~Protect /\ ~Accept /\ ~ReadMisaligned /\ ~DecryptMisaligned
          /\ ~NextFragment /\ ~GetRequest /\ ~FillFragment /\ ~QueueFragment
      BY <2>1 DEF Refuse, Protect, Accept, GetItem, ReadMisaligned, DecryptMisaligned,
         NextFragment, GetRequest, FillFragment, QueueFragment, Goto
    <3> QED
      BY ZenonT(60), <2>1, <3>1, <3>2, MainMoves
  <2>2. CASE t = "io"
    <3>1. /\ ~Wake("io") /\ ~Drained("io") /\ ~Decrement("io") /\ ~SignalIdle("io")
          /\ ~ReleaseItem("io") /\ ~ReleaseRequest("io") /\ ~TakeRequest /\ ~DoPiece
          /\ ~WriteDone /\ ~ReadDone /\ ~PassesOn /\ ~ReadAhead
      BY <2>2 DEF Wake, Drained, Decrement, SignalIdle, ReleaseItem, ReleaseRequest,
         TakeRequest, DoPiece, WriteDone, ReadDone, PassesOn, PostCompletion, ReadAhead, Goto
    <3> QED
      BY ZenonT(60), <2>2, <3>1, IoMoves
  <2>3. CASE t = "completion"
    <3>1. /\ ~Wake("completion") /\ ~Drained("completion") /\ ~Decrement("completion")
          /\ ~SignalIdle("completion") /\ ~ReleaseItem("completion")
          /\ ~ReleaseRequest("completion") /\ ~DecryptFragment
      BY <2>3 DEF Wake, Drained, Decrement, SignalIdle, ReleaseItem, ReleaseRequest,
         DecryptFragment, Goto
    <3> QED
      BY ZenonT(60), <2>3, <3>1, CompletionMoves
  <2> QED
    BY <2>1, <2>2, <2>3 DEF Threads
<1> DEFINE k == own[t]
<1>2. k # 0 /\ k \in Items /\ InUse(k)
  <2>1. k # 0
    BY DEF Links, Hands, MainOwns, Threads
  <2> QED
    BY <2>1, Holders
<1>3. /\ \A u \in Threads : u # t => own[u] # k
      /\ \A u \in {"io", "completion"} : \A n \in Queued(u) : queue[u][n].item # k
  BY <1>2, OnlyHolder
<1> HIDE DEF k
<1>4. item'[k] = item[k]
  <2>1. ASSUME NEW u \in Threads, ReleaseItem(u)
        PROVE  item'[k] = item[k]
    <3>1. u # t
      BY <2>1 DEF ReleaseItem, Goto
    <3> QED
      BY <1>2, <1>3, <2>1, <3>1 DEF ReleaseItem, Links, Shape, ItemShape
  <2>2. ASSUME Refuse \/ Protect \/ Accept
        PROVE  item'[k] = item[k]
    <3>1. PICK l \in Items, status \in {"ok", "failed"} :
            ~InUse(l) /\ item' = [item EXCEPT ![l] = [irp |-> taken, status |-> status]]
      BY <2>2, GetItemTakes
    <3> QED
      BY <1>2, <3>1 DEF Links, Shape, ItemShape
  <2>3. CASE ReadMisaligned
    <3>1. own["main"] # k
      BY <1>3, <2>3 DEF ReadMisaligned, Threads
    <3> QED
      BY <1>2, <2>3, <3>1 DEF ReadMisaligned, Links, Shape, ItemShape
  <2>4. CASE TakeRequest
    <3>1. queue["io"][1].item # k
      BY <1>3, <2>4, TakeRequestMoves
    <3> QED
      BY <1>2, <2>4, <3>1 DEF TakeRequest, Links, Shape, ItemShape
  <2>5. CASE DoPiece
    <3>1. own["io"] # k
      BY <1>3, <2>5 DEF DoPiece, Threads
    <3> QED
      BY <1>2, <2>5, <3>1 DEF DoPiece, Links, Shape, ItemShape
  <2> QED
    BY <2>1, <2>2, <2>3, <2>4, <2>5, ItemFrame, StepKnown
<1> QED
  BY <1>1, <1>4 DEF k

(* A thread comes to that point without any effect on what it answers.     *)
LEMMA Settles ==
  ASSUME Links, [QueueStep]_vars, NEW t \in Threads, pc[t] # "complete", pc'[t] = "complete"
  PROVE  pc' = [pc EXCEPT ![t] = "complete"] /\ UNCHANGED <<irp, moved, seen, disk>>
<1>1. CASE t = "main"
  <2>1. Refuse \/ Protect \/ ReadMisaligned \/ DecryptMisaligned
    <3>1. /\ ~Wake("main") /\ ~Drained("main") /\ ~Decrement("main") /\ ~SignalIdle("main")
          /\ ~ReleaseItem("main") /\ ~ReleaseRequest("main") /\ ~TakeIrp /\ ~TestSuspended
          /\ ~AwaitResume /\ ~AwaitsPool /\ ~LooksAgain /\ ~CompleteIrp("main")
      BY <1>1 DEF Wake, Drained, Decrement, AfterDecrement, SignalIdle, ReleaseItem,
         ReleaseRequest, TakeIrp, TestSuspended, AwaitResume, AwaitsPool, LooksAgain, PoolEmpty,
         AwaitPoolBuffer, CompleteIrp, Goto, Links, Shape, PcShape
    <3>2. ~Accept /\ ~NextFragment /\ ~GetRequest /\ ~FillFragment /\ ~QueueFragment
      BY <1>1 DEF Accept, GetItem, NextFragment, GetRequest, FillFragment, QueueFragment, Goto,
         Links, Shape, PcShape
    <3> QED
      BY ZenonT(60), <1>1, <3>1, <3>2, MainMoves
  <2>2. CASE Refuse \/ Protect
    BY <1>1, <2>2 DEF Refuse, Protect, GetItem, Goto, irpVars, diskVars
  <2>3. CASE ReadMisaligned
    BY <1>1, <2>3 DEF ReadMisaligned, Goto, Links, Shape, PcShape
  <2>4. CASE DecryptMisaligned
    BY <1>1, <2>4 DEF DecryptMisaligned, Goto, outerVars, diskVars
  <2> QED
    BY <2>1, <2>2, <2>3, <2>4
<1>2. CASE t = "io"
  <2>1. WriteDone
    <3>1. /\ ~Wake("io") /\ ~Drained("io") /\ ~Decrement("io") /\ ~SignalIdle("io")
          /\ ~ReleaseItem("io") /\ ~ReleaseRequest("io") /\ ~TakeRequest /\ ~DoPiece
          /\ ~ReadDone /\ ~PassesOn /\ ~ReadAhead /\ ~CompleteIrp("io")
      BY <1>2 DEF Wake, Drained, Decrement, AfterDecrement, SignalIdle, ReleaseItem,
         ReleaseRequest, TakeRequest, DoPiece, ReadDone, PassesOn, PostCompletion, ReadAhead,
         CompleteIrp, Goto, Links, Shape, PcShape
    <3> QED
      BY ZenonT(60), <1>2, <3>1, IoMoves
  <2> QED
    BY <1>2, <2>1 DEF WriteDone, Goto, irpVars, outerVars, diskVars, Links, Shape, PcShape
<1>3. CASE t = "completion"
  <2>1. DecryptFragment
    <3>1. /\ ~Wake("completion") /\ ~Drained("completion") /\ ~Decrement("completion")
          /\ ~SignalIdle("completion") /\ ~ReleaseItem("completion")
          /\ ~ReleaseRequest("completion") /\ ~CompleteIrp("completion")
      BY <1>3 DEF Wake, Drained, Decrement, AfterDecrement, SignalIdle, ReleaseItem,
         ReleaseRequest, CompleteIrp, Goto, Links, Shape, PcShape
    <3> QED
      BY ZenonT(60), <1>3, <3>1, CompletionMoves
  <2>2. UNCHANGED <<irp, moved, seen, disk>>
    BY ZenonT(60), <2>1 DEF DecryptFragment, outerVars, diskVars
  <2>3. pc' = [pc EXCEPT !["completion"] = pc'["completion"]]
    BY <2>1 DEF DecryptFragment, Links, Shape, PcShape, Threads
  <2> QED
    BY <1>3, <2>2, <2>3
<1> QED
  BY <1>1, <1>2, <1>3 DEF Threads

(* What the file system sees: its sectors and its requests.                *)
PlainSectors == [s \in Sectors |-> PlainContent(s)[1]]
PlainIrps == [i \in Irps |-> PlainIrp(i)]

(* A sector changes with the device only.                                  *)
LEMMA SectorsKept ==
  ASSUME [QueueStep]_vars, disk' = disk
  PROVE  PlainSectors' = PlainSectors
<1>1. UNCHANGED <<areaStart, areaEnd, remap>>
  BY FixedStep
<1>2. Area' = Area
  BY <1>1 DEF Area
<1> QED
  BY <1>1, <1>2 DEF PlainSectors, PlainContent, Location, Unit

(* A request changes with its IRP, or when it gets its result.             *)
LEMMA RequestKept ==
  ASSUME Links, [QueueStep]_vars, NEW j \in Irps, irp'[j] = irp[j],
         \A t \in Threads : pc[t] = "complete" /\ item[own[t]].irp = j => ~CompleteIrp(t),
         \A t \in Threads : pc'[t] = "complete" /\ item'[own'[t]].irp = j => pc[t] = "complete"
  PROVE  PlainIrp(j)' = PlainIrp(j)
<1>1. ASSUME NEW t \in Threads, pc[t] = "complete", item[own[t]].irp = j
      PROVE  /\ pc'[t] = "complete" /\ item'[own'[t]].irp = j
             /\ item'[own'[t]].status = item[own[t]].status
  <2>1. pc'[t] = "complete" /\ own'[t] = own[t] /\ item'[own[t]] = item[own[t]]
    BY <1>1, ResultStays
  <2> QED
    BY <1>1, <2>1
<1>2. ASSUME NEW t \in Threads, pc'[t] = "complete", item'[own'[t]].irp = j
      PROVE  pc[t] = "complete" /\ item[own[t]].irp = j
  <2>1. pc[t] = "complete"
    BY <1>2
  <2>2. ~CompleteIrp(t)
    BY <1>2 DEF CompleteIrp, Goto, Links, Shape, PcShape
  <2>3. own'[t] = own[t] /\ item'[own[t]] = item[own[t]]
    BY <2>1, <2>2, ResultStays
  <2> QED
    BY <1>2, <2>1, <2>3
<1>3. Completing(j)' = Completing(j)
  BY <1>1, <1>2 DEF Completing
<1> DEFINE t == CHOOSE u \in Completing(j) : TRUE
<1>4. Completing(j) # {} => item'[own'[t]].status = item[own[t]].status
  <2>1. Completing(j) # {} => t \in Completing(j)
    OBVIOUS
  <2> HIDE DEF t
  <2> QED
    BY <1>1, <2>1 DEF Completing
<1>5. PlainIrp(j)' = [op |-> IF irp'[j].op = "skewed" THEN "read" ELSE irp'[j].op,
                      first |-> irp'[j].first, len |-> irp'[j].len,
                      status |-> IF irp'[j].op = "none" \/ Completing(j) = {} THEN "pending"
                                 ELSE item'[own'[t]].status]
  BY <1>3 DEF PlainIrp
<1> HIDE DEF t
<1>6. PlainIrp(j)' = [op |-> IF irp[j].op = "skewed" THEN "read" ELSE irp[j].op,
                      first |-> irp[j].first, len |-> irp[j].len,
                      status |-> IF irp[j].op = "none" \/ Completing(j) = {} THEN "pending"
                                 ELSE item[own[t]].status]
  BY <1>4, <1>5
<1> QED
  BY <1>6 DEF PlainIrp, t

(* So nothing changes while no result comes or goes.                       *)
LEMMA RequestsKept ==
  ASSUME Links, [QueueStep]_vars, irp' = irp,
         \A t \in Threads : (pc'[t] = "complete") <=> (pc[t] = "complete")
  PROVE  PlainIrps' = PlainIrps
<1>1. \A t \in Threads : pc[t] = "complete" => ~CompleteIrp(t)
  BY DEF CompleteIrp, Goto, Links, Shape, PcShape
<1>2. ASSUME NEW j \in Irps
      PROVE  PlainIrp(j)' = PlainIrp(j)
  BY <1>1, RequestKept
<1> QED
  BY <1>2 DEF PlainIrps

(* As long as it has no result it is pending.                              *)
LEMMA NoResult ==
  ASSUME NEW i \in Irps, \A t \in Threads : pc[t] = "complete" => item[own[t]].irp # i
  PROVE  PlainIrp(i) = [op |-> IF irp[i].op = "skewed" THEN "read" ELSE irp[i].op,
                        first |-> irp[i].first, len |-> irp[i].len, status |-> "pending"]
<1>1. Completing(i) = {}
  BY DEF Completing
<1> QED
  BY <1>1 DEF PlainIrp

(* So it is for an IRP somebody works on.                                  *)
LEMMA WorkedOn ==
  ASSUME Links, NEW t \in Threads, own[t] \in Items, Live(own[t]), pc[t] # "complete"
  PROVE  LET i == item[own[t]].irp IN \A u \in Threads : pc[u] = "complete" => item[own[u]].irp # i
<1> SUFFICES ASSUME NEW u \in Threads, pc[u] = "complete", item[own[u]].irp = item[own[t]].irp
             PROVE  FALSE
  OBVIOUS
<1>1. own[u] # 0
  BY DEF Links, Hands, MainOwns, Threads
<1>2. own[u] \in Items /\ Live(own[u])
  BY <1>1, Holders, LiveOnes DEF Threads
<1>3. own[u] = own[t]
  BY <1>2 DEF Links, Linked, LinkedItems
<1> QED
  BY <1>1, <1>3, OnlyHolder

(* A new request is issued.                                                *)
LEMMA IssuesPlain ==
  ASSUME Links, Results, [QueueStep]_vars, NEW i \in Irps, Ask(i)
  PROVE  Below!Next
<1>1. PICK op \in {"read", "write", "skewed"}, first \in Sectors, len \in 1..MaxLength :
        Issue(i, op, first, len)
  BY QueueAssumption DEF Ask
<1> DEFINE r == [op |-> IF op = "skewed" THEN "read" ELSE op, first |-> first, len |-> len,
                 status |-> "pending"]
<1>2. /\ irp[i] = NoRequest /\ irp' = [irp EXCEPT ![i] = [op |-> op, first |-> first, len |-> len]]
      /\ Span(first, len) \subseteq Sectors
      /\ UNCHANGED <<pc, own, item, moved, seen, disk>>
  BY <1>1 DEF Issue, poolVars, handVars, outerVars, diskVars
<1>3. \A t \in Threads : pc[t] = "complete" => item[own[t]].irp # i /\ ~CompleteIrp(t)
  BY <1>2 DEF Results, NoRequest, CompleteIrp, Goto, Links, Shape, PcShape
<1>4. PlainIrp(i) = Below!NoRequest
  BY <1>2, <1>3, NoResult DEF NoRequest, Below!NoRequest
<1>5. PlainIrp(i)' = r
  <2>1. Completing(i)' = {}
    BY <1>2, <1>3 DEF Completing
  <2>2. irp'[i] = [op |-> op, first |-> first, len |-> len]
    BY <1>2 DEF Links, Shape, IrpShape
  <2> QED
    BY <2>1, <2>2 DEF PlainIrp
<1>6. \A j \in Irps : j # i => PlainIrp(j)' = PlainIrp(j)
  BY <1>2, <1>3, RequestKept DEF Links, Shape, IrpShape
<1>7. PlainIrps' = [PlainIrps EXCEPT ![i] = r] /\ PlainIrps[i] = Below!NoRequest
      /\ PlainIrps'[i] = r
  BY <1>4, <1>5, <1>6 DEF PlainIrps
<1>8. PlainSectors' = PlainSectors
  BY <1>2, SectorsKept
<1>9. r \in Below!Requests
  BY <1>1, <1>2 DEF Below!Requests, Below!Span, Span
<1> HIDE DEF r
<1>10. Below!Issue(i)
  BY <1>2, <1>7, <1>8, <1>9 DEF Below!Issue, PlainIrps, PlainSectors
<1> QED
  BY <1>7, <1>10 DEF Below!Next, PlainIrps

(* A request that is rejected or completed is answered.                    *)
LEMMA AnswersPlain ==
  ASSUME Links, [QueueStep]_vars, NEW i \in Irps, irp[i].op # "none",
         irp' = [irp EXCEPT ![i] = NoRequest],
         moved' = [moved EXCEPT ![i] = {}], seen' = [seen EXCEPT ![i] = Unseen], disk' = disk,
         \A t \in Threads : CompleteIrp(t) => item[own[t]].irp = i,
         \A t \in Threads : pc'[t] = "complete" => pc[t] = "complete",
         moved[i] = {} \/ \E t \in Threads : pc[t] = "complete" /\ item[own[t]].irp = i,
         Results
  PROVE  Below!Next
<1>1. PlainIrp(i).op # "none" /\ PlainIrp(i) # Below!NoRequest
  BY DEF PlainIrp, Below!NoRequest, Links, Shape, IrpShape, IrpRecords
<1>2. PlainIrp(i)' = Below!NoRequest
  BY DEF PlainIrp, NoRequest, Below!NoRequest, Links, Shape, IrpShape
<1>3. \A j \in Irps : j # i => PlainIrp(j)' = PlainIrp(j)
  BY RequestKept DEF Links, Shape, IrpShape
<1>4. PlainIrps' = [PlainIrps EXCEPT ![i] = Below!NoRequest] /\ PlainIrps[i] = PlainIrp(i)
  BY <1>2, <1>3 DEF PlainIrps
<1>5. PlainIrp(i).status = "pending" => moved[i] = {}
  <2>1. ASSUME NEW t \in Threads, pc[t] = "complete", item[own[t]].irp = i
        PROVE  PlainIrp(i).status # "pending"
    <3>1. Completing(i) # {} /\ \A u \in Completing(i) : item[own[u]].status \in {"ok", "failed"}
      BY <2>1 DEF Completing, Results
    <3>2. PlainIrp(i).status = item[own[CHOOSE u \in Completing(i) : TRUE]].status
      BY <3>1 DEF PlainIrp
    <3> QED
      BY <3>1, <3>2
  <2> QED
    BY <2>1
<1>6. PlainSectors' = PlainSectors
  BY SectorsKept
<1>7. Below!Answer(i)
  BY <1>1, <1>4, <1>5, <1>6 DEF Below!Answer, Below!Pending, PlainIrps, PlainSectors, Unseen
<1> QED
  BY <1>1, <1>4, <1>7 DEF Below!Next, PlainIrps

(* An IRP gets its result when a thread is about to complete it.           *)
LEMMA SettlesPlain ==
  ASSUME Links, Results, Results', [QueueStep]_vars, NEW t \in Threads,
         pc[t] # "complete", pc'[t] = "complete"
  PROVE  Below!Next
<1>1. pc' = [pc EXCEPT ![t] = "complete"] /\ UNCHANGED <<irp, moved, seen, disk>>
  BY Settles
<1>2. PICK i : i = item'[own'[t]].irp
  OBVIOUS
<1>3. PICK status : status = item'[own'[t]].status
  OBVIOUS
<1>4. /\ i \in Irps /\ irp[i].op # "none" /\ status \in {"ok", "failed"}
      /\ status = "ok" => moved[i] = IrpSectors(i)
      /\ \A u \in Threads : pc'[u] = "complete" /\ item'[own'[u]].irp = i => u = t
  BY <1>1, <1>2, <1>3 DEF Results, IrpSectors
<1>5. \A u \in Threads : pc[u] = "complete" =>
        /\ u # t /\ pc'[u] = "complete" /\ ~CompleteIrp(u)
        /\ item'[own'[u]].irp = item[own[u]].irp
  <2>1. ASSUME NEW u \in Threads, pc[u] = "complete"
        PROVE  u # t /\ pc'[u] = "complete" /\ ~CompleteIrp(u)
    BY <1>1, <2>1 DEF CompleteIrp, Goto, Links, Shape, PcShape
  <2> QED
    BY <2>1, ResultStays
<1> DEFINE r == [op |-> IF irp[i].op = "skewed" THEN "read" ELSE irp[i].op,
                 first |-> irp[i].first, len |-> irp[i].len, status |-> "pending"]
<1>6. PlainIrp(i) = r
  BY <1>4, <1>5, NoResult
<1>7. PlainIrp(i)' = [r EXCEPT !.status = status]
  <2>1. Completing(i)' = {t}
    BY <1>2, <1>4 DEF Completing
  <2>2. (CHOOSE u \in {t} : TRUE) = t
    OBVIOUS
  <2> QED
    BY <1>1, <1>3, <1>4, <2>1, <2>2 DEF PlainIrp
<1>8. \A j \in Irps : j # i => PlainIrp(j)' = PlainIrp(j)
  BY <1>1, <1>2, <1>5, RequestKept DEF Links, Shape, PcShape
<1>9. PlainIrps' = [PlainIrps EXCEPT ![i].status = status] /\ PlainIrps[i] = r
  BY <1>4, <1>6, <1>7, <1>8 DEF PlainIrps
<1>10. PlainSectors' = PlainSectors
  BY <1>1, SectorsKept
<1>11. r.op # "none" /\ r.status = "pending" /\ r # Below!NoRequest
       /\ Below!Span(r.first, r.len) = IrpSectors(i)
  BY <1>4 DEF Below!NoRequest, Below!Span, IrpSectors, Span
<1> HIDE DEF r
<1>12. Below!Settle(i, status)
  BY <1>1, <1>4, <1>9, <1>10, <1>11
     DEF Below!Settle, Below!Pending, Below!RequestSectors, PlainIrps, PlainSectors
<1> QED
  BY <1>4, <1>9, <1>11, <1>12 DEF Below!Next, Below!Serve, PlainIrps

(* A device operation transfers its sectors, or it fails.                  *)
LEMMA TransfersPlain ==
  ASSUME Links, Volume, Cut, ToDo, Filled, Readable, Fitting, Progress, NoIoAfterFailure,
         Histories, [QueueStep]_vars, DoPiece
  PROVE  [Below!Next]_<<PlainSectors, PlainIrps, moved, seen>>
<1> DEFINE P == todo[1]
           k == own["io"]
           i == item[k].irp
           r == req["io"]
<1>1. /\ pc["io"] = "device" /\ r \in Requests /\ r.item = k /\ k \in Items /\ i \in Irps
      /\ irp[i].op \in {"read", "write"} /\ irp' = irp
      /\ PieceOf(P, r)
      /\ \/ irp[i].op = "write" /\ WritePiece(P)
         \/ irp[i].op = "read" /\ ReadPiece(P)
         \/ UNCHANGED <<disk, fragment, moved, seen>>
  BY PieceDone
<1>2. PlainIrps' = PlainIrps
  <2>1. /\ pc' = [pc EXCEPT !["io"] = pc'["io"]] /\ pc'["io"] # "complete"
    BY DEF DoPiece, Goto, Links, Shape, PcShape, Threads
  <2>2. ASSUME NEW t \in Threads
        PROVE  (pc'[t] = "complete") <=> (pc[t] = "complete")
    BY <1>1, <2>1 DEF Links, Shape, PcShape
  <2> QED
    BY <1>1, <2>2, RequestsKept
<1>3. Live(k)
  BY <1>1, LiveOnes DEF Links, Hands, Threads
<1>4. PlainIrp(i) = [op |-> irp[i].op, first |-> irp[i].first, len |-> irp[i].len,
                     status |-> "pending"]
  BY <1>1, <1>3, WorkedOn, NoResult DEF Threads
<1>5. P \subseteq IrpSectors(i) /\ IrpSectors(i) \subseteq Sectors
  <2>1. Fits(r)
    BY <1>1 DEF Fitting, InLine, IoHolds
  <2> QED
    BY <1>1, <2>1 DEF Fits, PieceOf, Cut
<1> DEFINE q == PlainIrp(i)
<1>6. /\ PlainIrps[i] = q /\ q.status = "pending" /\ q.op = irp[i].op /\ q # Below!NoRequest
      /\ Below!Span(q.first, q.len) = IrpSectors(i)
  BY <1>1, <1>4 DEF PlainIrps, Below!NoRequest, Below!Span, IrpSectors, Span
<1>7. CASE UNCHANGED <<disk, fragment, moved, seen>>
  BY <1>2, <1>7, SectorsKept
<1>8. CASE irp[i].op = "write" /\ WritePiece(P)
  <2>1. PlainSectors' = [s \in Sectors |-> IF s \in P THEN i ELSE PlainSectors[s]]
    <3>1. HasPlaces
      BY DEF Readable, HasPlaces
    <3>2. \A s \in Sectors :
            disk'[Location(s, Area)] =
              IF s \in P THEN <<i, IF s \in Area THEN Unit(s) ELSE Plain>>
              ELSE disk[Location(s, Area)]
      BY <1>8, <3>1, PieceWritten
    <3>3. UNCHANGED <<areaStart, areaEnd, remap>>
      BY FixedStep
    <3>4. Area' = Area
      BY <3>3 DEF Area
    <3>5. \A s : Unit(s)' = Unit(s) /\ Location(s, Area)' = Location(s, Area)
      BY <3>3, <3>4 DEF Unit, Location
    <3>6. \A s \in Sectors : PlainContent(s) = IF s \in Area
                                  THEN Opened(disk[Location(s, Area)], Unit(s))
                                  ELSE disk[Location(s, Area)]
      BY DEF PlainContent, Location
    <3>7. \A s \in Sectors : PlainContent(s)' = IF s \in Area
                                  THEN Opened(disk'[Location(s, Area)], Unit(s))
                                  ELSE disk'[Location(s, Area)]
      BY <3>3, <3>4 DEF PlainContent, Opened, Location, Unit
    <3> HIDE DEF P, i
    <3>8. \A s \in Sectors : PlainContent(s)'[1] = IF s \in P THEN i ELSE PlainContent(s)[1]
      <4> SUFFICES ASSUME NEW s \in Sectors
                   PROVE  PlainContent(s)'[1] = IF s \in P THEN i ELSE PlainContent(s)[1]
        OBVIOUS
      <4>1. CASE s \notin P
        BY <3>2, <3>6, <3>7, <4>1
      <4>2. CASE s \in P /\ s \in Area
        <5>1. disk'[Location(s, Area)] = <<i, Unit(s)>>
          BY <3>2, <4>2
        <5>2. PlainContent(s)' = Opened(<<i, Unit(s)>>, Unit(s))
          BY <3>7, <4>2, <5>1
        <5>3. PlainContent(s)' = <<i, Plain>>
          BY <5>2 DEF Opened
        <5> QED
          BY <4>2, <5>3
      <4>3. CASE s \in P /\ s \notin Area
        <5>1. PlainContent(s)' = <<i, Plain>>
          BY <3>2, <3>7, <4>3
        <5> QED
          BY <4>3, <5>1
      <4> QED
        BY <4>1, <4>2, <4>3
    <3> QED
      BY <3>8 DEF PlainSectors
  <2>2. moved' = [moved EXCEPT ![i] = @ \cup P] /\ seen' = seen
    BY <1>8 DEF WritePiece, IoIrp
  <2> HIDE DEF P, i, q, k, r
  <2>3. Below!Write(i, P)
    BY <1>2, <1>5, <1>6, <1>8, <2>1, <2>2
       DEF Below!Write, Below!Pending, Below!RequestSectors, PlainIrps, PlainSectors
  <2>4. P \in SUBSET Below!RequestSectors(i)
    BY <1>5, <1>6 DEF Below!RequestSectors, PlainIrps
  <2>5. Below!Serve(i)
    BY <2>3, <2>4 DEF Below!Serve
  <2>6. PlainIrps[i] # Below!NoRequest
    BY <1>6
  <2> QED
    BY <1>1, <2>5, <2>6 DEF Below!Next, PlainIrps
<1>9. CASE irp[i].op = "read" /\ ReadPiece(P)
  <2>1. PlainSectors' = PlainSectors
    BY <1>9, SectorsKept DEF ReadPiece
  <2>2. /\ moved' = [moved EXCEPT ![i] = @ \cup P]
        /\ seen' = [seen EXCEPT ![i] = Merge(@, [s \in P |-> PlainContent(s)[1]])]
    BY <1>9 DEF ReadPiece, IoIrp
  <2>3. P \cap moved[i] = {}
    <3>1. item[k].status = "ok"
      BY <1>1 DEF NoIoAfterFailure
    <3>2. Going(k) /\ Op(k) = "read"
      BY <1>3, <1>9, <3>1 DEF Going, Op, OpOf
    <3>3. \A s \in P : Waits(k, s)
      BY <1>1 DEF Waits, AtDevice, ToDo
    <3> QED
      BY <1>1, <1>5, <3>2, <3>3 DEF Progress
  <2>4. \A s \in P : PlainSectors[s] = PlainContent(s)[1]
    BY <1>5 DEF PlainSectors
  <2> HIDE DEF P, i, q, k, r
  <2>5. Merge(seen[i], [s \in P |-> PlainContent(s)[1]]) =
          [s \in DOMAIN seen[i] \cup P |-> IF s \in P THEN PlainSectors[s] ELSE seen[i][s]]
    BY <2>4 DEF Merge
  <2>6. seen' = [seen EXCEPT ![i] =
          [s \in DOMAIN @ \cup P |-> IF s \in P THEN PlainSectors[s] ELSE @[s]]]
    BY <1>1, <2>2, <2>5 DEF Histories
  <2>7. Below!Read(i, P)
    BY <1>2, <1>5, <1>6, <1>9, <2>1, <2>2, <2>3, <2>6
       DEF Below!Read, Below!Pending, Below!RequestSectors, PlainIrps, PlainSectors
  <2>8. P \in SUBSET Below!RequestSectors(i)
    BY <1>5, <1>6 DEF Below!RequestSectors, PlainIrps
  <2>9. Below!Serve(i)
    BY <2>7, <2>8 DEF Below!Serve
  <2> QED
    BY <1>1, <1>6, <2>9 DEF Below!Next, PlainIrps
<1> QED
  BY <1>1, <1>7, <1>8, <1>9

(* A misaligned read takes all its sectors at once.                        *)
LEMMA ReadsPlain ==
  ASSUME Links, Cut, Histories, Straight, [QueueStep]_vars,
         ReadMisaligned, pc'["main"] # "complete"
  PROVE  Below!Next
<1> DEFINE k == own["main"]
           i == item[k].irp
           S == IrpSectors(i)
<1>1. /\ pc["main"] = "misaligned" /\ k \in Items /\ i \in Irps /\ Live(k)
      /\ irp[i].op = "skewed" /\ irp' = irp /\ disk' = disk
  BY UsedItems, Holders, LiveOnes DEF ReadMisaligned, Links, Kinds, KindsMain, Hands,
     MainOwns, Op, OpOf, Threads
<1>2. /\ Goto("main", "misaligned", "decrypt") /\ item' = item
      /\ moved' = [moved EXCEPT ![i] = S]
      /\ seen' = [seen EXCEPT ![i] = [s \in S |-> PlainContent(s)[1]]]
  BY DEF ReadMisaligned, Goto, MainIrp, Links, Shape, PcShape, Threads
<1>3. PlainIrps' = PlainIrps
  <2>1. ASSUME NEW t \in Threads
        PROVE  (pc'[t] = "complete") <=> (pc[t] = "complete")
    BY <1>1, <1>2 DEF Goto, Links, Shape, PcShape
  <2> QED
    BY <1>1, <2>1, RequestsKept
<1>4. PlainIrp(i) = [op |-> "read", first |-> irp[i].first, len |-> irp[i].len,
                     status |-> "pending"]
  BY <1>1, WorkedOn, NoResult DEF Threads
<1>5. S \subseteq Sectors
  BY <1>1 DEF Cut
<1>6. moved[i] = {} /\ seen[i] = Unseen
  BY <1>1 DEF Straight
<1> DEFINE q == PlainIrp(i)
<1>7. /\ PlainIrps[i] = q /\ q.status = "pending" /\ q.op = "read" /\ q # Below!NoRequest
      /\ Below!Span(q.first, q.len) = S
  BY <1>1, <1>4 DEF PlainIrps, Below!NoRequest, Below!Span, IrpSectors, Span
<1>8. PlainSectors' = PlainSectors
  BY <1>1, SectorsKept
<1> HIDE DEF k, i, S, q
<1>9. seen' = [seen EXCEPT ![i] =
        [s \in DOMAIN @ \cup S |-> IF s \in S THEN PlainSectors[s] ELSE @[s]]]
  <2>1. \A s \in S : PlainSectors[s] = PlainContent(s)[1]
    BY <1>5 DEF PlainSectors
  <2>2. DOMAIN seen[i] \cup S = S
    BY <1>6 DEF Unseen
  <2>3. [s \in DOMAIN seen[i] \cup S |-> IF s \in S THEN PlainSectors[s] ELSE seen[i][s]] =
          [s \in S |-> PlainContent(s)[1]]
    BY <2>1, <2>2
  <2> QED
    BY <1>1, <1>2, <2>3 DEF Histories
<1>10. moved' = [moved EXCEPT ![i] = @ \cup S]
  BY <1>1, <1>2, <1>6 DEF Histories
<1>11. Below!Read(i, S)
  BY <1>3, <1>6, <1>7, <1>8, <1>9, <1>10
     DEF Below!Read, Below!Pending, Below!RequestSectors, PlainIrps, PlainSectors
<1>12. S \in SUBSET Below!RequestSectors(i)
  BY <1>7 DEF Below!RequestSectors, PlainIrps
<1>13. Below!Serve(i)
  BY <1>11, <1>12 DEF Below!Serve
<1> QED
  BY <1>1, <1>7, <1>13 DEF Below!Next, PlainIrps

(* The IRPs change by the requestors and by those who complete them.       *)
LEMMA IrpChanges ==
  ASSUME [QueueStep]_vars
  PROVE  \/ UNCHANGED irp
         \/ \E i \in Irps : Ask(i) \/ Reject(i)
         \/ \E t \in Threads : CompleteIrp(t)
<1> USE DEF irpVars, queueVars, poolVars, handVars, mainVars, fragmentVars, ioVars, pipeVars,
            countVars, diskVars, outerVars, workVars
<1>1. CASE UNCHANGED vars
  BY <1>1 DEF vars
<1>2. ASSUME NEW i \in Irps, Requestor(i)
      PROVE  UNCHANGED irp \/ Reject(i)
  BY <1>2 DEF Requestor, AddIrp, RejectSignal
<1>3. ASSUME NEW t \in Threads, Common(t)
      PROVE  UNCHANGED irp \/ CompleteIrp(t)
  BY ZenonT(60), <1>3 DEF Common, Wake, Drained, Decrement, SignalIdle, ReleaseItem,
     ReleaseRequest
<1>4. CASE Main
  BY ZenonT(60), <1>3, <1>4 DEF Main, TakeIrp, TestSuspended, AwaitResume, PoolEmpty,
     AwaitPoolBuffer, Refuse, Protect, Accept, GetItem, ReadMisaligned, DecryptMisaligned,
     NextFragment, GetRequest, FillFragment, QueueFragment, Threads
<1>5. CASE Io \/ Completion
  BY ZenonT(60), <1>3, <1>5 DEF Io, TakeRequest, DoPiece, WriteDone, ReadDone, PostCompletion,
     ReadAhead, Completion, DecryptFragment, Threads
<1>6. CASE Holder \/ HoldEnter \/ ResumeFromHold
  BY <1>6 DEF Holder, HoldEnter, ResumeFromHold, HoldWhenIdle, HoldCount, HoldWait,
     HoldTimeout, HoldOvertaken, HoldGiveUp, HoldIdle, HoldSuspend, HoldConfirm, HoldRetreat,
     SignalResumed
<1>7. CASE StopBegin \/ Stop \/ Block \/ EraseKeys
  BY <1>7 DEF StopBegin, Stop, StopCount, StopWait, StopExit, StopNext, Block, EraseKeys
<1>8. CASE Finished
  BY <1>8 DEF Finished, vars
<1> QED
  BY <1>1, <1>2, <1>4, <1>5, <1>6, <1>7, <1>8 DEF QueueStep, QueueNext

(* To begin with the disk below is as it should be.                        *)
LEMMA PlainInit == Init => Below!Init
<1> SUFFICES ASSUME Init PROVE Below!Init
  OBVIOUS
<1>1. \A s \in Sectors : PlainContent(s)[1] = NoIrp
  <2> TAKE s \in Sectors
  <2>1. s \in Locations /\ Location(s, Area) \in Locations
    BY DEF Locations, Location
  <2>2. \A l \in Locations : disk[l][1] = NoIrp
    BY DEF Init
  <2>3. \A u : Opened(disk[Location(s, Area)], u)[1] = NoIrp
    BY <2>1, <2>2 DEF Opened, Garbage
  <2> QED
    BY <2>1, <2>2, <2>3 DEF PlainContent, Locations
<1>2. PlainSectors = [s \in Sectors |-> NoIrp]
  BY <1>1 DEF PlainSectors
<1>3. \A i \in Irps : PlainIrp(i) = Below!NoRequest
  BY DEF Init, PlainIrp, NoRequest, Below!NoRequest
<1>4. PlainIrps = [i \in Irps |-> Below!NoRequest]
  BY <1>3 DEF PlainIrps
<1>5. moved = [i \in Irps |-> {}] /\ seen = [i \in Irps |-> [s \in {} |-> NoIrp]]
  BY DEF Init
<1> QED
  BY <1>2, <1>4, <1>5 DEF Below!Init, PlainSectors, PlainIrps

(* A request that comes too late is answered at once.                      *)
LEMMA RejectsPlain ==
  ASSUME Links, Untouched, Histories, Clean, Recorded, Results, [QueueStep]_vars,
         NEW i \in Irps, Reject(i)
  PROVE  Below!Next
<1>1. /\ ipc[i] = "counted" /\ irp' = [irp EXCEPT ![i] = NoRequest]
      /\ pc' = pc /\ UNCHANGED <<moved, seen, disk>>
  BY DEF Reject, IGoto, poolVars, handVars, outerVars, diskVars, volumeVars
<1>2. irp[i].op # "none" /\ moved[i] = {}
  BY <1>1 DEF Links, Linked, LinkedIrps, Untouched
<1>3. seen[i] = Unseen
  BY <1>1 DEF Clean, NotServed, Links, Linked, LinkedItems
<1>4. moved' = [moved EXCEPT ![i] = {}]
  BY <1>1, <1>2 DEF Histories
<1>5. seen' = [seen EXCEPT ![i] = Unseen]
  BY <1>1, <1>3 DEF Recorded
<1>6. \A t \in Threads : ~CompleteIrp(t)
  BY <1>1 DEF CompleteIrp, Goto, Links, Shape, PcShape
<1> QED
  BY <1>1, <1>2, <1>4, <1>5, <1>6, AnswersPlain

(* A request that has its result is answered by the thread that completes  *)
(* its IRP.                                                                *)
LEMMA CompletesPlain ==
  ASSUME Links, Results, [QueueStep]_vars, NEW t \in Threads, CompleteIrp(t)
  PROVE  Below!Next
<1> DEFINE i == item[own[t]].irp
<1>1. /\ pc[t] = "complete" /\ pc' = [pc EXCEPT ![t] = "decrement"]
      /\ irp' = [irp EXCEPT ![i] = NoRequest] /\ disk' = disk
      /\ moved' = [moved EXCEPT ![i] = {}]
      /\ seen' = [seen EXCEPT ![i] = Unseen]
  BY DEF CompleteIrp, Goto, Unseen
<1>2. i \in Irps /\ irp[i].op # "none"
  BY <1>1 DEF Results
<1>3. \A u \in Threads : CompleteIrp(u) => item[own[u]].irp = i
  BY <1>1 DEF CompleteIrp, Goto, Links, Shape, PcShape
<1>4. \A u \in Threads : pc'[u] = "complete" => pc[u] = "complete"
  BY <1>1 DEF Links, Shape, PcShape
<1> HIDE DEF i
<1>5. moved[i] = {} \/ \E u \in Threads : pc[u] = "complete" /\ item[own[u]].irp = i
  BY <1>1 DEF i
<1> QED
  BY <1>1, <1>2, <1>3, <1>4, <1>5, AnswersPlain

(* Every step of the queue is one of the plain disk, or none at all.       *)
LEMMA StepsPlain ==
  ASSUME Links, Volume, Cut, ToDo, Untouched, Filled, Served, Results, Results',
         [QueueStep]_vars, DoPiece => Readable
  PROVE  [Below!Next]_<<PlainSectors, PlainIrps, moved, seen>>
<1>1. DoPiece => Readable
  OBVIOUS
<1>2. /\ Fitting /\ Progress /\ NoIoAfterFailure /\ Histories /\ Clean /\ Recorded /\ Straight
  BY DEF Served
<1>3. ASSUME NEW i \in Irps, Ask(i)
      PROVE  Below!Next
  BY <1>1, <1>3, IssuesPlain
<1>4. ASSUME NEW i \in Irps, Reject(i)
      PROVE  Below!Next
  BY <1>1, <1>2, <1>4, RejectsPlain
<1>5. ASSUME NEW t \in Threads, CompleteIrp(t)
      PROVE  Below!Next
  BY <1>1, <1>5, CompletesPlain
<1>6. ASSUME NEW t \in Threads, pc[t] # "complete", pc'[t] = "complete"
      PROVE  Below!Next
  BY <1>1, <1>6, SettlesPlain
<1>7. CASE DoPiece
  BY <1>1, <1>2, <1>7, TransfersPlain
<1>8. CASE ReadMisaligned
  <2>1. CASE pc'["main"] = "complete"
    <3>1. pc["main"] # "complete"
      BY <1>8 DEF ReadMisaligned, Goto
    <3> QED
      BY <1>6, <2>1, <3>1 DEF Threads
  <2>2. CASE pc'["main"] # "complete"
    BY <1>1, <1>2, <1>8, <2>2, ReadsPlain
  <2> QED
    BY <2>1, <2>2
<1>9. ASSUME ~Below!Next, ~DoPiece, ~ReadMisaligned
      PROVE  UNCHANGED <<PlainSectors, PlainIrps, moved, seen>>
  <2>1. irp' = irp
    BY <1>3, <1>4, <1>5, <1>9, IrpChanges
  <2>2. UNCHANGED <<moved, seen>>
    BY <1>5, <1>9, HistoryFrame
  <2>3. PlainSectors' = PlainSectors
    BY <1>9, DiskFrame, SectorsKept
  <2>4. ASSUME NEW t \in Threads
        PROVE  (pc'[t] = "complete") <=> (pc[t] = "complete")
    <3>1. pc'[t] = "complete" => pc[t] = "complete"
      BY <1>6, <1>9
    <3>2. pc[t] = "complete" => pc'[t] = "complete"
      <4>1. ~CompleteIrp(t)
        BY <1>5, <1>9
      <4> QED
        BY <1>1, <4>1, ResultStays
    <3> QED
      BY <3>1, <3>2
  <2>5. PlainIrps' = PlainIrps
    BY <1>1, <2>1, <2>4, RequestsKept
  <2> QED
    BY <2>2, <2>3, <2>5
<1> QED
  BY <1>7, <1>8, <1>9

(* To the file system the encrypted device is a disk of plain sectors,     *)
(* however its requests are cut, queued, handed from thread to thread,     *)
(* remapped, refused or failed, and whenever the queue is held, stopped or *)
(* loses its keys: every request succeeds only when all of its sectors     *)
(* have been transferred, each as the plain disk would.  A remapped piece  *)
(* must not fail, since the fragment then goes on.                         *)
THEOREM QueueIsPlainDisk ==
  ASSUME ~RemapFailures
  PROVE  Spec => ImplementsPlainDisk
<1>1. Kept /\ Reads /\ Results /\ Results' /\ [Next]_vars =>
        [Below!Next]_<<PlainSectors, PlainIrps, moved, seen>>
  BY StepsPlain, NextSteps DEF Kept, Sound, Reads
<1>2. Kept => Links
  BY DEF Kept, Sound
<1>3. Reads => Progress /\ Straight
  BY DEF Reads, Served
<1>4. [Below!Next]_<<PlainSectors, PlainIrps, moved, seen>> =>
        [Below!Next]_<<[s \in Sectors |-> PlainContent(s)[1]], [i \in Irps |-> PlainIrp(i)],
                       moved, seen>>
  BY DEF PlainSectors, PlainIrps
<1> QED
  BY <1>1, <1>2, <1>3, <1>4, ResultsHold, PlainInit, ReadsAlways, KeptAlways,
     PTL DEF Spec, ImplementsPlainDisk, Below!Spec
=============================================================================
