------------------------ MODULE EncryptedIoQueueProofs ------------------------
(***************************************************************************)
(* Proofs about EncryptedIoQueue: how IRPs, items, requests, queues and    *)
(* threads are linked, and what that means for the counts which            *)
(* EncryptedIoQueueHoldWhenIdle and EncryptedIoQueueStop wait for.         *)
(*                                                                         *)
(* An item belongs to one IRP, and its requests follow each other through  *)
(* the queues, the last one at the end.  So whoever holds the last request *)
(* of an item is the last one to refer to it, and may end it.              *)
(***************************************************************************)
EXTENDS EncryptedIoQueue, TLAPS, FiniteSetTheorems, WellFoundedInduction

(* The steps of the queue, with those that are left to the thread that     *)
(* holds it; the others do not concern the links, though they may be about *)
(* the encrypted area, the device and the keys.                            *)
QueueStep == QueueNext \/ HoldEnter \/ ResumeFromHold
Elsewhere == UNCHANGED <<irpVars, queueVars, poolVars, pc, handVars, pipeVars, countVars,
                         holdVars, stopVars>>
AnyStep == QueueStep \/ Elsewhere

(* Where a thread can be: the main thread while it cuts an IRP into        *)
(* fragments, any thread after CompleteOriginalIrp has completed the IRP,  *)
(* the main thread with an IRP but no item yet and with one, and a thread  *)
(* that has nothing in its hands.                                          *)
Cutting == {"fragment", "request", "requestWait", "buffer", "queue"}
Ending == {"decrement", "signalIdle", "releaseItem"}
MainTakes == {"suspended", "resume", "item", "itemWait"}
MainOwns == {"misaligned", "decrypt", "complete"} \cup Cutting \cup Ending
Resting == {"wait", "pop", "off"}
MainPcs == Resting \cup MainTakes \cup MainOwns
IoPcs == Resting \cup Ending \cup
         {"device", "done", "post", "postAhead", "readAhead", "complete", "releaseRequest"}
CompletionPcs == Resting \cup Ending \cup {"complete", "releaseRequest"}

(* The records of the model.                                               *)
IrpRecords == [op : {"none", "read", "write", "skewed"}, first : Nat, len : Nat]
ItemRecords == [irp : Irps \cup {NoIrp}, status : {"free", "ok", "failed"}]
Requests == [item : 0..ItemCount, first : Int, len : Int, last : BOOLEAN,
             enc : SUBSET Int, buf : Fragments]

(* Every variable has its shape.                                           *)
IrpShape ==
  /\ irp \in [Irps -> IrpRecords]
  /\ \A i \in Irps : irp[i].op = "none" <=> irp[i] = NoRequest
  /\ ipc \in [Irps -> {"idle", "counted", "rejectSignal"}]

QueueShape ==
  /\ queue \in [Threads -> Seq(Irps \cup Requests)]
  /\ queue["main"] \in Seq(Irps)
  /\ queue["io"] \in Seq(Requests) /\ queue["completion"] \in Seq(Requests)

ItemShape ==
  /\ item \in [Items -> ItemRecords]
  /\ \A k \in Items : item[k].status = "free" <=> item[k].irp = NoIrp

PcShape ==
  /\ pc \in [Threads -> MainPcs \cup IoPcs]
  /\ pc["main"] \in MainPcs /\ pc["io"] \in IoPcs /\ pc["completion"] \in CompletionPcs

OwnShape == own \in [Threads -> 0..ItemCount]

RequestShape == req \in [Threads -> Requests]

MainShape == taken \in Irps \cup {NoIrp} /\ active \in Fragments /\ next \in Int

NumberShape == freeRequests \in Int /\ outstanding \in Int /\ pending \in Int

BufferShape == fragmentFree \in [Fragments -> BOOLEAN]

Shape == IrpShape /\ QueueShape /\ ItemShape /\ PcShape /\ OwnShape /\ RequestShape
         /\ MainShape /\ NumberShape /\ BufferShape

(* What a thread has in its hands follows from where it is: an IRP, an     *)
(* item, a request of that item.                                           *)
Hands ==
  /\ own["main"] # 0 <=> pc["main"] \in MainOwns
  /\ req["main"].item # 0 <=> pc["main"] \in {"buffer", "queue"}
  /\ req["main"].item # 0 => req["main"].item = own["main"]
  /\ taken # NoIrp <=> pc["main"] \in MainTakes
  /\ \A t \in {"io", "completion"} :
       /\ pc[t] \in Resting \cup {"readAhead"} => own[t] = 0 /\ req[t].item = 0
       /\ pc[t] \in {"device", "done", "post", "postAhead", "complete", "releaseItem"} =>
            own[t] # 0 /\ req[t].item = own[t]
       /\ pc[t] \in {"decrement", "signalIdle"} =>
            \/ t = "io" /\ own[t] = 0 /\ req[t].item = 0
            \/ own[t] # 0 /\ req[t].item = own[t] /\ req[t].last
       /\ pc[t] \in {"postAhead", "complete", "releaseItem"} => req[t].last
       /\ pc[t] = "releaseRequest" =>
            /\ req[t].item # 0
            /\ own[t] = IF req[t].last THEN 0 ELSE req[t].item

(* An item that somebody took from the pool; the places of a queue.        *)
InUse(k) == item[k].status # "free"
Queued(t) == 1..Len(queue[t])

(* Whatever a thread or a queue refers to is an item in use.               *)
Used ==
  /\ \A t \in Threads : own[t] # 0 => InUse(own[t])
  /\ \A t \in {"io", "completion"} : \A n \in Queued(t) :
       queue[t][n].item # 0 /\ InUse(queue[t][n].item)

(* The fragments of an IRP follow each other through the threads: nothing  *)
(* of an item comes behind its last request, neither in one queue ...      *)
OrderedEach ==
  \A t \in {"io", "completion"} : \A m, n \in Queued(t) :
    m < n /\ queue[t][m].item = queue[t][n].item => ~queue[t][m].last

(* ... nor behind what is in the hands of a thread or in the next queue    *)
(* ...                                                                     *)
OrderedIo ==
  \A n \in Queued("io") :
    LET r == queue["io"][n] IN
    /\ r.item = own["main"] => ~r.last
    /\ r.item = own["io"] => ~req["io"].last
    /\ r.item = own["completion"] => ~req["completion"].last
    /\ \A m \in Queued("completion") :
         queue["completion"][m].item = r.item => ~queue["completion"][m].last

OrderedCompletion ==
  \A n \in Queued("completion") :
    LET r == queue["completion"][n] IN
    /\ r.item \in {own["main"], own["io"]} => ~r.last
    /\ r.item = own["completion"] => ~req["completion"].last

(* ... nor from one thread to another.                                     *)
OrderedHands ==
  /\ own["io"] # 0 /\ own["io"] = own["main"] => ~req["io"].last
  /\ own["completion"] # 0 /\ own["completion"] \in {own["main"], own["io"]} =>
       ~req["completion"].last

Ordered == OrderedEach /\ OrderedIo /\ OrderedCompletion /\ OrderedHands

(* A thread that ends an item is alone with it: nobody else refers to it.  *)
Alone ==
  /\ pc["main"] \in MainOwns \ Cutting =>
       /\ own["main"] \notin {own["io"], own["completion"]}
       /\ \A t \in {"io", "completion"} : \A n \in Queued(t) : queue[t][n].item # own["main"]
  /\ pc["io"] \in Ending \cup {"complete"} /\ own["io"] # 0 =>
       /\ own["io"] # own["completion"]
       /\ \A n \in Queued("completion") : queue["completion"][n].item # own["io"]

(* Every item in use will be ended by somebody.                            *)
Ends(k) ==
  \/ own["main"] = k
  \/ \E t \in {"io", "completion"} :
       \/ own[t] = k /\ req[t].last
       \/ \E n \in Queued(t) : queue[t][n].item = k /\ queue[t][n].last
Final == \A k \in Items : InUse(k) => Ends(k)

(* Each thread is where it belongs for what it was asked: reads take the   *)
(* way through the completion thread, writes end in the I/O thread, and    *)
(* misaligned reads stay with the main thread.                             *)
OpOf(irps, items, k) == irps[items[k].irp].op
Op(k) == OpOf(irp, item, k)
KindsMain ==
  /\ pc["main"] \in {"misaligned", "decrypt"} => Op(own["main"]) = "skewed"
  /\ pc["main"] \in Cutting => Op(own["main"]) \in {"read", "write"}
KindsIo ==
  /\ \A n \in Queued("io") : Op(queue["io"][n].item) \in {"read", "write"}
  /\ pc["io"] \in {"device", "done"} => Op(own["io"]) \in {"read", "write"}
  /\ pc["io"] \in {"post", "postAhead"} => Op(own["io"]) = "read"
  /\ pc["io"] = "complete" \/ (pc["io"] = "releaseRequest" /\ own["io"] # 0) =>
       Op(own["io"]) = "write"
KindsCompletion ==
  /\ \A n \in Queued("completion") : Op(queue["completion"][n].item) = "read"
  /\ pc["completion"] = "complete"
       \/ (pc["completion"] = "releaseRequest" /\ own["completion"] # 0) =>
       Op(own["completion"]) = "read"
Kinds == KindsMain /\ KindsIo /\ KindsCompletion

(* An item is live while its IRP is not completed; after that it keeps the *)
(* IRP's name until it is given back, but nobody looks at it.              *)
LiveIn(items, pcs, owns, k) ==
  items[k].status # "free" /\ \A t \in Threads : pcs[t] \in Ending => owns[t] # k
Live(k) == LiveIn(item, pc, own, k)
(* A live item and its IRP belong to each other alone; an IRP is in one    *)
(* place only: being added, in the queue of the main thread, taken from it *)
(* or bound to an item.                                                    *)
LinkedItems ==
  \A k \in Items : Live(k) =>
    /\ irp[item[k].irp].op # "none"
    /\ ipc[item[k].irp] # "counted"
    /\ item[k].irp # taken
    /\ \A n \in Queued("main") : queue["main"][n] # item[k].irp
    /\ \A l \in Items : Live(l) /\ item[l].irp = item[k].irp => l = k
LinkedIrps ==
  /\ \A i \in Irps : ipc[i] = "counted" => irp[i].op # "none" /\ taken # i
  /\ taken # NoIrp => irp[taken].op # "none"
LinkedQueue ==
  \A n \in Queued("main") :
    LET i == queue["main"][n] IN
    /\ irp[i].op # "none" /\ ipc[i] # "counted" /\ i # taken
    /\ \A m \in Queued("main") : queue["main"][m] = i => m = n
Linked == LinkedItems /\ LinkedIrps /\ LinkedQueue

(* All of this is kept by every step.                                      *)
Links == Shape /\ Hands /\ Used /\ Ordered /\ Alone /\ Final /\ Kinds /\ Linked

(* The steps of the queue are among those, and so are those of Next.       *)
LEMMA StepKnown == [QueueStep]_vars => AnyStep
<1>1. UNCHANGED vars => Elsewhere
  BY DEF vars, workVars, diskVars, Elsewhere
<1> QED
  BY <1>1 DEF AnyStep

(* A thread that begins to hold the queue may have to be asked for it.     *)
LEMMA NextSteps == [Next]_vars => [QueueStep]_vars /\ AnyStep
  BY StepKnown DEF QueueStep, Next, HoldBegin

(* Every set of natural numbers that is not empty has a smallest element.  *)
LEMMA SmallestExists == \A S \in SUBSET Nat : S # {} => \E k \in S : \A l \in S : k <= l
<1>1. TAKE S \in SUBSET Nat
<1>2. HAVE S # {}
<1>3. PICK x \in S : \A y \in S : ~(<<y, x>> \in OpToRel(<, Nat))
  BY NatLessThanWellFounded, WFMin, <1>2
<1>4. \A y \in S : ~(y < x)
  BY <1>3 DEF OpToRel
<1> QED BY <1>4

(* GetPoolBuffer returns a free item if there is one.                      *)
LEMMA FirstFreeIsFree ==
  ASSUME FreeItems # {}
  PROVE  FirstFree(FreeItems) \in FreeItems /\ FirstFree(FreeItems) \in Items
<1>1. Items \in SUBSET Nat
  BY QueueAssumption DEF Items
<1>2. FreeItems \in SUBSET Nat
  BY <1>1 DEF FreeItems
<1>3. \E k \in FreeItems : \A l \in FreeItems : k <= l
  BY <1>2, SmallestExists
<1> QED
  BY <1>3 DEF FirstFree, FreeItems

(* The empty records are records.                                          *)
LEMMA NoRequestFacts ==
  /\ NoIoRequest \in Requests /\ NoIoRequest.item = 0
  /\ NoRequest \in IrpRecords
  BY QueueAssumption DEF NoIoRequest, Requests, NoRequest, IrpRecords, Fragments

(* The links hold to begin with.                                           *)
LEMMA LinksInit == Init => Links
<1> SUFFICES ASSUME Init PROVE Links
  OBVIOUS
<1>1. Shape
  BY NoRequestFacts, QueueAssumption
     DEF Init, Shape, IrpShape, QueueShape, ItemShape, PcShape, OwnShape, RequestShape,
         MainShape, NumberShape, BufferShape, Threads, FreeItem, ItemRecords, MainPcs,
    IoPcs, CompletionPcs, Resting, Fragments, NoRequest
<1>2. Hands
  BY NoRequestFacts DEF Init, Hands, Threads, MainOwns, Resting, Ending, Cutting, MainTakes
<1>3. Used /\ Ordered /\ Alone /\ Final /\ Kinds
  BY NoRequestFacts
     DEF Init, Used, Threads, Ordered, OrderedEach, OrderedIo, OrderedCompletion, OrderedHands,
         Alone, Final, Kinds, KindsMain, KindsIo, KindsCompletion, Queued, InUse, FreeItem,
         MainOwns, Ending, Cutting
<1>4. Linked
  BY DEF Init, Linked, LinkedItems, LinkedIrps, LinkedQueue, Threads, Queued, Live, LiveIn,
     FreeItem
<1> QED
  BY <1>1, <1>2, <1>3, <1>4 DEF Links

coreVars == <<irp, ipc, queue, item, freeRequests, outstanding, pending, pc, own, req,
              taken, active, next, fragmentFree>>

(* A wait for the buffer pool, the look at it after that, and the read     *)
(* request on its way to the completion thread.                            *)
AwaitsPool == \/ PoolEmpty("item", "itemWait", FreeItems = {})
              \/ PoolEmpty("request", "requestWait", freeRequests = 0)
LooksAgain == \/ AwaitPoolBuffer("itemWait", "item")
              \/ AwaitPoolBuffer("requestWait", "request")
PassesOn == PostCompletion("post", "pop") \/ PostCompletion("postAhead", "readAhead")

(* The steps that change what the links speak of.                          *)
LEMMA StepCases ==
  ASSUME AnyStep
  PROVE  \/ (\E i \in Irps, op \in {"read", "write", "skewed"}, first \in Nat, len \in Nat :
                 Issue(i, op, first, len))
         \/ (\E i \in Irps : AddIrp(i))
         \/ (\E i \in Irps : Reject(i))
         \/ (\E i \in Irps : RejectSignal(i))
         \/ (\E t \in Threads : Wake(t))
         \/ (\E t \in Threads : Drained(t))
         \/ (\E t \in Threads : CompleteIrp(t))
         \/ (\E t \in Threads : Decrement(t))
         \/ (\E t \in Threads : SignalIdle(t))
         \/ (\E t \in Threads : ReleaseItem(t))
         \/ (\E t \in Threads : ReleaseRequest(t))
         \/ TakeIrp
         \/ TestSuspended
         \/ AwaitResume
         \/ AwaitsPool
         \/ LooksAgain
         \/ Refuse
         \/ Protect
         \/ Accept
         \/ ReadMisaligned
         \/ DecryptMisaligned
         \/ NextFragment
         \/ GetRequest
         \/ FillFragment
         \/ QueueFragment
         \/ TakeRequest
         \/ DoPiece
         \/ WriteDone
         \/ ReadDone
         \/ PassesOn
         \/ ReadAhead
         \/ DecryptFragment
         \/ UNCHANGED coreVars
<1> USE DEF irpVars, queueVars, poolVars, handVars, mainVars, fragmentVars, ioVars, pipeVars,
            countVars, workVars, coreVars
<1>1. CASE Elsewhere
  BY <1>1 DEF Elsewhere
<1>2. ASSUME NEW i \in Irps, Ask(i)
      PROVE  \E op \in {"read", "write", "skewed"}, first \in Nat, len \in Nat :
               Issue(i, op, first, len)
  BY <1>2, QueueAssumption DEF Ask
<1>3. ASSUME Holder \/ HoldEnter \/ ResumeFromHold
      PROVE  UNCHANGED coreVars
  BY <1>3 DEF Holder, HoldEnter, ResumeFromHold, HoldWhenIdle, HoldCount, HoldWait,
     HoldTimeout, HoldOvertaken, HoldGiveUp, HoldIdle, HoldSuspend, HoldConfirm, HoldRetreat,
     SignalResumed
<1>4. ASSUME StopBegin \/ Stop \/ Block \/ EraseKeys
      PROVE  UNCHANGED coreVars
  BY <1>4 DEF StopBegin, Stop, StopCount, StopWait, StopExit, StopNext, Block, EraseKeys
<1>5. CASE Finished
  BY <1>1, <1>5 DEF Finished, Elsewhere, vars
<1>6. CASE Main
  BY <1>6 DEF Main, AwaitsPool, LooksAgain, Common, Threads
<1>7. CASE Io \/ Completion
  BY <1>7 DEF Io, PassesOn, Completion, Common, Threads
<1> QED
  BY <1>1, <1>2, <1>3, <1>4, <1>5, <1>6, <1>7 DEF AnyStep, QueueStep, QueueNext, Requestor

(* The fields of a request.                                                *)
LEMMA RequestFields ==
  ASSUME NEW r \in Requests
  PROVE  /\ r.item \in 0..ItemCount /\ r.first \in Int /\ r.len \in Int
         /\ r.last \in BOOLEAN /\ r.enc \in SUBSET Int /\ r.buf \in Fragments
         /\ r.item # 0 => r.item \in Items
  BY QueueAssumption DEF Requests, Items

(* What is at the head of a queue.                                         *)
LEMMA QueueHeads ==
  ASSUME QueueShape
  PROVE  /\ queue["main"] # <<>> => queue["main"][1] \in Irps
         /\ \A t \in {"io", "completion"} :
              queue[t] # <<>> => queue[t][1] \in Requests /\ 1 \in Queued(t)
         /\ \A t \in {"io", "completion"} : \A n \in Queued(t) : queue[t][n] \in Requests
  BY DEF QueueShape, Queued

(* An item in use belongs to an IRP.                                       *)
LEMMA UsedItems ==
  ASSUME Links, NEW k \in Items, InUse(k)
  PROVE  item[k].irp \in Irps /\ irp[item[k].irp] \in IrpRecords
  BY DEF Links, Shape, ItemShape, IrpShape, ItemRecords, InUse

(* What a thread or a queued request is about is such an item.             *)
LEMMA Holders ==
  ASSUME Links
  PROVE  /\ \A t \in Threads : own[t] # 0 => own[t] \in Items /\ InUse(own[t])
         /\ \A t \in {"io", "completion"} : \A n \in Queued(t) :
              queue[t][n].item \in Items /\ InUse(queue[t][n].item)
<1>1. \A t \in Threads : own[t] # 0 => own[t] \in Items
  BY QueueAssumption DEF Links, Shape, OwnShape, Items
<1>2. \A t \in {"io", "completion"} : \A n \in Queued(t) : queue[t][n].item \in Items
  BY QueueHeads, RequestFields DEF Links, Shape, Used
<1> QED
  BY <1>1, <1>2 DEF Links, Used

(* Who completes an item and gives it back is the only one to have it.     *)
LEMMA OnlyHolder ==
  ASSUME Links, NEW t \in Threads, pc[t] \in Ending \cup {"complete"}, own[t] # 0
  PROVE  /\ \A u \in Threads : u # t => own[u] # own[t]
         /\ \A u \in {"io", "completion"} : \A n \in Queued(u) : queue[u][n].item # own[t]
<1>1. CASE t = "main"
  BY <1>1, Holders DEF Links, Alone, MainOwns, Cutting, Ending, Threads
<1>2. CASE t \in {"io", "completion"}
  <2>1. req[t].last
    BY <1>2 DEF Links, Hands, Ending
  <2> QED
    BY <1>2, <2>1 DEF Links, Ordered, OrderedIo, OrderedCompletion, OrderedHands, Alone, Threads,
       Hands, Ending
<1> QED
  BY <1>1, <1>2 DEF Threads

(* What appending to a queue does ...                                      *)
LEMMA Appended ==
  ASSUME QueueShape, NEW t \in {"io", "completion"}, NEW r \in Requests,
         queue' = [queue EXCEPT ![t] = Append(@, r)]
  PROVE  /\ Len(queue'[t]) = Len(queue[t]) + 1
         /\ \A n \in Queued(t) : queue'[t][n] = queue[t][n] /\ n \in Queued(t)'
         /\ queue'[t][Len(queue[t]) + 1] = r /\ Len(queue[t]) + 1 \in Queued(t)'
         /\ \A n \in Queued(t)' : n \in Queued(t) \/ n = Len(queue[t]) + 1
         /\ \A u \in Threads \ {t} : queue'[u] = queue[u] /\ Queued(u)' = Queued(u)
<1>1. queue[t] \in Seq(Requests) /\ t \in Threads
  BY DEF QueueShape, Threads
<1> QED
  BY <1>1 DEF QueueShape, Queued

(* ... and taking its head away.                                           *)
LEMMA Removed ==
  ASSUME QueueShape, NEW t \in {"io", "completion"}, queue[t] # <<>>,
         queue' = [queue EXCEPT ![t] = Tail(@)]
  PROVE  /\ Len(queue'[t]) = Len(queue[t]) - 1
         /\ \A n \in Queued(t)' : queue'[t][n] = queue[t][n + 1] /\ n + 1 \in Queued(t)
         /\ 1 \in Queued(t)
         /\ \A n \in Queued(t) : n = 1 \/ n - 1 \in Queued(t)'
         /\ \A u \in Threads \ {t} : queue'[u] = queue[u] /\ Queued(u)' = Queued(u)
<1>1. queue[t] \in Seq(Requests) /\ t \in Threads
  BY DEF QueueShape, Threads
<1> QED
  BY <1>1 DEF QueueShape, Queued

(* Where the requests have gone.                                           *)
LEMMA RemovedBack ==
  ASSUME QueueShape, NEW t \in {"io", "completion"}, queue[t] # <<>>,
         queue' = [queue EXCEPT ![t] = Tail(@)]
  PROVE  \A n \in Queued(t) : n = 1 \/ (n - 1 \in Queued(t)' /\ queue'[t][n - 1] = queue[t][n])
<1> DEFINE s == queue[t]
<1>1. s \in Seq(Requests) /\ s # <<>> /\ queue'[t] = Tail(s)
  BY DEF QueueShape, Threads
<1> HIDE DEF s
<1>2. /\ Len(Tail(s)) = Len(s) - 1 /\ Len(s) \in Nat
      /\ \A m \in 1..Len(s) - 1 : Tail(s)[m] = s[m + 1]
  BY <1>1
<1>3. ASSUME NEW n \in 1..Len(s), n # 1
      PROVE  n - 1 \in 1..Len(s) - 1 /\ (n - 1) + 1 = n
  BY <1>2, <1>3
<1>4. ASSUME NEW n \in 1..Len(s), n # 1
      PROVE  n - 1 \in 1..Len(Tail(s)) /\ Tail(s)[n - 1] = s[n]
  BY <1>2, <1>3, <1>4
<1> USE DEF s
<1> QED
  BY <1>1, <1>4 DEF Queued

(* A failure or success changes nothing but the status of an item in use.  *)
LEMMA OnlyStatus ==
  ASSUME Links, ReadMisaligned \/ TakeRequest \/ DoPiece
  PROVE  \A k \in Items : item'[k].irp = item[k].irp /\ InUse(k)' = InUse(k)
<1> USE DEF diskVars
<1>1. CASE ReadMisaligned
  BY SMTT(60), <1>1, Holders DEF ReadMisaligned, Goto, InUse, Links, Shape, ItemShape,
     ItemRecords, PcShape,
     Hands, MainOwns, Threads
<1>2. CASE TakeRequest
  BY SMTT(60), <1>2, Holders, QueueHeads DEF TakeRequest, InUse, Links, Shape, ItemShape,
     ItemRecords,
     Threads
<1>3. CASE DoPiece
  BY <1>3, Holders DEF DoPiece, InUse, Links, Shape, ItemShape, ItemRecords, Hands, Threads
<1> QED
  BY SMTT(60), <1>1, <1>2, <1>3

(* How the four steps that move a request do it.                           *)
LEMMA TakeRequestMoves ==
  ASSUME Links, TakeRequest
  PROVE  /\ QueueShape /\ 1 \in Queued("io")
         /\ queue["io"] # <<>> /\ queue' = [queue EXCEPT !["io"] = Tail(@)]
         /\ \A n \in Queued("io")' : queue'["io"][n] = queue["io"][n + 1]
              /\ n + 1 \in Queued("io")
         /\ queue'["completion"] = queue["completion"]
              /\ Queued("completion")' = Queued("completion")
         /\ queue'["main"] = queue["main"]
         /\ own["io"] = 0 /\ req["io"].item = 0
         /\ own' = [own EXCEPT !["io"] = queue["io"][1].item] /\ own'["io"] \in Items
         /\ req' = [req EXCEPT !["io"] = queue["io"][1]] /\ queue["io"][1] \in Requests
         /\ pc["io"] = "pop" /\ pc' = [pc EXCEPT !["io"] = IF Permitted(own'["io"]) THEN "device" ELSE "done"]
         /\ UNCHANGED <<irp, ipc, taken, next>>
<1>1. /\ QueueShape /\ queue["io"] # <<>> /\ queue' = [queue EXCEPT !["io"] = Tail(@)]
      /\ own' = [own EXCEPT !["io"] = queue["io"][1].item]
      /\ req' = [req EXCEPT !["io"] = queue["io"][1]]
      /\ pc["io"] = "pop"
      /\ pc' = [pc EXCEPT !["io"] = IF Permitted(queue["io"][1].item) THEN "device" ELSE "done"]
      /\ UNCHANGED <<irp, ipc, taken, next>>
  BY DEF TakeRequest, Goto, Links, Shape, irpVars, mainVars
<1>2. own["io"] = 0 /\ req["io"].item = 0 /\ own'["io"] = queue["io"][1].item
  BY <1>1 DEF Links, Shape, Hands, Resting, OwnShape, Threads
<1> QED
  BY <1>1, <1>2, Removed, QueueHeads, Holders DEF Threads

(* ... that of the main thread to the I/O thread ...                       *)
LEMMA QueueFragmentMoves ==
  ASSUME Links, QueueFragment
  PROVE  /\ QueueShape /\ queue' = [queue EXCEPT !["io"] = Append(@, req["main"])]
         /\ \A n \in Queued("io") : queue'["io"][n] = queue["io"][n] /\ n \in Queued("io")'
         /\ queue'["io"][Len(queue["io"]) + 1] = req["main"]
         /\ \A n \in Queued("io")' : n \in Queued("io") \/ n = Len(queue["io"]) + 1
         /\ Len(queue["io"]) + 1 \in Queued("io")'
         /\ queue'["completion"] = queue["completion"]
              /\ Queued("completion")' = Queued("completion")
         /\ queue'["main"] = queue["main"]
         /\ own["main"] \in Items /\ req["main"].item = own["main"] /\ req["main"] \in Requests
         /\ own' = [own EXCEPT !["main"] = IF req["main"].last THEN 0 ELSE @]
         /\ req' = [req EXCEPT !["main"] = NoIoRequest]
         /\ pc["main"] = "queue"
         /\ pc' = [pc EXCEPT !["main"] = IF req["main"].last THEN "pop" ELSE "fragment"]
         /\ UNCHANGED <<irp, ipc, taken, item>>
<1>1. /\ QueueShape /\ queue' = [queue EXCEPT !["io"] = Append(@, req["main"])]
      /\ own' = [own EXCEPT !["main"] = IF req["main"].last THEN 0 ELSE @]
      /\ req' = [req EXCEPT !["main"] = NoIoRequest]
      /\ pc["main"] = "queue"
      /\ pc' = [pc EXCEPT !["main"] = IF req["main"].last THEN "pop" ELSE "fragment"]
      /\ UNCHANGED <<irp, ipc, taken, item>>
  BY DEF QueueFragment, Goto, Links, Shape, irpVars, poolVars
<1>2. own["main"] # 0 /\ req["main"].item = own["main"] /\ req["main"] \in Requests
  BY <1>1 DEF Links, Shape, Hands, RequestShape, Threads, MainOwns, Cutting
<1> QED
  BY <1>1, <1>2, Appended, Holders DEF Threads

(* ... that of the I/O thread to the completion thread ...                 *)
LEMMA PassesOnMoves ==
  ASSUME Links, PassesOn
  PROVE  /\ QueueShape /\ queue' = [queue EXCEPT !["completion"] = Append(@, req["io"])]
         /\ \A n \in Queued("completion") :
              queue'["completion"][n] = queue["completion"][n] /\ n \in Queued("completion")'
         /\ queue'["completion"][Len(queue["completion"]) + 1] = req["io"]
         /\ \A n \in Queued("completion")' :
              n \in Queued("completion") \/ n = Len(queue["completion"]) + 1
         /\ Len(queue["completion"]) + 1 \in Queued("completion")'
         /\ queue'["io"] = queue["io"] /\ Queued("io")' = Queued("io")
         /\ queue'["main"] = queue["main"]
         /\ own["io"] \in Items /\ req["io"].item = own["io"] /\ req["io"] \in Requests
         /\ own' = [own EXCEPT !["io"] = 0]
         /\ req' = [req EXCEPT !["io"] = NoIoRequest]
         /\ pc["io"] \in {"post", "postAhead"}
         /\ pc' = [pc EXCEPT !["io"] = IF pc["io"] = "post" THEN "pop" ELSE "readAhead"]
         /\ UNCHANGED <<irp, ipc, taken, item, next>>
<1>1. /\ QueueShape /\ queue' = [queue EXCEPT !["completion"] = Append(@, req["io"])]
      /\ own' = [own EXCEPT !["io"] = 0]
      /\ req' = [req EXCEPT !["io"] = NoIoRequest]
      /\ pc["io"] \in {"post", "postAhead"}
      /\ pc' = [pc EXCEPT !["io"] = IF pc["io"] = "post" THEN "pop" ELSE "readAhead"]
      /\ UNCHANGED <<irp, ipc, taken, item, next>>
  BY DEF PassesOn, PostCompletion, Goto, Links, Shape, irpVars, poolVars, pipeVars, mainVars
<1>2. own["io"] # 0 /\ req["io"].item = own["io"] /\ req["io"] \in Requests
  BY <1>1 DEF Links, Shape, Hands, RequestShape, Threads
<1> QED
  BY <1>1, <1>2, Appended, Holders DEF Threads

(* ... and that of the completion thread to itself.                        *)
LEMMA DecryptFragmentMoves ==
  ASSUME Links, DecryptFragment
  PROVE  /\ QueueShape /\ 1 \in Queued("completion")
         /\ queue["completion"] # <<>> /\ queue' = [queue EXCEPT !["completion"] = Tail(@)]
         /\ \A n \in Queued("completion")' :
              queue'["completion"][n] = queue["completion"][n + 1]
              /\ n + 1 \in Queued("completion")
         /\ queue'["io"] = queue["io"] /\ Queued("io")' = Queued("io")
         /\ queue'["main"] = queue["main"]
         /\ own["completion"] = 0 /\ req["completion"].item = 0
         /\ own' = [own EXCEPT !["completion"] = queue["completion"][1].item]
         /\ own'["completion"] \in Items
         /\ req' = [req EXCEPT !["completion"] = queue["completion"][1]]
         /\ queue["completion"][1] \in Requests
         /\ pc["completion"] = "pop"
         /\ pc' = [pc EXCEPT !["completion"] = AfterRequest(queue["completion"][1])]
         /\ UNCHANGED <<irp, ipc, taken, item, next>>
<1>1. /\ QueueShape /\ queue["completion"] # <<>>
      /\ queue' = [queue EXCEPT !["completion"] = Tail(@)]
      /\ own' = [own EXCEPT !["completion"] = queue["completion"][1].item]
      /\ req' = [req EXCEPT !["completion"] = queue["completion"][1]]
      /\ pc["completion"] = "pop"
      /\ pc' = [pc EXCEPT !["completion"] = AfterRequest(queue["completion"][1])]
      /\ UNCHANGED <<irp, ipc, taken, item, next>>
  BY DEF DecryptFragment, Goto, Links, Shape, poolVars, pipeVars, mainVars
<1>2. /\ own["completion"] = 0 /\ req["completion"].item = 0
      /\ own'["completion"] = queue["completion"][1].item
  BY <1>1 DEF Links, Shape, Hands, Resting, OwnShape, Threads
<1> QED
  BY <1>1, <1>2, Removed, QueueHeads, Holders DEF Threads


(* The main thread takes an item that nobody has.                          *)
LEMMA GetItemTakes ==
  ASSUME Links, Refuse \/ Protect \/ Accept
  PROVE  \E k \in Items, status \in {"ok", "failed"} :
           /\ item[k] = FreeItem /\ ~InUse(k)
           /\ item' = [item EXCEPT ![k] = [irp |-> taken, status |-> status]]
           /\ own["main"] = 0 /\ own' = [own EXCEPT !["main"] = k]
           /\ \A t \in Threads : own[t] # k
           /\ \A t \in {"io", "completion"} : \A n \in Queued(t) : queue[t][n].item # k
           /\ taken \in Irps /\ taken' = NoIrp
           /\ pc["main"] = "item"
           /\ pc' = [pc EXCEPT !["main"] = pc'["main"]]
           /\ pc'["main"] \in {"complete", "misaligned", "fragment"}
           /\ pc'["main"] # "complete" => Accept
           /\ UNCHANGED <<queue, req, irp, ipc>>
<1>1. PICK status \in {"ok", "failed"}, to \in {"complete", "misaligned", "fragment"} :
        GetItem(status, to) /\ (to # "complete" => Accept)
  BY DEF Refuse, Protect, Accept
<1> DEFINE k == FirstFree(FreeItems)
<1>2. k \in Items /\ item[k] = FreeItem
  BY <1>1, FirstFreeIsFree DEF GetItem, FreeItems
<1>3. ~InUse(k)
  BY <1>2 DEF InUse, FreeItem
<1>4. /\ \A t \in Threads : own[t] # k
      /\ \A t \in {"io", "completion"} : \A n \in Queued(t) : queue[t][n].item # k
  BY <1>2, <1>3, Holders, QueueAssumption DEF Items
<1>5. own["main"] = 0 /\ taken \in Irps /\ pc["main"] = "item"
  BY <1>1 DEF GetItem, Goto, Links, Shape, Hands, MainShape, MainOwns, MainTakes, Cutting, Ending
<1>6. pc' = [pc EXCEPT !["main"] = to] /\ pc'["main"] = to
  BY <1>1 DEF GetItem, Goto, Links, Shape, PcShape, Threads
<1>7. /\ item' = [item EXCEPT ![k] = [irp |-> taken, status |-> status]]
      /\ own' = [own EXCEPT !["main"] = k] /\ taken' = NoIrp
      /\ UNCHANGED <<queue, req, irp, ipc>>
  BY <1>1 DEF GetItem, irpVars, queueVars
<1> HIDE DEF k
<1> QED
  BY <1>1, <1>2, <1>3, <1>4, <1>5, <1>6, <1>7


(* What is not about to be given back.                                     *)
LEMMA LiveOnes ==
  ASSUME Links
  PROVE  /\ pc["main"] \in {"misaligned", "decrypt", "complete"} \cup Cutting => Live(own["main"])
         /\ \A t \in {"io", "completion"} :
              /\ \A n \in Queued(t) : Live(queue[t][n].item)
              /\ pc[t] \in {"device", "done", "post", "postAhead", "complete", "releaseRequest"}
                   /\ own[t] # 0
                   => Live(own[t])
<1>1. \A u \in Threads : pc[u] \in Ending /\ own[u] # 0 =>
        /\ \A t \in Threads : t # u => own[t] # own[u]
        /\ \A t \in {"io", "completion"} : \A n \in Queued(t) : queue[t][n].item # own[u]
  BY OnlyHolder
<1>2. own["main"] # 0 <=> pc["main"] \in MainOwns
  BY DEF Links, Hands
<1>3. \A t \in {"io", "completion"} : \A n \in Queued(t) : queue[t][n].item # 0
  BY Holders, QueueAssumption DEF Items
<1>4. \A k \in Items : InUse(k) /\ (\A u \in Threads : pc[u] \in Ending => own[u] # k) => Live(k)
  BY DEF Live, LiveIn, InUse
<1>5. ASSUME pc["main"] \in {"misaligned", "decrypt", "complete"} \cup Cutting
      PROVE  Live(own["main"])
  <2>1. own["main"] # 0 /\ pc["main"] \notin Ending
    BY <1>2, <1>5 DEF MainOwns, Cutting, Ending
  <2>2. own["main"] \in Items /\ InUse(own["main"])
    BY <2>1, Holders DEF Threads
  <2>3. \A u \in Threads : pc[u] \in Ending => own[u] # own["main"]
    BY <1>1, <2>1 DEF Threads
  <2> QED
    BY <1>4, <2>2, <2>3
<1>6. ASSUME NEW t \in {"io", "completion"}, NEW n \in Queued(t)
      PROVE  Live(queue[t][n].item)
  <2>1. queue[t][n].item \in Items /\ InUse(queue[t][n].item)
    BY Holders
  <2>2. \A u \in Threads : pc[u] \in Ending => own[u] # queue[t][n].item
    BY <1>1, <1>3
  <2> QED
    BY <1>4, <2>1, <2>2
<1>7. ASSUME NEW t \in {"io", "completion"}, own[t] # 0,
             pc[t] \in {"device", "done", "post", "postAhead", "complete", "releaseRequest"}
      PROVE  Live(own[t])
  <2>1. own[t] \in Items /\ InUse(own[t]) /\ pc[t] \notin Ending /\ t \in Threads
    BY <1>7, Holders DEF Threads, Ending
  <2>2. \A u \in Threads : pc[u] \in Ending => own[u] # own[t]
    BY <1>1, <1>7, <2>1
  <2> QED
    BY <1>4, <2>1, <2>2
<1> QED
  BY <1>5, <1>6, <1>7

(* A step that links nothing anew keeps the links.                         *)
LEMMA LinkedKept ==
  ASSUME Linked, UNCHANGED <<irp, ipc, taken>>, queue'["main"] = queue["main"],
         \A k \in Items : LiveIn(item', pc', own', k) =>
           LiveIn(item, pc, own, k) /\ item'[k].irp = item[k].irp
  PROVE  Linked'
<1>1. Queued("main")' = Queued("main")
  BY DEF Queued
<1>2. LinkedItems'
  BY <1>1 DEF Linked, LinkedItems, Live
<1>3. LinkedIrps' /\ LinkedQueue'
  BY SMTT(60), <1>1 DEF Linked, LinkedIrps, LinkedQueue
<1> QED
  BY <1>2, <1>3 DEF Linked
(* The steps that change irp, ipc.                                         *)
LEMMA IrpFrame ==
  ASSUME AnyStep
  PROVE  \/ UNCHANGED <<irp, ipc>>
         \/ (\E i \in Irps, op \in {"read", "write", "skewed"}, first \in Nat, len \in Nat :
                 Issue(i, op, first, len))
         \/ (\E i \in Irps : AddIrp(i))
         \/ (\E i \in Irps : Reject(i))
         \/ (\E i \in Irps : RejectSignal(i))
         \/ (\E t \in Threads : CompleteIrp(t))
  BY ZenonT(60), StepCases
     DEF coreVars, irpVars, queueVars, poolVars, handVars, mainVars, fragmentVars, ioVars,
         pipeVars, countVars, diskVars, outerVars, Wake, Goto, Drained, Decrement,
         AfterDecrement, SignalIdle, ReleaseItem, ReleaseRequest, TakeIrp, TestSuspended,
         AwaitResume, AwaitsPool, PoolEmpty, LooksAgain, AwaitPoolBuffer, Refuse, GetItem,
         Protect, Accept, ReadMisaligned, DecryptMisaligned, NextFragment, GetRequest,
         FillFragment, QueueFragment, TakeRequest, DoPiece, WriteDone, AfterRequest,
         ReleaseFragmentBuffer, ReadDone, PassesOn, PostCompletion, ReadAhead, DecryptFragment


(* The steps that change queue.                                            *)
LEMMA QueueFrame ==
  ASSUME AnyStep
  PROVE  \/ UNCHANGED <<queue>>
         \/ (\E i \in Irps : AddIrp(i))
         \/ TakeIrp
         \/ QueueFragment
         \/ TakeRequest
         \/ PassesOn
         \/ DecryptFragment
  BY ZenonT(60), StepCases
     DEF coreVars, irpVars, queueVars, poolVars, handVars, mainVars, fragmentVars, ioVars,
         pipeVars, countVars, diskVars, outerVars, Issue, IGoto, Reject, RejectSignal, Wake,
         Goto, Drained, CompleteIrp, Decrement, AfterDecrement, SignalIdle, ReleaseItem,
         ReleaseRequest, TestSuspended, AwaitResume, AwaitsPool, PoolEmpty, LooksAgain,
         AwaitPoolBuffer, Refuse, GetItem, Protect, Accept, ReadMisaligned, DecryptMisaligned,
         NextFragment, GetRequest, FillFragment, DoPiece, WriteDone, AfterRequest,
         ReleaseFragmentBuffer, ReadDone, ReadAhead


(* The steps that change item.                                             *)
LEMMA ItemFrame ==
  ASSUME AnyStep
  PROVE  \/ UNCHANGED <<item>>
         \/ (\E t \in Threads : ReleaseItem(t))
         \/ Refuse
         \/ Protect
         \/ Accept
         \/ ReadMisaligned
         \/ TakeRequest
         \/ DoPiece
  BY ZenonT(60), StepCases
     DEF coreVars, irpVars, queueVars, poolVars, handVars, mainVars, fragmentVars, ioVars,
         pipeVars, countVars, diskVars, outerVars, Issue, IGoto, AddIrp, Reject, RejectSignal,
         Wake, Goto, Drained, CompleteIrp, Decrement, AfterDecrement, SignalIdle, ReleaseRequest,
         TakeIrp, TestSuspended, AwaitResume, AwaitsPool, PoolEmpty, LooksAgain, AwaitPoolBuffer,
         DecryptMisaligned, NextFragment, GetRequest, FillFragment, QueueFragment, WriteDone,
         AfterRequest, ReleaseFragmentBuffer, ReadDone, PassesOn, PostCompletion, ReadAhead,
         DecryptFragment


(* The steps that change own.                                              *)
LEMMA OwnFrame ==
  ASSUME AnyStep
  PROVE  \/ UNCHANGED <<own>>
         \/ (\E t \in Threads : ReleaseItem(t))
         \/ (\E t \in Threads : ReleaseRequest(t))
         \/ Refuse
         \/ Protect
         \/ Accept
         \/ QueueFragment
         \/ TakeRequest
         \/ PassesOn
         \/ DecryptFragment
  BY ZenonT(60), StepCases
     DEF coreVars, irpVars, queueVars, poolVars, handVars, mainVars, fragmentVars, ioVars,
         pipeVars, countVars, diskVars, outerVars, Issue, IGoto, AddIrp, Reject, RejectSignal,
         Wake, Goto, Drained, CompleteIrp, Decrement, AfterDecrement, SignalIdle, TakeIrp,
         TestSuspended, AwaitResume, AwaitsPool, PoolEmpty, LooksAgain, AwaitPoolBuffer,
         ReadMisaligned, DecryptMisaligned, NextFragment, GetRequest, FillFragment, DoPiece,
         WriteDone, AfterRequest, ReleaseFragmentBuffer, ReadDone, ReadAhead


(* The steps that change req.                                              *)
LEMMA RequestFrame ==
  ASSUME AnyStep
  PROVE  \/ UNCHANGED <<req>>
         \/ (\E t \in Threads : ReleaseRequest(t))
         \/ GetRequest
         \/ QueueFragment
         \/ TakeRequest
         \/ PassesOn
         \/ DecryptFragment
  BY ZenonT(60), StepCases
     DEF coreVars, irpVars, queueVars, poolVars, handVars, mainVars, fragmentVars, ioVars,
         pipeVars, countVars, diskVars, outerVars, Issue, IGoto, AddIrp, Reject, RejectSignal,
         Wake, Goto, Drained, CompleteIrp, Decrement, AfterDecrement, SignalIdle, ReleaseItem,
         TakeIrp, TestSuspended, AwaitResume, AwaitsPool, PoolEmpty, LooksAgain, AwaitPoolBuffer,
         Refuse, GetItem, Protect, Accept, ReadMisaligned, DecryptMisaligned, NextFragment,
         FillFragment, DoPiece, WriteDone, AfterRequest, ReleaseFragmentBuffer, ReadDone,
         ReadAhead


(* The steps that change taken, active, next.                              *)
LEMMA MainFrame ==
  ASSUME AnyStep
  PROVE  \/ UNCHANGED <<taken, active, next>>
         \/ TakeIrp
         \/ Refuse
         \/ Protect
         \/ Accept
         \/ NextFragment
         \/ QueueFragment
  BY ZenonT(60), StepCases
     DEF coreVars, irpVars, queueVars, poolVars, handVars, mainVars, fragmentVars, ioVars,
         pipeVars, countVars, diskVars, outerVars, Issue, IGoto, AddIrp, Reject, RejectSignal,
         Wake, Goto, Drained, CompleteIrp, Decrement, AfterDecrement, SignalIdle, ReleaseItem,
         ReleaseRequest, TestSuspended, AwaitResume, AwaitsPool, PoolEmpty, LooksAgain,
         AwaitPoolBuffer, ReadMisaligned, DecryptMisaligned, GetRequest, FillFragment,
         TakeRequest, DoPiece, WriteDone, AfterRequest, ReleaseFragmentBuffer, ReadDone,
         PassesOn, PostCompletion, ReadAhead, DecryptFragment


(* The steps that change freeRequests, outstanding, pending.               *)
LEMMA NumberFrame ==
  ASSUME AnyStep
  PROVE  \/ UNCHANGED <<freeRequests, outstanding, pending>>
         \/ (\E i \in Irps, op \in {"read", "write", "skewed"}, first \in Nat, len \in Nat :
                 Issue(i, op, first, len))
         \/ (\E i \in Irps : Reject(i))
         \/ (\E t \in Threads : Decrement(t))
         \/ (\E t \in Threads : ReleaseRequest(t))
         \/ NextFragment
         \/ GetRequest
         \/ TakeRequest
         \/ ReadDone
  BY ZenonT(60), StepCases
     DEF coreVars, irpVars, queueVars, poolVars, handVars, mainVars, fragmentVars, ioVars,
         pipeVars, countVars, diskVars, outerVars, AddIrp, IGoto, RejectSignal, Wake, Goto,
         Drained, CompleteIrp, SignalIdle, AfterDecrement, ReleaseItem, TakeIrp, TestSuspended,
         AwaitResume, AwaitsPool, PoolEmpty, LooksAgain, AwaitPoolBuffer, Refuse, GetItem,
         Protect, Accept, ReadMisaligned, DecryptMisaligned, FillFragment, QueueFragment,
         DoPiece, WriteDone, AfterRequest, ReleaseFragmentBuffer, PassesOn, PostCompletion,
         ReadAhead, DecryptFragment


(* The steps that change fragmentFree.                                     *)
LEMMA BufferFrame ==
  ASSUME AnyStep
  PROVE  \/ UNCHANGED <<fragmentFree>>
         \/ FillFragment
         \/ WriteDone
         \/ ReadDone
  BY ZenonT(60), StepCases
     DEF coreVars, irpVars, queueVars, poolVars, handVars, mainVars, fragmentVars, ioVars,
         pipeVars, countVars, diskVars, outerVars, Issue, IGoto, AddIrp, Reject, RejectSignal,
         Wake, Goto, Drained, CompleteIrp, Decrement, AfterDecrement, SignalIdle, ReleaseItem,
         ReleaseRequest, TakeIrp, TestSuspended, AwaitResume, AwaitsPool, PoolEmpty, LooksAgain,
         AwaitPoolBuffer, Refuse, GetItem, Protect, Accept, ReadMisaligned, DecryptMisaligned,
         NextFragment, GetRequest, QueueFragment, TakeRequest, DoPiece, PassesOn, PostCompletion,
         ReadAhead, DecryptFragment, AfterRequest


(* Every step keeps the shape of the IRPs ...                              *)
LEMMA IrpShapeStep ==
  ASSUME Links, AnyStep
  PROVE  IrpShape'
<1> USE DEF irpVars, queueVars, poolVars, handVars, mainVars, fragmentVars, ioVars, pipeVars,
            countVars, diskVars, outerVars
<1>1. ASSUME NEW i \in Irps, NEW op \in {"read", "write", "skewed"}, NEW first \in Nat,
             NEW len \in Nat, Issue(i, op, first, len)
      PROVE  IrpShape'
  BY <1>1, NoRequestFacts DEF Issue, IGoto, Links, Shape, IrpShape, IrpRecords, NoRequest
<1>2. ASSUME NEW i \in Irps, AddIrp(i) PROVE IrpShape'
  BY <1>2, NoRequestFacts DEF AddIrp, IGoto, Links, Shape, IrpShape, IrpRecords, NoRequest
<1>3. ASSUME NEW i \in Irps, Reject(i) PROVE IrpShape'
  BY <1>3, NoRequestFacts DEF Reject, IGoto, Links, Shape, IrpShape, IrpRecords, NoRequest
<1>4. ASSUME NEW i \in Irps, RejectSignal(i) PROVE IrpShape'
  BY <1>4, NoRequestFacts DEF RejectSignal, IGoto, Links, Shape, IrpShape, IrpRecords, NoRequest
<1>5. ASSUME NEW t \in Threads, CompleteIrp(t) PROVE IrpShape'
  BY <1>5, NoRequestFacts DEF CompleteIrp, Goto, Links, Shape, IrpShape, IrpRecords, NoRequest
<1>6. CASE UNCHANGED <<irp, ipc>>
  BY <1>6, NoRequestFacts DEF Links, Shape, IrpShape, IrpRecords, NoRequest
<1> QED
  BY IrpFrame, <1>1, <1>2, <1>3, <1>4, <1>5, <1>6


(* ... of the queues ...                                                   *)
LEMMA QueueShapeStep ==
  ASSUME Links, AnyStep
  PROVE  QueueShape'
<1> USE DEF irpVars, queueVars, poolVars, handVars, mainVars, fragmentVars, ioVars, pipeVars,
            countVars, diskVars, outerVars
<1>1. ASSUME NEW i \in Irps, AddIrp(i) PROVE QueueShape'
  BY <1>1, Links DEF AddIrp, IGoto, Links, Shape, RequestShape, QueueShape, Threads
<1>2. ASSUME TakeIrp PROVE QueueShape'
  BY <1>2, Links DEF TakeIrp, Goto, Links, Shape, RequestShape, QueueShape, Threads
<1>3. ASSUME QueueFragment PROVE QueueShape'
  BY <1>3, Links DEF QueueFragment, Goto, Links, Shape, RequestShape, QueueShape, Threads
<1>4. ASSUME TakeRequest PROVE QueueShape'
  BY <1>4, Links DEF TakeRequest, Goto, Links, Shape, RequestShape, QueueShape, Threads
<1>5. ASSUME PassesOn PROVE QueueShape'
  <2>1. req["io"] \in Requests /\ queue["completion"] \in Seq(Requests)
    BY DEF Links, Shape, RequestShape, QueueShape, Threads
  <2>2. queue' = [queue EXCEPT !["completion"] = Append(@, req["io"])]
    BY SMTT(60), <1>5 DEF PassesOn, PostCompletion
  <2> QED
    BY <2>1, <2>2 DEF Links, Shape, QueueShape, Threads
<1>6. ASSUME DecryptFragment PROVE QueueShape'
  BY <1>6, Links DEF DecryptFragment, Goto, AfterRequest, Links, Shape, RequestShape, QueueShape,
     Threads
<1>7. CASE UNCHANGED <<queue>>
  BY <1>7, Links DEF Links, Shape, RequestShape, QueueShape, Threads
<1> QED
  BY QueueFrame, <1>1, <1>2, <1>3, <1>4, <1>5, <1>6, <1>7


(* ... of the items ...                                                    *)
LEMMA ItemShapeStep ==
  ASSUME Links, AnyStep
  PROVE  ItemShape'
<1> USE DEF irpVars, queueVars, poolVars, handVars, mainVars, fragmentVars, ioVars, pipeVars,
            countVars, diskVars, outerVars
<1>1. ASSUME NEW t \in Threads, ReleaseItem(t) PROVE ItemShape'
  BY <1>1, FirstFreeIsFree, Holders DEF ReleaseItem, Goto, Links, Shape, ItemShape, MainShape,
     ItemRecords, FreeItem, Hands, MainTakes, MainOwns, InUse, Threads
<1>2. ASSUME Refuse PROVE ItemShape'
  BY <1>2, FirstFreeIsFree, Holders DEF Refuse, GetItem, Goto, Links, Shape, ItemShape,
     MainShape, ItemRecords, FreeItem, Hands, MainTakes, MainOwns, InUse, Threads
<1>3. ASSUME Protect PROVE ItemShape'
  BY SMTT(60), <1>3, FirstFreeIsFree, Holders DEF Protect, GetItem, Goto, Links, Shape, ItemShape,
     MainShape, ItemRecords, FreeItem, Hands, MainTakes, MainOwns, InUse, Threads
<1>4. ASSUME Accept PROVE ItemShape'
  BY SMTT(60), <1>4, FirstFreeIsFree, Holders DEF Accept, GetItem, Goto, Links, Shape, ItemShape,
     MainShape, ItemRecords, FreeItem, Hands, MainTakes, MainOwns, InUse, Threads
<1>5. ASSUME ReadMisaligned PROVE ItemShape'
  BY SMTT(60), <1>5, FirstFreeIsFree, Holders DEF ReadMisaligned, Goto, Links, Shape, ItemShape,
     MainShape,
     ItemRecords, FreeItem, Hands, MainTakes, MainOwns, InUse, Threads
<1>6. ASSUME TakeRequest PROVE ItemShape'
  BY SMTT(60), <1>6, Holders, QueueHeads DEF TakeRequest, Goto, Links, Shape, ItemShape,
     ItemRecords,
     InUse, Threads
<1>7. ASSUME DoPiece PROVE ItemShape'
  BY <1>7, FirstFreeIsFree, Holders DEF DoPiece, Goto, Links, Shape, ItemShape, MainShape,
     ItemRecords, FreeItem, Hands, MainTakes, MainOwns, InUse, Threads
<1>8. CASE UNCHANGED <<item>>
  BY <1>8, FirstFreeIsFree, Holders DEF Links, Shape, ItemShape, MainShape, ItemRecords,
     FreeItem, Hands, MainTakes, MainOwns, InUse, Threads
<1> QED
  BY SMTT(60), ItemFrame, <1>1, <1>2, <1>3, <1>4, <1>5, <1>6, <1>7, <1>8


(* ... of the threads ...                                                  *)
LEMMA PcShapeStep ==
  ASSUME Links, AnyStep
  PROVE  PcShape'
<1> USE DEF irpVars, queueVars, poolVars, handVars, mainVars, fragmentVars, ioVars, pipeVars,
            countVars, diskVars, outerVars
<1>1. ASSUME NEW i \in Irps, NEW op \in {"read", "write", "skewed"}, NEW first \in Nat,
             NEW len \in Nat, Issue(i, op, first, len)
      PROVE  PcShape'
  BY <1>1, Links DEF Issue, IGoto, Links, Shape, PcShape, Threads, MainPcs, IoPcs, CompletionPcs,
     Resting, MainTakes, MainOwns, Cutting, Ending
<1>2. ASSUME NEW i \in Irps, AddIrp(i) PROVE PcShape'
  BY <1>2, Links DEF AddIrp, IGoto, Links, Shape, PcShape, Threads, MainPcs, IoPcs,
     CompletionPcs, Resting, MainTakes, MainOwns, Cutting, Ending
<1>3. ASSUME NEW i \in Irps, Reject(i) PROVE PcShape'
  BY <1>3, Links DEF Reject, IGoto, Links, Shape, PcShape, Threads, MainPcs, IoPcs,
     CompletionPcs, Resting, MainTakes, MainOwns, Cutting, Ending
<1>4. ASSUME NEW i \in Irps, RejectSignal(i) PROVE PcShape'
  BY <1>4, Links DEF RejectSignal, IGoto, Links, Shape, PcShape, Threads, MainPcs, IoPcs,
     CompletionPcs, Resting, MainTakes, MainOwns, Cutting, Ending
<1>5. ASSUME NEW t \in Threads, Wake(t) PROVE PcShape'
  BY <1>5, Links DEF Wake, Goto, Links, Shape, PcShape, Threads, MainPcs, IoPcs, CompletionPcs,
     Resting, MainTakes, MainOwns, Cutting, Ending
<1>6. ASSUME NEW t \in Threads, Drained(t) PROVE PcShape'
  BY <1>6, Links DEF Drained, Goto, Links, Shape, PcShape, Threads, MainPcs, IoPcs,
     CompletionPcs, Resting, MainTakes, MainOwns, Cutting, Ending
<1>7. ASSUME NEW t \in Threads, CompleteIrp(t) PROVE PcShape'
  BY <1>7, Links DEF CompleteIrp, Goto, Links, Shape, PcShape, Threads, MainPcs, IoPcs,
     CompletionPcs, Resting, MainTakes, MainOwns, Cutting, Ending
<1>8. ASSUME NEW t \in Threads, Decrement(t) PROVE PcShape'
  BY <1>8, Links DEF Decrement, Goto, AfterDecrement, Links, Shape, PcShape, Threads, MainPcs,
     IoPcs, CompletionPcs, Resting, MainTakes, MainOwns, Cutting, Ending
<1>9. ASSUME NEW t \in Threads, SignalIdle(t) PROVE PcShape'
  BY <1>9, Links DEF SignalIdle, Goto, AfterDecrement, Links, Shape, PcShape, Threads, MainPcs,
     IoPcs, CompletionPcs, Resting, MainTakes, MainOwns, Cutting, Ending
<1>10. ASSUME NEW t \in Threads, ReleaseItem(t) PROVE PcShape'
  BY <1>10, Links DEF ReleaseItem, Goto, Links, Shape, PcShape, Threads, MainPcs, IoPcs,
     CompletionPcs, Resting, MainTakes, MainOwns, Cutting, Ending
<1>11. ASSUME NEW t \in Threads, ReleaseRequest(t) PROVE PcShape'
  BY <1>11, Links DEF ReleaseRequest, Goto, Links, Shape, PcShape, Threads, MainPcs, IoPcs,
     CompletionPcs, Resting, MainTakes, MainOwns, Cutting, Ending
<1>12. ASSUME TakeIrp PROVE PcShape'
  BY <1>12, Links DEF TakeIrp, Goto, Links, Shape, PcShape, Threads, MainPcs, IoPcs,
     CompletionPcs, Resting, MainTakes, MainOwns, Cutting, Ending
<1>13. ASSUME TestSuspended PROVE PcShape'
  BY <1>13, Links DEF TestSuspended, Goto, Links, Shape, PcShape, Threads, MainPcs, IoPcs,
     CompletionPcs, Resting, MainTakes, MainOwns, Cutting, Ending
<1>14. ASSUME AwaitResume PROVE PcShape'
  BY <1>14, Links DEF AwaitResume, Goto, Links, Shape, PcShape, Threads, MainPcs, IoPcs,
     CompletionPcs, Resting, MainTakes, MainOwns, Cutting, Ending
<1>15. ASSUME AwaitsPool PROVE PcShape'
  BY <1>15, Links DEF AwaitsPool, PoolEmpty, Goto, Links, Shape, PcShape, Threads, MainPcs,
     IoPcs, CompletionPcs, Resting, MainTakes, MainOwns, Cutting, Ending
<1>16. ASSUME LooksAgain PROVE PcShape'
  BY <1>16, Links DEF LooksAgain, AwaitPoolBuffer, Goto, Links, Shape, PcShape, Threads, MainPcs,
     IoPcs, CompletionPcs, Resting, MainTakes, MainOwns, Cutting, Ending
<1>17. ASSUME Refuse PROVE PcShape'
  BY <1>17, Links DEF Refuse, GetItem, Goto, Links, Shape, PcShape, Threads, MainPcs, IoPcs,
     CompletionPcs, Resting, MainTakes, MainOwns, Cutting, Ending
<1>18. ASSUME Protect PROVE PcShape'
  BY <1>18, Links DEF Protect, GetItem, Goto, Links, Shape, PcShape, Threads, MainPcs, IoPcs,
     CompletionPcs, Resting, MainTakes, MainOwns, Cutting, Ending
<1>19. ASSUME Accept PROVE PcShape'
  BY <1>19, Links DEF Accept, GetItem, Goto, Links, Shape, PcShape, Threads, MainPcs, IoPcs,
     CompletionPcs, Resting, MainTakes, MainOwns, Cutting, Ending
<1>20. ASSUME ReadMisaligned PROVE PcShape'
  BY <1>20, Links DEF ReadMisaligned, Goto, Links, Shape, PcShape, Threads, MainPcs, IoPcs,
     CompletionPcs, Resting, MainTakes, MainOwns, Cutting, Ending
<1>21. ASSUME DecryptMisaligned PROVE PcShape'
  BY <1>21, Links DEF DecryptMisaligned, Goto, Links, Shape, PcShape, Threads, MainPcs, IoPcs,
     CompletionPcs, Resting, MainTakes, MainOwns, Cutting, Ending
<1>22. ASSUME NextFragment PROVE PcShape'
  BY <1>22, Links DEF NextFragment, Goto, Links, Shape, PcShape, Threads, MainPcs, IoPcs,
     CompletionPcs, Resting, MainTakes, MainOwns, Cutting, Ending
<1>23. ASSUME GetRequest PROVE PcShape'
  BY <1>23, Links DEF GetRequest, Goto, Links, Shape, PcShape, Threads, MainPcs, IoPcs,
     CompletionPcs, Resting, MainTakes, MainOwns, Cutting, Ending
<1>24. ASSUME FillFragment PROVE PcShape'
  BY <1>24, Links DEF FillFragment, Goto, Links, Shape, PcShape, Threads, MainPcs, IoPcs,
     CompletionPcs, Resting, MainTakes, MainOwns, Cutting, Ending
<1>25. ASSUME QueueFragment PROVE PcShape'
  BY <1>25, Links DEF QueueFragment, Goto, Links, Shape, PcShape, Threads, MainPcs, IoPcs,
     CompletionPcs, Resting, MainTakes, MainOwns, Cutting, Ending
<1>26. ASSUME TakeRequest PROVE PcShape'
  BY <1>26, Links DEF TakeRequest, Goto, Links, Shape, PcShape, Threads, MainPcs, IoPcs,
     CompletionPcs, Resting, MainTakes, MainOwns, Cutting, Ending
<1>27. ASSUME DoPiece PROVE PcShape'
  BY <1>27, Links DEF DoPiece, Goto, Links, Shape, PcShape, Threads, MainPcs, IoPcs,
     CompletionPcs, Resting, MainTakes, MainOwns, Cutting, Ending
<1>28. ASSUME WriteDone PROVE PcShape'
  BY <1>28, Links DEF WriteDone, Goto, AfterRequest, ReleaseFragmentBuffer, Links, Shape,
     PcShape, Threads, MainPcs, IoPcs, CompletionPcs, Resting, MainTakes, MainOwns, Cutting,
     Ending
<1>29. ASSUME ReadDone PROVE PcShape'
  BY <1>29, Links DEF ReadDone, Goto, ReleaseFragmentBuffer, Links, Shape, PcShape, Threads,
     MainPcs, IoPcs, CompletionPcs, Resting, MainTakes, MainOwns, Cutting, Ending
<1>30. ASSUME PassesOn PROVE PcShape'
  BY <1>30, Links DEF PassesOn, PostCompletion, Goto, Links, Shape, PcShape, Threads, MainPcs,
     IoPcs, CompletionPcs, Resting, MainTakes, MainOwns, Cutting, Ending
<1>31. ASSUME ReadAhead PROVE PcShape'
  BY SMTT(60), <1>31, Links DEF ReadAhead, Goto, Links, Shape, PcShape, Threads, MainPcs, IoPcs,
     CompletionPcs, Resting, MainTakes, MainOwns, Cutting, Ending
<1>32. ASSUME DecryptFragment PROVE PcShape'
  BY ZenonT(60), <1>32, Links DEF DecryptFragment, Goto, AfterRequest, Links, Shape, PcShape,
     Threads,
     MainPcs, IoPcs, CompletionPcs, Resting, MainTakes, MainOwns, Cutting, Ending
<1>33. CASE UNCHANGED coreVars
  BY <1>33, Links DEF Links, Shape, PcShape, Threads, MainPcs, IoPcs, CompletionPcs, Resting,
     MainTakes, MainOwns, Cutting, Ending, coreVars
<1> QED
  BY StepCases, <1>1, <1>2, <1>3, <1>4, <1>5, <1>6, <1>7, <1>8, <1>9, <1>10, <1>11, <1>12, <1>13,
     <1>14, <1>15, <1>16, <1>17, <1>18, <1>19, <1>20, <1>21, <1>22, <1>23, <1>24, <1>25, <1>26,
     <1>27, <1>28, <1>29, <1>30, <1>31, <1>32, <1>33


(* ... of what they work on ...                                            *)
LEMMA OwnShapeStep ==
  ASSUME Links, AnyStep
  PROVE  OwnShape'
<1> USE DEF irpVars, queueVars, poolVars, handVars, mainVars, fragmentVars, ioVars, pipeVars,
            countVars, diskVars, outerVars
<1>1. ASSUME NEW t \in Threads, ReleaseItem(t) PROVE OwnShape'
  BY <1>1, FirstFreeIsFree, QueueHeads, RequestFields, QueueAssumption
     DEF ReleaseItem, Goto, Links, Shape, OwnShape, Threads, Items
<1>2. ASSUME NEW t \in Threads, ReleaseRequest(t) PROVE OwnShape'
  BY <1>2, FirstFreeIsFree, QueueHeads, RequestFields, QueueAssumption
     DEF ReleaseRequest, Goto, Links, Shape, OwnShape, Threads, Items
<1>3. ASSUME Refuse PROVE OwnShape'
  BY <1>3, FirstFreeIsFree, QueueHeads, RequestFields, QueueAssumption
     DEF Refuse, GetItem, Goto, Links, Shape, OwnShape, Threads, Items
<1>4. ASSUME Protect PROVE OwnShape'
  BY <1>4, FirstFreeIsFree, QueueHeads, RequestFields, QueueAssumption
     DEF Protect, GetItem, Goto, Links, Shape, OwnShape, Threads, Items
<1>5. ASSUME Accept PROVE OwnShape'
  BY <1>5, FirstFreeIsFree, QueueHeads, RequestFields, QueueAssumption
     DEF Accept, GetItem, Goto, Links, Shape, OwnShape, Threads, Items
<1>6. ASSUME QueueFragment PROVE OwnShape'
  BY <1>6, FirstFreeIsFree, QueueHeads, RequestFields, QueueAssumption
     DEF QueueFragment, Goto, Links, Shape, OwnShape, Threads, Items
<1>7. ASSUME TakeRequest PROVE OwnShape'
  BY <1>7, FirstFreeIsFree, QueueHeads, RequestFields, QueueAssumption
     DEF TakeRequest, Goto, Links, Shape, OwnShape, Threads, Items
<1>8. ASSUME PassesOn PROVE OwnShape'
  BY SMTT(60), <1>8, FirstFreeIsFree, QueueHeads, RequestFields, QueueAssumption
     DEF PassesOn, PostCompletion, Goto, Links, Shape, OwnShape, Threads, Items
<1>9. ASSUME DecryptFragment PROVE OwnShape'
  BY ZenonT(60), <1>9, FirstFreeIsFree, QueueHeads, RequestFields, QueueAssumption
     DEF DecryptFragment, Goto, AfterRequest, Links, Shape, OwnShape, Threads, Items
<1>10. CASE UNCHANGED <<own>>
  BY <1>10, FirstFreeIsFree, QueueHeads, RequestFields, QueueAssumption
     DEF Links, Shape, OwnShape, Threads, Items
<1> QED
  BY OwnFrame, <1>1, <1>2, <1>3, <1>4, <1>5, <1>6, <1>7, <1>8, <1>9, <1>10


(* ... of the requests in their hands ...                                  *)
LEMMA RequestShapeStep ==
  ASSUME Links, AnyStep
  PROVE  RequestShape'
<1> USE DEF irpVars, queueVars, poolVars, handVars, mainVars, fragmentVars, ioVars, pipeVars,
            countVars, diskVars, outerVars
<1>1. ASSUME NEW t \in Threads, ReleaseRequest(t) PROVE RequestShape'
  BY <1>1, NoRequestFacts, QueueHeads DEF ReleaseRequest, Goto, Links, Shape, RequestShape,
     Threads
<1>2. ASSUME GetRequest PROVE RequestShape'
  <2>1. /\ MainIrp \in Irps /\ irp[MainIrp] \in IrpRecords
        /\ own["main"] \in 0..ItemCount /\ next \in Int /\ active \in Fragments
    BY <1>2, Holders, UsedItems DEF GetRequest, Goto, Links, Shape, Hands, OwnShape, MainShape,
       Threads, MainOwns, Cutting, MainIrp
  <2>2. req'["main"] \in Requests
    BY <2>1, <1>2, QueueAssumption DEF GetRequest, Requests, EncryptedPart, Span, RequestShape,
       Links, Shape, Threads, IrpRecords
  <2> QED
    BY SMTT(60), <2>2, <1>2 DEF GetRequest, RequestShape, Links, Shape, Threads
<1>3. ASSUME QueueFragment PROVE RequestShape'
  BY SMTT(60), <1>3, NoRequestFacts, QueueHeads DEF QueueFragment, Goto, Links, Shape,
     RequestShape, Threads
<1>4. ASSUME TakeRequest PROVE RequestShape'
  BY <1>4, NoRequestFacts, QueueHeads DEF TakeRequest, Goto, Links, Shape, RequestShape, Threads
<1>5. ASSUME PassesOn PROVE RequestShape'
  BY SMTT(60), <1>5, NoRequestFacts, QueueHeads DEF PassesOn, PostCompletion, Goto, Links, Shape,
     RequestShape, Threads
<1>6. ASSUME DecryptFragment PROVE RequestShape'
  BY ZenonT(60), <1>6, NoRequestFacts, QueueHeads DEF DecryptFragment, Goto, AfterRequest, Links,
     Shape,
     RequestShape, Threads
<1>7. CASE UNCHANGED <<req>>
  BY <1>7, NoRequestFacts, QueueHeads DEF Links, Shape, RequestShape, Threads
<1> QED
  BY RequestFrame, <1>1, <1>2, <1>3, <1>4, <1>5, <1>6, <1>7


(* ... of the place of the main thread in its IRP ...                      *)
LEMMA MainShapeStep ==
  ASSUME Links, AnyStep
  PROVE  MainShape'
<1> USE DEF irpVars, queueVars, poolVars, handVars, mainVars, fragmentVars, ioVars, pipeVars,
            countVars, diskVars, outerVars
<1>1. ASSUME TakeIrp PROVE MainShape'
  BY <1>1, QueueHeads DEF TakeIrp, Goto, Links, Shape, MainShape, Fragments, Toggle
<1>2. ASSUME Refuse PROVE MainShape'
  BY <1>2, QueueHeads DEF Refuse, GetItem, Goto, Links, Shape, MainShape, Fragments, Toggle
<1>3. ASSUME Protect PROVE MainShape'
  BY <1>3, QueueHeads DEF Protect, GetItem, Goto, Links, Shape, MainShape, Fragments, Toggle
<1>4. ASSUME Accept PROVE MainShape'
  BY <1>4 DEF Accept, GetItem, Goto, Links, Shape, MainShape, Hands, MainTakes, IrpShape,
     IrpRecords
<1>5. ASSUME NextFragment PROVE MainShape'
  BY <1>5, QueueHeads DEF NextFragment, Goto, Links, Shape, MainShape, Fragments, Toggle
<1>6. ASSUME QueueFragment PROVE MainShape'
  BY <1>6, QueueAssumption DEF QueueFragment, Links, Shape, MainShape
<1>7. CASE UNCHANGED <<taken, active, next>>
  BY <1>7, QueueHeads DEF Links, Shape, MainShape, Fragments, Toggle
<1> QED
  BY MainFrame, <1>1, <1>2, <1>3, <1>4, <1>5, <1>6, <1>7


(* ... of the counts ...                                                   *)
LEMMA NumberShapeStep ==
  ASSUME Links, AnyStep
  PROVE  NumberShape'
<1> USE DEF irpVars, queueVars, poolVars, handVars, mainVars, fragmentVars, ioVars, pipeVars,
            countVars, diskVars, outerVars
<1>1. ASSUME NEW i \in Irps, NEW op \in {"read", "write", "skewed"}, NEW first \in Nat,
             NEW len \in Nat, Issue(i, op, first, len)
      PROVE  NumberShape'
  BY <1>1, Links DEF Issue, IGoto, Links, Shape, NumberShape, CountAhead
<1>2. ASSUME NEW i \in Irps, Reject(i) PROVE NumberShape'
  BY <1>2, Links DEF Reject, IGoto, Links, Shape, NumberShape, CountAhead
<1>3. ASSUME NEW t \in Threads, Decrement(t) PROVE NumberShape'
  BY <1>3, Links DEF Decrement, Goto, AfterDecrement, Links, Shape, NumberShape, CountAhead
<1>4. ASSUME NEW t \in Threads, ReleaseRequest(t) PROVE NumberShape'
  BY <1>4, Links DEF ReleaseRequest, Goto, Links, Shape, NumberShape, CountAhead
<1>5. ASSUME NextFragment PROVE NumberShape'
  BY <1>5, Links DEF NextFragment, Goto, Links, Shape, NumberShape, CountAhead
<1>6. ASSUME GetRequest PROVE NumberShape'
  BY <1>6, Links DEF GetRequest, Goto, Links, Shape, NumberShape, CountAhead
<1>7. ASSUME TakeRequest PROVE NumberShape'
  BY <1>7, Links DEF TakeRequest, Goto, Links, Shape, NumberShape, CountAhead
<1>8. ASSUME ReadDone PROVE NumberShape'
  BY <1>8, Links DEF ReadDone, Goto, ReleaseFragmentBuffer, Links, Shape, NumberShape, CountAhead
<1>9. CASE UNCHANGED <<freeRequests, outstanding, pending>>
  BY <1>9, Links DEF Links, Shape, NumberShape, CountAhead
<1> QED
  BY NumberFrame, <1>1, <1>2, <1>3, <1>4, <1>5, <1>6, <1>7, <1>8, <1>9


(* ... and of the events of the fragment buffers.                          *)
LEMMA BufferShapeStep ==
  ASSUME Links, AnyStep
  PROVE  BufferShape'
<1> USE DEF irpVars, queueVars, poolVars, handVars, mainVars, fragmentVars, ioVars, pipeVars,
            countVars, diskVars, outerVars
<1>1. ASSUME FillFragment PROVE BufferShape'
  BY <1>1, Links DEF FillFragment, Goto, Links, Shape, BufferShape
<1>2. ASSUME WriteDone PROVE BufferShape'
  BY <1>2, Links DEF WriteDone, Goto, AfterRequest, ReleaseFragmentBuffer, Links, Shape,
     BufferShape
<1>3. ASSUME ReadDone PROVE BufferShape'
  BY <1>3, Links DEF ReadDone, Goto, ReleaseFragmentBuffer, Links, Shape, BufferShape
<1>4. CASE UNCHANGED <<fragmentFree>>
  BY <1>4, Links DEF Links, Shape, BufferShape
<1> QED
  BY BufferFrame, <1>1, <1>2, <1>3, <1>4


(* The steps that change own, req, queue, item.                            *)
LEMMA PlaceFrame ==
  ASSUME AnyStep
  PROVE  \/ UNCHANGED <<own, req, queue, item>>
         \/ (\E i \in Irps : AddIrp(i))
         \/ (\E t \in Threads : ReleaseItem(t))
         \/ (\E t \in Threads : ReleaseRequest(t))
         \/ TakeIrp
         \/ Refuse
         \/ Protect
         \/ Accept
         \/ ReadMisaligned
         \/ GetRequest
         \/ QueueFragment
         \/ TakeRequest
         \/ DoPiece
         \/ PassesOn
         \/ DecryptFragment
  BY ZenonT(60), StepCases
     DEF coreVars, irpVars, queueVars, poolVars, handVars, mainVars, fragmentVars, ioVars,
         pipeVars, countVars, diskVars, outerVars, Issue, IGoto, Reject, RejectSignal, Wake,
         Goto, Drained, CompleteIrp, Decrement, AfterDecrement, SignalIdle, TestSuspended,
         AwaitResume, AwaitsPool, PoolEmpty, LooksAgain, AwaitPoolBuffer, DecryptMisaligned,
         NextFragment, FillFragment, WriteDone, AfterRequest, ReleaseFragmentBuffer, ReadDone,
         ReadAhead


(* Every step keeps what the threads have in their hands ...               *)
LEMMA HandsStep ==
  ASSUME Links, AnyStep
  PROVE  Hands'
<1> USE DEF irpVars, queueVars, poolVars, handVars, mainVars, fragmentVars, ioVars, pipeVars,
            countVars, diskVars, outerVars
<1>1. ASSUME NEW i \in Irps, NEW op \in {"read", "write", "skewed"}, NEW first \in Nat,
             NEW len \in Nat, Issue(i, op, first, len)
      PROVE  Hands'
  BY <1>1, FirstFreeIsFree, QueueHeads, RequestFields, NoRequestFacts, Holders
     DEF Issue, IGoto, Links, Shape, PcShape, OwnShape, RequestShape, MainShape, Hands, Used,
         Threads, Items, Resting, MainTakes, MainOwns, Cutting, Ending
<1>2. ASSUME NEW i \in Irps, AddIrp(i) PROVE Hands'
  BY <1>2, FirstFreeIsFree, QueueHeads, RequestFields, NoRequestFacts, Holders
     DEF AddIrp, IGoto, Links, Shape, PcShape, OwnShape, RequestShape, MainShape, Hands, Used,
         Threads, Items, Resting, MainTakes, MainOwns, Cutting, Ending
<1>3. ASSUME NEW i \in Irps, Reject(i) PROVE Hands'
  BY <1>3, FirstFreeIsFree, QueueHeads, RequestFields, NoRequestFacts, Holders
     DEF Reject, IGoto, Links, Shape, PcShape, OwnShape, RequestShape, MainShape, Hands, Used,
         Threads, Items, Resting, MainTakes, MainOwns, Cutting, Ending
<1>4. ASSUME NEW i \in Irps, RejectSignal(i) PROVE Hands'
  BY <1>4, FirstFreeIsFree, QueueHeads, RequestFields, NoRequestFacts, Holders
     DEF RejectSignal, IGoto, Links, Shape, PcShape, OwnShape, RequestShape, MainShape, Hands,
         Used, Threads, Items, Resting, MainTakes, MainOwns, Cutting, Ending
<1>5. ASSUME NEW t \in Threads, Wake(t) PROVE Hands'
  BY SMTT(60), <1>5, FirstFreeIsFree, QueueHeads, RequestFields, NoRequestFacts, Holders
     DEF Wake, Goto, Links, Shape, PcShape, OwnShape, RequestShape, MainShape, Hands, Used,
         Threads, Items, Resting, MainTakes, MainOwns, Cutting, Ending
<1>6. ASSUME NEW t \in Threads, Drained(t) PROVE Hands'
  BY SMTT(60), <1>6, FirstFreeIsFree, QueueHeads, RequestFields, NoRequestFacts, Holders
     DEF Drained, Goto, Links, Shape, PcShape, OwnShape, RequestShape, MainShape, Hands, Used,
         Threads, Items, Resting, MainTakes, MainOwns, Cutting, Ending
<1>7. ASSUME NEW t \in Threads, CompleteIrp(t) PROVE Hands'
  BY SMTT(60), <1>7, FirstFreeIsFree, QueueHeads, RequestFields, NoRequestFacts, Holders
     DEF CompleteIrp, Goto, Links, Shape, PcShape, OwnShape, RequestShape, MainShape, Hands,
         Used, Threads, Items, Resting, MainTakes, MainOwns, Cutting, Ending
<1>8. ASSUME NEW t \in Threads, Decrement(t) PROVE Hands'
  BY SMTT(60), <1>8, FirstFreeIsFree, QueueHeads, RequestFields, NoRequestFacts, Holders
     DEF Decrement, Goto, AfterDecrement, Links, Shape, PcShape, OwnShape, RequestShape,
         MainShape, Hands, Used, Threads, Items, Resting, MainTakes, MainOwns, Cutting, Ending
<1>9. ASSUME NEW t \in Threads, SignalIdle(t) PROVE Hands'
  BY SMTT(60), <1>9, FirstFreeIsFree, QueueHeads, RequestFields, NoRequestFacts, Holders
     DEF SignalIdle, Goto, AfterDecrement, Links, Shape, PcShape, OwnShape, RequestShape,
         MainShape, Hands, Used, Threads, Items, Resting, MainTakes, MainOwns, Cutting, Ending
<1>10. ASSUME NEW t \in Threads, ReleaseItem(t) PROVE Hands'
  BY SMTT(60), <1>10, FirstFreeIsFree, QueueHeads, RequestFields, NoRequestFacts, Holders
     DEF ReleaseItem, Goto, Links, Shape, PcShape, OwnShape, RequestShape, MainShape, Hands,
         Used, Threads, Items, Resting, MainTakes, MainOwns, Cutting, Ending
<1>11. ASSUME NEW t \in Threads, ReleaseRequest(t) PROVE Hands'
  BY <1>11, FirstFreeIsFree, QueueHeads, RequestFields, NoRequestFacts, Holders
     DEF ReleaseRequest, Goto, Links, Shape, PcShape, OwnShape, RequestShape, MainShape, Hands,
         Used, Threads, Items, Resting, MainTakes, MainOwns, Cutting, Ending
<1>12. ASSUME TakeIrp PROVE Hands'
  BY SMTT(60), <1>12, QueueHeads, QueueAssumption
     DEF TakeIrp, Goto, Links, Shape, PcShape, MainShape, Hands, Threads, Resting, MainTakes,
       MainOwns, Cutting,
         Ending
<1>13. ASSUME TestSuspended PROVE Hands'
  BY SMTT(60), <1>13, FirstFreeIsFree, QueueHeads, RequestFields, NoRequestFacts, Holders
     DEF TestSuspended, Goto, Links, Shape, PcShape, OwnShape, RequestShape, MainShape, Hands,
         Used, Threads, Items, Resting, MainTakes, MainOwns, Cutting, Ending
<1>14. ASSUME AwaitResume PROVE Hands'
  BY SMTT(60), <1>14, FirstFreeIsFree, QueueHeads, RequestFields, NoRequestFacts, Holders
     DEF AwaitResume, Goto, Links, Shape, PcShape, OwnShape, RequestShape, MainShape, Hands,
         Used, Threads, Items, Resting, MainTakes, MainOwns, Cutting, Ending
<1>15. ASSUME AwaitsPool PROVE Hands'
  BY SMTT(60), <1>15, FirstFreeIsFree, QueueHeads, RequestFields, NoRequestFacts, Holders
     DEF AwaitsPool, PoolEmpty, Goto, Links, Shape, PcShape, OwnShape, RequestShape, MainShape,
         Hands, Used, Threads, Items, Resting, MainTakes, MainOwns, Cutting, Ending
<1>16. ASSUME LooksAgain PROVE Hands'
  BY SMTT(60), <1>16, FirstFreeIsFree, QueueHeads, RequestFields, NoRequestFacts, Holders
     DEF LooksAgain, AwaitPoolBuffer, Goto, Links, Shape, PcShape, OwnShape, RequestShape,
         MainShape, Hands, Used, Threads, Items, Resting, MainTakes, MainOwns, Cutting, Ending
<1>17. ASSUME Refuse PROVE Hands'
  BY SMTT(60), <1>17, FirstFreeIsFree, QueueHeads, RequestFields, NoRequestFacts, Holders
     DEF Refuse, GetItem, Goto, Links, Shape, PcShape, OwnShape, RequestShape, MainShape, Hands,
         Used, Threads, Items, Resting, MainTakes, MainOwns, Cutting, Ending
<1>18. ASSUME Protect PROVE Hands'
  BY SMTT(60), <1>18, FirstFreeIsFree, QueueHeads, RequestFields, NoRequestFacts, Holders
     DEF Protect, GetItem, Goto, Links, Shape, PcShape, OwnShape, RequestShape, MainShape, Hands,
         Used, Threads, Items, Resting, MainTakes, MainOwns, Cutting, Ending
<1>19. ASSUME Accept PROVE Hands'
  BY SMTT(60), <1>19, FirstFreeIsFree, QueueHeads, RequestFields, NoRequestFacts, Holders
     DEF Accept, GetItem, Goto, Links, Shape, PcShape, OwnShape, RequestShape, MainShape, Hands,
         Used, Threads, Items, Resting, MainTakes, MainOwns, Cutting, Ending
<1>20. ASSUME ReadMisaligned PROVE Hands'
  BY SMTT(60), <1>20, FirstFreeIsFree, QueueHeads, RequestFields, NoRequestFacts, Holders
     DEF ReadMisaligned, Goto, Links, Shape, PcShape, OwnShape, RequestShape, MainShape, Hands,
         Used, Threads, Items, Resting, MainTakes, MainOwns, Cutting, Ending
<1>21. ASSUME DecryptMisaligned PROVE Hands'
  BY SMTT(60), <1>21, FirstFreeIsFree, QueueHeads, RequestFields, NoRequestFacts, Holders
     DEF DecryptMisaligned, Goto, Links, Shape, PcShape, OwnShape, RequestShape, MainShape,
         Hands, Used, Threads, Items, Resting, MainTakes, MainOwns, Cutting, Ending
<1>22. ASSUME NextFragment PROVE Hands'
  BY SMTT(60), <1>22, FirstFreeIsFree, QueueHeads, RequestFields, NoRequestFacts, Holders
     DEF NextFragment, Goto, Links, Shape, PcShape, OwnShape, RequestShape, MainShape, Hands,
         Used, Threads, Items, Resting, MainTakes, MainOwns, Cutting, Ending
<1>23. ASSUME GetRequest PROVE Hands'
  BY SMTT(60), <1>23, FirstFreeIsFree, QueueHeads, RequestFields, NoRequestFacts, Holders
     DEF GetRequest, Goto, Links, Shape, PcShape, OwnShape, RequestShape, MainShape, Hands, Used,
         Threads, Items, Resting, MainTakes, MainOwns, Cutting, Ending
<1>24. ASSUME FillFragment PROVE Hands'
  BY SMTT(60), <1>24, FirstFreeIsFree, QueueHeads, RequestFields, NoRequestFacts, Holders
     DEF FillFragment, Goto, Links, Shape, PcShape, OwnShape, RequestShape, MainShape, Hands,
         Used, Threads, Items, Resting, MainTakes, MainOwns, Cutting, Ending
<1>25. ASSUME QueueFragment PROVE Hands'
  BY SMTT(60), <1>25, FirstFreeIsFree, QueueHeads, RequestFields, NoRequestFacts, Holders
     DEF QueueFragment, Goto, Links, Shape, PcShape, OwnShape, RequestShape, MainShape, Hands,
         Used, Threads, Items, Resting, MainTakes, MainOwns, Cutting, Ending
<1>26. ASSUME TakeRequest PROVE Hands'
  BY SMTT(60), <1>26, FirstFreeIsFree, QueueHeads, RequestFields, NoRequestFacts, Holders
     DEF TakeRequest, Goto, Links, Shape, PcShape, OwnShape, RequestShape, MainShape, Hands,
         Used, Threads, Items, Resting, MainTakes, MainOwns, Cutting, Ending
<1>27. ASSUME DoPiece PROVE Hands'
  BY SMTT(60), <1>27, FirstFreeIsFree, QueueHeads, RequestFields, NoRequestFacts, Holders
     DEF DoPiece, Goto, Links, Shape, PcShape, OwnShape, RequestShape, MainShape, Hands, Used,
         Threads, Items, Resting, MainTakes, MainOwns, Cutting, Ending
<1>28. ASSUME WriteDone PROVE Hands'
  BY <1>28, FirstFreeIsFree, QueueHeads, RequestFields, NoRequestFacts, Holders
     DEF WriteDone, Goto, AfterRequest, ReleaseFragmentBuffer, Links, Shape, PcShape, OwnShape,
         RequestShape, MainShape, Hands, Used, Threads, Items, Resting, MainTakes, MainOwns,
         Cutting, Ending
<1>29. ASSUME ReadDone PROVE Hands'
  <2>1. /\ pc["io"] = "done" /\ own' = own /\ req' = req /\ taken' = taken
        /\ pc' = [pc EXCEPT !["io"] = IF IoRequest.last /\ item[own["io"]].status = "ok"
             /\ pending = 0
                                      THEN "postAhead" ELSE "post"]
    BY SMTT(60), <1>29 DEF ReadDone, Goto
  <2> QED
    BY <2>1 DEF IoRequest, Links, Shape, PcShape, Hands, Threads, Resting, MainTakes,
     MainOwns, Cutting, Ending
<1>30. ASSUME PassesOn PROVE Hands'
  BY SMTT(60), <1>30, FirstFreeIsFree, QueueHeads, RequestFields, NoRequestFacts, Holders
     DEF PassesOn, PostCompletion, Goto, Links, Shape, PcShape, OwnShape, RequestShape,
         MainShape, Hands, Used, Threads, Items, Resting, MainTakes, MainOwns, Cutting, Ending
<1>31. ASSUME ReadAhead PROVE Hands'
  BY SMTT(60), <1>31, FirstFreeIsFree, QueueHeads, RequestFields, NoRequestFacts, Holders
     DEF ReadAhead, Goto, Links, Shape, PcShape, OwnShape, RequestShape, MainShape, Hands, Used,
         Threads, Items, Resting, MainTakes, MainOwns, Cutting, Ending
<1>32. ASSUME DecryptFragment PROVE Hands'
  BY ZenonT(60), <1>32, FirstFreeIsFree, QueueHeads, RequestFields, NoRequestFacts, Holders
     DEF DecryptFragment, Goto, AfterRequest, Links, Shape, PcShape, OwnShape, RequestShape,
         MainShape, Hands, Used, Threads, Items, Resting, MainTakes, MainOwns, Cutting, Ending
<1>33. CASE UNCHANGED coreVars
  BY <1>33, FirstFreeIsFree, QueueHeads, RequestFields, NoRequestFacts, Holders
     DEF Links, Shape, PcShape, OwnShape, RequestShape, MainShape, Hands, Used, Threads, Items,
         Resting, MainTakes, MainOwns, Cutting, Ending, coreVars
<1> QED
  BY StepCases, <1>1, <1>2, <1>3, <1>4, <1>5, <1>6, <1>7, <1>8, <1>9, <1>10, <1>11, <1>12, <1>13,
     <1>14, <1>15, <1>16, <1>17, <1>18, <1>19, <1>20, <1>21, <1>22, <1>23, <1>24, <1>25, <1>26,
     <1>27, <1>28, <1>29, <1>30, <1>31, <1>32, <1>33


(* ... in use ...                                                          *)
LEMMA UsedStep ==
  ASSUME Links, AnyStep
  PROVE  Used'
<1> USE DEF irpVars, queueVars, poolVars, handVars, mainVars, fragmentVars, ioVars, pipeVars,
            countVars, diskVars, outerVars
<1>1. ASSUME NEW i \in Irps, AddIrp(i) PROVE Used'
  BY <1>1, FirstFreeIsFree, Holders, QueueHeads DEF AddIrp, IGoto, Links, Shape, QueueShape,
     OwnShape, RequestShape, ItemShape, Used, InUse, Queued, Threads, Items, FreeItems, FreeItem,
     Hands
<1>2. ASSUME NEW t \in Threads, ReleaseItem(t) PROVE Used'
  <2>1. own[t] # 0
    BY <1>2 DEF ReleaseItem, Goto, Links, Hands, Threads, MainOwns, Ending
  <2>2. \A u \in Threads : own'[u] # 0 => own'[u] = own[u] /\ own[u] # own[t]
    BY <1>2, <2>1, OnlyHolder DEF ReleaseItem, Goto, Ending, Links, Shape, OwnShape
  <2>3. \A k \in Items : InUse(k) /\ k # own[t] => item'[k].status # "free"
    BY <1>2 DEF ReleaseItem, InUse, Links, Shape, ItemShape
  <2>4. \A u \in {"io", "completion"} : \A n \in Queued(u) : queue[u][n].item # own[t]
    BY <1>2, <2>1, OnlyHolder DEF ReleaseItem, Goto, Ending
  <2>5. queue' = queue
    BY <1>2 DEF ReleaseItem
  <2>6. \A u \in Threads : own'[u] # 0 => item'[own'[u]].status # "free"
    BY <2>2, <2>3, Holders
  <2>7. \A u \in {"io", "completion"} : \A n \in Queued(u) :
          queue[u][n].item # 0 /\ item'[queue[u][n].item].status # "free"
    BY SMTT(60), <2>3, <2>4, Holders DEF Links, Used
  <2> QED
    BY <2>5, <2>6, <2>7 DEF Used, Queued, InUse
<1>3. ASSUME NEW t \in Threads, ReleaseRequest(t) PROVE Used'
  BY SMTT(60), <1>3, FirstFreeIsFree, Holders, QueueHeads
     DEF ReleaseRequest, Goto, Links, Shape, QueueShape, OwnShape, RequestShape, ItemShape, Used,
         InUse, Queued, Threads, Items, FreeItems, FreeItem, Hands
<1>4. ASSUME TakeIrp PROVE Used'
  BY SMTT(60), <1>4, FirstFreeIsFree, Holders, QueueHeads DEF TakeIrp, Goto, Links, Shape,
     QueueShape,
     OwnShape, RequestShape, ItemShape, Used, InUse, Queued, Threads, Items, FreeItems, FreeItem,
     Hands
<1>5. ASSUME Refuse PROVE Used'
  BY SMTT(60), <1>5, FirstFreeIsFree, Holders, QueueHeads
     DEF Refuse, GetItem, Goto, Links, Shape, QueueShape, OwnShape, RequestShape, ItemShape,
         Used, InUse, Queued, Threads, Items, FreeItems, FreeItem, Hands
<1>6. ASSUME Protect PROVE Used'
  BY <1>6, FirstFreeIsFree, Holders, QueueHeads
     DEF Protect, GetItem, Goto, Links, Shape, QueueShape, OwnShape, RequestShape, ItemShape,
         Used, InUse, Queued, Threads, Items, FreeItems, FreeItem, Hands
<1>7. ASSUME Accept PROVE Used'
  BY ZenonT(60), <1>7, FirstFreeIsFree, Holders, QueueHeads
     DEF Accept, GetItem, Goto, Links, Shape, QueueShape, OwnShape, RequestShape, ItemShape,
         Used, InUse, Queued, Threads, Items, FreeItems, FreeItem, Hands
<1>8. ASSUME ReadMisaligned PROVE Used'
  <2>1. UNCHANGED <<own, queue>>
    BY <1>8 DEF ReadMisaligned
  <2>2. \A k \in Items : InUse(k)' = InUse(k)
    BY <1>8, OnlyStatus
  <2> QED
    BY <2>1, <2>2, Holders DEF Links, Used, Queued, InUse
<1>9. ASSUME GetRequest PROVE Used'
  BY ZenonT(60), <1>9, FirstFreeIsFree, Holders, QueueHeads DEF GetRequest, Goto, Links, Shape,
     QueueShape,
     OwnShape, RequestShape, ItemShape, Used, InUse, Queued, Threads, Items, FreeItems, FreeItem,
     Hands
<1>10. ASSUME QueueFragment PROVE Used'
  <2>1. \A u \in Threads : own'[u] # 0 => InUse(own'[u])
    BY <1>10, QueueFragmentMoves, Holders DEF Links, Shape, OwnShape
  <2>2. \A u \in {"io", "completion"} : \A n \in Queued(u)' :
          queue'[u][n].item # 0 /\ InUse(queue'[u][n].item)
    BY <1>10, QueueFragmentMoves, Holders, QueueAssumption DEF Links, Used, Items, Threads
  <2>3. item' = item
    BY <1>10, QueueFragmentMoves
  <2> QED
    BY <2>1, <2>2, <2>3 DEF Used, InUse
<1>11. ASSUME TakeRequest PROVE Used'
  <2>1. \A k \in Items : InUse(k)' = InUse(k)
    BY <1>11, OnlyStatus
  <2>2. \A u \in Threads : own'[u] # 0 => own'[u] \in Items /\ InUse(own'[u])
    BY <1>11, TakeRequestMoves, Holders DEF Links, Shape, OwnShape
  <2>3. \A u \in {"io", "completion"} : \A n \in Queued(u)' :
          queue'[u][n].item # 0 /\ queue'[u][n].item \in Items /\ InUse(queue'[u][n].item)
    BY <1>11, TakeRequestMoves, Holders DEF Links, Used
  <2> QED
    BY <2>1, <2>2, <2>3 DEF Used, InUse
<1>12. ASSUME DoPiece PROVE Used'
  <2>1. UNCHANGED <<own, queue>>
    BY <1>12 DEF DoPiece
  <2>2. \A k \in Items : InUse(k)' = InUse(k)
    BY <1>12, OnlyStatus
  <2> QED
    BY <2>1, <2>2, Holders DEF Links, Used, Queued, InUse
<1>13. ASSUME PassesOn PROVE Used'
  <2>1. \A u \in Threads : own'[u] # 0 => InUse(own'[u])
    BY <1>13, PassesOnMoves, Holders DEF Links, Shape, OwnShape
  <2>2. \A u \in {"io", "completion"} : \A n \in Queued(u)' :
          queue'[u][n].item # 0 /\ InUse(queue'[u][n].item)
    BY SMTT(60), <1>13, PassesOnMoves, Holders, QueueAssumption DEF Links, Used, Items, Threads
  <2>3. item' = item
    BY <1>13, PassesOnMoves
  <2> QED
    BY <2>1, <2>2, <2>3 DEF Used, InUse
<1>14. ASSUME DecryptFragment PROVE Used'
  <2>1. \A u \in Threads : own'[u] # 0 => InUse(own'[u])
    BY <1>14, DecryptFragmentMoves, Holders DEF Links, Shape, OwnShape
  <2>2. \A u \in {"io", "completion"} : \A n \in Queued(u)' :
          queue'[u][n].item # 0 /\ InUse(queue'[u][n].item)
    BY <1>14, DecryptFragmentMoves, Holders, QueueAssumption DEF Links, Used, Items, Threads
  <2>3. item' = item
    BY <1>14, DecryptFragmentMoves
  <2> QED
    BY <2>1, <2>2, <2>3 DEF Used, InUse
<1>15. CASE UNCHANGED <<own, req, queue, item>>
  BY <1>15, FirstFreeIsFree, Holders, QueueHeads DEF Links, Shape, QueueShape, OwnShape,
     RequestShape, ItemShape, Used, InUse, Queued, Threads, Items, FreeItems, FreeItem, Hands
<1> QED
  BY PlaceFrame, <1>1, <1>2, <1>3, <1>4, <1>5, <1>6, <1>7, <1>8, <1>9, <1>10, <1>11, <1>12,
     <1>13, <1>14, <1>15


(* The steps that change own, req, queue.                                  *)
LEMMA OrderFrame ==
  ASSUME AnyStep
  PROVE  \/ UNCHANGED <<own, req, queue>>
         \/ (\E i \in Irps : AddIrp(i))
         \/ (\E t \in Threads : ReleaseItem(t))
         \/ (\E t \in Threads : ReleaseRequest(t))
         \/ TakeIrp
         \/ Refuse
         \/ Protect
         \/ Accept
         \/ GetRequest
         \/ QueueFragment
         \/ TakeRequest
         \/ PassesOn
         \/ DecryptFragment
  BY ZenonT(60), StepCases
     DEF coreVars, irpVars, queueVars, poolVars, handVars, mainVars, fragmentVars, ioVars,
         pipeVars, countVars, diskVars, outerVars, Issue, IGoto, Reject, RejectSignal, Wake,
         Goto, Drained, CompleteIrp, Decrement, AfterDecrement, SignalIdle, TestSuspended,
         AwaitResume, AwaitsPool, PoolEmpty, LooksAgain, AwaitPoolBuffer, ReadMisaligned,
         DecryptMisaligned, NextFragment, FillFragment, DoPiece, WriteDone, AfterRequest,
         ReleaseFragmentBuffer, ReadDone, ReadAhead


(* ... in their order ...                                                  *)
LEMMA OrderedStep ==
  ASSUME Links, AnyStep
  PROVE  Ordered'
<1> USE DEF irpVars, queueVars, poolVars, handVars, mainVars, fragmentVars, ioVars, pipeVars,
            countVars, diskVars, outerVars
<1>1. ASSUME NEW i \in Irps, AddIrp(i) PROVE Ordered'
  <2>1. /\ UNCHANGED <<own, req>>
        /\ queue'["io"] = queue["io"] /\ queue'["completion"] = queue["completion"]
    BY <1>1 DEF AddIrp, Links, Shape, QueueShape, Threads
  <2>2. OrderedEach /\ OrderedIo /\ OrderedCompletion /\ OrderedHands
    BY DEF Links, Ordered
  <2>3. OrderedEach'
    BY <2>1, <2>2 DEF OrderedEach, Queued
  <2>4. OrderedIo'
    BY <2>1, <2>2 DEF OrderedIo, Queued
  <2>5. OrderedCompletion'
    BY <2>1, <2>2 DEF OrderedCompletion, Queued
  <2>6. OrderedHands'
    BY <2>1, <2>2 DEF OrderedHands
  <2> QED
    BY <2>3, <2>4, <2>5, <2>6 DEF Ordered
<1>2. ASSUME NEW t \in Threads, ReleaseItem(t) PROVE Ordered'
  <2>1. /\ UNCHANGED <<queue, req>> /\ own' = [own EXCEPT ![t] = 0]
        /\ \A u \in Threads : own'[u] = 0 \/ own'[u] = own[u]
    BY <1>2 DEF ReleaseItem, Links, Shape, OwnShape
  <2>2. OrderedEach /\ OrderedIo /\ OrderedCompletion /\ OrderedHands
    BY DEF Links, Ordered
  <2>3. \A u \in {"io", "completion"} : \A n \in Queued(u) : queue[u][n].item # 0
    BY DEF Links, Used
  <2>4. OrderedEach'
    BY <2>1, <2>2 DEF OrderedEach, Queued
  <2>5. OrderedIo'
    BY <2>1, <2>2, <2>3 DEF OrderedIo, Queued, Threads
  <2>6. OrderedCompletion'
    BY <2>1, <2>2, <2>3 DEF OrderedCompletion, Queued, Threads
  <2>7. OrderedHands'
    BY <2>1, <2>2 DEF OrderedHands, Threads
  <2> QED
    BY <2>4, <2>5, <2>6, <2>7 DEF Ordered
<1>3. ASSUME NEW t \in Threads, ReleaseRequest(t) PROVE Ordered'
  <2>1. queue' = queue /\ own' = [own EXCEPT ![t] = 0] /\ req' = [req EXCEPT ![t] = NoIoRequest]
    BY <1>3 DEF ReleaseRequest
  <2>2. own'[t] = 0 /\ \A u \in Threads : u # t => own'[u] = own[u] /\ req'[u] = req[u]
    BY <2>1 DEF Links, Shape, OwnShape, RequestShape
  <2>3. OrderedEach' /\ OrderedCompletion' /\ OrderedHands'
    BY <2>1, <2>2, Holders DEF Links, Ordered, OrderedEach, OrderedCompletion, OrderedHands,
       Threads, Used, Queued
  <2>4. OrderedIo'
    BY <2>1, <2>2, Holders DEF Links, Ordered, OrderedIo, Threads, Used, Queued
  <2> QED
    BY <2>3, <2>4 DEF Ordered
<1>4. ASSUME TakeIrp PROVE Ordered'
  BY <1>4, FirstFreeIsFree, Holders, QueueHeads
     DEF TakeIrp, Goto, Links, Shape, QueueShape, OwnShape, RequestShape, Queued, Threads, Items,
         FreeItems, FreeItem, Hands, InUse, Ordered, OrderedEach, OrderedIo, OrderedCompletion,
         OrderedHands
<1>5. ASSUME Refuse PROVE Ordered'
  BY SMTT(60), <1>5, GetItemTakes DEF Links, Shape, OwnShape, Ordered, OrderedEach, OrderedIo,
     OrderedCompletion, OrderedHands, Queued, Threads
<1>6. ASSUME Protect PROVE Ordered'
  BY SMTT(60), <1>6, GetItemTakes DEF Links, Shape, OwnShape, Ordered, OrderedEach, OrderedIo,
     OrderedCompletion, OrderedHands, Queued, Threads
<1>7. ASSUME Accept PROVE Ordered'
  BY SMTT(60), <1>7, GetItemTakes DEF Links, Shape, OwnShape, Ordered, OrderedEach, OrderedIo,
     OrderedCompletion, OrderedHands, Queued, Threads
<1>8. ASSUME GetRequest PROVE Ordered'
  BY <1>8, FirstFreeIsFree, Holders, QueueHeads
     DEF GetRequest, Goto, Links, Shape, QueueShape, OwnShape, RequestShape, Queued, Threads,
         Items, FreeItems, FreeItem, Hands, InUse, Ordered, OrderedEach, OrderedIo,
         OrderedCompletion, OrderedHands
<1>9. ASSUME QueueFragment PROVE Ordered'
  <2> DEFINE l == Len(queue["io"]) + 1
  <2>1. /\ own'["main"] = IF req["main"].last THEN 0 ELSE own["main"]
        /\ own'["io"] = own["io"] /\ own'["completion"] = own["completion"]
        /\ req'["io"] = req["io"] /\ req'["completion"] = req["completion"]
        /\ own["main"] # 0 /\ req["main"].item = own["main"]
    BY <1>9, QueueFragmentMoves, QueueAssumption DEF Links, Shape, OwnShape, RequestShape,
       Threads, Items
  <2>2. /\ \A n \in Queued("io")' :
            \/ n \in Queued("io") /\ queue'["io"][n] = queue["io"][n] /\ n < l
            \/ n = l /\ queue'["io"][n] = req["main"]
        /\ l \in Int /\ \A n \in Queued("io")' : n \in Int
        /\ queue'["completion"] = queue["completion"]
             /\ Queued("completion")' = Queued("completion")
    BY <1>9, QueueFragmentMoves DEF Queued, QueueShape
  <2> HIDE DEF l
  <2>3. \A t \in {"io", "completion"} : \A n \in Queued(t) : queue[t][n].item # 0 /\ n \in Int
    BY DEF Links, Used, Queued
  <2>4. OrderedEach'
    <3>1. SUFFICES ASSUME NEW t \in {"io", "completion"}, NEW m \in Queued(t)',
                          NEW n \in Queued(t)',
                          m < n, queue'[t][m].item = queue'[t][n].item
                   PROVE  ~queue'[t][m].last
      BY DEF OrderedEach
    <3>4. CASE t = "io"
      BY <2>1, <2>2, <2>3, <3>1, <3>4 DEF Links, Ordered, OrderedEach, OrderedIo
    <3>5. CASE t = "completion"
      BY <2>1, <2>2, <2>3, <3>1, <3>5 DEF Links, Ordered, OrderedEach, OrderedCompletion
    <3> QED
      BY <3>4, <3>5
  <2>5. OrderedIo'
    BY <2>1, <2>2, <2>3 DEF Links, Ordered, OrderedEach, OrderedIo, OrderedCompletion,
       OrderedHands
  <2>6. OrderedCompletion'
    BY <2>1, <2>2, <2>3 DEF Links, Ordered, OrderedEach, OrderedIo, OrderedCompletion,
       OrderedHands
  <2>7. OrderedHands'
    BY <2>1, <2>2, <2>3 DEF Links, Ordered, OrderedEach, OrderedIo, OrderedCompletion,
       OrderedHands
  <2> QED
    BY <2>4, <2>5, <2>6, <2>7 DEF Ordered
<1>10. ASSUME TakeRequest PROVE Ordered'
  <2>1. /\ own'["main"] = own["main"] /\ own'["completion"] = own["completion"]
        /\ own'["io"] = queue["io"][1].item /\ req'["io"] = queue["io"][1]
        /\ req'["main"] = req["main"] /\ req'["completion"] = req["completion"]
    BY <1>10, TakeRequestMoves DEF Links, Shape, OwnShape, RequestShape, Threads
  <2>2. /\ 1 \in Queued("io") /\ own'["io"] # 0
        /\ \A n \in Queued("io")' : queue'["io"][n] = queue["io"][n + 1] /\ n + 1 \in Queued("io")
                                    /\ n \in Int /\ 1 < n + 1
        /\ queue'["completion"] = queue["completion"]
             /\ Queued("completion")' = Queued("completion")
    BY <1>10, TakeRequestMoves, QueueAssumption DEF Queued, Items
  <2>3. \A t \in {"io", "completion"} : \A n \in Queued(t) : queue[t][n].item # 0 /\ n \in Int
    BY DEF Links, Used, Queued
  <2>4. OrderedEach'
    <3>1. SUFFICES ASSUME NEW t \in {"io", "completion"}, NEW m \in Queued(t)',
                          NEW n \in Queued(t)',
                          m < n, queue'[t][m].item = queue'[t][n].item
                   PROVE  ~queue'[t][m].last
      BY DEF OrderedEach
    <3>4. CASE t = "io"
      BY <2>1, <2>2, <2>3, <3>1, <3>4 DEF Links, Ordered, OrderedEach, OrderedIo
    <3>5. CASE t = "completion"
      BY <2>1, <2>2, <2>3, <3>1, <3>5 DEF Links, Ordered, OrderedEach, OrderedCompletion
    <3> QED
      BY <3>4, <3>5
  <2>5. OrderedIo'
    BY <2>1, <2>2, <2>3 DEF Links, Ordered, OrderedEach, OrderedIo, OrderedCompletion,
       OrderedHands
  <2>6. OrderedCompletion'
    BY <2>1, <2>2, <2>3 DEF Links, Ordered, OrderedEach, OrderedIo, OrderedCompletion,
       OrderedHands
  <2>7. OrderedHands'
    BY <2>1, <2>2, <2>3 DEF Links, Ordered, OrderedEach, OrderedIo, OrderedCompletion,
       OrderedHands
  <2> QED
    BY <2>4, <2>5, <2>6, <2>7 DEF Ordered
<1>11. ASSUME PassesOn PROVE Ordered'
  <2> DEFINE l == Len(queue["completion"]) + 1
  <2>1. /\ own'["io"] = 0 /\ own'["main"] = own["main"] /\ own'["completion"] = own["completion"]
        /\ req'["main"] = req["main"] /\ req'["completion"] = req["completion"]
        /\ own["io"] # 0 /\ req["io"].item = own["io"]
    BY <1>11, PassesOnMoves, QueueAssumption DEF Links, Shape, OwnShape, RequestShape, Threads,
       Items
  <2>2. /\ \A n \in Queued("completion")' :
             \/ n \in Queued("completion") /\ queue'["completion"][n] = queue["completion"][n]
                  /\ n < l
             \/ n = l /\ queue'["completion"][n] = req["io"]
        /\ l \in Int /\ \A n \in Queued("completion")' : n \in Int
        /\ queue'["io"] = queue["io"] /\ Queued("io")' = Queued("io")
    BY <1>11, PassesOnMoves DEF Queued, QueueShape
  <2> HIDE DEF l
  <2>3. \A t \in {"io", "completion"} : \A n \in Queued(t) : queue[t][n].item # 0 /\ n \in Int
    BY DEF Links, Used, Queued
  <2>4. OrderedEach'
    <3>1. SUFFICES ASSUME NEW t \in {"io", "completion"}, NEW m \in Queued(t)',
                          NEW n \in Queued(t)',
                          m < n, queue'[t][m].item = queue'[t][n].item
                   PROVE  ~queue'[t][m].last
      BY DEF OrderedEach
    <3>4. CASE t = "io"
      BY <2>1, <2>2, <2>3, <3>1, <3>4 DEF Links, Ordered, OrderedEach, OrderedIo
    <3>5. CASE t = "completion"
      BY <2>1, <2>2, <2>3, <3>1, <3>5 DEF Links, Ordered, OrderedEach, OrderedCompletion
    <3> QED
      BY <3>4, <3>5
  <2>5. OrderedIo'
    BY <2>1, <2>2, <2>3 DEF Links, Ordered, OrderedEach, OrderedIo, OrderedCompletion,
       OrderedHands
  <2>6. OrderedCompletion'
    BY <2>1, <2>2, <2>3 DEF Links, Ordered, OrderedEach, OrderedIo, OrderedCompletion,
       OrderedHands
  <2>7. OrderedHands'
    BY <2>1, <2>2, <2>3 DEF Links, Ordered, OrderedEach, OrderedIo, OrderedCompletion,
       OrderedHands
  <2> QED
    BY <2>4, <2>5, <2>6, <2>7 DEF Ordered
<1>12. ASSUME DecryptFragment PROVE Ordered'
  <2>1. /\ own'["main"] = own["main"] /\ own'["io"] = own["io"]
        /\ own'["completion"] = queue["completion"][1].item
        /\ req'["completion"] = queue["completion"][1]
        /\ req'["main"] = req["main"] /\ req'["io"] = req["io"]
    BY <1>12, DecryptFragmentMoves DEF Links, Shape, OwnShape, RequestShape, Threads
  <2>2. /\ 1 \in Queued("completion") /\ own'["completion"] # 0
        /\ \A n \in Queued("completion")' :
             /\ queue'["completion"][n] = queue["completion"][n + 1]
                  /\ n + 1 \in Queued("completion")
             /\ n \in Int /\ 1 < n + 1
        /\ queue'["io"] = queue["io"] /\ Queued("io")' = Queued("io")
    BY <1>12, DecryptFragmentMoves, QueueAssumption DEF Queued, Items
  <2>3. \A t \in {"io", "completion"} : \A n \in Queued(t) : queue[t][n].item # 0 /\ n \in Int
    BY DEF Links, Used, Queued
  <2>4. OrderedEach'
    <3>1. SUFFICES ASSUME NEW t \in {"io", "completion"}, NEW m \in Queued(t)',
                          NEW n \in Queued(t)',
                          m < n, queue'[t][m].item = queue'[t][n].item
                   PROVE  ~queue'[t][m].last
      BY DEF OrderedEach
    <3>4. CASE t = "io"
      BY <2>1, <2>2, <2>3, <3>1, <3>4 DEF Links, Ordered, OrderedEach, OrderedIo
    <3>5. CASE t = "completion"
      BY <2>1, <2>2, <2>3, <3>1, <3>5 DEF Links, Ordered, OrderedEach, OrderedCompletion
    <3> QED
      BY <3>4, <3>5
  <2>5. OrderedIo'
    BY <2>1, <2>2, <2>3 DEF Links, Ordered, OrderedEach, OrderedIo, OrderedCompletion,
       OrderedHands
  <2>6. OrderedCompletion'
    BY <2>1, <2>2, <2>3 DEF Links, Ordered, OrderedEach, OrderedIo, OrderedCompletion,
       OrderedHands
  <2>7. OrderedHands'
    BY SMTT(60), <2>1, <2>2, <2>3 DEF Links, Ordered, OrderedEach, OrderedIo, OrderedCompletion,
       OrderedHands
  <2> QED
    BY <2>4, <2>5, <2>6, <2>7 DEF Ordered
<1>13. CASE UNCHANGED <<own, req, queue>>
  BY <1>13, FirstFreeIsFree, Holders, QueueHeads
     DEF Links, Shape, QueueShape, OwnShape, RequestShape, Queued, Threads, Items, FreeItems,
         FreeItem, Hands, InUse, Ordered, OrderedEach, OrderedIo, OrderedCompletion, OrderedHands
<1> QED
  BY OrderFrame, <1>1, <1>2, <1>3, <1>4, <1>5, <1>6, <1>7, <1>8, <1>9, <1>10, <1>11, <1>12, <1>13


(* ... alone where they ought to be ...                                    *)
LEMMA AloneStep ==
  ASSUME Links, AnyStep
  PROVE  Alone'
<1> USE DEF irpVars, queueVars, poolVars, handVars, mainVars, fragmentVars, ioVars, pipeVars,
            countVars, diskVars, outerVars
<1>1. ASSUME NEW i \in Irps, NEW op \in {"read", "write", "skewed"}, NEW first \in Nat,
             NEW len \in Nat, Issue(i, op, first, len)
      PROVE  Alone'
  BY SMTT(60), <1>1, FirstFreeIsFree, Holders, QueueHeads
     DEF Issue, IGoto, Links, Shape, QueueShape, OwnShape, RequestShape, Alone, Queued, Items,
         FreeItems, FreeItem, Hands, InUse, PcShape, Threads, Resting, MainTakes, MainOwns,
         Cutting, Ending
<1>2. ASSUME NEW i \in Irps, AddIrp(i) PROVE Alone'
  BY SMTT(60), <1>2, FirstFreeIsFree, Holders, QueueHeads
     DEF AddIrp, IGoto, Links, Shape, QueueShape, OwnShape, RequestShape, Alone, Queued, Items,
         FreeItems, FreeItem, Hands, InUse, PcShape, Threads, Resting, MainTakes, MainOwns,
         Cutting, Ending
<1>3. ASSUME NEW i \in Irps, Reject(i) PROVE Alone'
  BY SMTT(60), <1>3, FirstFreeIsFree, Holders, QueueHeads
     DEF Reject, IGoto, Links, Shape, QueueShape, OwnShape, RequestShape, Alone, Queued, Items,
         FreeItems, FreeItem, Hands, InUse, PcShape, Threads, Resting, MainTakes, MainOwns,
         Cutting, Ending
<1>4. ASSUME NEW i \in Irps, RejectSignal(i) PROVE Alone'
  BY SMTT(60), <1>4, FirstFreeIsFree, Holders, QueueHeads
     DEF RejectSignal, IGoto, Links, Shape, QueueShape, OwnShape, RequestShape, Alone, Queued,
         Items, FreeItems, FreeItem, Hands, InUse, PcShape, Threads, Resting, MainTakes,
         MainOwns, Cutting, Ending
<1>5. ASSUME NEW t \in Threads, Wake(t) PROVE Alone'
  BY SMTT(60), <1>5, FirstFreeIsFree, Holders, QueueHeads
     DEF Wake, Goto, Links, Shape, QueueShape, OwnShape, RequestShape, Alone, Queued, Items,
         FreeItems, FreeItem, Hands, InUse, PcShape, Threads, Resting, MainTakes, MainOwns,
         Cutting, Ending
<1>6. ASSUME NEW t \in Threads, Drained(t) PROVE Alone'
  BY SMTT(60), <1>6, FirstFreeIsFree, Holders, QueueHeads
     DEF Drained, Goto, Links, Shape, QueueShape, OwnShape, RequestShape, Alone, Queued, Items,
         FreeItems, FreeItem, Hands, InUse, PcShape, Threads, Resting, MainTakes, MainOwns,
         Cutting, Ending
<1>7. ASSUME NEW t \in Threads, CompleteIrp(t) PROVE Alone'
  BY SMTT(60), <1>7, FirstFreeIsFree, Holders, QueueHeads
     DEF CompleteIrp, Goto, Links, Shape, QueueShape, OwnShape, RequestShape, Alone, Queued,
         Items, FreeItems, FreeItem, Hands, InUse, PcShape, Threads, Resting, MainTakes,
         MainOwns, Cutting, Ending
<1>8. ASSUME NEW t \in Threads, Decrement(t) PROVE Alone'
  BY SMTT(60), <1>8, FirstFreeIsFree, Holders, QueueHeads
     DEF Decrement, Goto, AfterDecrement, Links, Shape, QueueShape, OwnShape, RequestShape,
         Alone, Queued, Items, FreeItems, FreeItem, Hands, InUse, PcShape, Threads, Resting,
         MainTakes, MainOwns, Cutting, Ending
<1>9. ASSUME NEW t \in Threads, SignalIdle(t) PROVE Alone'
  BY SMTT(60), <1>9, FirstFreeIsFree, Holders, QueueHeads
     DEF SignalIdle, Goto, AfterDecrement, Links, Shape, QueueShape, OwnShape, RequestShape,
         Alone, Queued, Items, FreeItems, FreeItem, Hands, InUse, PcShape, Threads, Resting,
         MainTakes, MainOwns, Cutting, Ending
<1>10. ASSUME NEW t \in Threads, ReleaseItem(t) PROVE Alone'
  BY SMTT(60), <1>10, FirstFreeIsFree, Holders, QueueHeads
     DEF ReleaseItem, Goto, Links, Shape, QueueShape, OwnShape, RequestShape, Alone, Queued,
         Items, FreeItems, FreeItem, Hands, InUse, PcShape, Threads, Resting, MainTakes,
         MainOwns, Cutting, Ending
<1>11. ASSUME NEW t \in Threads, ReleaseRequest(t) PROVE Alone'
  BY SMTT(60), <1>11, FirstFreeIsFree, Holders, QueueHeads
     DEF ReleaseRequest, Goto, Links, Shape, QueueShape, OwnShape, RequestShape, Alone, Queued,
         Items, FreeItems, FreeItem, Hands, InUse, PcShape, Threads, Resting, MainTakes,
         MainOwns, Cutting, Ending
<1>12. ASSUME TakeIrp PROVE Alone'
  BY SMTT(60), <1>12, FirstFreeIsFree, Holders, QueueHeads
     DEF TakeIrp, Goto, Links, Shape, QueueShape, OwnShape, RequestShape, Alone, Queued, Items,
         FreeItems, FreeItem, Hands, InUse, PcShape, Threads, Resting, MainTakes, MainOwns,
         Cutting, Ending
<1>13. ASSUME TestSuspended PROVE Alone'
  BY SMTT(60), <1>13, FirstFreeIsFree, Holders, QueueHeads
     DEF TestSuspended, Goto, Links, Shape, QueueShape, OwnShape, RequestShape, Alone, Queued,
         Items, FreeItems, FreeItem, Hands, InUse, PcShape, Threads, Resting, MainTakes,
         MainOwns, Cutting, Ending
<1>14. ASSUME AwaitResume PROVE Alone'
  BY SMTT(60), <1>14, FirstFreeIsFree, Holders, QueueHeads
     DEF AwaitResume, Goto, Links, Shape, QueueShape, OwnShape, RequestShape, Alone, Queued,
         Items, FreeItems, FreeItem, Hands, InUse, PcShape, Threads, Resting, MainTakes,
         MainOwns, Cutting, Ending
<1>15. ASSUME AwaitsPool PROVE Alone'
  BY SMTT(60), <1>15, FirstFreeIsFree, Holders, QueueHeads
     DEF AwaitsPool, PoolEmpty, Goto, Links, Shape, QueueShape, OwnShape, RequestShape, Alone,
         Queued, Items, FreeItems, FreeItem, Hands, InUse, PcShape, Threads, Resting, MainTakes,
         MainOwns, Cutting, Ending
<1>16. ASSUME LooksAgain PROVE Alone'
  BY SMTT(60), <1>16, FirstFreeIsFree, Holders, QueueHeads
     DEF LooksAgain, AwaitPoolBuffer, Goto, Links, Shape, QueueShape, OwnShape, RequestShape,
         Alone, Queued, Items, FreeItems, FreeItem, Hands, InUse, PcShape, Threads, Resting,
         MainTakes, MainOwns, Cutting, Ending
<1>17. ASSUME Refuse PROVE Alone'
  BY <1>17, GetItemTakes DEF Links, Shape, OwnShape, Alone, Queued, PcShape, Threads, Resting,
     MainTakes, MainOwns, Cutting, Ending
<1>18. ASSUME Protect PROVE Alone'
  BY <1>18, GetItemTakes DEF Links, Shape, OwnShape, Alone, Queued, PcShape, Threads, Resting,
     MainTakes, MainOwns, Cutting, Ending
<1>19. ASSUME Accept PROVE Alone'
  BY SMTT(60), <1>19, GetItemTakes DEF Links, Shape, OwnShape, Alone, Queued, PcShape, Threads,
     Resting,
     MainTakes, MainOwns, Cutting, Ending
<1>20. ASSUME ReadMisaligned PROVE Alone'
  BY SMTT(60), <1>20, FirstFreeIsFree, Holders, QueueHeads
     DEF ReadMisaligned, Goto, Links, Shape, QueueShape, OwnShape, RequestShape, Alone, Queued,
         Items, FreeItems, FreeItem, Hands, InUse, PcShape, Threads, Resting, MainTakes,
         MainOwns, Cutting, Ending
<1>21. ASSUME DecryptMisaligned PROVE Alone'
  BY SMTT(60), <1>21, FirstFreeIsFree, Holders, QueueHeads
     DEF DecryptMisaligned, Goto, Links, Shape, QueueShape, OwnShape, RequestShape, Alone,
         Queued, Items, FreeItems, FreeItem, Hands, InUse, PcShape, Threads, Resting, MainTakes,
         MainOwns, Cutting, Ending
<1>22. ASSUME NextFragment PROVE Alone'
  BY SMTT(60), <1>22, FirstFreeIsFree, Holders, QueueHeads
     DEF NextFragment, Goto, Links, Shape, QueueShape, OwnShape, RequestShape, Alone, Queued,
         Items, FreeItems, FreeItem, Hands, InUse, PcShape, Threads, Resting, MainTakes,
         MainOwns, Cutting, Ending
<1>23. ASSUME GetRequest PROVE Alone'
  BY SMTT(60), <1>23, FirstFreeIsFree, Holders, QueueHeads
     DEF GetRequest, Goto, Links, Shape, QueueShape, OwnShape, RequestShape, Alone, Queued,
         Items, FreeItems, FreeItem, Hands, InUse, PcShape, Threads, Resting, MainTakes,
         MainOwns, Cutting, Ending
<1>24. ASSUME FillFragment PROVE Alone'
  BY SMTT(60), <1>24, FirstFreeIsFree, Holders, QueueHeads
     DEF FillFragment, Goto, Links, Shape, QueueShape, OwnShape, RequestShape, Alone, Queued,
         Items, FreeItems, FreeItem, Hands, InUse, PcShape, Threads, Resting, MainTakes,
         MainOwns, Cutting, Ending
<1>25. ASSUME QueueFragment PROVE Alone'
  BY <1>25, QueueFragmentMoves, Holders DEF Links, Shape, OwnShape, RequestShape, Alone, Queued,
     Items, PcShape, Threads, Resting, MainTakes, MainOwns, Cutting, Ending
<1>26. ASSUME TakeRequest PROVE Alone'
  <2>1. /\ own'["main"] = own["main"] /\ own'["completion"] = own["completion"]
        /\ own'["io"] = queue["io"][1].item /\ req'["io"] = queue["io"][1]
        /\ req'["main"] = req["main"] /\ req'["completion"] = req["completion"]
    BY <1>26, TakeRequestMoves DEF Links, Shape, OwnShape, RequestShape, Threads
  <2>2. /\ 1 \in Queued("io") /\ own'["io"] # 0
        /\ \A n \in Queued("io")' : queue'["io"][n] = queue["io"][n + 1] /\ n + 1 \in Queued("io")
                                    /\ n \in Int /\ 1 < n + 1
        /\ queue'["completion"] = queue["completion"]
             /\ Queued("completion")' = Queued("completion")
    BY <1>26, TakeRequestMoves, QueueAssumption DEF Queued, Items
  <2>3. /\ pc' = [pc EXCEPT !["io"] = pc'["io"]] /\ pc'["io"] \in {"device", "done"}
    BY <1>26, TakeRequestMoves DEF Links, Shape, PcShape, Threads
  <2>4. \A t \in {"io", "completion"} : \A n \in Queued(t) : queue[t][n].item # 0 /\ n \in Int
    BY DEF Links, Used, Queued
  <2>5. own["main"] # 0 <=> pc["main"] \in MainOwns
    BY SMTT(60) DEF Links, Hands
  <2> QED
    BY <2>1, <2>2, <2>3, <2>4, <2>5 DEF Links, Shape, Alone, PcShape, Threads, Resting,
       MainTakes, MainOwns, Cutting, Ending
<1>27. ASSUME DoPiece PROVE Alone'
  BY <1>27, FirstFreeIsFree, Holders, QueueHeads
     DEF DoPiece, Goto, Links, Shape, QueueShape, OwnShape, RequestShape, Alone, Queued, Items,
         FreeItems, FreeItem, Hands, InUse, PcShape, Threads, Resting, MainTakes, MainOwns,
         Cutting, Ending
<1>28. ASSUME WriteDone PROVE Alone'
  <2>1. /\ pc["io"] = "done" /\ UNCHANGED <<own, req, queue>>
        /\ pc' = [pc EXCEPT !["io"] = IF req["io"].last THEN "complete" ELSE "releaseRequest"]
        /\ Op(own["io"]) = "write"
    BY <1>28 DEF WriteDone, Goto, AfterRequest, Writing, IoIrp, Op, OpOf
  <2>2. \A n \in Queued("completion") : queue["completion"][n].item # own["io"]
    BY <2>1 DEF Links, Kinds, KindsCompletion, Op, OpOf
  <2>3. own["io"] # 0
    BY <2>1 DEF Links, Hands
  <2>4. req["io"].last => own["io"] # own["completion"]
    BY SMTT(60), <2>1, <2>3 DEF Links, Shape, Hands, Kinds, KindsCompletion, Ordered,
       OrderedHands,
       PcShape, CompletionPcs, Resting, Ending
  <2> QED
    BY <2>1, <2>2, <2>3, <2>4 DEF Links, Shape, Alone, Queued, PcShape, Threads, Resting,
       MainTakes, MainOwns, Cutting, Ending
<1>29. ASSUME ReadDone PROVE Alone'
  BY <1>29, FirstFreeIsFree, Holders, QueueHeads
     DEF ReadDone, Goto, ReleaseFragmentBuffer, Links, Shape, QueueShape, OwnShape, RequestShape,
         Alone, Queued, Items, FreeItems, FreeItem, Hands, InUse, PcShape, Threads, Resting,
         MainTakes, MainOwns, Cutting, Ending
<1>30. ASSUME PassesOn PROVE Alone'
  <2> DEFINE l == Len(queue["completion"]) + 1
  <2>1. /\ own'["io"] = 0 /\ own'["main"] = own["main"] /\ own'["completion"] = own["completion"]
        /\ req'["main"] = req["main"] /\ req'["completion"] = req["completion"]
        /\ own["io"] # 0 /\ req["io"].item = own["io"]
    BY <1>30, PassesOnMoves, QueueAssumption DEF Links, Shape, OwnShape, RequestShape, Threads,
       Items
  <2>2. /\ \A n \in Queued("completion")' :
             \/ n \in Queued("completion") /\ queue'["completion"][n] = queue["completion"][n]
                  /\ n < l
             \/ n = l /\ queue'["completion"][n] = req["io"]
        /\ l \in Int /\ \A n \in Queued("completion")' : n \in Int
        /\ queue'["io"] = queue["io"] /\ Queued("io")' = Queued("io")
    BY <1>30, PassesOnMoves DEF Queued, QueueShape
  <2> HIDE DEF l
  <2>3. /\ pc' = [pc EXCEPT !["io"] = pc'["io"]] /\ pc'["io"] \in {"pop", "readAhead"}
    BY SMTT(60), <1>30, PassesOnMoves DEF Links, Shape, PcShape, Threads
  <2>4. \A t \in {"io", "completion"} : \A n \in Queued(t) : queue[t][n].item # 0 /\ n \in Int
    BY DEF Links, Used, Queued
  <2>5. own["main"] # 0 <=> pc["main"] \in MainOwns
    BY DEF Links, Hands
  <2> QED
    BY <2>1, <2>2, <2>3, <2>4, <2>5 DEF Links, Shape, Alone, PcShape, Threads, Resting,
       MainTakes, MainOwns, Cutting, Ending
<1>31. ASSUME ReadAhead PROVE Alone'
  BY <1>31, FirstFreeIsFree, Holders, QueueHeads
     DEF ReadAhead, Goto, Links, Shape, QueueShape, OwnShape, RequestShape, Alone, Queued, Items,
         FreeItems, FreeItem, Hands, InUse, PcShape, Threads, Resting, MainTakes, MainOwns,
         Cutting, Ending
<1>32. ASSUME DecryptFragment PROVE Alone'
  <2>1. /\ own'["main"] = own["main"] /\ own'["io"] = own["io"]
        /\ own'["completion"] = queue["completion"][1].item
        /\ req'["completion"] = queue["completion"][1]
        /\ req'["main"] = req["main"] /\ req'["io"] = req["io"]
    BY <1>32, DecryptFragmentMoves DEF Links, Shape, OwnShape, RequestShape, Threads
  <2>2. /\ 1 \in Queued("completion") /\ own'["completion"] # 0
        /\ \A n \in Queued("completion")' :
             /\ queue'["completion"][n] = queue["completion"][n + 1]
                  /\ n + 1 \in Queued("completion")
             /\ n \in Int /\ 1 < n + 1
        /\ queue'["io"] = queue["io"] /\ Queued("io")' = Queued("io")
    BY <1>32, DecryptFragmentMoves, QueueAssumption DEF Queued, Items
  <2>3. /\ pc' = [pc EXCEPT !["completion"] = pc'["completion"]]
             /\ pc'["completion"] \in {"complete", "releaseRequest"}
    BY SMTT(60), <1>32, DecryptFragmentMoves DEF Links, Shape, PcShape, Threads, AfterRequest
  <2>4. \A t \in {"io", "completion"} : \A n \in Queued(t) : queue[t][n].item # 0 /\ n \in Int
    BY DEF Links, Used, Queued
  <2>5. own["main"] # 0 <=> pc["main"] \in MainOwns
    BY DEF Links, Hands
  <2> QED
    BY <2>1, <2>2, <2>3, <2>4, <2>5 DEF Links, Shape, Alone, PcShape, Threads, Resting,
       MainTakes, MainOwns, Cutting, Ending
<1>33. CASE UNCHANGED coreVars
  BY <1>33, FirstFreeIsFree, Holders, QueueHeads
     DEF Links, Shape, QueueShape, OwnShape, RequestShape, Alone, Queued, Items, FreeItems,
         FreeItem, Hands, InUse, PcShape, Threads, Resting, MainTakes, MainOwns, Cutting, Ending,
         coreVars
<1> QED
  BY StepCases, <1>1, <1>2, <1>3, <1>4, <1>5, <1>6, <1>7, <1>8, <1>9, <1>10, <1>11, <1>12, <1>13,
     <1>14, <1>15, <1>16, <1>17, <1>18, <1>19, <1>20, <1>21, <1>22, <1>23, <1>24, <1>25, <1>26,
     <1>27, <1>28, <1>29, <1>30, <1>31, <1>32, <1>33


(* ... with a request or thread that ends it ...                           *)
LEMMA FinalStep ==
  ASSUME Links, AnyStep
  PROVE  Final'
<1> USE DEF irpVars, queueVars, poolVars, handVars, mainVars, fragmentVars, ioVars, pipeVars,
            countVars, diskVars, outerVars
<1>1. ASSUME NEW i \in Irps, AddIrp(i) PROVE Final'
  <2>1. UNCHANGED <<own, req, item>> /\ queue' = [queue EXCEPT !["main"] = queue'["main"]]
    BY <1>1 DEF AddIrp, Links, Shape, QueueShape, Threads
  <2>2. queue'["io"] = queue["io"] /\ queue'["completion"] = queue["completion"]
    BY <2>1 DEF Links, Shape, QueueShape, Threads
  <2>3. UNCHANGED <<Queued("io"), Queued("completion")>>
    BY <2>2 DEF Queued
  <2> QED
    BY <2>1, <2>2, <2>3 DEF Links, Final, Ends, InUse
<1>2. ASSUME NEW t \in Threads, ReleaseItem(t) PROVE Final'
  <2>1. /\ own' = [own EXCEPT ![t] = 0] /\ item' = [item EXCEPT ![own[t]] = FreeItem]
        /\ UNCHANGED <<queue, req>> /\ pc[t] = "releaseItem"
    BY <1>2 DEF ReleaseItem, Goto
  <2>2. own[t] # 0 /\ own[t] \in Items
    BY <2>1, Holders DEF Links, Hands, Threads, MainOwns, Ending
  <2>3. SUFFICES ASSUME NEW k \in Items, item'[k].status # "free" PROVE Ends(k)'
    BY DEF Final, InUse
  <2>4. k # own[t] /\ InUse(k)
    BY <2>1, <2>2, <2>3 DEF Links, Shape, ItemShape, InUse, FreeItem
  <2>5. Ends(k)
    BY <2>4 DEF Links, Final
  <2> QED
    BY <2>1, <2>4, <2>5 DEF Ends, Links, Shape, OwnShape, Threads, Queued
<1>3. ASSUME NEW t \in Threads, ReleaseRequest(t) PROVE Final'
  <2>1. /\ own' = [own EXCEPT ![t] = 0] /\ req' = [req EXCEPT ![t] = NoIoRequest]
        /\ UNCHANGED <<queue, item>> /\ pc[t] = "releaseRequest"
    BY <1>3 DEF ReleaseRequest, Goto
  <2>2. t # "main" /\ (own[t] # 0 => ~req[t].last)
    BY <2>1, Holders DEF Links, Shape, PcShape, Hands, Threads, MainPcs, Resting, MainTakes,
       MainOwns, Cutting, Ending
  <2>3. SUFFICES ASSUME NEW k \in Items, item'[k].status # "free" PROVE Ends(k)'
    BY DEF Final, InUse
  <2>5. Ends(k)
    BY <2>1, <2>3 DEF Links, Final, InUse
  <2> QED
    BY SMTT(60), <2>1, <2>2, <2>5, QueueAssumption DEF Ends, Links, Shape, OwnShape,
       RequestShape, Threads,
       Queued, Items
<1>4. ASSUME TakeIrp PROVE Final'
  <2>1. UNCHANGED <<own, req, item>> /\ queue' = [queue EXCEPT !["main"] = queue'["main"]]
    BY <1>4 DEF TakeIrp, Links, Shape, QueueShape, Threads
  <2>2. queue'["io"] = queue["io"] /\ queue'["completion"] = queue["completion"]
    BY <2>1 DEF Links, Shape, QueueShape, Threads
  <2>3. UNCHANGED <<Queued("io"), Queued("completion")>>
    BY <2>2 DEF Queued
  <2> QED
    BY <2>1, <2>2, <2>3 DEF Links, Final, Ends, InUse
<1>5. ASSUME Refuse PROVE Final'
  <2>1. PICK k \in Items, status \in {"ok", "failed"} :
             /\ item' = [item EXCEPT ![k] = [irp |-> taken, status |-> status]]
             /\ own' = [own EXCEPT !["main"] = k] /\ own["main"] = 0
             /\ UNCHANGED <<queue, req>>
    BY <1>5, GetItemTakes
  <2>2. Queued("io")' = Queued("io") /\ Queued("completion")' = Queued("completion")
        /\ UNCHANGED <<queue, req>>
    BY <2>1 DEF Queued
  <2>3. own'["main"] = k /\ \A u \in {"io", "completion"} : own'[u] = own[u]
    BY <2>1 DEF Links, Shape, OwnShape, Threads
  <2>4. \A j \in Items : j # k => item'[j] = item[j]
    BY <2>1 DEF Links, Shape, ItemShape
  <2>5. SUFFICES ASSUME NEW j \in Items, item'[j].status # "free" PROVE Ends(j)'
    BY DEF Final, InUse
  <2>6. CASE j = k
    BY <2>3, <2>6 DEF Ends
  <2>7. CASE j # k
    <3>1. Ends(j)
      BY <2>4, <2>5, <2>7 DEF Links, Final, InUse
    <3>2. j # 0 /\ own["main"] = 0
      BY <2>1, QueueAssumption DEF Items
    <3> QED
      BY <2>2, <2>3, <3>1, <3>2 DEF Ends
  <2> QED
    BY <2>6, <2>7
<1>6. ASSUME Protect PROVE Final'
  <2>1. PICK k \in Items, status \in {"ok", "failed"} :
             /\ item' = [item EXCEPT ![k] = [irp |-> taken, status |-> status]]
             /\ own' = [own EXCEPT !["main"] = k] /\ own["main"] = 0
             /\ UNCHANGED <<queue, req>>
    BY <1>6, GetItemTakes
  <2>2. Queued("io")' = Queued("io") /\ Queued("completion")' = Queued("completion")
        /\ UNCHANGED <<queue, req>>
    BY <2>1 DEF Queued
  <2>3. own'["main"] = k /\ \A u \in {"io", "completion"} : own'[u] = own[u]
    BY <2>1 DEF Links, Shape, OwnShape, Threads
  <2>4. \A j \in Items : j # k => item'[j] = item[j]
    BY <2>1 DEF Links, Shape, ItemShape
  <2>5. SUFFICES ASSUME NEW j \in Items, item'[j].status # "free" PROVE Ends(j)'
    BY DEF Final, InUse
  <2>6. CASE j = k
    BY <2>3, <2>6 DEF Ends
  <2>7. CASE j # k
    <3>1. Ends(j)
      BY <2>4, <2>5, <2>7 DEF Links, Final, InUse
    <3>2. j # 0 /\ own["main"] = 0
      BY <2>1, QueueAssumption DEF Items
    <3> QED
      BY <2>2, <2>3, <3>1, <3>2 DEF Ends
  <2> QED
    BY <2>6, <2>7
<1>7. ASSUME Accept PROVE Final'
  <2>1. PICK k \in Items, status \in {"ok", "failed"} :
             /\ item' = [item EXCEPT ![k] = [irp |-> taken, status |-> status]]
             /\ own' = [own EXCEPT !["main"] = k] /\ own["main"] = 0
             /\ UNCHANGED <<queue, req>>
    BY <1>7, GetItemTakes
  <2>2. Queued("io")' = Queued("io") /\ Queued("completion")' = Queued("completion")
        /\ UNCHANGED <<queue, req>>
    BY <2>1 DEF Queued
  <2>3. own'["main"] = k /\ \A u \in {"io", "completion"} : own'[u] = own[u]
    BY <2>1 DEF Links, Shape, OwnShape, Threads
  <2>4. \A j \in Items : j # k => item'[j] = item[j]
    BY <2>1 DEF Links, Shape, ItemShape
  <2>5. SUFFICES ASSUME NEW j \in Items, item'[j].status # "free" PROVE Ends(j)'
    BY DEF Final, InUse
  <2>6. CASE j = k
    BY <2>3, <2>6 DEF Ends
  <2>7. CASE j # k
    <3>1. Ends(j)
      BY <2>4, <2>5, <2>7 DEF Links, Final, InUse
    <3>2. j # 0 /\ own["main"] = 0
      BY <2>1, QueueAssumption DEF Items
    <3> QED
      BY <2>2, <2>3, <3>1, <3>2 DEF Ends
  <2> QED
    BY <2>6, <2>7
<1>8. ASSUME ReadMisaligned PROVE Final'
  <2>1. UNCHANGED <<own, req, queue>>
    BY <1>8 DEF ReadMisaligned
  <2>2. \A k \in Items : InUse(k)' = InUse(k)
    BY <1>8, OnlyStatus
  <2> QED
    BY <2>1, <2>2 DEF Links, Final, Ends, Queued
<1>9. ASSUME GetRequest PROVE Final'
  <2>1. UNCHANGED <<own, queue, item>> /\ req' = [req EXCEPT !["main"] = req'["main"]]
    BY <1>9 DEF GetRequest, Links, Shape, RequestShape, Threads
  <2> QED
    BY <2>1 DEF Links, Shape, RequestShape, Final, Ends, InUse, Queued, Threads
<1>10. ASSUME QueueFragment PROVE Final'
  <2> DEFINE l == Len(queue["io"]) + 1
  <2>1. /\ own'["main"] = IF req["main"].last THEN 0 ELSE own["main"]
        /\ own'["io"] = own["io"] /\ own'["completion"] = own["completion"]
        /\ req'["io"] = req["io"] /\ req'["completion"] = req["completion"]
        /\ own["main"] # 0 /\ req["main"].item = own["main"]
    BY <1>10, QueueFragmentMoves, QueueAssumption DEF Links, Shape, OwnShape, RequestShape,
       Threads, Items
  <2>2. /\ \A n \in Queued("io")' :
            \/ n \in Queued("io") /\ queue'["io"][n] = queue["io"][n] /\ n < l
            \/ n = l /\ queue'["io"][n] = req["main"]
        /\ l \in Int /\ \A n \in Queued("io")' : n \in Int
        /\ queue'["completion"] = queue["completion"]
             /\ Queued("completion")' = Queued("completion")
    BY <1>10, QueueFragmentMoves DEF Queued, QueueShape
  <2> HIDE DEF l
  <2>4. \A k \in Items : InUse(k)' = InUse(k)
    BY <1>10, QueueFragmentMoves DEF InUse
  <2>5. /\ \A n \in Queued("io") : queue'["io"][n] = queue["io"][n] /\ n \in Queued("io")'
        /\ l \in Queued("io")' /\ queue'["io"][l] = req["main"]
    BY <1>10, QueueFragmentMoves DEF l
  <2>6. SUFFICES ASSUME NEW k \in Items, Ends(k) PROVE Ends(k)'
    BY <2>4 DEF Links, Final
  <2>7. k # 0
    BY <2>6, QueueAssumption DEF Items
  <2>8. CASE own["main"] = k
    BY <2>1, <2>2, <2>5, <2>7, <2>8 DEF Ends
  <2>9. ASSUME NEW t \in {"io", "completion"}, own[t] = k, req[t].last PROVE Ends(k)'
    BY <2>1, <2>2, <2>5, <2>7, <2>9 DEF Ends
  <2>10. ASSUME NEW t \in {"io", "completion"}, NEW n \in Queued(t), queue[t][n].item = k,
                queue[t][n].last
        PROVE  Ends(k)'
    BY ZenonT(60), <2>1, <2>2, <2>5, <2>7, <2>10 DEF Ends
  <2> QED
    BY <2>6, <2>8, <2>9, <2>10 DEF Ends
<1>11. ASSUME TakeRequest PROVE Final'
  <2>1. /\ own'["main"] = own["main"] /\ own'["completion"] = own["completion"]
        /\ own'["io"] = queue["io"][1].item /\ req'["io"] = queue["io"][1]
        /\ req'["main"] = req["main"] /\ req'["completion"] = req["completion"]
    BY <1>11, TakeRequestMoves DEF Links, Shape, OwnShape, RequestShape, Threads
  <2>2. /\ 1 \in Queued("io") /\ own'["io"] # 0
        /\ \A n \in Queued("io")' : queue'["io"][n] = queue["io"][n + 1] /\ n + 1 \in Queued("io")
                                    /\ n \in Int /\ 1 < n + 1
        /\ queue'["completion"] = queue["completion"]
             /\ Queued("completion")' = Queued("completion")
    BY <1>11, TakeRequestMoves, QueueAssumption DEF Queued, Items
  <2>4. \A k \in Items : InUse(k)' = InUse(k)
    BY <1>11, OnlyStatus
  <2>5. own["io"] = 0 /\ \A n \in Queued("io") : n = 1 \/ (n - 1 \in Queued("io")'
        /\ queue'["io"][n - 1] = queue["io"][n])
    <3>1. /\ QueueShape /\ queue["io"] # <<>> /\ own["io"] = 0
          /\ queue' = [queue EXCEPT !["io"] = Tail(@)]
      BY <1>11, TakeRequestMoves
    <3> QED
      BY <3>1, RemovedBack DEF Queued
  <2>6. SUFFICES ASSUME NEW k \in Items, Ends(k) PROVE Ends(k)'
    BY <2>4 DEF Links, Final
  <2>7. k # 0
    BY <2>6, QueueAssumption DEF Items
  <2>8. CASE own["main"] = k
    BY <2>1, <2>2, <2>5, <2>7, <2>8 DEF Ends
  <2>9. ASSUME NEW t \in {"io", "completion"}, own[t] = k, req[t].last PROVE Ends(k)'
    BY <2>1, <2>2, <2>5, <2>7, <2>9 DEF Ends
  <2>10. ASSUME NEW t \in {"io", "completion"}, NEW n \in Queued(t), queue[t][n].item = k,
                queue[t][n].last
        PROVE  Ends(k)'
    BY <2>1, <2>2, <2>5, <2>7, <2>10 DEF Ends
  <2> QED
    BY <2>6, <2>8, <2>9, <2>10 DEF Ends
<1>12. ASSUME DoPiece PROVE Final'
  <2>1. UNCHANGED <<own, req, queue>>
    BY <1>12 DEF DoPiece
  <2>2. \A k \in Items : InUse(k)' = InUse(k)
    BY <1>12, OnlyStatus
  <2> QED
    BY <2>1, <2>2 DEF Links, Final, Ends, Queued
<1>13. ASSUME PassesOn PROVE Final'
  <2> DEFINE l == Len(queue["completion"]) + 1
  <2>1. /\ own'["io"] = 0 /\ own'["main"] = own["main"] /\ own'["completion"] = own["completion"]
        /\ req'["main"] = req["main"] /\ req'["completion"] = req["completion"]
        /\ own["io"] # 0 /\ req["io"].item = own["io"]
    BY <1>13, PassesOnMoves, QueueAssumption DEF Links, Shape, OwnShape, RequestShape, Threads,
       Items
  <2>2. /\ \A n \in Queued("completion")' :
             \/ n \in Queued("completion") /\ queue'["completion"][n] = queue["completion"][n]
                  /\ n < l
             \/ n = l /\ queue'["completion"][n] = req["io"]
        /\ l \in Int /\ \A n \in Queued("completion")' : n \in Int
        /\ queue'["io"] = queue["io"] /\ Queued("io")' = Queued("io")
    BY <1>13, PassesOnMoves DEF Queued, QueueShape
  <2> HIDE DEF l
  <2>4. \A k \in Items : InUse(k)' = InUse(k)
    BY <1>13, PassesOnMoves DEF InUse
  <2>5. /\ \A n \in Queued("completion") : queue'["completion"][n] = queue["completion"][n]
             /\ n \in Queued("completion")'
        /\ l \in Queued("completion")' /\ queue'["completion"][l] = req["io"]
    BY <1>13, PassesOnMoves DEF l
  <2>6. SUFFICES ASSUME NEW k \in Items, Ends(k) PROVE Ends(k)'
    BY <2>4 DEF Links, Final
  <2>7. k # 0
    BY <2>6, QueueAssumption DEF Items
  <2>8. CASE own["main"] = k
    BY <2>1, <2>2, <2>5, <2>7, <2>8 DEF Ends
  <2>9. ASSUME NEW t \in {"io", "completion"}, own[t] = k, req[t].last PROVE Ends(k)'
    BY <2>1, <2>2, <2>5, <2>7, <2>9 DEF Ends
  <2>10. ASSUME NEW t \in {"io", "completion"}, NEW n \in Queued(t), queue[t][n].item = k,
                queue[t][n].last
        PROVE  Ends(k)'
    BY ZenonT(60), <2>1, <2>2, <2>5, <2>7, <2>10 DEF Ends
  <2> QED
    BY <2>6, <2>8, <2>9, <2>10 DEF Ends
<1>14. ASSUME DecryptFragment PROVE Final'
  <2>1. /\ own'["main"] = own["main"] /\ own'["io"] = own["io"]
        /\ own'["completion"] = queue["completion"][1].item
        /\ req'["completion"] = queue["completion"][1]
        /\ req'["main"] = req["main"] /\ req'["io"] = req["io"]
    BY <1>14, DecryptFragmentMoves DEF Links, Shape, OwnShape, RequestShape, Threads
  <2>2. /\ 1 \in Queued("completion") /\ own'["completion"] # 0
        /\ \A n \in Queued("completion")' :
             /\ queue'["completion"][n] = queue["completion"][n + 1]
                  /\ n + 1 \in Queued("completion")
             /\ n \in Int /\ 1 < n + 1
        /\ queue'["io"] = queue["io"] /\ Queued("io")' = Queued("io")
    BY <1>14, DecryptFragmentMoves, QueueAssumption DEF Queued, Items
  <2>4. \A k \in Items : InUse(k)' = InUse(k)
    BY <1>14, DecryptFragmentMoves DEF InUse
  <2>5. own["completion"] = 0 /\ \A n \in Queued("completion") :
           n = 1 \/ (n - 1 \in Queued("completion")'
           /\ queue'["completion"][n - 1] = queue["completion"][n])
    <3>1. /\ QueueShape /\ queue["completion"] # <<>> /\ own["completion"] = 0
          /\ queue' = [queue EXCEPT !["completion"] = Tail(@)]
      BY <1>14, DecryptFragmentMoves
    <3> QED
      BY <3>1, RemovedBack DEF Queued
  <2>6. SUFFICES ASSUME NEW k \in Items, Ends(k) PROVE Ends(k)'
    BY <2>4 DEF Links, Final
  <2>7. k # 0
    BY <2>6, QueueAssumption DEF Items
  <2>8. CASE own["main"] = k
    BY <2>1, <2>2, <2>5, <2>7, <2>8 DEF Ends
  <2>9. ASSUME NEW t \in {"io", "completion"}, own[t] = k, req[t].last PROVE Ends(k)'
    BY <2>1, <2>2, <2>5, <2>7, <2>9 DEF Ends
  <2>10. ASSUME NEW t \in {"io", "completion"}, NEW n \in Queued(t), queue[t][n].item = k,
                queue[t][n].last
        PROVE  Ends(k)'
    BY <2>1, <2>2, <2>5, <2>7, <2>10 DEF Ends
  <2> QED
    BY <2>6, <2>8, <2>9, <2>10 DEF Ends
<1>15. CASE UNCHANGED <<own, req, queue, item>>
  BY <1>15, FirstFreeIsFree, Holders, QueueHeads DEF Links, Shape, QueueShape, OwnShape,
     RequestShape, ItemShape, InUse, Queued, Threads, Items, Final, Ends
<1> QED
  BY PlaceFrame, <1>1, <1>2, <1>3, <1>4, <1>5, <1>6, <1>7, <1>8, <1>9, <1>10, <1>11, <1>12,
     <1>13, <1>14, <1>15


(* ... for an operation of the right kind ...                              *)
LEMMA KindsStep ==
  ASSUME Links, AnyStep
  PROVE  Kinds'
<1> USE DEF irpVars, queueVars, poolVars, handVars, mainVars, fragmentVars, ioVars, pipeVars,
            countVars, diskVars, outerVars
<1>1. ASSUME NEW i \in Irps, NEW op \in {"read", "write", "skewed"}, NEW first \in Nat,
             NEW len \in Nat, Issue(i, op, first, len)
      PROVE  Kinds'
  <2>1. UNCHANGED <<pc, own, queue, item>> /\ irp[i].op = "none"
        /\ irp' = [irp EXCEPT ![i] = [op |-> op, first |-> first, len |-> len]]
    BY <1>1 DEF Issue, NoRequest
  <2>2. \A k : OpOf(irp, item, k) \in {"read", "write", "skewed"} =>
          OpOf(irp', item', k) = OpOf(irp, item, k)
    BY <2>1 DEF Links, Shape, IrpShape, OpOf
  <2>3. UNCHANGED <<pc, own, queue>> /\ Queued("io")' = Queued("io")
        /\ Queued("completion")' = Queued("completion")
    BY <2>1 DEF Queued
  <2>4. KindsMain'
    BY <2>2, <2>3 DEF Links, Kinds, KindsMain, KindsIo, KindsCompletion, Op, Shape
  <2>5. KindsIo'
    BY <2>2, <2>3 DEF Links, Kinds, KindsMain, KindsIo, KindsCompletion, Op, Shape
  <2>6. KindsCompletion'
    BY <2>2, <2>3 DEF Links, Kinds, KindsMain, KindsIo, KindsCompletion, Op, Shape
  <2> QED
    BY <2>4, <2>5, <2>6 DEF Kinds
<1>2. ASSUME NEW i \in Irps, AddIrp(i) PROVE Kinds'
  <2>1. UNCHANGED <<pc, own, item, irp>> /\ queue' = [queue EXCEPT !["main"] = queue'["main"]]
    BY <1>2 DEF AddIrp, Links, Shape, QueueShape, Threads
  <2>2. queue'["io"] = queue["io"] /\ queue'["completion"] = queue["completion"]
    BY <2>1 DEF Links, Shape, QueueShape, Threads
  <2>3. Queued("io")' = Queued("io") /\ Queued("completion")' = Queued("completion")
    BY <2>2 DEF Queued
  <2>4. KindsMain'
    BY <2>1, <2>2, <2>3 DEF Links, Kinds, KindsMain, KindsIo, KindsCompletion, Op, Shape
  <2>5. KindsIo'
    BY <2>1, <2>2, <2>3 DEF Links, Kinds, KindsMain, KindsIo, KindsCompletion, Op, Shape
  <2>6. KindsCompletion'
    BY <2>1, <2>2, <2>3 DEF Links, Kinds, KindsMain, KindsIo, KindsCompletion, Op, Shape
  <2> QED
    BY <2>4, <2>5, <2>6 DEF Kinds
<1>3. ASSUME NEW i \in Irps, Reject(i) PROVE Kinds'
  <2>1. UNCHANGED <<pc, own, queue, item>> /\ ipc[i] = "counted"
        /\ irp' = [irp EXCEPT ![i] = NoRequest]
    BY <1>3 DEF Reject, IGoto
  <2>2. \A k \in Items : Live(k) => OpOf(irp', item', k) = OpOf(irp, item, k)
    BY <2>1 DEF Links, Shape, IrpShape, Linked, LinkedItems, OpOf
  <2>3. UNCHANGED <<pc, own, queue>> /\ Queued("io")' = Queued("io")
        /\ Queued("completion")' = Queued("completion")
    BY <2>1 DEF Queued
  <2>4. /\ pc["main"] \in {"misaligned", "decrypt", "complete"} \cup Cutting =>
             Live(own["main"]) /\ own["main"] \in Items
        /\ \A u \in {"io", "completion"} :
             pc[u] \in {"device", "done", "post", "postAhead", "complete", "releaseRequest"}
             /\ own[u] # 0 =>
               Live(own[u]) /\ own[u] \in Items
    BY LiveOnes, Holders DEF Links, Hands, Threads, MainOwns, Cutting
  <2>5. /\ \A u \in {"io", "completion"} : \A n \in Queued(u) :
             Live(queue[u][n].item) /\ queue[u][n].item \in Items
        /\ \A u \in {"io", "completion"} :
             pc[u] \in {"device", "done", "post", "postAhead", "complete"} => own[u] # 0
    BY LiveOnes, Holders DEF Links, Hands
  <2>6. KindsMain'
    BY <2>2, <2>3, <2>4, <2>5 DEF Links, Kinds, KindsMain, KindsIo, KindsCompletion, Op, Cutting
  <2>7. KindsIo'
    BY <2>2, <2>3, <2>4, <2>5 DEF Links, Kinds, KindsMain, KindsIo, KindsCompletion, Op, Cutting
  <2>8. KindsCompletion'
    BY <2>2, <2>3, <2>4, <2>5 DEF Links, Kinds, KindsMain, KindsIo, KindsCompletion, Op, Cutting
  <2> QED
    BY <2>6, <2>7, <2>8 DEF Kinds
<1>4. ASSUME NEW i \in Irps, RejectSignal(i) PROVE Kinds'
  BY <1>4, Links DEF RejectSignal, IGoto, Links, Shape, PcShape, OwnShape, Kinds, KindsMain,
     KindsIo, KindsCompletion, Op, Queued, Threads, Cutting
<1>5. ASSUME NEW t \in Threads, Wake(t) PROVE Kinds'
  BY <1>5, Links DEF Wake, Goto, Links, Shape, PcShape, OwnShape, Kinds, KindsMain, KindsIo,
     KindsCompletion, Op, Queued, Threads, Cutting
<1>6. ASSUME NEW t \in Threads, Drained(t) PROVE Kinds'
  BY <1>6, Links DEF Drained, Goto, Links, Shape, PcShape, OwnShape, Kinds, KindsMain, KindsIo,
     KindsCompletion, Op, Queued, Threads, Cutting
<1>7. ASSUME NEW t \in Threads, CompleteIrp(t) PROVE Kinds'
  <2>1. /\ UNCHANGED <<own, queue, item>> /\ irp' = [irp EXCEPT ![item[own[t]].irp] = NoRequest]
        /\ pc[t] = "complete" /\ pc' = [pc EXCEPT ![t] = "decrement"]
    BY <1>7 DEF CompleteIrp, Goto
  <2>2. own[t] # 0 /\ own[t] \in Items /\ Live(own[t])
    BY <2>1, LiveOnes, Holders DEF Links, Hands, Threads, MainOwns
  <2>3. \A k \in Items : Live(k) /\ k # own[t] => OpOf(irp', item', k) = OpOf(irp, item, k)
    BY <2>1, <2>2 DEF Links, Shape, IrpShape, Linked, LinkedItems, OpOf
  <2>4. Queued("io")' = Queued("io") /\ Queued("completion")' = Queued("completion")
    BY <2>1 DEF Queued
  <2>5. /\ \A u \in Threads : u # t => own[u] # own[t] /\ pc'[u] = pc[u]
        /\ pc'[t] = "decrement"
        /\ \A u \in {"io", "completion"} : \A n \in Queued(u) : queue[u][n].item # own[t]
    BY <2>1, <2>2, OnlyHolder DEF Links, Shape, PcShape
  <2>6. /\ pc["main"] \in {"misaligned", "decrypt", "complete"} \cup Cutting =>
             Live(own["main"]) /\ own["main"] \in Items
        /\ \A u \in {"io", "completion"} :
             pc[u] \in {"device", "done", "post", "postAhead", "complete", "releaseRequest"}
             /\ own[u] # 0 =>
               Live(own[u]) /\ own[u] \in Items
    BY LiveOnes, Holders DEF Links, Hands, Threads, MainOwns, Cutting
  <2>7. /\ \A u \in {"io", "completion"} : \A n \in Queued(u) :
             Live(queue[u][n].item) /\ queue[u][n].item \in Items
        /\ \A u \in {"io", "completion"} :
             pc[u] \in {"device", "done", "post", "postAhead", "complete"} => own[u] # 0
    BY LiveOnes, Holders DEF Links, Hands
  <2>8. UNCHANGED <<own, queue>>
    BY <2>1
  <2>9. KindsMain'
    BY <2>3, <2>4, <2>5, <2>6, <2>7, <2>8 DEF Links, Kinds, KindsMain, KindsIo, KindsCompletion,
       Op, Threads, Cutting, Ending
  <2>10. KindsIo'
    BY <2>3, <2>4, <2>5, <2>6, <2>7, <2>8 DEF Links, Kinds, KindsMain, KindsIo, KindsCompletion,
       Op, Threads, Cutting, Ending
  <2>11. KindsCompletion'
    BY <2>3, <2>4, <2>5, <2>6, <2>7, <2>8 DEF Links, Kinds, KindsMain, KindsIo, KindsCompletion,
       Op, Threads, Cutting, Ending
  <2> QED
    BY <2>9, <2>10, <2>11 DEF Kinds
<1>8. ASSUME NEW t \in Threads, Decrement(t) PROVE Kinds'
  <2>1. UNCHANGED <<queue, irp, item, own>> /\ pc' = [pc EXCEPT ![t] = pc'[t]]
        /\ pc'[t] \in {"signalIdle", "pop", "releaseItem"}
    BY <1>8 DEF Decrement, AfterDecrement, Goto, Links, Shape, PcShape
  <2>2. Queued("io")' = Queued("io") /\ Queued("completion")' = Queued("completion")
    BY <2>1 DEF Queued
  <2>3. KindsMain'
    BY <2>1, <2>2 DEF Links, Kinds, KindsMain, KindsIo, KindsCompletion, Op, Shape, PcShape,
       Threads, Cutting
  <2>4. KindsIo'
    BY <2>1, <2>2 DEF Links, Kinds, KindsMain, KindsIo, KindsCompletion, Op, Shape, PcShape,
       Threads, Cutting
  <2>5. KindsCompletion'
    BY <2>1, <2>2 DEF Links, Kinds, KindsMain, KindsIo, KindsCompletion, Op, Shape, PcShape,
       Threads, Cutting
  <2> QED
    BY <2>3, <2>4, <2>5 DEF Kinds
<1>9. ASSUME NEW t \in Threads, SignalIdle(t) PROVE Kinds'
  <2>1. UNCHANGED <<queue, irp, item, own>> /\ pc' = [pc EXCEPT ![t] = pc'[t]]
        /\ pc'[t] \in {"signalIdle", "pop", "releaseItem"}
    BY <1>9 DEF SignalIdle, AfterDecrement, Goto, Links, Shape, PcShape
  <2>2. Queued("io")' = Queued("io") /\ Queued("completion")' = Queued("completion")
    BY <2>1 DEF Queued
  <2>3. KindsMain'
    BY <2>1, <2>2 DEF Links, Kinds, KindsMain, KindsIo, KindsCompletion, Op, Shape, PcShape,
       Threads, Cutting
  <2>4. KindsIo'
    BY <2>1, <2>2 DEF Links, Kinds, KindsMain, KindsIo, KindsCompletion, Op, Shape, PcShape,
       Threads, Cutting
  <2>5. KindsCompletion'
    BY <2>1, <2>2 DEF Links, Kinds, KindsMain, KindsIo, KindsCompletion, Op, Shape, PcShape,
       Threads, Cutting
  <2> QED
    BY <2>3, <2>4, <2>5 DEF Kinds
<1>10. ASSUME NEW t \in Threads, ReleaseItem(t) PROVE Kinds'
  <2>1. /\ own' = [own EXCEPT ![t] = 0] /\ item' = [item EXCEPT ![own[t]] = FreeItem]
        /\ UNCHANGED <<queue, irp>> /\ pc[t] = "releaseItem"
        /\ pc' = [pc EXCEPT ![t] = pc'[t]]
             /\ pc'[t] = (IF t = "main" THEN "pop" ELSE "releaseRequest")
    BY <1>10 DEF ReleaseItem, Goto, Links, Shape, PcShape
  <2>2. own[t] # 0 /\ own[t] \in Items
    BY <2>1, Holders DEF Links, Hands, Threads, MainOwns, Ending
  <2>3. /\ \A u \in Threads : u # t => own'[u] = own[u] /\ own[u] # own[t] /\ pc'[u] = pc[u]
        /\ own'[t] = 0
        /\ \A u \in {"io", "completion"} : \A n \in Queued(u) : queue[u][n].item # own[t]
        /\ \A j \in Items : j # own[t] => OpOf(irp', item', j) = OpOf(irp, item, j)
    BY <2>1, <2>2, OnlyHolder DEF Links, Shape, PcShape, OwnShape, ItemShape, Ending, OpOf
  <2>4. Queued("io")' = Queued("io") /\ Queued("completion")' = Queued("completion")
    BY <2>1 DEF Queued
  <2>5. /\ pc["main"] \in {"misaligned", "decrypt", "complete"} \cup Cutting =>
             Live(own["main"]) /\ own["main"] \in Items
        /\ \A u \in {"io", "completion"} :
             pc[u] \in {"device", "done", "post", "postAhead", "complete", "releaseRequest"}
             /\ own[u] # 0 =>
               Live(own[u]) /\ own[u] \in Items
    BY LiveOnes, Holders DEF Links, Hands, Threads, MainOwns, Cutting
  <2>6. /\ \A u \in {"io", "completion"} : \A n \in Queued(u) :
             Live(queue[u][n].item) /\ queue[u][n].item \in Items
        /\ \A u \in {"io", "completion"} :
             pc[u] \in {"device", "done", "post", "postAhead", "complete"} => own[u] # 0
    BY LiveOnes, Holders DEF Links, Hands
  <2>7. queue' = queue /\ pc'[t] \in {"pop", "releaseRequest"} /\ (t = "main" => pc'[t] = "pop")
    BY <2>1
  <2>8. KindsMain'
    BY <2>3, <2>4, <2>5, <2>6, <2>7 DEF Links, Kinds, KindsMain, KindsIo, KindsCompletion, Op,
       Threads, Cutting
  <2>9. KindsIo'
    BY <2>3, <2>4, <2>5, <2>6, <2>7 DEF Links, Kinds, KindsMain, KindsIo, KindsCompletion, Op,
       Threads, Cutting
  <2>10. KindsCompletion'
    BY <2>3, <2>4, <2>5, <2>6, <2>7 DEF Links, Kinds, KindsMain, KindsIo, KindsCompletion, Op,
       Threads, Cutting
  <2> QED
    BY <2>8, <2>9, <2>10 DEF Kinds
<1>11. ASSUME NEW t \in Threads, ReleaseRequest(t) PROVE Kinds'
  <2>1. /\ own' = [own EXCEPT ![t] = 0] /\ UNCHANGED <<queue, irp, item>>
             /\ pc' = [pc EXCEPT ![t] = "pop"]
    BY <1>11 DEF ReleaseRequest, Goto
  <2>2. Queued("io")' = Queued("io") /\ Queued("completion")' = Queued("completion")
    BY <2>1 DEF Queued
  <2>3. KindsMain'
    BY <2>1, <2>2 DEF Links, Kinds, KindsMain, KindsIo, KindsCompletion, Op, Shape, PcShape,
       OwnShape, Threads, Cutting
  <2>4. KindsIo'
    BY <2>1, <2>2 DEF Links, Kinds, KindsMain, KindsIo, KindsCompletion, Op, Shape, PcShape,
       OwnShape, Threads, Cutting
  <2>5. KindsCompletion'
    BY <2>1, <2>2 DEF Links, Kinds, KindsMain, KindsIo, KindsCompletion, Op, Shape, PcShape,
       OwnShape, Threads, Cutting
  <2> QED
    BY <2>3, <2>4, <2>5 DEF Kinds
<1>12. ASSUME TakeIrp PROVE Kinds'
  <2>1. UNCHANGED <<own, item, irp>> /\ queue' = [queue EXCEPT !["main"] = queue'["main"]]
        /\ pc' = [pc EXCEPT !["main"] = "suspended"]
    BY <1>12 DEF TakeIrp, Goto, Links, Shape, QueueShape, Threads
  <2>2. queue'["io"] = queue["io"] /\ queue'["completion"] = queue["completion"]
    BY <2>1 DEF Links, Shape, QueueShape, Threads
  <2>3. Queued("io")' = Queued("io") /\ Queued("completion")' = Queued("completion")
    BY <2>2 DEF Queued
  <2>4. KindsMain'
    BY <2>1, <2>2, <2>3 DEF Links, Kinds, KindsMain, KindsIo, KindsCompletion, Op, Shape,
       PcShape, Threads, Cutting
  <2>5. KindsIo'
    BY <2>1, <2>2, <2>3 DEF Links, Kinds, KindsMain, KindsIo, KindsCompletion, Op, Shape,
       PcShape, Threads, Cutting
  <2>6. KindsCompletion'
    BY <2>1, <2>2, <2>3 DEF Links, Kinds, KindsMain, KindsIo, KindsCompletion, Op, Shape,
       PcShape, Threads, Cutting
  <2> QED
    BY <2>4, <2>5, <2>6 DEF Kinds
<1>13. ASSUME TestSuspended PROVE Kinds'
  BY <1>13, Links DEF TestSuspended, Goto, Links, Shape, PcShape, OwnShape, Kinds, KindsMain,
     KindsIo, KindsCompletion, Op, Queued, Threads, Cutting
<1>14. ASSUME AwaitResume PROVE Kinds'
  BY <1>14, Links DEF AwaitResume, Goto, Links, Shape, PcShape, OwnShape, Kinds, KindsMain,
     KindsIo, KindsCompletion, Op, Queued, Threads, Cutting
<1>15. ASSUME AwaitsPool PROVE Kinds'
  BY <1>15, Links DEF AwaitsPool, PoolEmpty, Goto, Links, Shape, PcShape, OwnShape, Kinds,
     KindsMain, KindsIo, KindsCompletion, Op, Queued, Threads, Cutting
<1>16. ASSUME LooksAgain PROVE Kinds'
  BY <1>16, Links DEF LooksAgain, AwaitPoolBuffer, Goto, Links, Shape, PcShape, OwnShape, Kinds,
     KindsMain, KindsIo, KindsCompletion, Op, Queued, Threads, Cutting
<1>17. ASSUME Refuse PROVE Kinds'
  <2>1. PICK k \in Items, status \in {"ok", "failed"} :
             /\ item' = [item EXCEPT ![k] = [irp |-> taken, status |-> status]]
             /\ own' = [own EXCEPT !["main"] = k]
             /\ \A u \in Threads : own[u] # k
             /\ \A u \in {"io", "completion"} : \A n \in Queued(u) : queue[u][n].item # k
             /\ pc' = [pc EXCEPT !["main"] = pc'["main"]]
             /\ UNCHANGED <<queue, irp>>
    BY <1>17, GetItemTakes
  <2>2. /\ own'["main"] = k /\ \A u \in {"io", "completion"} : own'[u] = own[u] /\ pc'[u] = pc[u]
        /\ OpOf(irp', item', k) = irp[taken].op
        /\ \A j \in Items : j # k => OpOf(irp', item', j) = OpOf(irp, item, j)
    BY <2>1 DEF Links, Shape, PcShape, OwnShape, ItemShape, Threads, OpOf
  <2>3. taken \in Irps /\ irp[taken].op \in {"read", "write", "skewed"}
    BY <1>17, GetItemTakes DEF Links, Shape, Linked, LinkedIrps, Hands, MainTakes, IrpShape,
       IrpRecords
  <2>4. \/ pc'["main"] = "complete"
        \/ pc'["main"] = "misaligned" /\ irp[taken].op = "skewed"
        \/ pc'["main"] = "fragment" /\ irp[taken].op # "skewed"
    BY <1>17 DEF Refuse, Protect, Accept, GetItem, Goto, Links, Shape, PcShape, Threads
  <2>5. Queued("io")' = Queued("io") /\ Queued("completion")' = Queued("completion")
    BY <2>1 DEF Queued
  <2>6. KindsMain'
    BY <2>1, <2>2, <2>3, <2>4 DEF Links, KindsMain, Op, Cutting
  <2>9. /\ pc["main"] \in {"misaligned", "decrypt", "complete"} \cup Cutting =>
             Live(own["main"]) /\ own["main"] \in Items
        /\ \A u \in {"io", "completion"} :
             pc[u] \in {"device", "done", "post", "postAhead", "complete", "releaseRequest"}
             /\ own[u] # 0 =>
               Live(own[u]) /\ own[u] \in Items
    BY LiveOnes, Holders DEF Links, Hands, Threads, MainOwns, Cutting
  <2>10. /\ \A u \in {"io", "completion"} : \A n \in Queued(u) :
             Live(queue[u][n].item) /\ queue[u][n].item \in Items
        /\ \A u \in {"io", "completion"} :
             pc[u] \in {"device", "done", "post", "postAhead", "complete"} => own[u] # 0
    BY LiveOnes, Holders DEF Links, Hands
  <2>11. queue' = queue /\ \A u \in Threads : own[u] # k
    BY <2>1
  <2>12. \A u \in {"io", "completion"} : \A n \in Queued(u) : queue[u][n].item # k
    BY <2>1
  <2>7. KindsIo'
    BY <2>2, <2>5, <2>9, <2>10, <2>11, <2>12 DEF Links, Kinds, KindsIo, Op, Threads
  <2>8. KindsCompletion'
    BY <2>2, <2>5, <2>9, <2>10, <2>11, <2>12 DEF Links, Kinds, KindsCompletion, Op, Threads
  <2> QED
    BY <2>6, <2>7, <2>8 DEF Kinds
<1>18. ASSUME Protect PROVE Kinds'
  <2>1. PICK k \in Items, status \in {"ok", "failed"} :
             /\ item' = [item EXCEPT ![k] = [irp |-> taken, status |-> status]]
             /\ own' = [own EXCEPT !["main"] = k]
             /\ \A u \in Threads : own[u] # k
             /\ \A u \in {"io", "completion"} : \A n \in Queued(u) : queue[u][n].item # k
             /\ pc' = [pc EXCEPT !["main"] = pc'["main"]]
             /\ UNCHANGED <<queue, irp>>
    BY <1>18, GetItemTakes
  <2>2. /\ own'["main"] = k /\ \A u \in {"io", "completion"} : own'[u] = own[u] /\ pc'[u] = pc[u]
        /\ OpOf(irp', item', k) = irp[taken].op
        /\ \A j \in Items : j # k => OpOf(irp', item', j) = OpOf(irp, item, j)
    BY <2>1 DEF Links, Shape, PcShape, OwnShape, ItemShape, Threads, OpOf
  <2>3. taken \in Irps /\ irp[taken].op \in {"read", "write", "skewed"}
    BY <1>18, GetItemTakes DEF Links, Shape, Linked, LinkedIrps, Hands, MainTakes, IrpShape,
       IrpRecords
  <2>4. \/ pc'["main"] = "complete"
        \/ pc'["main"] = "misaligned" /\ irp[taken].op = "skewed"
        \/ pc'["main"] = "fragment" /\ irp[taken].op # "skewed"
    BY <1>18 DEF Refuse, Protect, Accept, GetItem, Goto, Links, Shape, PcShape, Threads
  <2>5. Queued("io")' = Queued("io") /\ Queued("completion")' = Queued("completion")
    BY <2>1 DEF Queued
  <2>6. KindsMain'
    BY <2>1, <2>2, <2>3, <2>4 DEF Links, KindsMain, Op, Cutting
  <2>9. /\ pc["main"] \in {"misaligned", "decrypt", "complete"} \cup Cutting =>
             Live(own["main"]) /\ own["main"] \in Items
        /\ \A u \in {"io", "completion"} :
             pc[u] \in {"device", "done", "post", "postAhead", "complete", "releaseRequest"}
             /\ own[u] # 0 =>
               Live(own[u]) /\ own[u] \in Items
    BY LiveOnes, Holders DEF Links, Hands, Threads, MainOwns, Cutting
  <2>10. /\ \A u \in {"io", "completion"} : \A n \in Queued(u) :
             Live(queue[u][n].item) /\ queue[u][n].item \in Items
        /\ \A u \in {"io", "completion"} :
             pc[u] \in {"device", "done", "post", "postAhead", "complete"} => own[u] # 0
    BY LiveOnes, Holders DEF Links, Hands
  <2>11. queue' = queue /\ \A u \in Threads : own[u] # k
    BY <2>1
  <2>12. \A u \in {"io", "completion"} : \A n \in Queued(u) : queue[u][n].item # k
    BY <2>1
  <2>7. KindsIo'
    BY <2>2, <2>5, <2>9, <2>10, <2>11, <2>12 DEF Links, Kinds, KindsIo, Op, Threads
  <2>8. KindsCompletion'
    BY <2>2, <2>5, <2>9, <2>10, <2>11, <2>12 DEF Links, Kinds, KindsCompletion, Op, Threads
  <2> QED
    BY <2>6, <2>7, <2>8 DEF Kinds
<1>19. ASSUME Accept PROVE Kinds'
  <2>1. PICK k \in Items, status \in {"ok", "failed"} :
             /\ item' = [item EXCEPT ![k] = [irp |-> taken, status |-> status]]
             /\ own' = [own EXCEPT !["main"] = k]
             /\ \A u \in Threads : own[u] # k
             /\ \A u \in {"io", "completion"} : \A n \in Queued(u) : queue[u][n].item # k
             /\ pc' = [pc EXCEPT !["main"] = pc'["main"]]
             /\ UNCHANGED <<queue, irp>>
    BY <1>19, GetItemTakes
  <2>2. /\ own'["main"] = k /\ \A u \in {"io", "completion"} : own'[u] = own[u] /\ pc'[u] = pc[u]
        /\ OpOf(irp', item', k) = irp[taken].op
        /\ \A j \in Items : j # k => OpOf(irp', item', j) = OpOf(irp, item, j)
    BY <2>1 DEF Links, Shape, PcShape, OwnShape, ItemShape, Threads, OpOf
  <2>3. taken \in Irps /\ irp[taken].op \in {"read", "write", "skewed"}
    BY <1>19, GetItemTakes DEF Links, Shape, Linked, LinkedIrps, Hands, MainTakes, IrpShape,
       IrpRecords
  <2>4. \/ pc'["main"] = "complete"
        \/ pc'["main"] = "misaligned" /\ irp[taken].op = "skewed"
        \/ pc'["main"] = "fragment" /\ irp[taken].op # "skewed"
    BY <1>19 DEF Refuse, Protect, Accept, GetItem, Goto, Links, Shape, PcShape, Threads
  <2>5. Queued("io")' = Queued("io") /\ Queued("completion")' = Queued("completion")
    BY <2>1 DEF Queued
  <2>6. KindsMain'
    BY <2>1, <2>2, <2>3, <2>4 DEF Links, KindsMain, Op, Cutting
  <2>9. /\ pc["main"] \in {"misaligned", "decrypt", "complete"} \cup Cutting =>
             Live(own["main"]) /\ own["main"] \in Items
        /\ \A u \in {"io", "completion"} :
             pc[u] \in {"device", "done", "post", "postAhead", "complete", "releaseRequest"}
             /\ own[u] # 0 =>
               Live(own[u]) /\ own[u] \in Items
    BY LiveOnes, Holders DEF Links, Hands, Threads, MainOwns, Cutting
  <2>10. /\ \A u \in {"io", "completion"} : \A n \in Queued(u) :
             Live(queue[u][n].item) /\ queue[u][n].item \in Items
        /\ \A u \in {"io", "completion"} :
             pc[u] \in {"device", "done", "post", "postAhead", "complete"} => own[u] # 0
    BY LiveOnes, Holders DEF Links, Hands
  <2>11. queue' = queue /\ \A u \in Threads : own[u] # k
    BY <2>1
  <2>12. \A u \in {"io", "completion"} : \A n \in Queued(u) : queue[u][n].item # k
    BY <2>1
  <2>7. KindsIo'
    BY <2>2, <2>5, <2>9, <2>10, <2>11, <2>12 DEF Links, Kinds, KindsIo, Op, Threads
  <2>8. KindsCompletion'
    BY <2>2, <2>5, <2>9, <2>10, <2>11, <2>12 DEF Links, Kinds, KindsCompletion, Op, Threads
  <2> QED
    BY <2>6, <2>7, <2>8 DEF Kinds
<1>20. ASSUME ReadMisaligned PROVE Kinds'
  <2>1. UNCHANGED <<own, queue, irp>>
        /\ pc["main"] = "misaligned" /\ pc' = [pc EXCEPT !["main"] = pc'["main"]]
        /\ pc'["main"] \in {"decrypt", "complete"}
    BY <1>20 DEF ReadMisaligned, Goto, Links, Shape, PcShape, Threads
  <2>2. \A k \in Items : OpOf(irp', item', k) = OpOf(irp, item, k)
    BY <1>20, <2>1, OnlyStatus DEF OpOf
  <2>3. Queued("io")' = Queued("io") /\ Queued("completion")' = Queued("completion")
    BY <2>1 DEF Queued
  <2>4. KindsMain'
    BY <2>1, <2>2, <2>3, Holders DEF Links, Kinds, KindsMain, KindsIo, KindsCompletion, Op,
       Hands, Shape, PcShape, Threads, MainOwns, Cutting, Ending
  <2>5. KindsIo'
    BY <2>1, <2>2, <2>3, Holders DEF Links, Kinds, KindsMain, KindsIo, KindsCompletion, Op,
       Hands, Shape, PcShape, Threads, MainOwns, Cutting, Ending
  <2>6. KindsCompletion'
    BY <2>1, <2>2, <2>3, Holders DEF Links, Kinds, KindsMain, KindsIo, KindsCompletion, Op,
       Hands, Shape, PcShape, Threads, MainOwns, Cutting, Ending
  <2> QED
    BY <2>4, <2>5, <2>6 DEF Kinds
<1>21. ASSUME DecryptMisaligned PROVE Kinds'
  BY <1>21, Links DEF DecryptMisaligned, Goto, Links, Shape, PcShape, OwnShape, Kinds, KindsMain,
     KindsIo, KindsCompletion, Op, Queued, Threads, Cutting
<1>22. ASSUME NextFragment PROVE Kinds'
  BY <1>22, Links DEF NextFragment, Goto, Links, Shape, PcShape, OwnShape, Kinds, KindsMain,
     KindsIo, KindsCompletion, Op, Queued, Threads, Cutting
<1>23. ASSUME GetRequest PROVE Kinds'
  BY <1>23, Links DEF GetRequest, Goto, Links, Shape, PcShape, OwnShape, Kinds, KindsMain,
     KindsIo, KindsCompletion, Op, Queued, Threads, Cutting
<1>24. ASSUME FillFragment PROVE Kinds'
  BY <1>24, Links DEF FillFragment, Goto, Links, Shape, PcShape, OwnShape, Kinds, KindsMain,
     KindsIo, KindsCompletion, Op, Queued, Threads, Cutting
<1>25. ASSUME QueueFragment PROVE Kinds'
  <2> DEFINE l == Len(queue["io"]) + 1
  <2>1. /\ own'["main"] = IF req["main"].last THEN 0 ELSE own["main"]
        /\ own'["io"] = own["io"] /\ own'["completion"] = own["completion"]
        /\ req'["io"] = req["io"] /\ req'["completion"] = req["completion"]
        /\ own["main"] # 0 /\ req["main"].item = own["main"]
    BY <1>25, QueueFragmentMoves, QueueAssumption DEF Links, Shape, OwnShape, RequestShape,
       Threads, Items
  <2>2. /\ \A n \in Queued("io")' :
            \/ n \in Queued("io") /\ queue'["io"][n] = queue["io"][n] /\ n < l
            \/ n = l /\ queue'["io"][n] = req["main"]
        /\ l \in Int /\ \A n \in Queued("io")' : n \in Int
        /\ queue'["completion"] = queue["completion"]
             /\ Queued("completion")' = Queued("completion")
    BY <1>25, QueueFragmentMoves DEF Queued, QueueShape
  <2> HIDE DEF l
  <2>3. pc["main"] = "queue" /\ pc' = [pc EXCEPT !["main"] = pc'["main"]]
        /\ pc'["main"] \in {"pop", "fragment"}
    BY <1>25, QueueFragmentMoves DEF Links, Shape, PcShape, Threads
  <2>9. pc'["main"] = "fragment" => own'["main"] = own["main"]
    BY <1>25, <2>1, QueueFragmentMoves DEF Links, Shape, PcShape, Threads
  <2>4. irp' = irp /\ item' = item
    BY <1>25, QueueFragmentMoves
  <2>5. KindsMain'
    BY SMTT(60), <2>1, <2>2, <2>3, <2>4, <2>9, Holders DEF Links, Kinds, KindsMain, KindsIo,
       KindsCompletion, Op, Shape, PcShape, Hands, Threads, MainOwns, Cutting, Ending
  <2>6. KindsIo'
    BY SMTT(60), <2>1, <2>2, <2>3, <2>4, <2>9, Holders DEF Links, Kinds, KindsMain, KindsIo,
       KindsCompletion, Op, Shape, PcShape, Hands, Threads, MainOwns, Cutting, Ending
  <2>7. KindsCompletion'
    BY <2>1, <2>2, <2>3, <2>4, <2>9, Holders DEF Links, Kinds, KindsMain, KindsIo,
       KindsCompletion, Op, Shape, PcShape, Hands, Threads, MainOwns, Cutting, Ending
  <2> QED
    BY <2>5, <2>6, <2>7 DEF Kinds
<1>26. ASSUME TakeRequest PROVE Kinds'
  <2>1. /\ own'["main"] = own["main"] /\ own'["completion"] = own["completion"]
        /\ own'["io"] = queue["io"][1].item /\ req'["io"] = queue["io"][1]
        /\ req'["main"] = req["main"] /\ req'["completion"] = req["completion"]
    BY <1>26, TakeRequestMoves DEF Links, Shape, OwnShape, RequestShape, Threads
  <2>2. /\ 1 \in Queued("io") /\ own'["io"] # 0
        /\ \A n \in Queued("io")' : queue'["io"][n] = queue["io"][n + 1] /\ n + 1 \in Queued("io")
                                    /\ n \in Int /\ 1 < n + 1
        /\ queue'["completion"] = queue["completion"]
             /\ Queued("completion")' = Queued("completion")
    BY <1>26, TakeRequestMoves, QueueAssumption DEF Queued, Items
  <2>3. /\ pc' = [pc EXCEPT !["io"] = pc'["io"]] /\ pc'["io"] \in {"device", "done"}
    BY <1>26, TakeRequestMoves DEF Links, Shape, PcShape, Threads
  <2>4. \A k \in Items : OpOf(irp', item', k) = OpOf(irp, item, k)
    BY <1>26, OnlyStatus, TakeRequestMoves DEF OpOf
  <2>5. KindsMain'
    BY <2>1, <2>2, <2>3, <2>4, Holders DEF Links, Kinds, KindsMain, KindsIo, KindsCompletion, Op,
       Shape, PcShape, Hands, Threads, MainOwns, Cutting, Ending
  <2>6. KindsIo'
    BY <2>1, <2>2, <2>3, <2>4, Holders DEF Links, Kinds, KindsMain, KindsIo, KindsCompletion, Op,
       Shape, PcShape, Hands, Threads, MainOwns, Cutting, Ending
  <2>7. KindsCompletion'
    BY <2>1, <2>2, <2>3, <2>4, Holders DEF Links, Kinds, KindsMain, KindsIo, KindsCompletion, Op,
       Shape, PcShape, Hands, Threads, MainOwns, Cutting, Ending
  <2> QED
    BY <2>5, <2>6, <2>7 DEF Kinds
<1>27. ASSUME DoPiece PROVE Kinds'
  <2>1. UNCHANGED <<own, queue, irp>>
        /\ pc["io"] = "device" /\ pc' = [pc EXCEPT !["io"] = pc'["io"]]
        /\ pc'["io"] \in {"device", "done"}
    BY <1>27 DEF DoPiece, Goto, Links, Shape, PcShape, Threads
  <2>2. \A k \in Items : OpOf(irp', item', k) = OpOf(irp, item, k)
    BY <1>27, <2>1, OnlyStatus DEF OpOf
  <2>3. Queued("io")' = Queued("io") /\ Queued("completion")' = Queued("completion")
    BY <2>1 DEF Queued
  <2>4. KindsMain'
    BY <2>1, <2>2, <2>3, Holders DEF Links, Kinds, KindsMain, KindsIo, KindsCompletion, Op,
       Hands, Shape, PcShape, Threads, MainOwns, Cutting, Ending
  <2>5. KindsIo'
    BY <2>1, <2>2, <2>3, Holders DEF Links, Kinds, KindsMain, KindsIo, KindsCompletion, Op,
       Hands, Shape, PcShape, Threads, MainOwns, Cutting, Ending
  <2>6. KindsCompletion'
    BY <2>1, <2>2, <2>3, Holders DEF Links, Kinds, KindsMain, KindsIo, KindsCompletion, Op,
       Hands, Shape, PcShape, Threads, MainOwns, Cutting, Ending
  <2> QED
    BY <2>4, <2>5, <2>6 DEF Kinds
<1>28. ASSUME WriteDone PROVE Kinds'
  <2>1. UNCHANGED <<own, queue, irp, item>> /\ pc["io"] = "done"
        /\ pc' = [pc EXCEPT !["io"] = pc'["io"]]
        /\ pc'["io"] \in {"complete", "releaseRequest"}
        /\ OpOf(irp, item, own["io"]) = "write"
    BY <1>28 DEF WriteDone, Goto, Links, Shape, PcShape, Threads, AfterRequest, Writing, IoIrp,
       OpOf
  <2>2. Queued("io")' = Queued("io") /\ Queued("completion")' = Queued("completion")
    BY <2>1 DEF Queued
  <2>3. KindsMain'
    BY <2>1, <2>2 DEF Links, Kinds, KindsMain, KindsIo, KindsCompletion, Op, Shape, PcShape,
       Threads, Cutting
  <2>4. KindsIo'
    BY <2>1, <2>2 DEF Links, Kinds, KindsMain, KindsIo, KindsCompletion, Op, Shape, PcShape,
       Threads, Cutting
  <2>5. KindsCompletion'
    BY <2>1, <2>2 DEF Links, Kinds, KindsMain, KindsIo, KindsCompletion, Op, Shape, PcShape,
       Threads, Cutting
  <2> QED
    BY <2>3, <2>4, <2>5 DEF Kinds
<1>29. ASSUME ReadDone PROVE Kinds'
  <2>1. UNCHANGED <<own, queue, irp, item>> /\ pc["io"] = "done"
        /\ pc' = [pc EXCEPT !["io"] = pc'["io"]]
        /\ pc'["io"] \in {"post", "postAhead"}
        /\ OpOf(irp, item, own["io"]) # "write"
    BY <1>29 DEF ReadDone, Goto, Links, Shape, PcShape, Threads, AfterRequest, Writing, IoIrp,
       OpOf
  <2>2. Queued("io")' = Queued("io") /\ Queued("completion")' = Queued("completion")
    BY <2>1 DEF Queued
  <2>3. KindsMain'
    BY <2>1, <2>2 DEF Links, Kinds, KindsMain, KindsIo, KindsCompletion, Op, Shape, PcShape,
       Threads, Cutting
  <2>4. KindsIo'
    BY <2>1, <2>2 DEF Links, Kinds, KindsMain, KindsIo, KindsCompletion, Op, Shape, PcShape,
       Threads, Cutting
  <2>5. KindsCompletion'
    BY <2>1, <2>2 DEF Links, Kinds, KindsMain, KindsIo, KindsCompletion, Op, Shape, PcShape,
       Threads, Cutting
  <2> QED
    BY <2>3, <2>4, <2>5 DEF Kinds
<1>30. ASSUME PassesOn PROVE Kinds'
  <2> DEFINE l == Len(queue["completion"]) + 1
  <2>1. /\ own'["io"] = 0 /\ own'["main"] = own["main"] /\ own'["completion"] = own["completion"]
        /\ req'["main"] = req["main"] /\ req'["completion"] = req["completion"]
        /\ own["io"] # 0 /\ req["io"].item = own["io"]
    BY <1>30, PassesOnMoves, QueueAssumption DEF Links, Shape, OwnShape, RequestShape, Threads,
       Items
  <2>2. /\ \A n \in Queued("completion")' :
             \/ n \in Queued("completion") /\ queue'["completion"][n] = queue["completion"][n]
                  /\ n < l
             \/ n = l /\ queue'["completion"][n] = req["io"]
        /\ l \in Int /\ \A n \in Queued("completion")' : n \in Int
        /\ queue'["io"] = queue["io"] /\ Queued("io")' = Queued("io")
    BY <1>30, PassesOnMoves DEF Queued, QueueShape
  <2> HIDE DEF l
  <2>3. /\ pc["io"] \in {"post", "postAhead"} /\ pc' = [pc EXCEPT !["io"] = pc'["io"]]
             /\ pc'["io"] \in {"pop", "readAhead"}
    BY <1>30, PassesOnMoves DEF Links, Shape, PcShape, Threads
  <2>4. irp' = irp /\ item' = item
    BY <1>30, PassesOnMoves
  <2>5. KindsMain'
    BY <2>1, <2>2, <2>3, <2>4, Holders DEF Links, Kinds, KindsMain, KindsIo, KindsCompletion, Op,
       Shape, PcShape, Hands, Threads, MainOwns, Cutting, Ending
  <2>6. KindsIo'
    BY <2>1, <2>2, <2>3, <2>4, Holders DEF Links, Kinds, KindsMain, KindsIo, KindsCompletion, Op,
       Shape, PcShape, Hands, Threads, MainOwns, Cutting, Ending
  <2>7. KindsCompletion'
    BY <2>1, <2>2, <2>3, <2>4, Holders DEF Links, Kinds, KindsMain, KindsIo, KindsCompletion, Op,
       Shape, PcShape, Hands, Threads, MainOwns, Cutting, Ending
  <2> QED
    BY <2>5, <2>6, <2>7 DEF Kinds
<1>31. ASSUME ReadAhead PROVE Kinds'
  BY <1>31, Links DEF ReadAhead, Goto, Links, Shape, PcShape, OwnShape, Kinds, KindsMain,
     KindsIo, KindsCompletion, Op, Queued, Threads, Cutting
<1>32. ASSUME DecryptFragment PROVE Kinds'
  <2>1. /\ own'["main"] = own["main"] /\ own'["io"] = own["io"]
        /\ own'["completion"] = queue["completion"][1].item
        /\ req'["completion"] = queue["completion"][1]
        /\ req'["main"] = req["main"] /\ req'["io"] = req["io"]
    BY <1>32, DecryptFragmentMoves DEF Links, Shape, OwnShape, RequestShape, Threads
  <2>2. /\ 1 \in Queued("completion") /\ own'["completion"] # 0
        /\ \A n \in Queued("completion")' :
             /\ queue'["completion"][n] = queue["completion"][n + 1]
                  /\ n + 1 \in Queued("completion")
             /\ n \in Int /\ 1 < n + 1
        /\ queue'["io"] = queue["io"] /\ Queued("io")' = Queued("io")
    BY <1>32, DecryptFragmentMoves, QueueAssumption DEF Queued, Items
  <2>3. /\ pc' = [pc EXCEPT !["completion"] = pc'["completion"]]
             /\ pc'["completion"] \in {"complete", "releaseRequest"}
    BY <1>32, DecryptFragmentMoves DEF Links, Shape, PcShape, Threads, AfterRequest
  <2>9. pc'["completion"] = "complete" \/ pc'["completion"] = "releaseRequest"
    BY <1>32, <2>3
  <2>4. irp' = irp /\ item' = item
    BY <1>32, DecryptFragmentMoves
  <2>5. KindsMain'
    BY <2>1, <2>2, <2>3, <2>4, <2>9, Holders DEF Links, Kinds, KindsMain, KindsIo,
       KindsCompletion, Op, Shape, PcShape, Hands, Threads, MainOwns, Cutting, Ending
  <2>6. KindsIo'
    BY SMTT(60), <2>1, <2>2, <2>3, <2>4, <2>9, Holders DEF Links, Kinds, KindsMain, KindsIo,
       KindsCompletion, Op, Shape, PcShape, Hands, Threads, MainOwns, Cutting, Ending
  <2>7. KindsCompletion'
    BY <2>1, <2>2, <2>3, <2>4, <2>9, Holders DEF Links, Kinds, KindsMain, KindsIo,
       KindsCompletion, Op, Shape, PcShape, Hands, Threads, MainOwns, Cutting, Ending
  <2> QED
    BY <2>5, <2>6, <2>7 DEF Kinds
<1>33. CASE UNCHANGED coreVars
  BY <1>33, Links DEF Links, Shape, PcShape, OwnShape, Kinds, KindsMain, KindsIo,
     KindsCompletion, Op, Queued, Threads, Cutting, coreVars
<1> QED
  BY StepCases, <1>1, <1>2, <1>3, <1>4, <1>5, <1>6, <1>7, <1>8, <1>9, <1>10, <1>11, <1>12, <1>13,
     <1>14, <1>15, <1>16, <1>17, <1>18, <1>19, <1>20, <1>21, <1>22, <1>23, <1>24, <1>25, <1>26,
     <1>27, <1>28, <1>29, <1>30, <1>31, <1>32, <1>33


(* ... and every IRP is in one place.                                      *)
LEMMA LinkedStep ==
  ASSUME Links, AnyStep
  PROVE  Linked'
<1> USE DEF irpVars, queueVars, poolVars, handVars, mainVars, fragmentVars, ioVars, pipeVars,
            countVars, diskVars, outerVars
<1>1. ASSUME NEW i \in Irps, NEW op \in {"read", "write", "skewed"}, NEW first \in Nat,
             NEW len \in Nat, Issue(i, op, first, len)
      PROVE  Linked'
  <2>1. UNCHANGED <<taken, queue, item, pc, own>> /\ irp[i].op = "none" /\ op # "none"
        /\ ipc' = [ipc EXCEPT ![i] = "counted"]
        /\ irp' = [irp EXCEPT ![i] = [op |-> op, first |-> first, len |-> len]]
    BY <1>1 DEF Issue, IGoto, NoRequest, Links, Shape, IrpShape
  <2>2. UNCHANGED Queued("main") /\ \A n \in Queued("main") : queue["main"][n] \in Irps
    BY <2>1 DEF Queued, Links, Shape, QueueShape
  <2>3. \A k \in Items : LiveIn(item', pc', own', k) = Live(k)
        /\ (Live(k) => item[k].irp \in Irps)
    BY <2>1, UsedItems DEF Live, LiveIn, InUse
  <2>7. /\ \A j \in Irps : j # i => irp'[j] = irp[j] /\ ipc'[j] = ipc[j]
        /\ UNCHANGED <<taken, queue, item, pc, own>> /\ taken \in Irps \cup {NoIrp} /\ i # NoIrp
        /\ irp[i].op = "none" /\ irp'[i].op # "none"
    BY <2>1, QueueAssumption DEF Links, Shape, IrpShape, MainShape, NoRequest
  <2>4. LinkedItems'
    BY <2>2, <2>3, <2>7 DEF Links, Linked, LinkedItems, LinkedIrps, LinkedQueue, Live, Shape
  <2>5. LinkedIrps'
    BY <2>2, <2>3, <2>7 DEF Links, Linked, LinkedItems, LinkedIrps, LinkedQueue, Live, Shape
  <2>6. LinkedQueue'
    BY <2>2, <2>3, <2>7 DEF Links, Linked, LinkedItems, LinkedIrps, LinkedQueue, Live, Shape
  <2> QED
    BY <2>4, <2>5, <2>6 DEF Linked
<1>2. ASSUME NEW i \in Irps, AddIrp(i) PROVE Linked'
  <2>1. /\ UNCHANGED <<irp, taken, item, pc, own>> /\ ipc[i] = "counted"
             /\ ipc' = [ipc EXCEPT ![i] = "idle"]
        /\ queue["main"] \in Seq(Irps) /\ queue'["main"] = Append(queue["main"], i)
    BY <1>2 DEF AddIrp, IGoto, Links, Shape, QueueShape, Threads
  <2>2. \A n \in Queued("main")' :
          \/ n = Len(queue["main"]) + 1 /\ queue'["main"][n] = i
          \/ n \in Queued("main") /\ queue'["main"][n] = queue["main"][n]
    BY <2>1 DEF Queued
  <2>3. \A k \in Items : LiveIn(item', pc', own', k) = Live(k)
    BY <2>1 DEF Live
  <2>7. /\ UNCHANGED <<irp, taken, item>> /\ ipc[i] = "counted" /\ ipc'[i] = "idle" /\ i # NoIrp
        /\ \A j \in Irps : j # i => ipc'[j] = ipc[j]
        /\ \A n \in Queued("main") : queue["main"][n] \in Irps /\ queue["main"][n] # i
        /\ \A k \in Items : Live(k) => item[k].irp \in Irps /\ item[k].irp # i
    BY <2>1, UsedItems, QueueAssumption DEF Links, Shape, IrpShape, Linked, LinkedItems,
       LinkedQueue, Live, LiveIn, InUse, Queued
  <2>4. LinkedItems'
    <3>1. SUFFICES ASSUME NEW k \in Items, Live(k)
                   PROVE  /\ irp'[item'[k].irp].op # "none"
                          /\ ipc'[item'[k].irp] # "counted"
                          /\ item'[k].irp # taken'
                          /\ \A n \in Queued("main")' : queue'["main"][n] # item'[k].irp
                          /\ \A l \in Items : Live(l) /\ item'[l].irp = item'[k].irp => l = k
      BY <2>3 DEF LinkedItems, Live
    <3>2. /\ irp[item[k].irp].op # "none" /\ ipc[item[k].irp] # "counted" /\ item[k].irp # taken
          /\ \A n \in Queued("main") : queue["main"][n] # item[k].irp
          /\ \A l \in Items : Live(l) /\ item[l].irp = item[k].irp => l = k
      BY <3>1 DEF Links, Linked, LinkedItems
    <3>3. item[k].irp \in Irps /\ item[k].irp # i
      BY <2>7, <3>1
    <3>4. UNCHANGED <<irp, taken, item>> /\ ipc'[item[k].irp] = ipc[item[k].irp]
      BY <2>7, <3>3
    <3> QED
      BY <2>2, <3>2, <3>3, <3>4
  <2>5. LinkedIrps'
    BY <2>7 DEF Links, Linked, LinkedIrps
  <2>6. LinkedQueue'
    <3> DEFINE l == Len(queue["main"]) + 1
    <3>1. \A n \in Queued("main")' : (n = l /\ queue'["main"][n] = i)
             \/ (n \in Queued("main") /\ queue'["main"][n] = queue["main"][n])
      BY <2>2
    <3>2. taken # i /\ irp[i].op # "none"
      BY <2>7 DEF Links, Linked, LinkedIrps
    <3> HIDE DEF l
    <3>3. \A n \in Queued("main") :
            /\ irp[queue["main"][n]].op # "none" /\ ipc[queue["main"][n]] # "counted"
            /\ queue["main"][n] # taken
            /\ \A m \in Queued("main") : queue["main"][m] = queue["main"][n] => m = n
      BY DEF Links, Linked, LinkedQueue
    <3>4. \A n \in Queued("main") : queue["main"][n] \in Irps /\ queue["main"][n] # i
      BY <2>7
    <3>5. UNCHANGED <<irp, taken>> /\ ipc'[i] # "counted"
          /\ \A j \in Irps : j # i => ipc'[j] = ipc[j]
      BY <2>7
    <3>6. SUFFICES ASSUME NEW n \in Queued("main")'
                   PROVE  /\ irp'[queue'["main"][n]].op # "none"
                               /\ ipc'[queue'["main"][n]] # "counted"
                          /\ queue'["main"][n] # taken'
                          /\ \A m \in Queued("main")' : queue'["main"][m] = queue'["main"][n] =>
                                 m = n
      BY DEF LinkedQueue
    <3>7. CASE n = l /\ queue'["main"][n] = i
      BY <3>1, <3>2, <3>4, <3>5, <3>7
    <3>8. CASE n \in Queued("main") /\ queue'["main"][n] = queue["main"][n]
      BY <3>1, <3>3, <3>4, <3>5, <3>8
    <3> QED
      BY <3>1, <3>7, <3>8
  <2> QED
    BY <2>4, <2>5, <2>6 DEF Linked
<1>3. ASSUME NEW i \in Irps, Reject(i) PROVE Linked'
  <2>1. UNCHANGED <<taken, queue, item, pc, own>> /\ ipc[i] = "counted"
        /\ ipc' = [ipc EXCEPT ![i] = ipc'[i]] /\ ipc'[i] # "counted"
        /\ irp' = [irp EXCEPT ![i] = NoRequest]
    BY <1>3 DEF Reject, IGoto, NoRequest, Links, Shape, IrpShape
  <2>2. UNCHANGED Queued("main") /\ \A n \in Queued("main") : queue["main"][n] \in Irps
    BY <2>1 DEF Queued, Links, Shape, QueueShape
  <2>3. \A k \in Items : LiveIn(item', pc', own', k) = Live(k)
        /\ (Live(k) => item[k].irp \in Irps)
    BY <2>1, UsedItems DEF Live, LiveIn, InUse
  <2>7. /\ \A j \in Irps : j # i => irp'[j] = irp[j] /\ ipc'[j] = ipc[j]
        /\ UNCHANGED <<taken, queue, item, pc, own>> /\ taken \in Irps \cup {NoIrp} /\ i # NoIrp
        /\ ipc[i] = "counted" /\ ipc'[i] # "counted"
    BY <2>1, QueueAssumption DEF Links, Shape, IrpShape, MainShape, NoRequest
  <2>4. LinkedItems'
    BY <2>2, <2>3, <2>7 DEF Links, Linked, LinkedItems, LinkedIrps, LinkedQueue, Live, Shape
  <2>5. LinkedIrps'
    BY <2>2, <2>3, <2>7 DEF Links, Linked, LinkedItems, LinkedIrps, LinkedQueue, Live, Shape
  <2>6. LinkedQueue'
    BY <2>2, <2>3, <2>7 DEF Links, Linked, LinkedItems, LinkedIrps, LinkedQueue, Live, Shape
  <2> QED
    BY <2>4, <2>5, <2>6 DEF Linked
<1>4. ASSUME NEW i \in Irps, RejectSignal(i) PROVE Linked'
  <2>1. UNCHANGED <<taken, queue, item, pc, own>> /\ irp' = irp
        /\ ipc' = [ipc EXCEPT ![i] = "idle"]
    BY <1>4 DEF RejectSignal, IGoto, NoRequest, Links, Shape, IrpShape
  <2>2. UNCHANGED Queued("main") /\ \A n \in Queued("main") : queue["main"][n] \in Irps
    BY <2>1 DEF Queued, Links, Shape, QueueShape
  <2>3. \A k \in Items : LiveIn(item', pc', own', k) = Live(k)
        /\ (Live(k) => item[k].irp \in Irps)
    BY <2>1, UsedItems DEF Live, LiveIn, InUse
  <2>7. /\ \A j \in Irps : j # i => irp'[j] = irp[j] /\ ipc'[j] = ipc[j]
        /\ UNCHANGED <<taken, queue, item, pc, own>> /\ taken \in Irps \cup {NoIrp} /\ i # NoIrp
        /\ irp' = irp /\ ipc'[i] = "idle"
    BY <2>1, QueueAssumption DEF Links, Shape, IrpShape, MainShape, NoRequest
  <2>4. LinkedItems'
    BY <2>2, <2>3, <2>7 DEF Links, Linked, LinkedItems, LinkedIrps, LinkedQueue, Live, Shape
  <2>5. LinkedIrps'
    BY <2>2, <2>3, <2>7 DEF Links, Linked, LinkedItems, LinkedIrps, LinkedQueue, Live, Shape
  <2>6. LinkedQueue'
    BY <2>2, <2>3, <2>7 DEF Links, Linked, LinkedItems, LinkedIrps, LinkedQueue, Live, Shape
  <2> QED
    BY <2>4, <2>5, <2>6 DEF Linked
<1>5. ASSUME NEW t \in Threads, Wake(t) PROVE Linked'
  <2>1. UNCHANGED <<irp, ipc, taken>> /\ queue'["main"] = queue["main"]
    BY <1>5 DEF Wake, Goto
  <2>2. \A k \in Items : LiveIn(item', pc', own', k) =>
          LiveIn(item, pc, own, k) /\ item'[k].irp = item[k].irp
    BY <1>5, Holders DEF Wake, Goto, LiveIn, Links, Shape, PcShape, OwnShape, ItemShape, Hands,
       Threads, Ending, Items
  <2> QED
    BY <2>1, <2>2, LinkedKept DEF Links
<1>6. ASSUME NEW t \in Threads, Drained(t) PROVE Linked'
  <2>1. UNCHANGED <<irp, ipc, taken>> /\ queue'["main"] = queue["main"]
    BY <1>6 DEF Drained, Goto
  <2>2. \A k \in Items : LiveIn(item', pc', own', k) =>
          LiveIn(item, pc, own, k) /\ item'[k].irp = item[k].irp
    BY <1>6, Holders DEF Drained, Goto, LiveIn, Links, Shape, PcShape, OwnShape, ItemShape,
       Hands, Threads, Ending, Items
  <2> QED
    BY <2>1, <2>2, LinkedKept DEF Links
<1>7. ASSUME NEW t \in Threads, CompleteIrp(t) PROVE Linked'
  <2>1. /\ UNCHANGED <<ipc, taken, queue, item, own>>
             /\ irp' = [irp EXCEPT ![item[own[t]].irp] = NoRequest]
        /\ pc[t] = "complete" /\ pc' = [pc EXCEPT ![t] = "decrement"]
    BY <1>7 DEF CompleteIrp, Goto
  <2>2. own[t] # 0 /\ own[t] \in Items /\ Live(own[t])
    BY <2>1, LiveOnes, Holders DEF Links, Hands, Threads, MainOwns
  <2>3. UNCHANGED Queued("main") /\ \A n \in Queued("main") : queue["main"][n] \in Irps
    BY <2>1 DEF Queued, Links, Shape, QueueShape
  <2>4. \A k \in Items : LiveIn(item', pc', own', k) => Live(k) /\ k # own[t]
    BY <2>1 DEF Live, LiveIn, Links, Shape, PcShape, Ending
  <2>5. \A j \in Irps : j # item[own[t]].irp => irp'[j] = irp[j]
    BY <2>1 DEF Links, Shape, IrpShape
  <2>6. \A k \in Items : Live(k) => item[k].irp \in Irps
    BY UsedItems DEF Live, LiveIn, InUse
  <2>7. UNCHANGED <<ipc, taken, queue, item>>
    BY <2>1
  <2>8. LinkedItems'
    BY <2>2, <2>3, <2>4, <2>5, <2>6, <2>7 DEF Links, Linked, LinkedItems, LinkedIrps,
       LinkedQueue, Live, Shape, MainShape
  <2>9. LinkedIrps'
    BY <2>2, <2>3, <2>4, <2>5, <2>6, <2>7 DEF Links, Linked, LinkedItems, LinkedIrps,
       LinkedQueue, Live, Shape, MainShape
  <2>10. LinkedQueue'
    BY <2>2, <2>3, <2>4, <2>5, <2>6, <2>7 DEF Links, Linked, LinkedItems, LinkedIrps,
       LinkedQueue, Live, Shape, MainShape
  <2> QED
    BY <2>8, <2>9, <2>10 DEF Linked
<1>8. ASSUME NEW t \in Threads, Decrement(t) PROVE Linked'
  <2>1. UNCHANGED <<irp, ipc, taken>> /\ queue'["main"] = queue["main"]
    BY <1>8 DEF Decrement, Goto, AfterDecrement
  <2>2. \A k \in Items : LiveIn(item', pc', own', k) =>
          LiveIn(item, pc, own, k) /\ item'[k].irp = item[k].irp
    BY <1>8, Holders DEF Decrement, Goto, AfterDecrement, LiveIn, Links, Shape, PcShape,
       OwnShape, ItemShape, Hands, Threads, Ending, Items
  <2> QED
    BY <2>1, <2>2, LinkedKept DEF Links
<1>9. ASSUME NEW t \in Threads, SignalIdle(t) PROVE Linked'
  <2>1. UNCHANGED <<irp, ipc, taken>> /\ queue'["main"] = queue["main"]
    BY <1>9 DEF SignalIdle, Goto, AfterDecrement
  <2>2. \A k \in Items : LiveIn(item', pc', own', k) =>
          LiveIn(item, pc, own, k) /\ item'[k].irp = item[k].irp
    BY <1>9, Holders DEF SignalIdle, Goto, AfterDecrement, LiveIn, Links, Shape, PcShape,
       OwnShape, ItemShape, Hands, Threads, Ending, Items
  <2> QED
    BY <2>1, <2>2, LinkedKept DEF Links
<1>10. ASSUME NEW t \in Threads, ReleaseItem(t) PROVE Linked'
  <2>1. UNCHANGED <<irp, ipc, taken>> /\ queue'["main"] = queue["main"]
    BY <1>10 DEF ReleaseItem, Goto
  <2>3. /\ own' = [own EXCEPT ![t] = 0] /\ item' = [item EXCEPT ![own[t]] = FreeItem]
        /\ pc' = [pc EXCEPT ![t] = pc'[t]]
    BY <1>10 DEF ReleaseItem, Goto, Links, Shape, PcShape
  <2>4. \A u \in Threads : u # t => own'[u] = own[u] /\ pc'[u] = pc[u]
    BY <2>3 DEF Links, Shape, PcShape, OwnShape
  <2>5. ASSUME NEW k \in Items, item'[k].status # "free"
        PROVE  k # own[t] /\ item'[k] = item[k]
    BY <2>3, <2>5 DEF Links, Shape, ItemShape, FreeItem
  <2>2. \A k \in Items : LiveIn(item', pc', own', k) =>
          LiveIn(item, pc, own, k) /\ item'[k].irp = item[k].irp
    BY <2>4, <2>5 DEF LiveIn
  <2> QED
    BY <2>1, <2>2, LinkedKept DEF Links
<1>11. ASSUME NEW t \in Threads, ReleaseRequest(t) PROVE Linked'
  <2>1. UNCHANGED <<irp, ipc, taken>> /\ queue'["main"] = queue["main"]
    BY SMTT(60), <1>11 DEF ReleaseRequest, Goto
  <2>2. \A k \in Items : LiveIn(item', pc', own', k) =>
          LiveIn(item, pc, own, k) /\ item'[k].irp = item[k].irp
    BY <1>11, Holders DEF ReleaseRequest, Goto, LiveIn, Links, Shape, PcShape, OwnShape,
       ItemShape, Hands, Threads, Ending, Items
  <2> QED
    BY <2>1, <2>2, LinkedKept DEF Links
<1>12. ASSUME TakeIrp PROVE Linked'
  <2>1. /\ UNCHANGED <<irp, ipc, item, own>> /\ queue["main"] # <<>>
             /\ queue["main"] \in Seq(Irps)
        /\ taken' = queue["main"][1] /\ queue'["main"] = Tail(queue["main"])
        /\ pc["main"] = "pop" /\ pc' = [pc EXCEPT !["main"] = "suspended"]
    BY <1>12 DEF TakeIrp, Goto, Links, Shape, QueueShape, Threads
  <2>2. 1 \in Queued("main") /\ queue["main"][1] \in Irps
        /\ \A n \in Queued("main")' : /\ n \in Int /\ n + 1 # 1 /\ n + 1 \in Queued("main")
                                       /\ queue'["main"][n] = queue["main"][n + 1]
    BY <2>1 DEF Queued
  <2>3. \A k \in Items : LiveIn(item', pc', own', k) => Live(k)
    BY <2>1 DEF Live, LiveIn, Links, Shape, PcShape, Ending, Threads
  <2>4. UNCHANGED <<irp, ipc, item>> /\ taken' = queue["main"][1] /\ taken' # NoIrp
        /\ \A n \in Queued("main") : n \in Int
    BY <2>1, <2>2, QueueAssumption DEF Queued
  <2>5. LinkedItems'
    BY <2>2, <2>3, <2>4 DEF Links, Linked, LinkedItems, LinkedIrps, LinkedQueue, Live, Shape
  <2>6. LinkedIrps'
    BY <2>2, <2>3, <2>4 DEF Links, Linked, LinkedItems, LinkedIrps, LinkedQueue, Live, Shape
  <2>7. LinkedQueue'
    BY <2>2, <2>3, <2>4 DEF Links, Linked, LinkedItems, LinkedIrps, LinkedQueue, Live, Shape
  <2> QED
    BY <2>5, <2>6, <2>7 DEF Linked
<1>13. ASSUME TestSuspended PROVE Linked'
  <2>1. UNCHANGED <<irp, ipc, taken>> /\ queue'["main"] = queue["main"]
    BY <1>13 DEF TestSuspended, Goto
  <2>2. \A k \in Items : LiveIn(item', pc', own', k) =>
          LiveIn(item, pc, own, k) /\ item'[k].irp = item[k].irp
    BY <1>13, Holders DEF TestSuspended, Goto, LiveIn, Links, Shape, PcShape, OwnShape,
       ItemShape, Hands, Threads, Ending, Items
  <2> QED
    BY <2>1, <2>2, LinkedKept DEF Links
<1>14. ASSUME AwaitResume PROVE Linked'
  <2>1. UNCHANGED <<irp, ipc, taken>> /\ queue'["main"] = queue["main"]
    BY <1>14 DEF AwaitResume, Goto
  <2>2. \A k \in Items : LiveIn(item', pc', own', k) =>
          LiveIn(item, pc, own, k) /\ item'[k].irp = item[k].irp
    BY <1>14, Holders DEF AwaitResume, Goto, LiveIn, Links, Shape, PcShape, OwnShape, ItemShape,
       Hands, Threads, Ending, Items
  <2> QED
    BY <2>1, <2>2, LinkedKept DEF Links
<1>15. ASSUME AwaitsPool PROVE Linked'
  <2>1. UNCHANGED <<irp, ipc, taken>> /\ queue'["main"] = queue["main"]
    BY <1>15 DEF AwaitsPool, PoolEmpty, Goto
  <2>2. \A k \in Items : LiveIn(item', pc', own', k) =>
          LiveIn(item, pc, own, k) /\ item'[k].irp = item[k].irp
    BY <1>15, Holders DEF AwaitsPool, PoolEmpty, Goto, LiveIn, Links, Shape, PcShape, OwnShape,
       ItemShape, Hands, Threads, Ending, Items
  <2> QED
    BY <2>1, <2>2, LinkedKept DEF Links
<1>16. ASSUME LooksAgain PROVE Linked'
  <2>1. UNCHANGED <<irp, ipc, taken>> /\ queue'["main"] = queue["main"]
    BY <1>16 DEF LooksAgain, AwaitPoolBuffer, Goto
  <2>2. \A k \in Items : LiveIn(item', pc', own', k) =>
          LiveIn(item, pc, own, k) /\ item'[k].irp = item[k].irp
    BY <1>16, Holders DEF LooksAgain, AwaitPoolBuffer, Goto, LiveIn, Links, Shape, PcShape,
       OwnShape, ItemShape, Hands, Threads, Ending, Items
  <2> QED
    BY <2>1, <2>2, LinkedKept DEF Links
<1>17. ASSUME Refuse PROVE Linked'
  <2>1. PICK k \in Items, status \in {"ok", "failed"} :
             /\ item' = [item EXCEPT ![k] = [irp |-> taken, status |-> status]]
             /\ own' = [own EXCEPT !["main"] = k] /\ own["main"] = 0
             /\ taken \in Irps /\ taken' = NoIrp
             /\ pc["main"] = "item" /\ pc' = [pc EXCEPT !["main"] = pc'["main"]]
             /\ pc'["main"] \in {"complete", "misaligned", "fragment"}
             /\ UNCHANGED <<queue, irp, ipc>>
    BY <1>17, GetItemTakes
  <2>2. /\ item'[k].irp = taken /\ \A j \in Items : j # k => item'[j] = item[j]
        /\ pc'["main"] \notin Ending /\ pc["main"] \notin Ending
        /\ \A u \in {"io", "completion"} : own'[u] = own[u] /\ pc'[u] = pc[u]
    BY <2>1 DEF Links, Shape, PcShape, OwnShape, ItemShape, Threads, Ending
  <2>3. \A j \in Items : LiveIn(item', pc', own', j) => j = k \/ Live(j)
    BY <2>2 DEF Live, LiveIn, Threads
  <2>4. UNCHANGED Queued("main") /\ \A n \in Queued("main") : queue["main"][n] \in Irps
    BY <2>1 DEF Queued, Links, Shape, QueueShape
  <2>5. \A j \in Items : Live(j) => item[j].irp \in Irps
    BY UsedItems DEF Live, LiveIn, InUse
  <2>6. taken \in Irps /\ taken' = NoIrp /\ NoIrp \notin Irps /\ UNCHANGED <<queue, irp, ipc>>
    BY <2>1, QueueAssumption
  <2>7. LinkedItems'
    BY <2>2, <2>3, <2>4, <2>5, <2>6 DEF Links, Linked, LinkedItems, LinkedIrps, LinkedQueue,
       Live, Shape
  <2>8. LinkedIrps'
    BY <2>2, <2>3, <2>4, <2>5, <2>6 DEF Links, Linked, LinkedItems, LinkedIrps, LinkedQueue,
       Live, Shape
  <2>9. LinkedQueue'
    BY <2>2, <2>3, <2>4, <2>5, <2>6 DEF Links, Linked, LinkedItems, LinkedIrps, LinkedQueue,
       Live, Shape
  <2> QED
    BY <2>7, <2>8, <2>9 DEF Linked
<1>18. ASSUME Protect PROVE Linked'
  <2>1. PICK k \in Items, status \in {"ok", "failed"} :
             /\ item' = [item EXCEPT ![k] = [irp |-> taken, status |-> status]]
             /\ own' = [own EXCEPT !["main"] = k] /\ own["main"] = 0
             /\ taken \in Irps /\ taken' = NoIrp
             /\ pc["main"] = "item" /\ pc' = [pc EXCEPT !["main"] = pc'["main"]]
             /\ pc'["main"] \in {"complete", "misaligned", "fragment"}
             /\ UNCHANGED <<queue, irp, ipc>>
    BY <1>18, GetItemTakes
  <2>2. /\ item'[k].irp = taken /\ \A j \in Items : j # k => item'[j] = item[j]
        /\ pc'["main"] \notin Ending /\ pc["main"] \notin Ending
        /\ \A u \in {"io", "completion"} : own'[u] = own[u] /\ pc'[u] = pc[u]
    BY <2>1 DEF Links, Shape, PcShape, OwnShape, ItemShape, Threads, Ending
  <2>3. \A j \in Items : LiveIn(item', pc', own', j) => j = k \/ Live(j)
    BY <2>2 DEF Live, LiveIn, Threads
  <2>4. UNCHANGED Queued("main") /\ \A n \in Queued("main") : queue["main"][n] \in Irps
    BY <2>1 DEF Queued, Links, Shape, QueueShape
  <2>5. \A j \in Items : Live(j) => item[j].irp \in Irps
    BY UsedItems DEF Live, LiveIn, InUse
  <2>6. taken \in Irps /\ taken' = NoIrp /\ NoIrp \notin Irps /\ UNCHANGED <<queue, irp, ipc>>
    BY <2>1, QueueAssumption
  <2>7. LinkedItems'
    BY <2>2, <2>3, <2>4, <2>5, <2>6 DEF Links, Linked, LinkedItems, LinkedIrps, LinkedQueue,
       Live, Shape
  <2>8. LinkedIrps'
    BY <2>2, <2>3, <2>4, <2>5, <2>6 DEF Links, Linked, LinkedItems, LinkedIrps, LinkedQueue,
       Live, Shape
  <2>9. LinkedQueue'
    BY <2>2, <2>3, <2>4, <2>5, <2>6 DEF Links, Linked, LinkedItems, LinkedIrps, LinkedQueue,
       Live, Shape
  <2> QED
    BY <2>7, <2>8, <2>9 DEF Linked
<1>19. ASSUME Accept PROVE Linked'
  <2>1. PICK k \in Items, status \in {"ok", "failed"} :
             /\ item' = [item EXCEPT ![k] = [irp |-> taken, status |-> status]]
             /\ own' = [own EXCEPT !["main"] = k] /\ own["main"] = 0
             /\ taken \in Irps /\ taken' = NoIrp
             /\ pc["main"] = "item" /\ pc' = [pc EXCEPT !["main"] = pc'["main"]]
             /\ pc'["main"] \in {"complete", "misaligned", "fragment"}
             /\ UNCHANGED <<queue, irp, ipc>>
    BY <1>19, GetItemTakes
  <2>2. /\ item'[k].irp = taken /\ \A j \in Items : j # k => item'[j] = item[j]
        /\ pc'["main"] \notin Ending /\ pc["main"] \notin Ending
        /\ \A u \in {"io", "completion"} : own'[u] = own[u] /\ pc'[u] = pc[u]
    BY <2>1 DEF Links, Shape, PcShape, OwnShape, ItemShape, Threads, Ending
  <2>3. \A j \in Items : LiveIn(item', pc', own', j) => j = k \/ Live(j)
    BY <2>2 DEF Live, LiveIn, Threads
  <2>4. UNCHANGED Queued("main") /\ \A n \in Queued("main") : queue["main"][n] \in Irps
    BY <2>1 DEF Queued, Links, Shape, QueueShape
  <2>5. \A j \in Items : Live(j) => item[j].irp \in Irps
    BY UsedItems DEF Live, LiveIn, InUse
  <2>6. taken \in Irps /\ taken' = NoIrp /\ NoIrp \notin Irps /\ UNCHANGED <<queue, irp, ipc>>
    BY <2>1, QueueAssumption
  <2>7. LinkedItems'
    BY <2>2, <2>3, <2>4, <2>5, <2>6 DEF Links, Linked, LinkedItems, LinkedIrps, LinkedQueue,
       Live, Shape
  <2>8. LinkedIrps'
    BY <2>2, <2>3, <2>4, <2>5, <2>6 DEF Links, Linked, LinkedItems, LinkedIrps, LinkedQueue,
       Live, Shape
  <2>9. LinkedQueue'
    BY <2>2, <2>3, <2>4, <2>5, <2>6 DEF Links, Linked, LinkedItems, LinkedIrps, LinkedQueue,
       Live, Shape
  <2> QED
    BY <2>7, <2>8, <2>9 DEF Linked
<1>20. ASSUME ReadMisaligned PROVE Linked'
  <2>1. UNCHANGED <<irp, ipc, taken>> /\ queue'["main"] = queue["main"]
    BY <1>20 DEF ReadMisaligned, Goto
  <2>3. UNCHANGED own /\ pc["main"] = "misaligned" /\ pc' = [pc EXCEPT !["main"] = pc'["main"]]
        /\ pc'["main"] \in {"decrypt", "complete"}
    BY <1>20 DEF ReadMisaligned, Goto, Links, Shape, PcShape, Threads
  <2>4. \A k \in Items : item'[k].irp = item[k].irp
        /\ (item'[k].status # "free" => item[k].status # "free")
    BY <1>20, OnlyStatus DEF InUse
  <2>2. \A k \in Items : LiveIn(item', pc', own', k) =>
          LiveIn(item, pc, own, k) /\ item'[k].irp = item[k].irp
    BY <2>3, <2>4 DEF LiveIn, Links, Shape, PcShape, Threads, Ending
  <2> QED
    BY <2>1, <2>2, LinkedKept DEF Links
<1>21. ASSUME DecryptMisaligned PROVE Linked'
  <2>1. UNCHANGED <<irp, ipc, taken>> /\ queue'["main"] = queue["main"]
    BY <1>21 DEF DecryptMisaligned, Goto
  <2>2. \A k \in Items : LiveIn(item', pc', own', k) =>
          LiveIn(item, pc, own, k) /\ item'[k].irp = item[k].irp
    BY <1>21, Holders DEF DecryptMisaligned, Goto, LiveIn, Links, Shape, PcShape, OwnShape,
       ItemShape, Hands, Threads, Ending, Items
  <2> QED
    BY <2>1, <2>2, LinkedKept DEF Links
<1>22. ASSUME NextFragment PROVE Linked'
  <2>1. UNCHANGED <<irp, ipc, taken>> /\ queue'["main"] = queue["main"]
    BY <1>22 DEF NextFragment, Goto
  <2>2. \A k \in Items : LiveIn(item', pc', own', k) =>
          LiveIn(item, pc, own, k) /\ item'[k].irp = item[k].irp
    BY <1>22, Holders DEF NextFragment, Goto, LiveIn, Links, Shape, PcShape, OwnShape, ItemShape,
       Hands, Threads, Ending, Items
  <2> QED
    BY <2>1, <2>2, LinkedKept DEF Links
<1>23. ASSUME GetRequest PROVE Linked'
  <2>1. UNCHANGED <<irp, ipc, taken>> /\ queue'["main"] = queue["main"]
    BY <1>23 DEF GetRequest, Goto
  <2>2. \A k \in Items : LiveIn(item', pc', own', k) =>
          LiveIn(item, pc, own, k) /\ item'[k].irp = item[k].irp
    BY <1>23, Holders DEF GetRequest, Goto, LiveIn, Links, Shape, PcShape, OwnShape, ItemShape,
       Hands, Threads, Ending, Items
  <2> QED
    BY <2>1, <2>2, LinkedKept DEF Links
<1>24. ASSUME FillFragment PROVE Linked'
  <2>1. UNCHANGED <<irp, ipc, taken>> /\ queue'["main"] = queue["main"]
    BY <1>24 DEF FillFragment, Goto
  <2>2. \A k \in Items : LiveIn(item', pc', own', k) =>
          LiveIn(item, pc, own, k) /\ item'[k].irp = item[k].irp
    BY <1>24, Holders DEF FillFragment, Goto, LiveIn, Links, Shape, PcShape, OwnShape, ItemShape,
       Hands, Threads, Ending, Items
  <2> QED
    BY <2>1, <2>2, LinkedKept DEF Links
<1>25. ASSUME QueueFragment PROVE Linked'
  <2>1. UNCHANGED <<irp, ipc, taken>> /\ queue'["main"] = queue["main"]
    BY <1>25, QueueFragmentMoves
  <2>3. pc["main"] = "queue" /\ pc' = [pc EXCEPT !["main"] = pc'["main"]]
        /\ pc'["main"] \in {"pop", "fragment"}
    BY <1>25, QueueFragmentMoves DEF Links, Shape, PcShape, Threads
  <2>4. \A k \in Items : item'[k].irp = item[k].irp
        /\ (item'[k].status # "free" => item[k].status # "free")
    BY <1>25, QueueFragmentMoves
  <2>5. pc["main"] \in {"pop", "post", "postAhead", "queue"}
        /\ own' = [own EXCEPT !["main"] = own'["main"]]
    BY <1>25, QueueFragmentMoves DEF Links, Shape, OwnShape, Threads
  <2>2. \A k \in Items : LiveIn(item', pc', own', k) =>
          LiveIn(item, pc, own, k) /\ item'[k].irp = item[k].irp
    BY <2>3, <2>4, <2>5 DEF LiveIn, Links, Shape, PcShape, OwnShape, Threads, Ending
  <2> QED
    BY <2>1, <2>2, LinkedKept DEF Links
<1>26. ASSUME TakeRequest PROVE Linked'
  <2>1. UNCHANGED <<irp, ipc, taken>> /\ queue'["main"] = queue["main"]
    BY <1>26, TakeRequestMoves
  <2>3. /\ pc' = [pc EXCEPT !["io"] = pc'["io"]] /\ pc'["io"] \in {"device", "done"}
    BY <1>26, TakeRequestMoves DEF Links, Shape, PcShape, Threads
  <2>4. \A k \in Items : item'[k].irp = item[k].irp
        /\ (item'[k].status # "free" => item[k].status # "free")
    BY <1>26, OnlyStatus DEF InUse
  <2>5. pc["io"] \in {"pop", "post", "postAhead", "queue"}
        /\ own' = [own EXCEPT !["io"] = own'["io"]]
    BY <1>26, TakeRequestMoves DEF Links, Shape, OwnShape, Threads
  <2>2. \A k \in Items : LiveIn(item', pc', own', k) =>
          LiveIn(item, pc, own, k) /\ item'[k].irp = item[k].irp
    BY <2>3, <2>4, <2>5 DEF LiveIn, Links, Shape, PcShape, OwnShape, Threads, Ending
  <2> QED
    BY <2>1, <2>2, LinkedKept DEF Links
<1>27. ASSUME DoPiece PROVE Linked'
  <2>1. UNCHANGED <<irp, ipc, taken>> /\ queue'["main"] = queue["main"]
    BY <1>27 DEF DoPiece, Goto
  <2>3. UNCHANGED own /\ pc["io"] = "device" /\ pc' = [pc EXCEPT !["io"] = pc'["io"]]
        /\ pc'["io"] \in {"device", "done"}
    BY <1>27 DEF DoPiece, Goto, Links, Shape, PcShape, Threads
  <2>4. \A k \in Items : item'[k].irp = item[k].irp
        /\ (item'[k].status # "free" => item[k].status # "free")
    BY <1>27, OnlyStatus DEF InUse
  <2>2. \A k \in Items : LiveIn(item', pc', own', k) =>
          LiveIn(item, pc, own, k) /\ item'[k].irp = item[k].irp
    BY <2>3, <2>4 DEF LiveIn, Links, Shape, PcShape, Threads, Ending
  <2> QED
    BY <2>1, <2>2, LinkedKept DEF Links
<1>28. ASSUME WriteDone PROVE Linked'
  <2>1. UNCHANGED <<irp, ipc, taken>> /\ queue'["main"] = queue["main"]
    BY <1>28 DEF WriteDone, Goto, AfterRequest, ReleaseFragmentBuffer
  <2>2. \A k \in Items : LiveIn(item', pc', own', k) =>
          LiveIn(item, pc, own, k) /\ item'[k].irp = item[k].irp
    BY <1>28, Holders DEF WriteDone, Goto, AfterRequest, ReleaseFragmentBuffer, LiveIn, Links,
       Shape, PcShape, OwnShape, ItemShape, Hands, Threads, Ending, Items
  <2> QED
    BY <2>1, <2>2, LinkedKept DEF Links
<1>29. ASSUME ReadDone PROVE Linked'
  <2>1. UNCHANGED <<irp, ipc, taken>> /\ queue'["main"] = queue["main"]
    BY SMTT(60), <1>29 DEF ReadDone, Goto, ReleaseFragmentBuffer
  <2>2. \A k \in Items : LiveIn(item', pc', own', k) =>
          LiveIn(item, pc, own, k) /\ item'[k].irp = item[k].irp
    BY <1>29, Holders DEF ReadDone, Goto, ReleaseFragmentBuffer, LiveIn, Links, Shape, PcShape,
       OwnShape, ItemShape, Hands, Threads, Ending, Items
  <2> QED
    BY <2>1, <2>2, LinkedKept DEF Links
<1>30. ASSUME PassesOn PROVE Linked'
  <2>1. UNCHANGED <<irp, ipc, taken>> /\ queue'["main"] = queue["main"]
    BY <1>30, PassesOnMoves
  <2>3. /\ pc' = [pc EXCEPT !["io"] = pc'["io"]] /\ pc'["io"] \in {"pop", "readAhead"}
    BY <1>30, PassesOnMoves DEF Links, Shape, PcShape, Threads
  <2>4. \A k \in Items : item'[k].irp = item[k].irp
        /\ (item'[k].status # "free" => item[k].status # "free")
    BY <1>30, PassesOnMoves
  <2>5. pc["io"] \in {"pop", "post", "postAhead", "queue"}
        /\ own' = [own EXCEPT !["io"] = own'["io"]]
    BY <1>30, PassesOnMoves DEF Links, Shape, OwnShape, Threads
  <2>2. \A k \in Items : LiveIn(item', pc', own', k) =>
          LiveIn(item, pc, own, k) /\ item'[k].irp = item[k].irp
    BY <2>3, <2>4, <2>5 DEF LiveIn, Links, Shape, PcShape, OwnShape, Threads, Ending
  <2> QED
    BY <2>1, <2>2, LinkedKept DEF Links
<1>31. ASSUME ReadAhead PROVE Linked'
  <2>1. UNCHANGED <<irp, ipc, taken>> /\ queue'["main"] = queue["main"]
    BY <1>31 DEF ReadAhead, Goto
  <2>2. \A k \in Items : LiveIn(item', pc', own', k) =>
          LiveIn(item, pc, own, k) /\ item'[k].irp = item[k].irp
    BY <1>31, Holders DEF ReadAhead, Goto, LiveIn, Links, Shape, PcShape, OwnShape, ItemShape,
       Hands, Threads, Ending, Items
  <2> QED
    BY <2>1, <2>2, LinkedKept DEF Links
<1>32. ASSUME DecryptFragment PROVE Linked'
  <2>1. UNCHANGED <<irp, ipc, taken>> /\ queue'["main"] = queue["main"]
    BY <1>32, DecryptFragmentMoves
  <2>3. /\ pc' = [pc EXCEPT !["completion"] = pc'["completion"]]
             /\ pc'["completion"] \in {"complete", "releaseRequest"}
    BY <1>32, DecryptFragmentMoves DEF Links, Shape, PcShape, Threads, AfterRequest
  <2>4. \A k \in Items : item'[k].irp = item[k].irp
        /\ (item'[k].status # "free" => item[k].status # "free")
    BY <1>32, DecryptFragmentMoves
  <2>5. pc["completion"] \in {"pop", "post", "postAhead", "queue"}
        /\ own' = [own EXCEPT !["completion"] = own'["completion"]]
    BY <1>32, DecryptFragmentMoves DEF Links, Shape, OwnShape, Threads
  <2>2. \A k \in Items : LiveIn(item', pc', own', k) =>
          LiveIn(item, pc, own, k) /\ item'[k].irp = item[k].irp
    BY <2>3, <2>4, <2>5 DEF LiveIn, Links, Shape, PcShape, OwnShape, Threads, Ending
  <2> QED
    BY <2>1, <2>2, LinkedKept DEF Links
<1>33. CASE UNCHANGED coreVars
  BY <1>33, LinkedKept DEF Links, coreVars
<1> QED
  BY StepCases, <1>1, <1>2, <1>3, <1>4, <1>5, <1>6, <1>7, <1>8, <1>9, <1>10, <1>11, <1>12, <1>13,
     <1>14, <1>15, <1>16, <1>17, <1>18, <1>19, <1>20, <1>21, <1>22, <1>23, <1>24, <1>25, <1>26,
     <1>27, <1>28, <1>29, <1>30, <1>31, <1>32, <1>33


(* So the links hold throughout.                                           *)
LEMMA LinksStep == Links /\ AnyStep => Links'
<1> SUFFICES ASSUME Links, AnyStep PROVE Links'
  OBVIOUS
<1>1. Shape'
  BY IrpShapeStep, QueueShapeStep, ItemShapeStep, PcShapeStep, OwnShapeStep, RequestShapeStep,
     MainShapeStep, NumberShapeStep, BufferShapeStep DEF Shape
<1> QED
  BY <1>1, HandsStep, UsedStep, OrderedStep, AloneStep, FinalStep, KindsStep, LinkedStep DEF Links

(* The order, the owners and the places of items, requests and IRPs.       *)
LEMMA LinksCorrect == Spec => []Links
  BY LinksInit, LinksStep, NextSteps, PTL DEF Spec

-----------------------------------------------------------------------------
(* IRPs not completed yet, and what counts beside them: a thread that is   *)
(* about to count down, and a read-ahead.                                  *)
PendingIn(irps) == {i \in Irps : irps[i].op # "none"}
Bit(b) == IF b THEN 1 ELSE 0

CountedIrps ==
  /\ IsFiniteSet(PendingIn(irp))
  /\ outstanding = Cardinality(PendingIn(irp)) + Bit(pc["main"] = "decrement")
       + Bit(pc["io"] \in {"decrement", "postAhead", "readAhead"})
       + Bit(pc["completion"] = "decrement")

CountedFragments ==
  pending = Len(queue["io"]) + Bit(pc["main"] \in Cutting \ {"fragment"})

(* Every request is in the pool, in a queue or in somebody's hands.        *)
Waiting(q) == Len(q)
InHand(reqs) ==
  Bit(reqs["main"].item # 0) + Bit(reqs["io"].item # 0) + Bit(reqs["completion"].item # 0)
CountedRequests ==
  RequestCount = freeRequests + Waiting(queue["io"]) + Waiting(queue["completion"]) + InHand(req)

Counted == CountedIrps /\ CountedFragments /\ CountedRequests

(* Nobody is doing anything that matters ...                               *)
Still ==
  \A t \in Threads :
    pc[t] \in Resting \cup {"suspended", "resume", "signalIdle", "releaseItem", "releaseRequest"}
Quiet == Still /\ queue["io"] = <<>> /\ queue["completion"] = <<>>

(* ... and the main thread is not about to.                                *)
Paused == /\ pc["main"] = "suspended" => suspended
          /\ pc["main"] = "resume" => ~queueResumed

HeldSafely ==
  /\ hold \in {"recheck", "held"} => suspended /\ ~queueResumed
  /\ hold = "held" => Quiet /\ readAhead = Empty

Exiting == {"exit", "main", "io", "completion", "stopped"}
Stopping ==
  /\ stopPending <=> stop # "idle"
  /\ exitRequested <=> stop \in {"main", "io", "completion", "stopped"}
  /\ stop \in Exiting => Quiet /\ queue["main"] = <<>> /\ taken = NoIrp
  /\ \A t \in Threads : pc[t] = "off" => exitRequested
  /\ stop \in {"io", "completion", "stopped"} => pc["main"] = "off"
  /\ stop \in {"completion", "stopped"} => pc["io"] = "off"
  /\ stop = "stopped" => pc["completion"] = "off"

(* The number of IRPs not completed yet is one.                            *)
LEMMA PendingCount ==
  ASSUME CountedIrps
  PROVE  Cardinality(PendingIn(irp)) \in Nat
  BY FS_CardinalityType DEF CountedIrps

(* One IRP more ...                                                        *)
LEMMA PendingAdded ==
  ASSUME IsFiniteSet(PendingIn(irp)), irp \in [Irps -> IrpRecords], NEW i \in Irps,
         irp[i].op = "none", irp'[i].op # "none", \A j \in Irps : j # i => irp'[j] = irp[j]
  PROVE  /\ IsFiniteSet(PendingIn(irp'))
         /\ Cardinality(PendingIn(irp')) = Cardinality(PendingIn(irp)) + 1
<1>1. PendingIn(irp') = PendingIn(irp) \cup {i} /\ i \notin PendingIn(irp)
  BY DEF PendingIn
<1> QED
  BY <1>1, FS_AddElement

(* ... and one less.                                                       *)
LEMMA PendingRemoved ==
  ASSUME IsFiniteSet(PendingIn(irp)), irp \in [Irps -> IrpRecords], NEW i \in Irps,
         irp[i].op # "none", irp'[i].op = "none", \A j \in Irps : j # i => irp'[j] = irp[j]
  PROVE  /\ IsFiniteSet(PendingIn(irp'))
         /\ Cardinality(PendingIn(irp')) = Cardinality(PendingIn(irp)) - 1
<1>1. PendingIn(irp') = PendingIn(irp) \ {i} /\ i \in PendingIn(irp)
  BY DEF PendingIn
<1> QED
  BY <1>1, FS_RemoveElement

(* The steps that change pending, queue.                                   *)
LEMMA FragmentsFrame ==
  ASSUME AnyStep
  PROVE  \/ UNCHANGED <<pending, queue>>
         \/ (\E i \in Irps : AddIrp(i))
         \/ TakeIrp
         \/ NextFragment
         \/ QueueFragment
         \/ TakeRequest
         \/ PassesOn
         \/ DecryptFragment
  BY ZenonT(60), StepCases
     DEF coreVars, irpVars, queueVars, poolVars, handVars, mainVars, fragmentVars, ioVars,
         pipeVars, countVars, diskVars, outerVars, Issue, IGoto, Reject, RejectSignal, Wake,
         Goto, Drained, CompleteIrp, Decrement, AfterDecrement, SignalIdle, ReleaseItem,
         ReleaseRequest, TestSuspended, AwaitResume, AwaitsPool, PoolEmpty, LooksAgain,
         AwaitPoolBuffer, Refuse, GetItem, Protect, Accept, ReadMisaligned, DecryptMisaligned,
         GetRequest, FillFragment, DoPiece, WriteDone, AfterRequest, ReleaseFragmentBuffer,
         ReadDone, ReadAhead


(* The steps that change freeRequests, req, queue.                         *)
LEMMA RequestsFrame ==
  ASSUME AnyStep
  PROVE  \/ UNCHANGED <<freeRequests, req, queue>>
         \/ (\E i \in Irps : AddIrp(i))
         \/ TakeIrp
         \/ (\E t \in Threads : ReleaseRequest(t))
         \/ GetRequest
         \/ QueueFragment
         \/ TakeRequest
         \/ PassesOn
         \/ DecryptFragment
  BY ZenonT(60), StepCases
     DEF coreVars, irpVars, queueVars, poolVars, handVars, mainVars, fragmentVars, ioVars,
         pipeVars, countVars, diskVars, outerVars, Issue, IGoto, Reject, RejectSignal, Wake,
         Goto, Drained, CompleteIrp, Decrement, AfterDecrement, SignalIdle, ReleaseItem,
         TestSuspended, AwaitResume, AwaitsPool, PoolEmpty, LooksAgain, AwaitPoolBuffer, Refuse,
         GetItem, Protect, Accept, ReadMisaligned, DecryptMisaligned, NextFragment, FillFragment,
         DoPiece, WriteDone, AfterRequest, ReleaseFragmentBuffer, ReadDone, ReadAhead


(* Every step keeps the count of IRPs ...                                  *)
LEMMA CountedIrpsStep ==
  ASSUME Links, CountedIrps, AnyStep
  PROVE  CountedIrps'
<1> USE DEF irpVars, queueVars, poolVars, handVars, mainVars, fragmentVars, ioVars, pipeVars,
            countVars, diskVars, outerVars
<1>1. ASSUME NEW i \in Irps, NEW op \in {"read", "write", "skewed"}, NEW first \in Nat,
             NEW len \in Nat, Issue(i, op, first, len)
      PROVE  CountedIrps'
  <2>1. /\ irp[i].op = "none" /\ irp'[i].op # "none" /\ \A j \in Irps : j # i => irp'[j] = irp[j]
        /\ irp \in [Irps -> IrpRecords] /\ outstanding' = outstanding + 1 /\ pc' = pc
    BY <1>1 DEF Issue, NoRequest, Links, Shape, IrpShape
  <2>2. /\ IsFiniteSet(PendingIn(irp'))
        /\ Cardinality(PendingIn(irp')) = Cardinality(PendingIn(irp)) + 1
    BY <2>1, PendingAdded DEF CountedIrps
  <2> QED
    BY <2>1, <2>2, PendingCount DEF CountedIrps, Bit
<1>2. ASSUME NEW i \in Irps, AddIrp(i) PROVE CountedIrps'
  BY <1>2, PendingCount DEF AddIrp, IGoto, CountedIrps
<1>3. ASSUME NEW i \in Irps, Reject(i) PROVE CountedIrps'
  <2>1. /\ irp[i].op # "none" /\ irp'[i].op = "none" /\ \A j \in Irps : j # i => irp'[j] = irp[j]
        /\ irp \in [Irps -> IrpRecords] /\ outstanding' = outstanding - 1 /\ pc' = pc
    BY <1>3 DEF Reject, IGoto, NoRequest, Links, Shape, IrpShape, Linked, LinkedIrps
  <2>2. /\ IsFiniteSet(PendingIn(irp'))
        /\ Cardinality(PendingIn(irp')) = Cardinality(PendingIn(irp)) - 1
    BY <2>1, PendingRemoved DEF CountedIrps
  <2> QED
    BY <2>1, <2>2, PendingCount DEF CountedIrps, Bit
<1>4. ASSUME NEW i \in Irps, RejectSignal(i) PROVE CountedIrps'
  BY <1>4, PendingCount DEF RejectSignal, IGoto, CountedIrps
<1>5. ASSUME NEW t \in Threads, Wake(t) PROVE CountedIrps'
  <2>1. /\ UNCHANGED <<irp, outstanding>> /\ pc' = [pc EXCEPT ![t] = pc'[t]]
        /\ pc[t] \notin {"decrement", "postAhead", "readAhead"}
             /\ pc'[t] \notin {"decrement", "postAhead", "readAhead"}
    BY <1>5 DEF Wake, Goto, Links, Shape, PcShape, Threads
  <2> QED
    BY <2>1 DEF CountedIrps, Bit, Links, Shape, PcShape, Threads
<1>6. ASSUME NEW t \in Threads, Drained(t) PROVE CountedIrps'
  <2>1. /\ UNCHANGED <<irp, outstanding>> /\ pc' = [pc EXCEPT ![t] = pc'[t]]
        /\ pc[t] \notin {"decrement", "postAhead", "readAhead"}
             /\ pc'[t] \notin {"decrement", "postAhead", "readAhead"}
    BY <1>6 DEF Drained, Goto, Links, Shape, PcShape, Threads
  <2> QED
    BY <2>1 DEF CountedIrps, Bit, Links, Shape, PcShape, Threads
<1>7. ASSUME NEW t \in Threads, CompleteIrp(t) PROVE CountedIrps'
  <2> DEFINE i == item[own[t]].irp
  <2>1. /\ own[t] # 0 /\ own[t] \in Items /\ Live(own[t]) /\ pc[t] = "complete"
        /\ pc' = [pc EXCEPT ![t] = "decrement"] /\ outstanding' = outstanding
        /\ irp' = [irp EXCEPT ![i] = NoRequest]
    BY <1>7, LiveOnes, Holders DEF CompleteIrp, Goto, Links, Hands, Threads, MainOwns
  <2>2. i \in Irps /\ irp[i].op # "none"
    BY <2>1, Holders, UsedItems DEF Links, Linked, LinkedItems
  <2> HIDE DEF i
  <2>3. /\ irp'[i].op = "none" /\ \A j \in Irps : j # i => irp'[j] = irp[j]
        /\ irp \in [Irps -> IrpRecords]
    BY <2>1, <2>2 DEF NoRequest, Links, Shape, IrpShape
  <2>4. /\ IsFiniteSet(PendingIn(irp'))
        /\ Cardinality(PendingIn(irp')) = Cardinality(PendingIn(irp)) - 1
    BY <2>2, <2>3, PendingRemoved DEF CountedIrps
  <2> QED
    BY <2>1, <2>4, PendingCount DEF CountedIrps, Bit, Links, Shape, PcShape, Threads
<1>8. ASSUME NEW t \in Threads, Decrement(t) PROVE CountedIrps'
  <2>1. /\ irp' = irp /\ outstanding' = outstanding - 1 /\ pc[t] = "decrement"
        /\ pc' = [pc EXCEPT ![t] = pc'[t]] /\ pc'[t] \in {"signalIdle", "pop", "releaseItem"}
    BY <1>8 DEF Decrement, Goto, AfterDecrement, Links, Shape, PcShape
  <2> QED
    BY <2>1, PendingCount DEF CountedIrps, Bit, Links, Shape, PcShape, Threads
<1>9. ASSUME NEW t \in Threads, SignalIdle(t) PROVE CountedIrps'
  <2>1. /\ UNCHANGED <<irp, outstanding>> /\ pc[t] = "signalIdle"
        /\ pc' = [pc EXCEPT ![t] = pc'[t]] /\ pc'[t] \in {"pop", "releaseItem"}
    BY <1>9 DEF SignalIdle, Goto, AfterDecrement, Links, Shape, PcShape
  <2> QED
    BY <2>1, PendingCount DEF CountedIrps, Bit, Links, Shape, PcShape, Threads
<1>10. ASSUME NEW t \in Threads, ReleaseItem(t) PROVE CountedIrps'
  <2>1. /\ UNCHANGED <<irp, outstanding>> /\ pc' = [pc EXCEPT ![t] = pc'[t]]
        /\ pc[t] \notin {"decrement", "postAhead", "readAhead"}
             /\ pc'[t] \notin {"decrement", "postAhead", "readAhead"}
    BY <1>10 DEF ReleaseItem, Goto, Links, Shape, PcShape, Threads
  <2> QED
    BY <2>1 DEF CountedIrps, Bit, Links, Shape, PcShape, Threads
<1>11. ASSUME NEW t \in Threads, ReleaseRequest(t) PROVE CountedIrps'
  <2>1. /\ UNCHANGED <<irp, outstanding>> /\ pc' = [pc EXCEPT ![t] = pc'[t]]
        /\ pc[t] \notin {"decrement", "postAhead", "readAhead"}
             /\ pc'[t] \notin {"decrement", "postAhead", "readAhead"}
    BY <1>11 DEF ReleaseRequest, Goto, Links, Shape, PcShape, Threads
  <2> QED
    BY <2>1 DEF CountedIrps, Bit, Links, Shape, PcShape, Threads
<1>12. ASSUME TakeIrp PROVE CountedIrps'
  <2>1. /\ UNCHANGED <<irp, outstanding>> /\ pc' = [pc EXCEPT !["main"] = pc'["main"]]
        /\ pc["main"] \notin {"decrement", "postAhead", "readAhead"}
        /\ pc'["main"] \notin {"decrement", "postAhead", "readAhead"}
    BY <1>12 DEF TakeIrp, Goto, Links, Shape, PcShape, Threads
  <2> QED
    BY <2>1 DEF CountedIrps, Bit, Links, Shape, PcShape, Threads
<1>13. ASSUME TestSuspended PROVE CountedIrps'
  <2>1. /\ UNCHANGED <<irp, outstanding>> /\ pc' = [pc EXCEPT !["main"] = pc'["main"]]
        /\ pc["main"] \notin {"decrement", "postAhead", "readAhead"}
        /\ pc'["main"] \notin {"decrement", "postAhead", "readAhead"}
    BY <1>13 DEF TestSuspended, Goto, Links, Shape, PcShape, Threads
  <2> QED
    BY <2>1 DEF CountedIrps, Bit, Links, Shape, PcShape, Threads
<1>14. ASSUME AwaitResume PROVE CountedIrps'
  <2>1. /\ UNCHANGED <<irp, outstanding>> /\ pc' = [pc EXCEPT !["main"] = pc'["main"]]
        /\ pc["main"] \notin {"decrement", "postAhead", "readAhead"}
        /\ pc'["main"] \notin {"decrement", "postAhead", "readAhead"}
    BY <1>14 DEF AwaitResume, Goto, Links, Shape, PcShape, Threads
  <2> QED
    BY <2>1 DEF CountedIrps, Bit, Links, Shape, PcShape, Threads
<1>15. ASSUME AwaitsPool PROVE CountedIrps'
  <2>1. /\ UNCHANGED <<irp, outstanding>> /\ pc' = [pc EXCEPT !["main"] = pc'["main"]]
        /\ pc["main"] \notin {"decrement", "postAhead", "readAhead"}
        /\ pc'["main"] \notin {"decrement", "postAhead", "readAhead"}
    BY <1>15 DEF AwaitsPool, PoolEmpty, Goto, Links, Shape, PcShape, Threads
  <2> QED
    BY <2>1 DEF CountedIrps, Bit, Links, Shape, PcShape, Threads
<1>16. ASSUME LooksAgain PROVE CountedIrps'
  <2>1. /\ UNCHANGED <<irp, outstanding>> /\ pc' = [pc EXCEPT !["main"] = pc'["main"]]
        /\ pc["main"] \notin {"decrement", "postAhead", "readAhead"}
        /\ pc'["main"] \notin {"decrement", "postAhead", "readAhead"}
    BY <1>16 DEF LooksAgain, AwaitPoolBuffer, Goto, Links, Shape, PcShape, Threads
  <2> QED
    BY <2>1 DEF CountedIrps, Bit, Links, Shape, PcShape, Threads
<1>17. ASSUME Refuse PROVE CountedIrps'
  <2>1. /\ UNCHANGED <<irp, outstanding>> /\ pc' = [pc EXCEPT !["main"] = pc'["main"]]
        /\ pc["main"] \notin {"decrement", "postAhead", "readAhead"}
        /\ pc'["main"] \notin {"decrement", "postAhead", "readAhead"}
    BY <1>17 DEF Refuse, GetItem, Goto, Links, Shape, PcShape, Threads
  <2> QED
    BY <2>1 DEF CountedIrps, Bit, Links, Shape, PcShape, Threads
<1>18. ASSUME Protect PROVE CountedIrps'
  <2>1. /\ UNCHANGED <<irp, outstanding>> /\ pc' = [pc EXCEPT !["main"] = pc'["main"]]
        /\ pc["main"] \notin {"decrement", "postAhead", "readAhead"}
        /\ pc'["main"] \notin {"decrement", "postAhead", "readAhead"}
    BY <1>18 DEF Protect, GetItem, Goto, Links, Shape, PcShape, Threads
  <2> QED
    BY <2>1 DEF CountedIrps, Bit, Links, Shape, PcShape, Threads
<1>19. ASSUME Accept PROVE CountedIrps'
  <2>1. /\ UNCHANGED <<irp, outstanding>> /\ pc' = [pc EXCEPT !["main"] = pc'["main"]]
        /\ pc["main"] \notin {"decrement", "postAhead", "readAhead"}
        /\ pc'["main"] \notin {"decrement", "postAhead", "readAhead"}
    BY <1>19 DEF Accept, GetItem, Goto, Links, Shape, PcShape, Threads
  <2> QED
    BY <2>1 DEF CountedIrps, Bit, Links, Shape, PcShape, Threads
<1>20. ASSUME ReadMisaligned PROVE CountedIrps'
  <2>1. /\ UNCHANGED <<irp, outstanding>> /\ pc' = [pc EXCEPT !["main"] = pc'["main"]]
        /\ pc["main"] \notin {"decrement", "postAhead", "readAhead"}
        /\ pc'["main"] \notin {"decrement", "postAhead", "readAhead"}
    BY <1>20 DEF ReadMisaligned, Goto, Links, Shape, PcShape, Threads
  <2> QED
    BY <2>1 DEF CountedIrps, Bit, Links, Shape, PcShape, Threads
<1>21. ASSUME DecryptMisaligned PROVE CountedIrps'
  <2>1. /\ UNCHANGED <<irp, outstanding>> /\ pc' = [pc EXCEPT !["main"] = pc'["main"]]
        /\ pc["main"] \notin {"decrement", "postAhead", "readAhead"}
        /\ pc'["main"] \notin {"decrement", "postAhead", "readAhead"}
    BY <1>21 DEF DecryptMisaligned, Goto, Links, Shape, PcShape, Threads
  <2> QED
    BY <2>1 DEF CountedIrps, Bit, Links, Shape, PcShape, Threads
<1>22. ASSUME NextFragment PROVE CountedIrps'
  <2>1. /\ UNCHANGED <<irp, outstanding>> /\ pc' = [pc EXCEPT !["main"] = pc'["main"]]
        /\ pc["main"] \notin {"decrement", "postAhead", "readAhead"}
        /\ pc'["main"] \notin {"decrement", "postAhead", "readAhead"}
    BY <1>22 DEF NextFragment, Goto, Links, Shape, PcShape, Threads
  <2> QED
    BY <2>1 DEF CountedIrps, Bit, Links, Shape, PcShape, Threads
<1>23. ASSUME GetRequest PROVE CountedIrps'
  <2>1. /\ UNCHANGED <<irp, outstanding>> /\ pc' = [pc EXCEPT !["main"] = pc'["main"]]
        /\ pc["main"] \notin {"decrement", "postAhead", "readAhead"}
        /\ pc'["main"] \notin {"decrement", "postAhead", "readAhead"}
    BY <1>23 DEF GetRequest, Goto, Links, Shape, PcShape, Threads
  <2> QED
    BY <2>1 DEF CountedIrps, Bit, Links, Shape, PcShape, Threads
<1>24. ASSUME FillFragment PROVE CountedIrps'
  <2>1. /\ UNCHANGED <<irp, outstanding>> /\ pc' = [pc EXCEPT !["main"] = pc'["main"]]
        /\ pc["main"] \notin {"decrement", "postAhead", "readAhead"}
        /\ pc'["main"] \notin {"decrement", "postAhead", "readAhead"}
    BY <1>24 DEF FillFragment, Goto, Links, Shape, PcShape, Threads
  <2> QED
    BY <2>1 DEF CountedIrps, Bit, Links, Shape, PcShape, Threads
<1>25. ASSUME QueueFragment PROVE CountedIrps'
  <2>1. /\ UNCHANGED <<irp, outstanding>> /\ pc' = [pc EXCEPT !["main"] = pc'["main"]]
        /\ pc["main"] \notin {"decrement", "postAhead", "readAhead"}
        /\ pc'["main"] \notin {"decrement", "postAhead", "readAhead"}
    BY <1>25 DEF QueueFragment, Goto, Links, Shape, PcShape, Threads
  <2> QED
    BY <2>1 DEF CountedIrps, Bit, Links, Shape, PcShape, Threads
<1>26. ASSUME TakeRequest PROVE CountedIrps'
  <2>1. /\ UNCHANGED <<irp, outstanding>> /\ pc' = [pc EXCEPT !["io"] = pc'["io"]]
        /\ pc["io"] \notin {"decrement", "postAhead", "readAhead"}
        /\ pc'["io"] \notin {"decrement", "postAhead", "readAhead"}
    BY <1>26 DEF TakeRequest, Goto, Links, Shape, PcShape, Threads
  <2> QED
    BY <2>1 DEF CountedIrps, Bit, Links, Shape, PcShape, Threads
<1>27. ASSUME DoPiece PROVE CountedIrps'
  <2>1. /\ UNCHANGED <<irp, outstanding>> /\ pc' = [pc EXCEPT !["io"] = pc'["io"]]
        /\ pc["io"] \notin {"decrement", "postAhead", "readAhead"}
        /\ pc'["io"] \notin {"decrement", "postAhead", "readAhead"}
    BY <1>27 DEF DoPiece, Goto, Links, Shape, PcShape, Threads
  <2> QED
    BY <2>1 DEF CountedIrps, Bit, Links, Shape, PcShape, Threads
<1>28. ASSUME WriteDone PROVE CountedIrps'
  <2>1. /\ UNCHANGED <<irp, outstanding>> /\ pc' = [pc EXCEPT !["io"] = pc'["io"]]
        /\ pc["io"] \notin {"decrement", "postAhead", "readAhead"}
        /\ pc'["io"] \notin {"decrement", "postAhead", "readAhead"}
    BY <1>28 DEF WriteDone, Goto, AfterRequest, ReleaseFragmentBuffer, Links, Shape, PcShape,
       Threads
  <2> QED
    BY <2>1 DEF CountedIrps, Bit, Links, Shape, PcShape, Threads
<1>29. ASSUME ReadDone PROVE CountedIrps'
  <2>1. /\ irp' = irp /\ pc["io"] = "done" /\ pc' = [pc EXCEPT !["io"] = pc'["io"]]
        /\ \/ pc'["io"] = "postAhead" /\ outstanding' = outstanding + 1
           \/ pc'["io"] = "post" /\ outstanding' = outstanding
    BY <1>29 DEF ReadDone, Goto, CountAhead, Links, Shape, PcShape, Threads
  <2> QED
    BY <2>1, PendingCount DEF CountedIrps, Bit, Links, Shape, PcShape, NumberShape, Threads
<1>30. ASSUME PassesOn PROVE CountedIrps'
  <2>1. /\ UNCHANGED <<irp, outstanding>> /\ pc' = [pc EXCEPT !["io"] = pc'["io"]]
        /\ pc["io"] \in {"postAhead", "readAhead"} <=> pc'["io"] \in {"readAhead", "decrement"}
        /\ pc["io"] # "decrement" /\ pc'["io"] # "postAhead"
    BY <1>30 DEF PassesOn, PostCompletion, Goto, Links, Shape, PcShape, Threads
  <2> QED
    BY <2>1 DEF CountedIrps, Bit, Links, Shape, PcShape, Threads
<1>31. ASSUME ReadAhead PROVE CountedIrps'
  <2>1. /\ UNCHANGED <<irp, outstanding>> /\ pc' = [pc EXCEPT !["io"] = pc'["io"]]
        /\ pc["io"] \in {"postAhead", "readAhead"} <=> pc'["io"] \in {"readAhead", "decrement"}
        /\ pc["io"] # "decrement" /\ pc'["io"] # "postAhead"
    BY <1>31 DEF ReadAhead, Goto, Links, Shape, PcShape, Threads
  <2> QED
    BY <2>1 DEF CountedIrps, Bit, Links, Shape, PcShape, Threads
<1>32. ASSUME DecryptFragment PROVE CountedIrps'
  <2>1. /\ UNCHANGED <<irp, outstanding>> /\ pc' = [pc EXCEPT !["completion"] = pc'["completion"]]
        /\ pc["completion"] \notin {"decrement", "postAhead", "readAhead"}
        /\ pc'["completion"] \notin {"decrement", "postAhead", "readAhead"}
    BY ZenonT(60), <1>32 DEF DecryptFragment, Goto, AfterRequest, Links, Shape, PcShape, Threads
  <2> QED
    BY SMTT(60), <2>1 DEF CountedIrps, Bit, Links, Shape, PcShape, Threads
<1>33. CASE UNCHANGED coreVars
  BY <1>33, PendingCount DEF CountedIrps, coreVars
<1> QED
  BY StepCases, <1>1, <1>2, <1>3, <1>4, <1>5, <1>6, <1>7, <1>8, <1>9, <1>10, <1>11, <1>12, <1>13,
     <1>14, <1>15, <1>16, <1>17, <1>18, <1>19, <1>20, <1>21, <1>22, <1>23, <1>24, <1>25, <1>26,
     <1>27, <1>28, <1>29, <1>30, <1>31, <1>32, <1>33


(* ... of fragments ahead of the I/O thread ...                            *)
LEMMA CountedFragmentsStep ==
  ASSUME Links, CountedFragments, AnyStep
  PROVE  CountedFragments'
<1> USE DEF irpVars, queueVars, poolVars, handVars, mainVars, fragmentVars, ioVars, pipeVars,
            countVars, diskVars, outerVars
<1>1. ASSUME NEW i \in Irps, NEW op \in {"read", "write", "skewed"}, NEW first \in Nat,
             NEW len \in Nat, Issue(i, op, first, len)
      PROVE  CountedFragments'
  BY <1>1, Links DEF Issue, IGoto, CountedFragments, Bit, Cutting, Links, Shape, PcShape,
     QueueShape, NumberShape, Threads
<1>2. ASSUME NEW i \in Irps, AddIrp(i) PROVE CountedFragments'
  BY <1>2, Links DEF AddIrp, IGoto, CountedFragments, Bit, Cutting, Links, Shape, PcShape,
     QueueShape, NumberShape, Threads
<1>3. ASSUME NEW i \in Irps, Reject(i) PROVE CountedFragments'
  BY <1>3, Links DEF Reject, IGoto, CountedFragments, Bit, Cutting, Links, Shape, PcShape,
     QueueShape, NumberShape, Threads
<1>4. ASSUME NEW i \in Irps, RejectSignal(i) PROVE CountedFragments'
  BY <1>4, Links DEF RejectSignal, IGoto, CountedFragments, Bit, Cutting, Links, Shape, PcShape,
     QueueShape, NumberShape, Threads
<1>5. ASSUME NEW t \in Threads, Wake(t) PROVE CountedFragments'
  <2>1. /\ UNCHANGED <<queue, pending>> /\ pc' = [pc EXCEPT ![t] = pc'[t]]
        /\ pc[t] \notin Cutting /\ pc'[t] \notin Cutting
    BY <1>5 DEF Wake, Goto, Links, Shape, PcShape, Threads, Cutting
  <2> QED
    BY <2>1 DEF CountedFragments, Bit, Links, Shape, PcShape, Threads
<1>6. ASSUME NEW t \in Threads, Drained(t) PROVE CountedFragments'
  <2>1. /\ UNCHANGED <<queue, pending>> /\ pc' = [pc EXCEPT ![t] = pc'[t]]
        /\ pc[t] \notin Cutting /\ pc'[t] \notin Cutting
    BY <1>6 DEF Drained, Goto, Links, Shape, PcShape, Threads, Cutting
  <2> QED
    BY <2>1 DEF CountedFragments, Bit, Links, Shape, PcShape, Threads
<1>7. ASSUME NEW t \in Threads, CompleteIrp(t) PROVE CountedFragments'
  <2>1. /\ UNCHANGED <<queue, pending>> /\ pc' = [pc EXCEPT ![t] = pc'[t]]
        /\ pc[t] \notin Cutting /\ pc'[t] \notin Cutting
    BY <1>7 DEF CompleteIrp, Goto, Links, Shape, PcShape, Threads, Cutting
  <2> QED
    BY <2>1 DEF CountedFragments, Bit, Links, Shape, PcShape, Threads
<1>8. ASSUME NEW t \in Threads, Decrement(t) PROVE CountedFragments'
  <2>1. /\ UNCHANGED <<queue, pending>> /\ pc' = [pc EXCEPT ![t] = pc'[t]]
        /\ pc[t] \notin Cutting /\ pc'[t] \notin Cutting
    BY <1>8 DEF Decrement, Goto, AfterDecrement, Links, Shape, PcShape, Threads, Cutting
  <2> QED
    BY <2>1 DEF CountedFragments, Bit, Links, Shape, PcShape, Threads
<1>9. ASSUME NEW t \in Threads, SignalIdle(t) PROVE CountedFragments'
  <2>1. /\ UNCHANGED <<queue, pending>> /\ pc' = [pc EXCEPT ![t] = pc'[t]]
        /\ pc[t] \notin Cutting /\ pc'[t] \notin Cutting
    BY <1>9 DEF SignalIdle, Goto, AfterDecrement, Links, Shape, PcShape, Threads, Cutting
  <2> QED
    BY <2>1 DEF CountedFragments, Bit, Links, Shape, PcShape, Threads
<1>10. ASSUME NEW t \in Threads, ReleaseItem(t) PROVE CountedFragments'
  <2>1. /\ UNCHANGED <<queue, pending>> /\ pc' = [pc EXCEPT ![t] = pc'[t]]
        /\ pc[t] \notin Cutting /\ pc'[t] \notin Cutting
    BY <1>10 DEF ReleaseItem, Goto, Links, Shape, PcShape, Threads, Cutting
  <2> QED
    BY <2>1 DEF CountedFragments, Bit, Links, Shape, PcShape, Threads
<1>11. ASSUME NEW t \in Threads, ReleaseRequest(t) PROVE CountedFragments'
  <2>1. /\ UNCHANGED <<queue, pending>> /\ pc' = [pc EXCEPT ![t] = pc'[t]]
        /\ pc[t] \notin Cutting /\ pc'[t] \notin Cutting
    BY <1>11 DEF ReleaseRequest, Goto, Links, Shape, PcShape, Threads, Cutting
  <2> QED
    BY <2>1 DEF CountedFragments, Bit, Links, Shape, PcShape, Threads
<1>12. ASSUME TakeIrp PROVE CountedFragments'
  <2>1. /\ queue'["io"] = queue["io"] /\ pending' = pending
             /\ pc' = [pc EXCEPT !["main"] = pc'["main"]]
        /\ pc["main"] \notin Cutting \ {"fragment"} /\ pc'["main"] \notin Cutting \ {"fragment"}
    BY <1>12 DEF TakeIrp, Goto, Links, Shape, PcShape, QueueShape, Threads, Cutting
  <2> QED
    BY <2>1 DEF CountedFragments, Bit
<1>13. ASSUME TestSuspended PROVE CountedFragments'
  <2>1. /\ queue'["io"] = queue["io"] /\ pending' = pending
             /\ pc' = [pc EXCEPT !["main"] = pc'["main"]]
        /\ pc["main"] \notin Cutting \ {"fragment"} /\ pc'["main"] \notin Cutting \ {"fragment"}
    BY <1>13 DEF TestSuspended, Goto, Links, Shape, PcShape, QueueShape, Threads, Cutting
  <2> QED
    BY <2>1 DEF CountedFragments, Bit
<1>14. ASSUME AwaitResume PROVE CountedFragments'
  <2>1. /\ queue'["io"] = queue["io"] /\ pending' = pending
             /\ pc' = [pc EXCEPT !["main"] = pc'["main"]]
        /\ pc["main"] \notin Cutting \ {"fragment"} /\ pc'["main"] \notin Cutting \ {"fragment"}
    BY <1>14 DEF AwaitResume, Goto, Links, Shape, PcShape, QueueShape, Threads, Cutting
  <2> QED
    BY <2>1 DEF CountedFragments, Bit
<1>15. ASSUME AwaitsPool PROVE CountedFragments'
  <2>1. /\ UNCHANGED <<queue, pending>> /\ pc' = [pc EXCEPT !["main"] = pc'["main"]]
        /\ pc["main"] \in Cutting \ {"fragment"} <=> pc'["main"] \in Cutting \ {"fragment"}
    BY <1>15 DEF AwaitsPool, PoolEmpty, Goto, Links, Shape, PcShape, Threads, Cutting
  <2> QED
    BY <2>1 DEF CountedFragments, Bit
<1>16. ASSUME LooksAgain PROVE CountedFragments'
  <2>1. /\ UNCHANGED <<queue, pending>> /\ pc' = [pc EXCEPT !["main"] = pc'["main"]]
        /\ pc["main"] \in Cutting \ {"fragment"} <=> pc'["main"] \in Cutting \ {"fragment"}
    BY <1>16 DEF LooksAgain, AwaitPoolBuffer, Goto, Links, Shape, PcShape, Threads, Cutting
  <2> QED
    BY <2>1 DEF CountedFragments, Bit
<1>17. ASSUME Refuse PROVE CountedFragments'
  <2>1. /\ queue'["io"] = queue["io"] /\ pending' = pending
             /\ pc' = [pc EXCEPT !["main"] = pc'["main"]]
        /\ pc["main"] \notin Cutting \ {"fragment"} /\ pc'["main"] \notin Cutting \ {"fragment"}
    BY <1>17 DEF Refuse, GetItem, Goto, Links, Shape, PcShape, QueueShape, Threads, Cutting
  <2> QED
    BY <2>1 DEF CountedFragments, Bit
<1>18. ASSUME Protect PROVE CountedFragments'
  <2>1. /\ queue'["io"] = queue["io"] /\ pending' = pending
             /\ pc' = [pc EXCEPT !["main"] = pc'["main"]]
        /\ pc["main"] \notin Cutting \ {"fragment"} /\ pc'["main"] \notin Cutting \ {"fragment"}
    BY <1>18 DEF Protect, GetItem, Goto, Links, Shape, PcShape, QueueShape, Threads, Cutting
  <2> QED
    BY <2>1 DEF CountedFragments, Bit
<1>19. ASSUME Accept PROVE CountedFragments'
  <2>1. /\ queue'["io"] = queue["io"] /\ pending' = pending
             /\ pc' = [pc EXCEPT !["main"] = pc'["main"]]
        /\ pc["main"] \notin Cutting \ {"fragment"} /\ pc'["main"] \notin Cutting \ {"fragment"}
    BY <1>19 DEF Accept, GetItem, Goto, Links, Shape, PcShape, QueueShape, Threads, Cutting
  <2> QED
    BY <2>1 DEF CountedFragments, Bit
<1>20. ASSUME ReadMisaligned PROVE CountedFragments'
  <2>1. /\ queue'["io"] = queue["io"] /\ pending' = pending
             /\ pc' = [pc EXCEPT !["main"] = pc'["main"]]
        /\ pc["main"] \notin Cutting \ {"fragment"} /\ pc'["main"] \notin Cutting \ {"fragment"}
    BY <1>20 DEF ReadMisaligned, Goto, Links, Shape, PcShape, QueueShape, Threads, Cutting
  <2> QED
    BY <2>1 DEF CountedFragments, Bit
<1>21. ASSUME DecryptMisaligned PROVE CountedFragments'
  <2>1. /\ queue'["io"] = queue["io"] /\ pending' = pending
             /\ pc' = [pc EXCEPT !["main"] = pc'["main"]]
        /\ pc["main"] \notin Cutting \ {"fragment"} /\ pc'["main"] \notin Cutting \ {"fragment"}
    BY <1>21 DEF DecryptMisaligned, Goto, Links, Shape, PcShape, QueueShape, Threads, Cutting
  <2> QED
    BY <2>1 DEF CountedFragments, Bit
<1>22. ASSUME NextFragment PROVE CountedFragments'
  BY <1>22, Links DEF NextFragment, Goto, CountedFragments, Bit, Cutting, Links, Shape, PcShape,
     QueueShape, NumberShape, Threads
<1>23. ASSUME GetRequest PROVE CountedFragments'
  <2>1. /\ UNCHANGED <<queue, pending>> /\ pc' = [pc EXCEPT !["main"] = pc'["main"]]
        /\ pc["main"] \in Cutting \ {"fragment"} <=> pc'["main"] \in Cutting \ {"fragment"}
    BY <1>23 DEF GetRequest, Goto, Links, Shape, PcShape, Threads, Cutting
  <2> QED
    BY <2>1 DEF CountedFragments, Bit
<1>24. ASSUME FillFragment PROVE CountedFragments'
  <2>1. /\ UNCHANGED <<queue, pending>> /\ pc' = [pc EXCEPT !["main"] = pc'["main"]]
        /\ pc["main"] \in Cutting \ {"fragment"} <=> pc'["main"] \in Cutting \ {"fragment"}
    BY <1>24 DEF FillFragment, Goto, Links, Shape, PcShape, Threads, Cutting
  <2> QED
    BY <2>1 DEF CountedFragments, Bit
<1>25. ASSUME QueueFragment PROVE CountedFragments'
  BY <1>25, Links DEF QueueFragment, Goto, CountedFragments, Bit, Cutting, Links, Shape, PcShape,
     QueueShape, NumberShape, Threads
<1>26. ASSUME TakeRequest PROVE CountedFragments'
  BY <1>26, Links DEF TakeRequest, Goto, CountedFragments, Bit, Cutting, Links, Shape, PcShape,
     QueueShape, NumberShape, Threads
<1>27. ASSUME DoPiece PROVE CountedFragments'
  <2>1. /\ queue'["io"] = queue["io"] /\ pending' = pending /\ pc'["main"] = pc["main"]
    BY <1>27 DEF DoPiece, Goto, Links, Shape, PcShape, QueueShape, Threads
  <2> QED
    BY <2>1 DEF CountedFragments
<1>28. ASSUME WriteDone PROVE CountedFragments'
  <2>1. /\ queue'["io"] = queue["io"] /\ pending' = pending /\ pc'["main"] = pc["main"]
    BY <1>28 DEF WriteDone, Goto, AfterRequest, ReleaseFragmentBuffer, Links, Shape, PcShape,
       QueueShape, Threads
  <2> QED
    BY <2>1 DEF CountedFragments
<1>29. ASSUME ReadDone PROVE CountedFragments'
  <2>1. /\ queue'["io"] = queue["io"] /\ pending' = pending /\ pc'["main"] = pc["main"]
    BY <1>29 DEF ReadDone, Goto, ReleaseFragmentBuffer, Links, Shape, PcShape, QueueShape, Threads
  <2> QED
    BY <2>1 DEF CountedFragments
<1>30. ASSUME PassesOn PROVE CountedFragments'
  <2>1. /\ queue'["io"] = queue["io"] /\ pending' = pending /\ pc'["main"] = pc["main"]
    BY <1>30 DEF PassesOn, PostCompletion, Goto, Links, Shape, PcShape, QueueShape, Threads
  <2> QED
    BY <2>1 DEF CountedFragments
<1>31. ASSUME ReadAhead PROVE CountedFragments'
  <2>1. /\ queue'["io"] = queue["io"] /\ pending' = pending /\ pc'["main"] = pc["main"]
    BY SMTT(60), <1>31 DEF ReadAhead, Goto, Links, Shape, PcShape, QueueShape, Threads
  <2> QED
    BY <2>1 DEF CountedFragments
<1>32. ASSUME DecryptFragment PROVE CountedFragments'
  <2>1. /\ queue'["io"] = queue["io"] /\ pending' = pending /\ pc'["main"] = pc["main"]
    BY <1>32 DEF DecryptFragment, Goto, AfterRequest, Links, Shape, PcShape, QueueShape, Threads
  <2> QED
    BY <2>1 DEF CountedFragments
<1>33. CASE UNCHANGED coreVars
  BY <1>33, Links DEF CountedFragments, Bit, Cutting, Links, Shape, PcShape, QueueShape,
     NumberShape, Threads, coreVars
<1> QED
  BY StepCases, <1>1, <1>2, <1>3, <1>4, <1>5, <1>6, <1>7, <1>8, <1>9, <1>10, <1>11, <1>12, <1>13,
     <1>14, <1>15, <1>16, <1>17, <1>18, <1>19, <1>20, <1>21, <1>22, <1>23, <1>24, <1>25, <1>26,
     <1>27, <1>28, <1>29, <1>30, <1>31, <1>32, <1>33


(* ... and of requests.                                                    *)
LEMMA CountedRequestsStep ==
  ASSUME Links, CountedRequests, AnyStep
  PROVE  CountedRequests'
<1> USE DEF irpVars, queueVars, poolVars, handVars, mainVars, fragmentVars, ioVars, pipeVars,
            countVars, diskVars, outerVars
<1>1. ASSUME NEW i \in Irps, AddIrp(i) PROVE CountedRequests'
  <2>1. UNCHANGED <<queue["io"], queue["completion"], freeRequests, req>>
    BY <1>1 DEF AddIrp, IGoto, Links, Shape, QueueShape, Threads
  <2> QED
    BY <2>1 DEF CountedRequests
<1>2. ASSUME TakeIrp PROVE CountedRequests'
  <2>1. UNCHANGED <<queue["io"], queue["completion"], freeRequests, req>>
    BY <1>2 DEF TakeIrp, Goto, Links, Shape, QueueShape, Threads
  <2> QED
    BY <2>1 DEF CountedRequests
<1>3. ASSUME NEW t \in Threads, ReleaseRequest(t) PROVE CountedRequests'
  <2>1. /\ queue' = queue /\ freeRequests' = freeRequests + 1
        /\ req' = [req EXCEPT ![t] = NoIoRequest] /\ NoIoRequest.item = 0
        /\ req[t].item # 0 /\ req \in [Threads -> Requests] /\ t \in Threads
    BY <1>3, NoRequestFacts DEF ReleaseRequest, Goto, Links, Shape, PcShape, RequestShape, Hands,
       Threads, MainPcs, Resting, MainTakes, MainOwns, Cutting, Ending
  <2>2. Waiting(queue["io"]) \in Nat /\ Waiting(queue["completion"]) \in Nat
        /\ freeRequests \in Int
    BY DEF Waiting, Links, Shape, QueueShape, NumberShape
  <2>3. InHand(req') = InHand(req) - 1 /\ InHand(req) \in Int
    BY <2>1 DEF InHand, Bit, Threads
  <2> QED
    BY <2>1, <2>2, <2>3, QueueAssumption DEF CountedRequests
<1>4. ASSUME GetRequest PROVE CountedRequests'
  <2>1. /\ queue' = queue /\ freeRequests' = freeRequests - 1
        /\ req' = [req EXCEPT !["main"] = req'["main"]] /\ req'["main"].item # 0
        /\ req["main"].item = 0 /\ req \in [Threads -> Requests]
    BY <1>4 DEF GetRequest, Goto, Links, Shape, RequestShape, Hands, Threads, MainOwns, Cutting
  <2>2. UNCHANGED <<req["io"], req["completion"]>>
    BY <2>1 DEF Threads
  <2>3. Waiting(queue["io"]) \in Nat /\ Waiting(queue["completion"]) \in Nat
        /\ freeRequests \in Int
    BY DEF Waiting, Links, Shape, QueueShape, NumberShape
  <2>4. InHand(req') = InHand(req) + 1 /\ InHand(req) \in Int
    BY <2>1, <2>2 DEF InHand, Bit, Threads
  <2> QED
    BY <2>1, <2>2, <2>3, <2>4, QueueAssumption DEF CountedRequests
<1>5. ASSUME QueueFragment PROVE CountedRequests'
  <2>1. /\ queue["io"] \in Seq(Requests) /\ queue["completion"] \in Seq(Requests)
        /\ req \in [Threads -> Requests]
    BY DEF Links, Shape, QueueShape, RequestShape
  <2>2. freeRequests' = freeRequests
    BY <1>5 DEF QueueFragment, Goto
  <2>3. /\ Waiting(queue'["io"]) = Waiting(queue["io"]) + 1
        /\ queue'["completion"] = queue["completion"]
    BY <2>1, <1>5, QueueFragmentMoves, Appended DEF Waiting, Threads
  <2>4. /\ req["main"].item # 0 /\ req'["main"].item = 0
        /\ \A u \in Threads : u # "main" => req'[u] = req[u]
    BY <2>1, <1>5, QueueFragmentMoves, NoRequestFacts, QueueAssumption
       DEF Items, Links, Used, Threads
  <2>5. Waiting(queue["io"]) \in Nat /\ Waiting(queue["completion"]) \in Nat
        /\ freeRequests \in Int
    BY DEF Waiting, Links, Shape, QueueShape, NumberShape
  <2>6. InHand(req') = InHand(req) - 1 /\ InHand(req) \in Int
    BY <2>2, <2>3, <2>4 DEF InHand, Bit, Threads
  <2> QED
    BY <2>2, <2>3, <2>4, <2>5, <2>6, QueueAssumption DEF CountedRequests
<1>6. ASSUME TakeRequest PROVE CountedRequests'
  <2>1. /\ queue["io"] \in Seq(Requests) /\ queue["completion"] \in Seq(Requests)
        /\ req \in [Threads -> Requests]
    BY DEF Links, Shape, QueueShape, RequestShape
  <2>2. freeRequests' = freeRequests
    BY <1>6 DEF TakeRequest, Goto
  <2>3. /\ Waiting(queue'["io"]) = Waiting(queue["io"]) - 1
        /\ queue'["completion"] = queue["completion"]
    BY <2>1, <1>6, TakeRequestMoves, Removed DEF Waiting, Threads
  <2>4. /\ req["io"].item = 0 /\ req'["io"].item # 0
        /\ \A u \in Threads : u # "io" => req'[u] = req[u]
    BY <2>1, <1>6, TakeRequestMoves, NoRequestFacts, QueueAssumption
       DEF Items, Links, Used, Threads
  <2>5. Waiting(queue["io"]) \in Nat /\ Waiting(queue["completion"]) \in Nat
        /\ freeRequests \in Int
    BY DEF Waiting, Links, Shape, QueueShape, NumberShape
  <2>6. InHand(req') = InHand(req) + 1 /\ InHand(req) \in Int
    BY <2>2, <2>3, <2>4 DEF InHand, Bit, Threads
  <2> QED
    BY <2>2, <2>3, <2>4, <2>5, <2>6, QueueAssumption DEF CountedRequests
<1>7. ASSUME PassesOn PROVE CountedRequests'
  <2>1. /\ queue["io"] \in Seq(Requests) /\ queue["completion"] \in Seq(Requests)
        /\ req \in [Threads -> Requests]
    BY DEF Links, Shape, QueueShape, RequestShape
  <2>2. freeRequests' = freeRequests
    BY <1>7 DEF PassesOn, PostCompletion, Goto
  <2>3. /\ Waiting(queue'["completion"]) = Waiting(queue["completion"]) + 1
        /\ queue'["io"] = queue["io"]
    BY <2>1, <1>7, PassesOnMoves, Appended DEF Waiting, Threads
  <2>4. /\ req["io"].item # 0 /\ req'["io"].item = 0
        /\ \A u \in Threads : u # "io" => req'[u] = req[u]
    BY <2>1, <1>7, PassesOnMoves, NoRequestFacts, QueueAssumption DEF Items, Links, Used, Threads
  <2>5. Waiting(queue["io"]) \in Nat /\ Waiting(queue["completion"]) \in Nat
        /\ freeRequests \in Int
    BY DEF Waiting, Links, Shape, QueueShape, NumberShape
  <2>6. InHand(req') = InHand(req) - 1 /\ InHand(req) \in Int
    BY <2>2, <2>3, <2>4 DEF InHand, Bit, Threads
  <2> QED
    BY <2>2, <2>3, <2>4, <2>5, <2>6, QueueAssumption DEF CountedRequests
<1>8. ASSUME DecryptFragment PROVE CountedRequests'
  <2>1. /\ queue["io"] \in Seq(Requests) /\ queue["completion"] \in Seq(Requests)
        /\ req \in [Threads -> Requests]
    BY DEF Links, Shape, QueueShape, RequestShape
  <2>2. freeRequests' = freeRequests
    BY <1>8 DEF DecryptFragment, Goto, AfterRequest
  <2>3. /\ Waiting(queue'["completion"]) = Waiting(queue["completion"]) - 1
        /\ queue'["io"] = queue["io"]
    BY <2>1, <1>8, DecryptFragmentMoves, Removed DEF Waiting, Threads
  <2>4. /\ req["completion"].item = 0 /\ req'["completion"].item # 0
        /\ \A u \in Threads : u # "completion" => req'[u] = req[u]
    BY <2>1, <1>8, DecryptFragmentMoves, NoRequestFacts, QueueAssumption
       DEF Items, Links, Used, Threads
  <2>5. Waiting(queue["io"]) \in Nat /\ Waiting(queue["completion"]) \in Nat
        /\ freeRequests \in Int
    BY DEF Waiting, Links, Shape, QueueShape, NumberShape
  <2>6. InHand(req') = InHand(req) + 1 /\ InHand(req) \in Int
    BY <2>2, <2>3, <2>4 DEF InHand, Bit, Threads
  <2> QED
    BY SMTT(60), <2>2, <2>3, <2>4, <2>5, <2>6, QueueAssumption DEF CountedRequests
<1>9. CASE UNCHANGED <<freeRequests, req, queue>>
  BY <1>9, Links DEF CountedRequests
<1> QED
  BY RequestsFrame, <1>1, <1>2, <1>3, <1>4, <1>5, <1>6, <1>7, <1>8, <1>9


(* Quiet stays while the main thread is kept from taking an IRP further.   *)
LEMMA QuietStep ==
  ASSUME Links, Quiet, Paused, AnyStep
  PROVE  Quiet'
<1> USE DEF irpVars, queueVars, poolVars, handVars, mainVars, fragmentVars, ioVars, pipeVars,
            countVars, diskVars, outerVars
<1>1. ASSUME NEW i \in Irps, NEW op \in {"read", "write", "skewed"}, NEW first \in Nat,
             NEW len \in Nat, Issue(i, op, first, len)
      PROVE  Quiet'
  BY <1>1, Links DEF Issue, IGoto, Quiet, Still, Paused, Links, Shape, PcShape, QueueShape,
     Threads, Resting
<1>2. ASSUME NEW i \in Irps, AddIrp(i) PROVE Quiet'
  BY <1>2, Links DEF AddIrp, IGoto, Quiet, Still, Paused, Links, Shape, PcShape, QueueShape,
     Threads, Resting
<1>3. ASSUME NEW i \in Irps, Reject(i) PROVE Quiet'
  BY <1>3, Links DEF Reject, IGoto, Quiet, Still, Paused, Links, Shape, PcShape, QueueShape,
     Threads, Resting
<1>4. ASSUME NEW i \in Irps, RejectSignal(i) PROVE Quiet'
  BY <1>4, Links DEF RejectSignal, IGoto, Quiet, Still, Paused, Links, Shape, PcShape,
     QueueShape, Threads, Resting
<1>5. ASSUME NEW t \in Threads, Wake(t) PROVE Quiet'
  BY <1>5, Links DEF Wake, Goto, Quiet, Still, Paused, Links, Shape, PcShape, QueueShape,
     Threads, Resting
<1>6. ASSUME NEW t \in Threads, Drained(t) PROVE Quiet'
  BY <1>6, Links DEF Drained, Goto, Quiet, Still, Paused, Links, Shape, PcShape, QueueShape,
     Threads, Resting
<1>7. ASSUME NEW t \in Threads, CompleteIrp(t) PROVE Quiet'
  BY <1>7, Links DEF CompleteIrp, Goto, Quiet, Still, Paused, Links, Shape, PcShape, QueueShape,
     Threads, Resting
<1>8. ASSUME NEW t \in Threads, Decrement(t) PROVE Quiet'
  BY <1>8, Links DEF Decrement, Goto, AfterDecrement, Quiet, Still, Paused, Links, Shape,
     PcShape, QueueShape, Threads, Resting
<1>9. ASSUME NEW t \in Threads, SignalIdle(t) PROVE Quiet'
  <2>1. queue' = queue /\ pc' = [pc EXCEPT ![t] = pc'[t]] /\ pc'[t] \in {"pop", "releaseItem"}
    BY <1>9 DEF SignalIdle, Goto, AfterDecrement, Links, Shape, PcShape
  <2> QED
    BY <2>1 DEF Quiet, Still, Links, Shape, PcShape, Threads, Resting
<1>10. ASSUME NEW t \in Threads, ReleaseItem(t) PROVE Quiet'
  BY <1>10, Links DEF ReleaseItem, Goto, Quiet, Still, Paused, Links, Shape, PcShape, QueueShape,
     Threads, Resting
<1>11. ASSUME NEW t \in Threads, ReleaseRequest(t) PROVE Quiet'
  BY <1>11, Links DEF ReleaseRequest, Goto, Quiet, Still, Paused, Links, Shape, PcShape,
     QueueShape, Threads, Resting
<1>12. ASSUME TakeIrp PROVE Quiet'
  BY <1>12, Links DEF TakeIrp, Goto, Quiet, Still, Paused, Links, Shape, PcShape, QueueShape,
     Threads, Resting
<1>13. ASSUME TestSuspended PROVE Quiet'
  BY <1>13, Links DEF TestSuspended, Goto, Quiet, Still, Paused, Links, Shape, PcShape,
     QueueShape, Threads, Resting
<1>14. ASSUME AwaitResume PROVE Quiet'
  BY <1>14, Links DEF AwaitResume, Goto, Quiet, Still, Paused, Links, Shape, PcShape, QueueShape,
     Threads, Resting
<1>15. ASSUME AwaitsPool PROVE Quiet'
  BY <1>15, Links DEF AwaitsPool, PoolEmpty, Goto, Quiet, Still, Paused, Links, Shape, PcShape,
     QueueShape, Threads, Resting
<1>16. ASSUME LooksAgain PROVE Quiet'
  BY <1>16, Links DEF LooksAgain, AwaitPoolBuffer, Goto, Quiet, Still, Paused, Links, Shape,
     PcShape, QueueShape, Threads, Resting
<1>17. ASSUME Refuse PROVE Quiet'
  BY <1>17, Links DEF Refuse, GetItem, Goto, Quiet, Still, Paused, Links, Shape, PcShape,
     QueueShape, Threads, Resting
<1>18. ASSUME Protect PROVE Quiet'
  BY <1>18, Links DEF Protect, GetItem, Goto, Quiet, Still, Paused, Links, Shape, PcShape,
     QueueShape, Threads, Resting
<1>19. ASSUME Accept PROVE Quiet'
  BY <1>19, Links DEF Accept, GetItem, Goto, Quiet, Still, Paused, Links, Shape, PcShape,
     QueueShape, Threads, Resting
<1>20. ASSUME ReadMisaligned PROVE Quiet'
  BY <1>20, Links DEF ReadMisaligned, Goto, Quiet, Still, Paused, Links, Shape, PcShape,
     QueueShape, Threads, Resting
<1>21. ASSUME DecryptMisaligned PROVE Quiet'
  BY <1>21, Links DEF DecryptMisaligned, Goto, Quiet, Still, Paused, Links, Shape, PcShape,
     QueueShape, Threads, Resting
<1>22. ASSUME NextFragment PROVE Quiet'
  BY <1>22, Links DEF NextFragment, Goto, Quiet, Still, Paused, Links, Shape, PcShape,
     QueueShape, Threads, Resting
<1>23. ASSUME GetRequest PROVE Quiet'
  BY <1>23, Links DEF GetRequest, Goto, Quiet, Still, Paused, Links, Shape, PcShape, QueueShape,
     Threads, Resting
<1>24. ASSUME FillFragment PROVE Quiet'
  BY <1>24, Links DEF FillFragment, Goto, Quiet, Still, Paused, Links, Shape, PcShape,
     QueueShape, Threads, Resting
<1>25. ASSUME QueueFragment PROVE Quiet'
  BY <1>25, Links DEF QueueFragment, Goto, Quiet, Still, Paused, Links, Shape, PcShape,
     QueueShape, Threads, Resting
<1>26. ASSUME TakeRequest PROVE Quiet'
  BY <1>26, Links DEF TakeRequest, Goto, Quiet, Still, Paused, Links, Shape, PcShape, QueueShape,
     Threads, Resting
<1>27. ASSUME DoPiece PROVE Quiet'
  BY <1>27, Links DEF DoPiece, Goto, Quiet, Still, Paused, Links, Shape, PcShape, QueueShape,
     Threads, Resting
<1>28. ASSUME WriteDone PROVE Quiet'
  BY <1>28, Links DEF WriteDone, Goto, AfterRequest, ReleaseFragmentBuffer, Quiet, Still, Paused,
     Links, Shape, PcShape, QueueShape, Threads, Resting
<1>29. ASSUME ReadDone PROVE Quiet'
  BY <1>29, Links DEF ReadDone, Goto, ReleaseFragmentBuffer, Quiet, Still, Paused, Links, Shape,
     PcShape, QueueShape, Threads, Resting
<1>30. ASSUME PassesOn PROVE Quiet'
  BY <1>30, Links DEF PassesOn, PostCompletion, Goto, Quiet, Still, Paused, Links, Shape,
     PcShape, QueueShape, Threads, Resting
<1>31. ASSUME ReadAhead PROVE Quiet'
  BY SMTT(60), <1>31, Links DEF ReadAhead, Goto, Quiet, Still, Paused, Links, Shape, PcShape,
     QueueShape,
     Threads, Resting
<1>32. ASSUME DecryptFragment PROVE Quiet'
  BY <1>32, Links DEF DecryptFragment, Goto, AfterRequest, Quiet, Still, Paused, Links, Shape,
     PcShape, QueueShape, Threads, Resting
<1>33. CASE UNCHANGED coreVars
  BY <1>33, Links DEF Quiet, Still, Paused, Links, Shape, PcShape, QueueShape, Threads, Resting,
     coreVars
<1> QED
  BY StepCases, <1>1, <1>2, <1>3, <1>4, <1>5, <1>6, <1>7, <1>8, <1>9, <1>10, <1>11, <1>12, <1>13,
     <1>14, <1>15, <1>16, <1>17, <1>18, <1>19, <1>20, <1>21, <1>22, <1>23, <1>24, <1>25, <1>26,
     <1>27, <1>28, <1>29, <1>30, <1>31, <1>32, <1>33


(* With nothing outstanding nothing is under way.                          *)
LEMMA NothingOutstanding ==
  ASSUME Links, CountedIrps, outstanding = 0
  PROVE  Quiet /\ queue["main"] = <<>> /\ taken = NoIrp
<1>1. PendingIn(irp) = {} /\ pc["main"] # "decrement" /\ pc["completion"] # "decrement"
      /\ pc["io"] \notin {"decrement", "postAhead", "readAhead"}
  <2>1. Cardinality(PendingIn(irp)) \in Nat
    BY PendingCount
  <2>2. /\ Cardinality(PendingIn(irp)) = 0
        /\ pc["main"] # "decrement" /\ pc["completion"] # "decrement"
        /\ pc["io"] \notin {"decrement", "postAhead", "readAhead"}
    BY <2>1 DEF CountedIrps, Bit
  <2> QED
    BY <2>2, FS_EmptySet DEF CountedIrps
<1>2. \A i \in Irps : irp[i].op = "none"
  BY <1>1 DEF PendingIn
<1>3. \A k \in Items : ~Live(k)
  BY <1>2, UsedItems DEF Links, Linked, LinkedItems, Live, LiveIn, InUse
<1>4. taken = NoIrp
  BY <1>2 DEF Links, Shape, MainShape, Linked, LinkedIrps
<1>5. queue["main"] = <<>>
  <2>1. queue["main"] \in Seq(Irps)
    BY DEF Links, Shape, QueueShape
  <2>2. \A n \in 1..Len(queue["main"]) : FALSE
    BY <1>2, <2>1 DEF Links, Linked, LinkedQueue, Queued
  <2> QED
    BY <2>1, <2>2
<1>6. \A t \in {"io", "completion"} : queue[t] = <<>>
  BY <1>3, QueueHeads, Holders, LiveOnes DEF Links, Shape
<1>7. pc["main"] \in Resting \cup {"signalIdle", "releaseItem"}
  BY <1>1, <1>3, <1>4, LiveOnes, Holders
     DEF Links, Shape, PcShape, Hands, MainPcs, MainTakes, MainOwns, Cutting, Ending, Threads
<1>8. \A t \in {"io", "completion"} :
        pc[t] \in Resting \cup {"signalIdle", "releaseItem", "releaseRequest"}
  BY <1>1, <1>3, LiveOnes, Holders
     DEF Links, Shape, PcShape, Hands, IoPcs, CompletionPcs, Ending, Threads
<1> QED
  BY <1>4, <1>5, <1>6, <1>7, <1>8 DEF Quiet, Still, Threads

(* The steps of the thread that holds the queue, or lets go of it.         *)
HoldSteps == Holder \/ HoldEnter \/ ResumeFromHold

(* The steps of a thread that holds the queue.                             *)
LEMMA HoldCases ==
  ASSUME AnyStep
  PROVE  \/ UNCHANGED <<hold, suspended, queueResumed>> /\ hold = hold'
         \/ AwaitResume
         \/ HoldSteps
<1> USE DEF irpVars, queueVars, poolVars, handVars, mainVars, fragmentVars, ioVars, pipeVars,
            countVars, holdVars, stopVars, envVars, diskVars, outerVars, workVars
<1>1. CASE Elsewhere
  BY <1>1 DEF Elsewhere
<1>2. ASSUME NEW i \in Irps, Ask(i) \/ Requestor(i)
      PROVE  UNCHANGED <<hold, suspended, queueResumed>>
  BY <1>2 DEF Ask, Requestor, Issue, AddIrp, Reject, RejectSignal
<1>3. ASSUME NEW t \in Threads, Common(t)
      PROVE  UNCHANGED <<hold, suspended, queueResumed>>
  BY SMTT(60), <1>3 DEF Common, Wake, Drained, CompleteIrp, Decrement, SignalIdle, ReleaseItem,
     ReleaseRequest
<1>4. ASSUME Main
      PROVE  UNCHANGED <<hold, suspended, queueResumed>> \/ AwaitResume
  BY SMTT(60), <1>3, <1>4 DEF Main, TakeIrp, TestSuspended, PoolEmpty, AwaitPoolBuffer, Refuse,
     Protect,
     Accept, GetItem, ReadMisaligned, DecryptMisaligned, NextFragment, GetRequest, FillFragment,
     QueueFragment, Threads
<1>5. ASSUME Io
      PROVE  UNCHANGED <<hold, suspended, queueResumed>>
  BY SMTT(60), <1>3, <1>5 DEF Io, TakeRequest, DoPiece, WriteDone, ReadDone, PostCompletion,
     ReadAhead,
     Threads
<1>6. ASSUME Completion
      PROVE  UNCHANGED <<hold, suspended, queueResumed>>
  BY ZenonT(60), <1>3, <1>6 DEF Completion, DecryptFragment, Threads
<1>7. ASSUME StopBegin \/ Stop \/ Block \/ EraseKeys
      PROVE  UNCHANGED <<hold, suspended, queueResumed>>
  BY <1>7 DEF StopBegin, Stop, StopCount, StopWait, StopExit, StopNext, Block, EraseKeys
<1>8. CASE Finished
  BY <1>1, <1>8 DEF Finished, Elsewhere, vars
<1> QED
  BY <1>1, <1>2, <1>4, <1>5, <1>6, <1>7, <1>8 DEF AnyStep, QueueStep, QueueNext, HoldSteps

(* The steps of the thread that stops the queue.                           *)
LEMMA StopCases ==
  ASSUME AnyStep
  PROVE  UNCHANGED <<stop, stopPending, exitRequested>> \/ StopBegin \/ Stop
<1> USE DEF irpVars, queueVars, poolVars, handVars, mainVars, fragmentVars, ioVars, pipeVars,
            countVars, holdVars, stopVars, envVars, diskVars, outerVars, workVars
<1> DEFINE Same == UNCHANGED <<stop, stopPending, exitRequested>>
<1>1. CASE Elsewhere
  BY <1>1 DEF Elsewhere
<1>2. ASSUME NEW i \in Irps, Ask(i) \/ Requestor(i)
      PROVE  Same
  BY <1>2 DEF Ask, Requestor, Issue, AddIrp, Reject, RejectSignal
<1>3. ASSUME NEW t \in Threads, Common(t)
      PROVE  Same
  BY <1>3 DEF Common, Wake, Drained, CompleteIrp, Decrement, SignalIdle, ReleaseItem,
     ReleaseRequest
<1>4. ASSUME Main
      PROVE  Same
  BY SMTT(60), <1>3, <1>4 DEF Main, TakeIrp, TestSuspended, AwaitResume, PoolEmpty,
     AwaitPoolBuffer, Refuse,
     Protect, Accept, GetItem, ReadMisaligned, DecryptMisaligned, NextFragment, GetRequest,
     FillFragment, QueueFragment, Threads
<1>5. ASSUME Io
      PROVE  Same
  BY SMTT(60), <1>3, <1>5 DEF Io, TakeRequest, DoPiece, WriteDone, ReadDone, PostCompletion,
     ReadAhead,
     Threads
<1>6. ASSUME Completion
      PROVE  Same
  BY ZenonT(60), <1>3, <1>6 DEF Completion, DecryptFragment, Threads
<1>7. ASSUME HoldSteps \/ Block \/ EraseKeys
      PROVE  Same
  BY <1>7 DEF HoldSteps, Holder, HoldEnter, ResumeFromHold, HoldWhenIdle, HoldCount,
     HoldWait, HoldTimeout, HoldOvertaken, HoldGiveUp, HoldIdle, HoldSuspend, HoldConfirm,
     HoldRetreat, SignalResumed, Block, EraseKeys
<1>8. CASE Finished
  BY <1>1, <1>8 DEF Finished, Elsewhere, vars
<1> QED
  BY <1>1, <1>2, <1>4, <1>5, <1>6, <1>7, <1>8 DEF AnyStep, QueueStep, QueueNext, HoldSteps

(* The steps that change the read-ahead buffer.                            *)
LEMMA ReadAheadCases ==
  ASSUME AnyStep
  PROVE  UNCHANGED readAhead \/ WriteDone \/ ReadAhead \/ HoldConfirm
<1> USE DEF irpVars, queueVars, poolVars, handVars, mainVars, fragmentVars, ioVars, pipeVars,
            countVars, holdVars, stopVars, envVars, diskVars, outerVars, workVars
<1>1. CASE Elsewhere
  BY <1>1 DEF Elsewhere
<1>2. ASSUME NEW i \in Irps, Ask(i) \/ Requestor(i)
      PROVE  UNCHANGED readAhead
  BY <1>2 DEF Ask, Requestor, Issue, AddIrp, Reject, RejectSignal
<1>3. ASSUME NEW t \in Threads, Common(t)
      PROVE  UNCHANGED readAhead
  BY <1>3 DEF Common, Wake, Drained, CompleteIrp, Decrement, SignalIdle, ReleaseItem,
     ReleaseRequest
<1>4. ASSUME Main
      PROVE  UNCHANGED readAhead
  BY SMTT(60), <1>3, <1>4 DEF Main, TakeIrp, TestSuspended, AwaitResume, PoolEmpty,
     AwaitPoolBuffer, Refuse,
     Protect, Accept, GetItem, ReadMisaligned, DecryptMisaligned, NextFragment, GetRequest,
     FillFragment, QueueFragment, Threads
<1>5. ASSUME Io
      PROVE  UNCHANGED readAhead \/ WriteDone \/ ReadAhead
  BY SMTT(60), <1>3, <1>5 DEF Io, TakeRequest, DoPiece, ReadDone, PostCompletion, Threads
<1>6. ASSUME Completion
      PROVE  UNCHANGED readAhead
  BY ZenonT(60), <1>3, <1>6 DEF Completion, DecryptFragment, Threads
<1>7. ASSUME HoldSteps \/ StopBegin \/ Stop \/ Block \/ EraseKeys
      PROVE  UNCHANGED readAhead \/ HoldConfirm
  BY <1>7 DEF HoldSteps, Holder, HoldEnter, ResumeFromHold, HoldWhenIdle, HoldCount,
     HoldWait, HoldTimeout, HoldOvertaken, HoldGiveUp, HoldIdle, HoldSuspend,
     HoldRetreat, SignalResumed, Block, EraseKeys, StopBegin, Stop, StopCount, StopWait, StopExit,
     StopNext
<1>8. CASE Finished
  BY <1>1, <1>8 DEF Finished, Elsewhere, vars
<1> QED
  BY <1>1, <1>2, <1>4, <1>5, <1>6, <1>7, <1>8 DEF AnyStep, QueueStep, QueueNext, HoldSteps

(* A held queue stays quiet, whoever adds an IRP.                          *)
LEMMA HeldStep ==
  ASSUME Links, CountedIrps, HeldSafely, AnyStep
  PROVE  HeldSafely'
<1>1. CASE UNCHANGED <<hold, suspended, queueResumed>> \/ AwaitResume
  <2>1. hold' = hold /\ suspended' = suspended /\ (queueResumed' => queueResumed)
    BY <1>1 DEF AwaitResume
  <2>2. CASE hold = "held"
    <3>1. Quiet /\ Paused /\ readAhead = Empty
      BY <2>2 DEF HeldSafely, Paused
    <3>2. Quiet'
      BY <3>1, QuietStep
    <3>3. readAhead' = Empty
      <4>1. pc["io"] \notin {"done", "readAhead"}
        BY <3>1 DEF Quiet, Still, Resting, Threads
      <4>2. ~HoldConfirm /\ ~WriteDone /\ ~ReadAhead
        BY <2>2, <4>1 DEF HoldConfirm, HGoto, WriteDone, ReadAhead, Goto
      <4> QED
        BY <3>1, <4>2, ReadAheadCases
    <3>4. Empty' = Empty
      BY DEF Empty, Garbage
    <3> QED
      BY <2>1, <3>2, <3>3, <3>4 DEF HeldSafely
  <2> QED
    BY <2>1, <2>2 DEF HeldSafely
<1>2. CASE HoldConfirm
  <2>1. /\ hold = "recheck" /\ hold' = "held" /\ outstanding = 0 /\ readAhead' = Empty
        /\ UNCHANGED <<suspended, queueResumed, pc, queue>>
    BY <1>2 DEF HoldConfirm, HGoto, NobodyCameIn, queueVars
  <2>2. Quiet
    BY <2>1, NothingOutstanding
  <2>3. Empty' = Empty
    BY DEF Empty, Garbage
  <2> QED
    BY <2>1, <2>2, <2>3 DEF HeldSafely, Quiet, Still
<1>3. CASE HoldSteps /\ ~HoldConfirm
  <2>1. hold' \notin {"recheck", "held"} \/ (hold' = "recheck" /\ suspended' /\ ~queueResumed')
    BY <1>3 DEF HoldSteps, Holder, HoldEnter, ResumeFromHold, HoldWhenIdle, HoldCount,
       HoldWait, HoldTimeout, HoldOvertaken, HoldGiveUp, HoldIdle, HoldSuspend, HoldRetreat,
       SignalResumed, HGoto
  <2> QED
    BY <2>1 DEF HeldSafely
<1> QED
  BY <1>1, <1>2, <1>3, HoldCases

(* A thread that has ended stays ended, and ends only when told to.        *)
LEMMA OffStep ==
  ASSUME Links, AnyStep, NEW t \in Threads
  PROVE  /\ pc[t] = "off" => pc'[t] = "off"
         /\ pc'[t] = "off" => pc[t] = "off" \/ exitRequested
<1> USE DEF irpVars, queueVars, poolVars, handVars, mainVars, fragmentVars, ioVars, pipeVars,
            countVars, diskVars, outerVars
<1>1. ASSUME NEW i \in Irps, NEW op \in {"read", "write", "skewed"}, NEW first \in Nat,
             NEW len \in Nat, Issue(i, op, first, len)
      PROVE  (pc[t] = "off" => pc'[t] = "off")
              /\ (pc'[t] = "off" => pc[t] = "off" \/ exitRequested)
  BY <1>1 DEF Issue, IGoto, Links, Shape, PcShape, Threads
<1>2. ASSUME NEW i \in Irps, AddIrp(i)
      PROVE  (pc[t] = "off" => pc'[t] = "off")
              /\ (pc'[t] = "off" => pc[t] = "off" \/ exitRequested)
  BY <1>2 DEF AddIrp, IGoto, Links, Shape, PcShape, Threads
<1>3. ASSUME NEW i \in Irps, Reject(i)
      PROVE  (pc[t] = "off" => pc'[t] = "off")
              /\ (pc'[t] = "off" => pc[t] = "off" \/ exitRequested)
  BY <1>3 DEF Reject, IGoto, Links, Shape, PcShape, Threads
<1>4. ASSUME NEW i \in Irps, RejectSignal(i)
      PROVE  (pc[t] = "off" => pc'[t] = "off")
              /\ (pc'[t] = "off" => pc[t] = "off" \/ exitRequested)
  BY <1>4 DEF RejectSignal, IGoto, Links, Shape, PcShape, Threads
<1>5. ASSUME NEW u \in Threads, Wake(u)
      PROVE  (pc[t] = "off" => pc'[t] = "off")
              /\ (pc'[t] = "off" => pc[t] = "off" \/ exitRequested)
  BY <1>5 DEF Wake, Goto, Links, Shape, PcShape, Threads
<1>6. ASSUME NEW u \in Threads, Drained(u)
      PROVE  (pc[t] = "off" => pc'[t] = "off")
              /\ (pc'[t] = "off" => pc[t] = "off" \/ exitRequested)
  BY <1>6 DEF Drained, Goto, Links, Shape, PcShape, Threads
<1>7. ASSUME NEW u \in Threads, CompleteIrp(u)
      PROVE  (pc[t] = "off" => pc'[t] = "off")
              /\ (pc'[t] = "off" => pc[t] = "off" \/ exitRequested)
  BY <1>7 DEF CompleteIrp, Goto, Links, Shape, PcShape, Threads
<1>8. ASSUME NEW u \in Threads, Decrement(u)
      PROVE  (pc[t] = "off" => pc'[t] = "off")
              /\ (pc'[t] = "off" => pc[t] = "off" \/ exitRequested)
  BY <1>8 DEF Decrement, Goto, AfterDecrement, Links, Shape, PcShape, Threads
<1>9. ASSUME NEW u \in Threads, SignalIdle(u)
      PROVE  (pc[t] = "off" => pc'[t] = "off")
              /\ (pc'[t] = "off" => pc[t] = "off" \/ exitRequested)
  BY <1>9 DEF SignalIdle, Goto, AfterDecrement, Links, Shape, PcShape, Threads
<1>10. ASSUME NEW u \in Threads, ReleaseItem(u)
      PROVE  (pc[t] = "off" => pc'[t] = "off")
              /\ (pc'[t] = "off" => pc[t] = "off" \/ exitRequested)
  BY <1>10 DEF ReleaseItem, Goto, Links, Shape, PcShape, Threads
<1>11. ASSUME NEW u \in Threads, ReleaseRequest(u)
      PROVE  (pc[t] = "off" => pc'[t] = "off")
              /\ (pc'[t] = "off" => pc[t] = "off" \/ exitRequested)
  BY <1>11 DEF ReleaseRequest, Goto, Links, Shape, PcShape, Threads
<1>12. ASSUME TakeIrp
      PROVE  (pc[t] = "off" => pc'[t] = "off")
              /\ (pc'[t] = "off" => pc[t] = "off" \/ exitRequested)
  BY <1>12 DEF TakeIrp, Goto, Links, Shape, PcShape, Threads
<1>13. ASSUME TestSuspended
      PROVE  (pc[t] = "off" => pc'[t] = "off")
              /\ (pc'[t] = "off" => pc[t] = "off" \/ exitRequested)
  BY <1>13 DEF TestSuspended, Goto, Links, Shape, PcShape, Threads
<1>14. ASSUME AwaitResume
      PROVE  (pc[t] = "off" => pc'[t] = "off")
              /\ (pc'[t] = "off" => pc[t] = "off" \/ exitRequested)
  BY <1>14 DEF AwaitResume, Goto, Links, Shape, PcShape, Threads
<1>15. ASSUME AwaitsPool
      PROVE  (pc[t] = "off" => pc'[t] = "off")
              /\ (pc'[t] = "off" => pc[t] = "off" \/ exitRequested)
  BY <1>15 DEF AwaitsPool, PoolEmpty, Goto, Links, Shape, PcShape, Threads
<1>16. ASSUME LooksAgain
      PROVE  (pc[t] = "off" => pc'[t] = "off")
              /\ (pc'[t] = "off" => pc[t] = "off" \/ exitRequested)
  BY <1>16 DEF LooksAgain, AwaitPoolBuffer, Goto, Links, Shape, PcShape, Threads
<1>17. ASSUME Refuse
      PROVE  (pc[t] = "off" => pc'[t] = "off")
              /\ (pc'[t] = "off" => pc[t] = "off" \/ exitRequested)
  BY <1>17 DEF Refuse, GetItem, Goto, Links, Shape, PcShape, Threads
<1>18. ASSUME Protect
      PROVE  (pc[t] = "off" => pc'[t] = "off")
              /\ (pc'[t] = "off" => pc[t] = "off" \/ exitRequested)
  BY <1>18 DEF Protect, GetItem, Goto, Links, Shape, PcShape, Threads
<1>19. ASSUME Accept
      PROVE  (pc[t] = "off" => pc'[t] = "off")
              /\ (pc'[t] = "off" => pc[t] = "off" \/ exitRequested)
  BY <1>19 DEF Accept, GetItem, Goto, Links, Shape, PcShape, Threads
<1>20. ASSUME ReadMisaligned
      PROVE  (pc[t] = "off" => pc'[t] = "off")
              /\ (pc'[t] = "off" => pc[t] = "off" \/ exitRequested)
  BY <1>20 DEF ReadMisaligned, Goto, Links, Shape, PcShape, Threads
<1>21. ASSUME DecryptMisaligned
      PROVE  (pc[t] = "off" => pc'[t] = "off")
              /\ (pc'[t] = "off" => pc[t] = "off" \/ exitRequested)
  BY <1>21 DEF DecryptMisaligned, Goto, Links, Shape, PcShape, Threads
<1>22. ASSUME NextFragment
      PROVE  (pc[t] = "off" => pc'[t] = "off")
              /\ (pc'[t] = "off" => pc[t] = "off" \/ exitRequested)
  BY <1>22 DEF NextFragment, Goto, Links, Shape, PcShape, Threads
<1>23. ASSUME GetRequest
      PROVE  (pc[t] = "off" => pc'[t] = "off")
              /\ (pc'[t] = "off" => pc[t] = "off" \/ exitRequested)
  BY <1>23 DEF GetRequest, Goto, Links, Shape, PcShape, Threads
<1>24. ASSUME FillFragment
      PROVE  (pc[t] = "off" => pc'[t] = "off")
              /\ (pc'[t] = "off" => pc[t] = "off" \/ exitRequested)
  BY <1>24 DEF FillFragment, Goto, Links, Shape, PcShape, Threads
<1>25. ASSUME QueueFragment
      PROVE  (pc[t] = "off" => pc'[t] = "off")
              /\ (pc'[t] = "off" => pc[t] = "off" \/ exitRequested)
  BY <1>25 DEF QueueFragment, Goto, Links, Shape, PcShape, Threads
<1>26. ASSUME TakeRequest
      PROVE  (pc[t] = "off" => pc'[t] = "off")
              /\ (pc'[t] = "off" => pc[t] = "off" \/ exitRequested)
  BY <1>26 DEF TakeRequest, Goto, Links, Shape, PcShape, Threads
<1>27. ASSUME DoPiece
      PROVE  (pc[t] = "off" => pc'[t] = "off")
              /\ (pc'[t] = "off" => pc[t] = "off" \/ exitRequested)
  BY <1>27 DEF DoPiece, Goto, Links, Shape, PcShape, Threads
<1>28. ASSUME WriteDone
      PROVE  (pc[t] = "off" => pc'[t] = "off")
              /\ (pc'[t] = "off" => pc[t] = "off" \/ exitRequested)
  BY <1>28 DEF WriteDone, Goto, AfterRequest, ReleaseFragmentBuffer, Links, Shape, PcShape,
     Threads
<1>29. ASSUME ReadDone
      PROVE  (pc[t] = "off" => pc'[t] = "off")
              /\ (pc'[t] = "off" => pc[t] = "off" \/ exitRequested)
  BY <1>29 DEF ReadDone, Goto, ReleaseFragmentBuffer, Links, Shape, PcShape, Threads
<1>30. ASSUME PassesOn
      PROVE  (pc[t] = "off" => pc'[t] = "off")
              /\ (pc'[t] = "off" => pc[t] = "off" \/ exitRequested)
  BY <1>30 DEF PassesOn, PostCompletion, Goto, Links, Shape, PcShape, Threads
<1>31. ASSUME ReadAhead
      PROVE  (pc[t] = "off" => pc'[t] = "off")
              /\ (pc'[t] = "off" => pc[t] = "off" \/ exitRequested)
  BY SMTT(60), <1>31 DEF ReadAhead, Goto, Links, Shape, PcShape, Threads
<1>32. ASSUME DecryptFragment
      PROVE  (pc[t] = "off" => pc'[t] = "off")
              /\ (pc'[t] = "off" => pc[t] = "off" \/ exitRequested)
  BY ZenonT(60), <1>32 DEF DecryptFragment, Goto, AfterRequest, Links, Shape, PcShape, Threads
<1>33. CASE UNCHANGED coreVars
  BY <1>33 DEF coreVars
<1> QED
  BY StepCases, <1>1, <1>2, <1>3, <1>4, <1>5, <1>6, <1>7, <1>8, <1>9, <1>10, <1>11, <1>12, <1>13,
     <1>14, <1>15, <1>16, <1>17, <1>18, <1>19, <1>20, <1>21, <1>22, <1>23, <1>24, <1>25, <1>26,
     <1>27, <1>28, <1>29, <1>30, <1>31, <1>32, <1>33

(* A queue that has been emptied to be stopped stays empty.                *)
LEMMA StoppingStep ==
  ASSUME Links, CountedIrps, Stopping, AnyStep
  PROVE  Stopping'
<1>1. \A t \in Threads : /\ pc[t] = "off" => pc'[t] = "off"
                         /\ pc'[t] = "off" => pc[t] = "off" \/ exitRequested
  BY OffStep
<1>2. ASSUME stop \in Exiting
      PROVE  Quiet' /\ queue'["main"] = <<>> /\ taken' = NoIrp
  <2>1. Quiet /\ queue["main"] = <<>> /\ taken = NoIrp /\ stopPending
    BY <1>2 DEF Stopping, Exiting
  <2>2. pc["main"] \notin {"suspended", "resume"}
    BY <2>1 DEF Links, Hands, MainTakes
  <2>3. Quiet'
    BY <2>1, <2>2, QuietStep DEF Paused
  <2>4. UNCHANGED queue["main"] /\ taken' = taken
    <3>1. ~TakeIrp /\ (\A i \in Irps : ~AddIrp(i))
      BY <2>1 DEF TakeIrp, AddIrp
    <3>2. ~TakeRequest /\ ~QueueFragment /\ ~PassesOn /\ ~DecryptFragment
      BY <2>1 DEF Quiet, Still, TakeRequest, QueueFragment, PassesOn, PostCompletion,
         DecryptFragment, Goto, Threads, Resting
    <3>3. ~Refuse /\ ~Protect /\ ~Accept
      BY <2>1 DEF Quiet, Still, Refuse, Protect, Accept, GetItem, Goto, Threads, Resting
    <3>4. queue' = queue
      BY <3>1, <3>2, QueueFrame
    <3>5. \/ taken' = taken
          \/ NextFragment
      BY <3>1, <3>2, <3>3, MainFrame
    <3> QED
      BY <3>4, <3>5 DEF NextFragment
  <2> QED
    BY <2>1, <2>3, <2>4
<1>3. CASE UNCHANGED <<stop, stopPending, exitRequested>>
  <2>1. stop \in Exiting => Quiet' /\ queue'["main"] = <<>> /\ taken' = NoIrp
    BY <1>2
  <2> QED
    BY <1>1, <1>3, <2>1 DEF Stopping, Threads
<1>4. CASE StopBegin \/ StopWait
  <2>1. /\ stop' \in {"count"} /\ exitRequested' = exitRequested /\ stopPending'
        /\ stop \in {"idle", "wait"} /\ UNCHANGED pc
    BY <1>4 DEF StopBegin, StopWait, SGoto, stopVars, workVars, Stopping
  <2> QED
    BY <2>1 DEF Stopping, Exiting
<1>5. CASE StopCount
  <2>1. /\ stop = "count" /\ stop' \in {"wait", "exit"}
        /\ stop' = "exit" => ~(outstanding > 0)
        /\ UNCHANGED <<pc, queue, taken, stopPending, exitRequested>>
    BY <1>5 DEF StopCount, SGoto, workVars, queueVars, pipeVars, mainVars
  <2>2. stop' = "exit" => outstanding = 0
    <3>1. Cardinality(PendingIn(irp)) \in Nat
      BY PendingCount
    <3> QED
      BY <2>1, <3>1 DEF CountedIrps, Bit
  <2>3. stop' = "exit" => Quiet /\ queue["main"] = <<>> /\ taken = NoIrp
    BY <2>2, NothingOutstanding
  <2> QED
    BY <2>1, <2>3 DEF Stopping, Exiting, Quiet, Still
<1>6. CASE StopExit
  <2>1. /\ stop = "exit" /\ stop' = "main" /\ exitRequested'
             /\ UNCHANGED <<pc, queue, taken, stopPending>>
    BY <1>6 DEF StopExit, SGoto, pipeVars, mainVars
  <2> QED
    BY <2>1 DEF Stopping, Exiting, Quiet, Still
<1>7. ASSUME NEW t \in Threads, NEW u \in {"io", "completion", "stopped"}, StopNext(t, u),
             <<t, u>> \in {<<"main", "io">>, <<"io", "completion">>, <<"completion", "stopped">>}
      PROVE  Stopping'
  <2>1. /\ stop = t /\ stop' = u /\ pc[t] = "off"
        /\ UNCHANGED <<pc, queue, taken, stopPending, exitRequested>>
    BY <1>7 DEF StopNext, SGoto, Ended, pipeVars, mainVars
  <2> QED
    BY <1>7, <2>1 DEF Stopping, Exiting, Quiet, Still, Threads
<1> QED
  BY <1>3, <1>4, <1>5, <1>6, <1>7, StopCases DEF Stop, Threads

(* Everything so far, for every reachable state.                           *)
Sound == Links /\ Counted /\ HeldSafely /\ Stopping

(* All this holds to begin with ...                                        *)
LEMMA SoundInit == Init => Sound
<1> SUFFICES ASSUME Init PROVE Sound
  OBVIOUS
<1>1. Links
  BY LinksInit
<1>2. CountedIrps
  <2>1. PendingIn(irp) = {}
    BY DEF Init, PendingIn, NoRequest
  <2>2. IsFiniteSet(PendingIn(irp)) /\ Cardinality(PendingIn(irp)) = 0
    BY <2>1, FS_EmptySet
  <2>3. outstanding = 0 /\ pc["main"] = "wait" /\ pc["io"] = "wait" /\ pc["completion"] = "wait"
    BY DEF Init, Threads
  <2> QED
    BY <2>2, <2>3 DEF CountedIrps, Bit
<1>3. CountedFragments
  BY DEF Init, CountedFragments, Bit, Threads, Cutting
<1>4. CountedRequests
  BY NoRequestFacts, QueueAssumption DEF Init, CountedRequests, Waiting, InHand, Bit, Threads
<1>5. HeldSafely /\ Stopping
  BY DEF Init, HeldSafely, Stopping, Exiting, Threads
<1> QED
  BY <1>1, <1>2, <1>3, <1>4, <1>5 DEF Sound, Counted

(* ... and every step keeps it.                                            *)
LEMMA SoundStep == Sound /\ AnyStep => Sound'
<1> SUFFICES ASSUME Sound, AnyStep PROVE Sound'
  OBVIOUS
<1>1. Links /\ CountedIrps /\ CountedFragments /\ CountedRequests /\ HeldSafely /\ Stopping
  BY DEF Sound, Counted
<1> QED
  BY <1>1, LinksStep, CountedIrpsStep, CountedFragmentsStep, CountedRequestsStep, HeldStep,
     StoppingStep DEF Sound, Counted

(* So it always holds.                                                     *)
LEMMA SoundAlways == Spec => []Sound
  BY SoundInit, SoundStep, NextSteps, PTL DEF Spec

(* While the queue is held nothing is under way.                           *)
THEOREM HoldIsSafe == Spec => []HeldMeansIdle
<1>1. Sound => HeldMeansIdle
  BY DEF Sound, HeldSafely, Quiet, Still, HeldMeansIdle, Working, Resting
<1> QED
  BY <1>1, SoundAlways, PTL

(* When the queue has stopped its pool is whole and its queues are empty.  *)
THEOREM StopIsClean == Spec => []StopLeavesNothing
<1>1. ASSUME Sound, stop = "stopped"
      PROVE  FreeItems = Items /\ freeRequests = RequestCount
             /\ \A t \in Threads : queue[t] = <<>>
  <2>1. /\ \A t \in Threads : pc[t] = "off" /\ queue[t] = <<>>
        /\ Links /\ CountedRequests
    BY <1>1 DEF Sound, Counted, Stopping, Exiting, Quiet, Threads
  <2>2. /\ \A t \in Threads : own[t] = 0
        /\ req["main"].item = 0 /\ req["io"].item = 0 /\ req["completion"].item = 0
    BY <2>1 DEF Links, Shape, OwnShape, Hands, Threads, Resting, MainOwns, Cutting, Ending
  <2>3. \A k \in Items : ~InUse(k)
    BY <2>1, <2>2, QueueAssumption DEF Links, Final, Ends, Queued, Items, Threads
  <2>4. \A k \in Items : item[k] = FreeItem
    BY <2>1, <2>3 DEF Links, Shape, ItemShape, ItemRecords, InUse, FreeItem
  <2>5. freeRequests = RequestCount
    <3>1. Waiting(queue["io"]) = 0 /\ Waiting(queue["completion"]) = 0 /\ InHand(req) = 0
      BY <2>1, <2>2 DEF Waiting, InHand, Bit, Threads
    <3> QED
      BY <2>1, <3>1, QueueAssumption DEF CountedRequests, Links, Shape, NumberShape
  <2> QED
    BY <2>1, <2>4, <2>5 DEF FreeItems
<1>2. Sound => StopLeavesNothing
  BY <1>1 DEF StopLeavesNothing
<1> QED
  BY <1>2, SoundAlways, PTL

=============================================================================
