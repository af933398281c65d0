------------------------- MODULE EncryptionThreadPool -------------------------
(***************************************************************************)
(* The encryption thread pool of Common/EncryptionThreadPool.c: a ring of  *)
(* work items filled by client threads under EnqueueMutex and emptied by   *)
(* pool threads under DequeueMutex.  DoWork cuts a buffer into fragments,  *)
(* one item each, and waits for all of them; the two Begin functions queue *)
(* one item each and do not wait.                                          *)
(*                                                                         *)
(* Every event of the code is auto-reset (a Windows synchronization        *)
(* event): a Boolean that a wait takes back to FALSE.  A step is one       *)
(* access to memory shared between threads.                                *)
(***************************************************************************)
EXTENDS Integers, FiniteSets

CONSTANTS Clients,         \* threads that use the pool
          Workers,         \* the pool threads; ThreadCount of them
          QueueSize,       \* ThreadQueueSize
          MaxUnits,        \* bound: data units of one DoWork call
          MaxDerivations,  \* bound: key derivations of one header read
          NoThread         \* no owner (of a mutex, of an unused item)

ASSUME PoolAssumption ==
  /\ IsFiniteSet(Workers)
  /\ Cardinality(Workers) \in Nat \ {0, 1}      \* Start makes no pool of one thread
  /\ QueueSize \in Nat
  /\ QueueSize >= Cardinality(Workers)          \* the code has twice as many slots
  /\ MaxUnits \in Nat \ {0}
  /\ MaxDerivations \in Nat
  /\ NoThread \notin Clients \cup Workers

VARIABLES
  running, stopPending,                  \* ThreadPoolRunning, StopPending
  startFailed,                           \* a Start gave up after creating some threads
  spc,                                   \* where the thread calling Stop is
  state, item, fragments, itemCompleted, \* WorkItemQueue, by field
  enqueuePosition, dequeuePosition,
  enqueueMutex, dequeueMutex,
  workItemReady, workItemCompleted,      \* the two pool-wide events
  wpc, wslot,                            \* a worker's position and its workItem
  cpc, call,                             \* a client's position and its locals
  units, applied,                        \* history: units of the call, times transformed
  header, begun, derived, outstanding, noOutstanding  \* a header read's shared context

stopVars == <<running, stopPending, startFailed, spc>>
ringVars == <<enqueuePosition, dequeuePosition, enqueueMutex, dequeueMutex,
              workItemReady, workItemCompleted>>
slotVars == <<state, item, fragments, itemCompleted>>
workerVars == <<wpc, wslot>>
clientVars == <<cpc, call>>
dataVars == <<units, applied>>
headerVars == <<header, begun, derived, outstanding, noOutstanding>>
vars == <<stopVars, ringVars, slotVars, workerVars, clientVars, dataVars, headerVars>>

Slots == 0..QueueSize - 1
Units == 1..MaxUnits
ThreadCount == Cardinality(Workers)

(* Mutant of Advance: the wrap comes one slot late.                        *)
AdvanceLate(p) == IF p >= QueueSize THEN 0 ELSE p + 1

(* if (++position >= ThreadQueueSize) position = 0                         *)
Advance(p) == IF p + 1 >= QueueSize THEN 0 ELSE p + 1

(* Mutant of MutexFree: the mutex does not exclude.                        *)
MutexIgnored(m) == TRUE

MutexFree(m) == m = NoThread

(* The pool threads that exist.                                            *)
Alive == {w \in Workers : wpc[w] # "off"}

-----------------------------------------------------------------------------
(* How DoWork divides the units: as many fragments as threads, or as units *)
(* when there are fewer; the first `remainder' fragments get one more.     *)
FragmentCount(n) == IF n <= ThreadCount THEN n ELSE ThreadCount
Remainder(n) == IF n <= ThreadCount THEN 0 ELSE n % ThreadCount
(* Mutant of UnitsPerFragment: the remainder is not handed out.            *)
UnitsPerFragmentTruncated(n) == IF n <= ThreadCount THEN 1 ELSE n \div ThreadCount

UnitsPerFragment(n) ==
  IF n <= ThreadCount THEN 1
  ELSE n \div ThreadCount + (IF Remainder(n) > 0 THEN 1 ELSE 0)

NoItem == [type |-> "none", owner |-> NoThread, first |-> 0, start |-> 1, count |-> 0]

(* A client's locals as it enters: items left to queue, units of the next  *)
(* fragment, fragments that still get one unit more.                       *)
NewCall(type, left, per, rem) ==
  [type |-> type, left |-> left, first |-> 0, slot |-> 0,
   next |-> 1, per |-> per, rem |-> rem]

NoCall == NewCall("none", 0, 0, 0)

(* The queue after memset and the initialisations of Start, and no header  *)
(* read under way.                                                         *)
FreshQueue ==
  /\ state = [s \in Slots |-> "Free"]
  /\ item = [s \in Slots |-> NoItem]
  /\ fragments = [s \in Slots |-> 0]
  /\ itemCompleted = [s \in Slots |-> FALSE]
  /\ enqueuePosition = 0 /\ dequeuePosition = 0
  /\ enqueueMutex = NoThread /\ dequeueMutex = NoThread
  /\ workItemReady = FALSE /\ workItemCompleted = FALSE
  /\ header = [c \in Clients |-> "none"]
  /\ begun = [c \in Clients |-> 0]
  /\ derived = [c \in Clients |-> 0]
  /\ outstanding = [c \in Clients |-> 0]
  /\ noOutstanding = [c \in Clients |-> TRUE]

MakeFreshQueue ==
  /\ state' = [s \in Slots |-> "Free"]
  /\ item' = [s \in Slots |-> NoItem]
  /\ fragments' = [s \in Slots |-> 0]
  /\ itemCompleted' = [s \in Slots |-> FALSE]
  /\ enqueuePosition' = 0 /\ dequeuePosition' = 0
  /\ enqueueMutex' = NoThread /\ dequeueMutex' = NoThread
  /\ workItemReady' = FALSE /\ workItemCompleted' = FALSE
  /\ header' = [c \in Clients |-> "none"]
  /\ begun' = [c \in Clients |-> 0]
  /\ derived' = [c \in Clients |-> 0]
  /\ outstanding' = [c \in Clients |-> 0]
  /\ noOutstanding' = [c \in Clients |-> TRUE]

Init ==
  /\ running = FALSE /\ stopPending = FALSE /\ startFailed = FALSE /\ spc = "idle"
  /\ FreshQueue
  /\ wpc = [w \in Workers |-> "off"] /\ wslot = [w \in Workers |-> 0]
  /\ cpc = [c \in Clients |-> "idle"] /\ call = [c \in Clients |-> NoCall]
  /\ units = [c \in Clients |-> 0]
  /\ applied = [c \in Clients |-> [u \in Units |-> 0]]

-----------------------------------------------------------------------------
(* Start and Stop.                                                         *)

(* EncryptionThreadPoolStart succeeds.                                     *)
Start ==
  /\ ~running /\ ~startFailed /\ spc = "idle"
  /\ running' = TRUE /\ stopPending' = FALSE
  /\ wpc' = [w \in Workers |-> "loop"]
  /\ wslot' = [w \in Workers |-> 0]
  /\ MakeFreshQueue
  /\ UNCHANGED <<startFailed, spc, clientVars, dataVars>>

(* The creation of a thread fails: Start calls Stop, which returns at once *)
(* because ThreadPoolRunning is not set yet, and the threads created so    *)
(* far stay.  The application gives up and the driver goes on without a    *)
(* pool: neither tries again.                                              *)
StartFails(created) ==
  /\ ~running /\ ~startFailed /\ spc = "idle"
  /\ created # Workers
  /\ startFailed' = TRUE /\ stopPending' = FALSE
  /\ wpc' = [w \in Workers |-> IF w \in created THEN "loop" ELSE "off"]
  /\ wslot' = [w \in Workers |-> 0]
  /\ MakeFreshQueue
  /\ UNCHANGED <<running, spc, clientVars, dataVars>>

(* Assumption on the environment: while Stop runs no client is inside the  *)
(* pool, in the middle of a header read, or enters: the driver stops the   *)
(* pool as it unloads, the application as it exits.                        *)
Quiescent == \A c \in Clients : cpc[c] = "idle" /\ header[c] # "open"

StopBegin ==
  /\ running /\ spc = "idle" /\ Quiescent
  /\ stopPending' = TRUE /\ spc' = "signal"
  /\ UNCHANGED <<running, startFailed, ringVars, slotVars, workerVars,
                 clientVars, dataVars, headerVars>>

(* Mutant of StopSignal: nobody is woken.                                  *)
StopSilent ==
  /\ spc = "signal" /\ spc' = "join"
  /\ UNCHANGED <<running, stopPending, startFailed, ringVars, slotVars, workerVars,
                 clientVars, dataVars, headerVars>>

StopSignal ==
  /\ spc = "signal"
  /\ workItemReady' = TRUE /\ spc' = "join"
  /\ UNCHANGED <<running, stopPending, startFailed, enqueuePosition, dequeuePosition,
                 enqueueMutex, dequeueMutex, workItemCompleted, slotVars, workerVars,
                 clientVars, dataVars, headerVars>>

StopJoin ==
  /\ spc = "join" /\ Alive = {}
  /\ running' = FALSE /\ spc' = "idle"
  /\ UNCHANGED <<stopPending, startFailed, ringVars, slotVars, workerVars,
                 clientVars, dataVars, headerVars>>

-----------------------------------------------------------------------------
(* A pool thread: EncryptionThreadProc.                                    *)

WorkerGoto(w, from, to) == /\ wpc[w] = from
                           /\ wpc' = [wpc EXCEPT ![w] = to]

WorkerLoop(w) ==
  /\ WorkerGoto(w, "loop", IF stopPending THEN "off" ELSE "acquire")
  /\ wslot' = [wslot EXCEPT ![w] = 0]
  /\ UNCHANGED <<stopVars, ringVars, slotVars, clientVars, dataVars, headerVars>>

WorkerDequeue(w) ==
  /\ WorkerGoto(w, "acquire", "check")
  /\ MutexFree(dequeueMutex)
  /\ dequeueMutex' = w
  /\ wslot' = [wslot EXCEPT ![w] = dequeuePosition]
  /\ dequeuePosition' = Advance(dequeuePosition)
  /\ UNCHANGED <<stopVars, enqueuePosition, enqueueMutex, workItemReady,
                 workItemCompleted, slotVars, clientVars, dataVars, headerVars>>

(* The slot is marked Busy even when the loop ended because of StopPending. *)
WorkerTake(w) ==
  /\ WorkerGoto(w, "check", "taken")
  /\ stopPending \/ state[wslot[w]] = "Ready"
  /\ state' = [state EXCEPT ![wslot[w]] = "Busy"]
  /\ dequeueMutex' = NoThread
  /\ UNCHANGED <<stopVars, enqueuePosition, dequeuePosition, enqueueMutex, workItemReady,
                 workItemCompleted, item, fragments, itemCompleted, wslot,
                 clientVars, dataVars, headerVars>>

WorkerNotReady(w) ==
  /\ WorkerGoto(w, "check", "wait")
  /\ ~stopPending /\ state[wslot[w]] # "Ready"
  /\ UNCHANGED <<stopVars, ringVars, slotVars, wslot, clientVars, dataVars, headerVars>>

WorkerWait(w) ==
  /\ WorkerGoto(w, "wait", "check")
  /\ workItemReady
  /\ workItemReady' = FALSE
  /\ UNCHANGED <<stopVars, enqueuePosition, dequeuePosition, enqueueMutex, dequeueMutex,
                 workItemCompleted, slotVars, wslot, clientVars, dataVars, headerVars>>

WorkerDispatch(w) ==
  /\ WorkerGoto(w, "taken", IF stopPending THEN "off" ELSE item[wslot[w]].type)
  /\ UNCHANGED <<stopVars, ringVars, slotVars, wslot, clientVars, dataVars, headerVars>>

(* Mutant of AfterCrypt: every fragment gives its slot back at once.       *)
AfterCryptFreeAll(w) == "freeFragment"

(* A fragment that is not the first gives its slot back before it is       *)
(* counted off; the first one's slot is freed by the client.               *)
AfterCrypt(w) == IF wslot[w] # item[wslot[w]].first THEN "freeFragment" ELSE "account"

(* Encrypt or decrypt the fragment in place.                               *)
WorkerCrypt(w) ==
  LET it == item[wslot[w]] IN
  /\ WorkerGoto(w, "crypt", AfterCrypt(w))
  /\ applied' = [applied EXCEPT ![it.owner] =
         [u \in Units |-> IF u \in it.start..it.start + it.count - 1
                          THEN @[u] + 1 ELSE @[u]]]
  /\ UNCHANGED <<stopVars, ringVars, slotVars, wslot, clientVars, units, headerVars>>

WorkerFree(w, from, to) ==
  /\ WorkerGoto(w, from, to)
  /\ state' = [state EXCEPT ![wslot[w]] = "Free"]
  /\ UNCHANGED <<stopVars, ringVars, item, fragments, itemCompleted, wslot,
                 clientVars, dataVars, headerVars>>

WorkerSignalFree(w, from, to) ==
  /\ WorkerGoto(w, from, to)
  /\ workItemCompleted' = TRUE
  /\ UNCHANGED <<stopVars, enqueuePosition, dequeuePosition, enqueueMutex, dequeueMutex,
                 workItemReady, slotVars, wslot, clientVars, dataVars, headerVars>>

(* FirstFragment is read here from a slot that may be free already.        *)
WorkerAccount(w) ==
  LET f == item[wslot[w]].first IN
  /\ WorkerGoto(w, "account", IF fragments[f] = 1 THEN "signalItem" ELSE "loop")
  /\ fragments' = [fragments EXCEPT ![f] = @ - 1]
  /\ UNCHANGED <<stopVars, ringVars, state, item, itemCompleted, wslot,
                 clientVars, dataVars, headerVars>>

WorkerSignalItem(w) ==
  /\ WorkerGoto(w, "signalItem", "loop")
  /\ itemCompleted' = [itemCompleted EXCEPT ![item[wslot[w]].first] = TRUE]
  /\ UNCHANGED <<stopVars, ringVars, state, item, fragments, wslot,
                 clientVars, dataVars, headerVars>>

(* Derive one header key and raise its completion flag, then the event.    *)
(* Key, flag and event belong to the reader of the header: see             *)
(* VolumeHeaderRead.                                                       *)
WorkerDerive(w) ==
  /\ WorkerGoto(w, "derive", "raise")
  /\ derived' = [derived EXCEPT ![item[wslot[w]].owner] = @ + 1]
  /\ UNCHANGED <<stopVars, ringVars, slotVars, wslot, clientVars, dataVars,
                 header, begun, outstanding, noOutstanding>>

WorkerRaise(w) ==
  /\ WorkerGoto(w, "raise", "countDown")
  /\ UNCHANGED <<stopVars, ringVars, slotVars, wslot, clientVars, dataVars, headerVars>>

(* InterlockedDecrement returns 0.                                         *)
LastOutstanding(c) == outstanding[c] = 1

WorkerCountDown(w) ==
  LET c == item[wslot[w]].owner IN
  /\ WorkerGoto(w, "countDown", IF LastOutstanding(c) THEN "signalNone" ELSE "free")
  /\ outstanding' = [outstanding EXCEPT ![c] = @ - 1]
  /\ UNCHANGED <<stopVars, ringVars, slotVars, wslot, clientVars, dataVars,
                 header, begun, derived, noOutstanding>>

WorkerSignalNone(w) ==
  /\ WorkerGoto(w, "signalNone", "free")
  /\ noOutstanding' = [noOutstanding EXCEPT ![item[wslot[w]].owner] = TRUE]
  /\ UNCHANGED <<stopVars, ringVars, slotVars, wslot, clientVars, dataVars,
                 header, begun, derived, outstanding>>

(* Wait for NoOutstandingWorkItemEvent, then burn and free the context.    *)
WorkerFinalizeWait(w) ==
  LET c == item[wslot[w]].owner IN
  /\ WorkerGoto(w, "finalize", "burn")
  /\ noOutstanding[c]
  /\ noOutstanding' = [noOutstanding EXCEPT ![c] = FALSE]
  /\ UNCHANGED <<stopVars, ringVars, slotVars, wslot, clientVars, dataVars,
                 header, begun, derived, outstanding>>

WorkerBurn(w) ==
  /\ WorkerGoto(w, "burn", "free")
  /\ header' = [header EXCEPT ![item[wslot[w]].owner] = "closed"]
  /\ UNCHANGED <<stopVars, ringVars, slotVars, wslot, clientVars, dataVars,
                 begun, derived, outstanding, noOutstanding>>

WorkerOnCall(w) ==
  \/ WorkerLoop(w) \/ WorkerDequeue(w) \/ WorkerTake(w) \/ WorkerNotReady(w)
  \/ WorkerWait(w) \/ WorkerDispatch(w) \/ WorkerCrypt(w)
  \/ WorkerFree(w, "freeFragment", "signalFragment")
  \/ WorkerSignalFree(w, "signalFragment", "account")
  \/ WorkerAccount(w) \/ WorkerSignalItem(w)

WorkerOnHeader(w) ==
  \/ WorkerDerive(w) \/ WorkerRaise(w) \/ WorkerCountDown(w) \/ WorkerSignalNone(w)
  \/ WorkerFinalizeWait(w) \/ WorkerBurn(w)
  \/ WorkerFree(w, "free", "signalFree")
  \/ WorkerSignalFree(w, "signalFree", "loop")

Worker(w) == WorkerOnCall(w) \/ WorkerOnHeader(w)

-----------------------------------------------------------------------------
(* A client thread: EncryptionThreadPoolDoWork.                            *)

Goto(c, from, to) == /\ cpc[c] = from
                     /\ cpc' = [cpc EXCEPT ![c] = to]

(* n data units; no pool, or a single unit, is done by the caller itself.  *)
DoWork(c, n) ==
  /\ header[c] # "open"
  /\ Goto(c, "idle", IF running /\ n > 1 THEN "lock" ELSE "inline")
  /\ call' = [call EXCEPT ![c] =
         IF running /\ n > 1
         THEN NewCall("crypt", FragmentCount(n), UnitsPerFragment(n), Remainder(n))
         ELSE NoCall]
  /\ units' = [units EXCEPT ![c] = n]
  /\ UNCHANGED <<stopVars, ringVars, slotVars, workerVars, applied, headerVars>>

CryptInline(c) ==
  /\ Goto(c, "inline", "return")
  /\ applied' = [applied EXCEPT ![c] =
         [u \in Units |-> IF u <= units[c] THEN @[u] + 1 ELSE @[u]]]
  /\ UNCHANGED <<stopVars, ringVars, slotVars, workerVars, call, units, headerVars>>

(* Acquire EnqueueMutex.                                                   *)
Lock(c) ==
  /\ Goto(c, "lock", IF call[c].type = "crypt" THEN "first" ELSE "slot")
  /\ MutexFree(enqueueMutex)
  /\ enqueueMutex' = c
  /\ call' = [call EXCEPT ![c].first = enqueuePosition]
  /\ UNCHANGED <<stopVars, enqueuePosition, dequeuePosition, dequeueMutex, workItemReady,
                 workItemCompleted, slotVars, workerVars, dataVars, headerVars>>

(* OutstandingFragmentCount of the first fragment's slot, once it is free. *)
SetFragmentCount(c) ==
  /\ Goto(c, "first", "slot")
  /\ state[call[c].first] = "Free"
  /\ fragments' = [fragments EXCEPT ![call[c].first] = call[c].left]
  /\ UNCHANGED <<stopVars, ringVars, state, item, itemCompleted, workerVars, call,
                 dataVars, headerVars>>

(* The next slot is not free: the client will wait for                     *)
(* WorkItemCompletedEvent and look again.                                  *)
SlotBusy(c, from, to) ==
  /\ Goto(c, from, to)
  /\ from = "slot" => call[c].left > 0
  /\ state[enqueuePosition] # "Free"
  /\ UNCHANGED <<stopVars, ringVars, slotVars, workerVars, call, dataVars, headerVars>>

WaitSlot(c, from, to) ==
  /\ Goto(c, from, to)
  /\ workItemCompleted
  /\ workItemCompleted' = FALSE
  /\ UNCHANGED <<stopVars, enqueuePosition, dequeuePosition, enqueueMutex, dequeueMutex,
                 workItemReady, slotVars, workerVars, call, dataVars, headerVars>>

(* Claim the next slot once it is free, and write the item into it.  Only  *)
(* DoWork sets FirstFragment.  The code advances EnqueuePosition before it *)
(* waits, which nobody else can see: it holds EnqueueMutex.                *)
Fill(c) ==
  LET k == call[c]
      s == enqueuePosition IN
  /\ Goto(c, "slot", IF k.type = "derive" THEN "increment" ELSE "ready")
  /\ k.left > 0
  /\ state[s] = "Free"
  /\ enqueuePosition' = Advance(s)
  /\ item' = [item EXCEPT ![s] =
         [type |-> k.type, owner |-> c,
          first |-> IF k.type = "crypt" THEN k.first ELSE @.first,
          start |-> k.next, count |-> k.per]]
  /\ call' = [call EXCEPT ![c] =
         [k EXCEPT !.slot = s, !.left = @ - 1,
                   !.next = @ + k.per,
                   !.rem = IF @ > 0 THEN @ - 1 ELSE 0,
                   !.per = IF k.rem = 1 THEN @ - 1 ELSE @]]
  /\ UNCHANGED <<stopVars, dequeuePosition, enqueueMutex, dequeueMutex, workItemReady,
                 workItemCompleted, state, fragments, itemCompleted, workerVars,
                 dataVars, headerVars>>

SetReady(c) ==
  /\ Goto(c, "ready", "notify")
  /\ state' = [state EXCEPT ![call[c].slot] = "Ready"]
  /\ UNCHANGED <<stopVars, ringVars, item, fragments, itemCompleted, workerVars, call,
                 dataVars, headerVars>>

Notify(c) ==
  /\ Goto(c, "notify", "slot")
  /\ workItemReady' = TRUE
  /\ UNCHANGED <<stopVars, enqueuePosition, dequeuePosition, enqueueMutex, dequeueMutex,
                 workItemCompleted, slotVars, workerVars, call, dataVars, headerVars>>

(* Release EnqueueMutex; only DoWork waits for its items.                  *)
Unlock(c) ==
  /\ Goto(c, "slot", IF call[c].type = "crypt" THEN "await" ELSE "idle")
  /\ call[c].left = 0
  /\ enqueueMutex' = NoThread
  /\ call' = [call EXCEPT ![c] = IF @.type = "crypt" THEN @ ELSE NoCall]
  /\ UNCHANGED <<stopVars, enqueuePosition, dequeuePosition, dequeueMutex, workItemReady,
                 workItemCompleted, slotVars, workerVars, dataVars, headerVars>>

Await(c) ==
  /\ Goto(c, "await", "complete")
  /\ itemCompleted[call[c].first]
  /\ itemCompleted' = [itemCompleted EXCEPT ![call[c].first] = FALSE]
  /\ UNCHANGED <<stopVars, ringVars, state, item, fragments, workerVars, call,
                 dataVars, headerVars>>

FreeFirst(c) ==
  /\ Goto(c, "complete", "signal")
  /\ state' = [state EXCEPT ![call[c].first] = "Free"]
  /\ UNCHANGED <<stopVars, ringVars, item, fragments, itemCompleted, workerVars, call,
                 dataVars, headerVars>>

(* Mutant of SignalFirst: the slot is freed without a word.                *)
SignalFirstOmitted(c) ==
  /\ Goto(c, "signal", "return")
  /\ UNCHANGED <<stopVars, ringVars, slotVars, workerVars, call, dataVars, headerVars>>

SignalFirst(c) ==
  /\ Goto(c, "signal", "return")
  /\ workItemCompleted' = TRUE
  /\ UNCHANGED <<stopVars, enqueuePosition, dequeuePosition, enqueueMutex, dequeueMutex,
                 workItemReady, slotVars, workerVars, call, dataVars, headerVars>>

Return(c) ==
  /\ Goto(c, "return", "idle")
  /\ units' = [units EXCEPT ![c] = 0]
  /\ applied' = [applied EXCEPT ![c] = [u \in Units |-> 0]]
  /\ call' = [call EXCEPT ![c] = NoCall]
  /\ UNCHANGED <<stopVars, ringVars, slotVars, workerVars, headerVars>>

-----------------------------------------------------------------------------
(* A client thread inside ReadVolumeHeader.  Bounds: at most               *)
(* MaxDerivations derivations, one header read per client and start.       *)

BeginKeyDerivation(c) ==
  /\ running /\ header[c] \in {"none", "open"} /\ begun[c] < MaxDerivations
  /\ Goto(c, "idle", "lock")
  /\ header' = [header EXCEPT ![c] = "open"]
  /\ begun' = [begun EXCEPT ![c] = @ + 1]
  /\ call' = [call EXCEPT ![c] = NewCall("derive", 1, 0, 0)]
  /\ UNCHANGED <<stopVars, ringVars, slotVars, workerVars, dataVars,
                 derived, outstanding, noOutstanding>>

IncrementOutstanding(c) ==
  /\ Goto(c, "increment", "clear")
  /\ outstanding' = [outstanding EXCEPT ![c] = @ + 1]
  /\ UNCHANGED <<stopVars, ringVars, slotVars, workerVars, call, dataVars,
                 header, begun, derived, noOutstanding>>

(* Mutant of ClearNoOutstanding: the event is left as it is.               *)
ClearNothing(c) ==
  /\ Goto(c, "clear", "ready")
  /\ UNCHANGED <<stopVars, ringVars, slotVars, workerVars, call, dataVars, headerVars>>

ClearNoOutstanding(c) ==
  /\ Goto(c, "clear", "ready")
  /\ noOutstanding' = [noOutstanding EXCEPT ![c] = FALSE]
  /\ UNCHANGED <<stopVars, ringVars, slotVars, workerVars, call, dataVars,
                 header, begun, derived, outstanding>>

BeginReadVolumeHeaderFinalization(c) ==
  /\ running /\ header[c] = "open"
  /\ Goto(c, "idle", "lock")
  /\ header' = [header EXCEPT ![c] = "closing"]
  /\ call' = [call EXCEPT ![c] = NewCall("finalize", 1, 0, 0)]
  /\ UNCHANGED <<stopVars, ringVars, slotVars, workerVars, dataVars,
                 begun, derived, outstanding, noOutstanding>>

(* What a client does once it has entered the pool.                        *)
InsideCall(c) ==
  \/ CryptInline(c) \/ Lock(c) \/ SetFragmentCount(c)
  \/ SlotBusy(c, "first", "firstWait") \/ WaitSlot(c, "firstWait", "first")
  \/ SlotBusy(c, "slot", "slotWait") \/ WaitSlot(c, "slotWait", "slot")
  \/ Fill(c) \/ SetReady(c) \/ Notify(c) \/ Unlock(c)
  \/ Await(c) \/ FreeFirst(c) \/ SignalFirst(c) \/ Return(c)

InsideHeader(c) == IncrementOutstanding(c) \/ ClearNoOutstanding(c)

Inside(c) == InsideCall(c) \/ InsideHeader(c)

EnterCall(c) == spc = "idle" /\ \E n \in Units : DoWork(c, n)

EnterHeader(c) == /\ spc = "idle"
                  /\ BeginKeyDerivation(c) \/ BeginReadVolumeHeaderFinalization(c)

CallNext == \/ Start
            \/ \E created \in SUBSET Workers : StartFails(created)
            \/ StopBegin \/ StopSignal \/ StopJoin
            \/ \E w \in Workers : WorkerOnCall(w)
            \/ \E c \in Clients : EnterCall(c) \/ InsideCall(c)

HeaderNext == \/ \E w \in Workers : WorkerOnHeader(w)
              \/ \E c \in Clients : EnterHeader(c) \/ InsideHeader(c)

Next == CallNext \/ HeaderNext

Spec == Init /\ [][Next]_vars

(* As long as nobody reads a volume header.                                *)
CallSpec == Init /\ [][CallNext]_vars

(* The scheduler runs every thread that can run, and hands a mutex to its  *)
(* waiters in turn.  Nobody is obliged to call anything.                   *)
Fairness == /\ \A w \in Workers : WF_vars(Worker(w))
            /\ \A c \in Clients : WF_vars(Inside(c)) /\ SF_vars(Lock(c))
            /\ WF_vars(StopSignal) /\ WF_vars(StopJoin)

FairSpec == CallSpec /\ Fairness

-----------------------------------------------------------------------------
(* Properties.                                                             *)

WorkerPcs == {"off", "loop", "acquire", "check", "wait", "taken", "crypt",
              "freeFragment", "signalFragment", "account", "signalItem", "derive",
              "raise", "countDown", "signalNone", "finalize", "burn", "free", "signalFree"}

ClientPcs == {"idle", "inline", "lock", "first", "firstWait", "slot", "slotWait",
              "increment", "clear", "ready", "notify", "await", "complete", "signal",
              "return"}

WorkTypes == {"crypt", "derive", "finalize"}

Items == [type : WorkTypes \cup {"none"}, owner : Clients \cup {NoThread},
          first : Slots, start : Int, count : Int]

Calls == [type : WorkTypes \cup {"none"}, left : Int, first : Slots, slot : Slots,
          next : Int, per : Int, rem : Int]

(* The shape of the pool's state.  Counters are integers: that they stay   *)
(* in their ranges is left to the properties below.                        *)
TypeOK ==
  /\ running \in BOOLEAN /\ stopPending \in BOOLEAN /\ startFailed \in BOOLEAN
  /\ spc \in {"idle", "signal", "join"}
  /\ state \in [Slots -> {"Free", "Ready", "Busy"}]
  /\ item \in [Slots -> Items]
  /\ fragments \in [Slots -> Int]
  /\ itemCompleted \in [Slots -> BOOLEAN]
  /\ enqueuePosition \in Slots /\ dequeuePosition \in Slots
  /\ enqueueMutex \in Clients \cup {NoThread}
  /\ dequeueMutex \in Workers \cup {NoThread}
  /\ workItemReady \in BOOLEAN /\ workItemCompleted \in BOOLEAN
  /\ wpc \in [Workers -> WorkerPcs] /\ wslot \in [Workers -> Slots]
  /\ cpc \in [Clients -> ClientPcs] /\ call \in [Clients -> Calls]
  /\ units \in [Clients -> 0..MaxUnits]
  /\ applied \in [Clients -> [Units -> Nat]]
  /\ header \in [Clients -> {"none", "open", "closing", "closed"}]
  /\ begun \in [Clients -> Nat] /\ derived \in [Clients -> Nat]
  /\ outstanding \in [Clients -> Int] /\ noOutstanding \in [Clients -> BOOLEAN]

(* A worker gives the slot of a fragment back and only then reads          *)
(* FirstFragment from it and counts the fragment off.  Until it has done   *)
(* that, the slot still describes its fragment, the first fragment's slot  *)
(* is still taken, and the client is still inside the call.  What protects *)
(* the freed slot is only the ring order: to fill it again a client must   *)
(* get past the first fragment's slot, which is not free.                  *)
Accounting == {"crypt", "freeFragment", "signalFragment", "account", "signalItem"}

FragmentIntact ==
  \A w \in Workers : wpc[w] \in Accounting =>
    LET it == item[wslot[w]] IN
      /\ it.type = "crypt"
      /\ state[it.first] # "Free"
      /\ call[it.owner].type = "crypt" /\ call[it.owner].first = it.first
      /\ cpc[it.owner] \in {"slot", "slotWait", "ready", "notify", "await"}

(* An auto-reset event wakes one thread, so each event may have one waiter *)
(* at most: the worker that looks for a ready item holds DequeueMutex, the *)
(* client that looks for a free slot holds EnqueueMutex.                   *)
OneWaiterPerEvent ==
  /\ \A w \in Workers : wpc[w] \in {"check", "wait"} => dequeueMutex = w
  /\ \A c \in Clients :
       cpc[c] \in {"first", "firstWait", "slot", "slotWait", "increment",
                   "clear", "ready", "notify"} => enqueueMutex = c

(* DoWork is the atomic service of CryptService: every unit of a call is   *)
(* transformed exactly once, and the call returns after the last of them.  *)
Service == INSTANCE CryptService
ImplementsService == Service!Spec

(* Every call returns: no wakeup is lost, no fragment is forgotten, and    *)
(* clients that fill the ring together do not block each other for good.   *)
CallReturns == \A c \in Clients : cpc[c] # "idle" ~> cpc[c] = "idle"

(* A finalization that waits for derivations nobody is left to run: each   *)
(* thread leaves when it finds StopPending, an item in its hands or not.   *)
Abandoned ==
  \E w \in Workers :
    /\ wpc[w] = "finalize" /\ outstanding[item[wslot[w]].owner] > 0
    /\ \A v \in Workers : wpc[v] \in {"off", "finalize"}

(* One SetEvent is enough for Stop to bring every pool thread home.  Only  *)
(* a header read under way can keep it: Stop drops derivations that a      *)
(* finalization may already wait for.                                      *)
StopReturns == spc # "idle" ~> spc = "idle" \/ Abandoned
=============================================================================
