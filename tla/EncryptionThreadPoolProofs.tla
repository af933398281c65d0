---------------------- MODULE EncryptionThreadPoolProofs ----------------------
(***************************************************************************)
(* Proofs about EncryptionThreadPool, for any clients, any two or more     *)
(* pool threads and any ring with at least one slot per thread.            *)
(***************************************************************************)
EXTENDS EncryptionThreadPool, TLAPS, FiniteSetTheorems

Outside == {"idle", "inline", "return"}

(* The pool is used only while it runs, and not while it is being stopped; *)
(* its threads exist only then.                                            *)
Quiet ==
  /\ ~running \/ spc # "idle" => \A c \in Clients : cpc[c] \in Outside
  /\ spc # "idle" => running
  /\ stopPending /\ running => spc # "idle"
  /\ startFailed => ~running /\ ~stopPending
  /\ ~running /\ ~startFailed => \A w \in Workers : wpc[w] = "off"

(* An item that a worker can take says what is to be done.                 *)
Typed ==
  /\ \A c \in Clients : cpc[c] \notin Outside => call[c].type \in WorkTypes
  /\ \A c \in Clients : cpc[c] \in {"increment", "clear", "ready"} =>
        item[call[c].slot].type \in WorkTypes
  /\ \A s \in Slots : state[s] = "Ready" => item[s].type \in WorkTypes
  /\ \A w \in Workers : wpc[w] = "taken" /\ ~stopPending =>
        item[wslot[w]].type \in WorkTypes

ControlInv == TypeOK /\ Quiet /\ Typed /\ OneWaiterPerEvent

-----------------------------------------------------------------------------

(* Positions stay in the ring; the ring has at least two slots.            *)
LEMMA SlotFacts ==
  /\ 0 \in Slots
  /\ \A p \in Slots : Advance(p) \in Slots
  /\ ThreadCount \in Nat
  /\ ThreadCount >= 2
  /\ QueueSize >= 2
<1>1. ThreadCount \in Nat /\ ThreadCount >= 2
  BY PoolAssumption DEF ThreadCount
<1>2. QED
  BY <1>1, PoolAssumption DEF Slots, Advance, ThreadCount

(* A call has at least one fragment.                                       *)
LEMMA SplitFacts ==
  ASSUME NEW n \in Units
  PROVE  /\ FragmentCount(n) \in Nat
         /\ FragmentCount(n) >= 1
         /\ UnitsPerFragment(n) \in Int
         /\ Remainder(n) \in Int
<1>1. n \in Nat /\ n >= 1
  BY PoolAssumption DEF Units
<1>2. QED
  BY <1>1, SlotFacts DEF FragmentCount, UnitsPerFragment, Remainder

(* The initial states satisfy the control invariant.                       *)
LEMMA ControlInit == Init => ControlInv
<1> SUFFICES ASSUME Init PROVE ControlInv
  OBVIOUS
<1>1. NoItem \in Items /\ NoCall \in Calls
  BY SlotFacts DEF NoItem, NoCall, NewCall, Items, Calls
<1>2. TypeOK
  <2>1. running \in BOOLEAN /\ stopPending \in BOOLEAN /\ startFailed \in BOOLEAN
    BY DEF Init
  <2>2. itemCompleted \in [Slots -> BOOLEAN] /\ noOutstanding \in [Clients -> BOOLEAN]
    BY DEF Init, FreshQueue
  <2>3. workItemReady \in BOOLEAN /\ workItemCompleted \in BOOLEAN
    BY DEF Init, FreshQueue
  <2>4. applied \in [Clients -> [Units -> Nat]]
    BY DEF Init
  <2>5. units \in [Clients -> 0..MaxUnits]
    BY PoolAssumption DEF Init
  <2>6. item \in [Slots -> Items] /\ call \in [Clients -> Calls]
    BY <1>1 DEF Init, FreshQueue
  <2> QED
    BY <2>1, <2>2, <2>3, <2>4, <2>5, <2>6, SlotFacts
       DEF Init, FreshQueue, TypeOK, WorkerPcs, ClientPcs
<1>3. Quiet /\ Typed /\ OneWaiterPerEvent
  BY DEF Init, FreshQueue, Quiet, Typed, OneWaiterPerEvent, Outside
<1>4. QED
  BY <1>2, <1>3 DEF ControlInv

(* The fields of an item, and of a client's locals. *)
LEMMA ItemFields ==
  ASSUME TypeOK, NEW s \in Slots
  PROVE  /\ item[s] \in Items
         /\ item[s].type \in WorkTypes \cup {"none"}
         /\ item[s].owner \in Clients \cup {NoThread}
         /\ item[s].first \in Slots
         /\ item[s].start \in Int /\ item[s].count \in Int
  BY DEF TypeOK, Items

(* The fields of a call, likewise.                                         *)
LEMMA CallFields ==
  ASSUME TypeOK, NEW c \in Clients
  PROVE  /\ call[c] \in Calls
         /\ call[c].type \in WorkTypes \cup {"none"}
         /\ call[c].first \in Slots /\ call[c].slot \in Slots
         /\ call[c].left \in Int /\ call[c].next \in Int
         /\ call[c].per \in Int /\ call[c].rem \in Int
  BY DEF TypeOK, Calls

(* A function updated at one argument keeps its type, even when the       *)
(* argument is outside its domain.                                         *)
LEMMA UpdateType ==
  ASSUME NEW S, NEW T, NEW f \in [S -> T], NEW x, NEW v, x \in S => v \in T
  PROVE  [f EXCEPT ![x] = v] \in [S -> T]
  OBVIOUS



(* Every step keeps the types. *)
LEMMA TypeStep == TypeOK /\ Typed /\ [Next]_vars => TypeOK'
<1> SUFFICES ASSUME TypeOK, Typed, [Next]_vars PROVE TypeOK'
  OBVIOUS
<1> USE DEF stopVars, ringVars, slotVars, workerVars, clientVars, dataVars, headerVars
<1>0. ASSUME wpc' \in [Workers -> WorkerPcs],
              wslot' \in [Workers -> Slots], MakeFreshQueue,
              running' \in BOOLEAN, stopPending' \in BOOLEAN, startFailed' \in BOOLEAN,
              UNCHANGED <<spc, clientVars, dataVars>>
       PROVE  TypeOK'
  <2>1. NoItem \in Items
    BY SlotFacts DEF NoItem, Items
  <2>2. /\ itemCompleted' \in [Slots -> BOOLEAN]
        /\ noOutstanding' \in [Clients -> BOOLEAN]
        /\ workItemReady' \in BOOLEAN /\ workItemCompleted' \in BOOLEAN
    BY <1>0 DEF MakeFreshQueue
  <2>3. /\ state' \in [Slots -> {"Free", "Ready", "Busy"}]
        /\ item' \in [Slots -> Items]
        /\ fragments' \in [Slots -> Int]
    BY <1>0, <2>1 DEF MakeFreshQueue
  <2> QED
    BY <1>0, <2>2, <2>3, SlotFacts DEF MakeFreshQueue, TypeOK
<1>1. ASSUME Start
       PROVE  TypeOK'
  <2>1. /\ wpc' \in [Workers -> WorkerPcs] /\ wslot' \in [Workers -> Slots]
        /\ running' \in BOOLEAN /\ stopPending' \in BOOLEAN /\ startFailed' \in BOOLEAN
    BY <1>1, SlotFacts DEF Start, WorkerPcs, TypeOK
  <2> QED
    BY <2>1, <1>1, <1>0 DEF Start
<1>2. ASSUME NEW created \in SUBSET Workers, StartFails(created)
       PROVE  TypeOK'
  <2>1. /\ wpc' \in [Workers -> WorkerPcs] /\ wslot' \in [Workers -> Slots]
        /\ running' \in BOOLEAN /\ stopPending' \in BOOLEAN /\ startFailed' \in BOOLEAN
    BY <1>2, SlotFacts DEF StartFails, WorkerPcs, TypeOK
  <2> QED
    BY <2>1, <1>2, <1>0 DEF StartFails
<1>3. ASSUME StopBegin
       PROVE  TypeOK'
  BY <1>3 DEF StopBegin, TypeOK
<1>4. ASSUME StopSignal
       PROVE  TypeOK'
  BY <1>4 DEF StopSignal, TypeOK
<1>5. ASSUME StopJoin
       PROVE  TypeOK'
  BY <1>5 DEF StopJoin, TypeOK
<1>6. ASSUME NEW w \in Workers, WorkerLoop(w)
       PROVE  TypeOK'
  BY <1>6, SlotFacts DEF WorkerLoop, WorkerGoto, WorkerPcs, TypeOK
<1>7. ASSUME NEW w \in Workers, WorkerDequeue(w)
       PROVE  TypeOK'
  BY <1>7, SlotFacts DEF WorkerDequeue, WorkerGoto, WorkerPcs, TypeOK
<1>8. ASSUME NEW w \in Workers, WorkerTake(w)
       PROVE  TypeOK'
  BY <1>8 DEF WorkerTake, WorkerGoto, WorkerPcs, TypeOK
<1>9. ASSUME NEW w \in Workers, WorkerNotReady(w)
       PROVE  TypeOK'
  BY <1>9 DEF WorkerNotReady, WorkerGoto, WorkerPcs, TypeOK
<1>10. ASSUME NEW w \in Workers, WorkerWait(w)
       PROVE  TypeOK'
  BY <1>10 DEF WorkerWait, WorkerGoto, WorkerPcs, TypeOK
<1>11. ASSUME NEW w \in Workers, WorkerDispatch(w) PROVE TypeOK'
  <2>1. wslot[w] \in Slots /\ wpc[w] \in WorkerPcs
    BY DEF TypeOK
  <2>2. wpc' \in [Workers -> WorkerPcs]
    <3>1. wpc[w] = "taken" /\ wpc' = [wpc EXCEPT ![w] =
              IF stopPending THEN "off" ELSE item[wslot[w]].type]
      BY <1>11 DEF WorkerDispatch, WorkerGoto
    <3>2. ~stopPending => item[wslot[w]].type \in WorkTypes
      BY <3>1 DEF Typed
    <3> QED
      BY <3>1, <3>2 DEF TypeOK, WorkTypes, WorkerPcs
  <2> QED
    BY <2>2, <1>11 DEF WorkerDispatch, TypeOK
<1>12. ASSUME NEW w \in Workers, WorkerCrypt(w) PROVE TypeOK'
  <2>1. wslot[w] \in Slots
    BY DEF TypeOK
  <2>2. wpc' \in [Workers -> WorkerPcs]
    BY <1>12 DEF WorkerCrypt, WorkerGoto, AfterCrypt, TypeOK, WorkerPcs
  <2>3. applied' \in [Clients -> [Units -> Nat]]
    <3> DEFINE it == item[wslot[w]]
               new == [u \in Units |-> IF u \in it.start..it.start + it.count - 1
                          THEN applied[it.owner][u] + 1 ELSE applied[it.owner][u]]
    <3>1. it.owner \in Clients => new \in [Units -> Nat]
      BY DEF TypeOK
    <3>2. applied' = [applied EXCEPT ![it.owner] = new]
      BY <1>12 DEF WorkerCrypt
    <3> QED
      BY <3>1, <3>2, UpdateType DEF TypeOK
  <2> QED
    BY <1>12, <2>2, <2>3 DEF WorkerCrypt, TypeOK
<1>13. ASSUME NEW w \in Workers, NEW from, NEW to \in WorkerPcs, WorkerFree(w, from, to)
       PROVE  TypeOK'
  BY <1>13 DEF WorkerFree, WorkerGoto, WorkerPcs, TypeOK
<1>14. ASSUME NEW w \in Workers, NEW from, NEW to \in WorkerPcs, WorkerSignalFree(w,
            from, to)
       PROVE  TypeOK'
  BY <1>14 DEF WorkerSignalFree, WorkerGoto, WorkerPcs, TypeOK
<1>15. ASSUME NEW w \in Workers, WorkerAccount(w) PROVE TypeOK'
  <2>1. wslot[w] \in Slots
    BY DEF TypeOK
  <2>2. wpc' \in [Workers -> WorkerPcs]
    BY <1>15 DEF WorkerAccount, WorkerGoto, TypeOK, WorkerPcs
  <2>3. fragments' \in [Slots -> Int]
    BY <1>15, <2>1, ItemFields DEF WorkerAccount, TypeOK
  <2> QED
    BY <1>15, <2>2, <2>3 DEF WorkerAccount, TypeOK
<1>16. ASSUME NEW w \in Workers, WorkerSignalItem(w)
       PROVE  TypeOK'
  BY <1>16 DEF WorkerSignalItem, WorkerGoto, WorkerPcs, TypeOK
<1>17. ASSUME NEW w \in Workers, WorkerDerive(w) PROVE TypeOK'
  <2>2. wpc' \in [Workers -> WorkerPcs]
    BY <1>17 DEF WorkerDerive, WorkerGoto, TypeOK, WorkerPcs
  <2>3. derived' \in [Clients -> Nat]
    <3> DEFINE o == item[wslot[w]].owner
    <3>1. o \in Clients => derived[o] + 1 \in Nat
      BY DEF TypeOK
    <3>2. derived' = [derived EXCEPT ![o] = derived[o] + 1]
      BY <1>17 DEF WorkerDerive
    <3> HIDE DEF o
    <3> QED
      BY <3>1, <3>2, UpdateType DEF TypeOK
  <2> QED
    BY <1>17, <2>2, <2>3 DEF WorkerDerive, TypeOK
<1>17a. ASSUME NEW w \in Workers, WorkerRaise(w)
       PROVE  TypeOK'
  BY <1>17a DEF WorkerRaise, WorkerGoto, WorkerPcs, TypeOK
<1>18. ASSUME NEW w \in Workers, WorkerCountDown(w) PROVE TypeOK'
  <2>2. wpc' \in [Workers -> WorkerPcs]
    BY <1>18 DEF WorkerCountDown, WorkerGoto, TypeOK, WorkerPcs
  <2>3. outstanding' \in [Clients -> Int]
    <3> DEFINE o == item[wslot[w]].owner
    <3>1. o \in Clients => outstanding[o] - 1 \in Int
      BY DEF TypeOK
    <3>2. outstanding' = [outstanding EXCEPT ![o] = outstanding[o] - 1]
      BY <1>18 DEF WorkerCountDown
    <3> HIDE DEF o
    <3> QED
      BY <3>1, <3>2, UpdateType DEF TypeOK
  <2> QED
    BY <1>18, <2>2, <2>3 DEF WorkerCountDown, TypeOK
<1>19. ASSUME NEW w \in Workers, WorkerSignalNone(w)
       PROVE  TypeOK'
  BY <1>19 DEF WorkerSignalNone, WorkerGoto, WorkerPcs, TypeOK
<1>20. ASSUME NEW w \in Workers, WorkerFinalizeWait(w)
       PROVE  TypeOK'
  BY <1>20 DEF WorkerFinalizeWait, WorkerGoto, WorkerPcs, TypeOK
<1>21. ASSUME NEW w \in Workers, WorkerBurn(w)
       PROVE  TypeOK'
  BY <1>21 DEF WorkerBurn, WorkerGoto, WorkerPcs, TypeOK
<1>22. ASSUME NEW c \in Clients, NEW n \in Units, DoWork(c, n) PROVE TypeOK'
  <2>2. cpc' \in [Clients -> ClientPcs]
    BY <1>22 DEF DoWork, Goto, TypeOK, ClientPcs
  <2>3. call' \in [Clients -> Calls]
    <3>1. NewCall("crypt", FragmentCount(n), UnitsPerFragment(n), Remainder(n)) \in Calls
      BY SlotFacts, SplitFacts DEF NewCall, Calls, WorkTypes
    <3>2. NoCall \in Calls
      BY SlotFacts DEF NoCall, NewCall, Calls
    <3> QED
      BY <1>22, <3>1, <3>2 DEF DoWork, TypeOK
  <2>4. units' \in [Clients -> 0..MaxUnits]
    BY <1>22, PoolAssumption DEF DoWork, TypeOK, Units
  <2> QED
    BY <1>22, <2>2, <2>3, <2>4 DEF DoWork, TypeOK
<1>23. ASSUME NEW c \in Clients, BeginKeyDerivation(c) PROVE TypeOK'
  <2>2. cpc' \in [Clients -> ClientPcs]
    BY <1>23 DEF BeginKeyDerivation, Goto, TypeOK, ClientPcs
  <2>3. call' \in [Clients -> Calls]
    <3>1. NewCall("derive", 1, 0, 0) \in Calls
      BY SlotFacts DEF NewCall, Calls, WorkTypes
    <3> QED
      BY <1>23, <3>1 DEF BeginKeyDerivation, TypeOK
  <2>4. /\ header' \in [Clients -> {"none", "open", "closing", "closed"}]
        /\ begun' \in [Clients -> Nat]
    BY <1>23 DEF BeginKeyDerivation, TypeOK
  <2> QED
    BY <1>23, <2>2, <2>3, <2>4 DEF BeginKeyDerivation, TypeOK
<1>24. ASSUME NEW c \in Clients, BeginReadVolumeHeaderFinalization(c) PROVE TypeOK'
  <2>2. cpc' \in [Clients -> ClientPcs]
    BY <1>24 DEF BeginReadVolumeHeaderFinalization, Goto, TypeOK, ClientPcs
  <2>3. call' \in [Clients -> Calls]
    <3>1. NewCall("finalize", 1, 0, 0) \in Calls
      BY SlotFacts DEF NewCall, Calls, WorkTypes
    <3> QED
      BY <1>24, <3>1 DEF BeginReadVolumeHeaderFinalization, TypeOK
  <2>4. header' \in [Clients -> {"none", "open", "closing", "closed"}]
    BY <1>24 DEF BeginReadVolumeHeaderFinalization, TypeOK
  <2> QED
    BY <1>24, <2>2, <2>3, <2>4 DEF BeginReadVolumeHeaderFinalization, TypeOK
<1>25. ASSUME NEW c \in Clients, CryptInline(c)
       PROVE  TypeOK'
  BY <1>25 DEF CryptInline, Goto, ClientPcs, TypeOK
<1>26. ASSUME NEW c \in Clients, Lock(c) PROVE TypeOK'
  <2>2. cpc' \in [Clients -> ClientPcs]
    BY <1>26 DEF Lock, Goto, TypeOK, ClientPcs
  <2>3. call' \in [Clients -> Calls]
    <3>0. enqueuePosition \in Slots /\ call[c] \in Calls
      BY DEF TypeOK
    <3>1. [call[c] EXCEPT !.first = enqueuePosition] \in Calls
      BY <3>0 DEF Calls
    <3>2. call' = [call EXCEPT ![c] = [call[c] EXCEPT !.first = enqueuePosition]]
      BY <1>26 DEF Lock, TypeOK
    <3> QED
      BY <3>1, <3>2 DEF TypeOK
  <2> QED
    BY <1>26, <2>2, <2>3 DEF Lock, TypeOK
<1>27. ASSUME NEW c \in Clients, SetFragmentCount(c) PROVE TypeOK'
  <2>2. cpc' \in [Clients -> ClientPcs]
    BY <1>27 DEF SetFragmentCount, Goto, TypeOK, ClientPcs
  <2>3. fragments' \in [Slots -> Int]
    BY <1>27, CallFields DEF SetFragmentCount, TypeOK
  <2> QED
    BY <1>27, <2>2, <2>3 DEF SetFragmentCount, TypeOK
<1>28. ASSUME NEW c \in Clients, NEW from, NEW to \in ClientPcs, SlotBusy(c, from, to)
       PROVE  TypeOK'
  BY <1>28 DEF SlotBusy, Goto, ClientPcs, TypeOK
<1>29. ASSUME NEW c \in Clients, NEW from, NEW to \in ClientPcs, WaitSlot(c, from, to)
       PROVE  TypeOK'
  BY <1>29 DEF WaitSlot, Goto, ClientPcs, TypeOK
<1>30. ASSUME NEW c \in Clients, Fill(c) PROVE TypeOK'
  <2>1. enqueuePosition \in Slots /\ enqueuePosition' \in Slots
    BY <1>30, SlotFacts DEF Fill, TypeOK
  <2>2. cpc' \in [Clients -> ClientPcs]
    BY <1>30 DEF Fill, Goto, TypeOK, ClientPcs
  <2>3. call' \in [Clients -> Calls]
    <3> DEFINE k == call[c]
               new == [k EXCEPT !.slot = enqueuePosition, !.left = @ - 1, !.next = @ + k.per,
                                !.rem = IF @ > 0 THEN @ - 1 ELSE 0,
                                !.per = IF k.rem = 1 THEN @ - 1 ELSE @]
    <3>1. new \in Calls
      <4>1. /\ k.left - 1 \in Int /\ k.next + k.per \in Int
            /\ (IF k.rem > 0 THEN k.rem - 1 ELSE 0) \in Int
            /\ (IF k.rem = 1 THEN k.per - 1 ELSE k.per) \in Int
        BY CallFields
      <4> QED
        BY <2>1, <4>1, CallFields DEF Calls
    <3>2. call' = [call EXCEPT ![c] = new]
      BY <1>30 DEF Fill
    <3> QED
      BY <3>1, <3>2 DEF TypeOK
  <2>4. item' \in [Slots -> Items]
    <3> DEFINE k == call[c]
               f == IF k.type = "crypt" THEN k.first ELSE item[enqueuePosition].first
               new == [type |-> k.type, owner |-> c, first |-> f,
                       start |-> k.next, count |-> k.per]
    <3>1. f \in Slots
      BY <2>1, CallFields, ItemFields
    <3>2. item' = [item EXCEPT ![enqueuePosition] = new]
      BY <1>30 DEF Fill
    <3> HIDE DEF f
    <3>3. new \in Items
      BY <3>1, CallFields DEF Items
    <3> QED
      BY <2>1, <3>2, <3>3 DEF TypeOK
  <2> QED
    BY <1>30, <2>1, <2>2, <2>3, <2>4 DEF Fill, TypeOK
<1>31. ASSUME NEW c \in Clients, IncrementOutstanding(c)
       PROVE  TypeOK'
  BY <1>31 DEF IncrementOutstanding, Goto, ClientPcs, TypeOK
<1>32. ASSUME NEW c \in Clients, ClearNoOutstanding(c)
       PROVE  TypeOK'
  BY <1>32 DEF ClearNoOutstanding, Goto, ClientPcs, TypeOK
<1>33. ASSUME NEW c \in Clients, SetReady(c)
       PROVE  TypeOK'
  BY <1>33 DEF SetReady, Goto, ClientPcs, TypeOK
<1>34. ASSUME NEW c \in Clients, Notify(c)
       PROVE  TypeOK'
  BY <1>34 DEF Notify, Goto, ClientPcs, TypeOK
<1>35. ASSUME NEW c \in Clients, Unlock(c) PROVE TypeOK'
  <2>2. cpc' \in [Clients -> ClientPcs]
    BY <1>35 DEF Unlock, Goto, TypeOK, ClientPcs
  <2>3. call' \in [Clients -> Calls]
    BY <1>35, SlotFacts DEF Unlock, TypeOK, NoCall, NewCall, Calls
  <2> QED
    BY <1>35, <2>2, <2>3 DEF Unlock, TypeOK
<1>36. ASSUME NEW c \in Clients, Await(c)
       PROVE  TypeOK'
  BY <1>36 DEF Await, Goto, ClientPcs, TypeOK
<1>37. ASSUME NEW c \in Clients, FreeFirst(c)
       PROVE  TypeOK'
  BY <1>37 DEF FreeFirst, Goto, ClientPcs, TypeOK
<1>38. ASSUME NEW c \in Clients, SignalFirst(c)
       PROVE  TypeOK'
  BY <1>38 DEF SignalFirst, Goto, ClientPcs, TypeOK
<1>39. ASSUME NEW c \in Clients, Return(c) PROVE TypeOK'
  <2>2. cpc' \in [Clients -> ClientPcs]
    BY <1>39 DEF Return, Goto, TypeOK, ClientPcs
  <2>3. call' \in [Clients -> Calls]
    BY <1>39, SlotFacts DEF Return, TypeOK, NoCall, NewCall, Calls
  <2>4. applied' \in [Clients -> [Units -> Nat]]
    BY <1>39 DEF Return, TypeOK
  <2>5. units' \in [Clients -> 0..MaxUnits]
    BY <1>39, PoolAssumption DEF Return, TypeOK
  <2> QED
    BY <1>39, <2>2, <2>3, <2>4, <2>5 DEF Return, TypeOK
<1>40. ASSUME UNCHANGED vars PROVE TypeOK'
  BY <1>40 DEF vars, TypeOK
<1> QED
  BY <1>1, <1>2, <1>3, <1>4, <1>5, <1>6, <1>7, <1>8, <1>9, <1>10, <1>11, <1>12,
     <1>13, <1>14, <1>15, <1>16, <1>17, <1>17a, <1>18, <1>19, <1>20, <1>21, <1>22,
     <1>23, <1>24, <1>25, <1>26, <1>27, <1>28, <1>29, <1>30, <1>31, <1>32,
     <1>33, <1>34, <1>35, <1>36, <1>37, <1>38, <1>39, <1>40 DEF Next, CallNext,
     HeaderNext, WorkerOnCall, WorkerOnHeader, EnterCall, EnterHeader, InsideCall, InsideHeader, WorkerPcs, ClientPcs

(* Every step keeps the pool's use inside the time it runs. *)
LEMMA QuietStep == TypeOK /\ Quiet /\ Typed /\ OneWaiterPerEvent /\ [Next]_vars => Quiet'
<1> SUFFICES ASSUME TypeOK, Quiet, Typed, OneWaiterPerEvent, [Next]_vars PROVE Quiet'
  OBVIOUS
<1> USE PoolAssumption DEF Outside, stopVars, ringVars, slotVars, workerVars,
            clientVars, dataVars, headerVars
<1>1. ASSUME Start
       PROVE  Quiet'
  BY <1>1 DEF Start, Quiet, TypeOK, MakeFreshQueue
<1>2. ASSUME NEW created \in SUBSET Workers, StartFails(created)
       PROVE  Quiet'
  BY <1>2 DEF StartFails, Quiet, TypeOK, MakeFreshQueue
<1>3. ASSUME StopBegin
       PROVE  Quiet'
  BY <1>3 DEF StopBegin, Quiet, TypeOK, Quiescent
<1>4. ASSUME StopSignal
       PROVE  Quiet'
  BY <1>4 DEF StopSignal, Quiet, TypeOK
<1>5. ASSUME StopJoin
       PROVE  Quiet'
  BY <1>5 DEF StopJoin, Quiet, TypeOK, Alive
<1>6. ASSUME NEW w \in Workers, WorkerLoop(w)
       PROVE  Quiet'
  BY <1>6 DEF WorkerLoop, WorkerGoto, Quiet, TypeOK
<1>7. ASSUME NEW w \in Workers, WorkerDequeue(w)
       PROVE  Quiet'
  BY <1>7 DEF WorkerDequeue, WorkerGoto, Quiet, TypeOK, MutexFree
<1>8. ASSUME NEW w \in Workers, WorkerTake(w)
       PROVE  Quiet'
  BY <1>8 DEF WorkerTake, WorkerGoto, Quiet, TypeOK
<1>9. ASSUME NEW w \in Workers, WorkerNotReady(w)
       PROVE  Quiet'
  BY <1>9 DEF WorkerNotReady, WorkerGoto, Quiet, TypeOK
<1>10. ASSUME NEW w \in Workers, WorkerWait(w)
       PROVE  Quiet'
  BY <1>10 DEF WorkerWait, WorkerGoto, Quiet, TypeOK
<1>11. ASSUME NEW w \in Workers, WorkerDispatch(w)
       PROVE  Quiet'
  BY <1>11 DEF WorkerDispatch, WorkerGoto, Quiet, TypeOK
<1>12. ASSUME NEW w \in Workers, WorkerCrypt(w)
       PROVE  Quiet'
  BY <1>12 DEF WorkerCrypt, WorkerGoto, Quiet, TypeOK, AfterCrypt
<1>13. ASSUME NEW w \in Workers, NEW from, from \notin {"off", "taken"}, NEW to, to
            \notin {"check", "wait", "taken"}, WorkerFree(w, from, to)
       PROVE  Quiet'
  BY <1>13 DEF WorkerFree, WorkerGoto, Quiet, TypeOK
<1>14. ASSUME NEW w \in Workers, NEW from, from \notin {"off", "taken"}, NEW to, to
            \notin {"check", "wait", "taken"}, WorkerSignalFree(w, from, to)
       PROVE  Quiet'
  BY <1>14 DEF WorkerSignalFree, WorkerGoto, Quiet, TypeOK
<1>15. ASSUME NEW w \in Workers, WorkerAccount(w)
       PROVE  Quiet'
  BY <1>15 DEF WorkerAccount, WorkerGoto, Quiet, TypeOK
<1>16. ASSUME NEW w \in Workers, WorkerSignalItem(w)
       PROVE  Quiet'
  BY <1>16 DEF WorkerSignalItem, WorkerGoto, Quiet, TypeOK
<1>17. ASSUME NEW w \in Workers, WorkerDerive(w)
       PROVE  Quiet'
  BY <1>17 DEF WorkerDerive, WorkerGoto, Quiet, TypeOK
<1>17a. ASSUME NEW w \in Workers, WorkerRaise(w)
       PROVE  Quiet'
  BY <1>17a DEF WorkerRaise, WorkerGoto, Quiet, TypeOK
<1>18. ASSUME NEW w \in Workers, WorkerCountDown(w)
       PROVE  Quiet'
  BY <1>18 DEF WorkerCountDown, WorkerGoto, Quiet, TypeOK
<1>19. ASSUME NEW w \in Workers, WorkerSignalNone(w)
       PROVE  Quiet'
  BY <1>19 DEF WorkerSignalNone, WorkerGoto, Quiet, TypeOK
<1>20. ASSUME NEW w \in Workers, WorkerFinalizeWait(w)
       PROVE  Quiet'
  BY <1>20 DEF WorkerFinalizeWait, WorkerGoto, Quiet, TypeOK
<1>21. ASSUME NEW w \in Workers, WorkerBurn(w)
       PROVE  Quiet'
  BY <1>21 DEF WorkerBurn, WorkerGoto, Quiet, TypeOK
<1>22. ASSUME NEW c \in Clients, NEW n \in Units, DoWork(c, n), spc = "idle"
       PROVE  Quiet'
  BY <1>22 DEF DoWork, Goto, Quiet, TypeOK
<1>23. ASSUME NEW c \in Clients, BeginKeyDerivation(c), spc = "idle"
       PROVE  Quiet'
  BY <1>23 DEF BeginKeyDerivation, Goto, Quiet, TypeOK
<1>24. ASSUME NEW c \in Clients, BeginReadVolumeHeaderFinalization(c), spc = "idle"
       PROVE  Quiet'
  BY <1>24 DEF BeginReadVolumeHeaderFinalization, Goto, Quiet, TypeOK
<1>25. ASSUME NEW c \in Clients, CryptInline(c)
       PROVE  Quiet'
  BY <1>25 DEF CryptInline, Goto, Quiet, TypeOK
<1>26. ASSUME NEW c \in Clients, Lock(c)
       PROVE  Quiet'
  BY <1>26 DEF Lock, Goto, Quiet, TypeOK, MutexFree
<1>27. ASSUME NEW c \in Clients, SetFragmentCount(c)
       PROVE  Quiet'
  BY <1>27 DEF SetFragmentCount, Goto, Quiet, TypeOK
<1>28. ASSUME NEW c \in Clients, NEW p \in {"first", "slot"}, NEW q, q = (IF p = "first"
            THEN "firstWait" ELSE "slotWait"), SlotBusy(c, p, q)
       PROVE  Quiet'
  BY <1>28 DEF SlotBusy, Goto, Quiet, TypeOK
<1>29. ASSUME NEW c \in Clients, NEW p \in {"first", "slot"}, NEW q, q = (IF p = "first"
            THEN "firstWait" ELSE "slotWait"), WaitSlot(c, q, p)
       PROVE  Quiet'
  BY <1>29 DEF WaitSlot, Goto, Quiet, TypeOK
<1>30. ASSUME NEW c \in Clients, Fill(c)
       PROVE  Quiet'
  BY <1>30 DEF Fill, Goto, Quiet, TypeOK
<1>31. ASSUME NEW c \in Clients, IncrementOutstanding(c)
       PROVE  Quiet'
  BY <1>31 DEF IncrementOutstanding, Goto, Quiet, TypeOK
<1>32. ASSUME NEW c \in Clients, ClearNoOutstanding(c)
       PROVE  Quiet'
  BY <1>32 DEF ClearNoOutstanding, Goto, Quiet, TypeOK
<1>33. ASSUME NEW c \in Clients, SetReady(c)
       PROVE  Quiet'
  BY <1>33 DEF SetReady, Goto, Quiet, TypeOK
<1>34. ASSUME NEW c \in Clients, Notify(c)
       PROVE  Quiet'
  BY <1>34 DEF Notify, Goto, Quiet, TypeOK
<1>35. ASSUME NEW c \in Clients, Unlock(c)
       PROVE  Quiet'
  BY <1>35 DEF Unlock, Goto, Quiet, TypeOK
<1>36. ASSUME NEW c \in Clients, Await(c)
       PROVE  Quiet'
  BY <1>36 DEF Await, Goto, Quiet, TypeOK
<1>37. ASSUME NEW c \in Clients, FreeFirst(c)
       PROVE  Quiet'
  BY <1>37 DEF FreeFirst, Goto, Quiet, TypeOK
<1>38. ASSUME NEW c \in Clients, SignalFirst(c)
       PROVE  Quiet'
  BY <1>38 DEF SignalFirst, Goto, Quiet, TypeOK
<1>39. ASSUME NEW c \in Clients, Return(c)
       PROVE  Quiet'
  BY <1>39 DEF Return, Goto, Quiet, TypeOK
<1>40. ASSUME UNCHANGED vars PROVE Quiet'
  BY <1>40 DEF vars, Quiet
<1> QED
  BY <1>1, <1>2, <1>3, <1>4, <1>5, <1>6, <1>7, <1>8, <1>9, <1>10, <1>11, <1>12,
     <1>13, <1>14, <1>15, <1>16, <1>17, <1>17a, <1>18, <1>19, <1>20, <1>21, <1>22,
     <1>23, <1>24, <1>25, <1>26, <1>27, <1>28, <1>29, <1>30, <1>31, <1>32,
     <1>33, <1>34, <1>35, <1>36, <1>37, <1>38, <1>39, <1>40 DEF Next, CallNext,
     HeaderNext, WorkerOnCall, WorkerOnHeader, EnterCall, EnterHeader, InsideCall, InsideHeader

(* Every step keeps the ready items well-formed. *)
LEMMA TypedStep == TypeOK /\ Quiet /\ Typed /\ OneWaiterPerEvent /\ [Next]_vars => Typed'
<1> SUFFICES ASSUME TypeOK, Quiet, Typed, OneWaiterPerEvent, [Next]_vars PROVE Typed'
  OBVIOUS
<1> USE PoolAssumption DEF Outside, stopVars, ringVars, slotVars, workerVars,
            clientVars, dataVars, headerVars
<1>1. ASSUME Start
       PROVE  Typed'
  BY <1>1 DEF Start, Typed, TypeOK, MakeFreshQueue, WorkTypes, NewCall, NoCall, Items,
     Calls, Quiet
<1>2. ASSUME NEW created \in SUBSET Workers, StartFails(created)
       PROVE  Typed'
  BY <1>2 DEF StartFails, Typed, TypeOK, MakeFreshQueue, WorkTypes, NewCall, NoCall,
     Items, Calls, Quiet
<1>3. ASSUME StopBegin
       PROVE  Typed'
  BY <1>3 DEF StopBegin, Typed, TypeOK, Quiescent, WorkTypes, NewCall, NoCall, Items, Calls
<1>4. ASSUME StopSignal
       PROVE  Typed'
  BY <1>4 DEF StopSignal, Typed, TypeOK, WorkTypes, NewCall, NoCall, Items, Calls
<1>5. ASSUME StopJoin
       PROVE  Typed'
  BY <1>5 DEF StopJoin, Typed, TypeOK, Alive, WorkTypes, NewCall, NoCall, Items, Calls
<1>6. ASSUME NEW w \in Workers, WorkerLoop(w)
       PROVE  Typed'
  BY <1>6 DEF WorkerLoop, WorkerGoto, Typed, TypeOK, WorkTypes, NewCall, NoCall, Items,
     Calls
<1>7. ASSUME NEW w \in Workers, WorkerDequeue(w)
       PROVE  Typed'
  BY <1>7 DEF WorkerDequeue, WorkerGoto, Typed, TypeOK, MutexFree, WorkTypes, NewCall,
     NoCall, Items, Calls
<1>8. ASSUME NEW w \in Workers, WorkerTake(w)
       PROVE  Typed'
  BY <1>8 DEF WorkerTake, WorkerGoto, Typed, TypeOK, WorkTypes, NewCall, NoCall, Items,
     Calls
<1>9. ASSUME NEW w \in Workers, WorkerNotReady(w)
       PROVE  Typed'
  BY <1>9 DEF WorkerNotReady, WorkerGoto, Typed, TypeOK, WorkTypes, NewCall, NoCall,
     Items, Calls
<1>10. ASSUME NEW w \in Workers, WorkerWait(w)
       PROVE  Typed'
  BY <1>10 DEF WorkerWait, WorkerGoto, Typed, TypeOK, WorkTypes, NewCall, NoCall, Items,
     Calls
<1>11. ASSUME NEW w \in Workers, WorkerDispatch(w)
       PROVE  Typed'
  BY <1>11 DEF WorkerDispatch, WorkerGoto, Typed, TypeOK, WorkTypes, NewCall, NoCall,
     Items, Calls
<1>12. ASSUME NEW w \in Workers, WorkerCrypt(w)
       PROVE  Typed'
  BY <1>12 DEF WorkerCrypt, WorkerGoto, Typed, TypeOK, AfterCrypt, WorkTypes, NewCall,
     NoCall, Items, Calls
<1>13. ASSUME NEW w \in Workers, NEW from, from \notin {"off", "taken"}, NEW to, to
            \notin {"check", "wait", "taken"}, WorkerFree(w, from, to)
       PROVE  Typed'
  BY <1>13 DEF WorkerFree, WorkerGoto, Typed, TypeOK, WorkTypes, NewCall, NoCall, Items,
     Calls
<1>14. ASSUME NEW w \in Workers, NEW from, from \notin {"off", "taken"}, NEW to, to
            \notin {"check", "wait", "taken"}, WorkerSignalFree(w, from, to)
       PROVE  Typed'
  BY <1>14 DEF WorkerSignalFree, WorkerGoto, Typed, TypeOK, WorkTypes, NewCall, NoCall,
     Items, Calls
<1>15. ASSUME NEW w \in Workers, WorkerAccount(w)
       PROVE  Typed'
  BY <1>15 DEF WorkerAccount, WorkerGoto, Typed, TypeOK, WorkTypes, NewCall, NoCall,
     Items, Calls
<1>16. ASSUME NEW w \in Workers, WorkerSignalItem(w)
       PROVE  Typed'
  BY <1>16 DEF WorkerSignalItem, WorkerGoto, Typed, TypeOK, WorkTypes, NewCall, NoCall,
     Items, Calls
<1>17. ASSUME NEW w \in Workers, WorkerDerive(w)
       PROVE  Typed'
  BY <1>17 DEF WorkerDerive, WorkerGoto, Typed, TypeOK, WorkTypes, NewCall, NoCall,
     Items, Calls
<1>17a. ASSUME NEW w \in Workers, WorkerRaise(w)
       PROVE  Typed'
  BY <1>17a DEF WorkerRaise, WorkerGoto, Typed, TypeOK, WorkTypes, NewCall, NoCall,
     Items, Calls
<1>18. ASSUME NEW w \in Workers, WorkerCountDown(w)
       PROVE  Typed'
  BY <1>18 DEF WorkerCountDown, WorkerGoto, Typed, TypeOK, WorkTypes, NewCall, NoCall,
     Items, Calls
<1>19. ASSUME NEW w \in Workers, WorkerSignalNone(w)
       PROVE  Typed'
  BY <1>19 DEF WorkerSignalNone, WorkerGoto, Typed, TypeOK, WorkTypes, NewCall, NoCall,
     Items, Calls
<1>20. ASSUME NEW w \in Workers, WorkerFinalizeWait(w)
       PROVE  Typed'
  BY <1>20 DEF WorkerFinalizeWait, WorkerGoto, Typed, TypeOK, WorkTypes, NewCall,
     NoCall, Items, Calls
<1>21. ASSUME NEW w \in Workers, WorkerBurn(w)
       PROVE  Typed'
  BY <1>21 DEF WorkerBurn, WorkerGoto, Typed, TypeOK, WorkTypes, NewCall, NoCall, Items,
     Calls
<1>22. ASSUME NEW c \in Clients, NEW n \in Units, DoWork(c, n), spc = "idle"
       PROVE  Typed'
  BY <1>22 DEF DoWork, Goto, Typed, TypeOK, WorkTypes, NewCall, NoCall, Items, Calls
<1>23. ASSUME NEW c \in Clients, BeginKeyDerivation(c), spc = "idle"
       PROVE  Typed'
  BY <1>23 DEF BeginKeyDerivation, Goto, Typed, TypeOK, WorkTypes, NewCall, NoCall,
     Items, Calls
<1>24. ASSUME NEW c \in Clients, BeginReadVolumeHeaderFinalization(c), spc = "idle"
       PROVE  Typed'
  BY <1>24 DEF BeginReadVolumeHeaderFinalization, Goto, Typed, TypeOK, WorkTypes,
     NewCall, NoCall, Items, Calls
<1>25. ASSUME NEW c \in Clients, CryptInline(c)
       PROVE  Typed'
  BY <1>25 DEF CryptInline, Goto, Typed, TypeOK, WorkTypes, NewCall, NoCall, Items, Calls
<1>26. ASSUME NEW c \in Clients, Lock(c)
       PROVE  Typed'
  BY <1>26 DEF Lock, Goto, Typed, TypeOK, MutexFree, WorkTypes, NewCall, NoCall, Items,
     Calls
<1>27. ASSUME NEW c \in Clients, SetFragmentCount(c)
       PROVE  Typed'
  BY <1>27 DEF SetFragmentCount, Goto, Typed, TypeOK, WorkTypes, NewCall, NoCall, Items,
     Calls
<1>28. ASSUME NEW c \in Clients, NEW p \in {"first", "slot"}, NEW q, q = (IF p = "first"
            THEN "firstWait" ELSE "slotWait"), SlotBusy(c, p, q)
       PROVE  Typed'
  BY <1>28 DEF SlotBusy, Goto, Typed, TypeOK, WorkTypes, NewCall, NoCall, Items, Calls
<1>29. ASSUME NEW c \in Clients, NEW p \in {"first", "slot"}, NEW q, q = (IF p = "first"
            THEN "firstWait" ELSE "slotWait"), WaitSlot(c, q, p)
       PROVE  Typed'
  BY <1>29 DEF WaitSlot, Goto, Typed, TypeOK, WorkTypes, NewCall, NoCall, Items, Calls
<1>30. ASSUME NEW c \in Clients, Fill(c)
       PROVE  Typed'
  <2>1. /\ cpc[c] = "slot" /\ call[c].type \in WorkTypes
        /\ enqueuePosition \in Slots /\ state[enqueuePosition] = "Free"
    BY <1>30 DEF Fill, Goto, Typed, TypeOK
  <2>2. /\ cpc' = [cpc EXCEPT ![c] = IF call[c].type = "derive" THEN "increment" ELSE "ready"]
        /\ \A d \in Clients : d # c => call'[d] = call[d]
        /\ call'[c].type = call[c].type /\ call'[c].slot = enqueuePosition
        /\ \A s \in Slots : s # enqueuePosition => item'[s] = item[s]
        /\ item'[enqueuePosition].type = call[c].type
        /\ UNCHANGED <<state, wpc, wslot, stopPending>>
    BY <1>30, <2>1 DEF Fill, Goto, TypeOK, Calls
  <2>3. \A d \in Clients : cpc'[d] \notin Outside => call'[d].type \in WorkTypes
    BY <2>1, <2>2 DEF Typed, TypeOK
  <2>4. \A d \in Clients : cpc'[d] \in {"increment", "clear", "ready"} =>
           item'[call'[d].slot].type \in WorkTypes
    BY <2>1, <2>2 DEF Typed, TypeOK, Calls
  <2>5. \A s \in Slots : state'[s] = "Ready" => item'[s].type \in WorkTypes
    BY <2>1, <2>2 DEF Typed, TypeOK
  <2>6. \A w \in Workers : wpc'[w] = "taken" /\ ~stopPending' =>
           item'[wslot'[w]].type \in WorkTypes
    BY <2>1, <2>2 DEF Typed, TypeOK
  <2> QED
    BY <2>3, <2>4, <2>5, <2>6 DEF Typed
<1>31. ASSUME NEW c \in Clients, IncrementOutstanding(c)
       PROVE  Typed'
  BY <1>31 DEF IncrementOutstanding, Goto, Typed, TypeOK, WorkTypes, NewCall, NoCall,
     Items, Calls
<1>32. ASSUME NEW c \in Clients, ClearNoOutstanding(c)
       PROVE  Typed'
  BY <1>32 DEF ClearNoOutstanding, Goto, Typed, TypeOK, WorkTypes, NewCall, NoCall,
     Items, Calls
<1>33. ASSUME NEW c \in Clients, SetReady(c)
       PROVE  Typed'
  BY <1>33 DEF SetReady, Goto, Typed, TypeOK, WorkTypes, NewCall, NoCall, Items, Calls
<1>34. ASSUME NEW c \in Clients, Notify(c)
       PROVE  Typed'
  BY <1>34 DEF Notify, Goto, Typed, TypeOK, WorkTypes, NewCall, NoCall, Items, Calls
<1>35. ASSUME NEW c \in Clients, Unlock(c)
       PROVE  Typed'
  BY <1>35 DEF Unlock, Goto, Typed, TypeOK, WorkTypes, NewCall, NoCall, Items, Calls
<1>36. ASSUME NEW c \in Clients, Await(c)
       PROVE  Typed'
  BY <1>36 DEF Await, Goto, Typed, TypeOK, WorkTypes, NewCall, NoCall, Items, Calls
<1>37. ASSUME NEW c \in Clients, FreeFirst(c)
       PROVE  Typed'
  BY <1>37 DEF FreeFirst, Goto, Typed, TypeOK, WorkTypes, NewCall, NoCall, Items, Calls
<1>38. ASSUME NEW c \in Clients, SignalFirst(c)
       PROVE  Typed'
  BY <1>38 DEF SignalFirst, Goto, Typed, TypeOK, WorkTypes, NewCall, NoCall, Items, Calls
<1>39. ASSUME NEW c \in Clients, Return(c)
       PROVE  Typed'
  BY <1>39 DEF Return, Goto, Typed, TypeOK, WorkTypes, NewCall, NoCall, Items, Calls
<1>40. ASSUME UNCHANGED vars PROVE Typed'
  BY <1>40 DEF vars, Typed
<1> QED
  BY <1>1, <1>2, <1>3, <1>4, <1>5, <1>6, <1>7, <1>8, <1>9, <1>10, <1>11, <1>12,
     <1>13, <1>14, <1>15, <1>16, <1>17, <1>17a, <1>18, <1>19, <1>20, <1>21, <1>22,
     <1>23, <1>24, <1>25, <1>26, <1>27, <1>28, <1>29, <1>30, <1>31, <1>32,
     <1>33, <1>34, <1>35, <1>36, <1>37, <1>38, <1>39, <1>40 DEF Next, CallNext,
     HeaderNext, WorkerOnCall, WorkerOnHeader, EnterCall, EnterHeader, InsideCall, InsideHeader

(* Every step keeps the waiters apart. *)
LEMMA OneWaiterPerEventStep == TypeOK /\ Quiet /\ Typed /\ OneWaiterPerEvent /\ [Next]_vars => OneWaiterPerEvent'
<1> SUFFICES ASSUME TypeOK, Quiet, Typed, OneWaiterPerEvent, [Next]_vars PROVE
            OneWaiterPerEvent'
  OBVIOUS
<1> USE PoolAssumption DEF Outside, stopVars, ringVars, slotVars, workerVars,
            clientVars, dataVars, headerVars
<1>1. ASSUME Start
       PROVE  OneWaiterPerEvent'
  BY <1>1 DEF Start, OneWaiterPerEvent, TypeOK, MakeFreshQueue, Quiet
<1>2. ASSUME NEW created \in SUBSET Workers, StartFails(created)
       PROVE  OneWaiterPerEvent'
  BY <1>2 DEF StartFails, OneWaiterPerEvent, TypeOK, MakeFreshQueue, Quiet
<1>3. ASSUME StopBegin
       PROVE  OneWaiterPerEvent'
  BY <1>3 DEF StopBegin, OneWaiterPerEvent, TypeOK, Quiescent
<1>4. ASSUME StopSignal
       PROVE  OneWaiterPerEvent'
  BY <1>4 DEF StopSignal, OneWaiterPerEvent, TypeOK
<1>5. ASSUME StopJoin
       PROVE  OneWaiterPerEvent'
  BY <1>5 DEF StopJoin, OneWaiterPerEvent, TypeOK, Alive
<1>6. ASSUME NEW w \in Workers, WorkerLoop(w)
       PROVE  OneWaiterPerEvent'
  BY <1>6 DEF WorkerLoop, WorkerGoto, OneWaiterPerEvent, TypeOK
<1>7. ASSUME NEW w \in Workers, WorkerDequeue(w)
       PROVE  OneWaiterPerEvent'
  BY <1>7 DEF WorkerDequeue, WorkerGoto, OneWaiterPerEvent, TypeOK, MutexFree
<1>8. ASSUME NEW w \in Workers, WorkerTake(w)
       PROVE  OneWaiterPerEvent'
  BY <1>8 DEF WorkerTake, WorkerGoto, OneWaiterPerEvent, TypeOK
<1>9. ASSUME NEW w \in Workers, WorkerNotReady(w)
       PROVE  OneWaiterPerEvent'
  BY <1>9 DEF WorkerNotReady, WorkerGoto, OneWaiterPerEvent, TypeOK
<1>10. ASSUME NEW w \in Workers, WorkerWait(w)
       PROVE  OneWaiterPerEvent'
  BY <1>10 DEF WorkerWait, WorkerGoto, OneWaiterPerEvent, TypeOK
<1>11. ASSUME NEW w \in Workers, WorkerDispatch(w)
       PROVE  OneWaiterPerEvent'
  BY <1>11 DEF WorkerDispatch, WorkerGoto, OneWaiterPerEvent, TypeOK, Typed, WorkTypes
<1>12. ASSUME NEW w \in Workers, WorkerCrypt(w)
       PROVE  OneWaiterPerEvent'
  BY <1>12 DEF WorkerCrypt, WorkerGoto, OneWaiterPerEvent, TypeOK, AfterCrypt
<1>13. ASSUME NEW w \in Workers, NEW from, from \notin {"off", "taken"}, NEW to, to
            \notin {"check", "wait", "taken"}, WorkerFree(w, from, to)
       PROVE  OneWaiterPerEvent'
  BY <1>13 DEF WorkerFree, WorkerGoto, OneWaiterPerEvent, TypeOK
<1>14. ASSUME NEW w \in Workers, NEW from, from \notin {"off", "taken"}, NEW to, to
            \notin {"check", "wait", "taken"}, WorkerSignalFree(w, from, to)
       PROVE  OneWaiterPerEvent'
  BY <1>14 DEF WorkerSignalFree, WorkerGoto, OneWaiterPerEvent, TypeOK
<1>15. ASSUME NEW w \in Workers, WorkerAccount(w)
       PROVE  OneWaiterPerEvent'
  BY <1>15 DEF WorkerAccount, WorkerGoto, OneWaiterPerEvent, TypeOK
<1>16. ASSUME NEW w \in Workers, WorkerSignalItem(w)
       PROVE  OneWaiterPerEvent'
  BY <1>16 DEF WorkerSignalItem, WorkerGoto, OneWaiterPerEvent, TypeOK
<1>17. ASSUME NEW w \in Workers, WorkerDerive(w)
       PROVE  OneWaiterPerEvent'
  BY <1>17 DEF WorkerDerive, WorkerGoto, OneWaiterPerEvent, TypeOK
<1>17a. ASSUME NEW w \in Workers, WorkerRaise(w)
       PROVE  OneWaiterPerEvent'
  BY <1>17a DEF WorkerRaise, WorkerGoto, OneWaiterPerEvent, TypeOK
<1>18. ASSUME NEW w \in Workers, WorkerCountDown(w)
       PROVE  OneWaiterPerEvent'
  BY <1>18 DEF WorkerCountDown, WorkerGoto, OneWaiterPerEvent, TypeOK
<1>19. ASSUME NEW w \in Workers, WorkerSignalNone(w)
       PROVE  OneWaiterPerEvent'
  BY <1>19 DEF WorkerSignalNone, WorkerGoto, OneWaiterPerEvent, TypeOK
<1>20. ASSUME NEW w \in Workers, WorkerFinalizeWait(w)
       PROVE  OneWaiterPerEvent'
  BY <1>20 DEF WorkerFinalizeWait, WorkerGoto, OneWaiterPerEvent, TypeOK
<1>21. ASSUME NEW w \in Workers, WorkerBurn(w)
       PROVE  OneWaiterPerEvent'
  BY <1>21 DEF WorkerBurn, WorkerGoto, OneWaiterPerEvent, TypeOK
<1>22. ASSUME NEW c \in Clients, NEW n \in Units, DoWork(c, n), spc = "idle"
       PROVE  OneWaiterPerEvent'
  BY <1>22 DEF DoWork, Goto, OneWaiterPerEvent, TypeOK
<1>23. ASSUME NEW c \in Clients, BeginKeyDerivation(c), spc = "idle"
       PROVE  OneWaiterPerEvent'
  BY <1>23 DEF BeginKeyDerivation, Goto, OneWaiterPerEvent, TypeOK
<1>24. ASSUME NEW c \in Clients, BeginReadVolumeHeaderFinalization(c), spc = "idle"
       PROVE  OneWaiterPerEvent'
  BY <1>24 DEF BeginReadVolumeHeaderFinalization, Goto, OneWaiterPerEvent, TypeOK
<1>25. ASSUME NEW c \in Clients, CryptInline(c)
       PROVE  OneWaiterPerEvent'
  BY <1>25 DEF CryptInline, Goto, OneWaiterPerEvent, TypeOK
<1>26. ASSUME NEW c \in Clients, Lock(c)
       PROVE  OneWaiterPerEvent'
  BY <1>26 DEF Lock, Goto, OneWaiterPerEvent, TypeOK, MutexFree
<1>27. ASSUME NEW c \in Clients, SetFragmentCount(c)
       PROVE  OneWaiterPerEvent'
  BY <1>27 DEF SetFragmentCount, Goto, OneWaiterPerEvent, TypeOK
<1>28. ASSUME NEW c \in Clients, NEW p \in {"first", "slot"}, NEW q, q = (IF p = "first"
            THEN "firstWait" ELSE "slotWait"), SlotBusy(c, p, q)
       PROVE  OneWaiterPerEvent'
  BY <1>28 DEF SlotBusy, Goto, OneWaiterPerEvent, TypeOK
<1>29. ASSUME NEW c \in Clients, NEW p \in {"first", "slot"}, NEW q, q = (IF p = "first"
            THEN "firstWait" ELSE "slotWait"), WaitSlot(c, q, p)
       PROVE  OneWaiterPerEvent'
  BY <1>29 DEF WaitSlot, Goto, OneWaiterPerEvent, TypeOK
<1>30. ASSUME NEW c \in Clients, Fill(c)
       PROVE  OneWaiterPerEvent'
  BY <1>30 DEF Fill, Goto, OneWaiterPerEvent, TypeOK
<1>31. ASSUME NEW c \in Clients, IncrementOutstanding(c)
       PROVE  OneWaiterPerEvent'
  BY <1>31 DEF IncrementOutstanding, Goto, OneWaiterPerEvent, TypeOK
<1>32. ASSUME NEW c \in Clients, ClearNoOutstanding(c)
       PROVE  OneWaiterPerEvent'
  BY <1>32 DEF ClearNoOutstanding, Goto, OneWaiterPerEvent, TypeOK
<1>33. ASSUME NEW c \in Clients, SetReady(c)
       PROVE  OneWaiterPerEvent'
  BY <1>33 DEF SetReady, Goto, OneWaiterPerEvent, TypeOK
<1>34. ASSUME NEW c \in Clients, Notify(c)
       PROVE  OneWaiterPerEvent'
  BY <1>34 DEF Notify, Goto, OneWaiterPerEvent, TypeOK
<1>35. ASSUME NEW c \in Clients, Unlock(c)
       PROVE  OneWaiterPerEvent'
  BY <1>35 DEF Unlock, Goto, OneWaiterPerEvent, TypeOK
<1>36. ASSUME NEW c \in Clients, Await(c)
       PROVE  OneWaiterPerEvent'
  BY <1>36 DEF Await, Goto, OneWaiterPerEvent, TypeOK
<1>37. ASSUME NEW c \in Clients, FreeFirst(c)
       PROVE  OneWaiterPerEvent'
  BY <1>37 DEF FreeFirst, Goto, OneWaiterPerEvent, TypeOK
<1>38. ASSUME NEW c \in Clients, SignalFirst(c)
       PROVE  OneWaiterPerEvent'
  BY <1>38 DEF SignalFirst, Goto, OneWaiterPerEvent, TypeOK
<1>39. ASSUME NEW c \in Clients, Return(c)
       PROVE  OneWaiterPerEvent'
  BY <1>39 DEF Return, Goto, OneWaiterPerEvent, TypeOK
<1>40. ASSUME UNCHANGED vars PROVE OneWaiterPerEvent'
  BY <1>40 DEF vars, OneWaiterPerEvent
<1> QED
  BY <1>1, <1>2, <1>3, <1>4, <1>5, <1>6, <1>7, <1>8, <1>9, <1>10, <1>11, <1>12,
     <1>13, <1>14, <1>15, <1>16, <1>17, <1>17a, <1>18, <1>19, <1>20, <1>21, <1>22,
     <1>23, <1>24, <1>25, <1>26, <1>27, <1>28, <1>29, <1>30, <1>31, <1>32,
     <1>33, <1>34, <1>35, <1>36, <1>37, <1>38, <1>39, <1>40 DEF Next, CallNext,
     HeaderNext, WorkerOnCall, WorkerOnHeader, EnterCall, EnterHeader, InsideCall, InsideHeader

-----------------------------------------------------------------------------

(* The control invariant holds in every reachable state. *)
THEOREM ControlCorrect == Spec => []ControlInv
<1>1. ControlInv /\ [Next]_vars => ControlInv'
  BY TypeStep, QuietStep, TypedStep, OneWaiterPerEventStep DEF ControlInv
<1> QED
  BY <1>1, ControlInit, PTL DEF Spec

(* The pool's state keeps its shape (EncryptionThreadPool.c). *)
THEOREM TypeCorrect == Spec => []TypeOK
<1>1. ControlInv => TypeOK
  BY DEF ControlInv
<1> QED
  BY <1>1, ControlCorrect, PTL

(* No auto-reset event ever has two waiters: a SetEvent cannot wake the    *)
(* wrong thread (the waits at lines 228 and 551, 591, 671, 684).           *)
THEOREM SingleWaiters == Spec => []OneWaiterPerEvent
<1>1. ControlInv => OneWaiterPerEvent
  BY DEF ControlInv
<1> QED
  BY <1>1, ControlCorrect, PTL


-----------------------------------------------------------------------------
(* The ring of slots: a call's fragments lie in consecutive slots, and     *)
(* nobody gets past its first one as long as that is not free.             *)

(* The way from one slot to another, forward in the ring, and the n slots  *)
(* that begin with slot f.                                                 *)
Dist(f, s) == IF f <= s THEN s - f ELSE s + QueueSize - f
Arc(f, n) == {s \in Slots : Dist(f, s) < n}

(* A call of DoWork that has its first slot, how many fragments it has,    *)
(* how many of them are in slots, and in which slots they are offered.     *)
Adding == {"slot", "slotWait", "ready", "notify"}
Working ==
  {c \in Clients : call[c].type = "crypt" /\ cpc[c] \in Adding \cup {"await", "complete"}}
Total == [c \in Clients |-> FragmentCount(units[c])]
Given == [c \in Clients |-> Total[c] - call[c].left]
Filling == {c \in Clients : cpc[c] \in {"increment", "clear", "ready"}}
Posted == [c \in Clients |->
             {s \in Arc(call[c].first, Given[c]) : c \in Filling => s # call[c].slot}]

(* Where a thread has its slot to itself, where it still looks at it, and  *)
(* where it has not counted its fragment off.                              *)
HeaderWork == {"derive", "raise", "countDown", "signalNone", "finalize", "burn", "free"}
Uncounted == {"taken", "crypt", "freeFragment", "signalFragment", "account"}
Owning == {"taken", "crypt", "freeFragment"} \cup HeaderWork
Using == Uncounted \cup HeaderWork

(* The fragments of a call that are not counted off.                       *)
Owed == [c \in Clients |->
           {s \in Arc(call[c].first, Total[c]) :
              \/ s \notin Posted[c] \/ state[s] = "Ready"
              \/ \E w \in Workers : wslot[w] = s /\ wpc[w] \in Uncounted}]

(* The slots whose items are fragments of calls under way.                 *)
Wanted ==
  {s \in Slots : \E c \in Working :
     /\ item[s].type = "crypt" /\ item[s].owner = c /\ item[s].first = call[c].first
     /\ s \in Posted[c]}

(* What a call brings along, ...                                           *)
Entering ==
  \A c \in Clients :
    /\ call[c].type = "crypt" => units[c] \in Units
    /\ call[c].type = "crypt" /\ cpc[c] \in {"lock", "first", "firstWait"} =>
         call[c].left = Total[c]
    /\ cpc[c] \in {"first", "firstWait"} => call[c].first = enqueuePosition
    /\ cpc[c] \in {"first", "firstWait", "await", "complete"} => call[c].type = "crypt"

(* ... the slots it gets, one after the other from its first, ...          *)
Laid ==
  \A c \in Working :
    /\ call[c].left \in 0..Total[c]
    /\ \A s \in Arc(call[c].first, Given[c]) :
         item[s].type = "crypt" /\ item[s].owner = c /\ item[s].first = call[c].first
    /\ cpc[c] \in {"await", "complete"} => call[c].left = 0

(* ... which nobody gets past as long as the first of them is taken.       *)
Placed ==
  \A c \in Working :
    /\ cpc[c] \in Adding => \/ Dist(call[c].first, enqueuePosition) = Given[c]
                            \/ enqueuePosition = call[c].first /\ Given[c] = QueueSize
    /\ cpc[c] = "ready" => Given[c] >= 1 /\ Dist(call[c].first, call[c].slot) = Given[c] - 1
    /\ enqueuePosition = call[c].first \/ Dist(call[c].first, enqueuePosition) >= Given[c]

FirstTaken ==
  \A c \in Working :
    (state[call[c].first] = "Free" <=> call[c].first \notin Posted[c])

(* A slot that is being filled is nobody else's.                           *)
Filled ==
  \A c \in Filling :
    /\ state[call[c].slot] = "Free"
    /\ item[call[c].slot].owner = c /\ item[call[c].slot].type = call[c].type
    /\ cpc[c] # "ready" => call[c].type = "derive"
    /\ \A w \in Workers : wpc[w] \in Using => wslot[w] # call[c].slot

(* Nor is one that a thread has; this ends when the pool is stopped.       *)
Held ==
  ~stopPending =>
    /\ \A w \in Workers : wpc[w] \in Owning => state[wslot[w]] = "Busy"
    /\ \A v, w \in Workers :
         v # w /\ wpc[v] \in Using /\ wpc[w] \in Using => wslot[v] # wslot[w]
    /\ \A w \in Workers : wpc[w] \in Using => state[wslot[w]] # "Ready"

(* What is offered, or in work, is what its call is waiting for.           *)
Serving ==
  /\ ~stopPending =>
       /\ \A s \in Slots : state[s] = "Ready" /\ item[s].type = "crypt" => s \in Wanted
       /\ \A w \in Workers :
            wpc[w] = "taken" /\ item[wslot[w]].type = "crypt" => wslot[w] \in Wanted
  /\ \A w \in Workers :
       /\ wpc[w] \in Accounting => wslot[w] \in Wanted
       /\ wpc[w] \in HeaderWork => item[wslot[w]].type \in {"derive", "finalize"}
       /\ wpc[w] = "freeFragment" => wslot[w] # item[wslot[w]].first

(* The count of a call is what it is owed; who finds it at 0 says so, once.*)
Counted ==
  \A c \in Working :
    /\ fragments[call[c].first] = Cardinality(Owed[c])
    /\ cpc[c] = "complete" => Owed[c] = {}

Finishing ==
  /\ \A w \in Workers : \A c \in Clients :
       wpc[w] = "signalItem" /\ item[wslot[w]].owner = c =>
         /\ Owed[c] = {} /\ ~itemCompleted[call[c].first] /\ cpc[c] # "complete"
         /\ \A v \in Workers : v # w /\ wpc[v] = "signalItem" => item[wslot[v]].owner # c
  /\ \A s \in Slots : itemCompleted[s] =>
       \E c \in Working :
         cpc[c] # "complete" /\ call[c].first = s /\ Owed[c] = {}

(* Whatever the threads and callers do, the ring is in this order.         *)
Ring == /\ Entering /\ Laid /\ Placed /\ FirstTaken /\ Filled
        /\ Held /\ Serving /\ Counted /\ Finishing

(* Ways in the ring.                                                       *)
LEMMA DistFacts ==
  ASSUME NEW f \in Slots, NEW s \in Slots
  PROVE  /\ Dist(f, s) \in 0..QueueSize - 1
         /\ (Dist(f, s) = 0 <=> s = f)
         /\ \A t \in Slots : Dist(f, s) = Dist(f, t) => s = t
  BY PoolAssumption, SlotFacts DEF Slots, Dist

(* The next slot is one further on, unless it is the first again.          *)
LEMMA DistAdvance ==
  ASSUME NEW f \in Slots, NEW s \in Slots
  PROVE  \/ Advance(s) = f /\ Dist(f, s) = QueueSize - 1
         \/ Advance(s) # f /\ Dist(f, Advance(s)) = Dist(f, s) + 1
  BY PoolAssumption, SlotFacts DEF Slots, Dist, Advance

(* An arc of n slots has n slots.                                          *)
LEMMA ArcSize ==
  ASSUME NEW f \in Slots, NEW n \in 0..QueueSize
  PROVE  IsFiniteSet(Arc(f, n)) /\ Cardinality(Arc(f, n)) = n
<1>0. QueueSize \in Nat /\ f \in 0..QueueSize - 1 /\ n \in Nat /\ n <= QueueSize
  BY PoolAssumption DEF Slots
<1>1. CASE f + n <= QueueSize
  <2>1. Arc(f, n) = f..f + n - 1
    BY <1>0, <1>1 DEF Arc, Dist, Slots
  <2>2. /\ IsFiniteSet(f..f + n - 1)
        /\ Cardinality(f..f + n - 1) = IF f > f + n - 1 THEN 0 ELSE f + n - 1 - f + 1
    BY <1>0, FS_Interval
  <2> QED
    BY <1>0, <2>1, <2>2
<1>2. CASE f + n > QueueSize
  <2> DEFINE A == f..QueueSize - 1
             B == 0..f + n - QueueSize - 1
  <2>1. Arc(f, n) = A \cup B
    BY <1>0, <1>2 DEF Arc, Dist, Slots
  <2>2. IsFiniteSet(A) /\ Cardinality(A) = QueueSize - f
    BY <1>0, FS_Interval
  <2>3. IsFiniteSet(B) /\ Cardinality(B) = f + n - QueueSize
    BY <1>0, <1>2, FS_Interval
  <2>4. A \cap B = {}
    BY <1>0, <1>2
  <2>5. /\ IsFiniteSet(A \cup B)
        /\ Cardinality(A \cup B) = Cardinality(A) + Cardinality(B) - Cardinality(A \cap B)
    BY <2>2, <2>3, FS_Union
  <2>6. Cardinality(A \cap B) = 0
    BY <2>4, FS_EmptySet
  <2> HIDE DEF A, B
  <2> QED
    BY <1>0, <2>1, <2>2, <2>3, <2>5, <2>6
<1> QED
  BY <1>0, <1>1, <1>2

(* The size of a call.                                                     *)
LEMMA TotalFacts ==
  ASSUME NEW n \in Units
  PROVE  /\ FragmentCount(n) \in 1..QueueSize /\ FragmentCount(n) \in Nat
         /\ QueueSize \in Nat /\ FragmentCount(n) <= ThreadCount
<1>1. FragmentCount(n) \in Nat /\ FragmentCount(n) >= 1
  BY SplitFacts
<1>2. n \in Nat
  BY DEF Units
<1>3. FragmentCount(n) <= ThreadCount
  BY <1>2, SlotFacts DEF FragmentCount
<1> QED
  BY <1>1, <1>3, SlotFacts, PoolAssumption DEF ThreadCount

(* Steps that have nothing to do with the ring: whoever moves is away from *)
(* it, or stays where it is in it.                                         *)
Stages == {Outside \cup {"signal"}, {"first", "firstWait"}, {"slot", "slotWait", "notify"},
           {"increment", "clear"}}
Elsewhere ==
  /\ UNCHANGED <<state, item, fragments, itemCompleted, enqueuePosition, call, units,
                 stopPending>>
  /\ \A c \in Clients : cpc'[c] = cpc[c] \/ \E S \in Stages : {cpc[c], cpc'[c]} \subseteq S
  /\ \A w \in Workers :
       \/ wslot'[w] = wslot[w] /\ wpc'[w] = wpc[w]
       \/ wslot'[w] = wslot[w] /\ {wpc[w], wpc'[w]} \subseteq HeaderWork
       \/ {wpc[w], wpc'[w]} \cap (Using \cup {"signalItem"}) = {}

(* A client comes in or leaves, and has no slots.                          *)
Outer(c) ==
  /\ UNCHANGED <<state, item, fragments, itemCompleted, enqueuePosition, stopPending, wpc, wslot>>
  /\ cpc[c] \in {"idle", "return", "lock", "slot"}
  /\ cpc'[c] \in {"idle", "inline", "lock", "first", "slot"}
  /\ cpc[c] = "slot" => call[c].type # "crypt"
  /\ cpc'[c] = "slot" => call'[c].type # "crypt"
  /\ cpc'[c] = "first" => call'[c].type = "crypt" /\ call'[c].first = enqueuePosition
  /\ call'[c].type = "crypt" =>
       units'[c] \in Units /\ call'[c].left = FragmentCount(units'[c])
  /\ \A d \in Clients : d # c => cpc'[d] = cpc[d] /\ call'[d] = call[d] /\ units'[d] = units[d]

(* Everything begins anew, with nobody inside.                             *)
Afresh ==
  /\ MakeFreshQueue /\ UNCHANGED <<cpc, call, units>>
  /\ \A c \in Clients : cpc[c] \in Outside
  /\ \A w \in Workers : wpc'[w] \in {"loop", "off"}

(* The steps, as far as the ring is concerned.                             *)
LEMMA RingCases ==
  ASSUME ControlInv, [Next]_vars
  PROVE  \/ Elsewhere \/ Afresh \/ StopBegin
         \/ (\E c \in Clients : Outer(c))
         \/ (\E w \in Workers : WorkerTake(w))
         \/ (\E w \in Workers : WorkerDispatch(w))
         \/ (\E w \in Workers : WorkerCrypt(w))
         \/ (\E w \in Workers : WorkerFree(w, "freeFragment", "signalFragment"))
         \/ (\E w \in Workers : WorkerSignalFree(w, "signalFragment", "account"))
         \/ (\E w \in Workers : WorkerAccount(w))
         \/ (\E w \in Workers : WorkerSignalItem(w))
         \/ (\E w \in Workers : WorkerFree(w, "free", "signalFree"))
         \/ (\E c \in Clients : Lock(c))
         \/ (\E c \in Clients : SetFragmentCount(c))
         \/ (\E c \in Clients : Fill(c))
         \/ (\E c \in Clients : ClearNoOutstanding(c))
         \/ (\E c \in Clients : SetReady(c))
         \/ (\E c \in Clients : Unlock(c))
         \/ (\E c \in Clients : Await(c))
         \/ (\E c \in Clients : FreeFirst(c))
<1> USE DEF stopVars, ringVars, slotVars, workerVars, clientVars, dataVars, headerVars
<1> TypeOK /\ Quiet
  BY DEF ControlInv
<1>1. ASSUME Start \/ \E created \in SUBSET Workers : StartFails(created) PROVE Afresh
  BY <1>1 DEF Start, StartFails, Afresh, Quiet
<1>2. ASSUME StopSignal \/ StopJoin PROVE Elsewhere
  BY <1>2 DEF StopSignal, StopJoin, Elsewhere
<1>3. ASSUME NEW w \in Workers,
             \/ WorkerLoop(w) \/ WorkerDequeue(w) \/ WorkerNotReady(w) \/ WorkerWait(w)
             \/ WorkerSignalFree(w, "signalFree", "loop")
      PROVE  Elsewhere
  BY <1>3 DEF WorkerLoop, WorkerDequeue, WorkerNotReady, WorkerWait, WorkerSignalFree, WorkerGoto,
     Elsewhere, Using, Uncounted, HeaderWork, TypeOK
<1>4. ASSUME NEW w \in Workers,
             \/ WorkerDerive(w) \/ WorkerRaise(w) \/ WorkerCountDown(w) \/ WorkerSignalNone(w)
             \/ WorkerFinalizeWait(w) \/ WorkerBurn(w)
      PROVE  Elsewhere
  BY <1>4 DEF WorkerDerive, WorkerRaise, WorkerCountDown, WorkerSignalNone, WorkerFinalizeWait,
     WorkerBurn, WorkerGoto, Elsewhere, HeaderWork, TypeOK
<1>5. ASSUME NEW c \in Clients, NEW n \in Units, DoWork(c, n) PROVE Outer(c)
  BY <1>5 DEF DoWork, Goto, Outer, NewCall, NoCall, TypeOK
<1>6. ASSUME NEW c \in Clients, BeginKeyDerivation(c) PROVE Outer(c)
  BY <1>6 DEF BeginKeyDerivation, Goto, Outer, NewCall, TypeOK
<1>7. ASSUME NEW c \in Clients, BeginReadVolumeHeaderFinalization(c) PROVE Outer(c)
  BY <1>7 DEF BeginReadVolumeHeaderFinalization, Goto, Outer, NewCall, TypeOK
<1>8. ASSUME NEW c \in Clients, Return(c) PROVE Outer(c)
  BY <1>8 DEF Return, Goto, Outer, NewCall, NoCall, TypeOK
<1>9. ASSUME NEW c \in Clients,
             \/ CryptInline(c) \/ SignalFirst(c) \/ Notify(c) \/ IncrementOutstanding(c)
             \/ SlotBusy(c, "first", "firstWait") \/ WaitSlot(c, "firstWait", "first")
             \/ SlotBusy(c, "slot", "slotWait") \/ WaitSlot(c, "slotWait", "slot")
      PROVE  Elsewhere
  BY <1>9 DEF CryptInline, SignalFirst, Notify, IncrementOutstanding, SlotBusy, WaitSlot, Goto,
     Elsewhere, Stages, Outside, TypeOK
<1>10. ASSUME UNCHANGED vars PROVE Elsewhere
  BY <1>10 DEF vars, Elsewhere
<1> QED
  BY <1>1, <1>2, <1>3, <1>4, <1>5, <1>6, <1>7, <1>8, <1>9, <1>10 DEF Next, CallNext, HeaderNext,
     WorkerOnCall, WorkerOnHeader, EnterCall, EnterHeader, InsideCall, InsideHeader

(* While the pool is being stopped nobody works with it.                   *)
LEMMA StoppedIsEmpty ==
  ASSUME ControlInv, stopPending, NEW c \in Clients
  PROVE  c \notin Working /\ c \notin Filling
  BY DEF ControlInv, Quiet, Outside, Working, Adding, Filling

(* The ring is empty at first.                                             *)
LEMMA RingInit == Init => Ring
<1> SUFFICES ASSUME Init PROVE Ring
  OBVIOUS
<1>1. Entering /\ Laid /\ Placed /\ FirstTaken
  BY DEF Init, FreshQueue, Entering, Laid, Placed, FirstTaken, Working, Adding, NoCall, NewCall
<1>2. Filled /\ Held /\ Serving
  BY DEF Init, FreshQueue, Filled, Held, Serving, Filling, Using, Owning, Uncounted, HeaderWork,
     Accounting
<1>3. Counted /\ Finishing
  BY DEF Init, FreshQueue, Counted, Finishing, Working, NoCall, NewCall
<1> QED
  BY <1>1, <1>2, <1>3 DEF Ring

(* A start leaves an empty ring.                                           *)
LEMMA AfreshKeeps ==
  ASSUME ControlInv, Ring, Afresh
  PROVE  Ring'
<1>1. \A c \in Clients : cpc'[c] \in Outside
  BY DEF Afresh
<1>2. Entering' /\ Laid' /\ Placed' /\ FirstTaken'
  BY <1>1 DEF Ring, Afresh, MakeFreshQueue, Outside, Entering, Laid, Placed, FirstTaken, Working,
     Adding, Total
<1>3. Filled' /\ Held' /\ Serving'
  BY <1>1 DEF Afresh, MakeFreshQueue, Outside, Filled, Held, Serving, Filling, Using, Owning,
     Uncounted, HeaderWork, Accounting
<1>4. Counted' /\ Finishing'
  BY <1>1 DEF Afresh, MakeFreshQueue, Outside, Counted, Finishing, Working, Adding
<1> QED
  BY <1>2, <1>3, <1>4 DEF Ring

(* So does the first step of a stop, in which nobody is inside.            *)
LEMMA StopBeginKeeps ==
  ASSUME ControlInv, Ring, StopBegin
  PROVE  Ring'
<1> USE DEF stopVars, ringVars, slotVars, workerVars, clientVars, dataVars, headerVars
<1>1. /\ UNCHANGED <<state, item, fragments, itemCompleted, enqueuePosition, call, units, cpc,
             wpc, wslot>>
      /\ stopPending'
  BY DEF StopBegin
<1>2. Entering' /\ Laid' /\ Placed' /\ FirstTaken'
  BY <1>1 DEF Ring, Entering, Laid, Placed, FirstTaken, Working, Total, Given, Posted, Filling
<1>3. Filled' /\ Held'
  BY <1>1 DEF Ring, Filled, Held, Filling
<1>4. Serving'
  BY <1>1 DEF Ring, Serving, Wanted, Working, Total, Given, Posted, Filling
<1>5. Counted' /\ Finishing'
  <2>1. Working' = Working /\ Owed' = Owed
    BY <1>1 DEF Working, Total, Given, Posted, Filling, Owed
  <2> QED
    BY <1>1, <2>1 DEF Ring, Counted, Finishing
<1> QED
  BY <1>2, <1>3, <1>4, <1>5 DEF Ring

(* Who works, or fills a slot, is a client.                                *)
LEMMA Members == Working \subseteq Clients /\ Filling \subseteq Clients
  BY DEF Working, Filling

(* A thread's step does not move the calls.                                *)
LEMMA CallsKept ==
  ASSUME Ring, UNCHANGED <<cpc, call, units, enqueuePosition, item>>
  PROVE  /\ UNCHANGED <<Working, Total, Given, Filling, Posted, Wanted>>
         /\ Entering' /\ Laid' /\ Placed'
<1>1. UNCHANGED <<Working, Total, Given, Filling>>
  BY DEF Working, Total, Given, Filling
<1>2. UNCHANGED Posted
  BY <1>1 DEF Posted
<1>3. UNCHANGED Wanted
  BY <1>1, <1>2 DEF Wanted
<1>4. Entering' /\ Laid' /\ Placed'
  BY <1>1 DEF Ring, Entering, Laid, Placed
<1> QED
  BY <1>1, <1>2, <1>3, <1>4

(* What is owed stays the same, and nobody gets to the end of it.          *)
LEMMA CountsKept ==
  ASSUME Ring, UNCHANGED <<cpc, call, item, fragments, itemCompleted, wslot, Working>>,
         \A c \in Working : Owed'[c] = Owed[c],
         \A w \in Workers : wpc'[w] = "signalItem" => wpc[w] = "signalItem",
         \A w \in Workers : wpc[w] = "signalItem" => item[wslot[w]].owner \in Working
  PROVE  Counted' /\ Finishing'
<1>1. Counted'
  BY DEF Ring, Counted
<1>2. Finishing'
  BY DEF Ring, Finishing
<1> QED
  BY <1>1, <1>2

(* Who counts a fragment off, or says that it was the last, serves a call. *)
LEMMA AccountingWorks ==
  ASSUME Ring, NEW w \in Workers, wpc[w] \in Accounting
  PROVE  /\ item[wslot[w]].owner \in Working /\ item[wslot[w]].type = "crypt"
         /\ call[item[wslot[w]].owner].first = item[wslot[w]].first
         /\ wslot[w] \in Posted[item[wslot[w]].owner]
  BY DEF Ring, Serving, Wanted

(* Steps away from the ring change nothing in it.                          *)
LEMMA ElsewhereKeeps ==
  ASSUME ControlInv, Ring, Elsewhere
  PROVE  Ring'
<1>1. /\ UNCHANGED <<state, item, fragments, itemCompleted, enqueuePosition, call, units,
             stopPending>>
      /\ \A c \in Clients : cpc'[c] = cpc[c] \/ \E S \in Stages : {cpc[c], cpc'[c]} \subseteq S
  BY DEF Elsewhere
<1>2. /\ UNCHANGED <<Working, Total, Given, Filling>>
      /\ \A c \in Clients :
           /\ cpc'[c] \in {"lock", "first", "firstWait"} =>
                cpc[c] \in {"lock", "first", "firstWait"}
           /\ cpc'[c] \in {"first", "firstWait"} => cpc[c] \in {"first", "firstWait"}
           /\ cpc'[c] \in {"await", "complete", "ready"} <=>
                cpc[c] \in {"await", "complete", "ready"}
           /\ cpc'[c] \in {"await", "complete", "ready"} => cpc[c] = cpc'[c]
           /\ cpc'[c] \in Adding <=> cpc[c] \in Adding
  BY <1>1 DEF Stages, Outside, Working, Total, Given, Filling, Adding
<1>3. UNCHANGED Posted
  BY <1>1, <1>2 DEF Posted
<1>4. Entering' /\ Laid' /\ Placed' /\ FirstTaken'
  <2>1. Entering'
    BY <1>1, <1>2 DEF Ring, Entering
  <2>2. Laid'
    BY <1>1, <1>2, Members DEF Ring, Laid
  <2>3. Placed'
    BY <1>1, <1>2, Members DEF Ring, Placed
  <2>4. FirstTaken'
    BY <1>1, <1>2, <1>3 DEF Ring, FirstTaken
  <2> QED
    BY <2>1, <2>2, <2>3, <2>4
<1>5. UNCHANGED Wanted
  BY <1>1, <1>2, <1>3 DEF Wanted
<1>6. \A w \in Workers :
        /\ wpc'[w] \in Using => wpc[w] \in Using /\ wslot'[w] = wslot[w]
        /\ wpc'[w] \in Owning => wpc[w] \in Owning
        /\ wpc'[w] \in HeaderWork => wpc[w] \in HeaderWork
        /\ wpc'[w] \in Uncounted \cup {"signalItem"} =>
             wpc[w] = wpc'[w] /\ wslot'[w] = wslot[w]
        /\ wpc[w] \in Uncounted => wpc[w] = wpc'[w] /\ wslot'[w] = wslot[w]
  BY DEF Elsewhere, Using, Owning, Uncounted, HeaderWork
<1>7. Filled' /\ Held'
  <2>1. Filled'
    BY <1>1, <1>2, <1>6, Members DEF Ring, Filled
  <2>2. Held'
    <3>1. \A w \in Workers : wpc'[w] \in Using => wpc[w] \in Using /\ wslot'[w] = wslot[w]
      BY <1>6
    <3>2. \A w \in Workers : wpc'[w] \in Owning => wpc[w] \in Owning /\ wslot'[w] = wslot[w]
      BY <1>6 DEF Owning, Using, Uncounted
    <3> QED
      BY <1>1, <3>1, <3>2 DEF Ring, Held
  <2> QED
    BY <2>1, <2>2
<1>8. Serving'
  BY <1>1, <1>5, <1>6 DEF Ring, Serving, Accounting, Uncounted, Using, HeaderWork
<1>9. UNCHANGED Owed
  BY <1>1, <1>2, <1>3, <1>6 DEF Owed
<1>10. Counted'
  BY <1>1, <1>2, <1>9, Members DEF Ring, Counted
<1>11. Finishing'
  <2>1. \A w \in Workers : wpc'[w] = "signalItem" => wpc[w] = "signalItem" /\ wslot'[w] = wslot[w]
    BY <1>6
  <2>2. \A c \in Clients : cpc'[c] = "complete" => cpc[c] = "complete"
    BY <1>2
  <2> QED
    BY <1>1, <1>2, <1>9, <2>1, <2>2, Members, SMTT(60) DEF Ring, Finishing
<1> QED
  BY <1>4, <1>7, <1>8, <1>10, <1>11 DEF Ring

(* Nor does a client that has no slots.                                    *)
LEMMA OuterKeeps ==
  ASSUME ControlInv, Ring, NEW c \in Clients, Outer(c)
  PROVE  Ring'
<1>1. /\ UNCHANGED <<state, item, fragments, itemCompleted, enqueuePosition, stopPending, wpc,
             wslot>>
      /\ cpc[c] \in {"idle", "return", "lock", "slot"}
      /\ cpc'[c] \in {"idle", "inline", "lock", "first", "slot"}
      /\ cpc[c] = "slot" => call[c].type # "crypt"
      /\ cpc'[c] = "slot" => call'[c].type # "crypt"
      /\ \A d \in Clients : d # c => cpc'[d] = cpc[d] /\ call'[d] = call[d]
           /\ units'[d] = units[d]
  BY DEF Outer
<1>2. /\ c \notin Working /\ c \notin Filling /\ UNCHANGED <<Working, Filling>>
      /\ \A d \in Clients : d # c => Total'[d] = Total[d] /\ Given'[d] = Given[d]
  BY <1>1 DEF Working, Adding, Filling, Total, Given
<1>3. \A d \in Clients : d # c => Posted'[d] = Posted[d]
  BY <1>1, <1>2 DEF Posted
<1>4. Entering'
  BY <1>1 DEF Ring, Entering, Outer, Total
<1>5. Laid' /\ Placed' /\ FirstTaken'
  BY <1>1, <1>2, <1>3 DEF Ring, Laid, Placed, FirstTaken, Working
<1>6. UNCHANGED Wanted
  BY <1>1, <1>2, <1>3 DEF Wanted, Working
<1>7. Filled' /\ Held' /\ Serving'
  BY <1>1, <1>2, <1>6, Members DEF Ring, Filled, Held, Serving, Filling
<1>9. \A d \in Clients : d # c => Owed'[d] = Owed[d]
  BY <1>1, <1>2, <1>3 DEF Owed
<1>10. Counted'
  BY <1>1, <1>2, <1>9 DEF Ring, Counted, Working
<1>11. Finishing'
  <2>1. \A w \in Workers : wpc[w] = "signalItem" => item[wslot[w]].owner \in Working
    BY AccountingWorks DEF Accounting
  <2>2. \A d \in Working : /\ d # c /\ d \in Clients /\ Owed'[d] = Owed[d]
                           /\ cpc'[d] = cpc[d] /\ call'[d] = call[d]
    BY <1>1, <1>2, <1>9, Members
  <2>3. \A w \in Workers : \A d \in Clients :
         wpc[w] = "signalItem" /\ item[wslot[w]].owner = d =>
           /\ Owed'[d] = {} /\ ~itemCompleted[call'[d].first] /\ cpc'[d] # "complete"
           /\ \A v \in Workers : v # w /\ wpc[v] = "signalItem" => item[wslot[v]].owner # d
    BY <2>1, <2>2 DEF Ring, Finishing
  <2>4. \A s \in Slots : itemCompleted[s] =>
         \E d \in Working : cpc'[d] # "complete" /\ call'[d].first = s /\ Owed'[d] = {}
    BY <2>2 DEF Ring, Finishing
  <2>5. UNCHANGED <<item, itemCompleted, wpc, wslot, Working>>
    BY <1>1, <1>2
  <2> QED
    BY <2>3, <2>4, <2>5, SMTT(60) DEF Finishing
<1> QED
  BY <1>4, <1>5, <1>7, <1>10, <1>11 DEF Ring

(* Where a client has the enqueue mutex.                                   *)
Locked == {"first", "firstWait", "slot", "slotWait", "increment", "clear", "ready", "notify"}

(* Whoever is inside the pool finds it running, and is alone with the      *)
(* enqueue mutex if it has that.                                           *)
LEMMA InsideFacts ==
  ASSUME ControlInv, NEW c \in Clients, cpc[c] \notin Outside
  PROVE  /\ ~stopPending
         /\ cpc[c] \in Locked => \A d \in Clients : cpc[d] \in Locked => d = c
  BY DEF ControlInv, Quiet, OneWaiterPerEvent, Locked

(* What a call has.                                                        *)
LEMMA WorkingFacts ==
  ASSUME ControlInv, Ring, NEW c \in Working
  PROVE  /\ c \in Clients /\ call[c].type = "crypt" /\ units[c] \in Units
         /\ call[c].first \in Slots /\ Total[c] \in 1..QueueSize /\ QueueSize \in Nat
         /\ Given[c] \in 0..Total[c] /\ call[c].left = Total[c] - Given[c]
         /\ Given[c] = 0 => cpc[c] \in Adding
         /\ Given[c] >= 1 =>
              call[c].first \in Arc(call[c].first, Given[c]) /\ item[call[c].first].owner = c
         /\ Arc(call[c].first, Given[c]) \subseteq Arc(call[c].first, Total[c])
<1>1. c \in Clients /\ call[c].type = "crypt" /\ cpc[c] \in Adding \cup {"await", "complete"}
  BY DEF Working
<1>2. units[c] \in Units
  BY <1>1 DEF Ring, Entering
<1>3. call[c].first \in Slots /\ call[c].left \in Int
  BY <1>1, CallFields DEF ControlInv
<1>4. Total[c] \in 1..QueueSize /\ QueueSize \in Nat
  BY <1>1, <1>2, TotalFacts DEF Total
<1>5. call[c].left \in 0..Total[c] /\ (cpc[c] \in {"await", "complete"} => call[c].left = 0)
  BY DEF Ring, Laid
<1>6. Given[c] = Total[c] - call[c].left
  BY <1>1 DEF Given
<1>7. Given[c] \in 0..Total[c] /\ call[c].left = Total[c] - Given[c]
  BY <1>3, <1>4, <1>5, <1>6
<1>8. Given[c] = 0 => cpc[c] \in Adding
  BY <1>1, <1>4, <1>5, <1>6
<1>9. \A s \in Slots : Dist(call[c].first, s) \in Nat
  BY <1>3, DistFacts
<1>10. Dist(call[c].first, call[c].first) = 0
  BY <1>3, DistFacts
<1>11. Arc(call[c].first, Given[c]) \subseteq Arc(call[c].first, Total[c])
  BY <1>4, <1>7, <1>9 DEF Arc
<1>12. Given[c] >= 1 => call[c].first \in Arc(call[c].first, Given[c])
  BY <1>3, <1>7, <1>10 DEF Arc
<1>13. Given[c] >= 1 => item[call[c].first].owner = c
  BY <1>12 DEF Ring, Laid
<1> QED
  BY <1>1, <1>2, <1>3, <1>4, <1>7, <1>8, <1>11, <1>12, <1>13

(* What is posted is a fragment of its call, and of no other.              *)
LEMMA PostedFacts ==
  ASSUME ControlInv, Ring, NEW c \in Working, NEW s \in Posted[c]
  PROVE  /\ s \in Slots /\ s \in Arc(call[c].first, Given[c])
              /\ s \in Arc(call[c].first, Total[c])
         /\ item[s].type = "crypt" /\ item[s].owner = c /\ item[s].first = call[c].first
         /\ Given[c] >= 1
         /\ \A d \in Working : s \in Posted[d] => d = c
         /\ \A d \in Filling : s # call[d].slot
<1>1. s \in Arc(call[c].first, Given[c]) /\ (c \in Filling => s # call[c].slot)
  BY Members DEF Posted
<1>2. s \in Slots /\ Dist(call[c].first, s) < Given[c] /\ Dist(call[c].first, s) >= 0
  BY <1>1, WorkingFacts, DistFacts DEF Arc
<1>3. item[s].type = "crypt" /\ item[s].owner = c /\ item[s].first = call[c].first
  BY <1>1 DEF Ring, Laid
<1>4. \A d \in Working : s \in Posted[d] => d = c
  <2> SUFFICES ASSUME NEW d \in Working, s \in Posted[d] PROVE d = c
    OBVIOUS
  <2>1. s \in Arc(call[d].first, Given[d])
    BY Members DEF Posted
  <2> QED
    BY <1>3, <2>1 DEF Ring, Laid
<1>5. \A d \in Filling : s # call[d].slot
  BY <1>1, <1>3 DEF Ring, Filled
<1>6. Given[c] >= 1
  BY <1>2, WorkingFacts, DistFacts
<1> QED
  BY <1>1, <1>2, <1>3, <1>4, <1>5, <1>6, WorkingFacts

(* Two calls under way begin with different slots.                         *)
LEMMA FirstsDiffer ==
  ASSUME ControlInv, Ring, NEW c \in Working, NEW d \in Working, c # d,
         \/ Posted[c] # {} \/ cpc[c] \notin Adding
  PROVE  call[c].first # call[d].first
<1> SUFFICES ASSUME call[c].first = call[d].first PROVE FALSE
  OBVIOUS
<1> DEFINE f == call[c].first
<1>1. Given[c] >= 1
  BY WorkingFacts, PostedFacts
<1>2. item[f].owner = c /\ f \in Arc(f, Given[c])
  BY <1>1, WorkingFacts
<1>3. Given[d] = 0 /\ cpc[d] \in Adding
  BY <1>2, WorkingFacts
<1>4. f \notin Posted[d]
  BY <1>3, PostedFacts, WorkingFacts
<1>5. state[f] = "Free"
  BY <1>4 DEF Ring, FirstTaken
<1>6. f \notin Posted[c]
  BY <1>5 DEF Ring, FirstTaken
<1>7. c \in Filling /\ call[c].slot = f
  BY <1>2, <1>6, Members DEF Posted
<1>8. cpc[c] = "ready"
  BY <1>7 DEF Filling, Working, Adding
<1>9. cpc[d] \in Locked /\ cpc[c] \in Locked
  BY <1>3, <1>8 DEF Adding, Locked
<1> QED
  BY <1>8, <1>9, InsideFacts, Members DEF Outside

(* A thread with a fragment has its slot to itself.                        *)
LEMMA ServingFacts ==
  ASSUME ControlInv, Ring, NEW w \in Workers, wpc[w] \in Accounting
  PROVE  /\ ~stopPending /\ wslot[w] \in Slots
         /\ item[wslot[w]].owner \in Working /\ item[wslot[w]].type = "crypt"
         /\ call[item[wslot[w]].owner].first = item[wslot[w]].first
         /\ wslot[w] \in Posted[item[wslot[w]].owner]
         /\ wpc[w] \in Using =>
              /\ state[wslot[w]] # "Ready"
              /\ \A v \in Workers : v # w /\ wpc[v] \in Using => wslot[v] # wslot[w]
<1>1. item[wslot[w]].owner \in Working
  BY AccountingWorks
<1>2. ~stopPending
  BY <1>1, StoppedIsEmpty, Members
<1> QED
  BY <1>1, <1>2, AccountingWorks DEF Ring, Held, ControlInv, TypeOK

(* A thread goes from one of its stages to the next.                       *)
Moves(w) ==
  /\ UNCHANGED <<cpc, call, units, enqueuePosition, item, wslot, stopPending>>
  /\ \A v \in Workers : v # w => wpc'[v] = wpc[v]

(* It stays with its slot, and counts nothing.                             *)
LEMMA MovesKeeps ==
  ASSUME ControlInv, Ring, NEW w \in Workers, Moves(w),
         UNCHANGED <<state, fragments, itemCompleted>>,
         \/ wpc[w] = "crypt" /\ wpc'[w] \in {"freeFragment", "account"}
            /\ (wpc'[w] = "freeFragment" => wslot[w] # item[wslot[w]].first)
         \/ wpc[w] = "signalFragment" /\ wpc'[w] = "account"
  PROVE  Ring'
<1>1. /\ UNCHANGED <<cpc, call, units, enqueuePosition, item, wslot, stopPending>>
      /\ \A v \in Workers : v # w => wpc'[v] = wpc[v]
  BY DEF Moves
<1>2. /\ UNCHANGED <<Working, Total, Given, Filling, Posted, Wanted>>
      /\ Entering' /\ Laid' /\ Placed'
  BY <1>1, CallsKept
<1>3. /\ \A v \in Workers : wpc'[v] \in Using => wpc[v] \in Using
      /\ \A v \in Workers : wpc'[v] \in Owning => wpc[v] \in Owning
      /\ \A v \in Workers : wpc'[v] \in Uncounted <=> wpc[v] \in Uncounted
      /\ \A v \in Workers : wpc'[v] \in HeaderWork => wpc[v] \in HeaderWork
      /\ \A v \in Workers : wpc'[v] \in Accounting => wpc[v] \in Accounting
      /\ \A v \in Workers : wpc'[v] = "taken" => wpc[v] = "taken"
      /\ \A v \in Workers : wpc'[v] = "signalItem" => wpc[v] = "signalItem"
      /\ \A v \in Workers : wpc'[v] = "freeFragment" =>
           wpc[v] = "freeFragment" \/ wslot[v] # item[wslot[v]].first
  BY <1>1 DEF Using, Owning, Uncounted, HeaderWork, Accounting
<1>4. FirstTaken' /\ Filled'
  BY <1>1, <1>2, <1>3, Members DEF Ring, FirstTaken, Filled
<1>5. Held'
  BY <1>1, <1>3 DEF Ring, Held
<1>6. Serving'
  BY <1>1, <1>2, <1>3 DEF Ring, Serving
<1>7. \A c \in Working : Owed'[c] = Owed[c]
  BY <1>1, <1>2, <1>3, Members DEF Owed
<1>8. \A v \in Workers : wpc[v] = "signalItem" => item[wslot[v]].owner \in Working
  BY AccountingWorks DEF Accounting
<1>9. Counted' /\ Finishing'
  BY <1>1, <1>2, <1>3, <1>7, <1>8, CountsKept
<1> QED
  BY <1>2, <1>4, <1>5, <1>6, <1>9 DEF Ring

(* A fragment is transformed.                                              *)
LEMMA WorkerCryptKeeps ==
  ASSUME ControlInv, Ring, NEW w \in Workers, WorkerCrypt(w)
  PROVE  Ring'
<1> USE DEF stopVars, ringVars, slotVars, clientVars, headerVars
<1>1. Moves(w) /\ UNCHANGED <<state, fragments, itemCompleted>>
  BY DEF WorkerCrypt, WorkerGoto, Moves, ControlInv, TypeOK
<1>2. wpc[w] = "crypt" /\ wpc'[w] = AfterCrypt(w)
  BY DEF WorkerCrypt, WorkerGoto, ControlInv, TypeOK
<1> QED
  BY <1>1, <1>2, MovesKeeps DEF AfterCrypt

(* The slot of a fragment is free, and a thread says so.                   *)
LEMMA WorkerSignalFragmentKeeps ==
  ASSUME ControlInv, Ring, NEW w \in Workers, WorkerSignalFree(w, "signalFragment", "account")
  PROVE  Ring'
<1> USE DEF stopVars, ringVars, slotVars, clientVars, dataVars, headerVars
<1>1. Moves(w) /\ UNCHANGED <<state, fragments, itemCompleted>>
  BY DEF WorkerSignalFree, WorkerGoto, Moves, ControlInv, TypeOK
<1>2. wpc[w] = "signalFragment" /\ wpc'[w] = "account"
  BY DEF WorkerSignalFree, WorkerGoto, ControlInv, TypeOK
<1> QED
  BY <1>1, <1>2, MovesKeeps

(* A thread that was told to stop marks whatever slot it looks at.         *)
LEMMA StoppedMoveKeeps ==
  ASSUME ControlInv, Ring, NEW w \in Workers, Moves(w), stopPending,
         UNCHANGED <<fragments, itemCompleted>>,
         wpc[w] # "signalItem", wpc'[w] \notin Accounting \cup HeaderWork
  PROVE  Ring'
<1>1. /\ UNCHANGED <<cpc, call, units, enqueuePosition, item, wslot, stopPending>>
      /\ \A v \in Workers : v # w => wpc'[v] = wpc[v]
  BY DEF Moves
<1>2. /\ UNCHANGED <<Working, Total, Given, Filling, Posted, Wanted>>
      /\ Entering' /\ Laid' /\ Placed'
  BY <1>1, CallsKept
<1>3. Working = {} /\ Filling = {} /\ Working' = {} /\ Filling' = {}
  BY <1>2, StoppedIsEmpty, Members
<1>4. FirstTaken' /\ Filled' /\ Held' /\ Counted'
  BY <1>1, <1>3 DEF FirstTaken, Filled, Held, Counted
<1>5. Serving'
  BY <1>1, <1>2 DEF Ring, Serving, Accounting
<1>6. Finishing'
  <2>1. \A v \in Workers : wpc[v] \notin Accounting
    BY <1>3, AccountingWorks
  <2>2. \A v \in Workers : wpc'[v] # "signalItem"
    BY <1>1, <2>1 DEF Accounting
  <2>3. \A s \in Slots : ~itemCompleted[s]
    BY <1>3 DEF Ring, Finishing
  <2> QED
    BY <1>1, <2>2, <2>3 DEF Finishing
<1> QED
  BY <1>2, <1>4, <1>5, <1>6 DEF Ring

(* A thread takes what is ready: what was owed as ready is now in its hands.  *)
LEMMA WorkerTakeKeeps ==
  ASSUME ControlInv, Ring, NEW w \in Workers, WorkerTake(w)
  PROVE  Ring'
<1> USE DEF stopVars, clientVars, dataVars, headerVars
<1> DEFINE s == wslot[w]
<1>1. /\ Moves(w) /\ UNCHANGED <<fragments, itemCompleted>>
      /\ wpc[w] = "check" /\ wpc'[w] = "taken"
      /\ s \in Slots /\ state'[s] = "Busy" /\ \A t \in Slots : t # s => state'[t] = state[t]
      /\ stopPending \/ state[s] = "Ready"
  BY DEF WorkerTake, WorkerGoto, Moves, ControlInv, TypeOK
<1>2. CASE stopPending
  BY <1>1, <1>2, StoppedMoveKeeps DEF Accounting, HeaderWork
<1>3. CASE ~stopPending
  <2>1. /\ UNCHANGED <<cpc, call, units, enqueuePosition, item, wslot, stopPending>>
        /\ \A v \in Workers : v # w => wpc'[v] = wpc[v]
    BY <1>1 DEF Moves
  <2>2. /\ UNCHANGED <<Working, Total, Given, Filling, Posted, Wanted>>
        /\ Entering' /\ Laid' /\ Placed'
    BY <2>1, CallsKept
  <2>3. state[s] = "Ready"
    BY <1>1, <1>3
  <2>4. \A t \in Slots : state'[t] = "Free" <=> state[t] = "Free"
    BY <1>1, <2>3
  <2>5. \A v \in Workers : wpc[v] \in Using => wslot[v] # s
    BY <1>3, <2>3 DEF Ring, Held
  <2>6. FirstTaken'
    BY <2>1, <2>2, <2>4, WorkingFacts DEF Ring, FirstTaken
  <2>7. Filled'
    <3>1. \A c \in Filling : call[c].slot \in Slots /\ call[c].slot # s
      BY <2>3, Members, CallFields DEF Ring, Filled, ControlInv
    <3>2. \A v \in Workers : v # w /\ wpc'[v] \in Using => wpc[v] \in Using
      BY <2>1
    <3> QED
      BY <1>1, <2>1, <2>2, <2>4, <3>1, <3>2, Members DEF Ring, Filled
  <2>8. Held'
    <3>1. \A v \in Workers : wslot[v] \in Slots
      BY DEF ControlInv, TypeOK
    <3>2. \A v \in Workers : v # w /\ wpc'[v] \in Using => wpc[v] \in Using /\ wslot[v] # s
      BY <2>1, <2>5
    <3>3. \A v \in Workers : v # w /\ wpc'[v] \in Owning => wpc[v] \in Owning /\ wslot[v] # s
      BY <2>1, <2>5 DEF Owning, Using, Uncounted
    <3> QED
      BY <1>1, <1>3, <2>1, <3>1, <3>2, <3>3 DEF Ring, Held
  <2>9. Serving'
    <3>1. item[s].type = "crypt" => s \in Wanted
      BY <1>1, <1>3, <2>3 DEF Ring, Serving
    <3>2. \A v \in Workers : v # w => wpc'[v] = wpc[v]
      BY <2>1
    <3>3. wpc'[w] \notin Accounting \cup HeaderWork \cup {"freeFragment"}
      BY <1>1 DEF Accounting, HeaderWork
    <3> QED
      BY <1>1, <1>3, <2>1, <2>2, <3>1, <3>2, <3>3 DEF Ring, Serving
  <2>10. \A c \in Working : Owed'[c] = Owed[c]
    <3> SUFFICES ASSUME NEW c \in Working PROVE Owed'[c] = Owed[c]
      OBVIOUS
    <3> DEFINE U(t) == \E v \in Workers : wslot[v] = t /\ wpc[v] \in Uncounted
               V(t) == \E v \in Workers : wslot[v] = t /\ wpc'[v] \in Uncounted
    <3>1. \A t \in Slots : t # s => (U(t) <=> V(t))
      BY <1>1, <2>1
    <3>2. V(s)
      BY <1>1 DEF Uncounted
    <3>3. Owed[c] = {t \in Arc(call[c].first, Total[c]) : t \notin Posted[c]
            \/ state[t] = "Ready" \/ U(t)}
      BY Members DEF Owed
    <3>4. Owed'[c] = {t \in Arc(call[c].first, Total[c]) : t \notin Posted[c]
            \/ state'[t] = "Ready" \/ V(t)}
      BY <2>1, <2>2, Members DEF Owed
    <3>5. Arc(call[c].first, Total[c]) \subseteq Slots
      BY DEF Arc
    <3> HIDE DEF U, V
    <3> QED
      BY <1>1, <2>3, <3>1, <3>2, <3>3, <3>4, <3>5
  <2>11. Counted' /\ Finishing'
    <3>1. \A v \in Workers : wpc[v] = "signalItem" => item[wslot[v]].owner \in Working
      BY AccountingWorks DEF Accounting
    <3>2. \A v \in Workers : wpc'[v] = "signalItem" => wpc[v] = "signalItem"
      BY <1>1, <2>1
    <3> QED
      BY <1>1, <2>1, <2>2, <2>10, <3>1, <3>2, CountsKept
  <2> QED
    BY <2>2, <2>6, <2>7, <2>8, <2>9, <2>11 DEF Ring
<1> QED
  BY <1>2, <1>3

(* It turns to the kind of work it has.                                    *)
LEMMA WorkerDispatchKeeps ==
  ASSUME ControlInv, Ring, NEW w \in Workers, WorkerDispatch(w)
  PROVE  Ring'
<1> USE DEF stopVars, ringVars, slotVars, clientVars, dataVars, headerVars
<1> DEFINE s == wslot[w]
<1>1. /\ Moves(w) /\ UNCHANGED <<state, fragments, itemCompleted>>
      /\ wpc[w] = "taken" /\ s \in Slots
      /\ wpc'[w] = IF stopPending THEN "off" ELSE item[s].type
  BY DEF WorkerDispatch, WorkerGoto, Moves, ControlInv, TypeOK
<1>2. CASE stopPending
  BY <1>1, <1>2, StoppedMoveKeeps DEF Accounting, HeaderWork
<1>3. CASE ~stopPending
  <2>1. /\ UNCHANGED <<cpc, call, units, enqueuePosition, item, wslot, stopPending>>
        /\ \A v \in Workers : v # w => wpc'[v] = wpc[v]
    BY <1>1 DEF Moves
  <2>2. /\ UNCHANGED <<Working, Total, Given, Filling, Posted, Wanted>>
        /\ Entering' /\ Laid' /\ Placed'
    BY <2>1, CallsKept
  <2>3. wpc'[w] = item[s].type /\ item[s].type \in {"crypt", "derive", "finalize"}
    BY <1>1, <1>3 DEF ControlInv, Typed, WorkTypes
  <2>4. /\ \A v \in Workers : wpc'[v] \in Using => wpc[v] \in Using
        /\ \A v \in Workers : wpc'[v] \in Owning => wpc[v] \in Owning
    BY <1>1, <2>1 DEF Using, Owning, Uncounted
  <2>5. FirstTaken' /\ Filled' /\ Held'
    <3>1. FirstTaken' /\ Filled'
      BY <1>1, <2>1, <2>2, <2>4, Members DEF Ring, FirstTaken, Filled
    <3> QED
      BY <1>1, <2>1, <2>4, <3>1 DEF Ring, Held
  <2>6. Serving'
    <3>1. item[s].type = "crypt" => s \in Wanted
      BY <1>1, <1>3 DEF Ring, Serving
    <3>2. /\ wpc'[w] \in Accounting => s \in Wanted
          /\ wpc'[w] \in HeaderWork => item[s].type \in {"derive", "finalize"}
          /\ wpc'[w] # "freeFragment" /\ wpc'[w] # "taken"
      BY <2>3, <3>1 DEF Accounting, HeaderWork
    <3> QED
      BY <1>1, <2>1, <2>2, <3>2 DEF Ring, Serving
  <2>7. \A c \in Working : Owed'[c] = Owed[c]
    <3> SUFFICES ASSUME NEW c \in Working PROVE Owed'[c] = Owed[c]
      OBVIOUS
    <3> DEFINE U(t) == \E v \in Workers : wslot[v] = t /\ wpc[v] \in Uncounted
               V(t) == \E v \in Workers : wslot[v] = t /\ wpc'[v] \in Uncounted
    <3>1. \A t \in Slots : t # s => (U(t) <=> V(t))
      BY <2>1
    <3>2. U(s) /\ (item[s].type = "crypt" => V(s))
      BY <1>1, <2>1, <2>3 DEF Uncounted
    <3>3. s \in Posted[c] => item[s].type = "crypt"
      BY PostedFacts
    <3>4. Owed[c] = {t \in Arc(call[c].first, Total[c]) : t \notin Posted[c]
            \/ state[t] = "Ready" \/ U(t)}
      BY Members DEF Owed
    <3>5. Owed'[c] = {t \in Arc(call[c].first, Total[c]) : t \notin Posted[c]
            \/ state[t] = "Ready" \/ V(t)}
      BY <1>1, <2>1, <2>2, Members DEF Owed
    <3>6. Arc(call[c].first, Total[c]) \subseteq Slots
      BY DEF Arc
    <3> HIDE DEF U, V
    <3> QED
      BY <3>1, <3>2, <3>3, <3>4, <3>5, <3>6
  <2>8. Counted' /\ Finishing'
    <3>1. \A v \in Workers : wpc[v] = "signalItem" => item[wslot[v]].owner \in Working
      BY AccountingWorks DEF Accounting
    <3>2. \A v \in Workers : wpc'[v] = "signalItem" => wpc[v] = "signalItem"
      BY <2>1, <2>3
    <3> QED
      BY <1>1, <2>1, <2>2, <2>7, <3>1, <3>2, CountsKept
  <2> QED
    BY <2>2, <2>5, <2>6, <2>8 DEF Ring
<1> QED
  BY <1>2, <1>3

(* A slot is given back: by the thread that has it to itself, ...          *)
LEMMA GiveBackKeeps ==
  ASSUME ControlInv, Ring, NEW w \in Workers, Moves(w), ~stopPending,
         UNCHANGED <<fragments, itemCompleted>>,
         state' = [state EXCEPT ![wslot[w]] = "Free"],
         \/ wpc[w] = "freeFragment" /\ wpc'[w] = "signalFragment"
         \/ wpc[w] = "free" /\ wpc'[w] = "signalFree"
  PROVE  Ring'
<1> DEFINE s == wslot[w]
<1>1. /\ UNCHANGED <<cpc, call, units, enqueuePosition, item, wslot, stopPending>>
      /\ \A v \in Workers : v # w => wpc'[v] = wpc[v]
  BY DEF Moves
<1>2. /\ UNCHANGED <<Working, Total, Given, Filling, Posted, Wanted>>
      /\ Entering' /\ Laid' /\ Placed'
  BY <1>1, CallsKept
<1>3. s \in Slots /\ state'[s] = "Free" /\ \A t \in Slots : t # s => state'[t] = state[t]
  BY DEF ControlInv, TypeOK
<1>4. /\ wpc[w] \in Owning /\ wpc[w] \in Using /\ wpc'[w] \notin Owning \cup HeaderWork
      /\ wpc[w] = "freeFragment" <=> wpc[w] \in Uncounted
      /\ wpc[w] \in Uncounted <=> wpc'[w] \in Uncounted
      /\ wpc[w] = "freeFragment" => wpc[w] \in Accounting
      /\ wpc[w] = "free" => wpc[w] \in HeaderWork /\ wpc'[w] \notin Using
      /\ wpc'[w] \in Accounting => wpc[w] \in Accounting
      /\ wpc'[w] \notin {"freeFragment", "signalItem", "taken"} /\ wpc[w] # "signalItem"
  BY DEF Owning, Using, Uncounted, HeaderWork, Accounting
<1>5. state[s] = "Busy" /\ \A v \in Workers : v # w /\ wpc[v] \in Using => wslot[v] # s
  BY <1>4 DEF Ring, Held
<1>6. \A c \in Working : call[c].first # s
  <2> SUFFICES ASSUME NEW c \in Working, call[c].first = s PROVE FALSE
    OBVIOUS
  <2>1. s \in Posted[c]
    BY <1>5 DEF Ring, FirstTaken
  <2>2. item[s].type = "crypt" /\ item[s].first = s
    BY <2>1, PostedFacts
  <2>3. wpc[w] # "free"
    BY <1>4, <2>2 DEF Ring, Serving
  <2>4. wpc[w] # "freeFragment"
    BY <2>2 DEF Ring, Serving
  <2> QED
    BY <2>3, <2>4
<1>7. FirstTaken'
  BY <1>1, <1>2, <1>3, <1>6, WorkingFacts DEF Ring, FirstTaken
<1>8. /\ \A v \in Workers : wpc'[v] \in Using => wpc[v] \in Using
      /\ \A v \in Workers : wpc'[v] \in Owning => wpc[v] \in Owning /\ wslot[v] # s
      /\ \A v \in Workers : wslot[v] \in Slots
  BY <1>1, <1>4, <1>5 DEF ControlInv, TypeOK, Owning, Using, Uncounted
<1>9. Filled'
  <2>1. \A c \in Filling : call[c].slot \in Slots
    BY Members, CallFields DEF ControlInv
  <2> QED
    BY <1>1, <1>2, <1>3, <1>8, <2>1, Members DEF Ring, Filled
<1>10. Held'
  BY <1>1, <1>3, <1>8 DEF Ring, Held
<1>11. Serving'
  <2>1. \A t \in Slots : state'[t] = "Ready" => state[t] = "Ready"
    BY <1>3
  <2>2. \A v \in Workers : /\ wpc'[v] \in Accounting => wpc[v] \in Accounting
                           /\ wpc'[v] \in HeaderWork => wpc[v] \in HeaderWork
                           /\ wpc'[v] = "freeFragment" => wpc[v] = "freeFragment"
                           /\ wpc'[v] = "taken" => wpc[v] = "taken"
    BY <1>1, <1>4
  <2> QED
    BY <1>1, <1>2, <2>1, <2>2 DEF Ring, Serving
<1>12. \A c \in Working : Owed'[c] = Owed[c]
  <2>1. \A t \in Slots : state'[t] = "Ready" <=> state[t] = "Ready"
    BY <1>3, <1>5
  <2>2. \A v \in Workers : wpc'[v] \in Uncounted <=> wpc[v] \in Uncounted
    BY <1>1, <1>4
  <2>3. \A c \in Clients : Arc(call[c].first, Total[c]) \subseteq Slots
    BY DEF Arc
  <2> QED
    BY <1>1, <1>2, <2>1, <2>2, <2>3, Members DEF Owed
<1>13. Counted' /\ Finishing'
  <2>1. \A v \in Workers : wpc[v] = "signalItem" => item[wslot[v]].owner \in Working
    BY AccountingWorks DEF Accounting
  <2>2. \A v \in Workers : wpc'[v] = "signalItem" => wpc[v] = "signalItem"
    BY <1>1, <1>4
  <2> QED
    BY <1>1, <1>2, <1>12, <2>1, <2>2, CountsKept
<1> QED
  BY <1>2, <1>7, <1>9, <1>10, <1>11, <1>13 DEF Ring

(* ... of a fragment other than the first,                                 *)
LEMMA WorkerFreeFragmentKeeps ==
  ASSUME ControlInv, Ring, NEW w \in Workers, WorkerFree(w, "freeFragment", "signalFragment")
  PROVE  Ring'
<1> USE DEF stopVars, ringVars, clientVars, dataVars, headerVars
<1>1. /\ Moves(w) /\ UNCHANGED <<fragments, itemCompleted>>
      /\ state' = [state EXCEPT ![wslot[w]] = "Free"]
      /\ wpc[w] = "freeFragment" /\ wpc'[w] = "signalFragment"
  BY DEF WorkerFree, WorkerGoto, Moves, ControlInv, TypeOK
<1>2. ~stopPending
  BY <1>1, ServingFacts DEF Accounting
<1> QED
  BY <1>1, <1>2, GiveBackKeeps

(* ... or of a header's item.                                              *)
LEMMA WorkerFreeHeaderKeeps ==
  ASSUME ControlInv, Ring, NEW w \in Workers, WorkerFree(w, "free", "signalFree")
  PROVE  Ring'
<1> USE DEF stopVars, ringVars, clientVars, dataVars, headerVars
<1>1. /\ Moves(w) /\ UNCHANGED <<fragments, itemCompleted>>
      /\ state' = [state EXCEPT ![wslot[w]] = "Free"]
      /\ wpc[w] = "free" /\ wpc'[w] = "signalFree"
  BY DEF WorkerFree, WorkerGoto, Moves, ControlInv, TypeOK
<1>2. CASE stopPending
  BY <1>1, <1>2, StoppedMoveKeeps DEF Accounting, HeaderWork
<1> QED
  BY <1>1, <1>2, GiveBackKeeps

(* A fragment is counted off.                                              *)
LEMMA WorkerAccountKeeps ==
  ASSUME ControlInv, Ring, NEW w \in Workers, WorkerAccount(w)
  PROVE  Ring'
<1> USE DEF stopVars, ringVars, clientVars, dataVars, headerVars
<1> DEFINE s == wslot[w]
           c == item[s].owner
           f == item[s].first
<1>1. /\ Moves(w) /\ UNCHANGED <<state, itemCompleted>>
      /\ wpc[w] = "account"
      /\ wpc'[w] = IF fragments[f] = 1 THEN "signalItem" ELSE "loop"
      /\ fragments' = [fragments EXCEPT ![f] = @ - 1]
  BY DEF WorkerAccount, WorkerGoto, Moves, ControlInv, TypeOK
<1>2. /\ UNCHANGED <<cpc, call, units, enqueuePosition, item, wslot, stopPending>>
      /\ \A v \in Workers : v # w => wpc'[v] = wpc[v]
  BY <1>1 DEF Moves
<1>3. /\ UNCHANGED <<Working, Total, Given, Filling, Posted, Wanted>>
      /\ Entering' /\ Laid' /\ Placed'
  BY <1>2, CallsKept
<1>4. /\ wpc[w] \in Accounting /\ wpc[w] \in Using /\ wpc[w] \in Uncounted
      /\ wpc'[w] \notin Using \cup Uncounted \cup Owning \cup HeaderWork
      /\ wpc'[w] \notin {"freeFragment", "taken"}
  BY <1>1 DEF Accounting, Using, Uncounted, Owning, HeaderWork
<1>5. /\ ~stopPending /\ s \in Slots /\ c \in Working /\ call[c].first = f /\ s \in Posted[c]
      /\ state[s] # "Ready"
      /\ \A v \in Workers : v # w /\ wpc[v] \in Using => wslot[v] # s
  BY <1>4, ServingFacts
<1>6. \A d \in Working : d # c => call[d].first # f
  BY <1>5, FirstsDiffer
<1>7. FirstTaken' /\ Filled' /\ Held'
  <2>1. /\ \A v \in Workers : wpc'[v] \in Using => wpc[v] \in Using
        /\ \A v \in Workers : wpc'[v] \in Owning => wpc[v] \in Owning
    BY <1>2, <1>4
  <2>2. FirstTaken' /\ Filled'
    BY <1>1, <1>2, <1>3, <2>1, Members DEF Ring, FirstTaken, Filled
  <2> QED
    BY <1>1, <1>2, <2>1, <2>2 DEF Ring, Held
<1>8. Serving'
  BY <1>1, <1>2, <1>3, <1>4 DEF Ring, Serving
<1>9. Owed'[c] = Owed[c] \ {s} /\ s \in Owed[c]
  <2> DEFINE U(t) == \E v \in Workers : wslot[v] = t /\ wpc[v] \in Uncounted
             V(t) == \E v \in Workers : wslot[v] = t /\ wpc'[v] \in Uncounted
  <2>1. \A t \in Slots : t # s => (U(t) <=> V(t))
    BY <1>2
  <2>2. U(s) /\ ~V(s)
    BY <1>2, <1>4, <1>5 DEF Using
  <2>3. Owed[c] = {t \in Arc(f, Total[c]) : t \notin Posted[c] \/ state[t] = "Ready" \/ U(t)}
    BY <1>5, Members DEF Owed
  <2>4. Owed'[c] = {t \in Arc(f, Total[c]) : t \notin Posted[c] \/ state[t] = "Ready" \/ V(t)}
    BY <1>1, <1>2, <1>3, <1>5, Members DEF Owed
  <2>5. Arc(f, Total[c]) \subseteq Slots /\ s \in Arc(f, Total[c])
    BY <1>5, PostedFacts DEF Arc
  <2> HIDE DEF U, V, s, c, f
  <2> QED
    BY <1>5, <2>1, <2>2, <2>3, <2>4, <2>5
<1>10. \A d \in Working : d # c => Owed'[d] = Owed[d]
  <2> SUFFICES ASSUME NEW d \in Working, d # c PROVE Owed'[d] = Owed[d]
    OBVIOUS
  <2> DEFINE U(t) == \E v \in Workers : wslot[v] = t /\ wpc[v] \in Uncounted
             V(t) == \E v \in Workers : wslot[v] = t /\ wpc'[v] \in Uncounted
             g == call[d].first
  <2>1. \A t \in Slots : t # s => (U(t) <=> V(t))
    BY <1>2
  <2>2. s \notin Posted[d]
    BY <1>5, PostedFacts
  <2>3. Owed[d] = {t \in Arc(g, Total[d]) : t \notin Posted[d] \/ state[t] = "Ready" \/ U(t)}
    BY Members DEF Owed
  <2>4. Owed'[d] = {t \in Arc(g, Total[d]) : t \notin Posted[d] \/ state[t] = "Ready" \/ V(t)}
    BY <1>1, <1>2, <1>3, Members DEF Owed
  <2>5. Arc(g, Total[d]) \subseteq Slots
    BY DEF Arc
  <2> HIDE DEF U, V, s, c, g
  <2> QED
    BY <2>1, <2>2, <2>3, <2>4, <2>5
<1>11. /\ fragments[f] = Cardinality(Owed[c]) /\ IsFiniteSet(Owed[c])
       /\ Cardinality(Owed'[c]) = fragments[f] - 1 /\ fragments'[f] = fragments[f] - 1
       /\ fragments[f] \in Nat /\ IsFiniteSet(Owed'[c])
       /\ \A t \in Slots : t # f => fragments'[t] = fragments[t]
  <2>1. Owed[c] \subseteq Arc(f, Total[c])
    BY <1>5, Members DEF Owed
  <2>2. IsFiniteSet(Arc(f, Total[c]))
    BY <1>5, ArcSize, WorkingFacts
  <2>3. IsFiniteSet(Owed[c])
    BY <2>1, <2>2, FS_Subset
  <2>4. Cardinality(Owed[c] \ {s}) = Cardinality(Owed[c]) - 1 /\ IsFiniteSet(Owed[c] \ {s})
    BY <1>9, <2>3, FS_RemoveElement
  <2>5. fragments[f] = Cardinality(Owed[c])
    BY <1>5 DEF Ring, Counted
  <2>6. Cardinality(Owed[c]) \in Nat
    BY <2>3, FS_CardinalityType
  <2>7. f \in Slots
    BY <1>5, WorkingFacts
  <2>8. fragments'[f] = fragments[f] - 1 /\ \A t \in Slots : t # f => fragments'[t] = fragments[t]
    BY <1>1, <2>7 DEF ControlInv, TypeOK
  <2> HIDE DEF s, c, f
  <2> QED
    BY <1>9, <2>3, <2>4, <2>5, <2>6, <2>8
<1>12. Counted'
  <2>1. \A d \in Working : fragments'[call[d].first] = Cardinality(Owed'[d])
    <3>1. \A d \in Working : d # c => fragments'[call[d].first] = Cardinality(Owed'[d])
      BY <1>6, <1>10, <1>11, WorkingFacts DEF Ring, Counted
    <3> QED
      BY <1>5, <1>11, <3>1
  <2>2. \A d \in Working : cpc[d] = "complete" => Owed'[d] = {}
    BY <1>9, <1>10 DEF Ring, Counted
  <2> QED
    BY <1>2, <1>3, <2>1, <2>2, Members DEF Counted
<1>13. Finishing'
  <2>1. Owed[c] # {} /\ cpc[c] # "complete" /\ c \in Clients
    BY <1>5, <1>9, Members DEF Ring, Counted
  <2>2. ~itemCompleted[f]
    <3> SUFFICES ASSUME itemCompleted[f] PROVE FALSE
      OBVIOUS
    <3>1. f \in Slots
      BY <1>5, WorkingFacts
    <3>2. \E d \in Working : call[d].first = f /\ Owed[d] = {}
      BY <3>1 DEF Ring, Finishing
    <3> QED
      BY <1>6, <2>1, <3>2
  <2>3. \A v \in Workers : wpc[v] = "signalItem" =>
           item[wslot[v]].owner # c /\ item[wslot[v]].owner \in Working
    BY <2>1, AccountingWorks DEF Ring, Finishing, Accounting
  <2>4. wpc'[w] = "signalItem" => Owed'[c] = {}
    BY <1>1, <1>11, FS_EmptySet
  <2>5. \A v \in Workers, d \in Clients : wpc'[v] = "signalItem" /\ item[wslot[v]].owner = d =>
           /\ Owed'[d] = {} /\ ~itemCompleted[call[d].first] /\ cpc[d] # "complete"
           /\ \A u \in Workers : u # v /\ wpc'[u] = "signalItem" => item[wslot[u]].owner # d
    <3> SUFFICES ASSUME NEW v \in Workers, wpc'[v] = "signalItem"
                 PROVE  LET d == item[wslot[v]].owner IN
                          /\ Owed'[d] = {} /\ ~itemCompleted[call[d].first] /\ cpc[d] # "complete"
                          /\ \A u \in Workers : u # v /\ wpc'[u] = "signalItem" =>
                               item[wslot[u]].owner # d
      OBVIOUS
    <3>1. CASE v = w
      BY <1>2, <1>5, <2>1, <2>2, <2>3, <2>4, <3>1
    <3>2. CASE v # w
      BY <1>2, <1>10, <2>3, <3>2, Members DEF Ring, Finishing
    <3> QED
      BY <3>1, <3>2
  <2>6. \A t \in Slots : itemCompleted[t] =>
          \E d \in Working : cpc[d] # "complete" /\ call[d].first = t /\ Owed'[d] = {}
    BY <1>10, <2>1 DEF Ring, Finishing
  <2> QED
    BY <1>1, <1>2, <1>3, <2>5, <2>6 DEF Finishing
<1> QED
  BY <1>3, <1>7, <1>8, <1>12, <1>13 DEF Ring

(* The last one of a call is said to be done.                              *)
LEMMA WorkerSignalItemKeeps ==
  ASSUME ControlInv, Ring, NEW w \in Workers, WorkerSignalItem(w)
  PROVE  Ring'
<1> USE DEF stopVars, ringVars, clientVars, dataVars, headerVars
<1> DEFINE s == wslot[w]
           c == item[s].owner
           f == item[s].first
<1>1. /\ Moves(w) /\ UNCHANGED <<state, fragments>>
      /\ wpc[w] = "signalItem" /\ wpc'[w] = "loop"
      /\ itemCompleted' = [itemCompleted EXCEPT ![f] = TRUE]
  BY DEF WorkerSignalItem, WorkerGoto, Moves, ControlInv, TypeOK
<1>2. /\ UNCHANGED <<cpc, call, units, enqueuePosition, item, wslot, stopPending>>
      /\ \A v \in Workers : v # w => wpc'[v] = wpc[v]
  BY <1>1 DEF Moves
<1>3. /\ UNCHANGED <<Working, Total, Given, Filling, Posted, Wanted>>
      /\ Entering' /\ Laid' /\ Placed'
  BY <1>2, CallsKept
<1>4. /\ \A v \in Workers : wpc'[v] \in Using => wpc[v] \in Using
      /\ \A v \in Workers : wpc'[v] \in Owning => wpc[v] \in Owning
      /\ \A v \in Workers : wpc'[v] \in HeaderWork => wpc[v] \in HeaderWork
      /\ \A v \in Workers : wpc'[v] \in Accounting => wpc[v] \in Accounting
      /\ \A v \in Workers : wpc'[v] \in Uncounted <=> wpc[v] \in Uncounted
      /\ \A v \in Workers : wpc'[v] \in {"freeFragment", "taken", "signalItem"} =>
             wpc'[v] = wpc[v]
  BY <1>1, <1>2 DEF Accounting, Using, Uncounted, Owning, HeaderWork
<1>5. /\ c \in Working /\ call[c].first = f /\ s \in Posted[c] /\ c \in Clients /\ f \in Slots
  BY <1>1, ServingFacts, WorkingFacts DEF Accounting
<1>6. FirstTaken' /\ Filled' /\ Held'
  <2>1. FirstTaken' /\ Filled'
    BY <1>1, <1>2, <1>3, <1>4, Members DEF Ring, FirstTaken, Filled
  <2> QED
    BY <1>1, <1>2, <1>4, <2>1 DEF Ring, Held
<1>7. Serving'
  BY <1>1, <1>2, <1>3, <1>4 DEF Ring, Serving
<1>8. UNCHANGED Owed
  BY <1>1, <1>2, <1>3, <1>4 DEF Owed
<1>9. Counted'
  BY <1>1, <1>2, <1>3, <1>8, Members DEF Ring, Counted
<1>10. Finishing'
  <2>1. Owed[c] = {} /\ cpc[c] # "complete"
    BY <1>1, <1>5 DEF Ring, Finishing
  <2>2. \A d \in Working : d # c => call[d].first # f
    BY <1>5, FirstsDiffer
  <2>3. \A v \in Workers : wpc'[v] = "signalItem" =>
          /\ v # w /\ wpc[v] = "signalItem" /\ item[wslot[v]].owner \in Working
          /\ item[wslot[v]].owner # c
    BY <1>1, <1>4, <1>5, AccountingWorks DEF Ring, Finishing, Accounting
  <2>4. \A t \in Slots : t # f => itemCompleted'[t] = itemCompleted[t]
    BY <1>1 DEF ControlInv, TypeOK
  <2>5. \A d \in Working : d # c => itemCompleted'[call[d].first] = itemCompleted[call[d].first]
    BY <2>2, <2>4, WorkingFacts
  <2>6. \A v \in Workers, d \in Clients : wpc'[v] = "signalItem" /\ item[wslot[v]].owner = d =>
           /\ Owed[d] = {} /\ ~itemCompleted'[call[d].first] /\ cpc[d] # "complete"
           /\ \A u \in Workers : u # v /\ wpc'[u] = "signalItem" => item[wslot[u]].owner # d
    BY <2>3, <2>5 DEF Ring, Finishing
  <2>7. \A t \in Slots : itemCompleted'[t] =>
          \E d \in Working : cpc[d] # "complete" /\ call[d].first = t /\ Owed[d] = {}
    BY <1>5, <2>1, <2>4 DEF Ring, Finishing
  <2> QED
    BY <1>2, <1>3, <1>8, <2>6, <2>7 DEF Finishing
<1> QED
  BY <1>3, <1>6, <1>7, <1>9, <1>10 DEF Ring

(* The lock and the way out of a header's call, where no slots are held.   *)
LEMMA LockKeeps ==
  ASSUME ControlInv, Ring, NEW c \in Clients, Lock(c)
  PROVE  Ring'
<1> USE DEF stopVars, slotVars, workerVars, dataVars, headerVars
<1>1. Outer(c)
  BY CallFields DEF Lock, Goto, Outer, ControlInv, TypeOK, Calls, Ring, Entering, Total
<1> QED
  BY <1>1, OuterKeeps

(* While a client has the enqueue mutex the other calls have all their     *)
(* slots, and the next free slot is not one of them.                       *)
LEMMA OthersWait ==
  ASSUME ControlInv, Ring, NEW c \in Clients, cpc[c] \in Locked, NEW d \in Working, d # c
  PROVE  /\ cpc[d] \in {"await", "complete"} /\ d \notin Filling /\ call[d].left = 0
         /\ Given[d] >= 1 /\ Posted[d] = Arc(call[d].first, Given[d])
         /\ call[d].first \in Posted[d] /\ state[call[d].first] # "Free"
         /\ state[enqueuePosition] = "Free" =>
              /\ enqueuePosition # call[d].first
              /\ enqueuePosition \notin Arc(call[d].first, Given[d])
              /\ Dist(call[d].first, enqueuePosition) >= Given[d]
<1>1. cpc[d] \notin Locked
  BY InsideFacts, Members DEF Locked, Outside
<1>2. cpc[d] \in {"await", "complete"} /\ d \notin Filling
  BY <1>1 DEF Working, Adding, Locked, Filling
<1>3. call[d].left = 0
  BY <1>2 DEF Ring, Laid
<1>4. Given[d] >= 1 /\ d \in Clients /\ Given[d] \in Nat
      /\ call[d].first \in Arc(call[d].first, Given[d])
  BY <1>3, WorkingFacts
<1>5. Posted[d] = Arc(call[d].first, Given[d])
  BY <1>2, <1>4 DEF Posted, Arc
<1>6. call[d].first \in Posted[d] /\ state[call[d].first] # "Free"
  BY <1>4, <1>5 DEF Ring, FirstTaken
<1>7. enqueuePosition # call[d].first => Dist(call[d].first, enqueuePosition) >= Given[d]
  BY DEF Ring, Placed
<1>8. Dist(call[d].first, enqueuePosition) >= Given[d] =>
        enqueuePosition \notin Arc(call[d].first, Given[d])
  <2>1. Dist(call[d].first, enqueuePosition) \in Nat
    BY WorkingFacts, DistFacts DEF ControlInv, TypeOK
  <2> QED
    BY <1>4, <2>1 DEF Arc
<1> QED
  BY <1>2, <1>3, <1>4, <1>5, <1>6, <1>7, <1>8

(* The count is set before the first slot is filled.                       *)
LEMMA SetFragmentCountKeeps ==
  ASSUME ControlInv, Ring, NEW c \in Clients, SetFragmentCount(c)
  PROVE  Ring'
<1> USE DEF stopVars, ringVars, slotVars, workerVars, dataVars, headerVars
<1> DEFINE f == call[c].first
<1>1. /\ UNCHANGED <<state, item, itemCompleted, enqueuePosition, stopPending, wpc, wslot, call,
             units>>
      /\ cpc[c] = "first" /\ cpc'[c] = "slot"
      /\ \A d \in Clients : d # c => cpc'[d] = cpc[d]
      /\ state[f] = "Free" /\ f \in Slots
      /\ fragments'[f] = call[c].left /\ \A t \in Slots : t # f => fragments'[t] = fragments[t]
  BY CallFields DEF SetFragmentCount, Goto, ControlInv, TypeOK
<1>2. /\ call[c].type = "crypt" /\ units[c] \in Units
      /\ call[c].left = Total[c] /\ f = enqueuePosition
  BY <1>1 DEF Ring, Entering
<1>3. Total[c] \in 1..QueueSize /\ Total[c] \in Nat /\ QueueSize \in Nat /\ Given[c] = 0
  BY <1>2, TotalFacts DEF Total, Given
<1>4. Working' = Working \cup {c} /\ c \notin Working
  BY <1>1, <1>2 DEF Working, Adding
<1>5. UNCHANGED <<Total, Given, Filling>> /\ c \notin Filling
  BY <1>1 DEF Total, Given, Filling
<1>6. UNCHANGED Posted
  BY <1>1, <1>5 DEF Posted
<1>7. Arc(f, Given[c]) = {} /\ Posted[c] = {} /\ Dist(f, f) = 0
  BY <1>1, <1>3, DistFacts DEF Arc, Posted
<1>8. \A d \in Working : d # c /\ call[d].first # f /\ cpc'[d] = cpc[d]
  BY <1>1, <1>2, <1>4, OthersWait, Members DEF Locked
<1>9. Entering'
  BY <1>1, <1>5 DEF Ring, Entering
<1>10. Laid'
  BY <1>1, <1>2, <1>3, <1>4, <1>5, <1>7, <1>8, Members DEF Ring, Laid
<1>11. Placed'
  BY <1>1, <1>2, <1>3, <1>4, <1>5, <1>7, <1>8, Members DEF Ring, Placed
<1>12. FirstTaken'
  BY <1>1, <1>4, <1>6, <1>7, Members DEF Ring, FirstTaken
<1>13. Filled' /\ Held'
  BY <1>1, <1>5, Members DEF Ring, Filled, Held
<1>14. UNCHANGED Wanted
  BY <1>1, <1>4, <1>6, <1>7 DEF Wanted
<1>15. Serving'
  BY <1>1, <1>14 DEF Ring, Serving
<1>16. UNCHANGED Owed
  BY <1>1, <1>5, <1>6 DEF Owed
<1>17. Owed[c] = Arc(f, Total[c])
  BY <1>7 DEF Owed
<1>18. Counted'
  <2>1. fragments'[f] = Cardinality(Owed'[c])
    BY <1>1, <1>2, <1>3, <1>16, <1>17, ArcSize
  <2>2. \A d \in Working : fragments'[call[d].first] = Cardinality(Owed'[d])
    BY <1>1, <1>8, <1>16, WorkingFacts DEF Ring, Counted
  <2>3. \A d \in Working : cpc'[d] = "complete" => Owed'[d] = {}
    BY <1>8, <1>16 DEF Ring, Counted
  <2> QED
    BY <1>1, <1>4, <2>1, <2>2, <2>3 DEF Counted
<1>19. Finishing'
  <2>1. \A w \in Workers : wpc[w] = "signalItem" => item[wslot[w]].owner \in Working
    BY AccountingWorks DEF Accounting
  <2>2. \A w \in Workers, d \in Clients : wpc[w] = "signalItem" /\ item[wslot[w]].owner = d =>
           /\ Owed[d] = {} /\ ~itemCompleted[call[d].first] /\ cpc'[d] # "complete"
           /\ \A v \in Workers : v # w /\ wpc[v] = "signalItem" => item[wslot[v]].owner # d
    BY <1>8, <2>1 DEF Ring, Finishing
  <2>3. \A t \in Slots : itemCompleted[t] =>
          \E d \in Working : cpc'[d] # "complete" /\ call[d].first = t /\ Owed[d] = {}
    BY <1>8 DEF Ring, Finishing
  <2> QED
    BY <1>1, <1>4, <1>16, <2>2, <2>3, SMTT(60) DEF Finishing
<1> QED
  BY <1>9, <1>10, <1>11, <1>12, <1>13, <1>15, <1>18, <1>19 DEF Ring

(* A slot is filled.                                                       *)
LEMMA FillFacts ==
  ASSUME ControlInv, Ring, NEW c \in Clients, Fill(c)
  PROVE  LET s == enqueuePosition IN
         /\ UNCHANGED <<state, fragments, itemCompleted, stopPending, wpc, wslot, units>>
         /\ cpc[c] = "slot" /\ cpc'[c] = IF call[c].type = "derive" THEN "increment" ELSE "ready"
         /\ \A d \in Clients : d # c => cpc'[d] = cpc[d] /\ call'[d] = call[d]
         /\ s \in Slots /\ state[s] = "Free" /\ enqueuePosition' = Advance(s)
         /\ call[c].left > 0 /\ call'[c].left = call[c].left - 1 /\ call'[c].slot = s
         /\ call'[c].type = call[c].type /\ call'[c].first = call[c].first
         /\ item'[s].type = call[c].type /\ item'[s].owner = c
         /\ call[c].type = "crypt" => item'[s].first = call[c].first
         /\ \A t \in Slots : t # s => item'[t] = item[t]
         /\ call[c].type \in {"crypt", "derive", "finalize"} /\ ~stopPending
         /\ call[c].left \in Int /\ call[c].first \in Slots
<1> USE DEF stopVars, slotVars, workerVars, dataVars, headerVars
<1>1. cpc[c] = "slot"
  BY DEF Fill, Goto
<1>2. ~stopPending
  BY <1>1, InsideFacts DEF Outside
<1>3. call[c].type \in {"crypt", "derive", "finalize"}
  BY <1>1 DEF ControlInv, Typed, Outside, WorkTypes
<1>4. /\ call \in [Clients -> Calls] /\ item \in [Slots -> Items]
           /\ cpc \in [Clients -> ClientPcs]
      /\ enqueuePosition \in Slots
  BY DEF ControlInv, TypeOK
<1>5. call[c].left \in Int /\ call[c].first \in Slots
  BY CallFields DEF ControlInv
<1>6. /\ item'[enqueuePosition].type = call[c].type /\ item'[enqueuePosition].owner = c
      /\ call[c].type = "crypt" => item'[enqueuePosition].first = call[c].first
      /\ \A t \in Slots : t # enqueuePosition => item'[t] = item[t]
  BY <1>4 DEF Fill
<1>7. /\ call'[c].left = call[c].left - 1 /\ call'[c].slot = enqueuePosition
      /\ call'[c].type = call[c].type /\ call'[c].first = call[c].first
      /\ \A d \in Clients : d # c => call'[d] = call[d]
  BY <1>4 DEF Fill, Calls
<1>8. /\ cpc'[c] = IF call[c].type = "derive" THEN "increment" ELSE "ready"
      /\ \A d \in Clients : d # c => cpc'[d] = cpc[d]
  BY <1>4 DEF Fill, Goto
<1> QED
  BY <1>1, <1>2, <1>3, <1>4, <1>5, <1>6, <1>7, <1>8 DEF Fill

(* It was nobody's, and nobody gets past the first slot of another call.   *)
LEMMA FillKeeps ==
  ASSUME ControlInv, Ring, NEW c \in Clients, Fill(c)
  PROVE  Ring'
<1> DEFINE s == enqueuePosition
           f == call[c].first
<1>1. /\ UNCHANGED <<state, fragments, itemCompleted, stopPending, wpc, wslot, units>>
      /\ cpc[c] = "slot" /\ cpc'[c] = IF call[c].type = "derive" THEN "increment" ELSE "ready"
      /\ \A d \in Clients : d # c => cpc'[d] = cpc[d] /\ call'[d] = call[d]
      /\ s \in Slots /\ state[s] = "Free" /\ enqueuePosition' = Advance(s)
      /\ call[c].left > 0 /\ call'[c].left = call[c].left - 1 /\ call'[c].slot = s
      /\ call'[c].type = call[c].type /\ call'[c].first = f
      /\ item'[s].type = call[c].type /\ item'[s].owner = c
      /\ call[c].type = "crypt" => item'[s].first = f
      /\ \A t \in Slots : t # s => item'[t] = item[t]
      /\ call[c].type \in {"crypt", "derive", "finalize"} /\ ~stopPending
      /\ call[c].left \in Int /\ f \in Slots
  BY FillFacts
<1>2. /\ UNCHANGED <<Working, Total>>
      /\ c \in Working <=> call[c].type = "crypt"
  <2>1. UNCHANGED Total
    BY <1>1 DEF Total
  <2> QED
    BY <1>1, <2>1 DEF Working, Adding
<1>3. Filling' = Filling \cup {c} /\ c \notin Filling
  BY <1>1 DEF Filling
<1>4. \A d \in Working : d # c =>
        /\ cpc[d] \in {"await", "complete"} /\ d \notin Filling /\ call[d].left = 0
        /\ Given[d] >= 1 /\ Posted[d] = Arc(call[d].first, Given[d])
        /\ s # call[d].first /\ s \notin Arc(call[d].first, Given[d])
        /\ Dist(call[d].first, s) >= Given[d]
  BY <1>1, OthersWait DEF Locked
<1>5. Filling = {}
  <2>1. \A d \in Filling : cpc[d] \in Locked /\ d \in Clients
    BY DEF Filling, Locked
  <2> QED
    BY <1>1, <1>3, <2>1, InsideFacts DEF Locked, Outside
<1>6. \A d \in Clients : d # c => Given'[d] = Given[d] /\ Posted'[d] = Posted[d]
  <2>1. \A d \in Clients : d # c => Given'[d] = Given[d]
    BY <1>1, <1>2 DEF Given
  <2> QED
    BY <1>1, <1>3, <2>1 DEF Posted
<1>7. ASSUME c \in Working
      PROVE  /\ Given[c] \in Nat /\ Given[c] < QueueSize /\ QueueSize \in Nat
             /\ Given'[c] = Given[c] + 1 /\ call'[c].left \in 0..Total[c]
             /\ Dist(f, s) = Given[c] /\ s \notin Arc(f, Given[c])
             /\ Arc(f, Given'[c]) = Arc(f, Given[c]) \cup {s}
             /\ Posted[c] = Arc(f, Given[c]) /\ Posted'[c] = Posted[c]
  <2>1. /\ Total[c] \in 1..QueueSize /\ QueueSize \in Nat /\ Given[c] \in 0..Total[c]
        /\ call[c].left = Total[c] - Given[c]
    BY <1>7, WorkingFacts
  <2>2. /\ Given[c] \in Nat /\ Given[c] < QueueSize /\ Given'[c] = Given[c] + 1
        /\ call'[c].left \in 0..Total[c]
    BY <1>1, <1>2, <2>1 DEF Given
  <2>3. Dist(f, s) = Given[c]
    BY <1>1, <1>7, <2>2 DEF Ring, Placed, Adding
  <2>4. s \notin Arc(f, Given[c])
    BY <2>2, <2>3 DEF Arc
  <2>5. \A t \in Slots : Dist(f, t) \in Nat /\ (Dist(f, t) = Dist(f, s) => t = s)
    BY <1>1, DistFacts
  <2>6. Arc(f, Given[c] + 1) = Arc(f, Given[c]) \cup {s}
    BY <1>1, <2>2, <2>3, <2>5 DEF Arc
  <2>7. Posted[c] = Arc(f, Given[c])
    BY <1>3 DEF Posted, Arc
  <2>8. Posted'[c] = Arc(f, Given[c])
    BY <1>1, <1>3, <2>2, <2>4, <2>6 DEF Posted
  <2> QED
    BY <2>1, <2>2, <2>3, <2>4, <2>6, <2>7, <2>8
<1>8. \A d \in Working : Posted'[d] = Posted[d] /\ s \notin Posted[d] /\ Posted[d] \subseteq Slots
  <2>1. \A d \in Working : d # c => Posted'[d] = Posted[d] /\ s \notin Posted[d]
    BY <1>4, <1>6, Members
  <2> QED
    BY <1>7, <2>1, PostedFacts
<1>9. UNCHANGED Wanted /\ s \notin Wanted
  BY <1>1, <1>2, <1>8, Members DEF Wanted
<1>10. \A w \in Workers : wpc[w] \in Using \cup {"signalItem"} => wslot[w] # s
  <2>1. \A w \in Workers : wpc[w] \in Accounting => wslot[w] # s
    BY <1>9 DEF Ring, Serving
  <2>2. \A w \in Workers : wpc[w] \in Owning => wslot[w] # s
    BY <1>1 DEF Ring, Held
  <2> QED
    BY <2>1, <2>2 DEF Using, Owning, Uncounted, Accounting
<1>11. \A w \in Workers : wpc[w] \in Using \cup {"signalItem"} => item'[wslot[w]] = item[wslot[w]]
  BY <1>1, <1>10 DEF ControlInv, TypeOK
<1>12. Entering'
  <2>1. call[c].type = "crypt" => units[c] \in Units
    BY DEF Ring, Entering
  <2>2. cpc'[c] \in {"increment", "ready"}
    BY <1>1
  <2>3. ASSUME NEW d \in Clients, d # c
        PROVE  /\ call'[d].type = "crypt" => units'[d] \in Units
               /\ call'[d].type = "crypt" /\ cpc'[d] \in {"lock", "first", "firstWait"} =>
                    call'[d].left = Total'[d]
               /\ cpc'[d] \notin {"first", "firstWait"}
               /\ cpc'[d] \in {"await", "complete"} => call'[d].type = "crypt"
    <3>1. cpc[d] \notin {"first", "firstWait"}
      BY <1>1, <2>3, InsideFacts DEF Locked, Outside
    <3> QED
      BY <1>1, <1>2, <2>3, <3>1 DEF Ring, Entering
  <2> QED
    BY <1>1, <2>1, <2>2, <2>3 DEF Entering
<1>13. Laid'
  <2>1. \A d \in Working : d # c =>
          /\ call'[d].left \in 0..Total[d]
          /\ \A t \in Arc(call'[d].first, Given'[d]) :
               item'[t].type = "crypt" /\ item'[t].owner = d /\ item'[t].first = call'[d].first
          /\ cpc'[d] \in {"await", "complete"} => call'[d].left = 0
    BY <1>1, <1>4, <1>6, Members DEF Ring, Laid, Arc
  <2>2. c \in Working =>
          /\ call'[c].left \in 0..Total[c]
          /\ \A t \in Arc(f, Given'[c]) :
               item'[t].type = "crypt" /\ item'[t].owner = c /\ item'[t].first = f
          /\ cpc'[c] \notin {"await", "complete"}
    <3> SUFFICES ASSUME c \in Working
                 PROVE  /\ call'[c].left \in 0..Total[c]
                        /\ \A t \in Arc(f, Given'[c]) :
                             item'[t].type = "crypt" /\ item'[t].owner = c /\ item'[t].first = f
                        /\ cpc'[c] \notin {"await", "complete"}
      OBVIOUS
    <3>1. \A t \in Arc(f, Given[c]) :
            /\ item[t].type = "crypt" /\ item[t].owner = c /\ item[t].first = f
            /\ t \in Slots
      BY DEF Ring, Laid, Arc
    <3>2. \A t \in Arc(f, Given'[c]) :
             item'[t].type = "crypt" /\ item'[t].owner = c /\ item'[t].first = f
      BY <1>1, <1>2, <1>7, <3>1
    <3> QED
      BY <1>1, <1>7, <3>2
  <2> QED
    BY <1>1, <1>2, <2>1, <2>2, Members DEF Laid
<1>14. Placed'
  <2>1. ASSUME NEW d \in Working, d # c
        PROVE  /\ cpc'[d] \notin Adding /\ cpc'[d] # "ready"
               /\ enqueuePosition' = call'[d].first
                      \/ Dist(call'[d].first, enqueuePosition') >= Given'[d]
    <3>1. Dist(call[d].first, s) \in Nat /\ Given[d] \in Nat /\ d \in Clients
          /\ call[d].first \in Slots
      BY <1>1, <2>1, WorkingFacts, DistFacts
    <3>2. Advance(s) = call[d].first
            \/ Dist(call[d].first, Advance(s)) = Dist(call[d].first, s) + 1
      BY <1>1, <3>1, DistAdvance
    <3> QED
      BY <1>1, <1>4, <1>6, <2>1, <3>1, <3>2 DEF Adding
  <2>2. ASSUME c \in Working
        PROVE  /\ Dist(f, enqueuePosition') = Given'[c] \/ (enqueuePosition' = f
                    /\ Given'[c] = QueueSize)
               /\ Given'[c] >= 1 /\ Dist(f, s) = Given'[c] - 1
               /\ enqueuePosition' = f \/ Dist(f, enqueuePosition') >= Given'[c]
    <3>1. \/ Advance(s) = f /\ Dist(f, s) = QueueSize - 1
          \/ Advance(s) # f /\ Dist(f, Advance(s)) = Dist(f, s) + 1
      BY <1>1, DistAdvance
    <3> QED
      BY <1>1, <1>7, <2>2, <3>1
  <2> QED
    BY <1>1, <1>2, <2>1, <2>2, Members DEF Placed
<1>15. FirstTaken'
  BY <1>1, <1>2, <1>8, Members DEF Ring, FirstTaken
<1>16. Filled'
  BY <1>1, <1>3, <1>5, <1>10 DEF Filled
<1>17. Held'
  BY <1>1 DEF Ring, Held
<1>18. Serving'
  <2>1. \A t \in Slots : state[t] = "Ready" /\ item'[t].type = "crypt" => t \in Wanted
    BY <1>1 DEF Ring, Serving
  <2>2. \A w \in Workers : wpc[w] \in Accounting \cup HeaderWork \cup {"taken", "freeFragment"} =>
           item'[wslot[w]] = item[wslot[w]]
    BY <1>11 DEF Using, Uncounted, Accounting
  <2> QED
    BY <1>1, <1>9, <2>1, <2>2 DEF Ring, Serving
<1>19. \A d \in Working : Owed'[d] = Owed[d] /\ call'[d].first = call[d].first
  <2>1. \A d \in Working : d \in Clients /\ call'[d].first = call[d].first
    BY <1>1, Members
  <2> QED
    BY <1>1, <1>2, <1>8, <2>1 DEF Owed
<1>20. Counted'
  <2>1. \A d \in Working : cpc'[d] = "complete" => cpc[d] = "complete"
    BY <1>1, Members
  <2> QED
    BY <1>1, <1>2, <1>19, <2>1 DEF Ring, Counted
<1>21. Finishing'
  <2>1. \A w \in Workers : wpc[w] = "signalItem" =>
          item[wslot[w]].owner \in Working /\ item'[wslot[w]] = item[wslot[w]]
    BY <1>11, AccountingWorks DEF Accounting
  <2>2. \A d \in Working : cpc'[d] = "complete" <=> cpc[d] = "complete"
    BY <1>1, Members
  <2>3. \A w \in Workers, d \in Clients : wpc[w] = "signalItem" /\ item'[wslot[w]].owner = d =>
           /\ Owed'[d] = {} /\ ~itemCompleted[call'[d].first] /\ cpc'[d] # "complete"
           /\ \A v \in Workers : v # w /\ wpc[v] = "signalItem" => item'[wslot[v]].owner # d
    <3> SUFFICES ASSUME NEW w \in Workers, NEW d \in Clients, wpc[w] = "signalItem",
                        item'[wslot[w]].owner = d
                 PROVE  /\ Owed'[d] = {} /\ ~itemCompleted[call'[d].first] /\ cpc'[d] # "complete"
                        /\ \A v \in Workers : v # w /\ wpc[v] = "signalItem" =>
                             item'[wslot[v]].owner # d
      OBVIOUS
    <3>1. item[wslot[w]].owner = d /\ d \in Working
      BY <2>1
    <3>2. /\ Owed[d] = {} /\ ~itemCompleted[call[d].first] /\ cpc[d] # "complete"
          /\ \A v \in Workers : v # w /\ wpc[v] = "signalItem" => item[wslot[v]].owner # d
      BY <3>1 DEF Ring, Finishing
    <3> QED
      BY <1>19, <2>1, <2>2, <3>1, <3>2
  <2>4. \A t \in Slots : itemCompleted[t] =>
          \E d \in Working : cpc'[d] # "complete" /\ call'[d].first = t /\ Owed'[d] = {}
    BY <1>19, <2>2 DEF Ring, Finishing
  <2>5. UNCHANGED <<itemCompleted, wpc, wslot, Working>>
    BY <1>1, <1>2
  <2> QED
    BY <2>3, <2>4, <2>5 DEF Finishing
<1> QED
  BY <1>12, <1>13, <1>14, <1>15, <1>16, <1>17, <1>18, <1>20, <1>21 DEF Ring

(* A header's item is about to be offered.                                 *)
LEMMA ClearNoOutstandingKeeps ==
  ASSUME ControlInv, Ring, NEW c \in Clients, ClearNoOutstanding(c)
  PROVE  Ring'
<1> USE DEF stopVars, ringVars, slotVars, workerVars, dataVars
<1>1. /\ UNCHANGED <<state, item, fragments, itemCompleted, enqueuePosition, call, units,
                     stopPending, wpc, wslot>>
      /\ cpc[c] = "clear" /\ cpc'[c] = "ready"
      /\ \A d \in Clients : d # c => cpc'[d] = cpc[d]
  BY DEF ClearNoOutstanding, Goto, ControlInv, TypeOK
<1>2. call[c].type = "derive"
  BY <1>1 DEF Ring, Filled, Filling
<1>3. c \notin Working /\ UNCHANGED <<Working, Total, Given, Filling>>
  BY <1>1, <1>2 DEF Working, Total, Given, Filling
<1>4. UNCHANGED <<Posted, Owed>>
  <2>1. UNCHANGED Posted
    BY <1>1, <1>3 DEF Posted
  <2> QED
    BY <1>1, <1>3, <2>1 DEF Owed
<1>5. UNCHANGED Wanted
  BY <1>1, <1>3, <1>4 DEF Wanted
<1>6. \A d \in Working : cpc'[d] = cpc[d]
  BY <1>1, <1>3, Members
<1>7. Entering'
  BY <1>1, <1>2, <1>3 DEF Ring, Entering
<1>8. Laid' /\ Placed' /\ FirstTaken'
  BY <1>1, <1>3, <1>4, <1>6 DEF Ring, Laid, Placed, FirstTaken
<1>9. Filled' /\ Held' /\ Serving'
  BY <1>1, <1>3, <1>5, Members DEF Ring, Filled, Held, Serving
<1>10. Counted'
  BY <1>1, <1>3, <1>4, <1>6 DEF Ring, Counted
<1>11. Finishing'
  BY <1>1, <1>3, <1>4, <1>6 DEF Ring, Finishing
<1> QED
  BY <1>7, <1>8, <1>9, <1>10, <1>11 DEF Ring

(* A fragment is offered.                                                  *)
LEMMA SetReadyKeeps ==
  ASSUME ControlInv, Ring, NEW c \in Clients, SetReady(c)
  PROVE  Ring'
<1> USE DEF stopVars, ringVars, slotVars, workerVars, dataVars, headerVars
<1> DEFINE s == call[c].slot
           f == call[c].first
<1>1. /\ UNCHANGED <<item, fragments, itemCompleted, enqueuePosition, call, units,
                     stopPending, wpc, wslot>>
      /\ cpc[c] = "ready" /\ cpc'[c] = "notify"
      /\ \A d \in Clients : d # c => cpc'[d] = cpc[d]
      /\ s \in Slots /\ state'[s] = "Ready" /\ \A t \in Slots : t # s => state'[t] = state[t]
  BY CallFields DEF SetReady, Goto, ControlInv, TypeOK
<1>2. /\ c \in Filling /\ state[s] = "Free" /\ item[s].owner = c /\ item[s].type = call[c].type
      /\ \A w \in Workers : wpc[w] \in Using => wslot[w] # s
  BY <1>1 DEF Ring, Filled, Filling
<1>3. UNCHANGED <<Working, Total, Given>> /\ (c \in Working <=> call[c].type = "crypt")
  BY <1>1 DEF Working, Adding, Total, Given
<1>4. Filling = {c} /\ Filling' = {}
  <2>1. \A d \in Filling : d = c
    BY <1>1, InsideFacts DEF Filling, Locked, Outside
  <2> QED
    BY <1>1, <1>2, <2>1 DEF Filling
<1>5. \A d \in Working : d # c => Posted'[d] = Posted[d]
  BY <1>1, <1>3, <1>4, Members DEF Posted
<1>6. c \in Working =>
        /\ s \in Arc(f, Given[c]) /\ Posted'[c] = Arc(f, Given[c])
        /\ Posted[c] = Arc(f, Given[c]) \ {s} /\ item[s].first = f
  <2> SUFFICES ASSUME c \in Working
               PROVE  /\ s \in Arc(f, Given[c]) /\ Posted'[c] = Arc(f, Given[c])
                      /\ Posted[c] = Arc(f, Given[c]) \ {s} /\ item[s].first = f
    OBVIOUS
  <2>1. Given[c] >= 1 /\ Dist(f, s) = Given[c] - 1 /\ Given[c] \in Int
    BY <1>1, WorkingFacts DEF Ring, Placed
  <2>2. s \in Arc(f, Given[c])
    BY <1>1, <2>1 DEF Arc
  <2>3. item[s].first = f
    BY <2>2 DEF Ring, Laid
  <2>4. Posted'[c] = Arc(f, Given[c])
    BY <1>1, <1>3, <1>4 DEF Posted, Arc
  <2>5. Posted[c] = Arc(f, Given[c]) \ {s}
    BY <1>2 DEF Posted
  <2> QED
    BY <2>2, <2>3, <2>4, <2>5
<1>7. \A d \in Working : d # c => s \notin Arc(call[d].first, Given[d]) /\ call[d].first # s
      /\ s \notin Posted[d]
  <2> SUFFICES ASSUME NEW d \in Working, d # c
               PROVE  s \notin Arc(call[d].first, Given[d]) /\ call[d].first # s
                      /\ s \notin Posted[d]
    OBVIOUS
  <2>1. s \notin Arc(call[d].first, Given[d])
    BY <1>2 DEF Ring, Laid
  <2>2. call[d].first \in Posted[d] /\ Posted[d] = Arc(call[d].first, Given[d])
    BY <1>1, OthersWait DEF Locked
  <2> QED
    BY <2>1, <2>2
<1>8. s \notin Wanted
  BY <1>4, PostedFacts DEF Wanted
<1>9. Wanted' = Wanted \cup (IF c \in Working THEN {s} ELSE {})
  <2>1. Wanted \subseteq Wanted'
    BY <1>1, <1>3, <1>5, <1>6 DEF Wanted
  <2>2. Wanted' \subseteq Wanted \cup (IF c \in Working THEN {s} ELSE {})
    BY <1>1, <1>3, <1>5, <1>6 DEF Wanted
  <2>3. c \in Working => s \in Wanted'
    BY <1>1, <1>2, <1>3, <1>6 DEF Wanted
  <2> QED
    BY <2>1, <2>2, <2>3
<1>10. Entering'
  BY <1>1, <1>3 DEF Ring, Entering
<1>11. /\ \A d \in Clients : cpc'[d] \in Adding => cpc[d] \in Adding
       /\ \A d \in Clients : cpc'[d] \in {"ready", "await", "complete"} => cpc'[d] = cpc[d]
  BY <1>1 DEF Adding
<1>12. Laid' /\ Placed'
  <2>1. Laid'
    BY <1>1, <1>3, <1>11, Members DEF Ring, Laid
  <2> QED
    BY <1>1, <1>3, <1>11, <2>1, Members DEF Ring, Placed
<1>13. FirstTaken'
  <2>1. \A d \in Working : d # c =>
          (state'[call[d].first] = "Free" <=> call[d].first \notin Posted'[d])
    BY <1>1, <1>5, <1>7, WorkingFacts DEF Ring, FirstTaken
  <2>2. c \in Working => (state'[f] = "Free" <=> f \notin Posted'[c])
    <3> SUFFICES ASSUME c \in Working PROVE state'[f] = "Free" <=> f \notin Posted'[c]
      OBVIOUS
    <3>1. CASE f = s
      BY <1>1, <1>6, <3>1
    <3>2. CASE f # s
      BY <1>1, <1>6, <3>2, WorkingFacts DEF Ring, FirstTaken
    <3> QED
      BY <3>1, <3>2
  <2> QED
    BY <1>1, <1>3, <2>1, <2>2 DEF FirstTaken
<1>14. Filled' /\ Held'
  <2>1. \A w \in Workers : wslot[w] \in Slots /\ (wpc[w] \in Owning => wpc[w] \in Using)
    BY DEF ControlInv, TypeOK, Owning, Using, Uncounted
  <2>2. Filled'
    BY <1>4 DEF Filled
  <2> QED
    BY <1>1, <1>2, <2>1, <2>2 DEF Ring, Held
<1>15. Serving'
  <2>1. Wanted \subseteq Wanted' /\ (item[s].type = "crypt" => s \in Wanted')
    BY <1>2, <1>3, <1>9
  <2> QED
    BY <1>1, <2>1 DEF Ring, Serving
<1>16. \A d \in Working : Owed'[d] = Owed[d]
  <2> SUFFICES ASSUME NEW d \in Working PROVE Owed'[d] = Owed[d]
    OBVIOUS
  <2> DEFINE U(t) == \E v \in Workers : wslot[v] = t /\ wpc[v] \in Uncounted
             A == Arc(call[d].first, Total[d])
  <2>1. Owed[d] = {t \in A : t \notin Posted[d] \/ state[t] = "Ready" \/ U(t)}
    BY Members DEF Owed
  <2>2. Owed'[d] = {t \in A : t \notin Posted'[d] \/ state'[t] = "Ready" \/ U(t)}
    BY <1>1, <1>3, Members DEF Owed
  <2>3. A \subseteq Slots
    BY DEF Arc
  <2>4. \A t \in Slots : t # s => (t \in Posted'[d] <=> t \in Posted[d]) /\ state'[t] = state[t]
    BY <1>1, <1>5, <1>6
  <2>5. s \notin Posted[d] /\ state'[s] = "Ready"
    BY <1>1, <1>6, <1>7
  <2> HIDE DEF U, A, s, f
  <2> QED
    BY <2>1, <2>2, <2>3, <2>4, <2>5
<1>17. Counted'
  BY <1>1, <1>3, <1>11, <1>16, Members DEF Ring, Counted
<1>18. Finishing'
  <2>1. \A w \in Workers : wpc[w] = "signalItem" => item[wslot[w]].owner \in Working
    BY AccountingWorks DEF Accounting
  <2>2. \A d \in Working : cpc'[d] = "complete" <=> cpc[d] = "complete"
    BY <1>1, Members
  <2> QED
    BY <1>1, <1>3, <1>16, <2>1, <2>2 DEF Ring, Finishing
<1> QED
  BY <1>10, <1>12, <1>13, <1>14, <1>15, <1>17, <1>18 DEF Ring

(* All fragments are in the ring.                                          *)
LEMMA UnlockKeeps ==
  ASSUME ControlInv, Ring, NEW c \in Clients, Unlock(c)
  PROVE  Ring'
<1> USE DEF stopVars, slotVars, workerVars, dataVars, headerVars
<1>1. CASE call[c].type # "crypt"
  <2>1. Outer(c)
    BY <1>1 DEF Unlock, Goto, Outer, ControlInv, TypeOK, NoCall, NewCall
  <2> QED
    BY <2>1, OuterKeeps
<1>2. CASE call[c].type = "crypt"
  <2>1. /\ UNCHANGED <<state, item, fragments, itemCompleted, enqueuePosition, call, units,
                       stopPending, wpc, wslot>>
        /\ cpc[c] = "slot" /\ cpc'[c] = "await" /\ call[c].left = 0
        /\ \A d \in Clients : d # c => cpc'[d] = cpc[d]
    BY <1>2 DEF Unlock, Goto, ControlInv, TypeOK
  <2>2. UNCHANGED <<Working, Total, Given, Filling>>
    BY <1>2, <2>1 DEF Working, Adding, Total, Given, Filling
  <2>3. UNCHANGED Posted
    BY <2>1, <2>2 DEF Posted
  <2>4. UNCHANGED <<Wanted, Owed>>
    BY <2>1, <2>2, <2>3 DEF Wanted, Owed
  <2>5. /\ \A d \in Clients : cpc'[d] \in Adding => cpc[d] \in Adding /\ cpc'[d] = cpc[d]
        /\ \A d \in Clients : cpc'[d] \in {"await", "complete"} =>
               cpc'[d] = cpc[d] \/ call[d].left = 0
        /\ \A d \in Clients : cpc'[d] = "ready" <=> cpc[d] = "ready"
        /\ \A d \in Clients : cpc'[d] = "complete" <=> cpc[d] = "complete"
    BY <2>1 DEF Adding
  <2>6. Entering'
    BY <1>2, <2>1, <2>2 DEF Ring, Entering
  <2>7. Laid' /\ Placed'
    <3>1. Laid'
      BY <2>1, <2>2, <2>5, Members DEF Ring, Laid
    <3> QED
      BY <2>1, <2>2, <2>5, <3>1, Members DEF Ring, Placed
  <2>8. FirstTaken' /\ Filled'
    <3>1. \A d \in Filling : cpc'[d] = cpc[d]
      BY <2>1 DEF Filling
    <3> QED
      BY <2>1, <2>2, <2>3, <3>1 DEF Ring, FirstTaken, Filled
  <2>9. Held' /\ Serving'
    BY <2>1, <2>4 DEF Ring, Held, Serving
  <2>10. Counted'
    BY <2>1, <2>2, <2>4, <2>5, Members DEF Ring, Counted
  <2>11. Finishing'
    BY <2>1, <2>2, <2>4, <2>5, Members DEF Ring, Finishing
  <2> QED
    BY <2>6, <2>7, <2>8, <2>9, <2>10, <2>11 DEF Ring
<1> QED
  BY <1>1, <1>2

(* A client learns that its call is done.                                  *)
LEMMA AwaitKeeps ==
  ASSUME ControlInv, Ring, NEW c \in Clients, Await(c)
  PROVE  Ring'
<1> USE DEF stopVars, ringVars, slotVars, workerVars, dataVars, headerVars
<1> DEFINE f == call[c].first
<1>1. /\ UNCHANGED <<state, item, fragments, enqueuePosition, call, units, stopPending, wpc,
             wslot>>
      /\ cpc[c] = "await" /\ cpc'[c] = "complete" /\ \A d \in Clients : d # c => cpc'[d] = cpc[d]
      /\ f \in Slots /\ itemCompleted[f] /\ ~itemCompleted'[f]
      /\ \A t \in Slots : t # f => itemCompleted'[t] = itemCompleted[t]
  BY CallFields DEF Await, Goto, ControlInv, TypeOK
<1>2. call[c].type = "crypt" /\ c \in Working
  BY <1>1 DEF Ring, Entering, Working
<1>3. UNCHANGED <<Working, Total, Given, Filling>>
  BY <1>1 DEF Working, Adding, Total, Given, Filling
<1>4. UNCHANGED Posted
  BY <1>1, <1>3 DEF Posted
<1>5. UNCHANGED <<Wanted, Owed>>
  BY <1>1, <1>3, <1>4 DEF Wanted, Owed
<1>6. \A d \in Working : d # c => call[d].first # f
  BY <1>1, <1>2, FirstsDiffer DEF Adding
<1>7. Owed[c] = {}
  <2>1. \E d \in Working : call[d].first = f /\ Owed[d] = {}
    BY <1>1 DEF Ring, Finishing
  <2> QED
    BY <1>6, <2>1
<1>8. /\ \A d \in Clients : cpc'[d] \in Adding <=> cpc[d] \in Adding
      /\ \A d \in Clients : cpc'[d] = "ready" <=> cpc[d] = "ready"
      /\ \A d \in Clients : cpc'[d] \in {"await", "complete"} <=> cpc[d] \in {"await", "complete"}
  BY <1>1 DEF Adding
<1>9. Entering'
  BY <1>1, <1>2, <1>3 DEF Ring, Entering
<1>10. Laid' /\ Placed'
  <2>1. Laid'
    BY <1>1, <1>3, <1>8, Members DEF Ring, Laid
  <2> QED
    BY <1>1, <1>3, <1>8, <2>1, Members DEF Ring, Placed
<1>11. FirstTaken' /\ Filled'
  <2>1. \A d \in Filling : cpc'[d] = cpc[d]
    BY <1>1 DEF Filling
  <2> QED
    BY <1>1, <1>3, <1>4, <2>1 DEF Ring, FirstTaken, Filled
<1>12. Held' /\ Serving'
  BY <1>1, <1>5 DEF Ring, Held, Serving
<1>13. Counted'
  <2>1. \A d \in Working : cpc'[d] = "complete" => Owed[d] = {}
    BY <1>1, <1>7, Members DEF Ring, Counted
  <2> QED
    BY <1>1, <1>3, <1>5, <2>1 DEF Ring, Counted
<1>14. Finishing'
  <2>1. \A w \in Workers : wpc[w] = "signalItem" =>
          item[wslot[w]].owner \in Working /\ item[wslot[w]].owner # c
    BY <1>1, <1>2, AccountingWorks, Members DEF Ring, Finishing, Accounting
  <2>2. \A d \in Working : d # c => itemCompleted'[call[d].first] = itemCompleted[call[d].first]
    BY <1>1, <1>6, WorkingFacts
  <2>3. \A w \in Workers, d \in Clients : wpc[w] = "signalItem" /\ item[wslot[w]].owner = d =>
           /\ Owed[d] = {} /\ ~itemCompleted'[call[d].first] /\ cpc'[d] # "complete"
           /\ \A v \in Workers : v # w /\ wpc[v] = "signalItem" => item[wslot[v]].owner # d
    BY <1>1, <2>1, <2>2 DEF Ring, Finishing
  <2>4. \A t \in Slots : itemCompleted'[t] =>
          \E d \in Working : cpc'[d] # "complete" /\ call[d].first = t /\ Owed[d] = {}
    BY <1>1, Members DEF Ring, Finishing
  <2> QED
    BY <1>1, <1>3, <1>5, <2>3, <2>4 DEF Finishing
<1> QED
  BY <1>9, <1>10, <1>11, <1>12, <1>13, <1>14 DEF Ring

(* Its first slot is given back, last.                                     *)
LEMMA FreeFirstKeeps ==
  ASSUME ControlInv, Ring, NEW c \in Clients, FreeFirst(c)
  PROVE  Ring'
<1> USE DEF stopVars, ringVars, slotVars, workerVars, dataVars, headerVars
<1> DEFINE f == call[c].first
<1>1. /\ UNCHANGED <<item, fragments, itemCompleted, enqueuePosition, call, units,
                     stopPending, wpc, wslot>>
      /\ cpc[c] = "complete" /\ cpc'[c] = "signal" /\ \A d \in Clients : d # c => cpc'[d] = cpc[d]
      /\ f \in Slots /\ state'[f] = "Free" /\ \A t \in Slots : t # f => state'[t] = state[t]
  BY CallFields DEF FreeFirst, Goto, ControlInv, TypeOK
<1>2. c \in Working /\ Owed[c] = {}
  BY <1>1 DEF Ring, Entering, Working, Counted
<1>3. /\ Working' = Working \ {c} /\ UNCHANGED <<Total, Given, Filling>>
      /\ \A d \in Working : d # c => cpc'[d] = cpc[d]
  BY <1>1 DEF Working, Adding, Total, Given, Filling
<1>4. UNCHANGED Posted
  BY <1>1, <1>3 DEF Posted
<1>5. \A d \in Working : d # c => call[d].first # f
  BY <1>1, <1>2, FirstsDiffer DEF Adding
<1>6. f \in Posted[c]
  <2>1. Given[c] >= 1 /\ f \in Arc(f, Given[c]) /\ c \in Clients
    BY <1>1, <1>2, WorkingFacts DEF Adding
  <2>2. c \notin Filling
    BY <1>1 DEF Filling
  <2> QED
    BY <2>1, <2>2 DEF Posted
<1>7. \A t \in Posted[c] : state[t] # "Ready"
      /\ \A w \in Workers : wpc[w] \in Uncounted => wslot[w] # t
  <2>1. Posted[c] \subseteq Arc(f, Total[c])
    BY <1>2, PostedFacts
  <2> QED
    BY <1>2, <2>1 DEF Owed
<1>8. \A w \in Workers : wpc[w] \in Accounting => wslot[w] \notin Posted[c]
  <2> SUFFICES ASSUME NEW w \in Workers, wpc[w] \in Accounting, wslot[w] \in Posted[c] PROVE FALSE
    OBVIOUS
  <2>1. wpc[w] = "signalItem"
    BY <1>7 DEF Accounting, Uncounted
  <2>2. item[wslot[w]].owner = c
    BY <1>2, PostedFacts
  <2> QED
    BY <1>1, <2>1, <2>2 DEF Ring, Finishing
<1>9. \A w \in Workers : wpc[w] \in Owning => wslot[w] # f
  <2>1. \A w \in Workers : wpc[w] \in Uncounted => wslot[w] # f
    BY <1>6, <1>7
  <2>2. \A w \in Workers : wpc[w] \in HeaderWork => wslot[w] # f
    BY <1>2, <1>6, PostedFacts DEF Ring, Serving
  <2> QED
    BY <2>1, <2>2 DEF Owning, Uncounted
<1>10. \A t \in Slots : t \in Wanted /\ t \notin Posted[c] => t \in Wanted'
  BY <1>1, <1>3, <1>4 DEF Wanted
<1>11. Entering'
  BY <1>1, <1>3 DEF Ring, Entering
<1>12. Laid' /\ Placed'
  <2>1. Laid'
    BY <1>1, <1>3 DEF Ring, Laid
  <2> QED
    BY <1>1, <1>3, <2>1 DEF Ring, Placed
<1>13. FirstTaken'
  BY <1>1, <1>3, <1>4, <1>5, WorkingFacts DEF Ring, FirstTaken
<1>14. Filled'
  <2>1. \A d \in Filling : d \in Clients /\ call[d].slot \in Slots /\ cpc'[d] = cpc[d]
    BY <1>1, CallFields DEF Filling, ControlInv
  <2> QED
    BY <1>1, <1>3, <2>1 DEF Ring, Filled
<1>15. Held'
  BY <1>1, <1>9 DEF Ring, Held, ControlInv, TypeOK
<1>16. Serving'
  <2>1. ~stopPending => \A t \in Slots : state'[t] = "Ready"
        /\ item[t].type = "crypt" => t \in Wanted'
    <3>1. \A t \in Slots : state'[t] = "Ready" => state[t] = "Ready" /\ t \notin Posted[c]
      BY <1>1, <1>7
    <3> QED
      BY <1>10, <3>1 DEF Ring, Serving
  <2>2. ~stopPending => \A w \in Workers :
             wpc[w] = "taken" /\ item[wslot[w]].type = "crypt" => wslot[w] \in Wanted'
    BY <1>7, <1>10 DEF Ring, Serving, Uncounted, ControlInv, TypeOK
  <2>3. \A w \in Workers : wpc[w] \in Accounting => wslot[w] \in Wanted'
    BY <1>8, <1>10 DEF Ring, Serving, ControlInv, TypeOK
  <2> QED
    BY <1>1, <2>1, <2>2, <2>3 DEF Ring, Serving
<1>17. \A d \in Working : d # c => Owed'[d] = Owed[d]
  <2> SUFFICES ASSUME NEW d \in Working, d # c PROVE Owed'[d] = Owed[d]
    OBVIOUS
  <2> DEFINE U(t) == \E v \in Workers : wslot[v] = t /\ wpc[v] \in Uncounted
             A == Arc(call[d].first, Total[d])
  <2>1. Owed[d] = {t \in A : t \notin Posted[d] \/ state[t] = "Ready" \/ U(t)}
    BY Members DEF Owed
  <2>2. Owed'[d] = {t \in A : t \notin Posted[d] \/ state'[t] = "Ready" \/ U(t)}
    BY <1>1, <1>3, <1>4, Members DEF Owed
  <2>3. A \subseteq Slots
    BY DEF Arc
  <2>4. f \notin Posted[d]
    BY <1>2, <1>6, PostedFacts
  <2> HIDE DEF U, A, f
  <2> QED
    BY <1>1, <2>1, <2>2, <2>3, <2>4
<1>18. Counted'
  BY <1>1, <1>3, <1>17 DEF Ring, Counted
<1>19. Finishing'
  <2>1. \A w \in Workers : wpc[w] = "signalItem" =>
          item[wslot[w]].owner \in Working /\ item[wslot[w]].owner # c
    BY <1>1, <1>2, AccountingWorks, Members DEF Ring, Finishing, Accounting
  <2>2. \A w \in Workers, d \in Clients : wpc[w] = "signalItem" /\ item[wslot[w]].owner = d =>
           /\ Owed'[d] = {} /\ ~itemCompleted[call[d].first] /\ cpc'[d] # "complete"
           /\ \A v \in Workers : v # w /\ wpc[v] = "signalItem" => item[wslot[v]].owner # d
    BY <1>1, <1>17, <2>1 DEF Ring, Finishing
  <2>3. \A t \in Slots : itemCompleted[t] =>
          \E d \in Working' : cpc'[d] # "complete" /\ call[d].first = t /\ Owed'[d] = {}
    BY <1>1, <1>3, <1>17 DEF Ring, Finishing
  <2> QED
    BY <1>1, <2>2, <2>3 DEF Finishing
<1> QED
  BY <1>11, <1>12, <1>13, <1>14, <1>15, <1>16, <1>18, <1>19 DEF Ring

(* Every step keeps the ring in order.                                     *)
LEMMA RingStep == ControlInv /\ Ring /\ [Next]_vars => Ring'
<1> SUFFICES ASSUME ControlInv, Ring, [Next]_vars PROVE Ring'
  OBVIOUS
<1> QED
  BY RingCases, ElsewhereKeeps, AfreshKeeps, StopBeginKeeps, OuterKeeps, WorkerTakeKeeps,
     WorkerDispatchKeeps, WorkerCryptKeeps, WorkerFreeFragmentKeeps, WorkerSignalFragmentKeeps,
     WorkerAccountKeeps, WorkerSignalItemKeeps, WorkerFreeHeaderKeeps, LockKeeps,
     SetFragmentCountKeeps, FillKeeps, ClearNoOutstandingKeeps, SetReadyKeeps, UnlockKeeps,
     AwaitKeeps, FreeFirstKeeps

(* What a thread accounts for is a fragment of a call that is not over.    *)
LEMMA RingIntact == ControlInv /\ Ring => FragmentIntact
<1> SUFFICES ASSUME ControlInv, Ring, NEW w \in Workers, wpc[w] \in Accounting
             PROVE  LET it == item[wslot[w]] IN
                      /\ it.type = "crypt"
                      /\ state[it.first] # "Free"
                      /\ call[it.owner].type = "crypt" /\ call[it.owner].first = it.first
                      /\ cpc[it.owner] \in Adding \cup {"await"}
  BY DEF FragmentIntact, Adding
<1> DEFINE s == wslot[w]
           c == item[s].owner
           f == item[s].first
<1>1. /\ c \in Working /\ item[s].type = "crypt" /\ call[c].first = f /\ s \in Posted[c]
      /\ s \in Slots
  BY ServingFacts
<1>2. c \in Clients /\ call[c].type = "crypt" /\ cpc[c] \in Adding \cup {"await", "complete"}
  BY <1>1 DEF Working
<1>3. cpc[c] # "complete"
  <2>1. CASE wpc[w] = "signalItem"
    BY <1>2, <2>1 DEF Ring, Finishing
  <2>2. CASE wpc[w] # "signalItem"
    <3>1. wpc[w] \in Uncounted
      BY <2>2 DEF Uncounted, Accounting
    <3>2. s \in Arc(f, Total[c])
      BY <1>1, PostedFacts
    <3>3. s \in Owed[c]
      BY <1>1, <1>2, <3>1, <3>2 DEF Owed
    <3> QED
      BY <1>1, <3>3 DEF Ring, Counted
  <2> QED
    BY <2>1, <2>2
<1>4. f \in Posted[c]
  <2> SUFFICES ASSUME f \notin Posted[c] PROVE FALSE
    OBVIOUS
  <2>1. f \in Arc(f, Given[c]) /\ Given[c] \in Int /\ f \in Slots
    BY <1>1, WorkingFacts, PostedFacts
  <2>2. c \in Filling /\ call[c].slot = f
    BY <1>1, <1>2, <2>1 DEF Posted
  <2>3. cpc[c] = "ready"
    BY <1>2, <2>2 DEF Filling, Adding
  <2>4. Dist(f, f) = Given[c] - 1 /\ Dist(f, f) = 0
    BY <1>1, <2>1, <2>2, <2>3, DistFacts DEF Ring, Placed
  <2>5. s \in Arc(f, 1)
    BY <1>1, <2>1, <2>4, PostedFacts
  <2>6. s = f
    BY <1>1, <2>1, <2>5, DistFacts DEF Arc
  <2> QED
    BY <1>1, <2>6
<1>5. state[f] # "Free"
  BY <1>1, <1>4 DEF Ring, FirstTaken
<1> HIDE DEF s, c, f
<1> QED
  BY <1>1, <1>2, <1>3, <1>5 DEF s, c, f

(* FragmentIntact: for any threads, callers and ring, the fragment that a  *)
(* thread still looks at belongs to a call that is not over, and the first *)
(* slot of that call, where the fragments are counted off, is not free:    *)
(* the read of FirstFragment from a slot that was given back is harmless.  *)
THEOREM FragmentsIntact == Spec => []FragmentIntact
<1>1. Init => Ring
  BY RingInit
<1>2. ControlInv /\ ControlInv' /\ Ring /\ [Next]_vars => Ring'
  BY RingStep
<1>3. ControlInv /\ Ring => FragmentIntact
  BY RingIntact
<1> QED
  BY <1>1, <1>2, <1>3, ControlCorrect, PTL DEF Spec

-----------------------------------------------------------------------------
(***************************************************************************)
(* The pool implements CryptService: every unit of a call is transformed   *)
(* exactly once.                                                           *)
(*                                                                         *)
(* The invariant Served counts the units: those of a call are the units of *)
(* the fragments in its slots and what the rest of its fragments will get; *)
(* the fragments share none; a unit has been transformed if and only if it *)
(* is in a fragment that a thread is done with.  That a thread finds its   *)
(* fragment as it was put there is Ring.                                   *)
(***************************************************************************)

(* The units of a slot's fragment.                                         *)
Stretch == [s \in Slots |-> item[s].start..item[s].start + item[s].count - 1]

(* The fragments in slots that are not transformed yet.                    *)
Raw == [c \in Clients |->
          {s \in Arc(call[c].first, Given[c]) :
             \/ s \notin Posted[c] \/ state[s] = "Ready"
             \/ \E w \in Workers : wslot[w] = s /\ wpc[w] \in {"taken", "crypt"}}]

(* Calls that have no slot yet, and calls that are over.                   *)
Begun == {c \in Clients : call[c].type = "crypt" /\ cpc[c] \in {"lock", "first", "firstWait"}}
Departing == {c \in Clients : cpc[c] \in {"signal", "return"}}

(* What each fragment of a call has at least.                              *)
Each == [c \in Clients |-> IF units[c] <= ThreadCount THEN 1 ELSE units[c] \div ThreadCount]

(* A call has units from its arrival to its end.                           *)
Arrived ==
  \A c \in Clients :
    /\ cpc[c] = "idle" \/ call[c].type \in {"derive", "finalize"} => units[c] = 0
    /\ cpc[c] \in {"inline", "signal", "return"} => units[c] \in Units

(* The units that are not in slots are what the rest of the fragments take.*)
Divided ==
  \A c \in Begun \cup Working :
    /\ call[c].rem \in 0..call[c].left
    /\ call[c].per = Each[c] + (IF call[c].rem > 0 THEN 1 ELSE 0)
    /\ call[c].next - 1 + call[c].left * Each[c] + call[c].rem = units[c]
    /\ call[c].next >= 1
    /\ c \in Begun => call[c].next = 1

(* Those that are in slots are in one slot each.                           *)
Covered ==
  \A c \in Working :
    /\ \A s \in Arc(call[c].first, Given[c]) : Stretch[s] \subseteq 1..call[c].next - 1
    /\ \A u \in 1..call[c].next - 1 :
         \E s \in Arc(call[c].first, Given[c]) : u \in Stretch[s]
    /\ \A s, t \in Arc(call[c].first, Given[c]) : s # t => Stretch[s] \cap Stretch[t] = {}

(* What is transformed is transformed once.                                *)
Once ==
  \A c \in Working : \A u \in Units :
    applied[c][u] = IF \E s \in Arc(call[c].first, Given[c]) \ Raw[c] : u \in Stretch[s]
                    THEN 1 ELSE 0

(* What no call has handed out yet is untouched, and a call that is over   *)
(* has done all of its units.                                              *)
Untouched ==
  \A c \in Clients \ (Working \cup Departing) : \A u \in Units : applied[c][u] = 0
Settled ==
  \A c \in Departing : \A u \in 1..units[c] : applied[c][u] = 1

(* The service the pool has done so far to the calls under way.            *)
Served == Arrived /\ Divided /\ Covered /\ Once /\ Untouched /\ Settled

-----------------------------------------------------------------------------

(* Products of integers, as the solvers need them, ...                     *)
LEMMA ProductFacts ==
  ASSUME NEW a \in Int, NEW b \in Int
  PROVE  a * b \in Int /\ (a - 1) * b = a * b - b /\ 0 * b = 0 /\ a * 1 = a
  BY SMT

(* ... and of natural numbers.                                             *)
LEMMA ProductNat ==
  ASSUME NEW a \in Nat, NEW b \in Nat
  PROVE  a * b \in Nat
  BY SMT

(* The quotient and the remainder of a division.                           *)
LEMMA DivisionFacts ==
  ASSUME NEW n \in Nat, NEW k \in Nat, k >= 1
  PROVE  /\ n \div k \in Nat /\ n % k \in 0..k - 1
         /\ k * (n \div k) + (n % k) = n
  BY SMTT(60)

(* How a call is divided: the fragments take all units.                    *)
LEMMA CallDivided ==
  ASSUME NEW n \in Units
  PROVE  LET each == IF n <= ThreadCount THEN 1 ELSE n \div ThreadCount IN
         /\ FragmentCount(n) * each + Remainder(n) = n
         /\ UnitsPerFragment(n) = each + (IF Remainder(n) > 0 THEN 1 ELSE 0)
         /\ Remainder(n) \in 0..FragmentCount(n)
         /\ each \in Nat /\ each >= 1 /\ n \in Nat /\ n >= 1
<1>1. n \in Nat /\ n >= 1 /\ ThreadCount \in Nat /\ ThreadCount >= 2
  BY SlotFacts DEF Units
<1>2. CASE n <= ThreadCount
  BY <1>1, <1>2 DEF FragmentCount, Remainder, UnitsPerFragment
<1>3. CASE n > ThreadCount
  <2> DEFINE q == n \div ThreadCount
             r == n % ThreadCount
  <2>0. n \in Nat /\ ThreadCount \in Nat /\ ThreadCount >= 1
    BY <1>1
  <2>1. q \in Nat /\ r \in 0..ThreadCount - 1 /\ ThreadCount * q + r = n
    BY <2>0, DivisionFacts, Zenon
  <2>2. q >= 1
    <3>1. q = 0 => ThreadCount * q = 0
      BY <1>1
    <3> QED
      BY <1>1, <1>3, <2>1, <3>1
  <2>3. /\ FragmentCount(n) = ThreadCount /\ Remainder(n) = r
        /\ UnitsPerFragment(n) = q + (IF r > 0 THEN 1 ELSE 0)
    BY <1>1, <1>3 DEF FragmentCount, Remainder, UnitsPerFragment
  <2>4. (IF n <= ThreadCount THEN 1 ELSE n \div ThreadCount) = q
    BY <1>1, <1>3
  <2> HIDE DEF q, r
  <2> QED
    BY <1>1, <2>1, <2>2, <2>3, <2>4
<1> QED
  BY <1>1, <1>2, <1>3

(* What a step does to the units, if anything.                             *)
LEMMA DataCases ==
  ASSUME ControlInv, [Next]_vars
  PROVE  \/ UNCHANGED <<units, applied>>
         \/ \E c \in Clients : \/ \E n \in Units : DoWork(c, n)
                               \/ CryptInline(c) \/ Return(c)
         \/ \E w \in Workers : WorkerCrypt(w)
<1> USE DEF stopVars, ringVars, slotVars, workerVars, clientVars, dataVars, headerVars
<1>1. ASSUME NEW w \in Workers, WorkerOnCall(w) PROVE WorkerCrypt(w) \/ UNCHANGED <<units, applied>>
  BY <1>1 DEF WorkerOnCall, WorkerLoop, WorkerDequeue, WorkerTake, WorkerNotReady, WorkerWait,
     WorkerDispatch, WorkerFree, WorkerSignalFree, WorkerAccount, WorkerSignalItem
<1>2. ASSUME NEW w \in Workers, WorkerOnHeader(w) PROVE UNCHANGED <<units, applied>>
  BY <1>2 DEF WorkerOnHeader, WorkerDerive, WorkerRaise, WorkerCountDown, WorkerSignalNone,
     WorkerFinalizeWait, WorkerBurn, WorkerFree, WorkerSignalFree
<1>3. ASSUME NEW c \in Clients, InsideCall(c)
      PROVE  CryptInline(c) \/ Return(c) \/ UNCHANGED <<units, applied>>
  BY <1>3 DEF InsideCall, Lock, SetFragmentCount, SlotBusy, WaitSlot, Fill, SetReady, Notify, Unlock,
     Await, FreeFirst, SignalFirst
<1>4. ASSUME NEW c \in Clients, InsideHeader(c) \/ EnterHeader(c) PROVE UNCHANGED <<units, applied>>
  BY <1>4 DEF InsideHeader, IncrementOutstanding, ClearNoOutstanding, EnterHeader,
     BeginKeyDerivation, BeginReadVolumeHeaderFinalization
<1>5. ASSUME \/ Start \/ (\E created \in SUBSET Workers : StartFails(created)) \/ StopBegin
             \/ StopSignal \/ StopJoin
      PROVE  UNCHANGED <<units, applied>>
  BY <1>5 DEF Start, StartFails, StopBegin, StopSignal, StopJoin
<1>6. ASSUME UNCHANGED vars PROVE UNCHANGED <<units, applied>>
  BY <1>6 DEF vars
<1> QED
  BY <1>1, <1>2, <1>3, <1>4, <1>5, <1>6 DEF Next, CallNext, HeaderNext, EnterCall

(* A step that moves no unit and gets no call further ...                  *)
Still ==
  /\ UNCHANGED <<units, applied, Working, Begun, Departing>>
  /\ \A c \in Clients :
       /\ call'[c].type = call[c].type /\ call'[c].left = call[c].left
       /\ call'[c].next = call[c].next /\ call'[c].per = call[c].per /\ call'[c].rem = call[c].rem
       /\ cpc'[c] \in {"idle", "inline"} => cpc'[c] = cpc[c]
  /\ \A c \in Working :
       /\ call'[c].first = call[c].first /\ Given'[c] = Given[c] /\ Raw'[c] = Raw[c]
       /\ \A s \in Slots : item'[s] = item[s]

(* ... leaves what the service promises as it was.                         *)
LEMMA StillKeeps ==
  ASSUME Served, Still
  PROVE  Served'
<1>1. Arrived'
  BY DEF Served, Still, Arrived, Departing
<1>2. Divided'
  <2>1. UNCHANGED Each
    BY DEF Still, Each
  <2>2. Begun \subseteq Clients /\ Working \subseteq Clients
    BY DEF Begun, Working
  <2> QED
    BY <2>1, <2>2 DEF Served, Still, Divided
<1>3. \A c \in Working : \A s \in Slots : Stretch'[s] = Stretch[s]
  BY DEF Still, Stretch
<1>4. \A c \in Working : /\ c \in Clients /\ call'[c].next = call[c].next
                         /\ Arc(call[c].first, Given[c]) \subseteq Slots
                         /\ call'[c].first = call[c].first /\ Given'[c] = Given[c]
                         /\ Raw'[c] = Raw[c]
  BY Members DEF Arc, Still
<1>5. Covered'
  BY <1>3, <1>4 DEF Served, Still, Covered
<1>6. Once'
  BY <1>3, <1>4 DEF Served, Still, Once
<1>7. Untouched' /\ Settled'
  BY DEF Served, Still, Untouched, Settled
<1> QED
  BY <1>1, <1>2, <1>5, <1>6, <1>7 DEF Served

(* Slots that are done or not as before: nothing has moved.                *)
LEMMA RawKept ==
  ASSUME ControlInv, Ring, UNCHANGED <<cpc, call, item, units, applied>>,
         \A c \in Working : \A s \in Posted[c] :
           (state'[s] = "Ready" \/ \E w \in Workers : wslot'[w] = s /\ wpc'[w] \in {"taken", "crypt"})
           <=>
           (state[s] = "Ready" \/ \E w \in Workers : wslot[w] = s /\ wpc[w] \in {"taken", "crypt"})
  PROVE  Still
<1>1. UNCHANGED <<Working, Begun, Departing, Total, Given, Filling>>
  BY DEF Working, Begun, Departing, Total, Given, Filling
<1>2. UNCHANGED Posted
  BY <1>1 DEF Posted
<1>3. \A c \in Working : Raw'[c] = Raw[c]
  <2> SUFFICES ASSUME NEW c \in Working PROVE Raw'[c] = Raw[c]
    OBVIOUS
  <2> DEFINE U(s) == \E w \in Workers : wslot[w] = s /\ wpc[w] \in {"taken", "crypt"}
             V(s) == \E w \in Workers : wslot'[w] = s /\ wpc'[w] \in {"taken", "crypt"}
             A == Arc(call[c].first, Given[c])
  <2>1. Raw[c] = {s \in A : s \notin Posted[c] \/ state[s] = "Ready" \/ U(s)}
    BY Members DEF Raw
  <2>2. Raw'[c] = {s \in A : s \notin Posted[c] \/ state'[s] = "Ready" \/ V(s)}
    BY <1>1, <1>2, Members DEF Raw
  <2>3. \A s \in Posted[c] : (state'[s] = "Ready" \/ V(s)) <=> (state[s] = "Ready" \/ U(s))
    OBVIOUS
  <2> HIDE DEF U, V, A
  <2> QED
    BY <2>1, <2>2, <2>3
<1> QED
  BY <1>1, <1>3 DEF Still

(* The threads' steps, and those of Stop, are still but for one, ...       *)
LEMMA ThreadsStill ==
  ASSUME ControlInv, Ring,
         \/ StopBegin \/ StopSignal \/ StopJoin
         \/ \E w \in Workers : (WorkerOnCall(w) /\ ~WorkerCrypt(w)) \/ WorkerOnHeader(w)
  PROVE  Still
<1> USE DEF stopVars, ringVars, slotVars, workerVars, clientVars, dataVars, headerVars
<1> DEFINE U(s) == \E w \in Workers : wslot[w] = s /\ wpc[w] \in {"taken", "crypt"}
           V(s) == \E w \in Workers : wslot'[w] = s /\ wpc'[w] \in {"taken", "crypt"}
<1>0. TypeOK
  BY DEF ControlInv
<1>1. ASSUME StopBegin \/ StopSignal \/ StopJoin PROVE Still
  BY <1>1, RawKept DEF StopBegin, StopSignal, StopJoin
<1>2. ASSUME NEW w \in Workers,
             \/ WorkerLoop(w) \/ WorkerDequeue(w) \/ WorkerNotReady(w) \/ WorkerWait(w)
             \/ WorkerSignalFree(w, "signalFragment", "account") \/ WorkerAccount(w)
             \/ WorkerSignalItem(w) \/ WorkerDerive(w) \/ WorkerRaise(w) \/ WorkerCountDown(w)
             \/ WorkerSignalNone(w) \/ WorkerFinalizeWait(w) \/ WorkerBurn(w)
             \/ WorkerSignalFree(w, "signalFree", "loop")
      PROVE  Still
  <2>1. UNCHANGED <<cpc, call, item, units, applied, state>>
    BY <1>2 DEF WorkerLoop, WorkerDequeue, WorkerNotReady, WorkerWait, WorkerSignalFree,
       WorkerAccount, WorkerSignalItem, WorkerDerive, WorkerRaise, WorkerCountDown,
       WorkerSignalNone, WorkerFinalizeWait, WorkerBurn
  <2>2. /\ wpc[w] \notin {"taken", "crypt"} /\ wpc'[w] \notin {"taken", "crypt"}
        /\ \A v \in Workers : v # w => wpc'[v] = wpc[v] /\ wslot'[v] = wslot[v]
    BY <1>0, <1>2 DEF WorkerLoop, WorkerDequeue, WorkerNotReady, WorkerWait, WorkerSignalFree,
       WorkerAccount, WorkerSignalItem, WorkerDerive, WorkerRaise, WorkerCountDown,
       WorkerSignalNone, WorkerFinalizeWait, WorkerBurn, WorkerGoto, TypeOK
  <2>3. \A s \in Slots : U(s) <=> V(s)
    BY <2>2
  <2>4. \A c \in Working : Posted[c] \subseteq Slots
    BY PostedFacts
  <2> QED
    BY <2>1, <2>3, <2>4, RawKept
<1>3. ASSUME NEW w \in Workers, WorkerTake(w) PROVE Still
  <2>1. /\ UNCHANGED <<cpc, call, item, units, applied, wslot>>
        /\ wslot[w] \in Slots /\ state'[wslot[w]] = "Busy"
        /\ \A s \in Slots : s # wslot[w] => state'[s] = state[s]
        /\ wpc'[w] = "taken" /\ \A v \in Workers : v # w => wpc'[v] = wpc[v]
        /\ wpc[w] = "check" /\ (stopPending \/ state[wslot[w]] = "Ready")
    BY <1>0, <1>3 DEF WorkerTake, WorkerGoto, TypeOK
  <2>2. \A c \in Working : ~stopPending /\ Posted[c] \subseteq Slots
    BY StoppedIsEmpty, PostedFacts, Members
  <2>3. ~stopPending => \A s \in Slots :
          (state'[s] = "Ready" \/ V(s)) <=> (state[s] = "Ready" \/ U(s))
    BY <2>1
  <2> QED
    BY <2>1, <2>2, <2>3, RawKept
<1>4. ASSUME NEW w \in Workers, WorkerDispatch(w) PROVE Still
  <2>1. /\ UNCHANGED <<cpc, call, item, units, applied, wslot, state>> /\ wslot[w] \in Slots
        /\ wpc'[w] = (IF stopPending THEN "off" ELSE item[wslot[w]].type)
        /\ wpc[w] = "taken" /\ \A v \in Workers : v # w => wpc'[v] = wpc[v]
    BY <1>0, <1>4 DEF WorkerDispatch, WorkerGoto, TypeOK
  <2>2. \A c \in Working : ~stopPending /\ Posted[c] \subseteq Slots
    BY StoppedIsEmpty, PostedFacts, Members
  <2>3. \A c \in Working : \A s \in Posted[c] : item[s].type = "crypt"
    BY PostedFacts
  <2>4. \A c \in Working : \A s \in Posted[c] : U(s) <=> V(s)
    BY <2>1, <2>2, <2>3
  <2> QED
    BY <2>1, <2>4, RawKept
<1>5. ASSUME NEW w \in Workers,
             \/ WorkerFree(w, "freeFragment", "signalFragment") \/ WorkerFree(w, "free", "signalFree")
      PROVE  Still
  <2>1. /\ UNCHANGED <<cpc, call, item, units, applied, wslot>> /\ wslot[w] \in Slots
        /\ state'[wslot[w]] = "Free" /\ \A s \in Slots : s # wslot[w] => state'[s] = state[s]
        /\ wpc[w] \in {"freeFragment", "free"} /\ wpc'[w] \in {"signalFragment", "signalFree"}
        /\ \A v \in Workers : v # w => wpc'[v] = wpc[v]
    BY <1>0, <1>5 DEF WorkerFree, WorkerGoto, TypeOK
  <2>2. \A c \in Working : ~stopPending /\ Posted[c] \subseteq Slots
    BY StoppedIsEmpty, PostedFacts, Members
  <2>3. ~stopPending => state[wslot[w]] # "Ready"
    BY <2>1 DEF Ring, Held, Using, Uncounted, HeaderWork
  <2>4. ~stopPending => \A s \in Slots :
          (state'[s] = "Ready" <=> state[s] = "Ready") /\ (U(s) <=> V(s))
    BY <2>1, <2>3
  <2> QED
    BY <2>1, <2>2, <2>4, RawKept
<1> QED
  BY <1>1, <1>2, <1>3, <1>4, <1>5 DEF WorkerOnCall, WorkerOnHeader

(* ... and so are those in which a client only gets on, ...                *)
LEMMA ClientsStill ==
  ASSUME ControlInv, Ring, NEW c \in Clients,
         \/ Lock(c) \/ SlotBusy(c, "first", "firstWait") \/ WaitSlot(c, "firstWait", "first")
         \/ SlotBusy(c, "slot", "slotWait") \/ WaitSlot(c, "slotWait", "slot") \/ Notify(c)
         \/ Await(c) \/ SignalFirst(c) \/ IncrementOutstanding(c) \/ ClearNoOutstanding(c)
         \/ (Unlock(c) /\ call[c].type = "crypt")
  PROVE  Still
<1> USE DEF stopVars, ringVars, slotVars, workerVars, clientVars, dataVars, headerVars
<1>0. TypeOK /\ (cpc[c] = "await" => call[c].type = "crypt")
  BY DEF ControlInv, Ring, Entering
<1>1. UNCHANGED <<item, units, applied, state, wpc, wslot>>
  BY DEF Lock, SlotBusy, WaitSlot, Notify, Await, SignalFirst, IncrementOutstanding,
     ClearNoOutstanding, Unlock
<1>2. /\ \A d \in Clients : d # c => cpc'[d] = cpc[d] /\ call'[d] = call[d]
      /\ call'[c].type = call[c].type /\ call'[c].left = call[c].left
      /\ call'[c].next = call[c].next /\ call'[c].per = call[c].per /\ call'[c].rem = call[c].rem
      /\ call'[c].slot = call[c].slot
      /\ cpc[c] # "lock" => call'[c].first = call[c].first
    BY <1>0 DEF Lock, SlotBusy, WaitSlot, Notify, Await, SignalFirst, IncrementOutstanding,
       ClearNoOutstanding, Unlock, Goto, TypeOK, Calls
<1>3. /\ cpc'[c] \notin {"idle", "inline"}
      /\ (cpc[c] \in {"lock", "first", "firstWait"} /\ call[c].type = "crypt") <=>
           (cpc'[c] \in {"lock", "first", "firstWait"} /\ call[c].type = "crypt")
      /\ (cpc[c] \in Adding \cup {"await", "complete"} /\ call[c].type = "crypt") <=>
           (cpc'[c] \in Adding \cup {"await", "complete"} /\ call[c].type = "crypt")
      /\ cpc[c] \in {"signal", "return"} <=> cpc'[c] \in {"signal", "return"}
      /\ cpc[c] \in {"increment", "clear", "ready"} <=> cpc'[c] \in {"increment", "clear", "ready"}
  <2>1. \/ cpc[c] = "lock" /\ cpc'[c] = IF call[c].type = "crypt" THEN "first" ELSE "slot"
        \/ cpc[c] = "first" /\ cpc'[c] = "firstWait"
        \/ cpc[c] = "firstWait" /\ cpc'[c] = "first"
        \/ cpc[c] = "slot" /\ cpc'[c] = "slotWait"
        \/ cpc[c] = "slotWait" /\ cpc'[c] = "slot"
        \/ cpc[c] = "notify" /\ cpc'[c] = "slot"
        \/ cpc[c] = "await" /\ cpc'[c] = "complete"
        \/ cpc[c] = "signal" /\ cpc'[c] = "return"
        \/ cpc[c] = "increment" /\ cpc'[c] = "clear"
        \/ cpc[c] = "clear" /\ cpc'[c] = "ready"
        \/ cpc[c] = "slot" /\ cpc'[c] = "await" /\ call[c].type = "crypt"
    <3>1. cpc \in [Clients -> ClientPcs]
      BY <1>0 DEF TypeOK
    <3> QED
      BY <3>1 DEF Lock, SlotBusy, WaitSlot, Notify, Await, SignalFirst, IncrementOutstanding,
         ClearNoOutstanding, Unlock, Goto
  <2>2. cpc[c] = "clear" => call[c].type = "derive"
    BY DEF Ring, Filled, Filling
  <2> QED
    BY <2>1, <2>2 DEF Adding
<1>4. UNCHANGED <<Working, Begun, Departing, Filling, Total, Given>>
  BY <1>1, <1>2, <1>3 DEF Working, Begun, Departing, Filling, Total, Given
<1>5. \A d \in Working : call'[d].first = call[d].first /\ call'[d].slot = call[d].slot
  BY <1>2 DEF Working, Adding
<1>6. \A d \in Working : Posted'[d] = Posted[d]
  BY <1>4, <1>5, Members DEF Posted
<1>7. \A d \in Working : Raw'[d] = Raw[d]
  BY <1>1, <1>4, <1>5, <1>6, Members DEF Raw
<1> QED
  BY <1>1, <1>2, <1>3, <1>4, <1>5, <1>7 DEF Still

(* ... or offers a fragment.                                               *)
LEMMA ReadyStill ==
  ASSUME ControlInv, Ring, NEW c \in Clients, SetReady(c)
  PROVE  Still
<1> USE DEF stopVars, ringVars, slotVars, workerVars, clientVars, dataVars, headerVars
<1> DEFINE s == call[c].slot
<1>1. /\ UNCHANGED <<item, call, units, applied, wpc, wslot>>
      /\ cpc[c] = "ready" /\ cpc'[c] = "notify"
      /\ \A d \in Clients : d # c => cpc'[d] = cpc[d]
      /\ s \in Slots /\ state'[s] = "Ready" /\ \A t \in Slots : t # s => state'[t] = state[t]
  BY CallFields DEF SetReady, Goto, ControlInv, TypeOK
<1>2. UNCHANGED <<Working, Begun, Departing, Total, Given>>
  BY <1>1 DEF Working, Begun, Departing, Total, Given, Adding
<1>3. /\ Filling' = Filling \ {c} /\ c \in Filling
  BY <1>1 DEF Filling
<1>4. \A d \in Working : d # c => Posted'[d] = Posted[d] /\ s \notin Arc(call[d].first, Given[d])
  <2>1. item[s].owner = c
    BY <1>3 DEF Ring, Filled
  <2>2. \A d \in Working : d # c => s \notin Arc(call[d].first, Given[d])
    BY <2>1 DEF Ring, Laid
  <2> QED
    BY <1>1, <1>2, <1>3, <2>2, Members DEF Posted
<1>5. /\ s \notin Posted[c]
      /\ \A t \in Slots : t # s => (t \in Posted'[c] <=> t \in Posted[c])
  BY <1>1, <1>2, <1>3 DEF Posted
<1>6. \A d \in Working : Raw'[d] = Raw[d]
  <2> SUFFICES ASSUME NEW d \in Working PROVE Raw'[d] = Raw[d]
    OBVIOUS
  <2> DEFINE U(t) == \E w \in Workers : wslot[w] = t /\ wpc[w] \in {"taken", "crypt"}
             A == Arc(call[d].first, Given[d])
  <2>1. Raw[d] = {t \in A : t \notin Posted[d] \/ state[t] = "Ready" \/ U(t)}
    BY Members DEF Raw
  <2>2. Raw'[d] = {t \in A : t \notin Posted'[d] \/ state'[t] = "Ready" \/ U(t)}
    BY <1>1, <1>2, Members DEF Raw
  <2>3. A \subseteq Slots
    BY DEF Arc
  <2>4. d # c => s \notin A
    BY <1>4
  <2>5. \A t \in A : t # s => (t \in Posted'[d] <=> t \in Posted[d]) /\ state'[t] = state[t]
    BY <1>1, <1>4, <1>5, <2>3
  <2> HIDE DEF U, A, s
  <2> QED
    BY <1>1, <1>5, <2>1, <2>2, <2>4, <2>5
<1> QED
  BY <1>1, <1>2, <1>6 DEF Still

(* A step of one call leaves the others as they are ...                    *)
OthersStay(c) ==
  /\ \A d \in Clients : d # c =>
       cpc'[d] = cpc[d] /\ call'[d] = call[d] /\ units'[d] = units[d] /\ applied'[d] = applied[d]
  /\ \A d \in Working : d # c =>
       /\ Given'[d] = Given[d] /\ Raw'[d] = Raw[d]
       /\ \A s \in Arc(call[d].first, Given[d]) : Stretch'[s] = Stretch[s]

(* ... and has to leave its own in order.                                  *)
InOrder(c) ==
  /\ cpc'[c] = "idle" \/ call'[c].type \in {"derive", "finalize"} => units'[c] = 0
  /\ cpc'[c] \in {"inline", "signal", "return"} => units'[c] \in Units
  /\ c \in Begun' \cup Working' =>
       /\ call'[c].rem \in 0..call'[c].left
       /\ call'[c].per = Each'[c] + (IF call'[c].rem > 0 THEN 1 ELSE 0)
       /\ call'[c].next - 1 + call'[c].left * Each'[c] + call'[c].rem = units'[c]
       /\ call'[c].next >= 1
       /\ c \in Begun' => call'[c].next = 1
  /\ c \in Working' =>
       /\ \A s \in Arc(call'[c].first, Given'[c]) : Stretch'[s] \subseteq 1..call'[c].next - 1
       /\ \A u \in 1..call'[c].next - 1 :
            \E s \in Arc(call'[c].first, Given'[c]) : u \in Stretch'[s]
       /\ \A s, t \in Arc(call'[c].first, Given'[c]) :
            s # t => Stretch'[s] \cap Stretch'[t] = {}
       /\ \A u \in Units :
            applied'[c][u] = IF \E s \in Arc(call'[c].first, Given'[c]) \ Raw'[c] : u \in Stretch'[s]
                             THEN 1 ELSE 0
  /\ c \notin Working' \cup Departing' => \A u \in Units : applied'[c][u] = 0
  /\ c \in Departing' => \A u \in 1..units'[c] : applied'[c][u] = 1

(* Then the whole is in order.                                             *)
LEMMA OneCall ==
  ASSUME Served, NEW c \in Clients, OthersStay(c), InOrder(c)
  PROVE  Served'
<1>1. \A d \in Clients : d # c => /\ d \in Working' <=> d \in Working
                                  /\ d \in Begun' <=> d \in Begun
                                  /\ d \in Departing' <=> d \in Departing
                                  /\ Each'[d] = Each[d]
  BY DEF OthersStay, Working, Begun, Departing, Each
<1>2. Working' \subseteq Clients /\ Begun' \subseteq Clients /\ Departing' \subseteq Clients
  BY DEF Working, Begun, Departing
<1>3. \A d \in Working : Arc(call[d].first, Given[d]) \subseteq Slots
  BY DEF Arc
<1>4. Arrived'
  BY DEF Served, Arrived, OthersStay, InOrder
<1>5. Divided'
  <2>1. ASSUME NEW d \in Begun' \cup Working', d # c
        PROVE  /\ call'[d].rem \in 0..call'[d].left
               /\ call'[d].per = Each'[d] + (IF call'[d].rem > 0 THEN 1 ELSE 0)
               /\ call'[d].next - 1 + call'[d].left * Each'[d] + call'[d].rem = units'[d]
               /\ call'[d].next >= 1
               /\ d \in Begun' => call'[d].next = 1
    <3>1. d \in Clients /\ d \in Begun \cup Working /\ (d \in Begun' => d \in Begun)
          /\ call'[d] = call[d] /\ units'[d] = units[d] /\ Each'[d] = Each[d]
      BY <1>1, <1>2, <2>1 DEF OthersStay
    <3> QED
      BY <3>1 DEF Served, Divided
  <2> QED
    BY <1>2, <2>1 DEF Divided, InOrder
<1>6. ASSUME NEW d \in Working', d # c
      PROVE  /\ d \in Clients /\ d \in Working /\ call'[d] = call[d] /\ Given'[d] = Given[d]
             /\ Raw'[d] = Raw[d] /\ applied'[d] = applied[d]
             /\ \A s \in Arc(call[d].first, Given[d]) : Stretch'[s] = Stretch[s]
  BY <1>1, <1>2, <1>6 DEF OthersStay
<1>7. Covered'
  BY <1>2, <1>6 DEF Served, Covered, InOrder
<1>8. Once'
  BY <1>2, <1>6 DEF Served, Once, InOrder
<1>9. Untouched'
  BY <1>1, <1>2 DEF Served, Untouched, InOrder, OthersStay
<1>10. Settled'
  BY <1>1, <1>2 DEF Served, Settled, InOrder, OthersStay
<1> QED
  BY <1>4, <1>5, <1>7, <1>8, <1>9, <1>10 DEF Served

(* A client that touches no slot stays out of the way of the others.       *)
LEMMA Apart ==
  ASSUME ControlInv, Ring, NEW c \in Clients, UNCHANGED <<item, state, wpc, wslot>>,
         \A d \in Clients : d # c =>
           cpc'[d] = cpc[d] /\ call'[d] = call[d] /\ units'[d] = units[d] /\ applied'[d] = applied[d]
  PROVE  OthersStay(c)
<1>1. \A d \in Clients : d # c => Total'[d] = Total[d] /\ Given'[d] = Given[d]
  BY DEF Total, Given
<1>2. \A d \in Clients : d # c => (d \in Filling' <=> d \in Filling)
  BY DEF Filling
<1>3. \A d \in Clients : d # c => Posted'[d] = Posted[d]
  BY <1>1, <1>2 DEF Posted
<1>4. \A d \in Clients : d # c => Raw'[d] = Raw[d]
  BY <1>1, <1>3 DEF Raw
<1>5. \A s \in Slots : Stretch'[s] = Stretch[s]
  BY DEF Stretch
<1> QED
  BY <1>1, <1>4, <1>5, Members DEF OthersStay, Arc

(* A call arrives, ...                                                     *)
LEMMA ArrivalServed ==
  ASSUME ControlInv, Ring, Served, NEW c \in Clients,
         \/ \E n \in Units : DoWork(c, n)
         \/ BeginKeyDerivation(c) \/ BeginReadVolumeHeaderFinalization(c)
  PROVE  Served'
<1> USE DEF stopVars, ringVars, slotVars, workerVars, clientVars, dataVars, headerVars
<1>0. TypeOK
  BY DEF ControlInv
<1>1. /\ UNCHANGED <<item, state, wpc, wslot, applied>>
      /\ \A d \in Clients : d # c => cpc'[d] = cpc[d] /\ call'[d] = call[d] /\ units'[d] = units[d]
      /\ cpc[c] = "idle"
  BY <1>0 DEF DoWork, BeginKeyDerivation, BeginReadVolumeHeaderFinalization, Goto, TypeOK
<1>2. OthersStay(c)
  BY <1>1, Apart
<1>3. units[c] = 0 /\ \A u \in Units : applied[c][u] = 0
  BY <1>1 DEF Served, Arrived, Untouched, Working, Departing, Adding
<1>4. c \notin Working' /\ c \notin Departing' /\ cpc'[c] \in {"lock", "inline"}
  <2>1. cpc'[c] \in {"lock", "inline"}
    BY <1>0 DEF DoWork, BeginKeyDerivation, BeginReadVolumeHeaderFinalization, Goto, TypeOK
  <2> QED
    BY <2>1 DEF Working, Departing, Adding
<1>5. ASSUME BeginKeyDerivation(c) \/ BeginReadVolumeHeaderFinalization(c)
      PROVE  InOrder(c)
  <2>1. /\ UNCHANGED units /\ cpc'[c] = "lock" /\ call'[c].type \in {"derive", "finalize"}
    BY <1>0, <1>5 DEF BeginKeyDerivation, BeginReadVolumeHeaderFinalization, Goto, TypeOK, NewCall
  <2>2. c \notin Begun'
    BY <2>1 DEF Begun
  <2> QED
    BY <1>1, <1>3, <1>4, <2>1, <2>2 DEF InOrder
<1>6. ASSUME NEW n \in Units, DoWork(c, n)
      PROVE  InOrder(c)
  <2>1. units'[c] = n /\ call'[c].type \in {"none", "crypt"}
    BY <1>0, <1>6 DEF DoWork, TypeOK, NewCall, NoCall
  <2>2. ASSUME c \in Begun'
        PROVE  /\ call'[c].left = FragmentCount(n) /\ call'[c].next = 1
               /\ call'[c].per = UnitsPerFragment(n) /\ call'[c].rem = Remainder(n)
    <3>1. call'[c].type = "crypt"
      BY <2>2 DEF Begun
    <3>2. call'[c] = NewCall("crypt", FragmentCount(n), UnitsPerFragment(n), Remainder(n))
      BY <1>0, <1>6, <3>1 DEF DoWork, TypeOK, NewCall, NoCall
    <3> QED
      BY <3>2 DEF NewCall
  <2>3. Each'[c] = IF n <= ThreadCount THEN 1 ELSE n \div ThreadCount
    BY <2>1 DEF Each
  <2>4. /\ FragmentCount(n) * Each'[c] + Remainder(n) = n
        /\ UnitsPerFragment(n) = Each'[c] + (IF Remainder(n) > 0 THEN 1 ELSE 0)
        /\ Remainder(n) \in 0..FragmentCount(n) /\ Each'[c] \in Nat
    BY <2>3, CallDivided, Zenon
  <2>5. FragmentCount(n) \in Nat /\ FragmentCount(n) * Each'[c] \in Int
    BY <2>4, SplitFacts, ProductFacts
  <2>6. c \in Begun' =>
          /\ call'[c].rem \in 0..call'[c].left
          /\ call'[c].per = Each'[c] + (IF call'[c].rem > 0 THEN 1 ELSE 0)
          /\ call'[c].next - 1 + call'[c].left * Each'[c] + call'[c].rem = units'[c]
          /\ call'[c].next >= 1
          /\ call'[c].next = 1
    <3> DEFINE e == Each'[c]
               k == FragmentCount(n)
               p == k * e
    <3>1. ASSUME c \in Begun'
          PROVE  call'[c].left * e = p /\ call'[c].rem = Remainder(n) /\ call'[c].next = 1
                 /\ call'[c].per = UnitsPerFragment(n) /\ call'[c].left = k
      BY <3>1, <2>2
    <3>2. p + Remainder(n) = n /\ p \in Int /\ Remainder(n) \in 0..k /\ k \in Nat
      BY <2>4, <2>5
    <3> HIDE DEF p, k
    <3> QED
      BY <2>1, <2>4, <3>1, <3>2
  <2> QED
    BY <1>1, <1>3, <1>4, <2>1, <2>6 DEF InOrder
<1> QED
  BY <1>2, <1>5, <1>6, OneCall

(* ... is done by the caller itself, ...                                   *)
LEMMA CryptInlineServed ==
  ASSUME ControlInv, Ring, Served, NEW c \in Clients, CryptInline(c)
  PROVE  Served'
<1> USE DEF stopVars, ringVars, slotVars, workerVars, clientVars, dataVars, headerVars
<1>1. /\ UNCHANGED <<item, state, wpc, wslot, call, units>>
      /\ \A d \in Clients : d # c => cpc'[d] = cpc[d] /\ applied'[d] = applied[d]
      /\ cpc[c] = "inline" /\ cpc'[c] = "return"
      /\ \A u \in Units : applied'[c][u] = IF u <= units[c] THEN applied[c][u] + 1 ELSE applied[c][u]
  BY DEF CryptInline, Goto, ControlInv, TypeOK
<1>2. units[c] \in Units /\ \A u \in Units : applied[c][u] = 0
  BY <1>1 DEF Served, Arrived, Untouched, Working, Departing, Adding
<1>3. \A u \in 1..units[c] : applied'[c][u] = 1
  <2>1. \A u \in 1..units[c] : u \in Units /\ u <= units[c]
    BY <1>2, PoolAssumption DEF Units
  <2> QED
    BY <1>1, <1>2, <2>1
<1>4. c \notin Working' /\ c \notin Begun' /\ c \in Departing'
  BY <1>1 DEF Working, Begun, Departing, Adding
<1>5. InOrder(c)
  BY <1>1, <1>2, <1>3, <1>4 DEF InOrder, Served, Arrived
<1>6. OthersStay(c)
  BY <1>1, Apart
<1> QED
  BY <1>5, <1>6, OneCall

(* ... and returns.                                                        *)
LEMMA ReturnServed ==
  ASSUME ControlInv, Ring, Served, NEW c \in Clients,
         Return(c) \/ (Unlock(c) /\ call[c].type # "crypt")
  PROVE  Served'
<1> USE DEF stopVars, ringVars, slotVars, workerVars, clientVars, dataVars, headerVars
<1>1. /\ UNCHANGED <<item, state, wpc, wslot>>
      /\ \A d \in Clients : d # c =>
           cpc'[d] = cpc[d] /\ call'[d] = call[d] /\ units'[d] = units[d] /\ applied'[d] = applied[d]
      /\ cpc'[c] = "idle" /\ call'[c].type = "none"
  BY DEF Return, Unlock, Goto, ControlInv, TypeOK, NoCall, NewCall
<1>2. units'[c] = 0 /\ \A u \in Units : applied'[c][u] = 0
  <2>1. CASE Return(c)
    BY <2>1 DEF Return, ControlInv, TypeOK
  <2>2. CASE Unlock(c) /\ call[c].type # "crypt"
    <3>1. UNCHANGED <<units, applied>> /\ cpc[c] = "slot" /\ call[c].type \in {"derive", "finalize"}
      BY <2>2 DEF Unlock, Goto, ControlInv, Typed, Outside, WorkTypes
    <3> QED
      BY <2>2, <3>1 DEF Served, Arrived, Untouched, Working, Departing
  <2> QED
    BY <2>1, <2>2
<1>3. c \notin Working' /\ c \notin Begun' /\ c \notin Departing'
  BY <1>1 DEF Working, Begun, Departing, Adding
<1>4. InOrder(c)
  BY <1>1, <1>2, <1>3 DEF InOrder
<1>5. OthersStay(c)
  BY <1>1, Apart
<1> QED
  BY <1>4, <1>5, OneCall

(* It begins to hand out its fragments, ...                                *)
LEMMA SetFragmentCountServed ==
  ASSUME ControlInv, Ring, Served, NEW c \in Clients, SetFragmentCount(c)
  PROVE  Served'
<1> USE DEF stopVars, ringVars, slotVars, workerVars, clientVars, dataVars, headerVars
<1>1. /\ UNCHANGED <<item, state, wpc, wslot, call, units, applied>>
      /\ \A d \in Clients : d # c => cpc'[d] = cpc[d]
      /\ cpc[c] = "first" /\ cpc'[c] = "slot"
  BY DEF SetFragmentCount, Goto, ControlInv, TypeOK
<1>2. call[c].type = "crypt" /\ call[c].left = Total[c] /\ units[c] \in Units
  BY <1>1 DEF Ring, Entering
<1>3. c \in Begun /\ c \notin Working /\ c \notin Departing
      /\ c \in Working' /\ c \notin Departing' /\ c \notin Begun' /\ Each' = Each
  BY <1>1, <1>2 DEF Begun, Working, Departing, Adding, Each
<1>4. Total[c] \in Nat /\ Given'[c] = 0
  BY <1>1, <1>2, TotalFacts DEF Total, Given
<1>5. Arc(call'[c].first, Given'[c]) = {}
  <2>1. call[c].first \in Slots
    BY CallFields DEF ControlInv
  <2> QED
    BY <1>1, <1>4, <2>1, DistFacts DEF Arc
<1>6. \A u \in Units : applied[c][u] = 0
  BY <1>3 DEF Served, Untouched
<1>7. call[c].next = 1
  BY <1>3 DEF Served, Divided
<1>8. /\ call[c].rem \in 0..call[c].left
      /\ call[c].per = Each[c] + (IF call[c].rem > 0 THEN 1 ELSE 0)
      /\ call[c].next - 1 + call[c].left * Each[c] + call[c].rem = units[c]
      /\ call[c].next >= 1
  BY <1>3 DEF Served, Divided
<1>9. InOrder(c)
  <2>1. 1..call'[c].next - 1 = {}
    BY <1>1, <1>7
  <2> QED
    BY <1>1, <1>2, <1>3, <1>5, <1>6, <1>8, <2>1 DEF InOrder
<1>10. OthersStay(c)
  BY <1>1, Apart
<1> QED
  BY <1>9, <1>10, OneCall

(* ... and has them all done when it is over.                              *)
LEMMA FreeFirstServed ==
  ASSUME ControlInv, Ring, Served, NEW c \in Clients, FreeFirst(c)
  PROVE  Served'
<1> USE DEF stopVars, ringVars, slotVars, workerVars, clientVars, dataVars, headerVars
<1> DEFINE f == call[c].first
<1>1. /\ UNCHANGED <<item, wpc, wslot, call, units, applied>>
      /\ \A d \in Clients : d # c => cpc'[d] = cpc[d]
      /\ cpc[c] = "complete" /\ cpc'[c] = "signal"
      /\ f \in Slots /\ \A s \in Slots : s # f => state'[s] = state[s]
  BY CallFields DEF FreeFirst, Goto, ControlInv, TypeOK
<1>2. call[c].type = "crypt"
  BY <1>1 DEF Ring, Entering
<1>3. c \in Working /\ c \notin Working' /\ c \notin Begun' /\ c \in Departing'
  BY <1>1, <1>2 DEF Working, Begun, Departing, Adding
<1>4. /\ units[c] \in Units /\ call[c].left = 0 /\ Given[c] = Total[c]
      /\ Given[c] >= 1 /\ item[f].owner = c
  <2>1. call[c].left = 0
    BY <1>1, <1>3 DEF Ring, Laid
  <2>2. /\ units[c] \in Units /\ Total[c] \in 1..QueueSize /\ QueueSize \in Nat
        /\ Given[c] \in 0..Total[c] /\ call[c].left = Total[c] - Given[c]
        /\ Given[c] >= 1 => item[call[c].first].owner = c
    BY <1>3, WorkingFacts
  <2> QED
    BY <2>1, <2>2
<1>5. Raw[c] = {}
  <2> DEFINE A == Arc(call[c].first, Given[c])
             U(s) == \E w \in Workers : wslot[w] = s /\ wpc[w] \in {"taken", "crypt"}
             V(s) == \E w \in Workers : wslot[w] = s /\ wpc[w] \in Uncounted
  <2>1. Owed[c] = {}
    BY <1>1, <1>3 DEF Ring, Counted
  <2>2. Owed[c] = {s \in A : s \notin Posted[c] \/ state[s] = "Ready" \/ V(s)}
    BY <1>4 DEF Owed
  <2>3. Raw[c] = {s \in A : s \notin Posted[c] \/ state[s] = "Ready" \/ U(s)}
    BY DEF Raw
  <2>4. \A s : U(s) => V(s)
    BY DEF Uncounted
  <2> HIDE DEF A, U, V
  <2> QED
    BY <2>1, <2>2, <2>3, <2>4
<1>6. call[c].next - 1 = units[c]
  <2>1. call[c].rem \in 0..0 /\ call[c].next - 1 + 0 * Each[c] + call[c].rem = units[c]
    BY <1>3, <1>4 DEF Served, Divided
  <2>2. Each[c] \in Int
    <3>1. Each[c] = IF units[c] <= ThreadCount THEN 1 ELSE units[c] \div ThreadCount
      BY DEF Each
    <3>2. (IF units[c] <= ThreadCount THEN 1 ELSE units[c] \div ThreadCount) \in Nat
      BY <1>4, CallDivided, Zenon
    <3> QED
      BY <3>1, <3>2
  <2>3. 0 * Each[c] = 0 /\ call[c].next \in Int
    BY <2>2, CallFields, ProductFacts DEF ControlInv
  <2> QED
    BY <2>1, <2>3
<1>7. \A u \in 1..units[c] : applied[c][u] = 1
  <2>1. ASSUME NEW u \in 1..units[c]
        PROVE  u \in Units /\ \E s \in Arc(f, Given[c]) : u \in Stretch[s]
    <3>1. u \in Units
      BY <1>4, PoolAssumption DEF Units
    <3>2. \A v \in 1..call[c].next - 1 : \E s \in Arc(f, Given[c]) : v \in Stretch[s]
      BY <1>3 DEF Served, Covered
    <3> QED
      BY <1>6, <3>1, <3>2
  <2>2. \A u \in Units :
          applied[c][u] = IF \E s \in Arc(f, Given[c]) \ Raw[c] : u \in Stretch[s] THEN 1 ELSE 0
    BY <1>3 DEF Served, Once
  <2> QED
    BY <1>5, <2>1, <2>2
<1>8. InOrder(c)
  BY <1>1, <1>2, <1>3, <1>4, <1>7 DEF InOrder
<1>9. OthersStay(c)
  <2>1. UNCHANGED <<Total, Given, Filling, Stretch>>
    BY <1>1 DEF Total, Given, Filling, Stretch
  <2>2. UNCHANGED Posted
    BY <1>1, <2>1 DEF Posted
  <2>3. \A d \in Working : d # c => f \notin Arc(call[d].first, Given[d])
    BY <1>4 DEF Ring, Laid
  <2>4. ASSUME NEW d \in Working, d # c
        PROVE  Raw'[d] = Raw[d]
    <3> DEFINE A == Arc(call[d].first, Given[d])
               U(s) == \E w \in Workers : wslot[w] = s /\ wpc[w] \in {"taken", "crypt"}
    <3>1. Raw[d] = {s \in A : s \notin Posted[d] \/ state[s] = "Ready" \/ U(s)}
      BY Members DEF Raw
    <3>2. Raw'[d] = {s \in A : s \notin Posted[d] \/ state'[s] = "Ready" \/ U(s)}
      BY <1>1, <2>1, <2>2, Members DEF Raw
    <3>3. \A s \in A : state'[s] = state[s]
      BY <1>1, <2>3, <2>4 DEF Arc
    <3> HIDE DEF A, U
    <3> QED
      BY <3>1, <3>2, <3>3
  <2> QED
    BY <1>1, <2>1, <2>4 DEF OthersStay
<1> QED
  BY <1>8, <1>9, OneCall

(* A new pool: nobody is in it.                                            *)
LEMMA StartServed ==
  ASSUME ControlInv, Ring, Served, Start \/ \E created \in SUBSET Workers : StartFails(created)
  PROVE  Served'
<1>1. ~running /\ UNCHANGED <<cpc, call, units, applied>>
  BY DEF Start, StartFails, clientVars, dataVars
<1>2. \A c \in Clients : cpc[c] \in Outside
  BY <1>1 DEF ControlInv, Quiet
<1>3. Working = {} /\ Working' = {} /\ UNCHANGED <<Begun, Departing, Each>>
  BY <1>1, <1>2 DEF Working, Begun, Departing, Adding, Outside, Each
<1> QED
  BY <1>1, <1>3 DEF Served, Arrived, Divided, Covered, Once, Untouched, Settled

(* The next slot is no part of any call yet; it becomes the caller's last. *)
LEMMA FillAdds ==
  ASSUME ControlInv, Ring, NEW c \in Clients, Fill(c)
  PROVE  LET s == enqueuePosition
             f == call[c].first IN
         /\ UNCHANGED <<Working, Total>> /\ (c \in Working <=> call[c].type = "crypt")
         /\ \A d \in Clients : d # c => Given'[d] = Given[d] /\ Posted'[d] = Posted[d]
         /\ \A d \in Working : d # c => s \notin Arc(call[d].first, Given[d])
         /\ c \in Working =>
              /\ s \notin Arc(f, Given[c]) /\ Arc(f, Given'[c]) = Arc(f, Given[c]) \cup {s}
              /\ Posted'[c] = Posted[c]
<1> DEFINE s == enqueuePosition
           f == call[c].first
<1>1. /\ UNCHANGED <<state, fragments, itemCompleted, stopPending, wpc, wslot, units>>
      /\ cpc[c] = "slot" /\ cpc'[c] = IF call[c].type = "derive" THEN "increment" ELSE "ready"
      /\ \A d \in Clients : d # c => cpc'[d] = cpc[d] /\ call'[d] = call[d]
      /\ s \in Slots /\ state[s] = "Free"
      /\ call[c].left > 0 /\ call'[c].left = call[c].left - 1 /\ call'[c].slot = s
      /\ call'[c].type = call[c].type /\ call'[c].first = f
      /\ call[c].type \in {"crypt", "derive", "finalize"} /\ f \in Slots
  BY FillFacts
<1>2. UNCHANGED <<Working, Total>> /\ (c \in Working <=> call[c].type = "crypt")
  <2>1. UNCHANGED Total
    BY <1>1 DEF Total
  <2> QED
    BY <1>1, <2>1 DEF Working, Adding
<1>3. Filling' = Filling \cup {c} /\ c \notin Filling
  BY <1>1 DEF Filling
<1>4. \A d \in Working : d # c => s \notin Arc(call[d].first, Given[d])
  BY <1>1, OthersWait DEF Locked
<1>5. \A d \in Clients : d # c => Given'[d] = Given[d] /\ Posted'[d] = Posted[d]
  <2>1. \A d \in Clients : d # c => Given'[d] = Given[d]
    BY <1>1, <1>2 DEF Given
  <2> QED
    BY <1>1, <1>3, <2>1 DEF Posted
<1>6. ASSUME c \in Working
      PROVE  /\ s \notin Arc(f, Given[c]) /\ Arc(f, Given'[c]) = Arc(f, Given[c]) \cup {s}
             /\ Posted'[c] = Posted[c]
  <2>1. /\ Total[c] \in 1..QueueSize /\ QueueSize \in Nat /\ Given[c] \in 0..Total[c]
        /\ call[c].left = Total[c] - Given[c]
    BY <1>6, WorkingFacts
  <2>2. Given[c] \in Nat /\ Given[c] < QueueSize /\ Given'[c] = Given[c] + 1
    BY <1>1, <1>2, <2>1 DEF Given
  <2>3. Dist(f, s) = Given[c]
    BY <1>1, <1>6, <2>2 DEF Ring, Placed, Adding
  <2>4. s \notin Arc(f, Given[c])
    BY <2>2, <2>3 DEF Arc
  <2>5. \A t \in Slots : Dist(f, t) \in Nat /\ (Dist(f, t) = Dist(f, s) => t = s)
    BY <1>1, DistFacts
  <2>6. Arc(f, Given[c] + 1) = Arc(f, Given[c]) \cup {s}
    BY <1>1, <2>2, <2>3, <2>5 DEF Arc
  <2>7. Posted[c] = Arc(f, Given[c])
    BY <1>3 DEF Posted, Arc
  <2>8. Posted'[c] = Arc(f, Given[c])
    BY <1>1, <1>3, <2>2, <2>4, <2>6 DEF Posted
  <2> QED
    BY <2>2, <2>4, <2>6, <2>7, <2>8
<1> QED
  BY <1>2, <1>4, <1>5, <1>6

(* A fragment takes the next units, and leaves what the rest can take.     *)
LEMMA FillServed ==
  ASSUME ControlInv, Ring, Served, NEW c \in Clients, Fill(c)
  PROVE  Served'
<1> DEFINE s == enqueuePosition
           f == call[c].first
           A == Arc(call[c].first, Given[c])
<1>0. TypeOK
  BY DEF ControlInv
<1>1. /\ UNCHANGED <<state, wpc, wslot, units>>
      /\ cpc[c] = "slot" /\ cpc'[c] \in {"increment", "ready"}
      /\ \A d \in Clients : d # c => cpc'[d] = cpc[d] /\ call'[d] = call[d]
      /\ s \in Slots /\ call[c].left > 0 /\ call'[c].left = call[c].left - 1
      /\ call'[c].type = call[c].type /\ call'[c].first = f
      /\ \A t \in Slots : t # s => item'[t] = item[t]
  BY FillFacts
<1>2. /\ UNCHANGED applied
      /\ item'[s].start = call[c].next /\ item'[s].count = call[c].per
      /\ call'[c].next = call[c].next + call[c].per
      /\ call'[c].rem = IF call[c].rem > 0 THEN call[c].rem - 1 ELSE 0
      /\ call'[c].per = IF call[c].rem = 1 THEN call[c].per - 1 ELSE call[c].per
  BY <1>0 DEF Fill, TypeOK, Calls, dataVars
<1>3. /\ UNCHANGED Working
      /\ \A d \in Clients : d # c => Given'[d] = Given[d] /\ Posted'[d] = Posted[d]
      /\ \A d \in Working : d # c => s \notin Arc(call[d].first, Given[d])
      /\ c \in Working <=> call[c].type = "crypt"
      /\ c \in Working => s \notin A /\ Arc(f, Given'[c]) = A \cup {s} /\ Posted'[c] = Posted[c]
  BY FillAdds
<1>4. \A t \in Slots : t # s => Stretch'[t] = Stretch[t]
  BY <1>1 DEF Stretch
<1>5. OthersStay(c)
  <2>1. \A d \in Working : d # c => Raw'[d] = Raw[d]
    BY <1>1, <1>3, Members DEF Raw
  <2> QED
    BY <1>1, <1>2, <1>3, <1>4, <2>1, Members DEF OthersStay, Arc
<1>6. c \notin Begun' /\ c \notin Departing'
  BY <1>1 DEF Begun, Departing
<1>7. CASE c \notin Working
  <2>1. \A u \in Units : applied[c][u] = 0
    BY <1>1, <1>7 DEF Served, Untouched, Departing
  <2>2. call[c].type \in {"derive", "finalize"} => units[c] = 0
    BY DEF Served, Arrived
  <2> QED
    BY <1>1, <1>2, <1>3, <1>5, <1>6, <1>7, <2>1, <2>2, OneCall DEF InOrder
<1>8. CASE c \in Working
  <2> DEFINE e == Each[c]
             l == call[c].left
             n == call[c].next
             p == call[c].per
             r == call[c].rem
  <2>1. units[c] \in Units /\ call[c].type = "crypt"
    BY <1>8, WorkingFacts
  <2>2. e \in Nat /\ e >= 1 /\ Each'[c] = e
    <3>1. e = IF units[c] <= ThreadCount THEN 1 ELSE units[c] \div ThreadCount
      BY DEF Each
    <3>2. /\ (IF units[c] <= ThreadCount THEN 1 ELSE units[c] \div ThreadCount) \in Nat
          /\ (IF units[c] <= ThreadCount THEN 1 ELSE units[c] \div ThreadCount) >= 1
      BY <2>1, CallDivided, Zenon
    <3>3. Each'[c] = Each[c]
      BY <1>1 DEF Each
    <3> QED
      BY <3>1, <3>2, <3>3
  <2>3. l \in Int /\ n \in Int /\ p \in Int /\ r \in Int /\ units[c] \in Int /\ l > 0
    BY <1>0, <1>1, <2>1, CallFields DEF Units
  <2>4. /\ r \in 0..l /\ p = e + (IF r > 0 THEN 1 ELSE 0)
        /\ n - 1 + l * e + r = units[c] /\ n >= 1
    BY <1>8 DEF Served, Divided
  <2>5. l * e \in Int /\ (l - 1) * e = l * e - e
    BY <2>2, <2>3, ProductFacts
  <2>6. /\ call'[c].rem \in 0..call'[c].left
        /\ call'[c].per = Each'[c] + (IF call'[c].rem > 0 THEN 1 ELSE 0)
        /\ call'[c].next - 1 + call'[c].left * Each'[c] + call'[c].rem = units'[c]
        /\ call'[c].next >= 1 /\ p >= 1
    <3> DEFINE q == l * e
               q2 == (l - 1) * e
    <3>1. call'[c].left * Each'[c] = q2 /\ q2 = q - e /\ q \in Int /\ n - 1 + q + r = units[c]
      BY <1>1, <2>2, <2>4, <2>5
    <3> HIDE DEF q, q2
    <3>2. call'[c].left = l - 1 /\ call'[c].next = n + p /\ units'[c] = units[c]
          /\ call'[c].rem = (IF r > 0 THEN r - 1 ELSE 0)
          /\ call'[c].per = (IF r = 1 THEN p - 1 ELSE p) /\ Each'[c] = e
      BY <1>1, <1>2, <2>2
    <3> HIDE DEF e, l, n, p, r
    <3> QED
      BY <2>2, <2>3, <2>4, <3>1, <3>2
  <2>7. Stretch'[s] = n..n + p - 1 /\ \A t \in A : Stretch'[t] = Stretch[t] /\ t \in Slots /\ t # s
    BY <1>1, <1>2, <1>3, <1>4, <1>8 DEF Stretch, Arc
  <2>8. /\ \A t \in A : Stretch[t] \subseteq 1..n - 1
        /\ \A u \in 1..n - 1 : \E t \in A : u \in Stretch[t]
        /\ \A t, t2 \in A : t # t2 => Stretch[t] \cap Stretch[t2] = {}
    BY <1>8 DEF Served, Covered
  <2>9. /\ call'[c].next = n + p
        /\ Arc(call'[c].first, Given'[c]) = A \cup {s}
    BY <1>1, <1>2, <1>3, <1>8
  <2>10. /\ \A t \in A \cup {s} : Stretch'[t] \subseteq 1..n + p - 1
         /\ \A u \in 1..n + p - 1 : \E t \in A \cup {s} : u \in Stretch'[t]
         /\ \A t, t2 \in A \cup {s} : t # t2 => Stretch'[t] \cap Stretch'[t2] = {}
    <3> HIDE DEF A, n, p, s
    <3>1. n >= 1 /\ p >= 1 /\ n \in Int /\ p \in Int
      BY <2>3, <2>4, <2>6
    <3>2. 1..n - 1 \subseteq 1..n + p - 1 /\ n..n + p - 1 \subseteq 1..n + p - 1
          /\ (n..n + p - 1) \cap (1..n - 1) = {}
          /\ \A u \in 1..n + p - 1 : u \in 1..n - 1 \/ u \in n..n + p - 1
      BY <3>1
    <3>3. \A t \in A \cup {s} : Stretch'[t] \subseteq 1..n + p - 1
      BY <2>7, <2>8, <3>2
    <3>4. \A u \in 1..n + p - 1 : \E t \in A \cup {s} : u \in Stretch'[t]
      BY <2>7, <2>8, <3>2
    <3>5. ASSUME NEW t \in A \cup {s}, NEW t2 \in A \cup {s}, t # t2
          PROVE  Stretch'[t] \cap Stretch'[t2] = {}
      <4>1. CASE t \in A /\ t2 \in A
        BY <2>7, <2>8, <3>5, <4>1
      <4>2. CASE t = s /\ t2 \in A
        BY <2>7, <2>8, <3>2, <4>2
      <4>3. CASE t \in A /\ t2 = s
        BY <2>7, <2>8, <3>2, <4>3
      <4> QED
        BY <3>5, <4>1, <4>2, <4>3
    <3> QED
      BY <3>3, <3>4, <3>5
  <2>11. (A \cup {s}) \ Raw'[c] = A \ Raw[c]
    <3> DEFINE U(t) == \E w \in Workers : wslot[w] = t /\ wpc[w] \in {"taken", "crypt"}
    <3>1. Raw[c] = {t \in A : t \notin Posted[c] \/ state[t] = "Ready" \/ U(t)}
      BY DEF Raw
    <3>2. Raw'[c] = {t \in A \cup {s} : t \notin Posted[c] \/ state[t] = "Ready" \/ U(t)}
      BY <1>1, <1>3, <1>8, <2>9 DEF Raw
    <3>3. s \notin Posted[c]
      BY <1>3, <1>8 DEF Posted
    <3> HIDE DEF A, U
    <3> QED
      BY <3>1, <3>2, <3>3
  <2>12. \A u \in Units :
           applied'[c][u] = IF \E t \in (A \cup {s}) \ Raw'[c] : u \in Stretch'[t] THEN 1 ELSE 0
    <3>1. \A u \in Units :
            applied[c][u] = IF \E t \in A \ Raw[c] : u \in Stretch[t] THEN 1 ELSE 0
      BY <1>8 DEF Served, Once
    <3> HIDE DEF A
    <3> QED
      BY <1>2, <2>7, <2>11, <3>1
  <2>13. InOrder(c)
    <3>1. cpc'[c] # "idle" /\ cpc'[c] \notin {"inline", "signal", "return"}
          /\ call'[c].type = "crypt"
      BY <1>1, <2>1
    <3>2. c \in Working'
      BY <1>3, <1>8
    <3>3. /\ \A t \in Arc(call'[c].first, Given'[c]) : Stretch'[t] \subseteq 1..call'[c].next - 1
          /\ \A u \in 1..call'[c].next - 1 :
               \E t \in Arc(call'[c].first, Given'[c]) : u \in Stretch'[t]
          /\ \A t, t2 \in Arc(call'[c].first, Given'[c]) :
               t # t2 => Stretch'[t] \cap Stretch'[t2] = {}
      <4> DEFINE B == Arc(call'[c].first, Given'[c])
                 m == call'[c].next - 1
      <4>1. B = A \cup {s}
        BY <2>9, Zenon
      <4>2. m = n + p - 1
        BY <2>3, <2>9
      <4> HIDE DEF A, B, m, n, p, s
      <4>3. \A t \in B : Stretch'[t] \subseteq 1..m
        BY <2>10, <4>1, <4>2
      <4>4. \A u \in 1..m : \E t \in B : u \in Stretch'[t]
        BY <2>10, <4>1, <4>2
      <4>5. \A t, t2 \in B : t # t2 => Stretch'[t] \cap Stretch'[t2] = {}
        BY <2>10, <4>1, <4>2
      <4> USE DEF B, m
      <4> QED
        BY <4>3, <4>4, <4>5
    <3>4. \A u \in Units :
            applied'[c][u] = IF \E t \in Arc(call'[c].first, Given'[c]) \ Raw'[c] : u \in Stretch'[t]
                             THEN 1 ELSE 0
      <4> HIDE DEF A, s
      <4> QED
        BY <2>9, <2>12
    <3> QED
      BY <1>6, <2>6, <3>1, <3>2, <3>3, <3>4 DEF InOrder
  <2> QED
    BY <1>5, <2>13, OneCall
<1> QED
  BY <1>7, <1>8

(* A fragment's units are transformed for the first time.                  *)
LEMMA WorkerCryptServed ==
  ASSUME ControlInv, Ring, Served, NEW w \in Workers, WorkerCrypt(w)
  PROVE  Served'
<1> DEFINE s == wslot[w]
           c == item[wslot[w]].owner
           A == Arc(call[c].first, Given[c])
<1>1. /\ s \in Slots /\ c \in Working /\ c \in Clients /\ s \in Posted[c]
      /\ state[s] # "Ready" /\ wpc[w] = "crypt"
      /\ \A v \in Workers : v # w /\ wpc[v] \in Using => wslot[v] # s
  BY ServingFacts, Members DEF WorkerCrypt, WorkerGoto, Accounting, Using, Uncounted
<1>2. /\ UNCHANGED <<cpc, call, units, item, state, wslot>>
      /\ wpc'[w] \notin {"taken", "crypt"} /\ \A v \in Workers : v # w => wpc'[v] = wpc[v]
  BY DEF WorkerCrypt, WorkerGoto, AfterCrypt, clientVars, slotVars, ControlInv, TypeOK
<1>3. /\ \A d \in Clients : d # c => applied'[d] = applied[d]
      /\ \A u \in Units :
           applied'[c][u] = IF u \in Stretch[s] THEN applied[c][u] + 1 ELSE applied[c][u]
  BY <1>1 DEF WorkerCrypt, Stretch, ControlInv, TypeOK
<1>4. UNCHANGED <<Working, Begun, Departing, Filling, Total, Given, Stretch, Each>>
  BY <1>2 DEF Working, Begun, Departing, Filling, Total, Given, Stretch, Each
<1>5. UNCHANGED Posted
  BY <1>2, <1>4 DEF Posted
<1>6. s \in A /\ \A d \in Working : d # c => s \notin Arc(call[d].first, Given[d])
  BY <1>1, PostedFacts DEF Ring, Laid
<1>7. ASSUME NEW d \in Working
      PROVE  Raw'[d] = Raw[d] \ {s}
  <2> DEFINE U(t) == \E v \in Workers : wslot[v] = t /\ wpc[v] \in {"taken", "crypt"}
             V(t) == \E v \in Workers : wslot[v] = t /\ wpc'[v] \in {"taken", "crypt"}
             B == Arc(call[d].first, Given[d])
  <2>1. Raw[d] = {t \in B : t \notin Posted[d] \/ state[t] = "Ready" \/ U(t)}
    BY Members DEF Raw
  <2>2. Raw'[d] = {t \in B : t \notin Posted[d] \/ state[t] = "Ready" \/ V(t)}
    BY <1>2, <1>4, <1>5, Members DEF Raw
  <2>3. \A t : t # s => (U(t) <=> V(t))
    BY <1>2
  <2>4. ~V(s)
    BY <1>1, <1>2 DEF Using, Uncounted
  <2>5. s \in B => s \in Posted[d]
    BY <1>1, <1>6
  <2> HIDE DEF U, V, B, s
  <2> QED
    BY <1>1, <2>1, <2>2, <2>3, <2>4, <2>5
<1>8. s \in Raw[c]
  BY <1>1, <1>6 DEF Raw
<1>9. OthersStay(c)
  <2>1. ASSUME NEW d \in Working, d # c PROVE Raw'[d] = Raw[d]
    <3>1. s \notin Raw[d]
      BY <1>6, <2>1, Members DEF Raw
    <3>2. Raw'[d] = Raw[d] \ {s}
      BY <1>7
    <3> QED
      BY <3>1, <3>2
  <2>2. \A d \in Working : d # c =>
          /\ Given'[d] = Given[d] /\ Raw'[d] = Raw[d]
          /\ \A t \in Arc(call[d].first, Given[d]) : Stretch'[t] = Stretch[t]
    BY <1>4, <2>1
  <2> HIDE DEF c, s
  <2> QED
    BY <1>2, <1>3, <2>2 DEF OthersStay
<1>10. \A u \in Units :
         applied'[c][u] = IF \E t \in A \ Raw'[c] : u \in Stretch[t] THEN 1 ELSE 0
  <2>1. \A u \in Units :
          applied[c][u] = IF \E t \in A \ Raw[c] : u \in Stretch[t] THEN 1 ELSE 0
    BY <1>1 DEF Served, Once
  <2>2. \A t \in A : t # s => Stretch[t] \cap Stretch[s] = {}
    BY <1>1, <1>6 DEF Served, Covered
  <2>3. A \ Raw'[c] = (A \ Raw[c]) \cup {s} /\ s \notin A \ Raw[c]
    BY <1>1, <1>6, <1>7, <1>8
  <2> HIDE DEF A, c, s
  <2>4. ASSUME NEW u \in Units
        PROVE  applied'[c][u] = IF \E t \in A \ Raw'[c] : u \in Stretch[t] THEN 1 ELSE 0
    <3>1. CASE u \in Stretch[s]
      <4>1. applied[c][u] = 0
        BY <2>1, <2>2, <2>3, <3>1
      <4> QED
        BY <1>3, <2>3, <3>1, <4>1
    <3>2. CASE u \notin Stretch[s]
      BY <1>3, <2>1, <2>3, <3>2
    <3> QED
      BY <3>1, <3>2
  <2> QED
    BY <2>4
<1>11. InOrder(c)
  <2>1. c \notin Departing /\ c \notin Begun
    BY <1>1 DEF Working, Departing, Begun, Adding
  <2>2. /\ (cpc[c] = "idle" \/ call[c].type \in {"derive", "finalize"} => units[c] = 0)
        /\ (cpc[c] \in {"inline", "signal", "return"} => units[c] \in Units)
    BY <1>1 DEF Served, Arrived
  <2>3. /\ call[c].rem \in 0..call[c].left
        /\ call[c].per = Each[c] + (IF call[c].rem > 0 THEN 1 ELSE 0)
        /\ call[c].next - 1 + call[c].left * Each[c] + call[c].rem = units[c]
        /\ call[c].next >= 1
    BY <1>1 DEF Served, Divided
  <2>4. /\ \A t \in A : Stretch[t] \subseteq 1..call[c].next - 1
        /\ \A u \in 1..call[c].next - 1 : \E t \in A : u \in Stretch[t]
        /\ \A t, t2 \in A : t # t2 => Stretch[t] \cap Stretch[t2] = {}
    BY <1>1 DEF Served, Covered
  <2> HIDE DEF c
  <2> QED
    BY <1>1, <1>2, <1>4, <1>10, <2>1, <2>2, <2>3, <2>4 DEF InOrder
<1> QED
  BY <1>1, <1>9, <1>11, OneCall

(* At first nobody has called.                                             *)
LEMMA ServedInit == Init => Served
<1> SUFFICES ASSUME Init PROVE Served
  OBVIOUS
<1>1. \A c \in Clients : cpc[c] = "idle" /\ units[c] = 0 /\ \A u \in Units : applied[c][u] = 0
  BY DEF Init
<1>2. Working = {} /\ Begun = {} /\ Departing = {}
  BY <1>1 DEF Working, Begun, Departing, Adding
<1> QED
  BY <1>1, <1>2 DEF Served, Arrived, Divided, Covered, Once, Untouched, Settled

(* Every step leaves every call in order.                                  *)
LEMMA ServedStep == ControlInv /\ Ring /\ Served /\ [Next]_vars => Served'
<1> SUFFICES ASSUME ControlInv, Ring, Served, [Next]_vars PROVE Served'
  OBVIOUS
<1>1. ASSUME NEW w \in Workers, WorkerOnCall(w) \/ WorkerOnHeader(w) PROVE Served'
  BY <1>1, ThreadsStill, StillKeeps, WorkerCryptServed
<1>2. ASSUME Start \/ (\E created \in SUBSET Workers : StartFails(created)) PROVE Served'
  BY <1>2, StartServed
<1>3. ASSUME StopBegin \/ StopSignal \/ StopJoin PROVE Served'
  BY <1>3, ThreadsStill, StillKeeps
<1>4. ASSUME NEW c \in Clients, InsideCall(c) PROVE Served'
  <2>1. ASSUME \/ Lock(c) \/ SlotBusy(c, "first", "firstWait") \/ WaitSlot(c, "firstWait", "first")
               \/ SlotBusy(c, "slot", "slotWait") \/ WaitSlot(c, "slotWait", "slot") \/ Notify(c)
               \/ Await(c) \/ SignalFirst(c) \/ (Unlock(c) /\ call[c].type = "crypt")
        PROVE  Served'
    BY <2>1, ClientsStill, StillKeeps
  <2>2. ASSUME SetReady(c) PROVE Served'
    BY <2>2, ReadyStill, StillKeeps
  <2> QED
    BY <1>4, <2>1, <2>2, CryptInlineServed, SetFragmentCountServed, FillServed, FreeFirstServed,
       ReturnServed DEF InsideCall
<1>5. ASSUME NEW c \in Clients, InsideHeader(c) PROVE Served'
  BY <1>5, ClientsStill, StillKeeps DEF InsideHeader
<1>6. ASSUME NEW c \in Clients, EnterCall(c) \/ EnterHeader(c) PROVE Served'
  BY <1>6, ArrivalServed DEF EnterCall, EnterHeader
<1>7. ASSUME UNCHANGED vars PROVE Served'
  <2>1. UNCHANGED <<cpc, call, units, applied, item, state, wpc, wslot>>
    BY <1>7 DEF vars, clientVars, dataVars, slotVars, workerVars
  <2>2. Still
    BY <2>1, RawKept
  <2> QED
    BY <2>2, StillKeeps
<1> QED
  BY <1>1, <1>2, <1>3, <1>4, <1>5, <1>6, <1>7 DEF Next, CallNext, HeaderNext

(* What a step of the pool is to its callers.                              *)
LEMMA ServiceStep ==
  ASSUME ControlInv, Ring, Served, [Next]_vars
  PROVE  [Service!Next]_(Service!vars)
<1>1. ASSUME NEW c \in Clients, NEW n \in Units, DoWork(c, n) PROVE Service!Next
  <2>1. units[c] = 0
    BY <1>1 DEF DoWork, Goto, Served, Arrived
  <2>2. Service!Call(c, n)
    BY <1>1, <2>1 DEF DoWork, Service!Call
  <2> QED
    BY <2>2 DEF Service!Next, Service!Units, Units
<1>2. ASSUME NEW c \in Clients, Return(c) PROVE Service!Next
  <2>1. c \in Departing /\ cpc[c] = "return"
    BY <1>2 DEF Return, Goto, Departing
  <2>2. units[c] # 0 /\ \A u \in 1..units[c] : applied[c][u] = 1
    BY <2>1 DEF Served, Arrived, Settled, Units
  <2>3. Service!Return(c)
    BY <1>2, <2>2 DEF Return, Service!Return, Service!Units, Units
  <2> QED
    BY <2>3 DEF Service!Next
<1>3. ASSUME NEW c \in Clients, CryptInline(c) PROVE Service!Next
  <2>1. cpc[c] = "inline" /\ c \notin Working \cup Departing
    BY <1>3 DEF CryptInline, Goto, Working, Departing, Adding
  <2>2. units[c] \in Units /\ \A u \in Units : applied[c][u] = 0
    BY <2>1 DEF Served, Arrived, Untouched
  <2>3. 1..units[c] \subseteq Units /\ \A u \in Units : u <= units[c] <=> u \in 1..units[c]
    BY <2>2, PoolAssumption DEF Units
  <2>4. Service!Transform(c, 1..units[c])
    <3>1. 1..units[c] \subseteq {u \in 1..units[c] : applied[c][u] = 0}
      BY <2>2, <2>3
    <3>2. applied' = [applied EXCEPT ![c] =
            [u \in Units |-> IF u \in 1..units[c] THEN @[u] + 1 ELSE @[u]]]
      BY <1>3, <2>3 DEF CryptInline
    <3>3. UNCHANGED units
      BY <1>3 DEF CryptInline
    <3> QED
      BY <3>1, <3>2, <3>3 DEF Service!Transform, Service!Units, Units
  <2> QED
    BY <2>3, <2>4 DEF Service!Next, Service!Units, Units
<1>4. ASSUME NEW w \in Workers, WorkerCrypt(w) PROVE Service!Next
  <2> DEFINE s == wslot[w]
             c == item[wslot[w]].owner
             A == Arc(call[c].first, Given[c])
  <2>1. /\ s \in Slots /\ c \in Working /\ c \in Clients /\ s \in Posted[c] /\ wpc[w] = "crypt"
    BY <1>4, ServingFacts, Members DEF WorkerCrypt, WorkerGoto, Accounting
  <2>2. s \in A /\ s \in Raw[c]
    BY <2>1, PostedFacts DEF Raw
  <2>3. /\ Stretch[s] \subseteq 1..call[c].next - 1
        /\ \A t \in A : t # s => Stretch[t] \cap Stretch[s] = {}
    BY <2>1, <2>2 DEF Served, Covered
  <2>4. 1..call[c].next - 1 \subseteq 1..units[c] /\ 1..units[c] \subseteq Units
    <3>1. units[c] \in Units
      BY <2>1, WorkingFacts
    <3>2. /\ call[c].rem \in 0..call[c].left
          /\ call[c].next - 1 + call[c].left * Each[c] + call[c].rem = units[c]
      BY <2>1 DEF Served, Divided
    <3>3. Each[c] \in Nat
      <4>1. Each[c] = IF units[c] <= ThreadCount THEN 1 ELSE units[c] \div ThreadCount
        BY <2>1 DEF Each
      <4>2. (IF units[c] <= ThreadCount THEN 1 ELSE units[c] \div ThreadCount) \in Nat
        BY <3>1, CallDivided, Zenon
      <4> QED
        BY <4>1, <4>2
    <3>4. call[c].left \in Int /\ call[c].next \in Int /\ call[c].rem \in Int
      BY <2>1, CallFields DEF ControlInv
    <3>5. call[c].left * Each[c] \in Nat
      BY <3>2, <3>3, <3>4, ProductNat
    <3>6. call[c].next - 1 <= units[c] /\ units[c] \in Nat /\ units[c] <= MaxUnits
      <4> DEFINE q == call[c].left * Each[c]
      <4>1. q \in Nat /\ call[c].next - 1 + q + call[c].rem = units[c] /\ call[c].rem >= 0
        BY <3>2, <3>4, <3>5
      <4> HIDE DEF q
      <4> QED
        BY <3>1, <3>4, <4>1, PoolAssumption DEF Units
    <3> QED
      BY <3>4, <3>6, PoolAssumption DEF Units
  <2>5. \A u \in Stretch[s] : applied[c][u] = 0
    <3>1. \A u \in Units :
            applied[c][u] = IF \E t \in A \ Raw[c] : u \in Stretch[t] THEN 1 ELSE 0
      BY <2>1 DEF Served, Once
    <3> HIDE DEF A, c, s
    <3> QED
      BY <2>2, <2>3, <2>4, <3>1
  <2>6. Service!Transform(c, Stretch[s])
    <3>1. Stretch[s] \subseteq {u \in 1..units[c] : applied[c][u] = 0}
      BY <2>3, <2>4, <2>5
    <3>2. applied' = [applied EXCEPT ![c] =
            [u \in Units |-> IF u \in Stretch[s] THEN @[u] + 1 ELSE @[u]]]
      BY <1>4, <2>1 DEF WorkerCrypt, Stretch
    <3>3. UNCHANGED units
      BY <1>4 DEF WorkerCrypt
    <3> QED
      BY <3>1, <3>2, <3>3 DEF Service!Transform, Service!Units, Units
  <2>7. Stretch[s] \in SUBSET Units
    BY <2>3, <2>4
  <2> HIDE DEF s, c
  <2> QED
    BY <2>1, <2>6, <2>7 DEF Service!Next, Service!Units, Units
<1>5. ASSUME UNCHANGED <<units, applied>> PROVE UNCHANGED Service!vars
  BY <1>5 DEF Service!vars
<1> QED
  BY <1>1, <1>2, <1>3, <1>4, <1>5, DataCases

(* DoWork is the atomic service of CryptService (EncryptionThreadPool.c:   *)
(* 353-502): however the pool divides, queues and interleaves the calls,   *)
(* each unit of a call is transformed once and only once, and the call     *)
(* does not return before.                                                 *)
THEOREM PoolServes == Spec => ImplementsService
<1>1. Init => Ring /\ Served /\ Service!Init
  BY RingInit, ServedInit DEF Init, Service!Init, Service!Units, Units
<1>2. ControlInv /\ ControlInv' /\ Ring /\ Served /\ [Next]_vars => (Ring /\ Served)'
  BY RingStep, ServedStep
<1>3. ControlInv /\ Ring /\ Served /\ [Next]_vars => [Service!Next]_(Service!vars)
  BY ServiceStep
<1> QED
  BY <1>1, <1>2, <1>3, ControlCorrect, PTL DEF Spec, ImplementsService, Service!Spec
=============================================================================
