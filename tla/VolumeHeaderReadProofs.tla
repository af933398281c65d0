------------------------ MODULE VolumeHeaderReadProofs ------------------------
(***************************************************************************)
(* Proofs about VolumeHeaderRead, for any number of readers, PRFs and pool *)
(* threads, on top of what is proved of the pool: the answer of a read is  *)
(* right, and its buffers are freed when nobody uses them any more.        *)
(***************************************************************************)
EXTENDS VolumeHeaderRead, EncryptionThreadPoolProofs, WellFoundedInduction

-----------------------------------------------------------------------------
(* The answer.                                                             *)

(* The work items that hold a derivation, and the last PRF begun.          *)
Busy == [c \in Clients |-> {i \in Prfs : ~workItems[c][i].free}]
LastBegun ==
  [c \in Clients |-> IF reader[c] \in {"idle", "loop", "done"} THEN enqPrf[c] - 1 ELSE enqPrf[c]]

(* A read counts its work items, each with a PRF of its own, ...           *)
ItemsCounted(c) ==
  /\ queuedItems[c] = Cardinality(Busy[c])
  /\ \A i \in Busy[c] : workItems[c][i].prf \in 1..LastBegun[c]
  /\ \A i, j \in Busy[c] : workItems[c][i].prf = workItems[c][j].prf => i = j
  /\ reader[c] \in {"idle", "loop"} => enqPrf[c] >= 1
  /\ reader[c] \in {"enqueued", "scan", "wait"} => enqPrf[c] <= MaxDerivations
  /\ reader[c] # "finish" => answer[c] = 0

(* ... finds in one that is ready the key of its PRF, ...                  *)
KeysTheirOwn(c) ==
  \A i \in Prfs : workItems[c][i].ready => workItems[c][i].key = workItems[c][i].prf

(* ... and forgets none of those it has begun.                             *)
NoneForgotten(c) ==
  reader[c] # "finish" =>
    \A p \in 1..LastBegun[c] :
      p \in tried[c] \/ \E i \in Busy[c] : workItems[c][i].prf = p

AtRest(c) == reader[c] \in {"idle", "done"} => Busy[c] = {} /\ enqPrf[c] = 1

Answering(c) ==
  /\ Reading(c) => running /\ spc = "idle"
  /\ ItemsCounted(c) /\ KeysTheirOwn(c) /\ NoneForgotten(c) /\ AtRest(c)
  /\ reader[c] = "finish" =>
       IF answer[c] = 0 THEN tried[c] = Prfs ELSE answer[c] \in tried[c]

Answered == ReadTypeOK /\ \A c \in Clients : Answering(c)

(* A set of natural numbers has a least element.                           *)
LEMMA LeastElement ==
  ASSUME NEW S, S \subseteq Nat, S # {}
  PROVE  \E n \in S : \A k \in S : n <= k
<1> DEFINE R == {pair \in Nat \X Nat : pair[1] < pair[2]}
<1>1. IsWellFoundedOn(R, Nat)
  BY NatLessThanWellFounded DEF OpToRel
<1>2. PICK n \in S : \A k \in S : ~(<<k, n>> \in R)
  <2> HIDE DEF R
  <2> QED
    BY <1>1, WFMin
<1>3. ASSUME NEW k \in S PROVE n <= k
  <2>1. <<k, n>> \notin R /\ <<k, n>> \in Nat \X Nat
    BY <1>2
  <2> QED
    BY <2>1
<1> QED
  BY <1>3

(* There are PRFs and work items, finitely many.                           *)
LEMMA PrfFacts ==
  /\ MaxDerivations \in Nat /\ MaxDerivations >= 1 /\ ThreadCount \in Nat /\ ThreadCount >= 2
  /\ 1 \in Prfs /\ MaxDerivations \in Prfs /\ IsFiniteSet(Prfs)
  /\ Cardinality(Prfs) = MaxDerivations
<1>1. /\ MaxDerivations \in Nat /\ MaxDerivations >= 1
      /\ ThreadCount \in Nat /\ ThreadCount >= 2
  BY ReadAssumption, PoolAssumption, SlotFacts
<1>2. IsFiniteSet(Prfs) /\ Cardinality(Prfs) = MaxDerivations
  BY <1>1, FS_Interval DEF Prfs
<1> QED
  BY <1>1, <1>2 DEF Prfs

(* What a work item holds.                                                 *)
WorkItem == [free : BOOLEAN, ready : BOOLEAN, prf : Prfs \cup {0}, key : Prfs \cup {0}]

(* A reader's data has its types.                                          *)
LEMMA ReaderFacts ==
  ASSUME ReadTypeOK, NEW c \in Clients
  PROVE  /\ enqPrf[c] \in 0..MaxDerivations + 1 /\ enqPrf[c] \in Int
         /\ queuedItems[c] \in 0..ThreadCount /\ queuedItems[c] \in Int
         /\ at[c] \in Prfs /\ workItems[c] \in [Prfs -> WorkItem]
         /\ Busy[c] = {i \in Prfs : ~workItems[c][i].free} /\ Busy[c] \subseteq Prfs
         /\ IsFiniteSet(Busy[c]) /\ Cardinality(Busy[c]) \in Nat
         /\ tried[c] \subseteq Prfs
<1>1. /\ enqPrf[c] \in 0..MaxDerivations + 1 /\ queuedItems[c] \in 0..ThreadCount
      /\ at[c] \in Prfs /\ workItems[c] \in [Prfs -> WorkItem] /\ tried[c] \subseteq Prfs
  BY DEF ReadTypeOK, WorkItem
<1>2. Busy[c] = {i \in Prfs : ~workItems[c][i].free} /\ Busy[c] \in SUBSET Prfs
  BY DEF Busy
<1>3. IsFiniteSet(Busy[c]) /\ Cardinality(Busy[c]) \in Nat
  BY <1>2, PrfFacts, FS_Subset, FS_CardinalityType
<1> QED
  BY <1>1, <1>2, <1>3, PrfFacts

(* The other readers' data stays as it is.                                 *)
OthersRead(c) ==
  /\ UNCHANGED <<running, spc>>
  /\ \A d \in Clients : d # c =>
       /\ reader'[d] = reader[d] /\ enqPrf'[d] = enqPrf[d] /\ queuedItems'[d] = queuedItems[d]
       /\ workItems'[d] = workItems[d] /\ answer'[d] = answer[d] /\ tried'[d] = tried[d]

(* So one reader's step is about that reader.                              *)
LEMMA OneReads ==
  ASSUME Answered, NEW c \in Clients, OthersRead(c), ReadTypeOK', Answering(c)'
  PROVE  Answered'
<1>1. ASSUME NEW d \in Clients, d # c PROVE Answering(d)'
  <2>1. /\ UNCHANGED <<running, spc>>
        /\ reader'[d] = reader[d] /\ enqPrf'[d] = enqPrf[d] /\ queuedItems'[d] = queuedItems[d]
        /\ workItems'[d] = workItems[d] /\ answer'[d] = answer[d] /\ tried'[d] = tried[d]
    BY <1>1 DEF OthersRead
  <2>2. Busy'[d] = Busy[d] /\ LastBegun'[d] = LastBegun[d]
    BY <2>1 DEF Busy, LastBegun
  <2>3. Answering(d)
    BY DEF Answered
  <2> QED
    BY <2>1, <2>2, <2>3 DEF Answering, Reading, ItemsCounted, KeysTheirOwn, NoneForgotten, AtRest
<1>2. \A d \in Clients : Answering(d)'
  BY <1>1
<1> QED
  BY <1>2 DEF Answered

(* A free work item is found whenever a derivation may be begun: there are *)
(* as many as PRFs, and each one taken has a PRF that was begun before.    *)
LEMMA FreeItemFound ==
  ASSUME Answered, NEW c \in Clients, reader[c] = "loop", enqPrf[c] <= MaxDerivations
  PROVE  \E j \in Prfs : workItems[c][j].free /\ \A k \in 1..j - 1 : ~workItems[c][k].free
<1> DEFINE Free == Prfs \ Busy[c]
<1>1. /\ ItemsCounted(c) /\ LastBegun[c] = enqPrf[c] - 1 /\ enqPrf[c] >= 1
      /\ enqPrf[c] \in Int /\ Busy[c] = {i \in Prfs : ~workItems[c][i].free}
  BY ReaderFacts DEF Answered, Answering, ItemsCounted, LastBegun
<1>2. Free # {}
  <2> SUFFICES ASSUME Free = {} PROVE FALSE
    OBVIOUS
  <2>1. Busy[c] = Prfs
    BY <1>1
  <2> DEFINE f == [i \in Prfs |-> workItems[c][i].prf]
             T == 1..enqPrf[c] - 1
  <2>2. f \in [Prfs -> T]
    BY <1>1, <2>1 DEF ItemsCounted
  <2>3. IsFiniteSet(T) /\ Cardinality(T) < Cardinality(Prfs)
    <3>1. /\ IsFiniteSet(T)
          /\ Cardinality(T) = IF 1 > enqPrf[c] - 1 THEN 0 ELSE enqPrf[c] - 1 - 1 + 1
      BY <1>1, FS_Interval
    <3> QED
      BY <1>1, <3>1, PrfFacts
  <2>4. \E i, j \in Prfs : i # j /\ f[i] = f[j]
    <3>1. IsFiniteSet(Prfs)
      BY PrfFacts
    <3> HIDE DEF f, T
    <3>2. \A g \in [Prfs -> T] : \E i, j \in Prfs : i # j /\ g[i] = g[j]
      BY <2>3, <3>1, FS_PigeonHole
    <3> QED
      BY <2>2, <3>2
  <2> QED
    BY <1>1, <2>1, <2>4 DEF ItemsCounted
<1>3. PICK j \in Free : \A k \in Free : j <= k
  <2>1. Free \subseteq Nat
    BY DEF Prfs
  <2> QED
    BY <1>2, <2>1, LeastElement
<1>4. j \in Prfs /\ workItems[c][j].free
  BY <1>1
<1>5. ASSUME NEW k \in 1..j - 1 PROVE ~workItems[c][k].free
  <2>1. k \in Prfs /\ k < j
    BY <1>4, <1>5, PrfFacts DEF Prfs
  <2>2. k \notin Free
    BY <1>3, <1>4, <2>1 DEF Prfs
  <2> QED
    BY <1>1, <2>1, <2>2
<1> QED
  BY <1>4, <1>5

(* The reader takes it for the next PRF.                                   *)
LEMMA EnqueueKeeps ==
  ASSUME Answered, NEW c \in Clients, Enqueue(c)
  PROVE  Answered'
<1> DEFINE i == CHOOSE j \in Prfs : /\ workItems[c][j].free
                                    /\ \A k \in 1..j - 1 : ~workItems[c][k].free
           it == [workItems[c][i] EXCEPT !.free = FALSE, !.ready = FALSE, !.prf = enqPrf[c]]
<1>1. /\ reader[c] = "loop" /\ reader' = [reader EXCEPT ![c] = "enqueued"]
      /\ queuedItems[c] < ThreadCount /\ enqPrf[c] <= MaxDerivations
      /\ at' = [at EXCEPT ![c] = i]
      /\ workItems' = [workItems EXCEPT ![c][i] = it]
      /\ queuedItems' = [queuedItems EXCEPT ![c] = @ + 1]
      /\ UNCHANGED <<enqPrf, target, keyCompleted, answer, tried, late>>
      /\ UNCHANGED <<running, spc>>
  BY DEF Enqueue, ReaderGoto, MayEnqueue, BeginKeyDerivation, stopVars
<1>2. i \in Prfs /\ workItems[c][i].free
  BY <1>1, FreeItemFound
<1> HIDE DEF i
<1>3. /\ Answering(c) /\ ReadTypeOK /\ enqPrf[c] \in Int /\ queuedItems[c] \in 0..ThreadCount
      /\ workItems[c] \in [Prfs -> WorkItem]
      /\ Busy[c] = {k \in Prfs : ~workItems[c][k].free} /\ IsFiniteSet(Busy[c])
      /\ Reading(c) /\ enqPrf[c] >= 1
  BY <1>1, ReaderFacts DEF Answered, Reading, Answering, ItemsCounted
<1>4. enqPrf[c] \in Prfs
  BY <1>1, <1>3 DEF Prfs
<1>5. it \in WorkItem /\ ~it.free /\ ~it.ready /\ it.prf = enqPrf[c]
  BY <1>2, <1>3, <1>4 DEF WorkItem
<1> HIDE DEF it
<1>6. /\ workItems'[c] \in [Prfs -> WorkItem] /\ workItems'[c][i] = it
      /\ \A k \in Prfs : k # i => workItems'[c][k] = workItems[c][k]
      /\ \A d \in Clients : d # c => workItems'[d] = workItems[d]
      /\ workItems' \in [Clients -> [Prfs -> WorkItem]]
  BY <1>1, <1>2, <1>3, <1>5 DEF ReadTypeOK, WorkItem
<1>7. ReadTypeOK'
  BY <1>1, <1>2, <1>3, <1>6, PrfFacts DEF ReadTypeOK, WorkItem
<1>8. Busy'[c] = Busy[c] \cup {i} /\ i \notin Busy[c]
  BY <1>2, <1>3, <1>5, <1>6 DEF Busy
<1>9. /\ reader'[c] = "enqueued" /\ enqPrf'[c] = enqPrf[c]
      /\ LastBegun[c] = enqPrf[c] - 1 /\ LastBegun'[c] = enqPrf[c]
      /\ queuedItems'[c] = queuedItems[c] + 1 /\ answer'[c] = answer[c] /\ tried'[c] = tried[c]
  BY <1>1, <1>3 DEF LastBegun, ReadTypeOK
<1>10. Cardinality(Busy'[c]) = Cardinality(Busy[c]) + 1
  BY <1>3, <1>8, FS_AddElement
<1>11. ItemsCounted(c)'
  <2>1. queuedItems'[c] = Cardinality(Busy'[c])
    BY <1>3, <1>9, <1>10 DEF Answering, ItemsCounted
  <2>2. \A k \in Busy'[c] : workItems'[c][k].prf \in 1..LastBegun'[c]
    BY <1>3, <1>4, <1>5, <1>6, <1>8, <1>9 DEF Answering, ItemsCounted, Prfs
  <2>3. \A k \in Busy[c] : workItems[c][k].prf # enqPrf[c]
    BY <1>3, <1>9 DEF Answering, ItemsCounted
  <2>4. \A k, l \in Busy'[c] : workItems'[c][k].prf = workItems'[c][l].prf => k = l
    BY <1>3, <1>5, <1>6, <1>8, <2>3 DEF Answering, ItemsCounted
  <2> QED
    BY <1>1, <1>3, <1>9, <2>1, <2>2, <2>4 DEF Answering, ItemsCounted
<1>12. KeysTheirOwn(c)'
  BY <1>3, <1>5, <1>6 DEF Answering, KeysTheirOwn
<1>13. NoneForgotten(c)'
  <2>1. \A p \in 1..LastBegun'[c] : p \in 1..LastBegun[c] \/ p = enqPrf[c]
    BY <1>3, <1>9
  <2>2. \A k \in Busy[c] : workItems'[c][k] = workItems[c][k]
    BY <1>3, <1>6, <1>8
  <2> QED
    BY <1>1, <1>3, <1>5, <1>6, <1>8, <1>9, <2>1, <2>2 DEF Answering, NoneForgotten
<1>14. Answering(c)'
  BY <1>1, <1>3, <1>9, <1>11, <1>12, <1>13 DEF Answering, Reading, AtRest
<1>15. OthersRead(c)
  BY <1>1, <1>6, <1>3 DEF OthersRead, ReadTypeOK
<1> QED
  BY <1>7, <1>14, <1>15, OneReads

(* Going on, looking on and waiting leave the work items alone.            *)
LEMMA ReaderMovesKeeps ==
  ASSUME Answered, NEW c \in Clients,
         Enqueued(c) \/ StartScan(c) \/ PassOver(c) \/ WaitForKey(c) \/ WrongPassword(c)
  PROVE  Answered'
<1>1. /\ UNCHANGED <<running, spc, workItems, queuedItems, answer, tried, target, late>>
      /\ reader' = [reader EXCEPT ![c] = reader'[c]] /\ enqPrf' = [enqPrf EXCEPT ![c] = enqPrf'[c]]
      /\ \/ reader[c] = "enqueued" /\ enqPrf[c] < MaxDerivations /\ reader'[c] = "loop"
            /\ enqPrf'[c] = enqPrf[c] + 1
         \/ reader[c] = "enqueued" /\ ~(enqPrf[c] < MaxDerivations) /\ reader'[c] = "scan"
            /\ enqPrf'[c] = enqPrf[c]
         \/ reader[c] = "loop" /\ reader'[c] = "scan" /\ MoreToTry(c) /\ ~MayEnqueue(c)
            /\ enqPrf'[c] = enqPrf[c] - 1
         \/ reader[c] \in {"scan", "wait"} /\ reader'[c] \in {"scan", "wait"}
            /\ enqPrf'[c] = enqPrf[c]
         \/ reader[c] = "loop" /\ reader'[c] = "finish" /\ ~MoreToTry(c)
            /\ enqPrf'[c] = enqPrf[c]
  BY DEF Enqueued, StartScan, PassOver, WaitForKey, WrongPassword, ReaderGoto, vars, stopVars,
     Answered, ReadTypeOK
<1>2. /\ Answering(c) /\ ReadTypeOK /\ enqPrf[c] \in 0..MaxDerivations + 1
      /\ enqPrf[c] \in Int /\ MaxDerivations \in Nat /\ ThreadCount >= 2 /\ ThreadCount \in Nat
      /\ queuedItems[c] \in Int
  BY ReaderFacts, PrfFacts DEF Answered
<1>3. /\ reader'[c] \in {"loop", "scan", "wait", "finish"}
      /\ enqPrf'[c] \in 0..MaxDerivations + 1
      /\ reader[c] \in {"idle", "loop"} => enqPrf[c] >= 1
      /\ reader[c] \in {"enqueued", "scan", "wait"} => enqPrf[c] <= MaxDerivations
  BY <1>1, <1>2, SMTT(60) DEF Answering, ItemsCounted
<1>4. at' \in [Clients -> Prfs] /\ keyCompleted' \in [Clients -> BOOLEAN]
  <2>1. /\ at[c] \in Prfs /\ 1 \in Prfs
        /\ at[c] # MaxDerivations => at[c] + 1 \in Prfs
    BY <1>2, ReaderFacts, PrfFacts DEF Prfs
  <2>2. /\ \/ at' = at
           \/ at' = [at EXCEPT ![c] = 1]
           \/ at[c] # MaxDerivations /\ at' = [at EXCEPT ![c] = at[c] + 1]
        /\ \/ keyCompleted' = keyCompleted
           \/ keyCompleted' = [keyCompleted EXCEPT ![c] = FALSE]
    BY DEF Enqueued, StartScan, PassOver, WaitForKey, WrongPassword
  <2>3. at \in [Clients -> Prfs] /\ keyCompleted \in [Clients -> BOOLEAN]
    BY <1>2 DEF ReadTypeOK
  <2>4. at' \in [Clients -> Prfs]
    BY <2>1, <2>2, <2>3, UpdateType
  <2>5. keyCompleted' \in [Clients -> BOOLEAN]
    BY <2>2, <2>3
  <2> QED
    BY <2>4, <2>5
<1>5. ReadTypeOK'
  <2>1. reader' \in [Clients -> {"idle", "loop", "enqueued", "scan", "wait", "finish", "done"}]
    BY <1>1, <1>2, <1>3 DEF ReadTypeOK
  <2>2. enqPrf' \in [Clients -> 0..MaxDerivations + 1]
    BY <1>1, <1>2, <1>3 DEF ReadTypeOK
  <2> QED
    BY <1>1, <1>2, <1>4, <2>1, <2>2 DEF ReadTypeOK
<1>6. /\ Busy'[c] = Busy[c] /\ IsFiniteSet(Busy[c])
      /\ reader'[c] # "finish" => LastBegun'[c] = LastBegun[c]
      /\ reader'[c] = "finish" => LastBegun[c] = enqPrf[c] - 1 /\ LastBegun'[c] = enqPrf[c]
  <2>1. Busy'[c] = Busy[c] /\ IsFiniteSet(Busy[c])
    BY <1>1, <1>2, ReaderFacts DEF Busy
  <2> QED
    BY <1>1, <1>2, <2>1 DEF LastBegun
<1>7. ItemsCounted(c)'
  <2>1. LastBegun[c] \in Int /\ LastBegun'[c] \in Int /\ LastBegun[c] <= LastBegun'[c]
    BY <1>2, <1>6 DEF LastBegun
  <2>2. \A i \in Busy'[c] : workItems'[c][i].prf \in 1..LastBegun'[c]
    BY <1>1, <1>2, <1>6, <2>1 DEF Answering, ItemsCounted
  <2>3. /\ reader'[c] \in {"idle", "loop", "done"} => enqPrf'[c] >= 1
        /\ reader'[c] \in {"enqueued", "scan", "wait"} => enqPrf'[c] <= MaxDerivations
    BY <1>1, <1>2, <1>3
  <2>4. answer[c] = 0
    BY <1>1, <1>2 DEF Answering, ItemsCounted
  <2> QED
    BY <1>1, <1>2, <1>6, <2>2, <2>3, <2>4 DEF Answering, ItemsCounted
<1>8. KeysTheirOwn(c)' /\ NoneForgotten(c)' /\ AtRest(c)'
  BY <1>1, <1>2, <1>3, <1>6 DEF Answering, KeysTheirOwn, NoneForgotten, AtRest
<1>9. ASSUME reader'[c] = "finish" PROVE answer[c] = 0 /\ tried[c] = Prfs
  <2>1. reader[c] = "loop" /\ ~MoreToTry(c)
    BY <1>1, <1>9
  <2>2. LastBegun[c] = MaxDerivations /\ queuedItems[c] = 0
    <3>1. enqPrf[c] = MaxDerivations + 1 /\ ~(queuedItems[c] > 0)
      BY <1>2, <2>1 DEF MoreToTry
    <3> QED
      BY <1>2, <1>6, <1>9, <3>1, ReaderFacts DEF ReadTypeOK
  <2>3. Busy[c] = {}
    BY <1>2, <1>6, <2>2, FS_EmptySet DEF Answering, ItemsCounted
  <2>4. \A p \in Prfs : p \in tried[c]
    BY <1>2, <2>1, <2>2, <2>3 DEF Answering, NoneForgotten, Prfs
  <2> QED
    BY <1>2, <2>1, <2>4, ReaderFacts, ZenonT(60) DEF Answering, ItemsCounted
<1>10. Answering(c)'
  <2>1. Reading(c)
    BY <1>1 DEF Reading
  <2> QED
    BY <1>1, <1>2, <1>7, <1>8, <1>9, <2>1 DEF Answering, Reading
<1>11. OthersRead(c)
  BY <1>1, <1>2 DEF OthersRead, ReadTypeOK
<1> QED
  BY <1>5, <1>10, <1>11, OneReads

(* A key is tried once; its work item is free again.                       *)
LEMMA TryKeyKeeps ==
  ASSUME Answered, NEW c \in Clients, NEW fits \in BOOLEAN, TryKey(c, fits)
  PROVE  Answered'
<1> DEFINE i == at[c]
           it == [workItems[c][i] EXCEPT !.free = TRUE]
<1>1. /\ reader[c] = "scan" /\ reader' = [reader EXCEPT ![c] = IF fits THEN "finish" ELSE "loop"]
      /\ workItems' = [workItems EXCEPT ![c][i] = it]
      /\ queuedItems' = [queuedItems EXCEPT ![c] = @ - 1]
      /\ enqPrf' = [enqPrf EXCEPT ![c] = IF fits THEN @ ELSE @ + 1]
      /\ answer' = [answer EXCEPT ![c] = IF fits THEN workItems[c][i].prf ELSE 0]
      /\ tried' = [tried EXCEPT ![c] = @ \cup {workItems[c][i].key}]
      /\ UNCHANGED <<at, target, keyCompleted, late>>
      /\ UNCHANGED <<running, spc>>
      /\ ~workItems[c][i].free /\ workItems[c][i].ready
  BY DEF TryKey, ReaderGoto, KeyReady, vars, stopVars
<1>2. /\ Answering(c) /\ ReadTypeOK /\ enqPrf[c] \in Int /\ queuedItems[c] \in 0..ThreadCount
      /\ workItems[c] \in [Prfs -> WorkItem] /\ i \in Prfs /\ tried[c] \subseteq Prfs
      /\ Busy[c] = {k \in Prfs : ~workItems[c][k].free} /\ IsFiniteSet(Busy[c])
      /\ Cardinality(Busy[c]) \in Nat /\ Reading(c)
      /\ MaxDerivations \in Nat
  BY <1>1, ReaderFacts, PrfFacts DEF Answered, Reading
<1>3. i \in Busy[c] /\ enqPrf[c] \in 0..MaxDerivations /\ LastBegun[c] = enqPrf[c]
  BY <1>1, <1>2, ReaderFacts DEF Answering, ItemsCounted, LastBegun
<1>4. /\ workItems[c][i].prf \in 1..enqPrf[c] /\ workItems[c][i].prf \in Prfs
      /\ workItems[c][i].key = workItems[c][i].prf /\ workItems[c][i].prf # 0
  BY <1>1, <1>2, <1>3 DEF Answering, ItemsCounted, KeysTheirOwn, Prfs
<1>5. it \in WorkItem /\ it.free /\ it.ready /\ it.prf = it.key
  BY <1>1, <1>2, <1>4 DEF WorkItem
<1> HIDE DEF it
<1>6. /\ workItems'[c] \in [Prfs -> WorkItem] /\ workItems'[c][i] = it
      /\ \A k \in Prfs : k # i => workItems'[c][k] = workItems[c][k]
      /\ \A d \in Clients : d # c => workItems'[d] = workItems[d]
      /\ workItems' \in [Clients -> [Prfs -> WorkItem]]
  BY <1>1, <1>2, <1>5 DEF ReadTypeOK, WorkItem
<1>7. /\ reader'[c] = (IF fits THEN "finish" ELSE "loop")
      /\ enqPrf'[c] = (IF fits THEN enqPrf[c] ELSE enqPrf[c] + 1)
      /\ queuedItems'[c] = queuedItems[c] - 1
      /\ answer'[c] = (IF fits THEN workItems[c][i].prf ELSE 0)
      /\ tried'[c] = tried[c] \cup {workItems[c][i].prf}
  BY <1>1, <1>2, <1>4 DEF ReadTypeOK
<1>8. Busy'[c] = Busy[c] \ {i} /\ LastBegun'[c] = LastBegun[c]
  <2>1. Busy'[c] = Busy[c] \ {i}
    BY <1>2, <1>5, <1>6 DEF Busy
  <2> QED
    BY <1>2, <1>3, <1>7, <2>1 DEF LastBegun
<1>9. Cardinality(Busy'[c]) = Cardinality(Busy[c]) - 1 /\ Cardinality(Busy'[c]) \in Nat
  <2>1. IsFiniteSet(Busy[c] \ {i}) /\ Cardinality(Busy[c] \ {i}) = Cardinality(Busy[c]) - 1
    BY <1>2, <1>3, FS_RemoveElement
  <2>2. Cardinality(Busy[c] \ {i}) \in Nat
    BY <2>1, FS_CardinalityType
  <2> QED
    BY <1>8, <2>1, <2>2
<1>10. queuedItems'[c] = Cardinality(Busy'[c]) /\ queuedItems'[c] \in 0..ThreadCount
  <2>1. queuedItems[c] = Cardinality(Busy[c])
    BY <1>2 DEF Answering, ItemsCounted
  <2> QED
    BY <1>2, <1>7, <1>9, <2>1, PrfFacts
<1>11. ReadTypeOK'
  <2>1. /\ reader' \in [Clients -> {"idle", "loop", "enqueued", "scan", "wait", "finish", "done"}]
        /\ answer' \in [Clients -> Prfs \cup {0}] /\ tried' \in [Clients -> SUBSET Prfs]
    BY <1>1, <1>2, <1>4 DEF ReadTypeOK
  <2>2. enqPrf' \in [Clients -> 0..MaxDerivations + 1]
    BY <1>1, <1>2, <1>3, <1>7 DEF ReadTypeOK
  <2>3. queuedItems' \in [Clients -> 0..ThreadCount]
    BY <1>1, <1>2, <1>10 DEF ReadTypeOK
  <2> QED
    BY <1>1, <1>2, <1>6, <2>1, <2>2, <2>3 DEF ReadTypeOK, WorkItem
<1>12. ItemsCounted(c)'
  <2>1. \A k \in Busy'[c] : k \in Busy[c] /\ workItems'[c][k] = workItems[c][k]
    BY <1>2, <1>6, <1>8
  <2>2. /\ \A k \in Busy'[c] : workItems'[c][k].prf \in 1..LastBegun'[c]
        /\ \A k, l \in Busy'[c] : workItems'[c][k].prf = workItems'[c][l].prf => k = l
    BY <1>2, <1>8, <2>1 DEF Answering, ItemsCounted
  <2>3. reader'[c] \in {"idle", "loop", "done"} => enqPrf'[c] >= 1
    BY <1>2, <1>3, <1>7
  <2> QED
    BY <1>7, <1>10, <2>2, <2>3 DEF ItemsCounted
<1>13. KeysTheirOwn(c)'
  BY <1>2, <1>5, <1>6 DEF Answering, KeysTheirOwn
<1>14. NoneForgotten(c)'
  <2>1. \A k \in Busy[c] : k # i => k \in Busy'[c] /\ workItems'[c][k] = workItems[c][k]
    BY <1>2, <1>6, <1>8
  <2> QED
    BY <1>1, <1>2, <1>7, <1>8, <2>1 DEF Answering, NoneForgotten
<1>15. Answering(c)'
  BY <1>1, <1>2, <1>4, <1>7, <1>12, <1>13, <1>14 DEF Answering, Reading, AtRest
<1>16. OthersRead(c)
  BY <1>1, <1>2, <1>6 DEF OthersRead, ReadTypeOK
<1> QED
  BY <1>11, <1>15, <1>16, OneReads

(* The end of a read leaves nothing of it, and the next finds that.        *)
LEMMA FinishKeeps ==
  ASSUME Answered, NEW c \in Clients, Finish(c)
  PROVE  Answered'
<1>1. /\ reader' = [reader EXCEPT ![c] = "done"]
      /\ enqPrf' = [enqPrf EXCEPT ![c] = 1] /\ at' = [at EXCEPT ![c] = 1]
      /\ queuedItems' = [queuedItems EXCEPT ![c] = 0]
      /\ workItems' = [workItems EXCEPT ![c] = [i \in Prfs |-> FreeItem]]
      /\ keyCompleted' = [keyCompleted EXCEPT ![c] = FALSE]
      /\ answer' = [answer EXCEPT ![c] = 0] /\ tried' = [tried EXCEPT ![c] = {}]
      /\ UNCHANGED <<target, late, running, spc>>
  BY DEF Finish, ReaderGoto, BeginReadVolumeHeaderFinalization, stopVars
<1>2. ReadTypeOK /\ Answering(c)
  BY DEF Answered
<1>3. FreeItem \in WorkItem /\ FreeItem.free /\ ~FreeItem.ready
  BY DEF FreeItem, WorkItem
<1>4. ReadTypeOK'
  <2>1. workItems' \in [Clients -> [Prfs -> WorkItem]]
    BY <1>1, <1>2, <1>3 DEF ReadTypeOK, WorkItem
  <2> QED
    BY <1>1, <1>2, <2>1, PrfFacts DEF ReadTypeOK, WorkItem
<1>5. /\ reader'[c] = "done" /\ enqPrf'[c] = 1 /\ queuedItems'[c] = 0 /\ answer'[c] = 0
      /\ workItems'[c] = [i \in Prfs |-> FreeItem]
  BY <1>1, <1>2 DEF ReadTypeOK
<1>6. Busy'[c] = {} /\ LastBegun'[c] = 0
  BY <1>3, <1>5 DEF Busy, LastBegun
<1>7. Answering(c)'
  BY <1>3, <1>5, <1>6, FS_EmptySet DEF Answering, Reading, ItemsCounted, KeysTheirOwn,
     NoneForgotten, AtRest
<1>8. OthersRead(c)
  BY <1>1, <1>2 DEF OthersRead, ReadTypeOK
<1> QED
  BY <1>4, <1>7, <1>8, OneReads

(* A read begins while the pool is at work.                                *)
LEMMA OpenHeaderKeeps ==
  ASSUME Answered, NEW c \in Clients, OpenHeader(c)
  PROVE  Answered'
<1>1. /\ running /\ spc = "idle" /\ reader[c] = "idle" /\ reader' = [reader EXCEPT ![c] = "loop"]
      /\ UNCHANGED <<running, spc, enqPrf, queuedItems, at, workItems, target, keyCompleted,
                     answer, tried, late>>
  BY DEF OpenHeader, ReaderGoto, vars, stopVars
<1>2. ReadTypeOK /\ Answering(c)
  BY DEF Answered
<1>3. ReadTypeOK'
  BY <1>1, <1>2 DEF ReadTypeOK
<1>4. reader'[c] = "loop" /\ Busy'[c] = Busy[c] /\ LastBegun'[c] = LastBegun[c]
  BY <1>1, <1>2 DEF ReadTypeOK, Busy, LastBegun
<1>5. Answering(c)'
  BY <1>1, <1>2, <1>4 DEF Answering, Reading, ItemsCounted, KeysTheirOwn, NoneForgotten, AtRest
<1>6. OthersRead(c)
  BY <1>1, <1>2 DEF OthersRead, ReadTypeOK
<1> QED
  BY <1>3, <1>5, <1>6, OneReads

(* A thread leaves a key in the work item it was derived for.              *)
LEMMA DeriveReadKeeps ==
  ASSUME ControlInv, Answered, NEW w \in Workers, DeriveRead(w)
  PROVE  Answered'
<1> SUFFICES ASSUME NEW c, NEW i, c = item[wslot[w]].owner, i = target[wslot[w]]
             PROVE  Answered'
  OBVIOUS
<1> DEFINE it == [workItems[c][i] EXCEPT !.key = workItems[c][i].prf, !.ready = TRUE]
<1>1. /\ UNCHANGED <<running, spc, reader, enqPrf, queuedItems, at, keyCompleted, answer, tried,
                     late>>
      /\ target' = [target EXCEPT ![wslot[w]] = 1]
      /\ workItems' = IF ~Reading(c) THEN workItems
                      ELSE [workItems EXCEPT ![c][i].key = workItems[c][i].prf,
                                             ![c][i].ready = TRUE]
  BY DEF DeriveRead, WorkerDerive, stopVars
<1>2. /\ ReadTypeOK /\ wslot[w] \in Slots /\ i \in Prfs /\ 1 \in Prfs
  BY PrfFacts DEF Answered, ReadTypeOK, ControlInv, TypeOK
<1>3. target' \in [Slots -> Prfs]
  BY <1>1, <1>2 DEF ReadTypeOK
<1>4. CASE ~(Reading(c) /\ c \in Clients)
  <2>1. workItems' = workItems
    <3>1. CASE ~Reading(c)
      BY <1>1, <3>1
    <3>2. CASE c \notin Clients
      <4>1. DOMAIN workItems = Clients
        BY <1>2 DEF ReadTypeOK
      <4>2. \A v : [workItems EXCEPT ![c] = v] = workItems
        BY <1>2, <3>2 DEF ReadTypeOK
      <4> QED
        BY <1>1, <4>2
    <3> QED
      BY <1>4, <3>1, <3>2
  <2>2. ReadTypeOK'
    BY <1>1, <1>2, <1>3, <2>1 DEF ReadTypeOK
  <2>3. Busy' = Busy /\ LastBegun' = LastBegun
    BY <1>1, <2>1 DEF Busy, LastBegun
  <2>4. ASSUME NEW d \in Clients PROVE Answering(d)'
    <3>1. Answering(d)
      BY DEF Answered
    <3> QED
      BY <1>1, <2>1, <2>3, <3>1, ZenonT(60) DEF Answering, Reading, ItemsCounted, KeysTheirOwn,
         NoneForgotten, AtRest
  <2> QED
    BY <2>2, <2>4 DEF Answered
<1>5. CASE Reading(c) /\ c \in Clients
  <2>1. Answering(c) /\ workItems[c] \in [Prfs -> WorkItem] /\ Busy[c] \subseteq Prfs
    BY <1>5, ReaderFacts DEF Answered
  <2>2. /\ it \in WorkItem /\ it.key = it.prf /\ it.prf = workItems[c][i].prf
        /\ it.free = workItems[c][i].free
    <3>1. workItems[c][i] \in WorkItem
      BY <1>2, <2>1
    <3>2. workItems[c][i].prf \in Prfs \cup {0}
      BY <3>1 DEF WorkItem
    <3> QED
      BY <3>1, <3>2 DEF WorkItem
  <2>3. workItems' = [workItems EXCEPT ![c][i] = it]
    BY <1>1, <1>2, <1>5, ZenonT(30) DEF ReadTypeOK
  <2> HIDE DEF it
  <2>4. /\ workItems'[c] \in [Prfs -> WorkItem] /\ workItems'[c][i] = it
        /\ \A k \in Prfs : k # i => workItems'[c][k] = workItems[c][k]
        /\ \A d \in Clients : d # c => workItems'[d] = workItems[d]
        /\ workItems' \in [Clients -> [Prfs -> WorkItem]]
    BY <1>2, <1>5, <2>1, <2>2, <2>3 DEF ReadTypeOK, WorkItem
  <2>5. ReadTypeOK'
    BY <1>1, <1>2, <1>3, <2>4 DEF ReadTypeOK, WorkItem
  <2>6. \A k \in Prfs : /\ workItems'[c][k].free = workItems[c][k].free
                        /\ workItems'[c][k].prf = workItems[c][k].prf
    BY <2>2, <2>4
  <2>7. Busy'[c] = Busy[c] /\ LastBegun' = LastBegun
    <3>1. {k \in Prfs : ~workItems'[c][k].free} = {k \in Prfs : ~workItems[c][k].free}
      BY <2>6
    <3>2. Busy'[c] = Busy[c]
      BY <1>5, <3>1 DEF Busy
    <3> QED
      BY <1>1, <3>2 DEF LastBegun
  <2>8. KeysTheirOwn(c)'
    BY <2>1, <2>2, <2>4 DEF Answering, KeysTheirOwn
  <2>9. Answering(c)'
    <3>1. UNCHANGED <<running, spc, reader, enqPrf, queuedItems, answer, tried>>
      BY <1>1
    <3>2. \A k \in Busy[c] : workItems'[c][k].prf = workItems[c][k].prf
      BY <2>1, <2>6
    <3>3. ItemsCounted(c)'
      <4>1. /\ queuedItems'[c] = Cardinality(Busy'[c])
            /\ \A k \in Busy'[c] : workItems'[c][k].prf \in 1..LastBegun'[c]
        BY <2>1, <2>7, <3>1, <3>2 DEF Answering, ItemsCounted
      <4>2. \A k, l \in Busy'[c] : workItems'[c][k].prf = workItems'[c][l].prf => k = l
        BY <2>1, <2>7, <3>1, <3>2, ZenonT(60) DEF Answering, ItemsCounted
      <4> QED
        BY <2>1, <3>1, <4>1, <4>2 DEF Answering, ItemsCounted
    <3>4. NoneForgotten(c)'
      <4>1. SUFFICES ASSUME reader'[c] # "finish", NEW p \in 1..LastBegun'[c]
                     PROVE  \/ p \in tried'[c]
                            \/ \E k \in Busy'[c] : workItems'[c][k].prf = p
        BY DEF NoneForgotten
      <4>2. p \in tried[c] \/ \E k \in Busy[c] : workItems[c][k].prf = p
        BY <2>1, <2>7, <3>1, <4>1 DEF Answering, NoneForgotten
      <4> QED
        BY <2>7, <3>1, <3>2, <4>2
    <3>5. AtRest(c)'
      BY <2>1, <2>7, <3>1 DEF Answering, AtRest
    <3> QED
      BY <2>1, <2>8, <3>1, <3>3, <3>4, <3>5 DEF Answering, Reading
  <2>10. OthersRead(c)
    BY <1>1, <2>4 DEF OthersRead
  <2> QED
    BY <1>5, <2>5, <2>9, <2>10, OneReads
<1> QED
  BY <1>4, <1>5

(* The pool's own steps leave a read alone, and go on while there is one.  *)
LEMMA PoolStepKeeps ==
  ASSUME ControlInv, Answered,
         PoolStep \/ (\E w \in Workers : RaiseRead(w))
         \/ (\E c \in Clients : FillRead(c) \/ ClearRead(c)) \/ UNCHANGED allVars
  PROVE  Answered'
<1>1. /\ UNCHANGED <<reader, enqPrf, queuedItems, at, workItems, answer, tried>>
      /\ ReadTypeOK'
  <2>1. CASE PoolStep \/ UNCHANGED allVars
    BY <2>1 DEF PoolStep, allVars, readVars, Answered, ReadTypeOK
  <2>2. CASE \E w \in Workers : RaiseRead(w)
    BY <2>2 DEF RaiseRead, KeyEvent, Answered, ReadTypeOK
  <2>3. ASSUME NEW c \in Clients, FillRead(c)
        PROVE  /\ UNCHANGED <<reader, enqPrf, queuedItems, at, workItems, answer, tried>>
               /\ ReadTypeOK'
    BY <2>3 DEF FillRead, Answered, ReadTypeOK, ControlInv, TypeOK
  <2>4. ASSUME NEW c \in Clients, ClearRead(c)
        PROVE  /\ UNCHANGED <<reader, enqPrf, queuedItems, at, workItems, answer, tried>>
               /\ ReadTypeOK'
    BY <2>4 DEF ClearRead, Answered, ReadTypeOK
  <2> QED
    BY <2>1, <2>2, <2>3, <2>4
<1>2. ASSUME NEW c \in Clients, Reading(c) PROVE UNCHANGED <<running, spc>>
  <2>1. running /\ spc = "idle"
    BY <1>2 DEF Answered, Answering
  <2> QED
    BY <1>2, <2>1, ZenonT(60) DEF PoolStep, RaiseRead, FillRead, ClearRead, allVars, vars,
       stopVars, Start,
       StartFails, StopBegin, StopSignal, StopJoin, Worker, WorkerOnCall, WorkerOnHeader,
       WorkerLoop, WorkerDequeue, WorkerTake, WorkerNotReady, WorkerWait, WorkerDispatch,
       WorkerCrypt, WorkerFree, WorkerSignalFree, WorkerAccount, WorkerSignalItem, WorkerDerive,
       WorkerRaise, WorkerCountDown, WorkerSignalNone, WorkerFinalizeWait, WorkerBurn, DoWork,
       Inside, InsideCall, InsideHeader, CryptInline, Lock, SetFragmentCount, SlotBusy, WaitSlot,
       Fill, SetReady, Notify, Unlock, Await, FreeFirst, SignalFirst, Return,
       IncrementOutstanding, ClearNoOutstanding
<1>3. Busy' = Busy /\ LastBegun' = LastBegun
  BY <1>1 DEF Busy, LastBegun
<1> QED
  BY <1>1, <1>2, <1>3 DEF Answered, Answering, Reading, ItemsCounted, KeysTheirOwn,
     NoneForgotten, AtRest

(* The steps of a read are steps of the pool.                              *)
LEMMA ReadIsPool ==
  ASSUME Answered, [ReadNext]_allVars
  PROVE  [Next]_vars
<1>1. ASSUME NEW c \in Clients, Enqueue(c) \/ Finish(c) PROVE Next
  <2>1. Reading(c)
    BY <1>1 DEF Enqueue, Finish, ReaderGoto, Reading
  <2>2. EnterHeader(c)
    BY <1>1, <2>1 DEF Enqueue, Finish, EnterHeader, Answered, Answering
  <2> QED
    BY <2>2 DEF Next, HeaderNext
<1>2. ASSUME NEW c \in Clients,
             \/ Enqueued(c) \/ StartScan(c) \/ PassOver(c) \/ WaitForKey(c)
             \/ (\E fits \in BOOLEAN : TryKey(c, fits)) \/ WrongPassword(c) \/ OpenHeader(c)
      PROVE  UNCHANGED vars
  BY <1>2 DEF Enqueued, StartScan, PassOver, WaitForKey, TryKey, WrongPassword, OpenHeader
<1>3. ASSUME NEW c \in Clients, FillRead(c) \/ ClearRead(c) PROVE Next
  BY <1>3 DEF FillRead, ClearRead, Next, CallNext, HeaderNext, InsideCall, InsideHeader
<1>4. ASSUME NEW w \in Workers, DeriveRead(w) \/ RaiseRead(w) PROVE Next
  BY <1>4 DEF DeriveRead, RaiseRead, Next, HeaderNext, WorkerOnHeader
<1>5. ASSUME PoolStep PROVE Next
  BY <1>5 DEF PoolStep, Next, CallNext, HeaderNext, Worker, Inside, EnterCall
<1>6. ASSUME UNCHANGED allVars PROVE UNCHANGED vars
  BY <1>6 DEF allVars
<1> QED
  BY <1>1, <1>2, <1>3, <1>4, <1>5, <1>6 DEF ReadNext, Reader

(* Every step keeps the answers right.                                     *)
LEMMA AnsweredStep ==
  ASSUME ControlInv, Answered, [ReadNext]_allVars
  PROVE  Answered'
BY EnqueueKeeps, ReaderMovesKeeps, TryKeyKeeps, FinishKeeps, OpenHeaderKeeps, DeriveReadKeeps,
   PoolStepKeeps DEF ReadNext, Reader

(* At first nobody reads.                                                  *)
LEMMA AnsweredInit == ReadInit => Answered
<1> SUFFICES ASSUME ReadInit PROVE Answered
  OBVIOUS
<1>1. FreeItem \in WorkItem /\ FreeItem.free /\ ~FreeItem.ready
  BY DEF FreeItem, WorkItem
<1>2. ReadTypeOK
  BY <1>1, PrfFacts DEF ReadInit, ReadTypeOK, WorkItem
<1>3. ASSUME NEW c \in Clients PROVE Answering(c)
  <2>1. /\ reader[c] = "idle" /\ enqPrf[c] = 1 /\ queuedItems[c] = 0 /\ answer[c] = 0
        /\ workItems[c] = [i \in Prfs |-> FreeItem]
    BY DEF ReadInit
  <2>2. Busy[c] = {} /\ LastBegun[c] = 0
    BY <1>1, <2>1 DEF Busy, LastBegun
  <2> QED
    BY <1>1, <2>1, <2>2, FS_EmptySet DEF Answering, Reading, ItemsCounted, KeysTheirOwn,
       NoneForgotten, AtRest
<1> QED
  BY <1>2, <1>3 DEF Answered

(* The pool under a read is the pool, its control and its ring.            *)
LEMMA ReadsInOrder == ReadSpec => [](ControlInv /\ Ring /\ Answered)
<1>1. ReadInit => ControlInv /\ Ring /\ Answered
  BY ControlInit, RingInit, AnsweredInit DEF ReadInit
<1>2. ControlInv /\ Ring /\ Answered /\ [ReadNext]_allVars => (ControlInv /\ Ring /\ Answered)'
  <2> SUFFICES ASSUME ControlInv, Ring, Answered, [ReadNext]_allVars
               PROVE  (ControlInv /\ Ring /\ Answered)'
    OBVIOUS
  <2>1. [Next]_vars
    BY ReadIsPool
  <2>2. ControlInv'
    BY <2>1, TypeStep, QuietStep, TypedStep, OneWaiterPerEventStep DEF ControlInv
  <2> QED
    BY <2>1, <2>2, RingStep, AnsweredStep
<1> QED
  BY <1>1, <1>2, PTL DEF ReadSpec

-----------------------------------------------------------------------------
(* The end.                                                                *)

(* What the slots offer and what the threads are about, as far as header   *)
(* reads are concerned, and for whom.                                      *)
Nothing == <<"none", NoThread>>
HeaderWorks == {"derive", "signal", "finalize", "burn"}
Offer == [s \in Slots |->
  IF state[s] = "Ready" /\ item[s].type \in HeaderWorks
  THEN <<item[s].type, item[s].owner>> ELSE Nothing]
Task == [w \in Workers |->
  IF wpc[w] \in {"derive", "raise", "countDown"} THEN <<"derive", item[wslot[w]].owner>>
  ELSE IF wpc[w] = "signalNone" THEN <<"signal", item[wslot[w]].owner>>
  ELSE IF wpc[w] \in {"finalize", "burn"} THEN <<wpc[w], item[wslot[w]].owner>>
  ELSE IF wpc[w] = "taken" /\ ~stopPending /\ item[wslot[w]].type \in HeaderWorks
       THEN <<item[wslot[w]].type, item[wslot[w]].owner>>
  ELSE Nothing]

(* A client's derivations: those offered, those that threads have, and the *)
(* one that is counted and not offered yet; and the threads that have      *)
(* counted the last one down and not said so.                              *)
Queued == [c \in Clients |-> {s \in Slots : Offer[s] = <<"derive", c>>}]
Deriving == [c \in Clients |-> {w \in Workers : Task[w] = <<"derive", c>>}]
Coming == [c \in Clients |->
  IF call[c].type = "derive" /\ cpc[c] \in {"clear", "ready"} THEN 1 ELSE 0]
Signalling == [c \in Clients |-> {w \in Workers : Task[w] = <<"signal", c>>}]

(* A client derives as long as it has not finished, and finishes once.     *)
Leaving == Outside \cup {"signal"}
Phases(c) ==
  /\ cpc[c] \in Leaving => call[c].type \notin {"derive", "finalize"}
  /\ call[c].type = "derive" => header[c] = "open"
  /\ call[c].type = "finalize" => header[c] \in {"closing", "closed"}
  /\ \A s \in Slots : Offer[s] = <<"finalize", c>> => header[c] \in {"closing", "closed"}
  /\ \A w \in Workers : Task[w] \in {<<"finalize", c>>, <<"burn", c>>} =>
       header[c] \in {"closing", "closed"}

(* Every derivation is counted, ...                                        *)
DerivationsCounted(c) ==
  outstanding[c] >= Cardinality(Queued[c]) + Cardinality(Deriving[c]) + Coming[c]

(* ... one thread at most is about to say that there are none, ...         *)
Announced(c) ==
  ~late[c] =>
    /\ \A v, w \in Signalling[c] : v = w
    /\ Signalling[c] # {} => ~noOutstanding[c]
    /\ cpc[c] # "clear" /\ (noOutstanding[c] \/ Signalling[c] # {}) => outstanding[c] = 0

(* ... and when that has been heard there are none any more.               *)
Over(c) ==
  ~late[c] /\ (header[c] = "closed" \/ \E w \in Workers : Task[w] = <<"burn", c>>) =>
    outstanding[c] = 0 /\ Signalling[c] = {}

Ending(c) == Phases(c) /\ DerivationsCounted(c) /\ Announced(c) /\ Over(c)
Ended == \A c \in Clients : Ending(c)

(* A client's derivations are finitely many.                               *)
LEMMA EndFacts ==
  ASSUME NEW c \in Clients
  PROVE  /\ Queued[c] \subseteq Slots /\ IsFiniteSet(Queued[c]) /\ Cardinality(Queued[c]) \in Nat
         /\ Deriving[c] \subseteq Workers /\ IsFiniteSet(Deriving[c])
         /\ Cardinality(Deriving[c]) \in Nat
         /\ Coming[c] \in {0, 1}
<1>1. Queued[c] \in SUBSET Slots /\ Deriving[c] \in SUBSET Workers /\ Coming[c] \in {0, 1}
  BY DEF Queued, Deriving, Coming
<1>2. IsFiniteSet(Slots)
  BY PoolAssumption, FS_Interval DEF Slots
<1>3. IsFiniteSet(Workers)
  BY PoolAssumption
<1>4. IsFiniteSet(Queued[c]) /\ IsFiniteSet(Deriving[c])
  BY <1>1, <1>2, <1>3, FS_Subset
<1> QED
  BY <1>1, <1>4, FS_CardinalityType

(* What a step leaves alone of a client's read: nothing new is offered or  *)
(* begun for it.                                                           *)
EndKept(d) ==
  /\ header'[d] = header[d] /\ outstanding'[d] = outstanding[d]
  /\ noOutstanding'[d] = noOutstanding[d] /\ late'[d] = late[d]
  /\ \A s \in Slots : \A k \in HeaderWorks : Offer'[s] = <<k, d>> => Offer[s] = <<k, d>>
  /\ \A w \in Workers : \A k \in HeaderWorks : Task'[w] = <<k, d>> =>
       Task[w] = <<k, d>> \/ (k = "finalize" /\ \E s \in Slots : Offer[s] = <<k, d>>)
  /\ Coming'[d] = Coming[d] /\ (cpc'[d] = "clear" <=> cpc[d] = "clear")
  /\ call'[d].type \in {call[d].type, "none", "crypt"}
  /\ cpc'[d] \in Leaving => call'[d].type \notin {"derive", "finalize"}

(* The sets of a client after a step, by definition.                       *)
LEMMA EndPrimed ==
  ASSUME NEW d \in Clients
  PROVE  /\ Queued'[d] = {s \in Slots : Offer'[s] = <<"derive", d>>}
         /\ Deriving'[d] = {w \in Workers : Task'[w] = <<"derive", d>>}
         /\ Signalling'[d] = {w \in Workers : Task'[w] = <<"signal", d>>}
  BY DEF Queued, Deriving, Signalling

(* Such a step keeps the order of that read's end.                         *)
LEMMA EndKeeps ==
  ASSUME TypeOK, NEW d \in Clients, Ending(d), EndKept(d)
  PROVE  Ending(d)'
<1>1. Queued'[d] \subseteq Queued[d] /\ Deriving'[d] \subseteq Deriving[d]
      /\ Signalling'[d] \subseteq Signalling[d]
  <2>1. /\ \A s \in Slots : Offer'[s] = <<"derive", d>> => Offer[s] = <<"derive", d>>
        /\ \A w \in Workers : Task'[w] = <<"derive", d>> => Task[w] = <<"derive", d>>
        /\ \A w \in Workers : Task'[w] = <<"signal", d>> => Task[w] = <<"signal", d>>
    BY DEF EndKept, HeaderWorks
  <2>2. /\ Queued[d] = {s \in Slots : Offer[s] = <<"derive", d>>}
        /\ Deriving[d] = {w \in Workers : Task[w] = <<"derive", d>>}
        /\ Signalling[d] = {w \in Workers : Task[w] = <<"signal", d>>}
    BY DEF Queued, Deriving, Signalling
  <2> QED
    BY <2>1, <2>2, EndPrimed
<1>2. /\ Cardinality(Queued'[d]) \in Nat /\ Cardinality(Deriving'[d]) \in Nat
      /\ Cardinality(Queued'[d]) <= Cardinality(Queued[d])
      /\ Cardinality(Deriving'[d]) <= Cardinality(Deriving[d])
  <2>1. IsFiniteSet(Queued[d]) /\ IsFiniteSet(Deriving[d])
    BY EndFacts
  <2>2. /\ IsFiniteSet(Queued'[d]) /\ Cardinality(Queued'[d]) <= Cardinality(Queued[d])
        /\ IsFiniteSet(Deriving'[d]) /\ Cardinality(Deriving'[d]) <= Cardinality(Deriving[d])
    BY <1>1, <2>1, FS_Subset
  <2> QED
    BY <2>2, FS_CardinalityType
<1>3. Phases(d)'
  BY DEF Ending, EndKept, Phases, HeaderWorks
<1>4. DerivationsCounted(d)'
  <2>1. /\ outstanding'[d] = outstanding[d] /\ outstanding[d] \in Int
        /\ Coming'[d] = Coming[d] /\ DerivationsCounted(d)
    BY DEF EndKept, Ending, TypeOK
  <2> QED
    BY <1>2, <2>1, EndFacts DEF DerivationsCounted
<1>5. Announced(d)'
  BY <1>1 DEF Ending, EndKept, Announced
<1>6. Over(d)'
  BY <1>1 DEF Ending, EndKept, Over, HeaderWorks
<1> QED
  BY <1>3, <1>4, <1>5, <1>6 DEF Ending

(* A slot offers as long as its state and its item stay.                   *)
LEMMA OfferKept ==
  ASSUME NEW s \in Slots, state'[s] = "Ready" => state[s] = "Ready" /\ item'[s] = item[s],
         NEW k \in HeaderWorks, NEW d \in Clients, Offer'[s] = <<k, d>>
  PROVE  Offer[s] = <<k, d>>
<1>1. <<k, d>> # Nothing
  BY PoolAssumption DEF Nothing, HeaderWorks
<1>2. Offer'[s] = IF state'[s] = "Ready" /\ item'[s].type \in HeaderWorks
                  THEN <<item'[s].type, item'[s].owner>> ELSE Nothing
  BY DEF Offer, Nothing
<1>3. Offer[s] = IF state[s] = "Ready" /\ item[s].type \in HeaderWorks
                 THEN <<item[s].type, item[s].owner>> ELSE Nothing
  BY DEF Offer
<1> QED
  BY <1>1, <1>2, <1>3

(* A thread's task.                                                        *)
TaskOf(pc, stopped, it) ==
  IF pc \in {"derive", "raise", "countDown"} THEN <<"derive", it.owner>>
  ELSE IF pc = "signalNone" THEN <<"signal", it.owner>>
  ELSE IF pc \in {"finalize", "burn"} THEN <<pc, it.owner>>
  ELSE IF pc = "taken" /\ ~stopped /\ it.type \in HeaderWorks THEN <<it.type, it.owner>>
  ELSE Nothing

(* It depends on where the thread is and on the item in its slot.          *)
LEMMA TaskFacts ==
  ASSUME NEW w \in Workers
  PROVE  /\ Task[w] = TaskOf(wpc[w], stopPending, item[wslot[w]])
         /\ Task'[w] = TaskOf(wpc'[w], stopPending', item'[wslot'[w]])
<1>1. Task[w] = TaskOf(wpc[w], stopPending, item[wslot[w]])
  BY DEF Task, TaskOf, Nothing
<1>2. Task'[w] = TaskOf(wpc'[w], stopPending', item'[wslot'[w]])
  BY DEF Task, TaskOf, Nothing
<1> QED
  BY <1>1, <1>2

(* Nothing is nobody's.                                                    *)
LEMMA NothingFacts ==
  ASSUME NEW d \in Clients, NEW k
  PROVE  <<k, d>> # Nothing
  BY PoolAssumption DEF Nothing

(* A step of a thread, or of Stop, that is not about a header read: it may *)
(* drop what a thread has, or what is offered.                             *)
Unrelated ==
  /\ UNCHANGED <<item, cpc, call, header, outstanding, noOutstanding, late>>
  /\ \A w \in Workers : Task'[w] \in {Task[w], Nothing}
  /\ \A s \in Slots : state'[s] = "Ready" => state[s] = "Ready"

(* What a client has in the pool is unchanged.                             *)
LEMMA ComingKept ==
  ASSUME NEW d \in Clients, cpc'[d] = cpc[d], call'[d] = call[d]
  PROVE  Coming'[d] = Coming[d]
  BY DEF Coming

(* It keeps the order of every read's end.                                 *)
LEMMA UnrelatedKeeps ==
  ASSUME ControlInv, Ended, Unrelated
  PROVE  Ended'
<1>1. ASSUME NEW d \in Clients PROVE Ending(d)'
  <2>1. Ending(d) /\ TypeOK
    BY DEF Ended, ControlInv
  <2>2. \A s \in Slots : \A k \in HeaderWorks : Offer'[s] = <<k, d>> => Offer[s] = <<k, d>>
    BY OfferKept DEF Unrelated
  <2>3. \A w \in Workers : \A k \in HeaderWorks : Task'[w] = <<k, d>> => Task[w] = <<k, d>>
    BY NothingFacts DEF Unrelated
  <2>4. Coming'[d] = Coming[d]
    BY ComingKept DEF Unrelated
  <2>5. EndKept(d)
    BY <2>1, <2>2, <2>3, <2>4 DEF EndKept, Unrelated, Ending, Phases
  <2> QED
    BY <2>1, <2>5, EndKeeps
<1> QED
  BY <1>1 DEF Ended

(* Most steps of Stop and of the threads are like that.                    *)
LEMMA StopStepsUnrelated ==
  ASSUME ControlInv, StopBegin \/ StopSignal \/ StopJoin, late' = late
  PROVE  Unrelated
<1>1. /\ UNCHANGED <<item, cpc, call, header, outstanding, noOutstanding, state, wpc, wslot>>
      /\ stopPending => stopPending'
  BY DEF StopBegin, StopSignal, StopJoin, ringVars, slotVars, workerVars, clientVars, headerVars
<1>2. ASSUME NEW w \in Workers PROVE Task'[w] \in {Task[w], Nothing}
  BY <1>1, TaskFacts DEF TaskOf
<1> QED
  BY <1>1, <1>2 DEF Unrelated

(* What a thread does that a read's end has to do with, and all the rest.  *)
LEMMA WorkerSteps ==
  ASSUME ControlInv, NEW w \in Workers, Worker(w)
  PROVE  /\ UNCHANGED <<item, cpc, call, stopPending>>
         /\ \A v \in Workers : v # w => wpc'[v] = wpc[v] /\ wslot'[v] = wslot[v]
         /\ \/ WorkerTake(w) \/ WorkerCountDown(w) \/ WorkerSignalNone(w)
            \/ WorkerFinalizeWait(w) \/ WorkerBurn(w)
            \/ /\ UNCHANGED <<header, outstanding, noOutstanding>>
               /\ Task'[w] \in {Task[w], Nothing}
               /\ \A s \in Slots : state'[s] = "Ready" => state[s] = "Ready"
<1> USE DEF stopVars, ringVars, slotVars, workerVars, clientVars, dataVars, headerVars
<1>1. TypeOK /\ Typed
  BY DEF ControlInv
<1>2. /\ UNCHANGED <<item, cpc, call, stopPending>>
      /\ \A v \in Workers : v # w => wpc'[v] = wpc[v] /\ wslot'[v] = wslot[v]
  BY <1>1 DEF TypeOK, Worker, WorkerOnCall, WorkerOnHeader, WorkerGoto,
     WorkerLoop, WorkerDequeue, WorkerTake, WorkerNotReady, WorkerWait, WorkerDispatch,
     WorkerCrypt, WorkerFree, WorkerSignalFree, WorkerAccount, WorkerSignalItem, WorkerDerive,
     WorkerRaise, WorkerCountDown, WorkerSignalNone, WorkerFinalizeWait, WorkerBurn
<1>3. ASSUME \/ WorkerLoop(w) \/ WorkerDequeue(w) \/ WorkerNotReady(w) \/ WorkerWait(w)
             \/ WorkerDispatch(w) \/ WorkerCrypt(w) \/ WorkerSignalFree(w, "signalFragment", "account")
             \/ WorkerAccount(w) \/ WorkerSignalItem(w) \/ WorkerDerive(w) \/ WorkerRaise(w)
             \/ WorkerSignalFree(w, "signalFree", "loop")
      PROVE  /\ UNCHANGED <<header, outstanding, noOutstanding, state>>
             /\ \/ {wpc[w], wpc'[w]} \cap {"taken", "derive", "raise", "countDown", "signalNone",
                                           "finalize", "burn"} = {}
                \/ /\ {wpc[w], wpc'[w]} \subseteq {"derive", "raise", "countDown"}
                   /\ wslot'[w] = wslot[w]
                \/ /\ wpc[w] = "taken" /\ wslot'[w] = wslot[w]
                   /\ wpc'[w] = IF stopPending THEN "off" ELSE item[wslot[w]].type
  <2>1. CASE WorkerLoop(w) \/ WorkerDequeue(w) \/ WorkerNotReady(w) \/ WorkerWait(w)
    BY <1>1, <2>1, SMTT(60) DEF TypeOK, WorkerGoto, WorkerLoop, WorkerDequeue, WorkerNotReady,
       WorkerWait
  <2>2. CASE WorkerDispatch(w)
    BY <1>1, <2>2, SMTT(60) DEF TypeOK, WorkerGoto, WorkerDispatch
  <2>3. CASE WorkerCrypt(w) \/ WorkerAccount(w) \/ WorkerSignalItem(w)
    BY <1>1, <2>3, SMTT(60) DEF TypeOK, WorkerGoto, WorkerCrypt, AfterCrypt, WorkerAccount,
       WorkerSignalItem
  <2>4. CASE \/ WorkerSignalFree(w, "signalFragment", "account")
             \/ WorkerSignalFree(w, "signalFree", "loop")
    BY <1>1, <2>4, SMTT(60) DEF TypeOK, WorkerGoto, WorkerSignalFree
  <2>5. CASE WorkerDerive(w) \/ WorkerRaise(w)
    BY <1>1, <2>5, SMTT(60) DEF TypeOK, WorkerGoto, WorkerDerive, WorkerRaise
  <2> QED
    BY <1>3, <2>1, <2>2, <2>3, <2>4, <2>5
<1>4. ASSUME WorkerFree(w, "freeFragment", "signalFragment") \/ WorkerFree(w, "free", "signalFree")
      PROVE  /\ UNCHANGED <<header, outstanding, noOutstanding>>
             /\ {wpc[w], wpc'[w]} \cap {"taken", "derive", "raise", "countDown", "signalNone",
                                        "finalize", "burn"} = {}
             /\ \A s \in Slots : state'[s] = "Ready" => state[s] = "Ready"
  BY <1>1, <1>4 DEF TypeOK, WorkerGoto, WorkerFree
<1>5. /\ wpc[w] = "taken" /\ ~stopPending => item[wslot[w]].type \in {"crypt", "derive", "finalize"}
  BY <1>1 DEF Typed, WorkTypes
<1>6. ASSUME \/ {wpc[w], wpc'[w]} \cap {"taken", "derive", "raise", "countDown", "signalNone",
                                        "finalize", "burn"} = {}
             \/ /\ {wpc[w], wpc'[w]} \subseteq {"derive", "raise", "countDown"}
                /\ wslot'[w] = wslot[w]
             \/ /\ wpc[w] = "taken" /\ wslot'[w] = wslot[w]
                /\ wpc'[w] = IF stopPending THEN "off" ELSE item[wslot[w]].type
      PROVE  Task'[w] \in {Task[w], Nothing}
  BY <1>2, <1>5, <1>6, TaskFacts, ZenonT(60) DEF TaskOf, HeaderWorks
<1> QED
  BY <1>2, <1>3, <1>4, <1>6 DEF Worker, WorkerOnCall, WorkerOnHeader

(* The other clients, when a step is about one.                            *)
LEMMA OneEnds ==
  ASSUME ControlInv, Ended, NEW o, \A d \in Clients : d # o => EndKept(d),
         o \in Clients => Ending(o)'
  PROVE  Ended'
<1>1. ASSUME NEW d \in Clients PROVE Ending(d)'
  <2>1. CASE d = o
    BY <2>1
  <2>2. CASE d # o
    <3>1. EndKept(d) /\ Ending(d) /\ TypeOK
      BY <2>2 DEF Ended, ControlInv
    <3> QED
      BY <3>1, EndKeeps
  <2> QED
    BY <2>1, <2>2
<1> QED
  BY <1>1 DEF Ended

(* A thread's step is about the client whose item it has.                  *)
LEMMA WorkerEnds ==
  ASSUME ControlInv, Ended, NEW w \in Workers, NEW o,
         UNCHANGED <<item, cpc, call, stopPending>>,
         \A v \in Workers : v # w => wpc'[v] = wpc[v] /\ wslot'[v] = wslot[v],
         \A s \in Slots : state'[s] = "Ready" => state[s] = "Ready",
         \A d \in Clients : d # o =>
           /\ header'[d] = header[d] /\ outstanding'[d] = outstanding[d]
           /\ noOutstanding'[d] = noOutstanding[d] /\ late'[d] = late[d],
         \A d \in Clients : \A k \in HeaderWorks : d # o => Task'[w] # <<k, d>>
  PROVE  /\ \A d \in Clients : d # o => EndKept(d)
         /\ \A v \in Workers : v # w => Task'[v] = Task[v]
         /\ \A d \in Clients : Coming'[d] = Coming[d]
<1>1. ASSUME NEW v \in Workers, v # w PROVE Task'[v] = Task[v]
  BY <1>1, TaskFacts
<1>2. ASSUME NEW d \in Clients PROVE Coming'[d] = Coming[d]
  BY ComingKept
<1>3. ASSUME NEW d \in Clients, d # o PROVE EndKept(d)
  <2>1. \A s \in Slots : \A k \in HeaderWorks : Offer'[s] = <<k, d>> => Offer[s] = <<k, d>>
    BY OfferKept
  <2>2. \A v \in Workers : \A k \in HeaderWorks : Task'[v] = <<k, d>> => Task[v] = <<k, d>>
    BY <1>1, <1>3
  <2> QED
    BY <1>2, <1>3, <2>1, <2>2 DEF EndKept, Ended, Ending, Phases
<1> QED
  BY <1>1, <1>2, <1>3

(* A derivation that is taken changes hands.                               *)
LEMMA WorkerTakeEnds ==
  ASSUME ControlInv, Ended, NEW w \in Workers, WorkerTake(w), late' = late
  PROVE  Ended'
<1> SUFFICES ASSUME NEW s, s = wslot[w] PROVE Ended'
  OBVIOUS
<1> SUFFICES ASSUME NEW o, o = item[s].owner PROVE Ended'
  OBVIOUS
<1>1. /\ UNCHANGED <<item, cpc, call, stopPending, wslot, header, outstanding, noOutstanding>>
      /\ \A v \in Workers : v # w => wpc'[v] = wpc[v]
      /\ wpc[w] = "check" /\ wpc'[w] = "taken" /\ s \in Slots
      /\ \A t \in Slots : state'[t] = IF t = s THEN "Busy" ELSE state[t]
      /\ stopPending \/ state[s] = "Ready"
  BY DEF WorkerTake, WorkerGoto, stopVars, clientVars, headerVars, ControlInv, TypeOK
<1>2. Task[w] = Nothing
  BY <1>1, TaskFacts DEF TaskOf
<1>3. CASE stopPending \/ item[s].type \notin HeaderWorks
  <2>1. Task'[w] = Nothing
    BY <1>1, <1>3, TaskFacts DEF TaskOf
  <2>2. \A v \in Workers : v # w => Task'[v] = Task[v]
    BY <1>1, TaskFacts
  <2>3. Unrelated
    BY <1>1, <2>1, <2>2 DEF Unrelated
  <2> QED
    BY <2>3, UnrelatedKeeps
<1>4. CASE ~stopPending /\ item[s].type \in HeaderWorks
  <2>1. item[s].type \in {"derive", "finalize"} /\ state[s] = "Ready"
    BY <1>1, <1>4 DEF ControlInv, Typed, WorkTypes, HeaderWorks
  <2>2. Task'[w] = <<item[s].type, o>>
    BY <1>1, <1>4, <2>1, TaskFacts DEF TaskOf
  <2>3. Offer[s] = <<item[s].type, o>> /\ Offer'[s] = Nothing
    BY <1>1, <1>4, <2>1 DEF Offer, Nothing
  <2>4. /\ \A d \in Clients : d # o => EndKept(d)
        /\ \A v \in Workers : v # w => Task'[v] = Task[v]
        /\ \A d \in Clients : Coming'[d] = Coming[d]
    BY <1>1, <2>2, WorkerEnds
  <2>5. ASSUME NEW t \in Slots, t # s PROVE Offer'[t] = Offer[t]
    BY <1>1, <2>5 DEF Offer
  <2>6. ASSUME o \in Clients PROVE Ending(o)'
    <3>1. Ending(o) /\ TypeOK
      BY <2>6 DEF Ended, ControlInv
    <3>2. CASE item[s].type = "finalize"
      <4>1. EndKept(o)
        <5>1. \A t \in Slots : \A k \in HeaderWorks : Offer'[t] = <<k, o>> => Offer[t] = <<k, o>>
          BY <1>1, <2>6, OfferKept
        <5>2. \A v \in Workers : \A k \in HeaderWorks : Task'[v] = <<k, o>> =>
                Task[v] = <<k, o>> \/ (k = "finalize" /\ \E t \in Slots : Offer[t] = <<k, o>>)
          BY <1>1, <2>2, <2>3, <2>4, <3>2
        <5> QED
          BY <1>1, <2>4, <2>6, <3>1, <5>1, <5>2 DEF EndKept, Ending, Phases
      <4> QED
        BY <2>6, <3>1, <4>1, EndKeeps
    <3>3. CASE item[s].type = "derive"
      <4>1. /\ Queued'[o] = Queued[o] \ {s} /\ s \in Queued[o]
            /\ Deriving'[o] = Deriving[o] \cup {w} /\ w \notin Deriving[o]
            /\ Signalling'[o] = Signalling[o]
        <5>1. <<"derive", o>> # Nothing /\ <<"signal", o>> # Nothing
          BY <2>6, NothingFacts
        <5>2. /\ \A t \in Slots :
                   (Offer'[t] = <<"derive", o>>) <=> (t # s /\ Offer[t] = <<"derive", o>>)
              /\ \A v \in Workers :
                   (Task'[v] = <<"derive", o>>) <=> (v = w \/ Task[v] = <<"derive", o>>)
              /\ \A v \in Workers : (Task'[v] = <<"signal", o>>) <=> (Task[v] = <<"signal", o>>)
          BY <1>1, <1>2, <2>2, <2>3, <2>4, <2>5, <3>3, <5>1
        <5>3. s \in Queued[o] /\ w \notin Deriving[o]
          BY <1>1, <1>2, <2>3, <2>6, <3>3, <5>1 DEF Queued, Deriving
        <5>4. /\ Queued[o] = {t \in Slots : Offer[t] = <<"derive", o>>}
              /\ Deriving[o] = {v \in Workers : Task[v] = <<"derive", o>>}
              /\ Signalling[o] = {v \in Workers : Task[v] = <<"signal", o>>}
          BY <2>6 DEF Queued, Deriving, Signalling
        <5>5. Queued'[o] = Queued[o] \ {s}
          BY <2>6, <5>2, <5>4, EndPrimed
        <5>6. Deriving'[o] = Deriving[o] \cup {w}
          BY <2>6, <5>2, <5>4, EndPrimed
        <5>7. Signalling'[o] = Signalling[o]
          BY <2>6, <5>2, <5>4, EndPrimed
        <5> QED
          BY <5>3, <5>5, <5>6, <5>7
      <4>2. /\ Cardinality(Queued'[o]) = Cardinality(Queued[o]) - 1
            /\ Cardinality(Deriving'[o]) = Cardinality(Deriving[o]) + 1
        <5>1. /\ Cardinality(Queued[o] \ {s}) = Cardinality(Queued[o]) - 1
              /\ Cardinality(Deriving[o] \cup {w}) = Cardinality(Deriving[o]) + 1
          BY <2>6, <4>1, EndFacts, FS_AddElement, FS_RemoveElement
        <5> QED
          BY <4>1, <5>1
      <4>3. Phases(o)'
        <5>1. \A t \in Slots : Offer'[t] = <<"finalize", o>> => Offer[t] = <<"finalize", o>>
          BY <2>3, <2>5, <2>6, NothingFacts
        <5>2. \A v \in Workers : Task'[v] \in {<<"finalize", o>>, <<"burn", o>>} => Task'[v] = Task[v]
          BY <2>2, <2>4, <3>3
        <5> QED
          BY <1>1, <3>1, <5>1, <5>2 DEF Ending, Phases
      <4>4. DerivationsCounted(o)'
        <5>1. DerivationsCounted(o) /\ outstanding'[o] = outstanding[o] /\ outstanding[o] \in Int
          BY <1>1, <2>6, <3>1 DEF Ending, TypeOK
        <5> QED
          BY <2>4, <2>6, <4>2, <5>1, EndFacts DEF DerivationsCounted
      <4>5. Announced(o)'
        BY <1>1, <3>1, <4>1 DEF Ending, Announced
      <4>6. Over(o)'
        <5>1. \A v \in Workers : Task'[v] = <<"burn", o>> => Task[v] = <<"burn", o>>
          BY <2>2, <2>4, <3>3
        <5> QED
          BY <1>1, <3>1, <4>1, <5>1 DEF Ending, Over
      <4> QED
        BY <4>3, <4>4, <4>5, <4>6 DEF Ending
    <3> QED
      BY <2>1, <3>2, <3>3
  <2> QED
    BY <2>4, <2>6, OneEnds
<1> QED
  BY <1>3, <1>4

(* A thread that counts down, speaks up, waits or burns.                   *)
AtEnd(w, from, to) ==
  /\ UNCHANGED <<item, cpc, call, stopPending, state, wslot, late>>
  /\ \A v \in Workers : v # w => wpc'[v] = wpc[v]
  /\ wpc[w] = from /\ wpc'[w] = to

(* It has an item, and is in no other client's sets.                       *)
LEMMA AtEndFacts ==
  ASSUME NEW w \in Workers, NEW o \in Clients, NEW from, NEW to, AtEnd(w, from, to)
  PROVE  /\ \A v \in Workers : v # w => Task'[v] = Task[v]
         /\ Offer' = Offer /\ Queued' = Queued /\ Coming' = Coming
         /\ Deriving'[o] = {v \in Workers : IF v = w THEN Task'[w] = <<"derive", o>>
                                            ELSE v \in Deriving[o]}
         /\ Signalling'[o] = {v \in Workers : IF v = w THEN Task'[w] = <<"signal", o>>
                                              ELSE v \in Signalling[o]}
<1>1. ASSUME NEW v \in Workers, v # w PROVE Task'[v] = Task[v]
  BY <1>1, TaskFacts DEF AtEnd
<1>2. Offer' = Offer /\ Coming' = Coming
  BY DEF AtEnd, Offer, Coming
<1>3. Queued' = Queued
  BY <1>2 DEF Queued
<1>4. Deriving'[o] = {v \in Workers : IF v = w THEN Task'[w] = <<"derive", o>>
                                      ELSE v \in Deriving[o]}
  <2>1. \A v \in Workers : v \in Deriving[o] <=> Task[v] = <<"derive", o>>
    BY DEF Deriving
  <2> QED
    BY <1>1, <2>1, EndPrimed
<1>5. Signalling'[o] = {v \in Workers : IF v = w THEN Task'[w] = <<"signal", o>>
                                        ELSE v \in Signalling[o]}
  <2>1. \A v \in Workers : v \in Signalling[o] <=> Task[v] = <<"signal", o>>
    BY DEF Signalling
  <2> QED
    BY <1>1, <2>1, EndPrimed
<1> QED
  BY <1>1, <1>2, <1>3, <1>4, <1>5

(* Its step is about the client whose item it has.                         *)
LEMMA AtEndOthers ==
  ASSUME ControlInv, Ended, NEW w \in Workers, NEW o, NEW from, NEW to, AtEnd(w, from, to),
         \A d \in Clients : d # o =>
           /\ header'[d] = header[d] /\ outstanding'[d] = outstanding[d]
           /\ noOutstanding'[d] = noOutstanding[d],
         Task'[w] = Nothing \/ \E k \in HeaderWorks : Task'[w] = <<k, o>>
  PROVE  \A d \in Clients : d # o => EndKept(d)
<1>1. \A d \in Clients : \A k \in HeaderWorks : d # o => Task'[w] # <<k, d>>
  <2>1. \A d \in Clients : \A k \in HeaderWorks : Nothing # <<k, d>>
    BY NothingFacts
  <2> QED
    BY <2>1
<1>2. /\ UNCHANGED <<item, cpc, call, stopPending>>
      /\ \A v \in Workers : v # w => wpc'[v] = wpc[v] /\ wslot'[v] = wslot[v]
      /\ \A s \in Slots : state'[s] = "Ready" => state[s] = "Ready"
      /\ \A d \in Clients : late'[d] = late[d]
  BY DEF AtEnd
<1> QED
  BY <1>1, <1>2, WorkerEnds

(* The thread that counts the last derivation down is the one to say so.   *)
LEMMA WorkerCountDownEnds ==
  ASSUME ControlInv, Ring, Ended, NEW w \in Workers, WorkerCountDown(w), late' = late
  PROVE  Ended'
<1> SUFFICES ASSUME NEW o, o = item[wslot[w]].owner PROVE Ended'
  OBVIOUS
<1> DEFINE to == IF outstanding[o] = 1 THEN "signalNone" ELSE "free"
<1>1. /\ AtEnd(w, "countDown", to)
      /\ outstanding' = [outstanding EXCEPT ![o] = @ - 1]
      /\ UNCHANGED <<header, noOutstanding>>
  BY DEF WorkerCountDown, LastOutstanding, WorkerGoto, AtEnd, stopVars, ringVars, slotVars,
     clientVars, ControlInv, TypeOK
<1>2. /\ Task[w] = <<"derive", o>>
      /\ Task'[w] = IF outstanding[o] = 1 THEN <<"signal", o>> ELSE Nothing
  BY <1>1, TaskFacts DEF AtEnd, TaskOf
<1> HIDE DEF to
<1>3. \A d \in Clients : d # o => EndKept(d)
  <2>1. \A d \in Clients : d # o => outstanding'[d] = outstanding[d]
    BY <1>1 DEF ControlInv, TypeOK
  <2>2. Task'[w] = Nothing \/ \E k \in HeaderWorks : Task'[w] = <<k, o>>
    BY <1>2 DEF HeaderWorks
  <2> QED
    BY <1>1, <2>1, <2>2, AtEndOthers
<1>4. ASSUME o \in Clients PROVE Ending(o)'
  <2>1. /\ Ending(o) /\ outstanding[o] \in Int /\ outstanding'[o] = outstanding[o] - 1
        /\ cpc' = cpc /\ call' = call /\ late' = late
    BY <1>1, <1>4 DEF Ended, ControlInv, TypeOK, AtEnd
  <2>2. /\ \A v \in Workers : v # w => Task'[v] = Task[v]
        /\ Offer' = Offer /\ Queued' = Queued /\ Coming' = Coming
        /\ Deriving'[o] = Deriving[o] \ {w} /\ w \in Deriving[o]
        /\ Signalling'[o] = IF outstanding[o] = 1 THEN Signalling[o] \cup {w} ELSE Signalling[o]
    <3>1. <<"signal", o>> # <<"derive", o>> /\ Nothing # <<"derive", o>> /\ Nothing # <<"signal", o>>
      BY <1>4, NothingFacts
    <3>2. /\ w \in Deriving[o] /\ Deriving[o] \subseteq Workers
          /\ w \notin Signalling[o] /\ Signalling[o] \subseteq Workers
      BY <1>2, <1>4, <3>1 DEF Deriving, Signalling
    <3>3. /\ \A v \in Workers : v # w => Task'[v] = Task[v]
          /\ Offer' = Offer /\ Queued' = Queued /\ Coming' = Coming
          /\ Deriving'[o] = {v \in Workers : IF v = w THEN Task'[w] = <<"derive", o>>
                                             ELSE v \in Deriving[o]}
          /\ Signalling'[o] = {v \in Workers : IF v = w THEN Task'[w] = <<"signal", o>>
                                               ELSE v \in Signalling[o]}
      BY <1>1, <1>4, AtEndFacts
    <3>4. Deriving'[o] = Deriving[o] \ {w}
      BY <1>2, <3>1, <3>2, <3>3
    <3>5. Signalling'[o] = IF outstanding[o] = 1 THEN Signalling[o] \cup {w} ELSE Signalling[o]
      BY <1>2, <3>1, <3>2, <3>3
    <3> QED
      BY <3>2, <3>3, <3>4, <3>5
  <2>3. /\ Cardinality(Deriving'[o]) = Cardinality(Deriving[o]) - 1
        /\ Cardinality(Deriving'[o]) \in Nat
    <3>1. /\ Cardinality(Deriving[o] \ {w}) = Cardinality(Deriving[o]) - 1
          /\ IsFiniteSet(Deriving[o] \ {w})
      BY <1>4, <2>2, EndFacts, FS_RemoveElement
    <3> QED
      BY <2>2, <3>1, FS_CardinalityType
  <2>4. Coming[o] \in {0, 1} /\ Cardinality(Queued[o]) \in Nat /\ Cardinality(Deriving[o]) \in Nat
    BY <1>4, EndFacts
  <2>5. outstanding[o] >= 1 /\ (Coming[o] = 1 => outstanding[o] >= 2)
    BY <2>1, <2>3, <2>4 DEF Ending, DerivationsCounted
  <2>6. Phases(o)'
    <3>1. Phases(o) /\ header' = header
      BY <1>1, <2>1 DEF Ending
    <3>2. Task'[w] \notin {<<"finalize", o>>, <<"burn", o>>}
      BY <1>2, <1>4, NothingFacts
    <3>3. \A v \in Workers : Task'[v] \in {<<"finalize", o>>, <<"burn", o>>} =>
            Task[v] \in {<<"finalize", o>>, <<"burn", o>>}
      BY <2>2, <3>2
    <3> QED
      BY <2>1, <2>2, <3>1, <3>3 DEF Phases
  <2>7. DerivationsCounted(o)'
    <3>1. outstanding[o] >= Cardinality(Queued[o]) + Cardinality(Deriving[o]) + Coming[o]
      BY <2>1 DEF Ending, DerivationsCounted
    <3>2. outstanding[o] - 1 >= Cardinality(Queued[o]) + Cardinality(Deriving'[o]) + Coming[o]
      BY <2>1, <2>3, <2>4, <3>1
    <3> QED
      BY <2>1, <2>2, <3>2 DEF DerivationsCounted
  <2>8. Announced(o)'
    <3>1. cpc[o] = "clear" => outstanding[o] # 1
      <4>1. ASSUME cpc[o] = "clear" PROVE Coming[o] = 1
        <5>1. o \in Filling
          BY <1>4, <4>1 DEF Filling
        <5>2. call[o].type = "derive"
          BY <4>1, <5>1 DEF Ring, Filled
        <5> QED
          BY <1>4, <4>1, <5>2 DEF Coming
      <4> QED
        BY <2>1, <2>5, <4>1
    <3>2. CASE outstanding[o] = 1
      <4>1. ~late[o] => Signalling[o] = {} /\ ~noOutstanding[o]
        BY <2>1, <3>1, <3>2 DEF Ending, Announced
      <4> QED
        BY <1>1, <2>1, <2>2, <3>2, <4>1 DEF Announced
    <3>3. CASE outstanding[o] # 1
      <4>1. Signalling'[o] = Signalling[o] /\ noOutstanding' = noOutstanding
        BY <1>1, <2>2, <3>3
      <4>2. ~late[o] /\ cpc[o] # "clear" => ~noOutstanding[o] /\ Signalling[o] = {}
        BY <2>1, <2>5 DEF Ending, Announced
      <4> QED
        BY <2>1, <4>1, <4>2 DEF Ending, Announced
    <3> QED
      BY <3>2, <3>3
  <2>9. Over(o)'
    <3>1. \A v \in Workers : Task'[v] = <<"burn", o>> => Task[v] = <<"burn", o>>
      BY <1>2, <1>4, <2>2, NothingFacts
    <3> QED
      BY <1>1, <2>1, <2>5, <3>1 DEF Ending, Over
  <2> QED
    BY <2>6, <2>7, <2>8, <2>9 DEF Ending
<1> QED
  BY <1>3, <1>4, OneEnds

(* It is the only one.                                                     *)
LEMMA WorkerSignalNoneEnds ==
  ASSUME ControlInv, Ended, NEW w \in Workers, WorkerSignalNone(w), late' = late
  PROVE  Ended'
<1> SUFFICES ASSUME NEW o, o = item[wslot[w]].owner PROVE Ended'
  OBVIOUS
<1>1. /\ AtEnd(w, "signalNone", "free")
      /\ noOutstanding' = [noOutstanding EXCEPT ![o] = TRUE]
      /\ UNCHANGED <<header, outstanding>>
  BY DEF WorkerSignalNone, WorkerGoto, AtEnd, stopVars, ringVars, slotVars, clientVars,
     ControlInv, TypeOK
<1>2. Task[w] = <<"signal", o>> /\ Task'[w] = Nothing
  BY <1>1, TaskFacts DEF AtEnd, TaskOf
<1>3. \A d \in Clients : d # o => EndKept(d)
  <2>1. \A d \in Clients : d # o => noOutstanding'[d] = noOutstanding[d]
    BY <1>1 DEF ControlInv, TypeOK
  <2> QED
    BY <1>1, <1>2, <2>1, AtEndOthers
<1>4. ASSUME o \in Clients PROVE Ending(o)'
  <2>1. Ending(o) /\ cpc' = cpc /\ call' = call /\ late' = late
    BY <1>1, <1>4 DEF Ended, AtEnd
  <2>2. /\ \A v \in Workers : v # w => Task'[v] = Task[v]
        /\ Offer' = Offer /\ Queued' = Queued /\ Coming' = Coming
        /\ Deriving'[o] = Deriving[o]
        /\ Signalling'[o] = Signalling[o] \ {w} /\ w \in Signalling[o]
    <3>1. <<"signal", o>> # <<"derive", o>> /\ Nothing # <<"derive", o>> /\ Nothing # <<"signal", o>>
      BY <1>4, NothingFacts
    <3>2. /\ w \notin Deriving[o] /\ Deriving[o] \subseteq Workers
          /\ w \in Signalling[o] /\ Signalling[o] \subseteq Workers
      BY <1>2, <1>4, <3>1 DEF Deriving, Signalling
    <3>3. /\ \A v \in Workers : v # w => Task'[v] = Task[v]
          /\ Offer' = Offer /\ Queued' = Queued /\ Coming' = Coming
          /\ Deriving'[o] = {v \in Workers : IF v = w THEN Task'[w] = <<"derive", o>>
                                             ELSE v \in Deriving[o]}
          /\ Signalling'[o] = {v \in Workers : IF v = w THEN Task'[w] = <<"signal", o>>
                                               ELSE v \in Signalling[o]}
      BY <1>1, <1>4, AtEndFacts
    <3>4. Deriving'[o] = Deriving[o]
      BY <1>2, <3>1, <3>2, <3>3
    <3>5. Signalling'[o] = Signalling[o] \ {w}
      BY <1>2, <3>1, <3>2, <3>3
    <3> QED
      BY <3>2, <3>3, <3>4, <3>5
  <2>3. Phases(o)'
    BY <1>1, <1>2, <2>1, <2>2, <1>4, NothingFacts DEF Ending, Phases
  <2>4. DerivationsCounted(o)'
    BY <1>1, <2>1, <2>2 DEF Ending, DerivationsCounted
  <2>5. ~late[o] => Signalling'[o] = {}
    BY <2>1, <2>2 DEF Ending, Announced
  <2>6. Announced(o)'
    BY <1>1, <2>1, <2>2, <2>5 DEF Ending, Announced
  <2>7. Over(o)'
    <3>1. \A v \in Workers : Task'[v] = <<"burn", o>> => Task[v] = <<"burn", o>>
      BY <1>2, <1>4, <2>2, NothingFacts
    <3> QED
      BY <1>1, <2>1, <2>2, <2>5, <3>1 DEF Ending, Over
  <2> QED
    BY <2>3, <2>4, <2>6, <2>7 DEF Ending
<1> QED
  BY <1>3, <1>4, OneEnds

(* Who waits for it, in the last work item, hears it when nothing is left. *)
LEMMA WorkerFinalizeWaitEnds ==
  ASSUME ControlInv, Ring, Ended, NEW w \in Workers, WorkerFinalizeWait(w), late' = late
  PROVE  Ended'
<1> SUFFICES ASSUME NEW o, o = item[wslot[w]].owner PROVE Ended'
  OBVIOUS
<1>1. /\ AtEnd(w, "finalize", "burn") /\ noOutstanding[o]
      /\ noOutstanding' = [noOutstanding EXCEPT ![o] = FALSE]
      /\ UNCHANGED <<header, outstanding>>
  BY DEF WorkerFinalizeWait, WorkerGoto, AtEnd, stopVars, ringVars, slotVars, clientVars,
     ControlInv, TypeOK
<1>2. Task[w] = <<"finalize", o>> /\ Task'[w] = <<"burn", o>>
  BY <1>1, TaskFacts DEF AtEnd, TaskOf
<1>3. \A d \in Clients : d # o => EndKept(d)
  <2>1. \A d \in Clients : d # o => noOutstanding'[d] = noOutstanding[d]
    BY <1>1 DEF ControlInv, TypeOK
  <2>2. \E k \in HeaderWorks : Task'[w] = <<k, o>>
    BY <1>2 DEF HeaderWorks
  <2> QED
    BY <1>1, <2>1, <2>2, AtEndOthers
<1>4. ASSUME o \in Clients PROVE Ending(o)'
  <2>1. /\ Ending(o) /\ cpc' = cpc /\ call' = call /\ late' = late
        /\ ~noOutstanding'[o]
    BY <1>1, <1>4 DEF Ended, AtEnd, ControlInv, TypeOK
  <2>2. /\ \A v \in Workers : v # w => Task'[v] = Task[v]
        /\ Offer' = Offer /\ Queued' = Queued /\ Coming' = Coming
        /\ Deriving'[o] = Deriving[o] /\ Signalling'[o] = Signalling[o]
    <3>1. /\ <<"finalize", o>> # <<"derive", o>> /\ <<"finalize", o>> # <<"signal", o>>
          /\ <<"burn", o>> # <<"derive", o>> /\ <<"burn", o>> # <<"signal", o>>
      OBVIOUS
    <3>2. /\ w \notin Deriving[o] /\ Deriving[o] \subseteq Workers
          /\ w \notin Signalling[o] /\ Signalling[o] \subseteq Workers
      BY <1>2, <1>4, <3>1 DEF Deriving, Signalling
    <3>3. /\ \A v \in Workers : v # w => Task'[v] = Task[v]
          /\ Offer' = Offer /\ Queued' = Queued /\ Coming' = Coming
          /\ Deriving'[o] = {v \in Workers : IF v = w THEN Task'[w] = <<"derive", o>>
                                             ELSE v \in Deriving[o]}
          /\ Signalling'[o] = {v \in Workers : IF v = w THEN Task'[w] = <<"signal", o>>
                                               ELSE v \in Signalling[o]}
      BY <1>1, <1>4, AtEndFacts
    <3>4. Deriving'[o] = Deriving[o]
      BY <1>2, <3>1, <3>2, <3>3
    <3>5. Signalling'[o] = Signalling[o]
      BY <1>2, <3>1, <3>2, <3>3
    <3> QED
      BY <3>3, <3>4, <3>5
  <2>3. Phases(o)'
    BY <1>1, <1>2, <2>1, <2>2, <1>4 DEF Ending, Phases
  <2>4. DerivationsCounted(o)'
    BY <1>1, <2>1, <2>2 DEF Ending, DerivationsCounted
  <2>5. header[o] \in {"closing", "closed"}
    BY <1>2, <2>1 DEF Ending, Phases
  <2>6. cpc[o] # "clear"
    <3> SUFFICES ASSUME cpc[o] = "clear" PROVE FALSE
      OBVIOUS
    <3>1. o \in Filling
      BY <1>4 DEF Filling
    <3>2. call[o].type = "derive"
      BY <3>1 DEF Ring, Filled
    <3> QED
      BY <2>1, <2>5, <3>2 DEF Ending, Phases
  <2>7. ~late[o] => outstanding[o] = 0 /\ Signalling[o] = {}
    BY <1>1, <2>1, <2>6 DEF Ending, Announced
  <2>8. Announced(o)'
    BY <1>1, <2>1, <2>2, <2>7 DEF Announced
  <2>9. Over(o)'
    BY <1>1, <2>1, <2>2, <2>7 DEF Over
  <2> QED
    BY <2>3, <2>4, <2>8, <2>9 DEF Ending
<1> QED
  BY <1>3, <1>4, OneEnds

(* It burns the keys and frees the buffers.                                *)
LEMMA WorkerBurnEnds ==
  ASSUME ControlInv, Ended, NEW w \in Workers, WorkerBurn(w), late' = late
  PROVE  Ended'
<1> SUFFICES ASSUME NEW o, o = item[wslot[w]].owner PROVE Ended'
  OBVIOUS
<1>1. /\ AtEnd(w, "burn", "free")
      /\ header' = [header EXCEPT ![o] = "closed"]
      /\ UNCHANGED <<outstanding, noOutstanding>>
  BY DEF WorkerBurn, WorkerGoto, AtEnd, stopVars, ringVars, slotVars, clientVars,
     ControlInv, TypeOK
<1>2. Task[w] = <<"burn", o>> /\ Task'[w] = Nothing
  BY <1>1, TaskFacts DEF AtEnd, TaskOf
<1>3. \A d \in Clients : d # o => EndKept(d)
  <2>1. \A d \in Clients : d # o => header'[d] = header[d]
    BY <1>1 DEF ControlInv, TypeOK
  <2> QED
    BY <1>1, <1>2, <2>1, AtEndOthers
<1>4. ASSUME o \in Clients PROVE Ending(o)'
  <2>1. /\ Ending(o) /\ cpc' = cpc /\ call' = call /\ late' = late
        /\ header'[o] = "closed"
    BY <1>1, <1>4 DEF Ended, AtEnd, ControlInv, TypeOK
  <2>2. /\ \A v \in Workers : v # w => Task'[v] = Task[v]
        /\ Offer' = Offer /\ Queued' = Queued /\ Coming' = Coming
        /\ Deriving'[o] = Deriving[o] /\ Signalling'[o] = Signalling[o]
    <3>1. /\ Nothing # <<"derive", o>> /\ Nothing # <<"signal", o>>
          /\ <<"burn", o>> # <<"derive", o>> /\ <<"burn", o>> # <<"signal", o>>
      BY <1>4, NothingFacts
    <3>2. /\ w \notin Deriving[o] /\ Deriving[o] \subseteq Workers
          /\ w \notin Signalling[o] /\ Signalling[o] \subseteq Workers
      BY <1>2, <1>4, <3>1 DEF Deriving, Signalling
    <3>3. /\ \A v \in Workers : v # w => Task'[v] = Task[v]
          /\ Offer' = Offer /\ Queued' = Queued /\ Coming' = Coming
          /\ Deriving'[o] = {v \in Workers : IF v = w THEN Task'[w] = <<"derive", o>>
                                             ELSE v \in Deriving[o]}
          /\ Signalling'[o] = {v \in Workers : IF v = w THEN Task'[w] = <<"signal", o>>
                                               ELSE v \in Signalling[o]}
      BY <1>1, <1>4, AtEndFacts
    <3>4. Deriving'[o] = Deriving[o]
      BY <1>2, <3>1, <3>2, <3>3
    <3>5. Signalling'[o] = Signalling[o]
      BY <1>2, <3>1, <3>2, <3>3
    <3> QED
      BY <3>3, <3>4, <3>5
  <2>3. header[o] \in {"closing", "closed"}
    BY <1>2, <2>1 DEF Ending, Phases
  <2>4. Phases(o)'
    BY <2>1, <2>3 DEF Ending, Phases
  <2>5. DerivationsCounted(o)' /\ Announced(o)'
    BY <1>1, <2>1, <2>2 DEF Ending, DerivationsCounted, Announced
  <2>6. ~late[o] => outstanding[o] = 0 /\ Signalling[o] = {}
    BY <1>2, <2>1 DEF Ending, Over
  <2>7. Over(o)'
    BY <1>1, <2>1, <2>2, <2>6 DEF Over
  <2> QED
    BY <2>4, <2>5, <2>7 DEF Ending
<1> QED
  BY <1>3, <1>4, OneEnds

(* So no thread's step does.                                               *)
LEMMA WorkerEndsWell ==
  ASSUME ControlInv, Ring, Ended, NEW w \in Workers, Worker(w), late' = late
  PROVE  Ended'
<1>1. ASSUME UNCHANGED <<item, cpc, call, stopPending>>,
             \A v \in Workers : v # w => wpc'[v] = wpc[v] /\ wslot'[v] = wslot[v],
             UNCHANGED <<header, outstanding, noOutstanding>>,
             Task'[w] \in {Task[w], Nothing},
             \A s \in Slots : state'[s] = "Ready" => state[s] = "Ready"
      PROVE  Ended'
  <2>1. ASSUME NEW v \in Workers, v # w PROVE Task'[v] = Task[v]
    BY <1>1, <2>1, TaskFacts
  <2>2. Unrelated
    BY <1>1, <2>1 DEF Unrelated
  <2> QED
    BY <2>2, UnrelatedKeeps
<1> QED
  BY <1>1, WorkerSteps, WorkerTakeEnds, WorkerCountDownEnds, WorkerSignalNoneEnds,
     WorkerFinalizeWaitEnds, WorkerBurnEnds

(* A start leaves nothing to end.                                          *)
LEMMA AfreshEnds ==
  ASSUME ControlInv, Ended, Start \/ (\E created \in SUBSET Workers : StartFails(created)),
         late' = late
  PROVE  Ended'
<1>1. /\ MakeFreshQueue /\ UNCHANGED <<cpc, call>>
      /\ \A w \in Workers : wpc'[w] \in {"loop", "off"}
      /\ ~stopPending'
  BY DEF Start, StartFails, clientVars
<1>2. /\ \A c \in Clients : cpc[c] \in Outside
      /\ \A c \in Clients : call[c].type \notin {"derive", "finalize"}
  <2>1. \A c \in Clients : cpc[c] \in Outside
    BY DEF ControlInv, Quiet, Start, StartFails
  <2> QED
    BY <2>1 DEF Ended, Ending, Phases, Leaving
<1>3. \A s \in Slots : Offer'[s] = Nothing
  BY <1>1 DEF MakeFreshQueue, Offer, Nothing
<1>4. \A w \in Workers : Task'[w] = Nothing
  BY <1>1, TaskFacts DEF TaskOf
<1>5. ASSUME NEW c \in Clients PROVE Ending(c)'
  <2>1. Queued'[c] = {} /\ Deriving'[c] = {} /\ Signalling'[c] = {} /\ Coming'[c] = 0
    BY <1>1, <1>2, <1>3, <1>4, NothingFacts DEF Queued, Deriving, Signalling, Coming
  <2>2. outstanding'[c] = 0
    BY <1>1 DEF MakeFreshQueue
  <2>3. Phases(c)'
    BY <1>1, <1>2, <1>3, <1>4, NothingFacts DEF Phases
  <2>4. DerivationsCounted(c)'
    BY <2>1, <2>2, FS_EmptySet DEF DerivationsCounted
  <2>5. Announced(c)' /\ Over(c)'
    BY <2>1, <2>2 DEF Announced, Over
  <2> QED
    BY <2>3, <2>4, <2>5 DEF Ending
<1> QED
  BY <1>5 DEF Ended

(* A client's step does not touch what threads have.                       *)
LEMMA TasksKept ==
  ASSUME ControlInv, Ring, NEW c \in Clients, UNCHANGED <<stopPending, wpc, wslot>>,
         item' = item \/ Fill(c)
  PROVE  Task' = Task
<1>1. ASSUME NEW w \in Workers PROVE Task'[w] = Task[w]
  <2>1. CASE item' = item
    BY <2>1, TaskFacts
  <2>2. CASE Fill(c) /\ wslot[w] # enqueuePosition
    <3>1. item'[wslot[w]] = item[wslot[w]]
      BY <2>2, FillFacts DEF ControlInv, TypeOK
    <3> QED
      BY <3>1, TaskFacts
  <2>3. CASE Fill(c) /\ wslot[w] = enqueuePosition
    <3>1. state[wslot[w]] = "Free" /\ ~stopPending
      BY <2>3, FillFacts
    <3>2. wpc[w] \notin Owning
      BY <3>1 DEF Ring, Held
    <3> QED
      BY <3>2, TaskFacts DEF TaskOf, Owning, HeaderWork
  <2> QED
    BY <2>1, <2>2, <2>3
<1> QED
  BY <1>1 DEF Task

(* Nor the other clients' reads.                                           *)
LEMMA ClientEnds ==
  ASSUME ControlInv, Ring, Ended, NEW c \in Clients,
         UNCHANGED <<stopPending, wpc, wslot>>, item' = item \/ Fill(c),
         \A d \in Clients : d # c =>
           /\ cpc'[d] = cpc[d] /\ call'[d] = call[d]
           /\ header'[d] = header[d] /\ outstanding'[d] = outstanding[d]
           /\ noOutstanding'[d] = noOutstanding[d] /\ late'[d] = late[d],
         \A d \in Clients : \A s \in Slots : \A k \in HeaderWorks :
           d # c /\ Offer'[s] = <<k, d>> => Offer[s] = <<k, d>>
  PROVE  /\ \A d \in Clients : d # c => EndKept(d)
         /\ Task' = Task
<1>1. Task' = Task
  BY TasksKept
<1>2. ASSUME NEW d \in Clients, d # c PROVE EndKept(d)
  <2>1. Coming'[d] = Coming[d]
    BY <1>2, ComingKept
  <2> QED
    BY <1>1, <1>2, <2>1 DEF EndKept, Ended, Ending, Phases
<1> QED
  BY <1>1, <1>2

(* Most steps of a client do not touch its own read either.                *)
Mild(c) ==
  /\ UNCHANGED <<stopPending, wpc, wslot, header, outstanding, noOutstanding>>
  /\ \A d \in Clients : d # c => cpc'[d] = cpc[d] /\ call'[d] = call[d]
  /\ item' = item \/ Fill(c)
  /\ \A s \in Slots : state'[s] = "Ready" => state[s] = "Ready" /\ item'[s] = item[s]
  /\ Coming'[c] = Coming[c] /\ (cpc'[c] = "clear" <=> cpc[c] = "clear")
  /\ call'[c].type \in {call[c].type, "none", "crypt"}
  /\ cpc'[c] \in Leaving => call'[c].type \notin {"derive", "finalize"}

(* A step of a client that is about no derivation keeps the order.         *)
LEMMA MildEnds ==
  ASSUME ControlInv, Ring, Ended, NEW c \in Clients, Mild(c), late' = late
  PROVE  Ended'
<1>1. \A d \in Clients : \A s \in Slots : \A k \in HeaderWorks :
        Offer'[s] = <<k, d>> => Offer[s] = <<k, d>>
  BY OfferKept DEF Mild
<1>2. Task' = Task /\ \A d \in Clients : d # c => EndKept(d)
  BY <1>1, ClientEnds DEF Mild
<1>3. EndKept(c)
  BY <1>1, <1>2 DEF EndKept, Mild
<1>4. Ending(c)'
  BY <1>3, EndKeeps DEF Ended, ControlInv
<1> QED
  BY <1>2, <1>4, OneEnds

(* All of a client's steps are like that, but three.                       *)
LEMMA ClientSteps ==
  ASSUME ControlInv, Ring, Ended, NEW c \in Clients,
         Inside(c) \/ \E n \in Units : DoWork(c, n)
  PROVE  Mild(c) \/ IncrementOutstanding(c) \/ ClearNoOutstanding(c) \/ SetReady(c)
<1> USE DEF stopVars, ringVars, slotVars, workerVars, dataVars, headerVars
<1>1. TypeOK /\ Phases(c)
  BY DEF ControlInv, Ended, Ending
<1>2. ASSUME NEW n \in Units, DoWork(c, n) PROVE Mild(c)
  BY <1>1, <1>2 DEF DoWork, Goto, NewCall, NoCall, Mild, Coming, Leaving, Outside, TypeOK
<1>3. ASSUME \/ CryptInline(c) \/ Lock(c) \/ SetFragmentCount(c)
             \/ SlotBusy(c, "first", "firstWait") \/ WaitSlot(c, "firstWait", "first")
             \/ SlotBusy(c, "slot", "slotWait") \/ WaitSlot(c, "slotWait", "slot")
             \/ Notify(c) \/ Await(c) \/ SignalFirst(c)
      PROVE  Mild(c)
  <2>1. /\ UNCHANGED <<stopPending, wpc, wslot, header, outstanding, noOutstanding, item, state>>
        /\ cpc' = [cpc EXCEPT ![c] = cpc'[c]]
        /\ \A d \in Clients : d # c => call'[d] = call[d]
        /\ call'[c].type = call[c].type
        /\ {cpc[c], cpc'[c]} \cap {"clear", "ready"} = {}
        /\ cpc'[c] \in Leaving => cpc[c] \in Leaving
    BY <1>1, <1>3 DEF CryptInline, Lock, SetFragmentCount, SlotBusy, WaitSlot, Notify, Await,
       SignalFirst, Goto, TypeOK, Calls, Leaving, Outside
  <2> QED
    BY <1>1, <2>1 DEF Mild, Coming, Phases, TypeOK
<1>4. ASSUME Unlock(c) \/ Return(c) PROVE Mild(c)
  BY <1>1, <1>4 DEF Unlock, Return, Goto, NoCall, NewCall, Mild, Coming, Leaving, Outside, TypeOK
<1>5. ASSUME FreeFirst(c) PROVE Mild(c)
  <2>1. call[c].type = "crypt"
    BY <1>5 DEF FreeFirst, Goto, Ring, Entering
  <2> QED
    BY <1>1, <1>5, <2>1 DEF FreeFirst, Goto, Mild, Coming, Leaving, Outside, TypeOK
<1>6. ASSUME Fill(c) PROVE Mild(c)
  <2>1. /\ UNCHANGED <<state, stopPending, wpc, wslot, header, outstanding, noOutstanding>>
        /\ cpc[c] = "slot" /\ cpc'[c] = IF call[c].type = "derive" THEN "increment" ELSE "ready"
        /\ \A d \in Clients : d # c => cpc'[d] = cpc[d] /\ call'[d] = call[d]
        /\ state[enqueuePosition] = "Free" /\ call'[c].type = call[c].type
        /\ \A t \in Slots : t # enqueuePosition => item'[t] = item[t]
    BY <1>6, FillFacts DEF Fill
  <2> QED
    BY <1>6, <2>1 DEF Mild, Coming, Leaving, Outside
<1> QED
  BY <1>2, <1>3, <1>4, <1>5, <1>6 DEF Inside, InsideCall, InsideHeader

(* A derivation is counted ...                                             *)
LEMMA IncrementEnds ==
  ASSUME ControlInv, Ring, Ended, NEW c \in Clients, IncrementOutstanding(c), late' = late
  PROVE  Ended'
<1>1. /\ UNCHANGED <<stopPending, wpc, wslot, item, state, call, header, noOutstanding>>
      /\ cpc[c] = "increment" /\ cpc'[c] = "clear" /\ outstanding'[c] = outstanding[c] + 1
      /\ \A d \in Clients : d # c => cpc'[d] = cpc[d] /\ outstanding'[d] = outstanding[d]
      /\ outstanding[c] \in Int
  BY DEF IncrementOutstanding, Goto, stopVars, slotVars, workerVars, ControlInv, TypeOK
<1>2. Offer' = Offer
  BY <1>1 DEF Offer
<1>3. Task' = Task /\ \A d \in Clients : d # c => EndKept(d)
  BY <1>1, <1>2, ClientEnds
<1>4. call[c].type = "derive"
  <2>1. c \in Filling
    BY <1>1 DEF Filling
  <2> QED
    BY <1>1, <2>1 DEF Ring, Filled
<1>5. /\ Queued' = Queued /\ Deriving' = Deriving /\ Signalling' = Signalling
      /\ Coming[c] = 0 /\ Coming'[c] = 1 /\ Ending(c)
  BY <1>1, <1>2, <1>3, <1>4 DEF Queued, Deriving, Signalling, Coming, Ended
<1>6. header[c] = "open" /\ \A w \in Workers : Task[w] # <<"burn", c>>
  BY <1>4, <1>5 DEF Ending, Phases
<1>7. Phases(c)'
  BY <1>1, <1>2, <1>3, <1>5 DEF Ending, Phases, Leaving, Outside
<1>8. DerivationsCounted(c)'
  BY <1>1, <1>5, EndFacts DEF Ending, DerivationsCounted
<1>9. Announced(c)' /\ Over(c)'
  BY <1>1, <1>3, <1>5, <1>6 DEF Ending, Announced, Over
<1>10. Ending(c)'
  BY <1>7, <1>8, <1>9 DEF Ending
<1> QED
  BY <1>3, <1>10, OneEnds

(* ... before the event is cleared: who has counted down and is still to   *)
(* set it is late.                                                         *)
LEMMA ClearEnds ==
  ASSUME ControlInv, Ring, Ended, late \in [Clients -> BOOLEAN], NEW c \in Clients, ClearRead(c)
  PROVE  Ended'
<1>1. /\ UNCHANGED <<stopPending, wpc, wslot, item, state, call, header, outstanding>>
      /\ cpc[c] = "clear" /\ cpc'[c] = "ready" /\ ~noOutstanding'[c]
      /\ \A d \in Clients : d # c => cpc'[d] = cpc[d] /\ noOutstanding'[d] = noOutstanding[d]
  BY DEF ClearRead, ClearNoOutstanding, Goto, stopVars, slotVars, workerVars, ControlInv, TypeOK
<1>2. Offer' = Offer
  BY <1>1 DEF Offer
<1>3. \A d \in Clients : d # c => late'[d] = late[d]
  BY DEF ClearRead
<1>4. Task' = Task /\ \A d \in Clients : d # c => EndKept(d)
  BY <1>1, <1>2, <1>3, ClientEnds
<1>5. /\ Queued' = Queued /\ Deriving' = Deriving /\ Signalling' = Signalling
      /\ Coming'[c] = Coming[c] /\ Ending(c)
  BY <1>1, <1>2, <1>4 DEF Queued, Deriving, Signalling, Coming, Ended
<1>6. ~late'[c] => ~late[c] /\ Signalling[c] = {}
  <2>1. ASSUME NEW w \in Workers, Task[w] = <<"signal", c>>
        PROVE  wpc[w] = "signalNone" /\ item[wslot[w]].owner = c
    <3>1. TaskOf(wpc[w], stopPending, item[wslot[w]]) = <<"signal", c>>
      BY <2>1, TaskFacts
    <3>2. <<"signal", c>> # Nothing
      BY NothingFacts
    <3>3. wpc[w] = "taken" /\ ~stopPending => item[wslot[w]].type \in WorkTypes
      BY DEF ControlInv, Typed
    <3>4. wpc[w] = "taken" /\ ~stopPending => item[wslot[w]].type # "signal"
      BY <3>3 DEF WorkTypes
    <3>5. wpc[w] = "signalNone"
      BY <3>1, <3>2, <3>4 DEF TaskOf
    <3> QED
      BY <3>1, <3>5 DEF TaskOf
  <2>2. late'[c] <=> (late[c] \/ \E w \in Workers :
                        wpc[w] = "signalNone" /\ item[wslot[w]].owner = c)
    BY DEF ClearRead
  <2> QED
    BY <2>1, <2>2 DEF Signalling
<1>7. Phases(c)'
  BY <1>1, <1>2, <1>4, <1>5 DEF Ending, Phases, Leaving, Outside
<1>8. DerivationsCounted(c)'
  BY <1>1, <1>5 DEF Ending, DerivationsCounted
<1>9. Announced(c)' /\ Over(c)'
  BY <1>1, <1>4, <1>5, <1>6 DEF Ending, Announced, Over
<1>10. Ending(c)'
  BY <1>7, <1>8, <1>9 DEF Ending
<1> QED
  BY <1>4, <1>10, OneEnds

(* What is offered is the client's own, and was counted.                   *)
LEMMA SetReadyEnds ==
  ASSUME ControlInv, Ring, Ended, NEW c \in Clients, SetReady(c), late' = late
  PROVE  Ended'
<1> SUFFICES ASSUME NEW s, s = call[c].slot PROVE Ended'
  OBVIOUS
<1>1. /\ UNCHANGED <<stopPending, wpc, wslot, item, call, header, outstanding, noOutstanding>>
      /\ cpc[c] = "ready" /\ cpc'[c] = "notify"
      /\ \A d \in Clients : d # c => cpc'[d] = cpc[d]
      /\ s \in Slots /\ \A t \in Slots : state'[t] = IF t = s THEN "Ready" ELSE state[t]
  <2>1. s \in Slots
    BY CallFields DEF ControlInv
  <2> QED
    BY <2>1 DEF SetReady, Goto, stopVars, workerVars, headerVars, ControlInv, TypeOK
<1>2. /\ item[s].owner = c /\ item[s].type = call[c].type /\ state[s] = "Free"
      /\ call[c].type \in {"crypt", "derive", "finalize"}
  <2>1. c \in Filling
    BY <1>1 DEF Filling
  <2> QED
    BY <1>1, <2>1 DEF Ring, Filled, ControlInv, Typed, Outside, WorkTypes
<1>3. \A t \in Slots : t # s => Offer'[t] = Offer[t]
  BY <1>1 DEF Offer
<1>4. /\ Offer[s] = Nothing
      /\ Offer'[s] = IF call[c].type \in {"derive", "finalize"} THEN <<call[c].type, c>> ELSE Nothing
  BY <1>1, <1>2 DEF Offer, Nothing, HeaderWorks
<1>5. \A d \in Clients : \A t \in Slots : \A k \in HeaderWorks :
        d # c /\ Offer'[t] = <<k, d>> => Offer[t] = <<k, d>>
  BY <1>3, <1>4, NothingFacts
<1>6. Task' = Task /\ \A d \in Clients : d # c => EndKept(d)
  BY <1>1, <1>5, ClientEnds
<1>7. Deriving' = Deriving /\ Signalling' = Signalling /\ Coming'[c] = 0 /\ Ending(c)
  BY <1>1, <1>6 DEF Deriving, Signalling, Coming, Ended
<1>8. Phases(c)'
  BY <1>1, <1>3, <1>4, <1>6, <1>7, NothingFacts DEF Ending, Phases, Leaving, Outside
<1>9. DerivationsCounted(c)'
  <2>1. Queued[c] = {t \in Slots : Offer[t] = <<"derive", c>>}
    BY DEF Queued
  <2>2. CASE call[c].type = "derive"
    <3>1. Coming[c] = 1 /\ s \notin Queued[c]
      BY <1>1, <1>4, <2>1, <2>2, NothingFacts DEF Coming
    <3>2. Queued'[c] = Queued[c] \cup {s}
      BY <1>1, <1>3, <1>4, <2>1, <2>2, EndPrimed
    <3>3. Cardinality(Queued[c] \cup {s}) = Cardinality(Queued[c]) + 1
      BY <3>1, EndFacts, FS_AddElement
    <3>4. outstanding[c] \in Int /\ DerivationsCounted(c)
      BY <1>7 DEF ControlInv, TypeOK, Ending
    <3> QED
      BY <1>1, <1>7, <3>1, <3>2, <3>3, <3>4, EndFacts DEF DerivationsCounted
  <2>3. CASE call[c].type # "derive"
    <3>1. Offer'[s] # <<"derive", c>>
      BY <1>4, <2>3, NothingFacts
    <3>2. Queued'[c] = Queued[c] /\ Coming[c] = 0
      BY <1>3, <1>4, <2>1, <2>3, <3>1, EndPrimed, NothingFacts DEF Coming
    <3> QED
      BY <1>1, <1>7, <3>2 DEF Ending, DerivationsCounted
  <2> QED
    BY <2>2, <2>3
<1>10. Announced(c)' /\ Over(c)'
  BY <1>1, <1>6, <1>7 DEF Ending, Announced, Over
<1>11. Ending(c)'
  BY <1>8, <1>9, <1>10 DEF Ending
<1> QED
  BY <1>6, <1>11, OneEnds

(* A client derives before it finishes.                                    *)
LEMMA EnterEnds ==
  ASSUME ControlInv, Ring, Ended, NEW c \in Clients,
         BeginKeyDerivation(c) \/ BeginReadVolumeHeaderFinalization(c), late' = late
  PROVE  Ended'
<1>1. /\ UNCHANGED <<stopPending, wpc, wslot, item, state, outstanding, noOutstanding>>
      /\ cpc[c] = "idle" /\ cpc'[c] = "lock"
      /\ header[c] \in {"none", "open"}
      /\ \/ header'[c] = "open" /\ call'[c].type = "derive"
         \/ header'[c] = "closing" /\ call'[c].type = "finalize"
      /\ \A d \in Clients : d # c =>
           cpc'[d] = cpc[d] /\ call'[d] = call[d] /\ header'[d] = header[d]
  BY DEF BeginKeyDerivation, BeginReadVolumeHeaderFinalization, Goto, NewCall, stopVars, slotVars,
     workerVars, ControlInv, TypeOK
<1>2. Offer' = Offer
  BY <1>1 DEF Offer
<1>3. Task' = Task /\ \A d \in Clients : d # c => EndKept(d)
  BY <1>1, <1>2, ClientEnds
<1>4. /\ Queued' = Queued /\ Deriving' = Deriving /\ Signalling' = Signalling
      /\ Coming[c] = 0 /\ Coming'[c] = 0 /\ Ending(c)
  BY <1>1, <1>2, <1>3 DEF Queued, Deriving, Signalling, Coming, Ended
<1>5. /\ \A s \in Slots : Offer[s] # <<"finalize", c>>
      /\ \A w \in Workers : Task[w] \notin {<<"finalize", c>>, <<"burn", c>>}
  BY <1>1, <1>4 DEF Ending, Phases
<1>6. Phases(c)'
  BY <1>1, <1>2, <1>3, <1>5 DEF Phases, Leaving, Outside
<1>7. DerivationsCounted(c)'
  BY <1>1, <1>4 DEF Ending, DerivationsCounted
<1>8. Announced(c)' /\ Over(c)'
  BY <1>1, <1>3, <1>4, <1>5 DEF Ending, Announced, Over
<1>9. Ending(c)'
  BY <1>6, <1>7, <1>8 DEF Ending
<1> QED
  BY <1>3, <1>9, OneEnds

(* Every step keeps the end of a read in order.                            *)
LEMMA EndedStep ==
  ASSUME ControlInv, Ring, Answered, Ended, [ReadNext]_allVars
  PROVE  Ended'
<1>1. ASSUME NEW c \in Clients, Inside(c) \/ \E n \in Units : DoWork(c, n), late' = late,
             cpc[c] # "clear"
      PROVE  Ended'
  <2>1. ~ClearNoOutstanding(c)
    BY <1>1 DEF ClearNoOutstanding, Goto
  <2> QED
    BY <1>1, <2>1, ClientSteps, MildEnds, IncrementEnds, SetReadyEnds
<1>2. ASSUME PoolStep PROVE Ended'
  <2>1. late' = late
    BY <1>2 DEF PoolStep, readVars
  <2>2. ASSUME StopBegin \/ StopSignal \/ StopJoin PROVE Ended'
    BY <2>1, <2>2, StopStepsUnrelated, UnrelatedKeeps
  <2>3. ASSUME NEW c \in Clients, \E n \in Units : DoWork(c, n) PROVE Ended'
    <3>1. cpc[c] # "clear"
      BY <2>3 DEF DoWork, Goto
    <3> QED
      BY <1>1, <2>1, <2>3, <3>1
  <2>4. ASSUME NEW w \in Workers, Worker(w) PROVE Ended'
    BY <2>1, <2>4, WorkerEndsWell
  <2>5. ASSUME NEW c \in Clients, Inside(c), cpc[c] # "clear" PROVE Ended'
    BY <1>1, <2>1, <2>5
  <2>6. ASSUME Start \/ \E created \in SUBSET Workers : StartFails(created) PROVE Ended'
    BY <2>1, <2>6, AfreshEnds
  <2> QED
    BY <1>2, <2>2, <2>3, <2>4, <2>5, <2>6 DEF PoolStep
<1>3. ASSUME NEW w \in Workers, DeriveRead(w) \/ RaiseRead(w) PROVE Ended'
  <2>1. Worker(w) /\ late' = late
    BY <1>3 DEF DeriveRead, RaiseRead, Worker, WorkerOnHeader
  <2> QED
    BY <2>1, WorkerEndsWell
<1>4. ASSUME NEW c \in Clients, FillRead(c) PROVE Ended'
  <2>1. Fill(c) /\ late' = late /\ cpc[c] # "clear"
    BY <1>4 DEF FillRead, Fill, Goto
  <2>2. Inside(c)
    BY <2>1 DEF Inside, InsideCall
  <2> QED
    BY <1>1, <2>1, <2>2
<1>5. ASSUME NEW c \in Clients, ClearRead(c) PROVE Ended'
  BY <1>5, ClearEnds DEF Answered, ReadTypeOK
<1>6. ASSUME NEW c \in Clients, Enqueue(c) \/ Finish(c) PROVE Ended'
  BY <1>6, EnterEnds DEF Enqueue, Finish
<1>7. ASSUME \/ UNCHANGED allVars
             \/ \E c \in Clients :
                  \/ Enqueued(c) \/ StartScan(c) \/ PassOver(c) \/ WaitForKey(c) \/ OpenHeader(c)
                  \/ (\E fits \in BOOLEAN : TryKey(c, fits)) \/ WrongPassword(c)
      PROVE  Ended'
  <2>1. UNCHANGED vars /\ late' = late
    BY <1>7 DEF allVars, readVars, Enqueued, StartScan, PassOver, WaitForKey, OpenHeader, TryKey,
       WrongPassword
  <2>2. UNCHANGED <<item, cpc, call, header, outstanding, noOutstanding, state, wpc, wslot,
                    stopPending>>
    BY <2>1 DEF vars, stopVars, slotVars, workerVars, clientVars, headerVars
  <2>3. Task' = Task
    BY <2>2 DEF Task
  <2>4. Unrelated
    BY <2>1, <2>2, <2>3 DEF Unrelated
  <2> QED
    BY <2>4, UnrelatedKeeps
<1> QED
  BY <1>2, <1>3, <1>4, <1>5, <1>6, <1>7 DEF ReadNext, Reader

(* At first there is nothing to end.                                       *)
LEMMA EndedInit == ReadInit => Ended
<1> SUFFICES ASSUME ReadInit, NEW c \in Clients PROVE Ending(c)
  BY DEF Ended
<1>1. /\ \A s \in Slots : Offer[s] = Nothing
      /\ \A w \in Workers : Task[w] = Nothing
  BY DEF ReadInit, Init, FreshQueue, Offer, Task, Nothing
<1>2. Queued[c] = {} /\ Deriving[c] = {} /\ Signalling[c] = {}
  BY <1>1, NothingFacts DEF Queued, Deriving, Signalling
<1>3. /\ Coming[c] = 0 /\ outstanding[c] = 0 /\ call[c].type = "none"
      /\ cpc[c] = "idle" /\ header[c] = "none" /\ noOutstanding[c]
  BY DEF ReadInit, Init, FreshQueue, Coming, NoCall, NewCall
<1>4. Phases(c)
  BY <1>1, <1>3, NothingFacts DEF Phases
<1>5. DerivationsCounted(c)
  BY <1>2, <1>3, FS_EmptySet DEF DerivationsCounted
<1>6. Announced(c) /\ Over(c)
  BY <1>2, <1>3 DEF Announced, Over
<1> QED
  BY <1>4, <1>5, <1>6 DEF Ending

(* What a thread still has is counted, and what is offered.                *)
LEMMA EndedIsEarlyEnough == ControlInv /\ Ended => NothingFreedEarly
<1> SUFFICES ASSUME ControlInv, Ended, NEW c \in Clients, header[c] = "closed", ~late[c]
             PROVE  /\ \A w \in Workers :
                         wpc[w] \in {"derive", "raise", "countDown", "signalNone"} =>
                           item[wslot[w]].owner # c
                    /\ \A s \in Slots : state[s] = "Ready" /\ item[s].type = "derive" =>
                         item[s].owner # c
  BY DEF NothingFreedEarly
<1>1. Ending(c) /\ outstanding[c] = 0 /\ Signalling[c] = {}
  BY DEF Ended, Ending, Over
<1>2. Queued[c] = {} /\ Deriving[c] = {}
  <2>1. Cardinality(Queued[c]) = 0 /\ Cardinality(Deriving[c]) = 0
    BY <1>1, EndFacts DEF Ending, DerivationsCounted
  <2> QED
    BY <2>1, EndFacts, FS_EmptySet
<1>3. ASSUME NEW w \in Workers, wpc[w] \in {"derive", "raise", "countDown", "signalNone"},
             item[wslot[w]].owner = c
      PROVE  FALSE
  <2>1. Task[w] \in {<<"derive", c>>, <<"signal", c>>}
    BY <1>3, TaskFacts DEF TaskOf
  <2> QED
    BY <1>1, <1>2, <2>1 DEF Deriving, Signalling
<1>4. ASSUME NEW s \in Slots, state[s] = "Ready", item[s].type = "derive", item[s].owner = c
      PROVE  FALSE
  <2>1. Offer[s] = <<"derive", c>>
    BY <1>4 DEF Offer, HeaderWorks
  <2> QED
    BY <1>2, <2>1 DEF Queued
<1> QED
  BY <1>3, <1>4

-----------------------------------------------------------------------------

(* ReadTypeOK: a reader's data keeps its shape; no more derivations are    *)
(* under way than there are pool threads, and a free work item is found    *)
(* whenever one is looked for (Volumes.c, ReadVolumeHeader).               *)
THEOREM ReadTypeCorrect == ReadSpec => []ReadTypeOK
<1>1. Answered => ReadTypeOK
  BY DEF Answered
<1> QED
  BY <1>1, ReadsInOrder, PTL

(* RightAnswer: for any number of PRFs, pool threads and readers, a read   *)
(* that finds a key names the PRF it was derived with, and one that says   *)
(* the password is wrong has tried the keys of all PRFs.                   *)
THEOREM AnswersAreRight == ReadSpec => []RightAnswer
<1>1. Answered => RightAnswer
  BY DEF Answered, Answering, RightAnswer
<1> QED
  BY <1>1, ReadsInOrder, PTL

(* NothingFreedEarly: for any threads, readers and ring, when the buffers  *)
(* of a read are freed no thread has a derivation of it any more, and none *)
(* is queued, unless a thread had counted down to nothing, and not said    *)
(* so, when the next derivation cleared the event.                         *)
THEOREM NothingIsFreedEarly == ReadSpec => []NothingFreedEarly
<1>1. ReadInit => Ended
  BY EndedInit
<1>2. (ControlInv /\ Ring /\ Answered) /\ Ended /\ [ReadNext]_allVars => Ended'
  BY EndedStep
<1>3. (ControlInv /\ Ring /\ Answered) /\ Ended => NothingFreedEarly
  BY EndedIsEarlyEnough
<1> QED
  BY <1>1, <1>2, <1>3, ReadsInOrder, PTL DEF ReadSpec
===============================================================================
