--------------------------- MODULE VolumeHeaderRead ---------------------------
(***************************************************************************)
(* ReadVolumeHeader of Common/Volumes.c on the encryption thread pool: a   *)
(* client derives the header key with every PRF, as many at a time as      *)
(* there are pool threads, and tries each key on the header as it gets     *)
(* ready.  It returns at the first that fits, with derivations still       *)
(* running, and leaves its buffers to a last work item, which frees them   *)
(* when the others are done.                                               *)
(***************************************************************************)
EXTENDS EncryptionThreadPool

VARIABLES
  reader,        \* where the function is
  enqPrf,        \* enqPkcs5Prf
  queuedItems,   \* queuedWorkItems
  at,            \* i: the work item it begins, or looks at
  workItems,     \* keyDerivationWorkItems
  target,        \* for each slot of the ring, the work item it derives a key for
  keyCompleted,  \* keyDerivationCompletedEvent
  answer,        \* the PRF of the key that fits, 0 for ERR_PASSWORD_WRONG
  tried,         \* history: the keys tried on the header, without success but for the last
  late           \* history: a thread sets the event after it has been cleared again

readVars == <<reader, enqPrf, queuedItems, at, workItems, target, keyCompleted,
              answer, tried, late>>
allVars == <<vars, readVars>>

(* There are PRFs (FIRST_PRF_ID is not 0).                                 *)
ASSUME ReadAssumption == MaxDerivations >= 1

(* FIRST_PRF_ID..LAST_PRF_ID, and as many work items.                      *)
Prfs == 1..MaxDerivations

FreeItem == [free |-> TRUE, ready |-> FALSE, prf |-> 0, key |-> 0]

ReadInit ==
  /\ Init
  /\ reader = [c \in Clients |-> "idle"]
  /\ enqPrf = [c \in Clients |-> 1] /\ queuedItems = [c \in Clients |-> 0]
  /\ at = [c \in Clients |-> 1]
  /\ workItems = [c \in Clients |-> [i \in Prfs |-> FreeItem]]
  /\ target = [s \in Slots |-> 1]
  /\ keyCompleted = [c \in Clients |-> FALSE]
  /\ answer = [c \in Clients |-> 0] /\ tried = [c \in Clients |-> {}]
  /\ late = [c \in Clients |-> FALSE]

ReaderGoto(c, from, to) == /\ reader[c] = from /\ cpc[c] = "idle"
                           /\ reader' = [reader EXCEPT ![c] = to]

(* No PRF was chosen and there is a pool.                                  *)
OpenHeader(c) ==
  /\ running /\ spc = "idle"
  /\ ReaderGoto(c, "idle", "loop")
  /\ UNCHANGED <<vars, enqPrf, queuedItems, at, workItems, target, keyCompleted,
                 answer, tried, late>>

(* Mutant of MoreToTry: keys still being derived are forgotten.            *)
MoreToBegin(c) == enqPrf[c] <= MaxDerivations

(* The condition of the loop over the PRFs.                                *)
MoreToTry(c) == enqPrf[c] <= MaxDerivations \/ queuedItems[c] > 0

(* Mutant of MayEnqueue: one derivation too many.                          *)
MayEnqueueOneMore(c) ==
  queuedItems[c] <= ThreadCount /\ enqPrf[c] <= MaxDerivations

(* As many derivations at a time as there are threads.                     *)
MayEnqueue(c) == queuedItems[c] < ThreadCount /\ enqPrf[c] <= MaxDerivations

Enqueue(c) ==
  LET i == CHOOSE j \in Prfs : /\ workItems[c][j].free
                               /\ \A k \in 1..j - 1 : ~workItems[c][k].free IN
  /\ ReaderGoto(c, "loop", "enqueued")
  /\ MayEnqueue(c)
  /\ BeginKeyDerivation(c)
  /\ at' = [at EXCEPT ![c] = i]
  /\ workItems' = [workItems EXCEPT ![c][i] =
         [@ EXCEPT !.free = FALSE, !.ready = FALSE, !.prf = enqPrf[c]]]
  /\ queuedItems' = [queuedItems EXCEPT ![c] = @ + 1]
  /\ UNCHANGED <<enqPrf, target, keyCompleted, answer, tried, late>>

(* After the last PRF the function goes on to wait, without a next turn.   *)
Enqueued(c) ==
  /\ ReaderGoto(c, "enqueued", IF enqPrf[c] < MaxDerivations THEN "loop" ELSE "scan")
  /\ enqPrf' = [enqPrf EXCEPT ![c] = IF @ < MaxDerivations THEN @ + 1 ELSE @]
  /\ at' = [at EXCEPT ![c] = 1]
  /\ UNCHANGED <<vars, queuedItems, workItems, target, keyCompleted, answer, tried, late>>

(* Nothing can be begun now: stay at this PRF and wait for a key.          *)
StartScan(c) ==
  /\ ReaderGoto(c, "loop", "scan")
  /\ MoreToTry(c) /\ ~MayEnqueue(c)
  /\ enqPrf' = [enqPrf EXCEPT ![c] = @ - 1]
  /\ at' = [at EXCEPT ![c] = 1]
  /\ UNCHANGED <<vars, queuedItems, workItems, target, keyCompleted, answer, tried, late>>

KeyReady(c) == LET it == workItems[c][at[c]] IN ~it.free /\ it.ready

PassOver(c) ==
  /\ ReaderGoto(c, "scan", IF at[c] = MaxDerivations THEN "wait" ELSE "scan")
  /\ ~KeyReady(c)
  /\ at' = [at EXCEPT ![c] = IF @ = MaxDerivations THEN 1 ELSE @ + 1]
  /\ UNCHANGED <<vars, enqPrf, queuedItems, workItems, target, keyCompleted,
                 answer, tried, late>>

WaitForKey(c) ==
  /\ ReaderGoto(c, "wait", "scan")
  /\ keyCompleted[c]
  /\ keyCompleted' = [keyCompleted EXCEPT ![c] = FALSE]
  /\ UNCHANGED <<vars, enqPrf, queuedItems, at, workItems, target, answer, tried, late>>

(* Take a key and try it on the header with every cipher.                  *)
TryKey(c, fits) ==
  LET it == workItems[c][at[c]] IN
  /\ ReaderGoto(c, "scan", IF fits THEN "finish" ELSE "loop")
  /\ KeyReady(c)
  /\ workItems' = [workItems EXCEPT ![c][at[c]].free = TRUE]
  /\ queuedItems' = [queuedItems EXCEPT ![c] = @ - 1]
  /\ enqPrf' = [enqPrf EXCEPT ![c] = IF fits THEN @ ELSE @ + 1]
  /\ answer' = [answer EXCEPT ![c] = IF fits THEN it.prf ELSE 0]
  /\ tried' = [tried EXCEPT ![c] = @ \cup {it.key}]
  /\ UNCHANGED <<vars, at, target, keyCompleted, late>>

WrongPassword(c) ==
  /\ ReaderGoto(c, "loop", "finish")
  /\ ~MoreToTry(c)
  /\ UNCHANGED <<vars, enqPrf, queuedItems, at, workItems, target, keyCompleted,
                 answer, tried, late>>

(* The last work item is queued; with that the function returns, and       *)
(* nobody reads the buffers any more.                                      *)
Finish(c) ==
  /\ ReaderGoto(c, "finish", "done")
  /\ BeginReadVolumeHeaderFinalization(c)
  /\ enqPrf' = [enqPrf EXCEPT ![c] = 1] /\ at' = [at EXCEPT ![c] = 1]
  /\ queuedItems' = [queuedItems EXCEPT ![c] = 0]
  /\ workItems' = [workItems EXCEPT ![c] = [i \in Prfs |-> FreeItem]]
  /\ keyCompleted' = [keyCompleted EXCEPT ![c] = FALSE]
  /\ answer' = [answer EXCEPT ![c] = 0] /\ tried' = [tried EXCEPT ![c] = {}]
  /\ UNCHANGED <<target, late>>

Reader(c) ==
  \/ Enqueue(c) \/ Enqueued(c) \/ StartScan(c) \/ PassOver(c) \/ WaitForKey(c)
  \/ (\E fits \in BOOLEAN : TryKey(c, fits)) \/ WrongPassword(c) \/ Finish(c)

-----------------------------------------------------------------------------
(* The reader's data in the hands of the pool.                             *)

Reading(c) == reader[c] \notin {"idle", "done"}

(* The derivation's parameters are copied into the slot.                   *)
FillRead(c) ==
  /\ Fill(c)
  /\ target' = IF call[c].type = "derive"
               THEN [target EXCEPT ![enqueuePosition] = at[c]] ELSE target
  /\ UNCHANGED <<reader, enqPrf, queuedItems, at, workItems, keyCompleted,
                 answer, tried, late>>

(* A thread that has counted down to nothing may not have said so yet.     *)
ClearRead(c) ==
  /\ ClearNoOutstanding(c)
  /\ late' = [late EXCEPT ![c] = @ \/ \E w \in Workers :
                 wpc[w] = "signalNone" /\ item[wslot[w]].owner = c]
  /\ UNCHANGED <<reader, enqPrf, queuedItems, at, workItems, target, keyCompleted,
                 answer, tried>>

DeriveRead(w) ==
  LET c == item[wslot[w]].owner
      i == target[wslot[w]] IN
  /\ WorkerDerive(w)
  /\ workItems' = IF ~Reading(c) THEN workItems
                  ELSE [workItems EXCEPT ![c][i].key = workItems[c][i].prf,
                                         ![c][i].ready = TRUE]
  /\ target' = [target EXCEPT ![wslot[w]] = 1]   \* not used again
  /\ UNCHANGED <<reader, enqPrf, queuedItems, at, keyCompleted, answer, tried, late>>

(* Mutant of KeyEvent: the event is left as it is.                         *)
NoKeyEvent(c) == keyCompleted[c]

(* keyDerivationCompletedEvent is set.                                     *)
KeyEvent(c) == TRUE

RaiseRead(w) ==
  LET c == item[wslot[w]].owner IN
  /\ WorkerRaise(w)
  /\ keyCompleted' = IF ~Reading(c) THEN keyCompleted
                     ELSE [keyCompleted EXCEPT ![c] = KeyEvent(c)]
  /\ UNCHANGED <<reader, enqPrf, queuedItems, at, workItems, target, answer, tried, late>>

(* Every other step of the pool leaves the reader's data alone.  A client  *)
(* works on a volume after it has read its header.  The pool is not        *)
(* stopped in the middle of a read.                                        *)
PoolStep ==
  /\ \/ Start
     \/ \E created \in SUBSET Workers : StartFails(created)
     \/ (StopBegin /\ \A c \in Clients : ~Reading(c)) \/ StopSignal \/ StopJoin
     \/ \E w \in Workers : Worker(w) /\ wpc[w] \notin {"derive", "raise"}
     \/ \E c \in Clients :
          \/ spc = "idle" /\ reader[c] = "done" /\ \E n \in Units : DoWork(c, n)
          \/ Inside(c) /\ cpc[c] # "clear" /\ ~Fill(c)
  /\ UNCHANGED readVars

ReadNext ==
  \/ PoolStep
  \/ \E w \in Workers : DeriveRead(w) \/ RaiseRead(w)
  \/ \E c \in Clients :
       FillRead(c) \/ ClearRead(c) \/ OpenHeader(c) \/ Reader(c)

ReadSafety == ReadInit /\ [][ReadNext]_allVars

(* The pool's fairness; who reads a header goes on when it can.            *)
ReadSpec == /\ ReadInit /\ [][ReadNext]_allVars
            /\ Fairness
            /\ \A c \in Clients : WF_allVars(Reader(c))

-----------------------------------------------------------------------------
(* Properties.                                                             *)

ReadTypeOK ==
  /\ reader \in [Clients -> {"idle", "loop", "enqueued", "scan", "wait", "finish", "done"}]
  /\ enqPrf \in [Clients -> 0..MaxDerivations + 1]
  /\ queuedItems \in [Clients -> 0..ThreadCount]
  /\ at \in [Clients -> Prfs]
  /\ workItems \in [Clients -> [Prfs -> [free : BOOLEAN, ready : BOOLEAN,
                                         prf : Prfs \cup {0}, key : Prfs \cup {0}]]]
  /\ target \in [Slots -> Prfs]
  /\ keyCompleted \in [Clients -> BOOLEAN]
  /\ answer \in [Clients -> Prfs \cup {0}] /\ tried \in [Clients -> SUBSET Prfs]
  /\ late \in [Clients -> BOOLEAN]

(* Whatever order the keys get ready in and whichever work items they are  *)
(* put in, a read that finds a key names the PRF it was derived with, and  *)
(* one that says the password is wrong has tried the keys of all PRFs: a   *)
(* key still being derived is waited for, and a work item used again never *)
(* shows the key it held before.                                           *)
RightAnswer ==
  \A c \in Clients : reader[c] = "finish" =>
    IF answer[c] = 0 THEN tried[c] = Prfs ELSE answer[c] \in tried[c]

(* The buffers of a read are freed once no thread has to do with any of    *)
(* its derivations any more.  The count of derivations and the event that  *)
(* it is 0 are two steps: unless a thread was caught between them by the   *)
(* next derivation's clearing of the event.                                *)
NothingFreedEarly ==
  \A c \in Clients : header[c] = "closed" /\ ~late[c] =>
    /\ \A w \in Workers : wpc[w] \in {"derive", "raise", "countDown", "signalNone"} =>
         item[wslot[w]].owner # c
    /\ \A s \in Slots : state[s] = "Ready" /\ item[s].type = "derive" => item[s].owner # c

(* Every read returns, as no key that got ready is overlooked, and its     *)
(* keys are burned in the end, unless the pool is stopped first, which     *)
(* drops what is still queued.                                             *)
ReadsEnd ==
  \A c \in Clients :
    reader[c] = "loop" ~> reader[c] = "done" /\ (header[c] = "closed" \/ stopPending)
=============================================================================
