--------------------------- MODULE EncryptedIoQueue ---------------------------
(***************************************************************************)
(* The encrypted I/O queue of Driver/EncryptedIoQueue.c, of the boot drive *)
(* filter or of a mounted volume that protects a hidden one.               *)
(*                                                                         *)
(* A request packet (IRP) goes through three threads: the main thread cuts *)
(* it into fragments and encrypts those of a write, the I/O thread reads   *)
(* or writes them, the completion thread decrypts what was read.  Another  *)
(* thread may hold the queue while it is idle, and one may stop it for     *)
(* good.                                                                   *)
(*                                                                         *)
(* Sectors are numbers; the content of one is a pair <<writer, unit>>: who *)
(* wrote it, and the data unit it is encrypted under, Plain if none.  A    *)
(* step is one access to memory shared between threads, or one device      *)
(* operation; accesses whose order nobody can tell are taken together, as  *)
(* are putting something on a queue and setting the event that says so.    *)
(***************************************************************************)
EXTENDS Integers, Sequences, FiniteSets

CONSTANTS Irps,            \* the requestors, one IRP each at a time
          NoIrp,           \* none of them; the writer of the initial content
          Sectors,         \* the sectors of the drive
          MaxLength,       \* bound: sectors of an IRP
          MaxIrps,         \* bound: IRPs in all
          FragmentSize,    \* FragmentSize, in sectors
          ItemCount,       \* preallocated items
          RequestCount,    \* preallocated I/O requests
          HeaderSectors,   \* where the boot loader keeps the volume header
          RemapOffset,     \* RemappedAreaOffset
          Areas,           \* the encrypted areas to start from, as <<start, end>>
          RemapAreas,      \* those of a hidden system
          HiddenVolumes,   \* what is protected in a mounted volume: the sectors
                           \* of the hidden volume in it
          MaxFailures,     \* bound: device errors
          RemapFailures,   \* whether the device of a hidden system may fail
          Operations,      \* what is asked of a drive ...
          RemapOperations, \* ... and of that of a hidden system
          Controls         \* what else goes on: "hold", "stop", "erase"

ASSUME QueueAssumption ==
  /\ NoIrp \notin Irps
  /\ Sectors \subseteq Nat
  /\ MaxLength \in Nat \ {0} /\ FragmentSize \in Nat \ {0}
  /\ ItemCount \in Nat \ {0} /\ RequestCount \in Nat \ {0}
  /\ HeaderSectors \subseteq Sectors
  /\ RemapOffset \in Nat
  /\ HiddenVolumes \subseteq SUBSET Sectors
  /\ MaxIrps \in Nat /\ MaxFailures \in Nat
  /\ RemapFailures \in BOOLEAN
  /\ Operations \cup RemapOperations \subseteq {"read", "write", "skewed"}
  /\ Controls \subseteq {"hold", "stop", "erase"}

(* An encrypted area lies in the drive.  That of a hidden system is kept   *)
(* behind it (DriveFilter.c:544), in a partition that the system takes for *)
(* read-only (VolumeFilter.c:165): nobody asks for the sectors there.      *)
ASSUME AreaAssumption ==
  /\ \A a \in Areas \cup RemapAreas :
       a \in Int \X Int /\ (-1 \in {a[1], a[2]} \/ a[1]..a[2] \subseteq Sectors)
  /\ \A s \in Sectors : s + RemapOffset \notin Sectors

Threads == {"main", "io", "completion"}
Fragments == {"A", "B"}
Items == 1..ItemCount

VARIABLES
  irp, ipc,                  \* each requestor's IRP and position in AddIrp
  asked,                     \* IRPs so far
  data,                      \* data[i]: the buffer of its IRP, for a read
  queue, notEmpty,           \* the three thread queues and their events
  item, freeRequests,        \* the buffer pool: items; I/O requests left in it
  poolBufferFree,            \* PoolBufferFreeEvent
  pc, own, req,              \* each thread's position, its item, its request
  taken, active, next,       \* main: its IRP, activeFragmentBuffer, fragmentOffset
  fragmentFree, fragment,    \* the fragment buffers, their events and contents
  todo, lastRead, readAhead, \* I/O: pieces left to do; the read-ahead buffer
  outstanding, noOutstanding,\* OutstandingIoCount and its event
  pending,                   \* IoThreadPendingRequestCount
  hold, suspended, suspendPending, queueResumed,  \* the thread in HoldWhenIdle
  stop, stopPending, exitRequested,               \* the thread in Stop
  areaStart, areaEnd, remap, \* the encrypted area; RemapEncryptedArea
  blocked, keysErased,       \* ThreadBlockReadWrite; the keys are gone
  hostVolume, protected,     \* ~IsFilterDevice; the sectors of its hidden volume
  protectionAction,          \* bHiddenVolProtectionAction
  disk, failures,            \* the device; errors so far
  moved, seen,               \* history: sectors transferred, what reads found
  late                       \* history: IRPs issued after the protection acted

irpVars == <<irp, ipc, data, asked, late>>
queueVars == <<queue, notEmpty>>
poolVars == <<item, freeRequests, poolBufferFree>>
handVars == <<own, req>>
mainVars == <<taken, active, next>>
fragmentVars == <<fragmentFree, fragment>>
ioVars == <<todo, lastRead, readAhead>>
pipeVars == <<mainVars, fragmentVars, ioVars>>
countVars == <<outstanding, noOutstanding, pending>>
holdVars == <<hold, suspended, suspendPending, queueResumed>>
stopVars == <<stop, stopPending, exitRequested>>
areaVars == <<areaStart, areaEnd, remap>>
keyVars == <<blocked, keysErased>>
volumeVars == <<hostVolume, protected, protectionAction>>
envVars == <<areaVars, keyVars, volumeVars>>
diskVars == <<disk, failures, moved, seen>>
outerVars == <<holdVars, stopVars, envVars, diskVars>>
workVars == <<irpVars, queueVars, poolVars, pc, handVars, pipeVars, diskVars>>
vars == <<workVars, countVars, holdVars, stopVars, envVars>>

-----------------------------------------------------------------------------
(* Contents and the cipher.                                                *)

Plain == -1
Garbage == <<NoIrp, -2>>

(* With erased keys the result is of no use to anybody.                    *)
Opened(c, u) == IF c[2] = u THEN <<c[1], Plain>> ELSE Garbage
Encrypt(c, u) == IF c[2] = Plain /\ ~keysErased THEN <<c[1], u>> ELSE Garbage
Decrypt(c, u) == IF keysErased THEN Garbage ELSE Opened(c, u)

Span(first, len) == first..first + len - 1

(* The encrypted area; a drive without one has -1 at either end.           *)
Area == IF areaStart = -1 \/ areaEnd = -1 THEN {} ELSE areaStart..areaEnd

(* Mutant of EncryptedPart: the last sector of the area is left out.       *)
EncryptedPartShort(S) == S \cap (Area \ {areaEnd})

(* GetIntersection of a fragment with the encrypted area.                  *)
EncryptedPart(S) == S \cap Area

(* Data units of a remapped area are numbered from its new place.          *)
Unit(s) == IF remap THEN s + RemapOffset ELSE s

(* Where the device keeps sector s, enc being the encrypted part of the    *)
(* fragment it belongs to.                                                 *)
Location(s, enc) == IF remap /\ s \in enc THEN s + RemapOffset ELSE s

Locations == Sectors \cup {s + RemapOffset : s \in Sectors}

(* What sector s holds for the file system.                                *)
PlainContent(s) == IF s \in Area THEN Opened(disk[Location(s, Area)], Unit(s))
                   ELSE disk[s]

-----------------------------------------------------------------------------
NoRequest == [op |-> "none", first |-> 0, len |-> 0]
IrpSectors(i) == Span(irp[i].first, irp[i].len)

FreeItem == [irp |-> NoIrp, status |-> "free"]
NoIoRequest == [item |-> 0, first |-> 0, len |-> 0, last |-> FALSE, enc |-> {}, buf |-> "A"]
Empty == [s \in {} |-> Garbage]

(* The queue after a successful Start: the pool filled with free buffers.  *)
Init ==
  /\ irp = [i \in Irps |-> NoRequest] /\ ipc = [i \in Irps |-> "idle"]
  /\ data = [i \in Irps |-> Empty] /\ asked = 0
  /\ queue = [t \in Threads |-> <<>>] /\ notEmpty = [t \in Threads |-> FALSE]
  /\ item = [k \in Items |-> FreeItem] /\ freeRequests = RequestCount
  /\ poolBufferFree = FALSE
  /\ pc = [t \in Threads |-> "wait"]
  /\ own = [t \in Threads |-> 0] /\ req = [t \in Threads |-> NoIoRequest]
  /\ taken = NoIrp /\ active = "A" /\ next = 0
  /\ fragmentFree = [b \in Fragments |-> TRUE] /\ fragment = [b \in Fragments |-> Empty]
  /\ todo = <<>> /\ lastRead = {} /\ readAhead = Empty
  /\ outstanding = 0 /\ noOutstanding = FALSE /\ pending = 0
  /\ hold = "idle" /\ suspended = FALSE /\ suspendPending = FALSE /\ queueResumed = FALSE
  /\ stop = "idle" /\ stopPending = FALSE /\ exitRequested = FALSE
  /\ \/ /\ hostVolume = FALSE /\ protected = {}
        /\ remap \in BOOLEAN
        /\ \E a \in IF remap THEN RemapAreas ELSE Areas : areaStart = a[1] /\ areaEnd = a[2]
     \/ /\ hostVolume = TRUE /\ protected \in HiddenVolumes
        /\ remap = FALSE
        /\ areaStart \in Sectors /\ areaEnd \in Sectors /\ Area = Sectors
  /\ protectionAction = FALSE
  /\ blocked = FALSE /\ keysErased = FALSE
  /\ disk = [l \in Locations |-> 
       IF remap THEN <<NoIrp, IF l - RemapOffset \in Area THEN l ELSE Plain>>
       ELSE <<NoIrp, IF l \in Area THEN l ELSE Plain>>]
  /\ failures = 0
  /\ moved = [i \in Irps |-> {}] /\ seen = [i \in Irps |-> [s \in {} |-> NoIrp]]
  /\ late = {}

-----------------------------------------------------------------------------
(* EncryptedIoQueueAddIrp.                                                 *)

IGoto(i, from, to) == ipc[i] = from /\ ipc' = [ipc EXCEPT ![i] = to]

(* A new IRP is counted.  A skewed read does not start on a sector         *)
(* boundary; it touches len sectors.                                       *)
Issue(i, op, first, len) ==
  /\ IGoto(i, "idle", "counted")
  /\ irp[i] = NoRequest
  /\ asked < MaxIrps /\ asked' = asked + 1
  /\ Span(first, len) \subseteq Sectors
  /\ op \in IF remap THEN RemapOperations ELSE Operations
  /\ irp' = [irp EXCEPT ![i] = [op |-> op, first |-> first, len |-> len]]
  /\ outstanding' = outstanding + 1
  /\ late' = IF protectionAction THEN late \cup {i} ELSE late
  /\ UNCHANGED <<data, queueVars, poolVars, pc, handVars, pipeVars, noOutstanding,
                 pending, outerVars>>

AddIrp(i) ==
  /\ IGoto(i, "counted", "idle")
  /\ ~stopPending
  /\ queue' = [queue EXCEPT !["main"] = Append(@, i)]
  /\ notEmpty' = [notEmpty EXCEPT !["main"] = TRUE]
  /\ UNCHANGED <<irp, data, asked, late, poolVars, pc, handVars, pipeVars, countVars,
                 outerVars>>

(* The queue is stopping: the count goes back down.                        *)
Reject(i) ==
  /\ IGoto(i, "counted", IF outstanding = 1 THEN "rejectSignal" ELSE "idle")
  /\ stopPending
  /\ irp' = [irp EXCEPT ![i] = NoRequest] /\ late' = late \ {i}
  /\ outstanding' = outstanding - 1
  /\ UNCHANGED <<data, asked, queueVars, poolVars, pc, handVars, pipeVars,
                 noOutstanding, pending, outerVars>>

RejectSignal(i) ==
  /\ IGoto(i, "rejectSignal", "idle")
  /\ noOutstanding' = TRUE
  /\ UNCHANGED <<irp, data, asked, late, queueVars, poolVars, pc, handVars, pipeVars,
                 outstanding, pending, outerVars>>

Requestor(i) == AddIrp(i) \/ Reject(i) \/ RejectSignal(i)

-----------------------------------------------------------------------------
(* What the three threads have in common.                                  *)

Goto(t, from, to) == pc[t] = from /\ pc' = [pc EXCEPT ![t] = to]

(* Only the main thread looks at its queue again when it is to exit.       *)
Wake(t) ==
  /\ Goto(t, "wait", IF t # "main" /\ exitRequested THEN "off" ELSE "pop")
  /\ notEmpty[t]
  /\ notEmpty' = [notEmpty EXCEPT ![t] = FALSE]
  /\ UNCHANGED <<irpVars, queue, poolVars, handVars, pipeVars, countVars, outerVars>>

(* while (!ThreadExitRequested).                                           *)
Drained(t) ==
  /\ Goto(t, "pop", IF exitRequested THEN "off" ELSE "wait")
  /\ queue[t] = <<>>
  /\ UNCHANGED <<irpVars, queueVars, poolVars, handVars, pipeVars, countVars,
                 outerVars>>

(* CompleteOriginalIrp, in five steps: the IRP, the count, its event, the  *)
(* item; the caller gives its request back last.                           *)
CompleteIrp(t) ==
  LET i == item[own[t]].irp IN
  /\ Goto(t, "complete", "decrement")
  /\ irp' = [irp EXCEPT ![i] = NoRequest] /\ late' = late \ {i}
  /\ data' = [data EXCEPT ![i] = Empty]
  /\ moved' = [moved EXCEPT ![i] = {}]
  /\ seen' = [seen EXCEPT ![i] = [s \in {} |-> NoIrp]]
  /\ UNCHANGED <<ipc, asked, queueVars, poolVars, handVars, pipeVars, countVars,
                 holdVars, stopVars, envVars, disk, failures>>

(* After DecrementOutstandingIoCount; a read-ahead has no item.            *)
AfterDecrement(t) == IF own[t] = 0 THEN "pop" ELSE "releaseItem"

Decrement(t) ==
  /\ Goto(t, "decrement", IF outstanding = 1 THEN "signalIdle" ELSE AfterDecrement(t))
  /\ outstanding' = outstanding - 1
  /\ UNCHANGED <<irpVars, queueVars, poolVars, handVars, pipeVars, noOutstanding,
                 pending, outerVars>>

(* Mutant of SomebodyWaits: Stop is not told.                              *)
OnlyHoldWaits == suspendPending

SomebodyWaits == suspendPending \/ stopPending

SignalIdle(t) ==
  /\ Goto(t, "signalIdle", AfterDecrement(t))
  /\ noOutstanding' = (noOutstanding \/ SomebodyWaits)
  /\ UNCHANGED <<irpVars, queueVars, poolVars, handVars, pipeVars, outstanding, pending,
                 outerVars>>

ReleaseItem(t) ==
  /\ Goto(t, "releaseItem", IF t = "main" THEN "pop" ELSE "releaseRequest")
  /\ item' = [item EXCEPT ![own[t]] = FreeItem]
  /\ own' = [own EXCEPT ![t] = 0]
  /\ poolBufferFree' = TRUE
  /\ UNCHANGED <<irpVars, queueVars, freeRequests, req, pipeVars, countVars, outerVars>>

ReleaseRequest(t) ==
  /\ Goto(t, "releaseRequest", "pop")
  /\ freeRequests' = freeRequests + 1
  /\ req' = [req EXCEPT ![t] = NoIoRequest]
  /\ own' = [own EXCEPT ![t] = 0]
  /\ poolBufferFree' = TRUE
  /\ UNCHANGED <<irpVars, queueVars, item, pipeVars, countVars, outerVars>>

Common(t) == \/ Wake(t) \/ Drained(t) \/ CompleteIrp(t) \/ Decrement(t)
             \/ SignalIdle(t) \/ ReleaseItem(t) \/ ReleaseRequest(t)

-----------------------------------------------------------------------------
(* MainThreadProc.                                                         *)

TakeIrp ==
  /\ Goto("main", "pop", "suspended")
  /\ queue["main"] # <<>>
  /\ taken' = queue["main"][1]
  /\ queue' = [queue EXCEPT !["main"] = Tail(@)]
  /\ UNCHANGED <<irpVars, notEmpty, poolVars, handVars, active, next, fragmentVars,
                 ioVars, countVars, outerVars>>

TestSuspended ==
  /\ Goto("main", "suspended", IF suspended THEN "resume" ELSE "item")
  /\ UNCHANGED <<irpVars, queueVars, poolVars, handVars, pipeVars, countVars,
                 outerVars>>

AwaitResume ==
  /\ Goto("main", "resume", "item")
  /\ queueResumed
  /\ queueResumed' = FALSE
  /\ UNCHANGED <<irpVars, queueVars, poolVars, handVars, pipeVars, countVars, hold,
                 suspended, suspendPending, stopVars, envVars, diskVars>>

(* GetPoolBuffer reuses the first free buffer of the pool; the pool was    *)
(* filled by Start, so that it never grows and an empty one means to wait. *)
(* A request has one holder at any time: it is kept with that holder.      *)
FirstFree(S) == CHOOSE k \in S : \A l \in S : k <= l
FreeItems == {k \in Items : item[k] = FreeItem}

PoolEmpty(from, to, empty) ==
  /\ Goto("main", from, to)
  /\ empty
  /\ UNCHANGED <<irpVars, queueVars, poolVars, handVars, pipeVars, countVars,
                 outerVars>>

AwaitPoolBuffer(from, to) ==
  /\ Goto("main", from, to)
  /\ poolBufferFree
  /\ poolBufferFree' = FALSE
  /\ UNCHANGED <<irpVars, queueVars, item, freeRequests, handVars, pipeVars, countVars,
                 outerVars>>

GetItem(status, to) ==
  /\ Goto("main", "item", to)
  /\ FreeItems # {}
  /\ item' = [item EXCEPT ![FirstFree(FreeItems)] = [irp |-> taken, status |-> status]]
  /\ own' = [own EXCEPT !["main"] = FirstFree(FreeItems)]
  /\ taken' = NoIrp
  /\ UNCHANGED <<irpVars, queueVars, freeRequests, poolBufferFree, req, active,
                 fragmentVars, ioVars, countVars, holdVars, stopVars, areaVars, keyVars,
                 hostVolume, protected, diskVars>>

(* Mutant of Endangers: only a write that begins in the hidden volume.     *)
BeginsInside(i) == irp[i].first \in protected

(* The write touches the hidden volume.                                    *)
Endangers(i) == IrpSectors(i) \cap protected # {}

(* Writes to the volume header of a boot drive are refused.  So are those  *)
(* to the hidden volume in a mounted one, and after the first of them all  *)
(* others.  A mounted volume takes no misaligned reads.                    *)
Denied(i) ==
  IF hostVolume
  THEN \/ irp[i].op = "write" /\ protected # {} /\ (protectionAction \/ Endangers(i))
       \/ irp[i].op = "skewed"
  ELSE irp[i].op = "write" /\ IrpSectors(i) \cap HeaderSectors # {}

(* Cancelled, invalid or denied.  Cancelling and the other validations do  *)
(* not depend on the state of the queue: any IRP may fail them.            *)
Refuse == GetItem("failed", "complete") /\ UNCHANGED <<next, protectionAction>>

(* The hidden volume protection is triggered.                              *)
Protect ==
  /\ GetItem("failed", "complete")
  /\ hostVolume /\ irp[taken].op = "write" /\ ~protectionAction /\ Endangers(taken)
  /\ protectionAction' = TRUE
  /\ UNCHANGED next

Accept ==
  /\ GetItem("ok", IF irp[taken].op = "skewed" THEN "misaligned" ELSE "fragment")
  /\ ~Denied(taken)
  /\ next' = irp[taken].first
  /\ UNCHANGED protectionAction

MainIrp == item[own["main"]].irp

(* Bound on the errors of the device; a sector that failed to be written   *)
(* may have been written all the same.                                     *)
MayFail == failures < MaxFailures /\ (remap => RemapFailures)

(* A misaligned read of the boot drive is done here and now, past the I/O  *)
(* thread and its read-ahead buffer, without regard to remapping.          *)
ReadMisaligned ==
  /\ pc["main"] = "misaligned"
  /\ LET i == MainIrp
         S == IrpSectors(i) IN
     \/ /\ Goto("main", "misaligned", "decrypt")
        /\ data' = [data EXCEPT ![i] = [s \in S |-> disk[s]]]
        /\ moved' = [moved EXCEPT ![i] = S]
        /\ seen' = [seen EXCEPT ![i] = [s \in S |-> PlainContent(s)[1]]]
        /\ UNCHANGED <<item, failures>>
     \/ /\ Goto("main", "misaligned", "complete")
        /\ MayFail /\ failures' = failures + 1
        /\ item' = [item EXCEPT ![own["main"]].status = "failed"]
        /\ UNCHANGED <<data, moved, seen>>
  /\ UNCHANGED <<irp, ipc, asked, late, queueVars, freeRequests, poolBufferFree, handVars,
                 pipeVars, countVars, holdVars, stopVars, envVars, disk>>

DecryptMisaligned ==
  /\ Goto("main", "decrypt", "complete")
  /\ data' = [data EXCEPT ![MainIrp] =
       [s \in DOMAIN @ |-> IF s \in Area THEN Decrypt(@[s], s) ELSE @[s]]]
  /\ UNCHANGED <<irp, ipc, asked, late, queueVars, poolVars, handVars, pipeVars, countVars,
                 outerVars>>

Toggle(b) == IF b = "A" THEN "B" ELSE "A"

NextFragment ==
  /\ Goto("main", "fragment", "request")
  /\ active' = Toggle(active)
  /\ pending' = pending + 1
  /\ UNCHANGED <<irpVars, queueVars, poolVars, handVars, taken, next, fragmentVars,
                 ioVars, outstanding, noOutstanding, outerVars>>

(* The request, with the part of it that is in the encrypted area.         *)
GetRequest ==
  LET k == irp[MainIrp]
      left == k.first + k.len - next
      len == IF left <= FragmentSize THEN left ELSE FragmentSize IN
  /\ Goto("main", "request", "buffer")
  /\ freeRequests > 0 /\ freeRequests' = freeRequests - 1
  /\ req' = [req EXCEPT !["main"] =
       [item |-> own["main"], first |-> next, len |-> len, last |-> left <= FragmentSize,
        enc |-> EncryptedPart(Span(next, len)), buf |-> active]]
  /\ UNCHANGED <<irpVars, queueVars, item, poolBufferFree, own, pipeVars, countVars,
                 outerVars>>

FragmentSectors(r) == Span(r.first, r.len)

(* Mutant of Acquired: the buffer is taken without waiting for its event.  *)
NotAcquired(b) == TRUE

Acquired(b) == fragmentFree[b]

(* AcquireFragmentBuffer; a write is copied into the buffer and encrypted. *)
FillFragment ==
  LET r == req["main"] IN
  /\ Goto("main", "buffer", "queue")
  /\ Acquired(active)
  /\ fragmentFree' = [fragmentFree EXCEPT ![active] = FALSE]
  /\ fragment' = [fragment EXCEPT ![active] =
       IF irp[MainIrp].op = "read" THEN Empty
       ELSE [s \in FragmentSectors(r) |->
               IF s \in r.enc THEN Encrypt(<<MainIrp, Plain>>, Unit(s))
               ELSE <<MainIrp, Plain>>]]
  /\ UNCHANGED <<irpVars, queueVars, poolVars, handVars, mainVars, ioVars, countVars,
                 outerVars>>

QueueFragment ==
  LET r == req["main"] IN
  /\ Goto("main", "queue", IF r.last THEN "pop" ELSE "fragment")
  /\ queue' = [queue EXCEPT !["io"] = Append(@, r)]
  /\ notEmpty' = [notEmpty EXCEPT !["io"] = TRUE]
  /\ req' = [req EXCEPT !["main"] = NoIoRequest]
  /\ own' = [own EXCEPT !["main"] = IF r.last THEN 0 ELSE @]
  /\ next' = IF r.last THEN 0 ELSE next + FragmentSize
  /\ UNCHANGED <<irpVars, poolVars, taken, active, fragmentVars, ioVars, countVars,
                 outerVars>>

Main == \/ Common("main") \/ TakeIrp \/ TestSuspended \/ AwaitResume
        \/ PoolEmpty("item", "itemWait", FreeItems = {}) \/ AwaitPoolBuffer("itemWait", "item")
        \/ Refuse \/ Protect \/ Accept \/ ReadMisaligned \/ DecryptMisaligned
        \/ NextFragment
        \/ PoolEmpty("request", "requestWait", freeRequests = 0)
        \/ AwaitPoolBuffer("requestWait", "request")
        \/ GetRequest \/ FillFragment \/ QueueFragment

-----------------------------------------------------------------------------
(* IoThreadProc.                                                           *)

(* Mutant of SubFragments: the loop ends too early.                        *)
TwoSubFragments == 2

SubFragments == 3

(* One of them, unless it is empty.                                        *)
Part(n, P) == IF n <= SubFragments /\ P # {} THEN <<P>> ELSE <<>>

(* The device operations a fragment takes: one, or up to three if only a   *)
(* part of it is remapped.                                                 *)
Pieces(r) ==
  LET S == FragmentSectors(r) IN
  IF remap /\ r.enc # {}
  THEN Part(1, {s \in S : \A e \in r.enc : s < e}) \o Part(2, r.enc)
         \o Part(3, {s \in S : \A e \in r.enc : s > e})
  ELSE <<S>>

(* Mutant of Permitted: the block is ignored.                              *)
PermittedAlways(k) == item[k].status = "ok"

(* Nothing is done for an item that failed already, or when blocked.       *)
Permitted(k) == item[k].status = "ok" /\ ~blocked

TakeRequest ==
  /\ pc["io"] = "pop" /\ queue["io"] # <<>>
  /\ LET r == queue["io"][1]
         k == r.item IN
     /\ Goto("io", "pop", IF Permitted(k) THEN "device" ELSE "done")
     /\ req' = [req EXCEPT !["io"] = r] /\ own' = [own EXCEPT !["io"] = k]
     /\ item' = [item EXCEPT ![k].status = IF Permitted(k) THEN @ ELSE "failed"]
     /\ todo' = IF Permitted(k) THEN Pieces(r) ELSE <<>>
  /\ queue' = [queue EXCEPT !["io"] = Tail(@)]
  /\ pending' = pending - 1
  /\ UNCHANGED <<irpVars, notEmpty, freeRequests, poolBufferFree, mainVars, fragmentVars,
                 lastRead, readAhead, outstanding, noOutstanding, outerVars>>

IoRequest == req["io"]
IoIrp == item[own["io"]].irp
Writing == irp[IoIrp].op = "write"
Merge(f, g) == [x \in DOMAIN f \cup DOMAIN g |-> IF x \in DOMAIN g THEN g[x] ELSE f[x]]

Place(P) == {Location(s, IoRequest.enc) : s \in P}

WritePiece(P) ==
  /\ disk' = Merge(disk, [l \in Place(P) |->
       fragment[IoRequest.buf][CHOOSE s \in P : l = Location(s, IoRequest.enc)]])
  /\ moved' = [moved EXCEPT ![IoIrp] = @ \cup P]
  /\ UNCHANGED <<fragment, seen>>

(* TCCachedRead: the read-ahead buffer serves a read that starts where the *)
(* buffer starts and is not longer.                                        *)
Cached(L) == /\ L \subseteq DOMAIN readAhead
             /\ \A l \in DOMAIN readAhead : \E m \in L : m <= l

ReadPiece(P) ==
  LET source == IF Cached(Place(P)) THEN readAhead ELSE disk IN
  /\ fragment' = [fragment EXCEPT ![IoRequest.buf] =
       Merge(@, [s \in P |-> source[Location(s, IoRequest.enc)]])]
  /\ moved' = [moved EXCEPT ![IoIrp] = @ \cup P]
  /\ seen' = [seen EXCEPT ![IoIrp] = Merge(@, [s \in P |-> PlainContent(s)[1]])]
  /\ UNCHANGED disk

(* One device operation.  Its result is the item's new status, whatever    *)
(* the status was before.                                                  *)
DoPiece ==
  /\ pc["io"] = "device"
  /\ Goto("io", "device", IF Len(todo) = 1 THEN "done" ELSE "device")
  /\ todo' = Tail(todo)
  /\ lastRead' = IF Writing THEN lastRead ELSE Place(todo[1])
  /\ \/ /\ IF Writing THEN WritePiece(todo[1]) ELSE ReadPiece(todo[1])
        /\ item' = [item EXCEPT ![own["io"]].status = "ok"]
        /\ UNCHANGED failures
     \/ /\ MayFail /\ failures' = failures + 1
        /\ item' = [item EXCEPT ![own["io"]].status = "failed"]
        /\ \/ Writing /\ WritePiece(todo[1])
           \/ UNCHANGED <<disk, fragment, moved, seen>>
  /\ UNCHANGED <<irpVars, queueVars, freeRequests, poolBufferFree, handVars, mainVars,
                 fragmentFree, readAhead, countVars, holdVars, stopVars, envVars>>

ReleaseFragmentBuffer(b) ==
  /\ fragmentFree' = [fragmentFree EXCEPT ![b] = TRUE]
  /\ fragment' = [fragment EXCEPT ![b] = Empty]      \* not used again before it is filled

AfterRequest(r) == IF r.last THEN "complete" ELSE "releaseRequest"

(* Mutant of AfterWrite: the read-ahead buffer outlives a write.           *)
ReadAheadKept == readAhead

(* ReadAheadBufferValid = FALSE.                                           *)
AfterWrite == Empty

WriteDone ==
  /\ pc["io"] = "done" /\ Writing
  /\ Goto("io", "done", AfterRequest(req["io"]))
  /\ readAhead' = AfterWrite
  /\ ReleaseFragmentBuffer(IoRequest.buf)
  /\ UNCHANGED <<irpVars, queueVars, poolVars, handVars, mainVars, todo, lastRead,
                 countVars, outerVars>>

(* Mutant of CountAhead: the read-ahead is not counted.                    *)
NotCounted(ahead) == outstanding

CountAhead(ahead) == IF ahead THEN outstanding + 1 ELSE outstanding

(* The IRP gets its data, still encrypted; the last fragment starts a      *)
(* read-ahead if no request follows.                                       *)
ReadDone ==
  /\ pc["io"] = "done" /\ ~Writing
  /\ LET ok == item[own["io"]].status = "ok"
         ahead == IoRequest.last /\ ok /\ pending = 0 IN
     /\ Goto("io", "done", IF ahead THEN "postAhead" ELSE "post")
     /\ data' = [data EXCEPT ![IoIrp] = IF ok THEN Merge(@, fragment[IoRequest.buf]) ELSE @]
     /\ outstanding' = CountAhead(ahead)
     /\ lastRead' = IF ahead THEN lastRead ELSE {}
  /\ ReleaseFragmentBuffer(IoRequest.buf)
  /\ UNCHANGED <<irp, ipc, asked, late, queueVars, poolVars, handVars, mainVars, todo,
                 readAhead, noOutstanding, pending, outerVars>>

PostCompletion(from, to) ==
  /\ Goto("io", from, to)
  /\ queue' = [queue EXCEPT !["completion"] = Append(@, req["io"])]
  /\ notEmpty' = [notEmpty EXCEPT !["completion"] = TRUE]
  /\ req' = [req EXCEPT !["io"] = NoIoRequest] /\ own' = [own EXCEPT !["io"] = 0]
  /\ UNCHANGED <<irpVars, poolVars, pipeVars, countVars, outerVars>>

(* As much again as was read last, right behind it, if the drive has that  *)
(* much and can read it; nobody learns of an error here, so none counts.   *)
ReadAhead ==
  LET L == {l + Cardinality(lastRead) : l \in lastRead} IN
  /\ Goto("io", "readAhead", "decrement")
  /\ \/ L \subseteq Locations /\ readAhead' = [l \in L |-> disk[l]]
     \/ (MayFail \/ ~(L \subseteq Locations)) /\ readAhead' = Empty
  /\ lastRead' = {}
  /\ UNCHANGED <<irpVars, queueVars, poolVars, handVars, mainVars, fragmentVars, todo,
                 countVars, outerVars>>

Io == \/ Common("io") \/ TakeRequest \/ DoPiece \/ WriteDone \/ ReadDone
      \/ PostCompletion("post", "pop") \/ PostCompletion("postAhead", "readAhead")
      \/ ReadAhead

-----------------------------------------------------------------------------
(* CompletionThreadProc.                                                   *)

DecryptFragment ==
  /\ pc["completion"] = "pop" /\ queue["completion"] # <<>>
  /\ LET r == queue["completion"][1]
         k == r.item
         i == item[k].irp IN
     /\ pc' = [pc EXCEPT !["completion"] = AfterRequest(r)]
     /\ req' = [req EXCEPT !["completion"] = r] /\ own' = [own EXCEPT !["completion"] = k]
     /\ data' = IF item[k].status = "ok"
                THEN [data EXCEPT ![i] = Merge(@,
                       [s \in r.enc \cap DOMAIN @ |-> Decrypt(@[s], Unit(s))])]
                ELSE data
  /\ queue' = [queue EXCEPT !["completion"] = Tail(@)]
  /\ UNCHANGED <<irp, ipc, asked, late, notEmpty, poolVars, pipeVars, countVars, outerVars>>

Completion == Common("completion") \/ DecryptFragment

-----------------------------------------------------------------------------
(* EncryptedIoQueueHoldWhenIdle, called by one thread at a time, and never *)
(* while another stops the queue: a shutdown ends the setup thread first.  *)

HGoto(from, to) == hold = from /\ hold' = to

HoldEnter ==
  /\ HGoto("idle", "count")
  /\ stop = "idle"
  /\ suspendPending' = TRUE
  /\ UNCHANGED <<workVars, suspended, countVars, queueResumed, stopVars, envVars>>

HoldBegin == "hold" \in Controls /\ HoldEnter

HoldCount ==
  /\ HGoto("count", IF outstanding > 0 THEN "wait" ELSE "suspend")
  /\ UNCHANGED <<workVars, suspended, countVars, suspendPending, queueResumed, stopVars,
                 envVars>>

HoldWait ==
  /\ HGoto("wait", "sleep")
  /\ noOutstanding
  /\ noOutstanding' = FALSE
  /\ UNCHANGED <<workVars, pending, outstanding, suspended, suspendPending,
                 queueResumed, stopVars, envVars>>

HoldGiveUp ==
  /\ suspendPending' = FALSE
  /\ UNCHANGED <<workVars, suspended, countVars, queueResumed, stopVars, envVars>>

HoldTimeout == HGoto("wait", "idle") /\ HoldGiveUp

(* Awake again after TCSleep: somebody was faster, or else it looks again. *)
HoldOvertaken == HGoto("sleep", "idle") /\ outstanding > 0 /\ HoldGiveUp

HoldIdle ==
  /\ HGoto("sleep", "count")
  /\ outstanding = 0
  /\ UNCHANGED <<workVars, suspended, countVars, suspendPending, queueResumed, stopVars,
                 envVars>>

HoldSuspend ==
  /\ HGoto("suspend", "recheck")
  /\ queueResumed' = FALSE /\ suspended' = TRUE
  /\ UNCHANGED <<workVars, suspendPending, countVars, stopVars, envVars>>

(* Mutant of NobodyCameIn: the second look is left out.                    *)
NobodyCanCome == TRUE

NobodyCameIn == outstanding = 0

HoldConfirm ==
  /\ HGoto("recheck", "held")
  /\ NobodyCameIn
  /\ readAhead' = Empty /\ suspendPending' = FALSE
  /\ UNCHANGED <<irpVars, queueVars, poolVars, pc, handVars, mainVars, fragmentVars,
                 todo, lastRead, countVars, suspended, queueResumed, stopVars, envVars,
                 diskVars>>

HoldRetreat ==
  /\ HGoto("recheck", "letGo")
  /\ ~NobodyCameIn
  /\ suspended' = FALSE
  /\ UNCHANGED <<workVars, suspendPending, countVars, queueResumed, stopVars, envVars>>

(* Mutant of Resumed: the event is not set.                                *)
NotResumed == queueResumed

Resumed == TRUE

SignalResumed(from, to) ==
  /\ HGoto(from, to)
  /\ queueResumed' = Resumed
  /\ UNCHANGED <<workVars, suspended, countVars, suspendPending, stopVars, envVars>>

HoldWhenIdle == \/ HoldCount \/ HoldWait \/ HoldTimeout \/ HoldOvertaken \/ HoldIdle
                \/ HoldSuspend \/ HoldConfirm \/ HoldRetreat \/ SignalResumed("letGo", "count")

(* EncryptedIoQueueResumeFromHold.                                         *)
ResumeFromHold ==
  /\ HGoto("held", "resuming")
  /\ suspended' = FALSE
  /\ UNCHANGED <<workVars, suspendPending, countVars, queueResumed, stopVars, envVars>>

Holder == HoldWhenIdle \/ SignalResumed("resuming", "idle")

-----------------------------------------------------------------------------
(* EncryptedIoQueueStop; TCStopThread sets the thread's event and waits    *)
(* for the thread to end.                                                  *)

SGoto(from, to) == stop = from /\ stop' = to

StopBegin ==
  /\ SGoto("idle", "count")
  /\ "stop" \in Controls /\ hold = "idle"
  /\ stopPending' = TRUE
  /\ UNCHANGED <<workVars, holdVars, countVars, exitRequested, envVars>>

StopCount ==
  /\ SGoto("count", IF outstanding > 0 THEN "wait" ELSE "exit")
  /\ UNCHANGED <<workVars, holdVars, countVars, stopPending, exitRequested, envVars>>

StopWait ==
  /\ SGoto("wait", "count")
  /\ noOutstanding
  /\ noOutstanding' = FALSE
  /\ UNCHANGED <<workVars, pending, outstanding, holdVars, stopPending, exitRequested,
                 envVars>>

StopExit ==
  /\ SGoto("exit", "main")
  /\ exitRequested' = TRUE
  /\ notEmpty' = [notEmpty EXCEPT !["main"] = TRUE]
  /\ UNCHANGED <<irpVars, queue, poolVars, pc, handVars, pipeVars, countVars, holdVars,
                 stopPending, envVars, diskVars>>

(* Mutant of Ended: the thread is told to end, but not waited for.         *)
NotAwaited(t) == TRUE

Ended(t) == pc[t] = "off"

StopNext(t, u) ==
  /\ SGoto(t, u)
  /\ Ended(t)
  /\ notEmpty' = IF u = "stopped" THEN notEmpty ELSE [notEmpty EXCEPT ![u] = TRUE]
  /\ UNCHANGED <<irpVars, queue, poolVars, pc, handVars, pipeVars, countVars, holdVars,
                 stopPending, exitRequested, envVars, diskVars>>

Stop == \/ StopCount \/ StopWait \/ StopExit \/ StopNext("main", "io")
        \/ StopNext("io", "completion") \/ StopNext("completion", "stopped")

-----------------------------------------------------------------------------
(* InvalidateDriveFilterKeys.  That the keys of mounted volumes are erased *)
(* with them (InvalidateVolumeKeys) is left out.                           *)

Block ==
  /\ "erase" \in Controls /\ ~hostVolume /\ ~blocked /\ stop = "idle"
  /\ blocked' = TRUE
  /\ UNCHANGED <<workVars, holdVars, countVars, stopVars, areaVars, keysErased, volumeVars>>

EraseKeys ==
  /\ blocked /\ ~keysErased
  /\ keysErased' = TRUE
  /\ UNCHANGED <<workVars, holdVars, countVars, stopVars, areaVars, blocked, volumeVars>>

(* All that the bound allows to ask has been answered.                     *)
Finished == /\ asked = MaxIrps /\ \A i \in Irps : irp[i] = NoRequest
            /\ hold = "idle" /\ stop \in {"idle", "stopped"}
            /\ UNCHANGED vars

Ask(i) == \E op \in Operations \cup RemapOperations, first \in Sectors, len \in 1..MaxLength :
            Issue(i, op, first, len)

QueueNext == \/ \E i \in Irps : Ask(i) \/ Requestor(i)
             \/ Main \/ Io \/ Completion \/ Holder
             \/ StopBegin \/ Stop \/ Block \/ EraseKeys \/ Finished

Next == QueueNext \/ HoldBegin \/ ResumeFromHold

Spec == Init /\ [][Next]_vars

(* The threads run when they can; nobody has to ask, hold or stop, but     *)
(* whoever holds the queue lets go of it again.                            *)
Fairness == /\ \A i \in Irps : WF_vars(Requestor(i))
            /\ WF_vars(Main) /\ WF_vars(Io) /\ WF_vars(Completion)
            /\ WF_vars(Holder) /\ WF_vars(ResumeFromHold) /\ WF_vars(Stop)

FairSpec == Spec /\ Fairness

-----------------------------------------------------------------------------
(* Properties.                                                             *)

Units == {Plain, -2} \cup Locations
Contents == (Irps \cup {NoIrp}) \X Units

(* Shapes and ranges; the counts never go below zero.                      *)
TypeOK ==
  /\ \A i \in Irps : irp[i].op \in {"none", "read", "write", "skewed"}
  /\ ipc \in [Irps -> {"idle", "counted", "rejectSignal"}]
  /\ outstanding \in Nat /\ pending \in Nat
  /\ \A k \in Items : item[k].irp \in Irps \cup {NoIrp}
                      /\ item[k].status \in {"free", "ok", "failed"}
  /\ own \in [Threads -> 0..ItemCount] /\ freeRequests \in 0..RequestCount
  /\ active \in Fragments /\ fragmentFree \in [Fragments -> BOOLEAN]
  /\ disk \in [Locations -> Contents]

(* While the queue is held nothing is under way that has looked at the     *)
(* encrypted area or at the device: the area may be moved.                 *)
Working(t) ==
  pc[t] \in {"item", "itemWait", "misaligned", "decrypt", "fragment", "request", "requestWait",
             "buffer", "queue", "device", "done", "post", "postAhead", "readAhead",
             "complete", "decrement"}

HeldMeansIdle ==
  hold = "held" =>
    /\ \A t \in Threads : ~Working(t)
    /\ queue["io"] = <<>> /\ queue["completion"] = <<>>
    /\ readAhead = Empty

(* A read that succeeds returns what its sectors held when they were read, *)
(* decrypted; it does not matter whether they came from the device or from *)
(* the read-ahead buffer.  Erasing the keys spoils the reads under way.    *)
ReadsReturnContent ==
  \A t \in Threads :
    LET k == own[t]
        i == item[k].irp IN
    pc[t] = "complete" /\ item[k].status = "ok" /\ irp[i].op # "write" /\ ~blocked
      => data[i] = [s \in IrpSectors(i) |-> <<seen[i][s], Plain>>]

(* The same for the drive of a hidden system, of which the documentation   *)
(* says that all its reads are redirected to the hidden volume.            *)
HiddenReadsRedirected == remap => ReadsReturnContent

(* A fragment buffer has one user at a time: the request that is being     *)
(* filled, waits for the I/O thread or is in its hands.                    *)
BufferUsers(b) ==
  {<<"queued", n>> : n \in {m \in DOMAIN queue["io"] : queue["io"][m].buf = b}}
    \cup {<<t, 0>> : t \in {u \in {"main"} : pc[u] = "queue" /\ req[u].buf = b}}
    \cup {<<t, 0>> : t \in {u \in {"io"} : pc[u] \in {"device", "done"} /\ req[u].buf = b}}

OneUserPerBuffer ==
  \A b \in Fragments : Cardinality(BufferUsers(b)) = IF fragmentFree[b] THEN 0 ELSE 1

(* No I/O is performed for an item after one of its operations has failed. *)
NoIoAfterFailure == pc["io"] = "device" => item[own["io"]].status = "ok"

(* With the keys erased, nothing that was encrypted with what is left of   *)
(* them ever reaches the disk.                                             *)
DiskStaysReadable == \A s \in Sectors : PlainContent(s) # Garbage

(* The hidden volume keeps what it holds, and once the protection has      *)
(* acted, no write that is issued after that reaches any sector of the     *)
(* volume, though fragments of earlier ones may still be on their way: the *)
(* documentation says that the whole volume becomes write-protected "as    *)
(* soon as a write operation to the hidden volume area is denied"          *)
(* (Protection of Hidden Volumes.html:69).                                 *)
HiddenVolumeKept ==
  /\ \A s \in protected : disk[s] = <<NoIrp, s>>
  /\ \A i \in late : irp[i].op = "write" => moved[i] = {}

(* When Stop frees the pool no buffer of it is in use (the code asserts    *)
(* that), although the count it waited for drops before they are released. *)
StopLeavesNothing ==
  stop = "stopped" => FreeItems = Items /\ freeRequests = RequestCount
                      /\ \A t \in Threads : queue[t] = <<>>

(* The drive looks like a disk of plain sectors.  The result of an IRP is  *)
(* settled when some thread is about to complete it.                       *)
Completing(i) == {t \in Threads : pc[t] = "complete" /\ item[own[t]].irp = i}
PlainIrp(i) ==
  [op |-> IF irp[i].op = "skewed" THEN "read" ELSE irp[i].op,
   first |-> irp[i].first, len |-> irp[i].len,
   status |-> IF irp[i].op = "none" \/ Completing(i) = {} THEN "pending"
              ELSE item[own[CHOOSE t \in Completing(i) : TRUE]].status]
Below == INSTANCE PlainDisk WITH plain <- [s \in Sectors |-> PlainContent(s)[1]],
                                 irp <- [i \in Irps |-> PlainIrp(i)]
ImplementsPlainDisk == Below!Spec

(* Every IRP is answered, held up or not.                                  *)
IrpsAnswered == \A i \in Irps : irp[i].op # "none" ~> irp[i].op = "none"

(* Stop comes to its end.                                                  *)
StopReturns == stop # "idle" ~> stop = "stopped"
=============================================================================
