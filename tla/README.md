# A verification project for VeraCrypt's encryption pipeline

TLA+ modules, TLC configurations and TLAPS proofs about the parts of VeraCrypt
where order, failure and concurrency decide whether data survives: the thread
pool that runs the ciphers, the header read that tries all key derivations on
it, the queue through which the driver encrypts the I/O of drives and volumes,
the setup thread that encrypts or decrypts the system drive while it is in use,
and the tools that convert a partition where it lies and rewrite its headers.
Paths below are relative to `src/VeraCrypt/src/`.

Contents: [the system](#1-the-system), [plan](#2-plan),
[thread pool and header read](#3-the-encryption-thread-pool),
[I/O queue](#4-the-encrypted-io-queue), [setup thread](#5-the-setup-thread),
[in-place encryption](#6-in-place-encryption-and-the-header-tools),
[runs](#7-runs-and-bounds), [proofs](#8-what-is-proved),
[divergences found](#9-where-the-code-and-its-words-part),
[not modelled](#10-what-is-not-modelled).

## 1. The system

The repository holds three trees. `VeraCrypt/` is the program: a Windows kernel
driver with its user-mode tools, and a portable C++ core with a FUSE service for
Linux, macOS and FreeBSD. `EFI/` is the DCS boot loader with a second copy of
the same sources. `S.S.E/` is an independent Java program. The first is what
this project is about.

| component | state it keeps | operations | who it talks to | what is hard | what makes it correct |
|---|---|---|---|---|---|
| **Encryption thread pool (C)** `Common/EncryptionThreadPool.c` | ring of work items, two positions, two mutexes, two pool-wide auto-reset events and one per item | Start, Stop, DoWork, BeginKeyDerivation, BeginReadVolumeHeaderFinalization, the pool threads | called by every I/O path and by `ReadVolumeHeader` | slots are reused while threads still read them; auto-reset events lose second signals; clients fill the ring together; Stop against queued items | each unit is transformed exactly once; each call returns; each event has one waiter; keys are burned |
| **Encrypted I/O queue** `Driver/EncryptedIoQueue.c` | three thread queues, a buffer pool, two fragment buffers, a read-ahead buffer, counters, flags | Start, AddIrp, HoldWhenIdle, ResumeFromHold, Stop, three threads | drive filter and mounted volumes put IRPs in; setup thread holds it; pool does the ciphers | five kinds of thread, lock-free counters, events, early completion, device errors in part of an IRP | it is a disk of plain sectors; a protected hidden volume is never written; a held queue is idle; every IRP is answered; Stop returns and frees nothing in use |
| **Boot drive filter** `Driver/DriveFilter.c` | per-drive extension: header, keys, encrypted area, queue | mount at boot, dispatch, IOCTLs, key erasure, shutdown | queue, setup thread, user-mode service | keys erased under running I/O; remapped area of a hidden system | nothing encrypted with erased keys reaches the drive |
| **Setup thread** `Driver/DriveFilter.c:1565-1945, 2170-2184` | the area's boundary, the block in its buffer, the header on the drive, an abort flag | start, abort, encrypt, decrypt, wipe passes, undo, header save, dismount | holds the queue for each block; device controls join it under a mutex it wants itself | error in the middle of a block; restart with an old header; abort against dismount | the file system sees one plain disk; a restart loses a bounded number of sectors, and none after an orderly end; nobody waits for ever |
| **In-place encryption** `Format/InPlace.c` | header copies at both ends, boundary, wipe passes, the concealed start of the file system, a count of pending jobs | begin, resume, decrypt, pause | file system, header code, the wizard | a power failure between or in any two writes; unreadable sectors; changes of direction | content survives but for a bounded run; both headers agree; the file system is concealed exactly while it must be |
| **Header tools** `Common/Password.c` (ChangePwd), `Mount/Mount.c` (RestoreVolumeHeader) | the header they copy | change the password, restore the embedded backup | the partition an in-place job may have left incomplete | each header is written apart from the other; the primary's place may hold data | as above |
| **Parallel header read** `Common/Volumes.c` (ReadVolumeHeader) | key derivation items with flags and events | derive all PRFs on the pool, try as they finish | pool | the first hit returns while derivations still run; items are reused; the finalization owns the buffers | the right key is found; the buffers are freed after the last derivation |
| **Thread pool (C++)** `Volume/EncryptionThreadPool.cpp` | the same ring | the same, with exceptions | volumes, FUSE | an exception in one fragment | as the C pool; one exception gets back to its caller |
| **Volume and its protected range** `Volume/Volume.cpp` | offsets, protected range, trigger flag | read, write, check protected range | FUSE, core | range arithmetic, an alarm in the middle of a write | no write touches the protected range |
| **Mounted volumes of the driver** `Driver/Ntdriver.c`, `Ntvol.c` | slots of devices | mount, dismount, IOCTLs | queue, mount manager | dismount under I/O | a slot has one owner |
| **Portable core** `Core/` | mounted volumes, creator thread | mount, dismount, create | core service, FUSE | clean-up after partial failure, abort | nothing left mounted half-way |
| **Elevated core service** `Core/Unix/CoreService.cpp` | a pair of pipes, a child with privileges | request, response, elevate | core | a dead peer, wrong password, fork | one answer per request |
| **FUSE service** `Driver/Fuse/FuseService.cpp` | the mounted volume | callbacks, close | volume | callbacks against dismount | none after close |
| **Password cache, random pool, expansion, formatting** `Common/Cache.c`, `Random.c`, `ExpandVolume/` | small rings and header copies | sequential | each other | order of header writes | a readable header at any moment |
| boot loader, crash dump and volume filters, wizards, `Common/BootEncryption.cpp`, `EFI/`, `S.S.E/` | | | | single-threaded or pass-through | |

How they interact: a read or write of a mounted device is an IRP for a queue;
the queue's main and completion threads call `EncryptDataUnits` and
`DecryptDataUnits`, which call the pool's DoWork; mounting calls
`ReadVolumeHeader`, which uses the pool's Begin functions from another thread
at the same time; the setup thread stops a drive's queue between two IRPs
(HoldWhenIdle), re-encrypts a block under it, moves the area's boundary in the
queue and lets it go on. They share no other mutable state.

`PROJECT.json` lists all components with their status, and, under `hazards`,
what in this code is hard to test, at the line where it bites.

## 2. Plan

1. *Done.* `CryptService` (abstract) and `EncryptionThreadPool`. Proofs:
   `EncryptionThreadPoolProofs`.
2. *Done.* `PlainDisk` (abstract) and `EncryptedIoQueue`, in the boot drive
   filter's use of it; then in that of mounted volumes (step 5). Proofs:
   `EncryptedIoQueueProofs`, `EncryptedIoQueueDisk`, `EncryptedIoQueueReads`.
3. *Done.* `BootEncryptionSetup`: the setup thread and the device controls on
   top of the queue. It EXTENDS EncryptedIoQueue, whose next-state relation is
   kept in two parts for it: `QueueNext`, and the stand-ins `HoldBegin` and
   `ResumeFromHold`, which the setup thread's own actions replace. Proofs:
   `BootEncryptionSetupProofs`. Still to
   come there: the requests to zero or discard unreadable sectors, and the
   decoy system's wipe thread, which shares this one's code.
4. *Done.* `InPlaceEncryption` and, on top of it, `VolumeHeaderTools`; abstract
   specification: `KeptContent`. Proofs: `VolumeHeaderToolsProofs`,
   `KeptContentProofs`.
5. *Done.* `VolumeHeaderRead` on top of the pool; the queue of a mounted volume
   with hidden-volume protection.
6. Next: `Volume.cpp`'s protected range and the C++ pool with exceptions; the
   volume creator's thread; the elevated core service.
7. Proofs. *Done*: the pool's `FragmentIntact` and its refinement of CryptService; the
   queue's links and counts, from which `HeldMeansIdle` and `StopLeavesNothing`, and what
   it does to the device, from which `OneUserPerBuffer`, `HiddenVolumeKept` and
   `DiskStaysReadable`, and what a read returns (`ReadsReturnContent`)
   and the refinement of PlainDisk; the header read's answer and its end (`VolumeHeaderReadProofs`);
   all safety properties of in-place encryption and the header tools; the five safety
   invariants of the setup thread and its refinement of PlainDisk, on top of the queue's
   (`BootEncryptionSetupProofs`). What is left is temporal and stays with TLC (section 8).

## 3. The encryption thread pool

`EncryptionThreadPool.tla` models the whole of `Common/EncryptionThreadPool.c`.
A step is one access to memory that threads share.

| in the module | in the code |
|---|---|
| `state`, `item`, `fragments`, `itemCompleted` | `WorkItemQueue[]`: State, the union and FirstFragment, OutstandingFragmentCount, ItemCompletedEvent |
| `workItemReady`, `workItemCompleted`, `noOutstanding` | the auto-reset events: a Boolean that a wait takes back to FALSE |
| `enqueueMutex`, `dequeueMutex` | the two mutexes; the owner |
| `Start`, `StartFails`, `StopBegin`, `StopSignal`, `StopJoin` | EncryptionThreadPoolStart with its `goto err` path, EncryptionThreadPoolStop |
| `WorkerLoop` ... `WorkerSignalFree` | EncryptionThreadProc, top to bottom; `WorkerDerive` and `WorkerRaise` are a derivation's result and its two events, which are apart from the flag a reader looks at |
| `DoWork` ... `Return` | EncryptionThreadPoolDoWork; `Lock`, `Fill`, `SetReady`, `Notify`, `Unlock` are shared with the two Begin functions |
| `applied`, `units` | history: how often each data unit of a call was transformed |

The ciphers are abstracted to "this unit was transformed once more"; that is
all the code around them can get wrong. The division of a call into fragments
is modelled with its arithmetic.

`CryptService` says what a caller is promised: each unit of a call is
transformed exactly once and the call returns after the last. `ImplementsService`
is the refinement.

The subtle point of this code is `FragmentIntact`. A pool thread marks the slot
of a fragment Free and signals it *before* it follows that slot's FirstFragment
pointer to count the fragment off (lines 322-331). A client that fills the freed slot
in between would redirect the count to another call. It is safe only because
slots are filled in ring order and the first fragment's slot, which is freed
last, stands in the way of going round.

Environment assumption (`spc = "idle"` in `EnterCall` and `EnterHeader`): nobody
enters the pool while Stop runs; the driver stops it on unload, the application on
exit. `Next` has two halves, `CallNext` and `HeaderNext`: the runs `pool` and
`pool_live` check the pool as long as nobody reads a header (`CallSpec`),
`pool_header` has the other half, with the real reader in it. The proofs are about
the whole (`Spec`).

`StopReturns` promises that Stop comes back unless it has `Abandoned` a
finalization that waits for a derivation nobody is left to run. Without header
reads that cannot be; with them it can (lines 235, 291).

### The header read

`VolumeHeaderRead.tla` EXTENDS the pool with its one caller that does not wait for
what it has begun: ReadVolumeHeader with no PRF chosen.

| in the module | in `Common/Volumes.c` |
|---|---|
| `enqPrf`, `queuedItems`, `workItems`, `at` | enqPkcs5Prf, queuedWorkItems, keyDerivationWorkItems, i |
| `Enqueue`, `Enqueued` | 304-336: a free item is filled and its derivation begun, up to the number of threads |
| `StartScan`, `PassOver`, `WaitForKey` | 338-361: no more can be begun, look for a key that is ready, wait for the auto-reset event |
| `TryKey` | 347-356 and the ciphers tried with the key: whether one fits is any choice |
| `WrongPassword`, `Finish` | 605-639, both ends of the function with the finalization it begins |
| `target`, `DeriveRead`, `RaiseRead` | the item a pool slot derives for; its KeyReady flag, then its event |
| `tried`, `late` | history: the keys tried; the pool's race at 283, see below |

The for loop's counter moves in odd ways (decremented for a scan, incremented by
the loop), which the model keeps. What is asked of it: `RightAnswer` (a read that
says the password is wrong has tried the keys of *all* PRFs, and one that succeeds
names the PRF of the key that fitted, though items are reused while the thread that
filled them is still between the flag and the event); `ReadsEnd` (it returns, and its
buffers are burned, though several keys may leave one signal); and
`NothingFreedEarly` (the finalization burns and frees the buffers after every
derivation that uses them). The last has one exception, which TLC finds at once: the
decrement of the count and the SetEvent that follows it are two steps (283-284),
and a derivation begun in between clears the event first. `late` marks the reads
this has happened to.

Assumed: a client uses a volume after it has read its header, and reads one
header; Stop is not called during a read (StopBegin needs that), but may be when
only the derivations and the finalization a read has left behind are still there.

## 4. The encrypted I/O queue

`EncryptedIoQueue.tla` models `Driver/EncryptedIoQueue.c` after a successful
Start, as the boot drive filter uses it (`IsFilterDevice`) and as a mounted volume
does (`hostVolume`): that one is encrypted as a whole, takes no misaligned reads, and
may hold a hidden volume to protect.

| in the module | in the code |
|---|---|
| requestors `Irps`; `Issue`, `AddIrp`, `Reject` | threads in EncryptedIoQueueAddIrp; the count goes up first, StopPending is looked at second |
| `Main` | MainThreadProc: the Suspended test, the buffer pool, validation, misaligned reads, fragments, encryption |
| `Io` | IoThreadProc: remapping in up to three operations, the read-ahead, early completion of writes |
| `Protect`, `Denied`, `Endangers`, `protectionAction` | the hidden-volume protection (705-734): bHiddenVolProtectionAction |
| `Completion` | CompletionThreadProc |
| `Common` | the wait on a thread's queue and CompleteOriginalIrp with its separate steps |
| `Holder`, `Stop` | HoldWhenIdle with its timeout and second look, ResumeFromHold, Stop |
| `Block`, `EraseKeys` | InvalidateDriveFilterKeys of the drive filter |
| `disk` | external: the device. The content of a sector is `<<writer, unit>>`: who wrote it and the data unit it is encrypted under, `Plain` if none |
| `moved`, `seen` | history: the sectors an IRP has transferred and what it found there |

Contents as pairs tell apart everything the code can confuse: a stale or mixed
up buffer, a sector encrypted twice or not at all, a wrong data unit, a wrong
place. Decrypting under the wrong unit, or with erased keys, gives `Garbage`.

`PlainDisk` says what the file system is promised: any number of requests under
way, each sector transferred at some moment before the result is settled, all
of them if the request succeeds. The refinement maps a disk sector to what it
holds once decrypted with the unit its place calls for, and takes a request's
result as settled when a thread is about to complete it.

Simplifications, each on one side of a choice the code makes: an insertion into
a thread queue and the event that announces it are one step (the consumer
always looks again after a wait); the pool of I/O requests is a counter, a
request being kept with its one holder; validation failures other than header
writes may hit any IRP; Hold and Stop are never run together, because a
shutdown ends the setup thread first.

`HiddenVolumeKept` is about a check the main thread makes once per IRP, while
fragments of IRPs it has let through are in the hands of two other threads and a
buffer: none of them may reach the hidden volume, and no write issued after the
first refusal may reach any sector. A write already accepted then is still carried
out; the documentation's "as soon as"
(`doc/html/Protection of Hidden Volumes.html:69`) is read as that.

`HeldMeansIdle` is what the setup thread relies on: it re-encrypts sectors and
moves the area's boundary while every IRP that has looked at the boundary is
answered. `queue_control` shows that the second look at the count after
setting Suspended (lines 931-941) is what makes it true.

## 5. The setup thread

`BootEncryptionSetup.tla` models `SetupThreadProc` (`Driver/DriveFilter.c:1565-1913`)
over the whole of the queue's model, with the device controls that start and
abort it.

| in the module | in the code |
|---|---|
| `setup` | where the thread is; one step per call that blocks or touches the drive |
| `CallHold`, `Held`, `NotHeld`, `Release` | its calls of HoldWhenIdle and ResumeFromHold, and the retry loops around them |
| `BeginEncryption`, `BeginDecryption` | the switch on SetupMode (1632-1667) |
| `NextBlock`, `ReadBlock`, `WipeBlock`, `WriteBlock`, `UndoBlock`, `MoveAreaEnd`, `CountWritten` | the loop (1678-1846) |
| `SaveProgress`, `SaveLast` | SaveDriveVolumeHeader, in the loop and at the end |
| `EndOfLoop` ... `Exit` | the labels `abort` and `err` to the end of the thread |
| `EnterControl`, `LeaveControl` | an IOCTL to the root device, under RootDeviceControlMutex (`Driver/Ntdriver.c:651-661`) |
| `RefuseStart`, `StartThread`, `Abort`, `Join` | StartBootEncryptionSetup, AbortBootEncryptionSetup |
| `header` | EncryptedAreaLength in the volume header on the drive: all a restart knows. -1 once a decryption has wiped it |

A sector stands for an encryption data unit. A failed write to the device may have
written any part of the block; a failed header write either header. The
clocks and status fields for the user interface are left out
(TransformWaitingForIdle, SetupStatusEncryptedAreaEnd).

What is asked of it:

- `SetupImplementsPlainDisk`: the file system sees the same disk of plain
  sectors throughout, with one device error anywhere. The
  refinement maps a sector of the block being transformed to the thread's
  buffer, which is where its content is until the boundary moves. It needs the
  undo after a failed write, and it rests on the queue's `HeldMeansIdle`.
- `LossBounded`, `CanBeResumed`: what a restart would find. At any moment, as long as
  there was no device error, the
  sectors on the wrong side of the boundary in the header are at most those
  written since a save was due, and the block under way; after a setup that
  reports success, aborted or not, whatever errors it met, there are none, if there were
  none when it started (`resumable`, a history variable). That
  condition is needed: see section 9. The documentation promises
  that an encryption can be interrupted and resumed
  (`doc/html/System Encryption.html:54-57`), and a dialog warns of power
  failures (`Common/Language.xml:1189`); `LossBounded` is what lies between. A
  restart is not an action: these invariants say, of each reachable state, what a
  restart in that state would find.
- `KeysNotNeeded`: at the end of a decryption the keys are freed with the queue
  running.
- `MutexReturned`, `ControlsReturn`, `SetupEnds`: the thread wants the mutex
  that whoever aborts it holds while waiting for it. It gives up when an
  abort is requested, and then must not release what it has not got.

## 6. In-place encryption and the header tools

`InPlaceEncryption.tla` models the four functions of `Format/InPlace.c` that work on a
partition (EncryptPartitionInPlaceBegin, EncryptPartitionInPlaceResume,
DecryptPartitionInPlace, ConcealNTFS) with FastVolumeHeaderUpdate, the settings and
the wizard's conditions for calling them. `VolumeHeaderTools.tla` EXTENDS it with
what else rewrites the headers of such a volume.

| in the modules | in the code |
|---|---|
| `disk` | the partition's blocks. Each holds `[data, unit, concealed]`: which block of the file system, the data unit it is encrypted under, whether it has been XORed with the conceal constant |
| `primary`, `backup` | the headers at the two ends: EncryptedAreaStart, EncryptedAreaLength and the password |
| `area`, `remaining`, `distance`, `changed` | masterCryptoInfo's area, remainingBytes, lastHeaderUpdateDistance, bEncryptedAreaSizeChanged |
| `pc` | where the wizard's thread is: one step per device access |
| `NewBlocks`, `NewBackup`, `Write` | what each of these accesses writes, and where; From, To and UnitNo are the chunk's arithmetic |
| `Uncover`, `Cover`, `Toggle`, `Untoggle` | concealing: in the chunks' buffers (965, 1629) and by ConcealNTFS with its retries |
| `ReadFails`, `ReadUnreadable`, `WriteFails`, `UndoWrite`, `CloseFails` | the error paths: `goto closing_seq`, sectors given up with the user's consent, the undo of a failed write |
| `CloseJob` | closing_seq with its last header update, whose result nobody looks at |
| `Crash` | the process or the machine is gone, with any part of the write under way done |
| `pending`, `SaveSettings` | the count in the config file that brings the wizard back |
| `ChangePwd`, `ChangePrimary`, `RestoreVolumeHeader`, `FinishTool`, `StopTool` | `Common/Password.c:297-565`, `Mount/Mount.c:11162-11230` |
| `lost`, `toggled`, `crashed` | history: data blocks gone so far; stopped between a toggle and its header; whether there was a crash |

A chunk is larger than the offset by which it moves, so what it is written to
overlaps what it was read from, and only the backup header says where the boundary
is. That header follows the work at intervals.

`KeptContent` says what the owner is promised: a job that succeeds or is paused has
kept everything; one that is interrupted costs at most one run of
`UpdateInterval - 1 + Chunk - Offset` blocks; an unreadable sector costs that sector.
`ToolsKeepContent` is the refinement, with `kept` the blocks that whoever goes by the
backup header gets back.

Further properties: `PrimaryAgrees` (both headers give one area, which ChangePwd
relies on when it copies one over the other), `RevealedWhenDone` and
`HiddenWhilePartial` (the file system's start is concealed exactly while the volume is
incomplete, however often the direction changes), `PendingRecorded` (the wizard comes back
to what is incomplete), `EncryptionErrorUndone` (one device error during encryption
costs nothing), `EverythingEnds`.

Assumptions, each named in the modules: a header is one sector, written or not; the
partition is opened exclusively; nobody restores a header or begins anew on a partition
that is encrypted in part; the file system was shrunk before.

## 7. Runs and bounds

All properties of the table hold, but for the last three runs.

| run | question | instance | states |
|---|---|---|---|
| `pool` | is every unit transformed once, whatever the interleaving, Start, failed Start, Stop and restart included? | 2 clients, 2 threads, 4 slots, up to 3 units | 0.73 M (symmetry) |
| `pool_live` | does every call return, and Stop? | the same on 2 slots, up to 2 units, fair | 0.06 M |
| `pool_header` | does a header read find its key, return, and free its buffers last? | 1 client, 3 PRFs, 2 threads, 3 slots, then DoWork calls; fair | 0.47 M |
| `queue` | is it a disk of plain sectors; one user per buffer; keys erased at any moment; is the hidden volume safe? | 2 requestors, 2 sectors, 2 fragments per IRP, a boot drive with the boundary between them or a mounted volume with the second protected, 2 items, 3 requests | 0.69 M (symmetry) |
| `queue_hidden` | remapping, errors, misaligned reads, the read-ahead | 1 requestor, 3 IRPs of up to 3 sectors, remapped area and plain area, 1 device error | 0.95 M |
| `queue_control` | hold, resume and stop against two requestors | reads of one sector, fair | 0.14 M |
| `setup` | is it one plain disk while the boundary moves; what would a restart find; are keys and mutex left properly? | 3 sectors, blocks of 1, a save every 2, 1 wipe pass, 2 controls, 1 write of the file system, 1 device error | 1.0 M |
| `setup_live` | do controls return and setups end? | 1 sector, 2 controls, 1 write, fair | 0.07 M |
| `inplace` | is content kept through jobs, pauses, errors, crashes and header tools; do the headers agree; is the file system concealed when it must be? | 7 data units, offset 2, chunks of 3, portion 1, a save every 4, 1 wipe pass, 2 passwords, 4 jobs, 2 faults; fair | 0.87 M |
| `queue_skewed` | *violation*: HiddenReadsRedirected | one misaligned read | |
| `queue_partial` | *violation*: NoIoAfterFailure | one partially remapped IRP, one error | |
| `inplace_conceal` | *violation*: SafeToResume | 2 jobs, one crash | |

Why the bounds are enough for the interesting cases.

*Pool*: three units on two
threads give a remainder; two calls of two fragments fill the ring of four, so
that positions wrap and a second call waits for slots of the first; the ring of
two makes every call wait. A third thread adds no new kind of waiter, since at
most one thread waits on an event (proved). Three PRFs on two threads make the reader
wait with a PRF still to begin, begin it on a work item that was used before, and
return with derivations still running.

*Queue*: IRPs of two fragments use
both fragment buffers, a second IRP needs them again; three requests and two
items run out; a boundary inside an IRP makes fragments of both kinds; a
fragment of three sectors around a remapped sector takes all three device
operations; three IRPs in turn are what a stale read-ahead needs (read, write, read).
On the mounted volume a write of both sectors touches the hidden volume only with
its second fragment, and another IRP can be on its way or issued after the refusal.

*Setup*: three sectors are one more than a save period, so that a save falls
inside the work and another at the end; the boundary starts at none and at two, so
that an encryption starts and is resumed, and a decryption goes down to none;
two controls are a start and an abort, or two starts, the second of which finds
the thread of the first running, ended, or none. One device error is the limit of
what holds: the code does not look whether an undo succeeds.

*In place*: portion < offset < chunk as in the code (8 KB, 128 KB, 2 MB); seven units are two chunks and
a rest, so that the last chunk differs from the others; a save every four units falls
after the second chunk, so that a crash finds one chunk or two not recorded. Four jobs are an
encryption, two changes of direction and a tool; two faults are an error in a
write and another in the closing sequence, or a crash after each.

Each bound is a constant with a comment in its module: `MaxUnits`,
`MaxDerivations`, `MaxLength`, `MaxIrps`, `MaxFailures`, `MaxControls`, `MaxJobs`,
`MaxFaults`, and the choice of
operations. Symmetry is used only where no liveness is checked.

Two models can come to rest and are checked without deadlock detection.
`pool_header`: Stop while one thread waits in a finalization and
another has dropped the last derivation it waits for. `inplace` and
`inplace_conceal`: all jobs the bound allows are done. All
other runs detect deadlocks.

**Fairness.** Threads run when they can: weak fairness on each pool thread,
client inside the pool, queue thread and on Stop. Mutexes are handed to their waiters in
turn: strong fairness on a client's `Lock` (a Windows fast mutex and a
kernel mutex queue their waiters). A reader of a header goes on when it can. Nobody has to call, hold or stop; but who
holds the queue lets go of it (the setup thread does so after each block), so
`ResumeFromHold` is weakly fair. The device answers, with or without error.
In `setup_live` the setup thread is that holder, modelled whole: weak fairness on it and
on the device control under way, none on issuing one. Its holds are
retried as long as IRPs come in; it is the bound on IRPs that lets the last one
succeed, as pauses in the drive's use do in the field. `ToolsSpec` has weak fairness on the
wizard's work and on a tool's writes: both are threads of a process that nobody else
stops. ConcealNTFS's endless retry ends because device errors are bounded.

## 8. What is proved

`EncryptionThreadPoolProofs` proves for every set of clients, every two or more
pool threads, every ring with a slot per thread and every bound on the calls
(`PoolAssumption`; Start makes no pool of one thread and takes twice as many slots):

- `TypeCorrect`: `Spec => []TypeOK`, positions in the ring and fragment owners in range;
- `SingleWaiters`: `Spec => []OneWaiterPerEvent`, no auto-reset event ever has
  two waiters, so that no SetEvent can wake the wrong thread;
- `FragmentsIntact`: `Spec => []FragmentIntact`, a thread that gives a slot back before it
  counts the fragment off still counts it off the right call.

None is inductive by itself. A thread that dispatches on an item goes
wherever the item's type says, so `TypeOK` needs `Typed`: what is Ready, or
taken, has a type, and so has the item a client is about to make Ready.
`OneWaiterPerEvent` would break when Start resets both mutexes under somebody's
feet, so it needs `Quiet`: no client is inside while the pool does not run or
is being stopped, and there are no threads before Start. `Quiet` in turn needs
that Stop is the only one to set StopPending. `ControlInv` is their conjunction;
there is one lemma per conjunct with one step per action (`TypeStep`,
`QuietStep`, `TypedStep`, `OneWaiterPerEventStep`), and `ControlCorrect` joins
them.

`FragmentIntact` needs the ring, `Ring`. The fragments a call has handed out lie in the
slots that begin with its first one (`Laid`, with `Arc(first, n)` for n slots from there,
across the end of the ring), and the enqueue position is right behind them, or,
for a call that has handed out all, not within them unless it has come round to the
first slot, where it stops (`Placed`). The first slot is not free from the moment it is
offered to the call's end (`FirstTaken`), so nobody goes past it. A slot that is filled is nobody
else's (`Filled`), a slot in a thread's hands neither (`Held`); what threads have in
their hands, or find ready, is owed to a call under way (`Serving`). Last, the
count: `fragments[first]` is the number of fragments that are not counted off
(`Counted`, a cardinality of slots), so only one thread finds it at 0, and the call waits for that
one (`Finishing`). Each conjunct falls without the others: an item could be
overwritten without `Placed`, the first slot freed early without `Counted`, and
`Counted` itself fails if two threads could have a slot at once. There is one lemma per action that
changes the ring (`FillKeeps`, `WorkerTakeKeeps`, `WorkerAccountKeeps`, ...) and one for all
that do not (`ElsewhereKeeps`).

It goes on to

- `PoolServes`: `Spec => ImplementsService`, the refinement of `CryptService`: each unit of a
  call is transformed exactly once, and the call returns after that.

`Served` says where the units of a call are: those not handed out yet are what the
remaining fragments will take, `left * Each + rem` (`Divided`; for every number of units and threads, `CallDivided`);
those handed out are each in one slot of the call (`Covered`); and a unit has been transformed if
it is in a slot that a thread is done with, and not otherwise (`Once`). With `Owed` empty
at the end, from `Ring`, all are done (`Settled`). Four kinds of step map to a step of the service
(`DoWork`, `CryptInline`, `WorkerCrypt`, `Return`), all others to a stutter (`DataCases`).

`VolumeHeaderReadProofs` proves, for any number of readers and PRFs besides (`ReadAssumption`:
there are PRFs),

- `ReadTypeCorrect`: `ReadSpec => []ReadTypeOK`;
- `AnswersAreRight`: `ReadSpec => []RightAnswer`, a key that opens the header is named with the
  PRF it was derived with, and a wrong password is one with which all PRFs were tried;
- `NothingIsFreedEarly`: `ReadSpec => []NothingFreedEarly`, the buffers of a read outlive
  its derivations (except `late`, section 9).

A step of a reader is a step of the pool or leaves the pool alone (`ReadIsPool`), so `ControlInv`
and `Ring` hold of a pool with readers too. On top of them there are two invariants.

`Answered` is about the loop over the PRFs. A work item that is not free has a PRF of its own, one
that was begun already, and `queuedItems` counts those items (`ItemsCounted`); so as long as a PRF
is left there are fewer items in use than there are items, and the search for a free one succeeds
(`FreeItemFound`, by the pigeonhole principle): without that the loop would pass over a PRF. What is
ready holds the key of its own PRF (`KeysTheirOwn`), and a PRF that was begun
is tried, or an item still has it (`NoneForgotten`), which makes an unsuccessful end a
complete one. A read leaves nothing for the next (`AtRest`).

`Ended` is about the memory. OutstandingWorkItemCount is at least the number of derivations that
are queued, in a thread's hands, or counted by a client and not offered yet
(`DerivationsCounted`, cardinalities of slots and of threads). One thread at most has counted to
zero and still has to set the event; while it does, or when the event is set, the count is zero,
except that a client may be about to clear it (`Announced`). The
finalization is enqueued last and once (`Phases`); the thread that
has it waits for the event, so after that there are no derivations (`Over`). `late` is raised for
good when a derivation clears the event between the countdown and its announcement; the invariant
says nothing of that reader from there on.

`EncryptedIoQueueProofs` and `EncryptedIoQueueDisk` prove, for
every number of requestors, IRPs, items, I/O requests, sectors, fragment size, area and hidden
volume, for any number of device errors and whatever of hold, stop and key erasure happens
(`QueueAssumption`, `AreaAssumption`):

- `HoldIsSafe`: `Spec => []HeldMeansIdle`, while the queue is held no IRP is under way;
- `StopIsClean`: `Spec => []StopLeavesNothing`, a stopped queue has its whole pool back;
- `BuffersNotShared`: `Spec => []OneUserPerBuffer`, a fragment buffer has one user, or none if
  its event is set;
- `HiddenVolumeIsSafe`: `Spec => []HiddenVolumeKept`, no write reaches a protected
  hidden volume, none issued after the first refusal reaches anything;
- `NothingIsSpoilt`: `Spec => []DiskStaysReadable`, every sector can be decrypted with the
  unit its place calls for, also when keys are erased under running writes;
- `QueueTypeCorrect`: `Spec => []TypeOK`.

The argument has three layers. `Links` is about who refers to whom: a thread's position
says what it holds (`Hands`), the requests of an item follow each other through the I/O
queue, the I/O thread, the completion queue and the completion thread, with the last one
at the end (`Ordered`, `Final`), so the one that carries the last request is the only one
to refer to the item and may release it; an IRP is in one place only (`Alone`, `Linked`).
`Sound` adds the counts: OutstandingIoCount is
the number of IRPs between their increment and their decrement, of the read-ahead
posted late and of the threads that have completed an IRP but not counted it down yet; a
thread that has counted down to 0 still has to set the event; the second look in
HoldWhenIdle is what makes `HeldSafely` inductive. `Kept` adds what is in the buffers and on the device: a
request in the pipe lies within the drive (`Cut`), its buffer holds its data encrypted for where
it goes unless the drive is blocked (`Filled`), a write that was let through stays away from
the hidden volume with each of its fragments (`Harmless`), and its IRP was not late.
Its hypotheses are about requests in the pipe because they stay true there: the item is live
(from `Links`), the area does not change under it (from the setup thread's hold, in `Spec` it does not move).

`EncryptedIoQueueReads` proves, on top of that,

- `ReadsAreRight`: `Spec => []ReadsReturnContent`, a read that is completed with success returns
  the decrypted content each of its sectors had when it was read;
- `QueueIsPlainDisk`: `Spec => ImplementsPlainDisk`, the refinement: to the file system the
  device is a disk of plain sectors. What a read found on that disk is `seen`;
  `ReadsAreRight` says that it gets just that.

`Reads` follows a sector of a read; `Served`, the part of it that does not depend on what is on the
device, follows any request and is, with `Kept`, all that the refinement needs. The fragments in line, in the two lists and in the I/O
thread's hands, are parts of their IRP (`Fitting`), have no sector in common (`Lined`) and lie behind
the point up to which the main thread has cut (`Passed`). A sector is either in line, or still to be
cut, or it has been transferred (`Progress`); after that its content is in the fragment buffer
(`Received`), then, still encrypted, in the IRP's buffer, and decrypted there at the end
(`Delivered`); until its transfer its history is empty (`Fresh`). Whoever has the last fragment is,
by `Links`, alone with the item, so nothing of the IRP is in line any more, and all of it has been
decrypted. A failure anywhere stays in the item's status, since nothing is done for the item after
it (`NoIoAfterFailure`). That is not so when a part of a remapped
fragment may fail, and the other path of the code, for misaligned reads (`Misaligned`), does
not look at the remapping: the two things the code does against its
documentation (section 9, runs `queue_partial` and `queue_skewed`). They
are the two hypotheses of `ReadsAreRight`: `~RemapFailures`, and no misaligned requests with a remapped area.
`QueueIsPlainDisk` needs the first only.

The refinement rests on `Results`, which follows from `Progress`: a thread about to complete an
IRP has its item for itself, is the only one that completes that IRP, and if the status is a
success then every sector has been transferred (for the misaligned reads of the main thread
that is `Straight`). So the request on the plain disk has its result from the moment a thread comes
to the completion (`SettlesPlain`) until it is answered (`CompletesPlain`). Asking is `Issue`
(`IssuesPlain`), a rejection after Stop is `Answer` of a request nothing has been transferred for
(`RejectsPlain`), a device operation `Write` or `Read` of the sectors of its piece, through
`Filled` and `Readable`, or nothing if it fails (`TransfersPlain`), a misaligned read `Read` of all
its sectors (`ReadsPlain`). All other steps change nothing the file system sees (`StepsPlain`).

`AreaAssumption`: an encrypted area lies in the drive, and that of a hidden system is kept
behind the sectors anybody asks for (`DriveFilter.c:544`, `VolumeFilter.c:165`); without it two
sectors would share one place on the device. TLC evaluates it on every run of the queue.

`BootEncryptionSetupProofs` proves, on top of that, for every drive, area to encrypt, block size,
threshold between two saves of the header, number of wipe passes and of device controls, any
number of device errors, with or without an erasure of the keys (after which `CanBeResumed` and
`LossBounded` promise nothing) (`SetupAssumption`, `MountAssumption`: an area found in the header begins where the one to
encrypt does):

- `MutexIsReturned`: `SetupSpec => []MutexReturned`, the thread never ends as the owner of the
  root device's mutex;
- `SetupTypeCorrect`: `SetupSpec => []SetupTypeOK`;
- `KeysAreNotNeeded`: `SetupSpec => []KeysNotNeeded`, after the keys are freed no request carries
  sectors that would need them;
- `SetupCanBeResumed`: `SetupSpec => []CanBeResumed`, a setup that reports success leaves a header
  from which every sector is readable;
- `LossIsBounded`: `SetupSpec => []LossBounded`, a power failure costs less than a threshold
  and one block;
- `SetupIsPlainDisk`: `SetupSpec /\ [][Undisturbed]_allVars => SetupImplementsPlainDisk`, the refinement:
  while the boundary moves over the drive the file system sees one disk of plain sectors. `Undisturbed`
  excepts what the code does not guard against, and nothing else: a block read or put back after the keys
  have been erased (`DriveFilter.c:1131`), and an undo that fails as well (`DriveFilter.c:1813`). Any number
  of other errors, of pauses, aborts and later setups is allowed.

The queue's invariants carry over because a step of the setup thread is a step of the queue, or leaves
it alone but for the area and the device (`QueuePart`), and nobody else lets go of a queue the thread
holds (`HeldByNobodyElse`). `QueueSound` is what remains of the queue's own invariant when
the area moves: a held queue has no request in the pipe (`HeldIsEmpty`, from `Links` and the counts), so a
hypothesis about requests in the pipe survives the move. On it rest seven more.

- `Controlled`: who owns the mutex and who waits for whom. An abort can only come from a control that
  has the mutex and keeps it until the thread has ended, so the thread has the mutex only
  if `abortRequested` stays clear; that is why testing the flag again before the
  release (`DriveFilter.c:1892`) is the same as testing ownership.
- `Position` (`Controlled` with `Holding`, `Bounded`, `Located`, `HeaderInRange`): where boundary and
  block can be at each point of the thread. A decrypted area is one sector below its own
  start for a while; `Located` ties the local offset to the boundary, without which a block
  could be transformed twice.
- `KeysGone`: when the area is cleared for good, everything behind the device that was cut with the
  old area has already passed (`PastDevice`), because the thread clears it holding the queue.
- `OnTrack`: as long as the thread has not given up (`Undamaged`), each sector outside the block in work is
  what the boundary says (`Settled`), the buffer holds what the block is to become (`InBuffer`),
  the device does before the boundary moves behind it (`OnDevice`), and the header knows
  the boundary or the thread knows that it does not (`Noted`).
- `Lagging`: without errors the gap between the boundary and the header is what was written since the
  last save, plus a block whose boundary has just moved and that is not yet counted. With `Settled`
  it bounds what a restart finds under the wrong key (`FewBetween`, `FewLost`: cardinalities).
- `QueueServed`: `Served`, which is what the queue's own proof knows of requests in line, holds
  here as well. It says nothing of what is on the device, and what it says of the area is about
  requests in line, of which a held queue has none (`HeldHasNoLine`).
- `Shown`: whatever happened, each sector outside the block in work is what somebody wrote, under its data unit
  on its side of the boundary; within it, the buffer holds the same under the other unit. This is
  `Readable` where no block is in work (`ShownReadable`), and, unlike `OnTrack`, it survives a setup that gives
  up. `Authors` is who wrote each sector: no step of the thread changes it (`ShownWork`), and it is
  what the refinement mapping shows (`SeesAuthors`). So the thread's steps are stutters; a step of the queue is one of
  the plain disk by `StepsPlain`, below the setup (`SameDisk`); and while a block is in work a
  held queue can only take in or reject requests (`SameRequests`).

TLC checked `KeysGone`, `OnTrack` and `Lagging` on the instance of `setup`, and on one with blocks of two
sectors, two device errors and an erasure, before they were proved. With the same
errors and erasure it finds `SetupImplementsPlainDisk` violated, and `Shown` and the refinement kept by the
steps that are `Undisturbed`.

`VolumeHeaderToolsProofs` and `KeptContentProofs` prove, for every size of data,
offset, chunk, concealed portion and update interval with portion <= offset < chunk
(`InPlaceAssumption`), every set of passwords and any number of jobs and faults:

- `TypeCorrect`: `ToolsSpec => []ToolsTypeOK`. The work is in its numbers: that area,
  remainder and distance stay in range needs `Shape`, which ties them to each other
  (an area always reaches to the backup header; what remains is what the
  area does not cover).
- `HeadersAgree`: `ToolsSpec => []PrimaryAgrees`. A decryption moves the boundary in
  the backup header alone. It holds because the first chunk is written over the
  primary header before that, a fact `Agreement` carries through the steps: while a
  job uses an area, a primary header that is still there stands next to a backup
  header that still gives that area.
- `ContentKept`: `ToolsSpec => ToolsKeepContent`, the refinement of `KeptContent`.
  `ControlInv` is `ToolsTypeOK /\ Shape /\ Agreement`; on top of it `ContentInv` says where
  the content of each block is. `ContentSafe`: between chunks, plain below the
  boundary in memory and encrypted above; within a chunk, in the buffer; and what the job has not
  reached is still as the backup header has it. `Bookkeeping`: the distance since the last save
  is the gap between the two boundaries. `Closing`: what an error leaves to
  closing_seq is at most one short run away from either boundary. From these
  comes the bound: blocks between the two boundaries (less than an interval) are lost
  because the header does not know of them, those of the chunk in work because a write of them was
  under way; the chunk's overlap with itself (the offset) is counted once. For a
  crash, `Wrong` by the backup header is contained in that window (`WindowIsLossy`, `WriteLossy`,
  `FailedWriteKeep`); an orderly end has an empty one. `KeptStep` turns it into steps of
  `KeptContent`. TLC checked each of these invariants on the instance of `inplace` first.
- `PartialIsRecorded`, `PartialIsHidden`, `OpenWhenDone`: `ToolsSpec => []PendingRecorded`,
  `[]HiddenWhilePartial` and `[]RevealedWhenDone`. `ConcealInv` says of each of the first
  `Portion` blocks whether it is concealed, from where it is and in what form: plain on the device,
  concealed while there is a header, from the conceal step to the reveal step
  (`Concealing`); encrypted in its place, as the file system has it; in the buffer, as its new place
  calls for (`StartRight`). What leaves the buffer was turned over with the chunk, so
  that a change of direction finds every block in the form it expects; an undone
  chunk is turned back (`Turned`, `WriteConceal`, `FailConceal`). `HeaderThere`, `Done` and
  `Recorded` tie the steps to the header, to the result and to the count of pending jobs.
  `~toggled` excepts the partitions whose XOR a crash parted from their header (section 9).
- `OpenWhenDone` needs one thing more, that nothing beyond the portion was ever
  concealed (`Beyond`): frontiers move by whole chunks from the start or from
  the end (`EdgesAligned`), so a chunk begins within the portion only if the last
  chunk of the data ends there. `PortionInOneChunk` says that none does. It is a hypothesis
  of that theorem only, and the one point where the code is
  not right for every partition: without it the flip at `InPlace.c:1634` conceals too much.
- `SingleErrorUndone`: `ToolsSpec => EncryptionErrorUndone`. `ErrorInv`: an undo, and a closing
  after a failure, has seen an error; if it was the only one of an encryption, all
  content is where the boundary that the closing records says.

Only model-checked: everything temporal under fairness
(`CallReturns`, `StopReturns`, `ReadsEnd`, `IrpsAnswered`, `ControlsReturn`, `SetupEnds`, `EverythingEnds`), which is out
of this prover's reach.

## 9. Where the code and its words part

- **Misaligned reads of a hidden system's drive** (`Driver/EncryptedIoQueue.c:637`).
  Such a read is done in the main thread from its original place and decrypted
  with that place's data units; the branches for RemapEncryptedArea that the
  other paths have are missing. The documentation says that all reads and
  writes are redirected to the hidden volume (run `queue_skewed`).
- **A failed part of a fragment** (`Driver/EncryptedIoQueue.c:424`). The loop over the
  parts of a partially remapped fragment overwrites the item's status each
  time: a later success hides an earlier failure, and the IRP is completed
  successfully though a part of it was not transferred. The comment at line 383
  says that nothing is done after a failure (run `queue_partial`).
- **Concealing is not recorded** (`Format/InPlace.c:680`). After the backup header is
  written and verified, the file system's start is XORed; nothing says whether that has
  happened. A crash in between leaves a header that the next job takes
  for one with a concealed file system, which it then conceals while uncovering it. The
  comment at line 672 says that resuming is safe from there on (run
  `inplace_conceal`). The same window is at the end of a decryption (1712); `toggled`
  marks the partitions this has happened to, and `RevealedWhenDone` excepts them.

Noted while modelling, without a statement in the code or docs to hold them
against, or without a run of their own:

- the decrement of OutstandingWorkItemCount and the event it sets are
  two steps (`Common/EncryptionThreadPool.c:283-284`), between which a new derivation may clear the event
  (566-567): then the buffers of a read may be freed under it (`late`);
- a failed Start leaves the threads it made (487), because Stop returns at
  once while ThreadPoolRunning is not set; Stop drops queued items, a
  finalization among them, and with it the burning of its keys;
- the first chunk of a decryption that was turned around inside the concealed
  portion flips its buffer from the beginning by a count that is taken from the
  file system's (`Format/InPlace.c:1634`), too many by that difference. It takes
  a data area with less than 8 KB in its last chunk; with `Portion = 2` TLC finds it;
- whether the header must be saved is a local of the setup thread
  (`Driver/DriveFilter.c:1588`). A setup whose last save fails says so (1876-1877), but the
  next one starts with the flag clear: if it is aborted before its first block, or finds nothing
  to do, it saves nothing (1872) and reports success over the stale header.
  With `MaxControls = 3` TLC finds it; `resumable` in `CanBeResumed` excepts it;
- restoring from the embedded backup writes the primary header only
  (`Mount/Mount.c:11213-11230`), where `doc/html/Program Menu.html:129-130` has both
  re-encrypted with a new salt.

## 10. What is not modelled

- Of the queue: Start and its failures, the substituted GPT sectors, AddIrp's failure to
  take the remove lock, allocation failures, erasing the keys of a mounted volume, the
  offset that places a volume in its host. Of the drive filter: mounting at
  boot and the IOCTLs.
- Of the setup thread: the requests to zero or discard unreadable sectors,
  keys erased by a device control while it runs (`EmergencyClearAllKeys` does not
  look at SetupInProgress; listed under hazards), failing allocations and
  thread starts, a second device error during an undo, the decoy system's wipe
  thread, user access checks.
- Of the header read: the sequential path without a pool, the checks of a decrypted
  header (one outcome per key), failing allocations.
- Of in-place encryption: shrinking the file system, unmounting and locking, the content
  of the reserved header areas. Of the header tools: hidden volumes, backups in
  files, the overwriting passes of ChangePwd, which differ in the salt only, and
  volume expansion.
- The components of step 6 of the plan, for now.
- Ciphers, hashes, key derivation, XTS, key files: functions of data, about
  which a small instance says nothing.
- File system formatting, wizards, installers and the boot loaders: sequential,
  or pure I/O.
- The EFI tree's copy of the sources (the same code) and the Java program.
