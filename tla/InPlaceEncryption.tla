-------------------------- MODULE InPlaceEncryption --------------------------
(***************************************************************************)
(* In-place encryption and decryption of a partition, Format/InPlace.c.    *)
(*                                                                         *)
(* The file system, shrunk beforehand, lies in blocks 0..DataSize-1; as a  *)
(* volume it lies Offset blocks further on, behind the primary header.     *)
(* Encryption works downwards from the end, decryption upwards from the    *)
(* start, in chunks that are larger than Offset: what a chunk is read from *)
(* and what it is written to overlap.  Until the volume is complete only   *)
(* the backup header, behind the data, says how far the work has got.      *)
(*                                                                         *)
(* The machine may crash at any step, in the middle of a write; a device   *)
(* error leaves a write done in part.  A header is one sector, written or  *)
(* not.  One process works on the partition at a time: it is opened        *)
(* exclusively.                                                            *)
(***************************************************************************)
EXTENDS Integers, FiniteSets

CONSTANTS DataSize,        \* VolumeSize, in data units
          Offset,          \* TC_VOLUME_DATA_OFFSET, also the header group at the end
          Chunk,           \* TC_MAX_NONSYS_INPLACE_ENC_WORK_CHUNK_SIZE
          Portion,         \* TC_INITIAL_NTFS_CONCEAL_PORTION_SIZE
          UpdateInterval,  \* TC_NONSYS_INPLACE_ENC_HEADER_UPDATE_INTERVAL
          WipePasses,      \* of the wipe algorithm, 0 for none
          Passwords,
          MaxJobs, MaxFaults  \* bounds: jobs, device errors and crashes in all

ASSUME InPlaceAssumption ==
  /\ {DataSize, Offset, Chunk, Portion, UpdateInterval} \subseteq Nat \ {0}
  /\ Portion <= Offset /\ Offset < Chunk /\ Portion <= DataSize
  /\ {WipePasses, MaxJobs, MaxFaults} \subseteq Nat /\ "none" \notin Passwords

VARIABLES
  disk, primary, backup,      \* the blocks up to the backup header; the two headers
  pending,                    \* the number in the config file
  pc, direction, password,    \* where the wizard is; what it was asked to do
  area,                       \* masterCryptoInfo: EncryptedAreaStart, ...Length
  remaining, distance,        \* remainingBytes, lastHeaderUpdateDistance
  changed,                    \* bEncryptedAreaSizeChanged
  buf, pass, outcome,         \* the buffer, the wipe pass, what will be reported
  errors,                     \* device errors of this job
  result, jobs, faults,       \* of the last job; how many so far
  crashed,                    \* history: has there been a crash?
  lost,                       \* history: data blocks whose content is gone
  toggled                     \* history: stopped with the concealing half done

deviceVars == <<disk, primary, backup>>
jobVars == <<direction, password, area, remaining, distance, changed, buf, pass, outcome,
             errors>>
historyVars == <<result, jobs, faults, crashed, lost, toggled>>
vars == <<deviceVars, pending, pc, jobVars, historyVars>>

Data == 0..DataSize - 1
Blocks == 0..DataSize + Offset - 1
Span(first, len) == first..first + len - 1
Smaller(m, n) == IF m < n THEN m ELSE n

-----------------------------------------------------------------------------
(* The content of a block: which data block it holds, the data unit that   *)
(* is encrypted under (Plain if none), and whether the plain data has been *)
(* concealed.                                                              *)
Plain == -1
Garbage == [data |-> -1, unit |-> -2, concealed |-> FALSE]
FileSystem(b) == [data |-> b, unit |-> Plain, concealed |-> FALSE]
Content == [data : Data, unit : Blocks \cup {Plain}, concealed : BOOLEAN] \cup {Garbage}

Encrypt(c, unit) == IF c.unit = Plain THEN [c EXCEPT !.unit = unit] ELSE Garbage
Decrypt(c, unit) == IF c.unit = unit THEN [c EXCEPT !.unit = Plain] ELSE Garbage
AsPlain(c) == IF c.unit = Plain THEN c ELSE Garbage

(* XOR with TC_NTFS_CONCEAL_CONSTANT.                                      *)
Flip(c) == IF c.unit = Plain THEN [c EXCEPT !.concealed = ~@] ELSE Garbage

NoHeader == [start |-> 0, length |-> 0, password |-> "none"]
Header(a, w) == [start |-> a.start, length |-> a.length, password |-> w]
AreaOf(h) == [start |-> h.start, length |-> h.length]
NoArea == [start |-> 0, length |-> 0]

(* What data block p is found to be on disk d by who goes by header h.     *)
Recovered(d, h, p) ==
  IF h # NoHeader /\ p + Offset \in Span(h.start, h.length)
  THEN Decrypt(d[p + Offset], p + Offset)
  ELSE AsPlain(d[p])

Wrong(d, h) == {p \in Data : Recovered(d, h, p).data # p}

(* The header says that nothing is encrypted, next to a file system that   *)
(* is in the open: the next job would not know it from a concealed one.    *)
HalfConcealed(d, h) ==
  /\ h # NoHeader /\ h.length = 0
  /\ \E b \in 0..Portion - 1 : d[b].unit = Plain /\ ~d[b].concealed

Empty == [i \in {} |-> Garbage]

Init ==
  /\ disk = [b \in Blocks |-> IF b \in Data THEN FileSystem(b) ELSE Garbage]
  /\ primary = NoHeader /\ backup = NoHeader /\ pending = 0
  /\ pc = "idle" /\ direction = "encrypt" /\ password = "none" /\ area = NoArea
  /\ remaining = 0 /\ distance = 0 /\ changed = FALSE
  /\ buf = Empty /\ pass = 0 /\ outcome = "error" /\ errors = 0
  /\ result = "none" /\ jobs = 0 /\ faults = 0 /\ crashed = FALSE /\ lost = {} /\ toggled = FALSE

-----------------------------------------------------------------------------
(* The chunk in work.                                                      *)
Size == Smaller(remaining, Chunk)

From == IF direction = "encrypt" THEN area.start - Size - Offset ELSE area.start
To == IF direction = "encrypt" THEN area.start - Size ELSE area.start - Offset

UnitNo == IF direction = "encrypt" THEN remaining - Size + Offset ELSE area.start

(* Mutant of Uncover and of Cover: the buffer is left as it is.            *)
LeftAlone(i, c) == c

(* Encrypting, what had been concealed is uncovered in the buffer.         *)
Uncover(i, c) == IF i < Portion - (remaining - Size) THEN Flip(c) ELSE c

(* Decrypting, the start of the file system is concealed there.            *)
Cover(i, c) ==
  IF From - Offset < Portion /\ i < Smaller(Portion, From - Offset + Size)
  THEN Flip(c) ELSE c

Transformed(cells) ==
  [i \in Span(0, Size) |->
     IF direction = "encrypt" THEN Encrypt(Uncover(i, cells[From + i]), UnitNo + i)
     ELSE Cover(i, Decrypt(cells[From + i], UnitNo + i))]

-----------------------------------------------------------------------------
(* Writing to the device, which depends on the step: what follows says     *)
(* what the current one writes.                                            *)
UpdateStep == {"update", "lastUpdate"} \cup (IF changed THEN {"closing"} ELSE {})
HeaderStep == UpdateStep \cup {"writeBackup", "zeroBackup"}

WriteStep == HeaderStep \cup {"conceal", "reveal", "unflip", "write", "undo",
                              "writePrimary", "zero"}

NewBlocks ==
  CASE pc \in {"conceal", "reveal"} -> [b \in 0..Portion - 1 |-> Flip(disk[b])]
    [] pc = "unflip" -> [b \in 0..Portion - 1 |-> buf[b]]
    [] pc = "write" -> [b \in Span(To, Size) |->
                          IF direction = "encrypt" /\ pass <= WipePasses
                          THEN Garbage ELSE buf[b - To]]
    [] pc = "undo" -> [b \in Span(To, Size - Offset) |->
                         Decrypt(buf[b - To + Offset], UnitNo + b - To + Offset)]
    [] pc = "writePrimary" -> [b \in 0..Offset - 1 |-> Garbage]
    [] pc = "zero" -> [b \in Span(DataSize, Offset) |-> Garbage]
    [] OTHER -> Empty

(* The headers FastVolumeHeaderUpdate and the finalizations write.         *)
NewBackup ==
  CASE pc = "writeBackup" -> Header([start |-> DataSize + Offset, length |-> 0], password)
    [] pc = "zeroBackup" -> NoHeader
    [] pc \in UpdateStep -> Header(area, backup.password)
    [] OTHER -> backup

(* The primary header lies in block 0.                                     *)
Write(B) ==
  /\ disk' = [b \in Blocks |-> IF b \in B THEN NewBlocks[b] ELSE disk[b]]
  /\ primary' = IF 0 \notin B THEN primary
                ELSE IF pc = "writePrimary" THEN Header(area, password) ELSE NoHeader

WriteAll == Write(DOMAIN NewBlocks) /\ backup' = NewBackup

WritePart == /\ \E B \in SUBSET DOMAIN NewBlocks : Write(B)
             /\ backup' \in {backup, IF pc \in HeaderStep THEN NewBackup ELSE backup}

-----------------------------------------------------------------------------
(* How jobs begin and end.                                                 *)

Fault == faults < MaxFaults /\ faults' = faults + 1

(* The process is gone, or its function has returned.                      *)
ForgetJob ==
  /\ direction' = "encrypt" /\ password' = "none" /\ area' = NoArea
  /\ remaining' = 0 /\ distance' = 0 /\ changed' = FALSE
  /\ buf' = Empty /\ pass' = 0 /\ outcome' = "error" /\ errors' = 0

End(report) ==
  /\ pc' = "idle" /\ ForgetJob
  /\ result' = report
  /\ lost' = lost \cup Wrong(disk', backup')
  /\ toggled' = (toggled \/ HalfConcealed(disk', backup'))

(* Mutant of SaveSettings: a count below one is saved like any other.      *)
SaveAnyCount(delta) == pending' = pending + delta

(* SaveNonSysInPlaceEncSettings.                                           *)
SaveSettings(delta) == pending' = IF pending + delta < 1 THEN 0 ELSE pending + delta

BeginJob(step, w, way) ==
  /\ pc = "idle" /\ jobs < MaxJobs
  /\ pc' = step /\ direction' = way /\ password' = w
  /\ jobs' = jobs + 1
  /\ UNCHANGED <<deviceVars, area, remaining, distance, changed, buf, pass, outcome, errors,
                 result, faults, crashed, lost>>

(* Windows finds a file system it can shrink.                              *)
FileSystemVisible ==
  /\ primary = NoHeader
  /\ \A b \in 0..Portion - 1 : disk[b] = FileSystem(b)

(* EncryptPartitionInPlaceBegin.  Nobody begins anew on a partition that   *)
(* is encrypted in part.                                                   *)
BeginEncryption(w) ==
  /\ FileSystemVisible /\ backup.length = 0
  /\ BeginJob("writeBackup", w, "encrypt")
  /\ toggled' = FALSE
  /\ UNCHANGED pending

(* The wizard in resume mode; a wrong password changes nothing.            *)
Resume(w, way) ==
  /\ backup # NoHeader /\ backup.password = w
  /\ pending > 0 \/ backup.length < DataSize
  /\ BeginJob("open", w, way)
  /\ UNCHANGED <<toggled, pending>>

(* Not resumed: the settings count one more.                               *)
StartDecryption(w) ==
  /\ backup # NoHeader /\ backup.password = w /\ backup.length = DataSize
  /\ BeginJob("open", w, "decrypt")
  /\ SaveSettings(1)
  /\ UNCHANGED toggled

-----------------------------------------------------------------------------
(* The steps of a job.                                                     *)
Step(from, to) == pc = from /\ pc' = to

WriteBackupHeader ==
  /\ Step("writeBackup", "conceal")
  /\ WriteAll
  /\ UNCHANGED <<pending, jobVars, historyVars>>

(* ConcealNTFS, in both directions.                                        *)
Toggle ==
  /\ Step("conceal", "record") \/ Step("reveal", "zero")
  /\ WriteAll
  /\ UNCHANGED <<pending, jobVars, historyVars>>

(* Mutant of Untoggle: it goes on after the write that succeeded.          *)
RetryForEver == Step("unflip", "unflip") /\ WriteAll
                /\ UNCHANGED <<pending, jobVars, historyVars>>

(* It undoes what a failed write did, again and again.                     *)
Untoggle ==
  /\ Step("unflip", "closing")
  /\ WriteAll
  /\ UNCHANGED <<pending, jobVars, historyVars>>

(* Mutant of RecordJob: the job is not recorded.                           *)
RecordNothing == Step("record", "open")
                 /\ UNCHANGED <<deviceVars, pending, jobVars, historyVars>>

RecordJob ==
  /\ Step("record", "open")
  /\ SaveSettings(1)
  /\ UNCHANGED <<deviceVars, jobVars, historyVars>>

(* OpenBackupHeader of EncryptPartitionInPlaceResume, DecryptPartition...  *)
OpenBackupHeader ==
  /\ Step("open", "read")
  /\ area' = AreaOf(backup)
  /\ remaining' = IF direction = "encrypt" THEN DataSize - backup.length ELSE backup.length
  /\ UNCHANGED <<deviceVars, pending, direction, password, distance, changed, buf, pass,
                 outcome, errors, historyVars>>

ReadChunk ==
  /\ Step("read", "write") /\ remaining > 0
  /\ buf' = Transformed(disk)
  /\ pass' = 1
  /\ UNCHANGED <<deviceVars, pending, direction, password, area, remaining, distance,
                 changed, outcome, errors, historyVars>>

(* The user agrees to give up sectors that cannot be read: encryption      *)
(* zeroes them on the device, decryption in its buffer.                    *)
ReadUnreadable(B) ==
  /\ Step("read", "write") /\ remaining > 0 /\ Fault
  /\ LET read == [b \in Blocks |-> IF b \in B THEN Garbage ELSE disk[b]] IN
     /\ buf' = Transformed(read)
     /\ IF direction = "encrypt"
        THEN disk' = read /\ lost' = lost \cup B
        ELSE UNCHANGED disk /\ lost' = lost \cup {p \in Data : p + Offset \in B}
  /\ pass' = 1 /\ errors' = errors + 1
  /\ UNCHANGED <<primary, backup, pending, direction, password, area, remaining, distance,
                 changed, outcome, result, jobs, crashed, toggled>>

WipeChunk ==
  /\ direction = "encrypt" /\ pass <= WipePasses
  /\ Step("write", "write")
  /\ WriteAll
  /\ pass' = pass + 1
  /\ UNCHANGED <<pending, direction, password, area, remaining, distance, changed, buf,
                 outcome, errors, historyVars>>

MovedArea ==
  IF direction = "encrypt"
  THEN [start |-> area.start - Size, length |-> area.length + Size]
  ELSE [start |-> area.start + Size, length |-> area.length - Size]

(* Mutant of UpdateDue: the header is not saved in the loop.               *)
NeverDue == FALSE

UpdateDue == distance + Size >= UpdateInterval

WriteChunk ==
  /\ direction = "decrypt" \/ pass > WipePasses
  /\ Step("write", IF UpdateDue THEN "update" ELSE "next")
  /\ WriteAll
  /\ area' = MovedArea
  /\ remaining' = remaining - Size /\ distance' = distance + Size /\ changed' = TRUE
  /\ buf' = Empty /\ pass' = 0
  /\ UNCHANGED <<pending, direction, password, outcome, errors, historyVars>>

(* FastVolumeHeaderUpdate in the loop.                                     *)
UpdateHeader ==
  /\ Step("update", "next")
  /\ WriteAll
  /\ distance' = 0
  /\ UNCHANGED <<pending, direction, password, area, remaining, changed, buf, pass, outcome,
                 errors, historyVars>>

(* bVolTransformThreadCancel may be set by now.                            *)
GoOn(cancel) ==
  /\ IF cancel THEN Step("next", "lastUpdate") /\ outcome' = "paused"
     ELSE Step("next", "read") /\ UNCHANGED outcome
  /\ UNCHANGED <<deviceVars, pending, direction, password, area, remaining, distance,
                 changed, buf, pass, errors, historyVars>>

LeaveLoop ==
  /\ Step("read", "lastUpdate") /\ remaining = 0
  /\ UNCHANGED <<deviceVars, pending, jobVars, historyVars>>

AfterLoop == IF outcome = "paused" THEN "closing"
             ELSE IF direction = "encrypt" THEN "writePrimary" ELSE "reveal"

(* Mutant of LastUpdate: the backup header is left as it is.               *)
NoLastUpdate ==
  /\ Step("lastUpdate", AfterLoop)
  /\ changed' = FALSE
  /\ UNCHANGED <<deviceVars, pending, direction, password, area, remaining, distance, buf,
                 pass, outcome, errors, historyVars>>

(* FastVolumeHeaderUpdate after the loop.  A decryption has nothing to     *)
(* save in closing_seq any more.                                           *)
LastUpdate ==
  /\ Step("lastUpdate", AfterLoop)
  /\ WriteAll
  /\ changed' = (changed /\ direction = "encrypt")
  /\ UNCHANGED <<pending, direction, password, area, remaining, distance, buf, pass,
                 outcome, errors, historyVars>>

(* The primary header, and random data in the reserved blocks behind it.   *)
WritePrimaryHeader ==
  /\ Step("writePrimary", "finish")
  /\ WriteAll
  /\ UNCHANGED <<pending, jobVars, historyVars>>

(* Zeroes from VolumeSize on, the backup header among them.                *)
ZeroRest ==
  /\ Step("zero", "zeroBackup") \/ Step("zeroBackup", "finish")
  /\ WriteAll
  /\ UNCHANGED <<pending, jobVars, historyVars>>

FinishJob ==
  /\ Step("finish", "closing")
  /\ SaveSettings(-1)
  /\ outcome' = "success"
  /\ UNCHANGED <<deviceVars, direction, password, area, remaining, distance, changed, buf,
                 pass, errors, historyVars>>

(* A failed write is undone, from the buffer and where it overlaps what    *)
(* the chunk was read from.                                                *)
UndoWrite ==
  /\ Step("undo", "closing")
  /\ WriteAll
  /\ UNCHANGED <<pending, jobVars, historyVars>>

(* closing_seq.                                                            *)
CloseJob ==
  /\ pc = "closing"
  /\ WriteAll
  /\ End(outcome)
  /\ UNCHANGED <<pending, jobs, faults, crashed>>

-----------------------------------------------------------------------------
(* Failures.                                                               *)

ReadStep == {"open", "read", "conceal", "reveal", "writeBackup", "update", "lastUpdate"}

ReadFails ==
  /\ pc \in ReadStep /\ Fault
  /\ pc = "read" => remaining > 0
  /\ pc' = "closing" /\ outcome' = "error" /\ errors' = errors + 1
  /\ UNCHANGED <<deviceVars, pending, direction, password, area, remaining, distance,
                 changed, buf, pass, result, jobs, crashed, lost, toggled>>

(* Mutant of Undoable: nothing is undone.                                  *)
NotUndone == FALSE

(* A failed write of encryption overlaps what it was read from.            *)
Undoable == direction = "encrypt" /\ Size > Offset

WriteFails ==
  /\ pc \in WriteStep \ {"closing"} /\ Fault
  /\ WritePart
  /\ pc' = CASE pc = "write" /\ Undoable -> "undo"
             [] pc \in {"conceal", "reveal", "unflip"} -> "unflip"
             [] OTHER -> "closing"
  /\ buf' = IF pc \in {"conceal", "reveal"} THEN [b \in 0..Portion - 1 |-> disk[b]]
            ELSE buf
  /\ outcome' = "error" /\ errors' = errors + 1
  /\ UNCHANGED <<pending, direction, password, area, remaining, distance, changed, pass,
                 result, jobs, crashed, lost, toggled>>

(* Nobody looks at the result of the update in closing_seq.                *)
CloseFails ==
  /\ pc = "closing" /\ changed /\ Fault
  /\ WritePart
  /\ End(outcome)
  /\ UNCHANGED <<pending, jobs, crashed>>

Crash ==
  /\ pc # "idle" /\ Fault
  /\ WritePart
  /\ End("crash")
  /\ crashed' = TRUE
  /\ UNCHANGED <<pending, jobs>>

Begin == \E w \in Passwords : \/ BeginEncryption(w)
                              \/ \E way \in {"encrypt", "decrypt"} : Resume(w, way)
                              \/ StartDecryption(w)

Work == \/ WriteBackupHeader \/ Toggle \/ Untoggle \/ RecordJob \/ OpenBackupHeader
        \/ ReadChunk \/ WipeChunk \/ WriteChunk \/ UpdateHeader
        \/ \E cancel \in BOOLEAN : GoOn(cancel)
        \/ LeaveLoop \/ LastUpdate \/ WritePrimaryHeader \/ ZeroRest \/ FinishJob
        \/ UndoWrite \/ CloseJob

Fail == \/ ReadFails \/ WriteFails \/ CloseFails
        \/ \E b \in Span(From, Size) : ReadUnreadable({b})

Next == Begin \/ Work \/ Fail \/ Crash

Spec == Init /\ [][Next]_vars

-----------------------------------------------------------------------------
Headers == [start : 0..DataSize + Offset, length : 0..DataSize,
            password : Passwords \cup {"none"}]

TypeOK ==
  /\ disk \in [Blocks -> Content]
  /\ primary \in Headers /\ backup \in Headers /\ pending \in 0..MaxJobs
  /\ pc \in {"idle", "writeBackup", "conceal", "unflip", "record", "open", "read", "write",
            "undo", "update", "next", "lastUpdate", "writePrimary", "reveal", "zero",
            "zeroBackup", "finish", "closing"}
  /\ direction \in {"encrypt", "decrypt"} /\ password \in Passwords \cup {"none"}
  /\ area \in [start : 0..DataSize + Offset, length : 0..DataSize]
  /\ remaining \in 0..DataSize /\ distance \in 0..UpdateInterval + Chunk - 1
  /\ changed \in BOOLEAN /\ toggled \in BOOLEAN
  /\ DOMAIN buf \subseteq 0..Chunk - 1 /\ \A i \in DOMAIN buf : buf[i] \in Content
  /\ pass \in 0..WipePasses + 1
  /\ outcome \in {"error", "paused", "success"}
  /\ result \in {"none", "error", "paused", "success", "crash"}
  /\ errors \in 0..faults /\ jobs \in 0..MaxJobs /\ faults \in 0..MaxFaults
  /\ crashed \in BOOLEAN
  /\ lost \subseteq Data

(* Both headers, when both are there, describe the same area: who copies   *)
(* the primary's area to the backup (ChangePwd) moves no boundary.  Chunks *)
(* move it in the backup header alone (InPlace.c:1855); it holds because   *)
(* the first chunk decrypted overwrites the primary header.                *)
PrimaryAgrees == primary # NoHeader => backup # NoHeader /\ AreaOf(primary) = AreaOf(backup)

(* Ntvol.c:686-695: incomplete volumes are not mounted.                    *)
Mountable(h) == h # NoHeader /\ h.length = DataSize

(* A completed job leaves the file system as it was, with nothing          *)
(* concealed, and so does one that got as far as a volume that can be      *)
(* mounted, whatever interruptions, pauses and changes of direction went   *)
(* before, unless one had come between a toggle and the header.            *)
RevealedWhenDone ==
  pc = "idle" /\ ~toggled /\ (result = "success" \/ Mountable(backup)) =>
    \A p \in Data \ lost : ~Recovered(disk, backup, p).concealed

(* EncryptPartitionInPlaceBegin promises, when it has written the backup   *)
(* header and before it conceals the file system, that "we should be able  *)
(* to safely resume in-place encryption of this partition even if the      *)
(* system/app crashes" (InPlace.c:672).                                    *)
SafeToResume ==
  pc = "idle" /\ result = "success" /\ Mountable(backup) =>
    \A p \in Data \ lost : ~Recovered(disk, backup, p).concealed

(* Between jobs Windows cannot recognise the file system of a partition    *)
(* that is encrypted in part: what is still plain of its start is          *)
(* concealed (InPlace.c:676, :1627).                                       *)
HiddenWhilePartial ==
  pc = "idle" /\ ~toggled /\ backup # NoHeader /\ backup.length < DataSize =>
    \A b \in 0..Portion - 1 : b < backup.start - Offset /\ b \notin lost => disk[b].concealed

(* As long as nothing crashed, a partition that is encrypted in part is    *)
(* counted in the settings, which makes the wizard come back.              *)
PendingRecorded ==
  pc = "idle" /\ ~crashed /\ ~toggled /\ backup.length \in 1..DataSize - 1 => pending > 0

(* One device error during encryption costs nothing: the failed write is   *)
(* undone, and the closing sequence saves the header.                      *)
EncryptionErrorUndone ==
  [][ direction = "encrypt" /\ \/ CloseJob /\ errors <= 1
                               \/ CloseFails /\ errors = 0
      => lost' = lost ]_vars
=============================================================================
