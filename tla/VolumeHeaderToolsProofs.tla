----------------------- MODULE VolumeHeaderToolsProofs -----------------------
(***************************************************************************)
(* Proofs about VolumeHeaderTools, for any size of partition, chunk,       *)
(* offset, concealed portion and update interval that InPlaceAssumption    *)
(* admits, any number of jobs and of faults.                               *)
(***************************************************************************)
EXTENDS VolumeHeaderTools, TLAPS

(* The steps at which the area is not in use, and those at which it is:    *)
(* between two chunks, within one, and after the last.                     *)
BetweenChunks == {"read", "update", "next", "lastUpdate"}
InChunk == {"write", "undo"}
AfterChunks == {"writePrimary", "reveal", "zero", "zeroBackup", "finish"}
Outside == {"idle", "writeBackup", "conceal", "record", "open", "unflip"}
AreaInUse == BetweenChunks \cup InChunk \cup AfterChunks

(* An area reaches to the backup header.                                   *)
Fits(a) == a.start + a.length = DataSize + Offset

Shape ==
  /\ primary # NoHeader => Fits(primary)
  /\ backup # NoHeader => Fits(backup)
  /\ tool # "none" => Fits(copy) /\ pc = "idle"
  /\ pc \in AreaInUse =>
       /\ Fits(area)
       /\ remaining = IF direction = "encrypt" THEN DataSize - area.length ELSE area.length
  /\ pc = "closing" /\ changed => Fits(area)
  /\ pc \notin {"update", "closing"} => distance < UpdateInterval
  /\ pc \in InChunk => remaining > 0 /\ DOMAIN buf = 0..Size - 1
  /\ pc = "undo" => direction = "encrypt" /\ Size > Offset
  /\ pc = "unflip" => DOMAIN buf = 0..Portion - 1
  /\ pc \in {"conceal", "record", "open"} => backup # NoHeader
  /\ pc \in {"writeBackup", "conceal", "record"} => pending < jobs
  /\ pending <= jobs
  /\ pc \in Outside => ~changed
  /\ pc \in AfterChunks /\ direction = "decrypt" => ~changed

(* Where the headers are when they are written.                            *)
Agreement ==
  /\ PrimaryAgrees
  /\ primary # NoHeader => backup.length = DataSize
  /\ pc \in AreaInUse \/ (pc = "closing" /\ changed) =>
       (primary # NoHeader => AreaOf(backup) = area)
  /\ pc = "writeBackup" => primary = NoHeader /\ backup.length = 0
  /\ pc = "lastUpdate" /\ outcome # "paused" => remaining = 0
  /\ pc = "writePrimary" =>
       /\ direction = "encrypt" /\ backup # NoHeader /\ remaining = 0
       /\ AreaOf(backup) = area
  /\ pc \in {"reveal", "zero", "zeroBackup"} =>
       direction = "decrypt" /\ backup.length = 0 /\ area.length = 0 /\ remaining = 0
  /\ pc = "finish" => remaining = 0
  /\ tool \in {"primary", "backup"} => primary # NoHeader /\ AreaOf(copy) = AreaOf(primary)
  /\ tool = "restore" => /\ backup # NoHeader /\ backup.length = DataSize
                         /\ AreaOf(copy) = AreaOf(backup)

-----------------------------------------------------------------------------
(* Up to the frontier of a header data is plain, from there on encrypted.  *)
Frontier(h) == IF h = NoHeader THEN DataSize ELSE h.start - Offset
Edge == area.start - Offset

-----------------------------------------------------------------------------
(* What InPlaceAssumption says of the sizes, in the form the steps use.    *)
LEMMA Sizes ==
  /\ DataSize \in Nat /\ Offset \in Nat /\ Chunk \in Nat /\ Portion \in Nat
  /\ UpdateInterval \in Nat /\ WipePasses \in Nat /\ MaxJobs \in Nat /\ MaxFaults \in Nat
  /\ DataSize >= 1 /\ Offset >= 1 /\ Portion >= 1 /\ UpdateInterval >= 1
  /\ Portion <= Offset /\ Offset < Chunk /\ Portion <= DataSize
  BY InPlaceAssumption

(* What becomes of the content of a block.                                 *)
LEMMA ContentFacts ==
  ASSUME NEW c \in Content
  PROVE  /\ c.data \in Int /\ c.unit \in Int
         /\ Flip(c) \in Content
         /\ \A u \in Blocks : Encrypt(c, u) \in Content /\ Decrypt(c, u) \in Content
         /\ c.unit = Plain => /\ Flip(c).data = c.data /\ Flip(c).unit = Plain
                              /\ \A u : /\ Encrypt(c, u).data = c.data
                                        /\ Encrypt(c, u).unit = u
         /\ \A u : c.unit = u => /\ Decrypt(c, u).data = c.data
                                 /\ Decrypt(c, u).unit = Plain
<1>1. CASE c = Garbage
  BY <1>1, Sizes DEF Content, Garbage, Flip, Encrypt, Decrypt, Plain, Data, Blocks
<1>2. CASE c \in [data : Data, unit : Blocks \cup {Plain}, concealed : BOOLEAN]
  <2>1. /\ c.data \in Int /\ c.unit \in Int
        /\ c.unit = Plain => /\ Flip(c) = [c EXCEPT !.concealed = ~c.concealed]
                             /\ Flip(c).data = c.data /\ Flip(c).unit = Plain
        /\ c.unit # Plain => Flip(c) = Garbage
    BY <1>2, Sizes DEF Flip, Plain, Data, Blocks
  <2>5. Flip(c) \in Content
    <3> DEFINE Cells == [data : Data, unit : Blocks \cup {Plain}, concealed : BOOLEAN]
    <3>1. CASE c.concealed
      <4>1. [c EXCEPT !.concealed = ~c.concealed] = [c EXCEPT !.concealed = FALSE]
        BY <3>1
      <4>2. [c EXCEPT !.concealed = FALSE] \in Cells
        BY <1>2
      <4> QED
        BY <4>1, <4>2, <2>1 DEF Content
    <3>2. CASE ~c.concealed
      <4>1. [c EXCEPT !.concealed = ~c.concealed] = [c EXCEPT !.concealed = TRUE]
        BY <3>2
      <4>2. [c EXCEPT !.concealed = TRUE] \in Cells
        BY <1>2
      <4> QED
        BY <4>1, <4>2, <2>1 DEF Content
    <3> QED
      BY <3>1, <3>2
  <2>2. \A u \in Blocks : Encrypt(c, u) \in Content
    BY <1>2, Sizes DEF Content, Garbage, Encrypt, Plain, Data, Blocks
  <2>3. \A u \in Blocks : Decrypt(c, u) \in Content
    BY <1>2, Sizes DEF Content, Garbage, Decrypt, Plain, Data, Blocks
  <2>4. \A u : /\ c.unit = Plain => Encrypt(c, u).data = c.data /\ Encrypt(c, u).unit = u
               /\ c.unit = u => Decrypt(c, u).data = c.data /\ Decrypt(c, u).unit = Plain
    BY <1>2 DEF Encrypt, Decrypt
  <2> QED
    BY <2>1, <2>2, <2>3, <2>4, <2>5
<1> QED
  BY <1>1, <1>2 DEF Content

(* What a wiped or half-written block holds is a content too.              *)
LEMMA GarbageIsContent == Garbage \in Content
  BY DEF Content

(* The fields of a header.                                                 *)
LEMMA HeaderFacts ==
  /\ NoHeader \in Headers
  /\ \A h \in Headers : /\ h.start \in 0..DataSize + Offset /\ h.length \in 0..DataSize
                        /\ h.password \in Passwords \cup {"none"}
                        /\ Fits(h) => h # NoHeader /\ Offset <= h.start
  /\ \A h, w : /\ Header(h, w).start = h.start /\ Header(h, w).length = h.length
               /\ Header(h, w).password = w
               /\ AreaOf(Header(h, w)) = AreaOf(h)
  /\ \A h : AreaOf(h).start = h.start /\ AreaOf(h).length = h.length
  BY Sizes DEF Headers, NoHeader, Header, AreaOf, Fits

(* The arithmetic of a chunk.                                              *)
LEMMA ChunkFacts ==
  ASSUME TypeOK, Shape, pc \in AreaInUse
  PROVE  /\ remaining \in Nat /\ Edge \in 0..DataSize
         /\ area.start \in Int /\ area.length \in Int
         /\ Size \in Nat /\ Size <= Chunk /\ Size <= remaining
         /\ remaining > 0 => Size > 0
         /\ direction = "encrypt" =>
              /\ Edge = remaining /\ From = Edge - Size /\ To = From + Offset /\ UnitNo = To
         /\ direction = "decrypt" =>
              /\ Edge = DataSize - remaining /\ From = Edge + Offset /\ To = Edge
              /\ UnitNo = From
         /\ \A i \in 0..Size - 1 : From + i \in Blocks /\ To + i \in Blocks /\ UnitNo + i \in Blocks
<1>1. /\ area.start \in 0..DataSize + Offset /\ area.length \in 0..DataSize
      /\ area.start + area.length = DataSize + Offset
      /\ remaining = IF direction = "encrypt" THEN DataSize - area.length ELSE area.length
  BY DEF TypeOK, Shape, Fits
<1>2. /\ remaining \in Nat /\ Edge \in 0..DataSize
      /\ direction = "encrypt" => Edge = remaining
      /\ direction = "decrypt" => Edge = DataSize - remaining
  BY <1>1, Sizes DEF Edge
<1>3. /\ Size \in Nat /\ Size <= Chunk /\ Size <= remaining
      /\ remaining > 0 => Size > 0
  BY <1>2, Sizes DEF Size, Smaller
<1>4. /\ direction = "encrypt" => From = Edge - Size /\ To = From + Offset /\ UnitNo = To
      /\ direction = "decrypt" => From = Edge + Offset /\ To = Edge /\ UnitNo = From
  BY <1>1, <1>2, <1>3, Sizes DEF From, To, UnitNo, Edge
<1>5. direction \in {"encrypt", "decrypt"}
  BY DEF TypeOK
<1>6. \A i \in 0..Size - 1 : From + i \in Blocks /\ To + i \in Blocks /\ UnitNo + i \in Blocks
  <2>1. CASE direction = "encrypt"
    BY <2>1, <1>2, <1>3, <1>4, Sizes DEF Blocks
  <2>2. CASE direction = "decrypt"
    BY <2>2, <1>2, <1>3, <1>4, Sizes DEF Blocks
  <2> QED
    BY <1>5, <2>1, <2>2
<1> QED
  BY <1>1, <1>2, <1>3, <1>4, <1>6

(* The buffer of a chunk.                                                  *)
LEMMA TransformedTyped ==
  ASSUME TypeOK, Shape, pc \in AreaInUse, NEW cells \in [Blocks -> Content]
  PROVE  /\ DOMAIN Transformed(cells) = 0..Size - 1
         /\ \A i \in 0..Size - 1 : Transformed(cells)[i] \in Content
<1>1. DOMAIN Transformed(cells) = 0..Size - 1
  BY ChunkFacts DEF Transformed, Span
<1>2. ASSUME NEW i \in 0..Size - 1 PROVE Transformed(cells)[i] \in Content
  <2>1. cells[From + i] \in Content /\ UnitNo + i \in Blocks
    BY ChunkFacts
  <2>2. Uncover(i, cells[From + i]) \in Content
    BY <2>1, ContentFacts DEF Uncover
  <2>3. Encrypt(Uncover(i, cells[From + i]), UnitNo + i) \in Content
    BY <2>1, <2>2, ContentFacts
  <2>4. Decrypt(cells[From + i], UnitNo + i) \in Content
    BY <2>1, ContentFacts
  <2>5. Cover(i, Decrypt(cells[From + i], UnitNo + i)) \in Content
    BY <2>4, ContentFacts DEF Cover
  <2> QED
    BY <2>3, <2>5, ChunkFacts DEF Transformed, Span
<1> QED
  BY <1>1, <1>2

(* What a step writes to the device.                                       *)
LEMMA NewBlocksTyped ==
  ASSUME TypeOK, Shape
  PROVE  \A b \in DOMAIN NewBlocks : b \in Blocks /\ NewBlocks[b] \in Content
<1>1. disk \in [Blocks -> Content]
  BY DEF TypeOK
<1>2. CASE pc \in {"conceal", "reveal"}
  <2>1. NewBlocks = [b \in 0..Portion - 1 |-> Flip(disk[b])]
    BY <1>2 DEF NewBlocks
  <2>2. \A b \in 0..Portion - 1 : b \in Blocks
    BY Sizes DEF Blocks
  <2> QED
    BY <2>1, <2>2, <1>1, ContentFacts
<1>3. CASE pc = "unflip"
  <2>1. NewBlocks = [b \in 0..Portion - 1 |-> buf[b]]
    BY <1>3 DEF NewBlocks
  <2> QED
    BY <2>1, <1>3, Sizes DEF Blocks, Shape, TypeOK
<1>4. CASE pc = "write"
  <2>1. NewBlocks = [b \in Span(To, Size) |-> IF direction = "encrypt" /\ pass <= WipePasses
                                              THEN Garbage ELSE buf[b - To]]
    BY <1>4 DEF NewBlocks
  <2>2. pc \in AreaInUse /\ To \in Int /\ Size \in Int
    BY <1>4, ChunkFacts, Sizes DEF AreaInUse, InChunk, TypeOK
  <2>3. \A b \in Span(To, Size) : b - To \in 0..Size - 1 /\ To + (b - To) = b
    BY <2>2 DEF Span
  <2>4. \A b \in Span(To, Size) : b \in Blocks /\ buf[b - To] \in Content
    BY <2>2, <2>3, <1>4, ChunkFacts DEF Shape, TypeOK, InChunk
  <2> QED
    BY <2>1, <2>4, GarbageIsContent
<1>5. CASE pc = "undo"
  <2>1. NewBlocks = [b \in Span(To, Size - Offset) |->
                       Decrypt(buf[b - To + Offset], UnitNo + b - To + Offset)]
    BY <1>5 DEF NewBlocks
  <2>2. /\ pc \in AreaInUse /\ To \in Int /\ Size \in Int /\ UnitNo = To
        /\ DOMAIN buf = 0..Size - 1 /\ Size > Offset
    BY <1>5, ChunkFacts, Sizes DEF AreaInUse, InChunk, Shape, TypeOK
  <2>3. ASSUME NEW b \in Span(To, Size - Offset)
        PROVE  b \in Blocks /\ NewBlocks[b] \in Content
    <3>1. /\ b - To \in 0..Size - 1 /\ b - To + Offset \in 0..Size - 1
          /\ To + (b - To) = b /\ UnitNo + b - To + Offset = UnitNo + (b - To + Offset)
      BY <2>2, Sizes DEF Span
    <3>2. b \in Blocks /\ UnitNo + b - To + Offset \in Blocks
      BY <2>2, <3>1, ChunkFacts
    <3>3. buf[b - To + Offset] \in Content
      BY <2>2, <3>1 DEF TypeOK
    <3> QED
      BY <2>1, <3>2, <3>3, ContentFacts
  <2> QED
    BY <2>1, <2>3
<1>6. CASE pc = "writePrimary"
  BY <1>6, Sizes, GarbageIsContent DEF NewBlocks, Blocks
<1>7. CASE pc = "zero"
  BY <1>7, Sizes, GarbageIsContent DEF NewBlocks, Blocks, Span
<1>8. CASE pc \notin {"conceal", "reveal", "unflip", "write", "undo", "writePrimary", "zero"}
  BY <1>8 DEF NewBlocks, Empty
<1> QED
  BY <1>2, <1>3, <1>4, <1>5, <1>6, <1>7, <1>8

(* What a write, complete or in part, makes of the device.                 *)
LEMMA WriteTyped ==
  ASSUME TypeOK, Shape, NEW B \in SUBSET DOMAIN NewBlocks, Write(B)
  PROVE  /\ disk' \in [Blocks -> Content]
         /\ \A b \in Blocks : disk'[b] = IF b \in B THEN NewBlocks[b] ELSE disk[b]
         /\ primary' \in Headers
         /\ primary' # NoHeader => Fits(primary')
         /\ 0 \notin B => primary' = primary
         /\ pc # "writePrimary" /\ 0 \in B => primary' = NoHeader
         /\ pc = "writePrimary" /\ 0 \in B => primary' = Header(area, password)
<1>1. \A b \in B : NewBlocks[b] \in Content
  BY NewBlocksTyped
<1>2. disk \in [Blocks -> Content] /\ primary \in Headers
  BY DEF TypeOK
<1>3. disk' = [b \in Blocks |-> IF b \in B THEN NewBlocks[b] ELSE disk[b]]
  BY DEF Write
<1>4. \A b \in Blocks : disk'[b] = IF b \in B THEN NewBlocks[b] ELSE disk[b]
  BY <1>3
<1>5. \A b \in Blocks : (IF b \in B THEN NewBlocks[b] ELSE disk[b]) \in Content
  BY <1>1, <1>2
<1>6. disk' \in [Blocks -> Content]
  BY <1>3, <1>5
<1>7. pc = "writePrimary" => Header(area, password) \in Headers /\ Fits(Header(area, password))
  BY DEF AreaInUse, AfterChunks, Shape, TypeOK, Header, Headers, Fits
<1>8. /\ primary' = IF 0 \notin B THEN primary
                    ELSE IF pc = "writePrimary" THEN Header(area, password) ELSE NoHeader
      /\ primary # NoHeader => Fits(primary)
  BY DEF Write, Shape
<1> QED
  BY <1>2, <1>4, <1>6, <1>7, <1>8, HeaderFacts

(* The backup header a step writes.                                        *)
LEMMA BackupTyped ==
  ASSUME TypeOK, Shape
  PROVE  /\ NewBackup \in Headers
         /\ NewBackup # NoHeader => Fits(NewBackup)
         /\ pc \notin HeaderStep => NewBackup = backup
         /\ pc \in {"update", "lastUpdate"} \/ (pc = "closing" /\ changed) =>
              /\ NewBackup = Header(area, backup.password) /\ NewBackup # NoHeader
              /\ AreaOf(NewBackup) = area /\ Frontier(NewBackup) = Edge
              /\ NewBackup.length = area.length
<1>1. CASE pc = "writeBackup"
  BY <1>1, Sizes DEF NewBackup, HeaderStep, UpdateStep, Header, Headers, Fits, TypeOK
<1>2. CASE pc = "zeroBackup"
  BY <1>2, HeaderFacts DEF NewBackup, HeaderStep, UpdateStep
<1>3. CASE pc \in {"update", "lastUpdate"} \/ (pc = "closing" /\ changed)
  <2>1. NewBackup = Header(area, backup.password)
    BY <1>3 DEF NewBackup, HeaderStep, UpdateStep
  <2>2. /\ area \in [start : 0..DataSize + Offset, length : 0..DataSize]
        /\ backup.password \in Passwords \cup {"none"} /\ Fits(area)
    BY <1>3, HeaderFacts DEF TypeOK, Shape, AreaInUse, BetweenChunks
  <2>3. NewBackup \in Headers /\ Fits(NewBackup)
    BY <2>1, <2>2 DEF Header, Headers, Fits
  <2>4. NewBackup # NoHeader
    BY <2>3, HeaderFacts
  <2>5. AreaOf(NewBackup) = area
    BY <2>1, <2>2, HeaderFacts DEF AreaOf
  <2>6. Frontier(NewBackup) = Edge /\ NewBackup.length = area.length
    BY <2>1, <2>4, HeaderFacts DEF Frontier, Edge
  <2> QED
    BY <1>3, <2>1, <2>3, <2>4, <2>5, <2>6 DEF HeaderStep, UpdateStep
<1>4. CASE pc \notin HeaderStep
  <2>1. NewBackup = backup
    BY <1>4 DEF NewBackup, HeaderStep, UpdateStep
  <2> QED
    BY <1>4, <2>1 DEF TypeOK, Shape, HeaderStep, UpdateStep
<1> QED
  BY <1>1, <1>2, <1>3, <1>4 DEF HeaderStep, UpdateStep

ControlInv == ToolsTypeOK /\ Shape /\ Agreement

(* The invariant holds to begin with.                                      *)
LEMMA ControlInit == ToolsInit => ControlInv
<1> SUFFICES ASSUME ToolsInit PROVE ControlInv
  OBVIOUS
<1>1. \A b \in Blocks : (IF b \in Data THEN FileSystem(b) ELSE Garbage) \in Content
  BY Sizes DEF FileSystem, Content, Garbage, Plain, Data, Blocks
<1>2. disk \in [Blocks -> Content]
  BY <1>1 DEF ToolsInit, Init
<1>3. ToolsTypeOK
  <2>1. DOMAIN buf \subseteq 0..Chunk - 1 /\ \A i \in DOMAIN buf : buf[i] \in Content
    BY DEF ToolsInit, Init, Empty
  <2>2. area \in [start : 0..DataSize + Offset, length : 0..DataSize]
    BY Sizes DEF ToolsInit, Init, NoArea
  <2>3. /\ primary \in Headers /\ backup \in Headers /\ copy \in Headers
        /\ pc = "idle" /\ direction = "encrypt" /\ password = "none"
        /\ pending = 0 /\ remaining = 0 /\ distance = 0 /\ pass = 0 /\ errors = 0
        /\ jobs = 0 /\ faults = 0 /\ lost = {} /\ outcome = "error" /\ result = "none"
        /\ tool = "none"
    BY HeaderFacts DEF ToolsInit, Init
  <2>4. changed \in BOOLEAN /\ toggled \in BOOLEAN /\ crashed \in BOOLEAN
    BY DEF ToolsInit, Init
  <2> QED
    BY <1>2, <2>1, <2>2, <2>3, <2>4, Sizes DEF ToolsTypeOK, TypeOK
<1>4. Shape /\ Agreement
  BY Sizes DEF ToolsInit, Init, Shape, Agreement, PrimaryAgrees, AreaInUse, BetweenChunks,
               InChunk, AfterChunks, Outside
<1> QED
  BY <1>3, <1>4 DEF ControlInv

(* The device after a step that writes, in full or in part.                *)
LEMMA DeviceTyped ==
  ASSUME TypeOK, Shape, WriteAll \/ WritePart
  PROVE  /\ disk' \in [Blocks -> Content]
         /\ primary' \in Headers /\ (primary' # NoHeader => Fits(primary'))
         /\ backup' \in {backup, NewBackup} /\ (WriteAll => backup' = NewBackup)
         /\ backup' \in Headers /\ (backup' # NoHeader => Fits(backup'))
         /\ pc # "writePrimary" => primary' \in {primary, NoHeader}
         /\ WriteAll /\ pc # "writePrimary" /\ 0 \in DOMAIN NewBlocks => primary' = NoHeader
         /\ pc = "writePrimary" => primary' \in {primary, Header(area, password)}
         /\ \E B \in SUBSET DOMAIN NewBlocks :
              \A b \in Blocks : disk'[b] = IF b \in B THEN NewBlocks[b] ELSE disk[b]
<1>1. PICK B \in SUBSET DOMAIN NewBlocks : Write(B)
  BY DEF WriteAll, WritePart
<1>2. backup' \in {backup, NewBackup} /\ (WriteAll => backup' = NewBackup)
  BY BackupTyped DEF WriteAll, WritePart
<1>4. WriteAll /\ pc # "writePrimary" /\ 0 \in DOMAIN NewBlocks => primary' = NoHeader
  BY DEF WriteAll, Write
<1>3. backup \in Headers /\ (backup # NoHeader => Fits(backup))
  BY DEF TypeOK, Shape
<1> QED
  BY <1>1, <1>2, <1>3, <1>4, WriteTyped, BackupTyped

(* The end of a job.                                                       *)
LEMMA EndTyped ==
  ASSUME TypeOK, NEW report \in {"error", "paused", "success", "crash"}, End(report)
  PROVE  /\ pc' = "idle" /\ direction' = "encrypt" /\ password' = "none" /\ area' = NoArea
         /\ remaining' = 0 /\ distance' = 0 /\ ~changed' /\ changed' \in BOOLEAN
         /\ buf' = Empty /\ pass' = 0 /\ outcome' = "error" /\ errors' = 0
         /\ result' = report
         /\ lost' \subseteq Data /\ toggled' \in BOOLEAN
  BY DEF End, ForgetJob, TypeOK, Wrong

(* No write, whole or in part, makes the headers disagree.                 *)
LEMMA AgreeKept ==
  ASSUME ControlInv, WriteAll \/ WritePart
  PROVE  /\ primary' # NoHeader => /\ backup' # NoHeader /\ AreaOf(primary') = AreaOf(backup')
                                   /\ backup'.length = DataSize
         /\ pc \in AreaInUse \/ (pc = "closing" /\ changed) =>
              (primary' # NoHeader => AreaOf(backup') = area)
<1>0. TypeOK /\ Shape
  BY DEF ControlInv, ToolsTypeOK
<1>1. /\ primary # NoHeader => /\ backup # NoHeader /\ AreaOf(primary) = AreaOf(backup)
                               /\ backup.length = DataSize
      /\ pc \in AreaInUse \/ (pc = "closing" /\ changed) =>
           (primary # NoHeader => AreaOf(backup) = area)
  BY DEF ControlInv, Agreement, PrimaryAgrees
<1>2. CASE pc \notin HeaderStep \cup {"writePrimary"}
  <2>1. backup' = backup /\ primary' \in {primary, NoHeader}
    BY <1>0, <1>2, DeviceTyped, BackupTyped
  <2> QED
    BY <1>1, <2>1
<1>3. CASE pc \in UpdateStep
  <2>0. pc # "writePrimary" /\ (pc \in {"update", "lastUpdate"} \/ (pc = "closing" /\ changed))
    BY <1>3 DEF UpdateStep
  <2>1. /\ backup' \in {backup, NewBackup} /\ primary' \in {primary, NoHeader}
        /\ NewBackup # NoHeader /\ AreaOf(NewBackup) = area /\ NewBackup.length = area.length
    BY <1>0, <2>0, DeviceTyped, BackupTyped
  <2>2. primary # NoHeader => AreaOf(backup) = area /\ area.length = DataSize
    BY <1>1, <2>0, HeaderFacts DEF AreaInUse, BetweenChunks
  <2> QED
    BY <1>1, <2>1, <2>2
<1>4. CASE pc \in {"writeBackup", "zeroBackup"}
  <2>1. primary = NoHeader
    BY <1>1, <1>4, Sizes DEF ControlInv, Agreement
  <2>2. primary' = NoHeader
    BY <1>0, <1>4, <2>1, DeviceTyped
  <2> QED
    BY <2>2
<1>5. CASE pc = "writePrimary"
  <2>1. /\ backup # NoHeader /\ AreaOf(backup) = area /\ remaining = 0
        /\ direction = "encrypt"
    BY <1>5 DEF ControlInv, Agreement
  <2>2. backup' = backup /\ primary' \in {primary, Header(area, password)}
    BY <1>0, <1>5, DeviceTyped, BackupTyped DEF HeaderStep, UpdateStep
  <2>3. AreaOf(Header(area, password)) = area /\ backup.length = DataSize
    <3>1. area.length = DataSize
      BY <1>0, <1>5, <2>1, Sizes DEF Shape, TypeOK, AreaInUse, AfterChunks
    <3>2. area \in [start : 0..DataSize + Offset, length : 0..DataSize]
      BY <1>0 DEF TypeOK
    <3>3. AreaOf(Header(area, password)) = area
      BY <3>2, HeaderFacts DEF AreaOf
    <3> QED
      BY <3>1, <3>3, <2>1, HeaderFacts
  <2> QED
    BY <1>1, <2>1, <2>2, <2>3
<1> QED
  BY <1>2, <1>3, <1>4, <1>5 DEF HeaderStep

(* The steps of the wizard that leave the device alone.                    *)
LEMMA QuietSteps ==
  ASSUME ControlInv, tool = "none", UNCHANGED toolVars
  PROVE  /\ Begin => ControlInv'
         /\ RecordJob \/ OpenBackupHeader \/ (\E cancel \in BOOLEAN : GoOn(cancel)) \/ LeaveLoop
            \/ FinishJob \/ ReadFails => ControlInv'
<1> USE DEF deviceVars, jobVars, historyVars, toolVars
<1>1. ASSUME NEW w \in Passwords, BeginEncryption(w)
      PROVE  ControlInv'
  <2>4. changed' \in BOOLEAN /\ toggled' \in BOOLEAN /\ crashed' \in BOOLEAN /\ ~changed'
    BY <1>1 DEF ControlInv, ToolsTypeOK, TypeOK, Shape, Outside, BeginEncryption, BeginJob
  <2>1. ToolsTypeOK'
    BY <1>1, <2>4, Sizes, HeaderFacts
       DEF ControlInv, ToolsTypeOK, TypeOK, Shape, BeginEncryption, BeginJob, FileSystemVisible
  <2>2. Shape'
    BY <1>1, <2>4, Sizes, HeaderFacts
       DEF ControlInv, ToolsTypeOK, TypeOK, Shape, AreaInUse, Outside, BetweenChunks, InChunk, AfterChunks,
           Fits, BeginEncryption, BeginJob, FileSystemVisible
  <2>3. Agreement'
    BY <1>1, <2>4, Sizes, HeaderFacts
       DEF ControlInv, Agreement, PrimaryAgrees, ToolsTypeOK, TypeOK, Shape,
           AreaInUse, Outside, BetweenChunks, InChunk, AfterChunks, BeginEncryption, BeginJob, FileSystemVisible
  <2> QED
    BY <2>1, <2>2, <2>3 DEF ControlInv
<1>2. ASSUME NEW w \in Passwords, NEW way \in {"encrypt", "decrypt"}, Resume(w, way)
      PROVE  ControlInv'
  <2>1. ToolsTypeOK'
    BY <1>2, Sizes, HeaderFacts
       DEF ControlInv, ToolsTypeOK, TypeOK, Shape, Resume, BeginJob
  <2>2. Shape'
    BY <1>2, Sizes, HeaderFacts
       DEF ControlInv, ToolsTypeOK, TypeOK, Shape, AreaInUse, Outside, BetweenChunks, InChunk, AfterChunks,
           Fits, Resume, BeginJob
  <2>3. Agreement'
    BY <1>2, Sizes, HeaderFacts
       DEF ControlInv, Agreement, PrimaryAgrees, ToolsTypeOK, TypeOK, Shape,
           AreaInUse, Outside, BetweenChunks, InChunk, AfterChunks, Resume, BeginJob
  <2> QED
    BY <2>1, <2>2, <2>3 DEF ControlInv
<1>3. ASSUME NEW w \in Passwords, StartDecryption(w)
      PROVE  ControlInv'
  <2>1. ToolsTypeOK'
    BY <1>3, Sizes, HeaderFacts
       DEF ControlInv, ToolsTypeOK, TypeOK, Shape, StartDecryption, BeginJob, SaveSettings
  <2>2. Shape'
    BY <1>3, Sizes, HeaderFacts
       DEF ControlInv, ToolsTypeOK, TypeOK, Shape, AreaInUse, Outside, BetweenChunks, InChunk, AfterChunks,
           Fits, StartDecryption, BeginJob, SaveSettings
  <2>3. Agreement'
    BY <1>3, Sizes, HeaderFacts
       DEF ControlInv, Agreement, PrimaryAgrees, ToolsTypeOK, TypeOK, Shape,
           AreaInUse, Outside, BetweenChunks, InChunk, AfterChunks, StartDecryption, BeginJob, SaveSettings
  <2> QED
    BY <2>1, <2>2, <2>3 DEF ControlInv
<1>4. ASSUME RecordJob
      PROVE  ControlInv'
  <2>1. ToolsTypeOK'
    BY <1>4, Sizes, HeaderFacts
       DEF ControlInv, ToolsTypeOK, TypeOK, Shape, RecordJob, SaveSettings, Step
  <2>2. Shape'
    BY <1>4, Sizes, HeaderFacts
       DEF ControlInv, ToolsTypeOK, TypeOK, Shape, AreaInUse, Outside, BetweenChunks, InChunk, AfterChunks,
           Fits, RecordJob, SaveSettings, Step
  <2>3. Agreement'
    BY <1>4, Sizes, HeaderFacts
       DEF ControlInv, Agreement, PrimaryAgrees, ToolsTypeOK, TypeOK, Shape,
           AreaInUse, Outside, BetweenChunks, InChunk, AfterChunks, RecordJob, SaveSettings, Step
  <2> QED
    BY <2>1, <2>2, <2>3 DEF ControlInv
<1>5. ASSUME OpenBackupHeader
      PROVE  ControlInv'
  <2>4. area' \in [start : 0..DataSize + Offset, length : 0..DataSize]
    BY <1>5, HeaderFacts DEF ControlInv, ToolsTypeOK, TypeOK, OpenBackupHeader, AreaOf
  <2>5. /\ area'.start = backup.start /\ area'.length = backup.length /\ backup # NoHeader
        /\ backup.length \in 0..DataSize /\ Fits(backup)
    BY <1>5, HeaderFacts DEF ControlInv, ToolsTypeOK, TypeOK, Shape, OpenBackupHeader, Step
  <2>1. ToolsTypeOK'
    BY <1>5, <2>4, <2>5, Sizes, HeaderFacts
       DEF ControlInv, ToolsTypeOK, TypeOK, Shape, OpenBackupHeader, Step
  <2>2. Shape'
    BY <1>5, <2>4, <2>5, Sizes, HeaderFacts
       DEF ControlInv, ToolsTypeOK, TypeOK, Shape, AreaInUse, Outside, BetweenChunks, InChunk, AfterChunks,
           Fits, OpenBackupHeader, Step
  <2>3. Agreement'
    BY <1>5, <2>4, <2>5, Sizes, HeaderFacts
       DEF ControlInv, Agreement, PrimaryAgrees, ToolsTypeOK, TypeOK, Shape,
           AreaInUse, Outside, BetweenChunks, InChunk, AfterChunks, OpenBackupHeader, Step
  <2> QED
    BY <2>1, <2>2, <2>3 DEF ControlInv
<1>6. ASSUME NEW cancel \in BOOLEAN, GoOn(cancel)
      PROVE  ControlInv'
  <2>1. ToolsTypeOK'
    BY <1>6, Sizes, HeaderFacts
       DEF ControlInv, ToolsTypeOK, TypeOK, Shape, GoOn, Step
  <2>2. Shape'
    BY <1>6, Sizes, HeaderFacts
       DEF ControlInv, ToolsTypeOK, TypeOK, Shape, AreaInUse, Outside, BetweenChunks, InChunk, AfterChunks,
           Fits, GoOn, Step
  <2>3. Agreement'
    BY <1>6, Sizes, HeaderFacts
       DEF ControlInv, Agreement, PrimaryAgrees, ToolsTypeOK, TypeOK, Shape,
           AreaInUse, Outside, BetweenChunks, InChunk, AfterChunks, GoOn, Step
  <2> QED
    BY <2>1, <2>2, <2>3 DEF ControlInv
<1>7. ASSUME LeaveLoop
      PROVE  ControlInv'
  <2>1. ToolsTypeOK'
    BY <1>7, Sizes, HeaderFacts
       DEF ControlInv, ToolsTypeOK, TypeOK, Shape, LeaveLoop, Step
  <2>2. Shape'
    BY <1>7, Sizes, HeaderFacts
       DEF ControlInv, ToolsTypeOK, TypeOK, Shape, AreaInUse, Outside, BetweenChunks, InChunk, AfterChunks,
           Fits, LeaveLoop, Step
  <2>3. Agreement'
    BY <1>7, Sizes, HeaderFacts
       DEF ControlInv, Agreement, PrimaryAgrees, ToolsTypeOK, TypeOK, Shape,
           AreaInUse, Outside, BetweenChunks, InChunk, AfterChunks, LeaveLoop, Step
  <2> QED
    BY <2>1, <2>2, <2>3 DEF ControlInv
<1>8. ASSUME FinishJob
      PROVE  ControlInv'
  <2>1. ToolsTypeOK'
    BY <1>8, Sizes, HeaderFacts
       DEF ControlInv, ToolsTypeOK, TypeOK, Shape, FinishJob, SaveSettings, Step
  <2>2. Shape'
    BY <1>8, Sizes, HeaderFacts
       DEF ControlInv, ToolsTypeOK, TypeOK, Shape, AreaInUse, Outside, BetweenChunks, InChunk, AfterChunks,
           Fits, FinishJob, SaveSettings, Step
  <2>3. Agreement'
    BY <1>8, Sizes, HeaderFacts
       DEF ControlInv, Agreement, PrimaryAgrees, ToolsTypeOK, TypeOK, Shape,
           AreaInUse, Outside, BetweenChunks, InChunk, AfterChunks, FinishJob, SaveSettings, Step
  <2> QED
    BY <2>1, <2>2, <2>3 DEF ControlInv
<1>9. ASSUME ReadFails
      PROVE  ControlInv'
  <2>1. ToolsTypeOK'
    BY <1>9, Sizes, HeaderFacts
       DEF ControlInv, ToolsTypeOK, TypeOK, Shape, ReadFails, Fault, ReadStep
  <2>2. Shape'
    BY <1>9, Sizes, HeaderFacts
       DEF ControlInv, ToolsTypeOK, TypeOK, Shape, AreaInUse, Outside, BetweenChunks, InChunk, AfterChunks,
           Fits, ReadFails, Fault, ReadStep
  <2>3. Agreement'
    BY <1>9, Sizes, HeaderFacts
       DEF ControlInv, Agreement, PrimaryAgrees, ToolsTypeOK, TypeOK, Shape,
           AreaInUse, Outside, BetweenChunks, InChunk, AfterChunks, ReadFails, Fault, ReadStep
  <2> QED
    BY <2>1, <2>2, <2>3 DEF ControlInv
<1> QED
  BY <1>1, <1>2, <1>3, <1>4, <1>5, <1>6, <1>7, <1>8, <1>9 DEF Begin

(* The steps that write to the device, in full or in part.                 *)
LEMMA WriteSteps ==
  ASSUME ControlInv, tool = "none", UNCHANGED toolVars
  PROVE  \/ WriteBackupHeader \/ Toggle \/ Untoggle \/ WipeChunk \/ WriteChunk
         \/ UpdateHeader \/ LastUpdate \/ WritePrimaryHeader \/ ZeroRest \/ UndoWrite
         \/ CloseJob \/ WriteFails \/ CloseFails \/ Crash
         => ControlInv'
<1> USE DEF deviceVars, jobVars, historyVars, toolVars
<1>1. ASSUME WriteBackupHeader
      PROVE  ControlInv'
  <2>1. (WriteAll \/ WritePart) /\ TypeOK /\ Shape
    BY <1>1 DEF WriteBackupHeader, ControlInv, ToolsTypeOK
  <2>2. /\ disk' \in [Blocks -> Content] /\ primary' \in Headers /\ backup' \in Headers
        /\ (primary' # NoHeader => Fits(primary')) /\ (backup' # NoHeader => Fits(backup'))
    BY <2>1, DeviceTyped
  <2>3. /\ primary' # NoHeader => /\ backup' # NoHeader /\ AreaOf(primary') = AreaOf(backup')
                                  /\ backup'.length = DataSize
        /\ pc \in AreaInUse \/ (pc = "closing" /\ changed) =>
              (primary' # NoHeader => AreaOf(backup') = area)
    BY <2>1, AgreeKept
  <2>4. primary' = NoHeader /\ backup' # NoHeader
    <3>1. pc = "writeBackup" /\ WriteAll /\ primary = NoHeader
      BY <1>1 DEF WriteBackupHeader, Step, ControlInv, Agreement
    <3>2. backup' = Header([start |-> DataSize + Offset, length |-> 0], password)
      BY <3>1, <2>1, DeviceTyped DEF NewBackup, UpdateStep
    <3> QED
      BY <3>1, <3>2, <2>1, DeviceTyped, Sizes DEF Header, NoHeader
  <2>5. ToolsTypeOK'
    BY <1>1, <2>2, <2>4, Sizes
       DEF ControlInv, ToolsTypeOK, TypeOK, Shape, WriteBackupHeader, Step
  <2>6. Shape'
    BY <1>1, <2>2, <2>4, Sizes, HeaderFacts
       DEF ControlInv, ToolsTypeOK, TypeOK, Shape, AreaInUse, Outside, BetweenChunks,
           InChunk, AfterChunks, WriteBackupHeader, Step
  <2>7. Agreement'
    BY <1>1, <2>3, <2>4, Sizes, HeaderFacts
       DEF ControlInv, ToolsTypeOK, TypeOK, Shape, Agreement, PrimaryAgrees, AreaInUse,
           Outside, BetweenChunks, InChunk, AfterChunks, WriteBackupHeader, Step
  <2> QED
    BY <2>5, <2>6, <2>7 DEF ControlInv
<1>2. ASSUME Toggle
      PROVE  ControlInv'
  <2>1. (WriteAll \/ WritePart) /\ TypeOK /\ Shape
    BY <1>2 DEF Toggle, ControlInv, ToolsTypeOK
  <2>2. /\ disk' \in [Blocks -> Content] /\ primary' \in Headers /\ backup' \in Headers
        /\ (primary' # NoHeader => Fits(primary')) /\ (backup' # NoHeader => Fits(backup'))
    BY <2>1, DeviceTyped
  <2>3. /\ primary' # NoHeader => /\ backup' # NoHeader /\ AreaOf(primary') = AreaOf(backup')
                                  /\ backup'.length = DataSize
        /\ pc \in AreaInUse \/ (pc = "closing" /\ changed) =>
              (primary' # NoHeader => AreaOf(backup') = area)
    BY <2>1, AgreeKept
  <2>4. primary' = NoHeader /\ backup' = backup
    <3>1. pc \in {"conceal", "reveal"} /\ WriteAll
      BY <1>2 DEF Toggle, Step
    <3>2. DOMAIN NewBlocks = 0..Portion - 1
      BY <3>1 DEF NewBlocks
    <3> QED
      BY <3>1, <3>2, <2>1, DeviceTyped, BackupTyped, Sizes DEF HeaderStep, UpdateStep
  <2>5. ToolsTypeOK'
    BY <1>2, <2>2, <2>4, Sizes DEF ControlInv, ToolsTypeOK, TypeOK, Shape, Toggle, Step
  <2>6. Shape'
    BY <1>2, <2>2, <2>4, Sizes, HeaderFacts
       DEF ControlInv, ToolsTypeOK, TypeOK, Shape, AreaInUse, Outside, BetweenChunks,
           InChunk, AfterChunks, Toggle, Step
  <2>7. Agreement'
    BY <1>2, <2>3, <2>4, Sizes, HeaderFacts
       DEF ControlInv, ToolsTypeOK, TypeOK, Shape, Agreement, PrimaryAgrees, AreaInUse,
           Outside, BetweenChunks, InChunk, AfterChunks, Toggle, Step
  <2> QED
    BY <2>5, <2>6, <2>7 DEF ControlInv
<1>3. ASSUME Untoggle
      PROVE  ControlInv'
  <2>1. (WriteAll \/ WritePart) /\ TypeOK /\ Shape
    BY <1>3 DEF Untoggle, ControlInv, ToolsTypeOK
  <2>2. /\ disk' \in [Blocks -> Content] /\ primary' \in Headers /\ backup' \in Headers
        /\ (primary' # NoHeader => Fits(primary')) /\ (backup' # NoHeader => Fits(backup'))
    BY <2>1, DeviceTyped
  <2>3. /\ primary' # NoHeader => /\ backup' # NoHeader /\ AreaOf(primary') = AreaOf(backup')
                                  /\ backup'.length = DataSize
        /\ pc \in AreaInUse \/ (pc = "closing" /\ changed) =>
              (primary' # NoHeader => AreaOf(backup') = area)
    BY <2>1, AgreeKept
  <2>4. backup' = backup
    BY <1>3, <2>1, DeviceTyped, BackupTyped DEF Untoggle, Step, HeaderStep, UpdateStep
  <2>5. ToolsTypeOK'
    BY <1>3, <2>2, <2>4, Sizes DEF ControlInv, ToolsTypeOK, TypeOK, Shape, Untoggle, Step
  <2>6. Shape'
    BY <1>3, <2>2, <2>4, Sizes, HeaderFacts
       DEF ControlInv, ToolsTypeOK, TypeOK, Shape, AreaInUse, Outside, BetweenChunks,
           InChunk, AfterChunks, Untoggle, Step
  <2>7. Agreement'
    BY <1>3, <2>3, <2>4, Sizes, HeaderFacts
       DEF ControlInv, ToolsTypeOK, TypeOK, Shape, Agreement, PrimaryAgrees, AreaInUse,
           Outside, BetweenChunks, InChunk, AfterChunks, Untoggle, Step
  <2> QED
    BY <2>5, <2>6, <2>7 DEF ControlInv
<1>4. ASSUME WipeChunk
      PROVE  ControlInv'
  <2>1. (WriteAll \/ WritePart) /\ TypeOK /\ Shape
    BY <1>4 DEF WipeChunk, ControlInv, ToolsTypeOK
  <2>2. /\ disk' \in [Blocks -> Content] /\ primary' \in Headers /\ backup' \in Headers
        /\ (primary' # NoHeader => Fits(primary')) /\ (backup' # NoHeader => Fits(backup'))
    BY <2>1, DeviceTyped
  <2>3. /\ primary' # NoHeader => /\ backup' # NoHeader /\ AreaOf(primary') = AreaOf(backup')
                                  /\ backup'.length = DataSize
        /\ pc \in AreaInUse \/ (pc = "closing" /\ changed) =>
              (primary' # NoHeader => AreaOf(backup') = area)
    BY <2>1, AgreeKept
  <2>4. backup' = backup /\ Size' = Size
    BY <1>4, <2>1, DeviceTyped, BackupTyped
       DEF WipeChunk, Step, HeaderStep, UpdateStep, Size, Smaller
  <2>5. ToolsTypeOK'
    BY <1>4, <2>2, <2>4, Sizes DEF ControlInv, ToolsTypeOK, TypeOK, Shape, WipeChunk, Step
  <2>6. Shape'
    BY <1>4, <2>2, <2>4, Sizes, HeaderFacts
       DEF ControlInv, ToolsTypeOK, TypeOK, Shape, AreaInUse, Outside, BetweenChunks,
           InChunk, AfterChunks, WipeChunk, Step
  <2>7. Agreement'
    BY <1>4, <2>3, <2>4, Sizes, HeaderFacts
       DEF ControlInv, ToolsTypeOK, TypeOK, Shape, Agreement, PrimaryAgrees, AreaInUse,
           Outside, BetweenChunks, InChunk, AfterChunks, WipeChunk, Step
  <2> QED
    BY <2>5, <2>6, <2>7 DEF ControlInv
<1>5. ASSUME WriteChunk
      PROVE  ControlInv'
  <2>1. (WriteAll \/ WritePart) /\ TypeOK /\ Shape
    BY <1>5 DEF WriteChunk, ControlInv, ToolsTypeOK
  <2>2. /\ disk' \in [Blocks -> Content] /\ primary' \in Headers /\ backup' \in Headers
        /\ (primary' # NoHeader => Fits(primary')) /\ (backup' # NoHeader => Fits(backup'))
    BY <2>1, DeviceTyped
  <2>3. /\ primary' # NoHeader => /\ backup' # NoHeader /\ AreaOf(primary') = AreaOf(backup')
                                  /\ backup'.length = DataSize
        /\ pc \in AreaInUse \/ (pc = "closing" /\ changed) =>
              (primary' # NoHeader => AreaOf(backup') = area)
    BY <2>1, AgreeKept
  <2>4. backup' = backup /\ pc = "write" /\ remaining > 0
    BY <1>5, <2>1, DeviceTyped, BackupTyped
       DEF WriteChunk, Step, HeaderStep, UpdateStep, Shape, InChunk
  <2>0. /\ Size \in Nat /\ Size > 0 /\ Size <= Chunk /\ Size <= remaining /\ remaining \in Nat
        /\ Fits(area) /\ distance < UpdateInterval
        /\ direction \in {"encrypt", "decrypt"}
        /\ area.start \in 0..DataSize + Offset /\ area.length \in 0..DataSize
        /\ remaining = IF direction = "encrypt" THEN DataSize - area.length ELSE area.length
    BY <2>1, <2>4, ChunkFacts DEF TypeOK, Shape, AreaInUse, InChunk
  <2>8. /\ area' \in [start : 0..DataSize + Offset, length : 0..DataSize]
        /\ Fits(area')
        /\ remaining' \in 0..DataSize
        /\ remaining' = IF direction = "encrypt" THEN DataSize - area'.length ELSE area'.length
    <3>1. area' = MovedArea /\ remaining' = remaining - Size
      BY <1>5 DEF WriteChunk
    <3>2. CASE direction = "encrypt"
      BY <3>1, <3>2, <2>0, Sizes DEF MovedArea, Fits
    <3>3. CASE direction = "decrypt"
      BY <3>1, <3>3, <2>0, Sizes DEF MovedArea, Fits
    <3> QED
      BY <2>0, <3>2, <3>3
  <2>9. /\ distance' \in 0..UpdateInterval + Chunk - 1
        /\ pc' # "update" => distance' < UpdateInterval
        /\ pc' \in {"update", "next"}
    BY <1>5, <2>0, <2>1, Sizes DEF WriteChunk, UpdateDue, Step, TypeOK
  <2>10. primary' = NoHeader
    <3>1. CASE primary = NoHeader
      BY <3>1, <2>1, <2>4, DeviceTyped
    <3>2. CASE primary # NoHeader
      <4>1. AreaOf(backup) = area /\ backup.length = DataSize
        BY <3>2, <2>4 DEF ControlInv, Agreement, AreaInUse, InChunk
      <4>2. area.length = DataSize
        BY <4>1, HeaderFacts
      <4>3. direction = "decrypt" /\ To = 0
        BY <4>2, <2>0, <2>4, Sizes DEF To, Fits
      <4>4. 0 \in DOMAIN NewBlocks
        BY <4>3, <2>0, <2>4 DEF NewBlocks, Span
      <4> QED
        BY <4>4, <2>1, <2>4, <1>5, DeviceTyped DEF WriteChunk
    <3> QED
      BY <3>1, <3>2
  <2>5. ToolsTypeOK'
    BY <1>5, <2>2, <2>0, <2>10, <2>4, <2>8, <2>9, Sizes
       DEF ControlInv, ToolsTypeOK, TypeOK, Shape, WriteChunk, Empty
  <2>6. Shape'
    BY <1>5, <2>2, <2>0, <2>10, <2>4, <2>8, <2>9, Sizes, HeaderFacts
       DEF ControlInv, ToolsTypeOK, TypeOK, Shape, AreaInUse, Outside, BetweenChunks,
           InChunk, AfterChunks, WriteChunk, Empty
  <2>7. Agreement'
    BY <1>5, <2>3, <2>0, <2>10, <2>4, <2>8, <2>9, Sizes, HeaderFacts
       DEF ControlInv, ToolsTypeOK, TypeOK, Shape, Agreement, PrimaryAgrees, AreaInUse,
           Outside, BetweenChunks, InChunk, AfterChunks, WriteChunk, Empty
  <2> QED
    BY <2>5, <2>6, <2>7 DEF ControlInv
<1>6. ASSUME UpdateHeader
      PROVE  ControlInv'
  <2>1. (WriteAll \/ WritePart) /\ TypeOK /\ Shape
    BY <1>6 DEF UpdateHeader, ControlInv, ToolsTypeOK
  <2>2. /\ disk' \in [Blocks -> Content] /\ primary' \in Headers /\ backup' \in Headers
        /\ (primary' # NoHeader => Fits(primary')) /\ (backup' # NoHeader => Fits(backup'))
    BY <2>1, DeviceTyped
  <2>3. /\ primary' # NoHeader => /\ backup' # NoHeader /\ AreaOf(primary') = AreaOf(backup')
                                  /\ backup'.length = DataSize
        /\ pc \in AreaInUse \/ (pc = "closing" /\ changed) =>
              (primary' # NoHeader => AreaOf(backup') = area)
    BY <2>1, AgreeKept
  <2>4. AreaOf(backup') = area
    BY <1>6, <2>1, DeviceTyped, BackupTyped DEF UpdateHeader, Step
  <2>5. ToolsTypeOK'
    BY <1>6, <2>2, <2>4, Sizes DEF ControlInv, ToolsTypeOK, TypeOK, Shape, UpdateHeader, Step
  <2>6. Shape'
    BY <1>6, <2>2, <2>4, Sizes, HeaderFacts
       DEF ControlInv, ToolsTypeOK, TypeOK, Shape, AreaInUse, Outside, BetweenChunks,
           InChunk, AfterChunks, UpdateHeader, Step
  <2>7. Agreement'
    BY <1>6, <2>3, <2>4, Sizes, HeaderFacts
       DEF ControlInv, ToolsTypeOK, TypeOK, Shape, Agreement, PrimaryAgrees, AreaInUse,
           Outside, BetweenChunks, InChunk, AfterChunks, UpdateHeader, Step
  <2> QED
    BY <2>5, <2>6, <2>7 DEF ControlInv
<1>7. ASSUME LastUpdate
      PROVE  ControlInv'
  <2>1. (WriteAll \/ WritePart) /\ TypeOK /\ Shape
    BY <1>7 DEF LastUpdate, ControlInv, ToolsTypeOK
  <2>2. /\ disk' \in [Blocks -> Content] /\ primary' \in Headers /\ backup' \in Headers
        /\ (primary' # NoHeader => Fits(primary')) /\ (backup' # NoHeader => Fits(backup'))
    BY <2>1, DeviceTyped
  <2>3. /\ primary' # NoHeader => /\ backup' # NoHeader /\ AreaOf(primary') = AreaOf(backup')
                                  /\ backup'.length = DataSize
        /\ pc \in AreaInUse \/ (pc = "closing" /\ changed) =>
              (primary' # NoHeader => AreaOf(backup') = area)
    BY <2>1, AgreeKept
  <2>4. AreaOf(backup') = area /\ backup' # NoHeader /\ backup'.length = area.length
    BY <1>7, <2>1, DeviceTyped, BackupTyped DEF LastUpdate, Step
  <2>5. ToolsTypeOK'
    BY <1>7, <2>2, <2>4, Sizes
       DEF ControlInv, ToolsTypeOK, TypeOK, Shape, LastUpdate, AfterLoop, Step
  <2>6. Shape'
    BY <1>7, <2>2, <2>4, Sizes, HeaderFacts
       DEF ControlInv, ToolsTypeOK, TypeOK, Shape, AreaInUse, Outside, BetweenChunks,
           InChunk, AfterChunks, LastUpdate, AfterLoop, Step
  <2>7. Agreement'
    BY <1>7, <2>3, <2>4, Sizes, HeaderFacts
       DEF ControlInv, ToolsTypeOK, TypeOK, Shape, Agreement, PrimaryAgrees, AreaInUse,
           Outside, BetweenChunks, InChunk, AfterChunks, LastUpdate, AfterLoop, Step
  <2> QED
    BY <2>5, <2>6, <2>7 DEF ControlInv
<1>8. ASSUME WritePrimaryHeader
      PROVE  ControlInv'
  <2>1. (WriteAll \/ WritePart) /\ TypeOK /\ Shape
    BY <1>8 DEF WritePrimaryHeader, ControlInv, ToolsTypeOK
  <2>2. /\ disk' \in [Blocks -> Content] /\ primary' \in Headers /\ backup' \in Headers
        /\ (primary' # NoHeader => Fits(primary')) /\ (backup' # NoHeader => Fits(backup'))
    BY <2>1, DeviceTyped
  <2>3. /\ primary' # NoHeader => /\ backup' # NoHeader /\ AreaOf(primary') = AreaOf(backup')
                                  /\ backup'.length = DataSize
        /\ pc \in AreaInUse \/ (pc = "closing" /\ changed) =>
              (primary' # NoHeader => AreaOf(backup') = area)
    BY <2>1, AgreeKept
  <2>4. backup' = backup
    BY <1>8, <2>1, DeviceTyped, BackupTyped DEF WritePrimaryHeader, Step, HeaderStep, UpdateStep
  <2>5. ToolsTypeOK'
    BY <1>8, <2>2, <2>4, Sizes
       DEF ControlInv, ToolsTypeOK, TypeOK, Shape, WritePrimaryHeader, Step
  <2>6. Shape'
    BY <1>8, <2>2, <2>4, Sizes, HeaderFacts
       DEF ControlInv, ToolsTypeOK, TypeOK, Shape, AreaInUse, Outside, BetweenChunks,
           InChunk, AfterChunks, WritePrimaryHeader, Step
  <2>7. Agreement'
    BY <1>8, <2>3, <2>4, Sizes, HeaderFacts
       DEF ControlInv, ToolsTypeOK, TypeOK, Shape, Agreement, PrimaryAgrees, AreaInUse,
           Outside, BetweenChunks, InChunk, AfterChunks, WritePrimaryHeader, Step
  <2> QED
    BY <2>5, <2>6, <2>7 DEF ControlInv
<1>9. ASSUME ZeroRest
      PROVE  ControlInv'
  <2>1. (WriteAll \/ WritePart) /\ TypeOK /\ Shape
    BY <1>9 DEF ZeroRest, ControlInv, ToolsTypeOK
  <2>2. /\ disk' \in [Blocks -> Content] /\ primary' \in Headers /\ backup' \in Headers
        /\ (primary' # NoHeader => Fits(primary')) /\ (backup' # NoHeader => Fits(backup'))
    BY <2>1, DeviceTyped
  <2>3. /\ primary' # NoHeader => /\ backup' # NoHeader /\ AreaOf(primary') = AreaOf(backup')
                                  /\ backup'.length = DataSize
        /\ pc \in AreaInUse \/ (pc = "closing" /\ changed) =>
              (primary' # NoHeader => AreaOf(backup') = area)
    BY <2>1, AgreeKept
  <2>4. pc = "zero" => backup' = backup
    BY <1>9, <2>1, DeviceTyped, BackupTyped DEF ZeroRest, Step, HeaderStep, UpdateStep
  <2>5. ToolsTypeOK'
    BY <1>9, <2>2, <2>4, Sizes DEF ControlInv, ToolsTypeOK, TypeOK, Shape, ZeroRest, Step
  <2>6. Shape'
    BY <1>9, <2>2, <2>4, Sizes, HeaderFacts
       DEF ControlInv, ToolsTypeOK, TypeOK, Shape, AreaInUse, Outside, BetweenChunks,
           InChunk, AfterChunks, ZeroRest, Step
  <2>7. Agreement'
    BY <1>9, <2>3, <2>4, Sizes, HeaderFacts
       DEF ControlInv, ToolsTypeOK, TypeOK, Shape, Agreement, PrimaryAgrees, AreaInUse,
           Outside, BetweenChunks, InChunk, AfterChunks, ZeroRest, Step
  <2> QED
    BY <2>5, <2>6, <2>7 DEF ControlInv
<1>10. ASSUME UndoWrite
      PROVE  ControlInv'
  <2>1. (WriteAll \/ WritePart) /\ TypeOK /\ Shape
    BY <1>10 DEF UndoWrite, ControlInv, ToolsTypeOK
  <2>2. /\ disk' \in [Blocks -> Content] /\ primary' \in Headers /\ backup' \in Headers
        /\ (primary' # NoHeader => Fits(primary')) /\ (backup' # NoHeader => Fits(backup'))
    BY <2>1, DeviceTyped
  <2>3. /\ primary' # NoHeader => /\ backup' # NoHeader /\ AreaOf(primary') = AreaOf(backup')
                                  /\ backup'.length = DataSize
        /\ pc \in AreaInUse \/ (pc = "closing" /\ changed) =>
              (primary' # NoHeader => AreaOf(backup') = area)
    BY <2>1, AgreeKept
  <2>4. backup' = backup
    BY <1>10, <2>1, DeviceTyped, BackupTyped DEF UndoWrite, Step, HeaderStep, UpdateStep
  <2>5. ToolsTypeOK'
    BY <1>10, <2>2, <2>4, Sizes DEF ControlInv, ToolsTypeOK, TypeOK, Shape, UndoWrite, Step
  <2>6. Shape'
    BY <1>10, <2>2, <2>4, Sizes, HeaderFacts
       DEF ControlInv, ToolsTypeOK, TypeOK, Shape, AreaInUse, Outside, BetweenChunks,
           InChunk, AfterChunks, UndoWrite, Step
  <2>7. Agreement'
    BY <1>10, <2>3, <2>4, Sizes, HeaderFacts
       DEF ControlInv, ToolsTypeOK, TypeOK, Shape, Agreement, PrimaryAgrees, AreaInUse,
           Outside, BetweenChunks, InChunk, AfterChunks, UndoWrite, Step
  <2> QED
    BY <2>5, <2>6, <2>7 DEF ControlInv
<1>11. ASSUME CloseJob
      PROVE  ControlInv'
  <2>1. (WriteAll \/ WritePart) /\ TypeOK /\ Shape
    BY <1>11 DEF CloseJob, ControlInv, ToolsTypeOK
  <2>2. /\ disk' \in [Blocks -> Content] /\ primary' \in Headers /\ backup' \in Headers
        /\ (primary' # NoHeader => Fits(primary')) /\ (backup' # NoHeader => Fits(backup'))
    BY <2>1, DeviceTyped
  <2>3. /\ primary' # NoHeader => /\ backup' # NoHeader /\ AreaOf(primary') = AreaOf(backup')
                                  /\ backup'.length = DataSize
        /\ pc \in AreaInUse \/ (pc = "closing" /\ changed) =>
              (primary' # NoHeader => AreaOf(backup') = area)
    BY <2>1, AgreeKept
  <2>4. /\ pc' = "idle" /\ direction' = "encrypt" /\ password' = "none" /\ area' = NoArea
        /\ remaining' = 0 /\ distance' = 0 /\ buf' = Empty /\ pass' = 0 /\ outcome' = "error"
        /\ errors' = 0 /\ result' \in {"error", "paused", "success", "crash"}
        /\ lost' \subseteq Data /\ pending' = pending /\ jobs' = jobs
        /\ faults' \in 0..MaxFaults
    BY <1>11, <2>1, EndTyped, Sizes DEF CloseJob, TypeOK, Fault
  <2>8. ~changed' /\ changed' \in BOOLEAN /\ toggled' \in BOOLEAN /\ crashed' \in BOOLEAN
    BY <1>11, <2>1, EndTyped DEF CloseJob, TypeOK
  <2>5. ToolsTypeOK'
    BY <2>1, <2>2, <2>4, <2>8, Sizes DEF ControlInv, ToolsTypeOK, TypeOK, Shape, NoArea, Empty
  <2>6. Shape'
    BY <2>1, <2>2, <2>4, <2>8, Sizes
       DEF ControlInv, ToolsTypeOK, TypeOK, Shape, AreaInUse, Outside, BetweenChunks,
           InChunk, AfterChunks
  <2>7. Agreement'
    BY <2>1, <2>3, <2>4, <2>8
       DEF ControlInv, Agreement, PrimaryAgrees, AreaInUse, Outside, BetweenChunks, InChunk,
           AfterChunks
  <2> QED
    BY <2>5, <2>6, <2>7 DEF ControlInv
<1>12. ASSUME WriteFails
      PROVE  ControlInv'
  <2>1. (WriteAll \/ WritePart) /\ TypeOK /\ Shape
    BY <1>12 DEF WriteFails, ControlInv, ToolsTypeOK
  <2>2. /\ disk' \in [Blocks -> Content] /\ primary' \in Headers /\ backup' \in Headers
        /\ (primary' # NoHeader => Fits(primary')) /\ (backup' # NoHeader => Fits(backup'))
    BY <2>1, DeviceTyped
  <2>3. /\ primary' # NoHeader => /\ backup' # NoHeader /\ AreaOf(primary') = AreaOf(backup')
                                  /\ backup'.length = DataSize
        /\ pc \in AreaInUse \/ (pc = "closing" /\ changed) =>
              (primary' # NoHeader => AreaOf(backup') = area)
    BY <2>1, AgreeKept
  <2>4. /\ pc' \in {"undo", "unflip", "closing"} /\ pc \in WriteStep \ {"closing"}
        /\ pc' = "undo" <=> pc = "write" /\ Undoable
        /\ pc' = "unflip" <=> pc \in {"conceal", "reveal", "unflip"}
    BY <1>12 DEF WriteFails
  <2>0. /\ DOMAIN buf' \subseteq 0..Chunk - 1 /\ \A i \in DOMAIN buf' : buf'[i] \in Content
        /\ pc' = "unflip" => DOMAIN buf' = 0..Portion - 1
        /\ pc' = "undo" => buf' = buf
    <3>1. CASE pc \in {"conceal", "reveal"}
      <4>1. buf' = [b \in 0..Portion - 1 |-> disk[b]]
        BY <1>12, <3>1 DEF WriteFails
      <4>2. \A b \in 0..Portion - 1 : disk[b] \in Content /\ b \in 0..Chunk - 1
        BY <2>1, Sizes DEF TypeOK, Blocks
      <4> QED
        BY <4>1, <4>2, <3>1, <2>4
    <3>2. CASE pc \notin {"conceal", "reveal"}
      BY <1>12, <3>2, <2>4, <2>1 DEF WriteFails, TypeOK, Shape
    <3> QED
      BY <3>1, <3>2
  <2>8. pc' = "undo" => /\ direction = "encrypt" /\ Size > Offset /\ Size' = Size
                        /\ pc = "write"
    BY <1>12, <2>4 DEF WriteFails, Undoable, Size, Smaller
  <2>9. /\ errors' \in 0..faults' /\ faults' \in 0..MaxFaults /\ outcome' = "error"
        /\ UNCHANGED <<pending, direction, password, area, remaining, distance, pass, result,
                       jobs, lost>>
    <3>1. /\ errors' = errors + 1 /\ faults' = faults + 1 /\ faults < MaxFaults
          /\ outcome' = "error"
          /\ UNCHANGED <<pending, direction, password, area, remaining, distance, pass, result,
                         jobs, lost>>
      BY <1>12 DEF WriteFails, Fault
    <3>2. errors \in 0..faults /\ faults \in 0..MaxFaults
      BY <2>1 DEF TypeOK
    <3> QED
      BY <3>1, <3>2, Sizes
  <2>11. UNCHANGED <<changed, crashed, toggled>>
    BY <1>12 DEF WriteFails
  <2>10. /\ pc' = "closing" /\ changed => pc \in AreaInUse
         /\ pc' = "unflip" => ~changed
    <3>1. pc \in Outside => ~changed
      BY <2>1 DEF Shape
    <3>2. pc = "reveal" => ~changed
      BY <2>1 DEF Shape, ControlInv, Agreement, AfterChunks
    <3>3. pc \in Outside \cup AreaInUse \/ pc = "closing"
      BY <2>1 DEF TypeOK, AreaInUse, Outside, BetweenChunks, InChunk, AfterChunks
    <3>4. pc \in {"conceal", "unflip"} => pc \in Outside
      BY DEF Outside
    <3> QED
      BY <3>1, <3>2, <3>3, <3>4, <2>4
  <2>5. ToolsTypeOK'
    BY <2>1, <2>2, <2>0, <2>10, <2>4, <2>8, <2>9, <2>11, Sizes
       DEF ControlInv, ToolsTypeOK, TypeOK, Shape
  <2>6. Shape'
    BY <2>1, <2>2, <2>0, <2>10, <2>4, <2>8, <2>9, <2>11, Sizes, HeaderFacts
       DEF ControlInv, ToolsTypeOK, TypeOK, Shape, AreaInUse, Outside, BetweenChunks,
           InChunk, AfterChunks
  <2>7. Agreement'
    BY <2>1, <2>3, <2>0, <2>10, <2>4, <2>8, <2>9, <2>11, Sizes, HeaderFacts
       DEF ControlInv, ToolsTypeOK, TypeOK, Shape, Agreement, PrimaryAgrees, AreaInUse,
           Outside, BetweenChunks, InChunk, AfterChunks
  <2> QED
    BY <2>5, <2>6, <2>7 DEF ControlInv
<1>13. ASSUME CloseFails
      PROVE  ControlInv'
  <2>1. (WriteAll \/ WritePart) /\ TypeOK /\ Shape
    BY <1>13 DEF CloseFails, ControlInv, ToolsTypeOK
  <2>2. /\ disk' \in [Blocks -> Content] /\ primary' \in Headers /\ backup' \in Headers
        /\ (primary' # NoHeader => Fits(primary')) /\ (backup' # NoHeader => Fits(backup'))
    BY <2>1, DeviceTyped
  <2>3. /\ primary' # NoHeader => /\ backup' # NoHeader /\ AreaOf(primary') = AreaOf(backup')
                                  /\ backup'.length = DataSize
        /\ pc \in AreaInUse \/ (pc = "closing" /\ changed) =>
              (primary' # NoHeader => AreaOf(backup') = area)
    BY <2>1, AgreeKept
  <2>4. /\ pc' = "idle" /\ direction' = "encrypt" /\ password' = "none" /\ area' = NoArea
        /\ remaining' = 0 /\ distance' = 0 /\ buf' = Empty /\ pass' = 0 /\ outcome' = "error"
        /\ errors' = 0 /\ result' \in {"error", "paused", "success", "crash"}
        /\ lost' \subseteq Data /\ pending' = pending /\ jobs' = jobs
        /\ faults' \in 0..MaxFaults
    BY <1>13, <2>1, EndTyped, Sizes DEF CloseFails, TypeOK, Fault
  <2>8. ~changed' /\ changed' \in BOOLEAN /\ toggled' \in BOOLEAN /\ crashed' \in BOOLEAN
    BY <1>13, <2>1, EndTyped DEF CloseFails, TypeOK
  <2>5. ToolsTypeOK'
    BY <2>1, <2>2, <2>4, <2>8, Sizes DEF ControlInv, ToolsTypeOK, TypeOK, Shape, NoArea, Empty
  <2>6. Shape'
    BY <2>1, <2>2, <2>4, <2>8, Sizes
       DEF ControlInv, ToolsTypeOK, TypeOK, Shape, AreaInUse, Outside, BetweenChunks,
           InChunk, AfterChunks
  <2>7. Agreement'
    BY <2>1, <2>3, <2>4, <2>8
       DEF ControlInv, Agreement, PrimaryAgrees, AreaInUse, Outside, BetweenChunks, InChunk,
           AfterChunks
  <2> QED
    BY <2>5, <2>6, <2>7 DEF ControlInv
<1>14. ASSUME Crash
      PROVE  ControlInv'
  <2>1. (WriteAll \/ WritePart) /\ TypeOK /\ Shape
    BY <1>14 DEF Crash, ControlInv, ToolsTypeOK
  <2>2. /\ disk' \in [Blocks -> Content] /\ primary' \in Headers /\ backup' \in Headers
        /\ (primary' # NoHeader => Fits(primary')) /\ (backup' # NoHeader => Fits(backup'))
    BY <2>1, DeviceTyped
  <2>3. /\ primary' # NoHeader => /\ backup' # NoHeader /\ AreaOf(primary') = AreaOf(backup')
                                  /\ backup'.length = DataSize
        /\ pc \in AreaInUse \/ (pc = "closing" /\ changed) =>
              (primary' # NoHeader => AreaOf(backup') = area)
    BY <2>1, AgreeKept
  <2>4. /\ pc' = "idle" /\ direction' = "encrypt" /\ password' = "none" /\ area' = NoArea
        /\ remaining' = 0 /\ distance' = 0 /\ buf' = Empty /\ pass' = 0 /\ outcome' = "error"
        /\ errors' = 0 /\ result' \in {"error", "paused", "success", "crash"}
        /\ lost' \subseteq Data /\ pending' = pending /\ jobs' = jobs
        /\ faults' \in 0..MaxFaults
    BY <1>14, <2>1, EndTyped, Sizes DEF Crash, TypeOK, Fault
  <2>8. ~changed' /\ changed' \in BOOLEAN /\ toggled' \in BOOLEAN /\ crashed' \in BOOLEAN
    BY <1>14, <2>1, EndTyped DEF Crash, TypeOK
  <2>5. ToolsTypeOK'
    BY <2>1, <2>2, <2>4, <2>8, Sizes DEF ControlInv, ToolsTypeOK, TypeOK, Shape, NoArea, Empty
  <2>6. Shape'
    BY <2>1, <2>2, <2>4, <2>8, Sizes
       DEF ControlInv, ToolsTypeOK, TypeOK, Shape, AreaInUse, Outside, BetweenChunks,
           InChunk, AfterChunks
  <2>7. Agreement'
    BY <2>1, <2>3, <2>4, <2>8
       DEF ControlInv, Agreement, PrimaryAgrees, AreaInUse, Outside, BetweenChunks, InChunk,
           AfterChunks
  <2> QED
    BY <2>5, <2>6, <2>7 DEF ControlInv
<1> QED
  BY <1>1, <1>2, <1>3, <1>4, <1>5, <1>6, <1>7, <1>8, <1>9, <1>10, <1>11, <1>12, <1>13, <1>14
(* The steps that read a chunk.                                            *)
LEMMA ReadSteps ==
  ASSUME ControlInv, tool = "none", UNCHANGED toolVars
  PROVE  ReadChunk \/ (\E b \in Span(From, Size) : ReadUnreadable({b})) => ControlInv'
<1> USE DEF deviceVars, jobVars, historyVars, toolVars
<1>1. ASSUME NEW cells \in [Blocks -> Content], pc = "read", buf' = Transformed(cells),
             UNCHANGED <<direction, area, remaining>>
      PROVE  /\ DOMAIN buf' = 0..Size - 1 /\ Size' = Size
             /\ DOMAIN buf' \subseteq 0..Chunk - 1 /\ \A i \in DOMAIN buf' : buf'[i] \in Content
  <2>1. TypeOK /\ Shape /\ pc \in AreaInUse
    BY <1>1 DEF ControlInv, ToolsTypeOK, AreaInUse, BetweenChunks
  <2>2. /\ DOMAIN buf' = 0..Size - 1 /\ \A i \in 0..Size - 1 : buf'[i] \in Content
        /\ Size \in Nat /\ Size <= Chunk
    BY <1>1, <2>1, TransformedTyped, ChunkFacts
  <2> QED
    BY <1>1, <2>2, Sizes DEF Size, Smaller
<1>2. ASSUME ReadChunk
      PROVE  ControlInv'
  <2>1. /\ DOMAIN buf' = 0..Size - 1 /\ Size' = Size
        /\ DOMAIN buf' \subseteq 0..Chunk - 1 /\ \A i \in DOMAIN buf' : buf'[i] \in Content
    BY <1>2, <1>1 DEF ReadChunk, Step, ControlInv, ToolsTypeOK, TypeOK
  <2>2. ToolsTypeOK'
    BY <1>2, <2>1, Sizes DEF ControlInv, ToolsTypeOK, TypeOK, ReadChunk, Step
  <2>3. Shape'
    BY <1>2, <2>1
       DEF ControlInv, Shape, AreaInUse, Outside, BetweenChunks, InChunk, AfterChunks,
           ReadChunk, Step
  <2>4. Agreement'
    BY <1>2 DEF ControlInv, Agreement, PrimaryAgrees, AreaInUse, BetweenChunks, InChunk,
                AfterChunks, ReadChunk, Step
  <2> QED
    BY <2>2, <2>3, <2>4 DEF ControlInv
<1>3. ASSUME NEW b \in Span(From, Size), ReadUnreadable({b})
      PROVE  ControlInv'
  <2> DEFINE read == [c \in Blocks |-> IF c \in {b} THEN Garbage ELSE disk[c]]
  <2>1. /\ TypeOK /\ Shape /\ pc \in AreaInUse /\ pc = "read" /\ pc' = "write"
        /\ remaining > 0 /\ buf' = Transformed(read)
        /\ UNCHANGED <<direction, area, remaining>>
    BY <1>3 DEF ControlInv, ToolsTypeOK, AreaInUse, BetweenChunks, ReadUnreadable, Step
  <2>2. read \in [Blocks -> Content]
    BY <2>1, GarbageIsContent DEF TypeOK
  <2>3. /\ DOMAIN buf' = 0..Size - 1 /\ Size' = Size
        /\ DOMAIN buf' \subseteq 0..Chunk - 1 /\ \A i \in DOMAIN buf' : buf'[i] \in Content
    BY <2>1, <2>2, <1>1
  <2>4. disk' \in [Blocks -> Content] /\ lost' \subseteq Data
    <3>1. CASE direction = "encrypt"
      <4>1. b \in Data
        BY <2>1, <3>1, ChunkFacts, Sizes DEF Span, Data
      <4> QED
        BY <1>3, <3>1, <4>1, <2>1, <2>2 DEF ReadUnreadable, TypeOK
    <3>2. CASE direction # "encrypt"
      BY <1>3, <3>2, <2>1 DEF ReadUnreadable, TypeOK
    <3> QED
      BY <3>1, <3>2
  <2>5. /\ errors' \in 0..faults' /\ faults' \in 0..MaxFaults
        /\ pass' = 1 /\ UNCHANGED <<primary, backup, pending, password, distance, outcome,
                                    result, jobs>>
    <3>1. /\ errors' = errors + 1 /\ faults' = faults + 1 /\ faults < MaxFaults
          /\ pass' = 1 /\ UNCHANGED <<primary, backup, pending, password, distance, outcome,
                                      result, jobs>>
      BY <1>3 DEF ReadUnreadable, Fault
    <3>2. errors \in 0..faults /\ faults \in 0..MaxFaults
      BY <2>1 DEF TypeOK
    <3> QED
      BY <3>1, <3>2, Sizes
  <2>6. UNCHANGED <<changed, crashed, toggled>>
    BY <1>3 DEF ReadUnreadable
  <2>7. ToolsTypeOK'
    <3>1. changed' \in BOOLEAN /\ crashed' \in BOOLEAN /\ toggled' \in BOOLEAN
      BY <2>1, <2>6 DEF TypeOK
    <3>2. /\ pass' \in 0..WipePasses + 1 /\ tool' = "none" /\ copy' \in Headers
      BY <2>5, Sizes DEF ControlInv, ToolsTypeOK
    <3> QED
      BY <2>1, <2>3, <2>4, <2>5, <3>1, <3>2 DEF ToolsTypeOK, TypeOK
  <2>8. Shape'
    BY <2>1, <2>3, <2>5, <2>6
       DEF ControlInv, Shape, AreaInUse, Outside, BetweenChunks, InChunk, AfterChunks
  <2>9. Agreement'
    BY <2>1, <2>5, <2>6
       DEF ControlInv, Agreement, PrimaryAgrees, AreaInUse, BetweenChunks, InChunk, AfterChunks
  <2> QED
    BY <2>7, <2>8, <2>9 DEF ControlInv
<1> QED
  BY <1>2, <1>3

(* The steps of ChangePwd and RestoreVolumeHeader.                         *)
LEMMA ToolSteps ==
  ASSUME ControlInv,
         \/ UseTool \/ ChangePrimary \/ FinishTool
         \/ \E report \in {"error", "crash"} : StopTool(report)
  PROVE  ControlInv'
<1> USE DEF deviceVars, jobVars, historyVars, toolVars
<1>1. ASSUME NEW name \in {"primary", "restore"}, NEW h \in {primary, backup},
             NEW w \in Passwords, h # NoHeader, RunTool(name, Header(h, w)),
             name = "primary" => h = primary,
             name = "restore" => h = backup /\ backup.length = DataSize
      PROVE  ControlInv'
  <2>1. /\ copy' = Header(h, w) /\ tool' = name /\ pc = "idle" /\ pc' = "idle"
        /\ h \in Headers /\ Fits(h)
    BY <1>1 DEF RunTool, ControlInv, ToolsTypeOK, TypeOK, Shape
  <2>2. /\ copy' \in Headers /\ Fits(copy') /\ AreaOf(copy') = AreaOf(h)
    BY <2>1, HeaderFacts DEF Header, Headers, Fits
  <2>3. ToolsTypeOK'
    BY <1>1, <2>1, <2>2, Sizes DEF RunTool, ControlInv, ToolsTypeOK, TypeOK
  <2>4. Shape'
    BY <1>1, <2>1, <2>2, Sizes
       DEF RunTool, ControlInv, ToolsTypeOK, TypeOK, Shape, AreaInUse, Outside, BetweenChunks,
           InChunk, AfterChunks
  <2>5. Agreement'
    BY <1>1, <2>1, <2>2
       DEF RunTool, ControlInv, Agreement, PrimaryAgrees, AreaInUse, BetweenChunks, InChunk,
           AfterChunks
  <2> QED
    BY <2>3, <2>4, <2>5 DEF ControlInv
<1>2. CASE UseTool
  BY <1>1, <1>2 DEF UseTool, ChangePwd, RestoreVolumeHeader
<1>3. ASSUME NEW B \in SUBSET ToolBlocks,
             NEW h \in {backup, IF tool = "backup" THEN copy ELSE backup},
             WriteTool(B, h), tool # "none"
      PROVE  /\ disk' \in [Blocks -> Content] /\ primary' \in Headers /\ backup' \in Headers
             /\ (primary' # NoHeader => Fits(primary')) /\ (backup' # NoHeader => Fits(backup'))
             /\ primary' # NoHeader => /\ backup' # NoHeader /\ backup'.length = DataSize
                                       /\ AreaOf(primary') = AreaOf(backup')
             /\ tool = "primary" => primary' # NoHeader /\ AreaOf(copy) = AreaOf(primary')
             /\ pc = "idle"
  <2>1. /\ TypeOK /\ copy \in Headers /\ Fits(copy) /\ pc = "idle"
        /\ tool \in {"primary", "backup", "restore"} /\ copy # NoHeader
    BY <1>3, HeaderFacts DEF ControlInv, ToolsTypeOK, Shape
  <2>2. disk' \in [Blocks -> Content]
    BY <1>3, <2>1, GarbageIsContent DEF WriteTool, TypeOK
  <2>3. /\ primary' \in {primary, copy} /\ backup' \in {backup, copy}
        /\ tool # "backup" => backup' = backup
        /\ tool = "backup" => primary' = primary
    BY <1>3, <2>1 DEF WriteTool, ToolBlocks
  <2>4. /\ primary \in Headers /\ backup \in Headers
        /\ (primary # NoHeader => Fits(primary)) /\ (backup # NoHeader => Fits(backup))
    BY <2>1 DEF ControlInv, TypeOK, Shape
  <2>5. /\ primary # NoHeader => /\ backup # NoHeader /\ backup.length = DataSize
                                 /\ AreaOf(primary) = AreaOf(backup)
        /\ tool \in {"primary", "backup"} => primary # NoHeader /\ AreaOf(copy) = AreaOf(primary)
        /\ tool = "restore" => /\ backup # NoHeader /\ backup.length = DataSize
                               /\ AreaOf(copy) = AreaOf(backup)
    BY DEF ControlInv, Agreement, PrimaryAgrees
  <2>6. AreaOf(copy) = AreaOf(backup) => copy.length = backup.length
    BY HeaderFacts
  <2> QED
    BY <2>1, <2>2, <2>3, <2>4, <2>5, <2>6
<1>4. CASE ChangePrimary
  <2>1. /\ WriteTool(ToolBlocks, backup) /\ tool = "primary" /\ tool' = "backup"
        /\ UNCHANGED <<pending, pc, jobVars, historyVars, copy>>
    BY <1>4 DEF ChangePrimary
  <2>2. /\ disk' \in [Blocks -> Content] /\ primary' \in Headers /\ backup' \in Headers
        /\ (primary' # NoHeader => Fits(primary')) /\ (backup' # NoHeader => Fits(backup'))
        /\ primary' # NoHeader => /\ backup' # NoHeader /\ backup'.length = DataSize
                                  /\ AreaOf(primary') = AreaOf(backup')
        /\ primary' # NoHeader /\ AreaOf(copy) = AreaOf(primary')
        /\ pc = "idle"
    BY <1>3, <2>1
  <2>3. ToolsTypeOK'
    BY <2>1, <2>2 DEF ControlInv, ToolsTypeOK, TypeOK
  <2>4. Shape'
    BY <2>1, <2>2
       DEF ControlInv, Shape, AreaInUse, Outside, BetweenChunks, InChunk, AfterChunks
  <2>5. Agreement'
    BY <2>1, <2>2
       DEF ControlInv, Agreement, PrimaryAgrees, AreaInUse, BetweenChunks, InChunk, AfterChunks
  <2> QED
    BY <2>3, <2>4, <2>5 DEF ControlInv
<1>5. ASSUME NEW B \in SUBSET ToolBlocks,
             NEW h \in {backup, IF tool = "backup" THEN copy ELSE backup},
             NEW report \in {"success", "error", "crash"},
             WriteTool(B, h), tool # "none", EndTool(report),
             faults' \in 0..MaxFaults, faults <= faults', crashed' \in BOOLEAN,
             UNCHANGED <<pending, pc, jobVars, jobs>>
      PROVE  ControlInv'
  <2>1. /\ disk' \in [Blocks -> Content] /\ primary' \in Headers /\ backup' \in Headers
        /\ (primary' # NoHeader => Fits(primary')) /\ (backup' # NoHeader => Fits(backup'))
        /\ primary' # NoHeader => /\ backup' # NoHeader /\ backup'.length = DataSize
                                  /\ AreaOf(primary') = AreaOf(backup')
        /\ pc = "idle"
    BY <1>3, <1>5
  <2>2. /\ tool' = "none" /\ copy' = NoHeader /\ result' = report /\ lost' \subseteq Data
    BY <1>5 DEF EndTool, ControlInv, ToolsTypeOK, TypeOK, Wrong
  <2>3. toggled' \in BOOLEAN
    BY <1>5 DEF EndTool, ControlInv, ToolsTypeOK, TypeOK
  <2>4. errors' \in 0..faults'
    BY <1>5 DEF ControlInv, ToolsTypeOK, TypeOK
  <2>5. ToolsTypeOK'
    BY <1>5, <2>1, <2>2, <2>3, <2>4, HeaderFacts DEF ControlInv, ToolsTypeOK, TypeOK
  <2>6. Shape'
    BY <1>5, <2>1, <2>2
       DEF ControlInv, Shape, AreaInUse, Outside, BetweenChunks, InChunk, AfterChunks
  <2>7. Agreement'
    BY <1>5, <2>1, <2>2
       DEF ControlInv, Agreement, PrimaryAgrees, AreaInUse, BetweenChunks, InChunk, AfterChunks
  <2> QED
    BY <2>5, <2>6, <2>7 DEF ControlInv
<1>6. CASE FinishTool
  <2>1. /\ tool # "none" /\ WriteTool(ToolBlocks, IF tool = "backup" THEN copy ELSE backup)
        /\ EndTool("success") /\ UNCHANGED <<pending, pc, jobVars, jobs, faults, crashed>>
    BY <1>6 DEF FinishTool
  <2>2. faults' \in 0..MaxFaults /\ faults <= faults' /\ crashed' \in BOOLEAN
    BY <2>1, Sizes DEF ControlInv, ToolsTypeOK, TypeOK
  <2> QED
    BY <1>5, <2>1, <2>2
<1>7. ASSUME NEW report \in {"error", "crash"}, StopTool(report)
      PROVE  ControlInv'
  <2>1. PICK B \in SUBSET ToolBlocks, h \in {backup, IF tool = "backup" THEN copy ELSE backup} :
          WriteTool(B, h)
    BY <1>7 DEF StopTool
  <2>2. faults' \in 0..MaxFaults /\ faults <= faults'
    BY <1>7, Sizes DEF StopTool, Fault, ControlInv, ToolsTypeOK, TypeOK
  <2>3. crashed' \in BOOLEAN
    BY <1>7 DEF StopTool, ControlInv, ToolsTypeOK, TypeOK
  <2> QED
    BY <1>5, <1>7, <2>1, <2>2, <2>3 DEF StopTool
<1> QED
  BY <1>2, <1>4, <1>6, <1>7

(* Every step preserves it: one lemma per kind of step.                    *)
LEMMA ControlStep == ControlInv /\ [ToolsNext]_allVars => ControlInv'
<1> SUFFICES ASSUME ControlInv, [ToolsNext]_allVars PROVE ControlInv'
  OBVIOUS
<1>1. CASE InPlaceStep(Next)
  BY <1>1, QuietSteps, ReadSteps, WriteSteps DEF InPlaceStep, Next, Work, Fail
<1>2. CASE UNCHANGED allVars
  <2>1. ToolsTypeOK'
    BY <1>2 DEF ControlInv, ToolsTypeOK, TypeOK, allVars, vars, deviceVars, jobVars,
                historyVars, toolVars
  <2>2. Shape' /\ Agreement'
    BY <1>2 DEF ControlInv, Shape, Agreement, PrimaryAgrees, allVars, vars, deviceVars, jobVars,
                historyVars, toolVars, Size, Fits
  <2> QED
    BY <2>1, <2>2 DEF ControlInv
<1> QED
  BY <1>1, <1>2, ToolSteps DEF ToolsNext

(* The invariant holds throughout.                                         *)
LEMMA ControlCorrect == ToolsSpec => []ControlInv
  BY ControlInit, ControlStep, PTL DEF ToolsSpec

(* Every variable keeps its type, and the arithmetic of areas, chunks and  *)
(* distances stays within the partition, whatever jobs, tools, errors and  *)
(* crashes follow each other.                                              *)
THEOREM TypeCorrect == ToolsSpec => []ToolsTypeOK
<1>1. ControlInv => ToolsTypeOK
  BY DEF ControlInv
<1> QED
  BY <1>1, ControlCorrect, PTL

(* The two headers never disagree about what is encrypted: the chunks move *)
(* the boundary in the backup header only (InPlace.c:1855), and ChangePwd  *)
(* copies the primary header over both.                                    *)
THEOREM HeadersAgree == ToolsSpec => []PrimaryAgrees
<1>1. ControlInv => PrimaryAgrees
  BY DEF ControlInv, Agreement
<1> QED
  BY <1>1, ControlCorrect, PTL
=============================================================================
