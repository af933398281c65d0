--------------------------- MODULE KeptContentProofs ---------------------------
(***************************************************************************)
(* The jobs and tools of VolumeHeaderTools keep what KeptContent promises, *)
(* for any sizes that InPlaceAssumption admits.  The first invariant says, *)
(* for every step of a job, where on the device the content of a data      *)
(* block is, relative to the area in memory and to that of the backup      *)
(* header.  The second one follows what conceals the start of the file     *)
(* system, the third one what a single device error leaves.                *)
(***************************************************************************)
EXTENDS VolumeHeaderToolsProofs

Plainly(d, p) == d[p].data = p /\ d[p].unit = Plain
Encrypted(d, p) == d[p + Offset].data = p /\ d[p + Offset].unit = p + Offset
Intact(d, f, p) == IF p < f THEN Plainly(d, p) ELSE Encrypted(d, p)

Kept == Data \ lost
MaxLoss == UpdateInterval - 1 + Chunk - Offset

Lossy(d, f) ==
  \E first \in Data : \A p \in Kept : ~Intact(d, f, p) => p \in first..first + MaxLoss - 1

(* What is missing lies between low and high.                              *)
Within(d, f, low, high) == \A p \in Kept : ~Intact(d, f, p) => low <= p /\ p < high

(* The data units of the chunk in work.                                    *)
InWork(p) == IF direction = "encrypt" THEN Edge - Size <= p /\ p < Edge
             ELSE Edge <= p /\ p < Edge + Size

(* Down to here, or up to here, the blocks are as the job found them.      *)
Untouched(p) == IF direction = "encrypt"
                THEN p < Edge + Offset - (IF pc \in InChunk THEN Size ELSE 0)
                ELSE p >= Edge - Offset

ContentSafe ==
  /\ pc \in Outside => \A p \in Kept : Intact(disk, Frontier(backup), p)
  /\ pc \in BetweenChunks \cup AfterChunks => \A p \in Kept : Intact(disk, Edge, p)
  /\ pc \in InChunk => \A p \in Kept :
       IF InWork(p)
       THEN IF direction = "encrypt"
            THEN /\ buf[p - (Edge - Size)].data = p
                 /\ buf[p - (Edge - Size)].unit = p + Offset
            ELSE buf[p - Edge].data = p /\ buf[p - Edge].unit = Plain
       ELSE Intact(disk, Edge, p)
  /\ pc = "write" /\ direction = "decrypt" => \A p \in Kept : Intact(disk, Edge, p)
  /\ pc \in BetweenChunks \cup InChunk => \A p \in Kept : Untouched(p) =>
       IF direction = "encrypt" THEN p < Frontier(backup) => Plainly(disk, p)
       ELSE p >= Frontier(backup) => Encrypted(disk, p)

Bookkeeping ==
  /\ pc \in BetweenChunks \cup InChunk =>
       distance = IF direction = "encrypt" THEN Frontier(backup) - Edge ELSE Edge - Frontier(backup)
  /\ pc \in Outside \ {"unflip"} => distance = 0
  /\ pc \in AfterChunks => Frontier(backup) = Edge
  /\ pc \in {"unflip", "conceal"} => backup.length = 0
  /\ pc = "unflip" => \A p \in Kept : p < Portion => buf[p].data = p /\ buf[p].unit = Plain
  /\ pc \notin {"lastUpdate", "closing"} => outcome = "error"
  /\ pc = "lastUpdate" => outcome # "success"

Closing ==
  pc = "closing" =>
    /\ Lossy(disk, Frontier(backup))
    /\ changed => Lossy(disk, Edge)
    /\ outcome # "error" => /\ \A p \in Kept : Intact(disk, Frontier(backup), p)
                            /\ changed => Edge = Frontier(backup)

ContentInv == ContentSafe /\ Bookkeeping /\ Closing

-----------------------------------------------------------------------------
(* Where the frontier of a header lies.                                    *)
LEMMA FrontierFacts ==
  ASSUME NEW h \in Headers, h # NoHeader => Fits(h)
  PROVE  /\ Frontier(h) \in 0..DataSize
         /\ h.length \in 0..DataSize /\ Frontier(h) = DataSize - h.length
<1>1. CASE h = NoHeader
  BY <1>1, Sizes DEF Frontier, NoHeader
<1>2. CASE h # NoHeader
  BY <1>2, HeaderFacts, Sizes DEF Frontier, Fits
<1> QED
  BY <1>1, <1>2

(* A block of data is found by a header's area exactly if it is plain      *)
(* below its frontier, or encrypted above.                                 *)
LEMMA WrongFacts ==
  ASSUME NEW h \in Headers, h # NoHeader => Fits(h), NEW d \in [Blocks -> Content],
         NEW p \in Data
  PROVE  p \notin Wrong(d, h) <=> Intact(d, Frontier(h), p)
<1>1. /\ d[p] \in Content /\ d[p + Offset] \in Content
      /\ p \in Int /\ p >= 0 /\ p < DataSize /\ p + Offset \in Blocks
  BY Sizes DEF Blocks, Data
<1>2. h # NoHeader /\ p + Offset \in Span(h.start, h.length) <=> p >= Frontier(h)
  <2>1. CASE h = NoHeader
    BY <2>1, <1>1, Sizes DEF Frontier
  <2>2. CASE h # NoHeader
    BY <2>2, <1>1, HeaderFacts, Sizes DEF Frontier, Fits, Span
  <2> QED
    BY <2>1, <2>2
<1>3. Decrypt(d[p + Offset], p + Offset).data = p <=> Encrypted(d, p)
  <2>1. CASE d[p + Offset].unit = p + Offset
    BY <2>1, <1>1, ContentFacts DEF Encrypted
  <2>2. CASE d[p + Offset].unit # p + Offset
    BY <2>2, <1>1 DEF Decrypt, Garbage, Encrypted
  <2> QED
    BY <2>1, <2>2
<1>4. AsPlain(d[p]).data = p <=> Plainly(d, p)
  BY <1>1 DEF AsPlain, Garbage, Plainly
<1>5. Frontier(h) \in Int
  BY FrontierFacts
<1> QED
  BY <1>1, <1>2, <1>3, <1>4, <1>5 DEF Wrong, Recovered, Intact

(* What is missing from a short run costs no more than MaxLoss.            *)
LEMMA WindowIsLossy ==
  ASSUME NEW d, NEW f, NEW low \in Int, NEW high \in Int, high - low <= MaxLoss,
         Within(d, f, low, high)
  PROVE  Lossy(d, f)
<1>0. \A p \in Kept : ~Intact(d, f, p) => low <= p /\ p < high
  BY DEF Within
<1>1. MaxLoss \in Nat /\ \A p \in Kept : p \in Int /\ 0 <= p /\ p < DataSize
  BY Sizes DEF MaxLoss, Kept, Data
<1>2. CASE low \in Data
  BY <1>0, <1>1, <1>2 DEF Lossy, Data
<1>3. CASE low < 0
  <2>1. \A p \in Kept : ~Intact(d, f, p) => p \in 0..0 + MaxLoss - 1
    BY <1>0, <1>1, <1>3
  <2> QED
    BY <1>0, <2>1, Sizes DEF Lossy, Data
<1>4. CASE low >= DataSize
  <2>1. \A p \in Kept : ~(low <= p)
    BY <1>1, <1>4, Sizes
  <2> QED
    BY <1>0, <2>1, Sizes DEF Lossy, Data
<1> QED
  BY <1>2, <1>3, <1>4, Sizes DEF Data

(* Where nothing is missing, no more than a window is.                     *)
LEMMA IntactIsNotLossy ==
  ASSUME NEW d, NEW f, \A p \in Kept : Intact(d, f, p)
  PROVE  Lossy(d, f)
<1>1. Within(d, f, 0, 0)
  BY DEF Within
<1> QED
  BY <1>1, WindowIsLossy, Sizes DEF MaxLoss

(* The blocks of a write that is not one of a chunk's.                     *)
LEMMA OuterWrite ==
  ASSUME ControlInv, ContentInv, pc \notin InChunk, WriteAll \/ WritePart, NEW p \in Kept
  PROVE  /\ pc \in Outside => Intact(disk', Frontier(backup), p)
         /\ pc \in AreaInUse => Intact(disk', Edge, p)
         /\ pc \in BetweenChunks \cup {"closing"} =>
              disk'[p] = disk[p] /\ disk'[p + Offset] = disk[p + Offset]
<1>1. PICK B \in SUBSET DOMAIN NewBlocks :
        \A b \in Blocks : disk'[b] = IF b \in B THEN NewBlocks[b] ELSE disk[b]
  BY DeviceTyped DEF ControlInv, ToolsTypeOK
<1>2. /\ TypeOK /\ Shape /\ disk \in [Blocks -> Content]
      /\ p \in Int /\ 0 <= p /\ p < DataSize /\ p \in Blocks /\ p + Offset \in Blocks
      /\ backup \in Headers /\ (backup # NoHeader => Fits(backup))
  BY Sizes DEF ControlInv, ToolsTypeOK, TypeOK, Shape, Kept, Data, Blocks
<1>3. CASE pc \notin {"conceal", "reveal", "unflip", "writePrimary", "zero"}
  <2>1. NewBlocks = Empty
    BY <1>3 DEF NewBlocks, InChunk
  <2>2. \A b \in Blocks : disk'[b] = disk[b]
    BY <2>1, <1>1 DEF Empty
  <2>3. disk'[p] = disk[p] /\ disk'[p + Offset] = disk[p + Offset]
    BY <2>2, <1>2
  <2> QED
    BY <2>3 DEF ContentInv, ContentSafe, Intact, Plainly, Encrypted, AreaInUse
<1>4. CASE pc \in {"conceal", "reveal", "unflip"}
  <2>1. /\ pc = "reveal" => pc \notin Outside \cup BetweenChunks /\ Edge = DataSize /\ pc \in AfterChunks
        /\ pc # "reveal" => pc \in Outside /\ pc \notin AreaInUse /\ Frontier(backup) = DataSize
    <3>1. pc = "reveal" => Edge = DataSize
      BY <1>2, Sizes
         DEF ControlInv, Agreement, Shape, TypeOK, AreaInUse, AfterChunks, Fits, Edge
    <3>2. pc # "reveal" => Frontier(backup) = DataSize
      BY <1>4, <1>2, FrontierFacts, Sizes DEF ContentInv, Bookkeeping
    <3> QED
      BY <3>1, <3>2, <1>4 DEF Outside, AreaInUse, BetweenChunks, AfterChunks, InChunk
  <2>2. Plainly(disk, p)
    BY <2>1, <1>2 DEF ContentInv, ContentSafe, Intact
  <2>3. p \in B => NewBlocks[p].data = p /\ NewBlocks[p].unit = Plain
    <3>1. CASE pc \in {"conceal", "reveal"}
      <4>1. NewBlocks = [b \in 0..Portion - 1 |-> Flip(disk[b])]
        BY <3>1 DEF NewBlocks
      <4> QED
        BY <4>1, <1>2, <2>2, ContentFacts DEF Plainly
    <3>2. CASE pc = "unflip"
      <4>1. NewBlocks = [b \in 0..Portion - 1 |-> buf[b]]
        BY <3>2 DEF NewBlocks
      <4> QED
        BY <4>1, <3>2, <1>2, Sizes DEF ContentInv, Bookkeeping
    <3> QED
      BY <1>4, <3>1, <3>2
  <2>4. Plainly(disk', p)
    BY <2>2, <2>3, <1>1, <1>2 DEF Plainly
  <2> QED
    BY <2>1, <2>4, <1>2, <1>4 DEF Intact, AreaInUse
<1>5. CASE pc = "writePrimary"
  <2>1. NewBlocks = [b \in 0..Offset - 1 |-> Garbage] /\ Edge = 0
    <3>1. Edge = 0
      BY <1>5, <1>2, Sizes
         DEF ControlInv, Agreement, Shape, TypeOK, AreaInUse, AfterChunks, Fits, Edge
    <3> QED
      BY <1>5, <3>1 DEF NewBlocks
  <2>2. p + Offset \notin B
    BY <2>1, <1>2, Sizes
  <2>3. Encrypted(disk, p)
    BY <2>1, <1>2, <1>5 DEF ContentInv, ContentSafe, Intact, AfterChunks
  <2>4. Encrypted(disk', p)
    BY <2>3, <2>2, <1>1, <1>2 DEF Encrypted
  <2> QED
    BY <2>1, <2>4, <1>2, <1>5 DEF Intact, Outside, BetweenChunks
<1>6. CASE pc = "zero"
  <2>1. NewBlocks = [b \in Span(DataSize, Offset) |-> Garbage] /\ Edge = DataSize
    <3>1. Edge = DataSize
      BY <1>6, <1>2, Sizes
         DEF ControlInv, Agreement, Shape, TypeOK, AreaInUse, AfterChunks, Fits, Edge
    <3> QED
      BY <1>6, <3>1 DEF NewBlocks
  <2>2. p \notin B
    BY <2>1, <1>2, Sizes DEF Span
  <2>3. Plainly(disk', p)
    BY <2>1, <2>2, <1>1, <1>2, <1>6 DEF ContentInv, ContentSafe, Intact, Plainly, AfterChunks
  <2> QED
    BY <2>1, <2>3, <1>2, <1>6 DEF Intact, Outside, BetweenChunks
<1> QED
  BY <1>3, <1>4, <1>5, <1>6

(* The numbers of the chunk in work.                                       *)
LEMMA WorkFacts ==
  ASSUME ControlInv, ContentInv, pc \in AreaInUse
  PROVE  /\ TypeOK /\ Shape /\ direction \in {"encrypt", "decrypt"}
         /\ Edge \in 0..DataSize /\ Frontier(backup) \in 0..DataSize
         /\ Size \in Nat /\ Size <= Chunk
         /\ direction = "encrypt" => Edge = remaining /\ Size <= Edge
         /\ direction = "decrypt" => Edge = DataSize - remaining /\ Edge + Size <= DataSize
         /\ distance \in Nat
         /\ pc \in BetweenChunks \cup InChunk =>
              /\ direction = "encrypt" => Frontier(backup) = Edge + distance
              /\ direction = "decrypt" => Frontier(backup) = Edge - distance
              /\ distance <= UpdateInterval - 1 + Chunk
         /\ pc \in InChunk => distance <= UpdateInterval - 1
<1>1. /\ TypeOK /\ Shape /\ direction \in {"encrypt", "decrypt"} /\ distance \in Nat
      /\ distance <= UpdateInterval - 1 + Chunk
  BY Sizes DEF ControlInv, ToolsTypeOK, TypeOK
<1>2. /\ remaining \in Nat /\ Edge \in 0..DataSize /\ Size \in Nat /\ Size <= Chunk
      /\ Size <= remaining
      /\ direction = "encrypt" => Edge = remaining
      /\ direction = "decrypt" => Edge = DataSize - remaining
  BY <1>1, ChunkFacts
<1>3. Frontier(backup) \in 0..DataSize
  BY <1>1, FrontierFacts DEF TypeOK, Shape
<1>4. pc \in BetweenChunks \cup InChunk =>
        distance = IF direction = "encrypt" THEN Frontier(backup) - Edge ELSE Edge - Frontier(backup)
  BY DEF ContentInv, Bookkeeping
<1>5. pc \in InChunk => distance <= UpdateInterval - 1
  BY <1>1, Sizes DEF Shape, InChunk
<1> QED
  BY <1>1, <1>2, <1>3, <1>4, <1>5, Sizes

(* The blocks a chunk's write leaves alone, and those it writes in full.   *)
LEMMA ChunkBlocks ==
  ASSUME ControlInv, ContentInv, pc \in InChunk, WriteAll \/ WritePart, NEW b \in Blocks
  PROVE  /\ direction = "encrypt" /\ (b < Edge - Size + Offset \/ b >= Edge + Offset)
              => disk'[b] = disk[b]
         /\ direction = "decrypt" /\ (b < Edge \/ b >= Edge + Size) => disk'[b] = disk[b]
<1>1. PICK B \in SUBSET DOMAIN NewBlocks :
        \A c \in Blocks : disk'[c] = IF c \in B THEN NewBlocks[c] ELSE disk[c]
  BY DeviceTyped DEF ControlInv, ToolsTypeOK
<1>2. pc \in AreaInUse /\ b \in Int
  BY Sizes DEF AreaInUse, Blocks
<1>3. /\ TypeOK /\ Shape /\ Size \in Nat /\ Edge \in Int
      /\ direction = "encrypt" => To = Edge - Size + Offset
      /\ direction = "decrypt" => To = Edge
  BY <1>2, WorkFacts, ChunkFacts, Sizes
<1>4. CASE pc = "write"
  <2>1. DOMAIN NewBlocks = Span(To, Size)
    BY <1>4 DEF NewBlocks
  <2> QED
    BY <2>1, <1>1, <1>2, <1>3, Sizes DEF Span
<1>5. CASE pc = "undo"
  <2>1. DOMAIN NewBlocks = Span(To, Size - Offset)
    BY <1>5 DEF NewBlocks
  <2> QED
    BY <2>1, <1>1, <1>2, <1>3, <1>5, Sizes DEF Span, Shape
<1> QED
  BY <1>4, <1>5 DEF InChunk

(* What a chunk's write, complete or not, does not disturb.                *)
LEMMA ChunkWrite ==
  ASSUME ControlInv, ContentInv, pc \in InChunk, WriteAll \/ WritePart, NEW p \in Kept
  PROVE  /\ ~InWork(p) => Intact(disk', Edge, p)
         /\ direction = "encrypt" =>
              /\ p < Edge - Size + Offset /\ p < Frontier(backup) => Plainly(disk', p)
              /\ p >= Edge => Encrypted(disk', p)
         /\ direction = "decrypt" =>
              /\ p < Edge => Plainly(disk', p)
              /\ p >= Edge + Size - Offset /\ p >= Frontier(backup) => Encrypted(disk', p)
<1>1. pc \in AreaInUse
  BY DEF AreaInUse
<1>2. /\ p \in Int /\ p \in Blocks /\ p + Offset \in Blocks
      /\ Edge \in Int /\ Size \in Nat /\ direction \in {"encrypt", "decrypt"}
      /\ Frontier(backup) \in Int
      /\ direction = "decrypt" => Frontier(backup) <= Edge
  BY <1>1, WorkFacts, Sizes DEF Kept, Data, Blocks
<1>3. /\ ~InWork(p) => Intact(disk, Edge, p)
      /\ pc = "write" /\ direction = "decrypt" => Intact(disk, Edge, p)
      /\ Untouched(p) => IF direction = "encrypt" THEN p < Frontier(backup) => Plainly(disk, p)
                         ELSE p >= Frontier(backup) => Encrypted(disk, p)
  BY DEF ContentInv, ContentSafe
<1>4. CASE direction = "encrypt"
  <2>1. p < Edge - Size + Offset => disk'[p] = disk[p]
    BY <1>2, <1>4, ChunkBlocks
  <2>2. p >= Edge => disk'[p + Offset] = disk[p + Offset]
    <3>1. p >= Edge => p + Offset >= Edge + Offset
      BY <1>2, Sizes
    <3> QED
      BY <3>1, <1>2, <1>4, ChunkBlocks
  <2>3. p >= Edge => Encrypted(disk', p)
    BY <2>2, <1>2, <1>3, <1>4 DEF InWork, Intact, Encrypted
  <2>4. p < Edge - Size => Plainly(disk', p)
    BY <2>1, <1>2, <1>3, <1>4, Sizes DEF InWork, Intact, Plainly
  <2>5. p < Edge - Size + Offset /\ p < Frontier(backup) => Plainly(disk', p)
    <3>1. p < Edge - Size + Offset => Untouched(p)
      BY <1>2, <1>4, Sizes DEF Untouched
    <3> QED
      BY <3>1, <2>1, <1>3, <1>4 DEF Plainly
  <2> QED
    BY <2>3, <2>4, <2>5, <1>2, <1>4 DEF InWork, Intact
<1>5. CASE direction = "decrypt"
  <2>1. p < Edge => disk'[p] = disk[p]
    BY <1>2, <1>5, ChunkBlocks
  <2>2. p >= Edge + Size - Offset => disk'[p + Offset] = disk[p + Offset]
    <3>1. p >= Edge + Size - Offset => p + Offset >= Edge + Size
      BY <1>2, Sizes
    <3> QED
      BY <3>1, <1>2, <1>5, ChunkBlocks
  <2>3. p < Edge => Plainly(disk', p)
    BY <2>1, <1>2, <1>3, <1>5 DEF InWork, Intact, Plainly
  <2>4. p >= Edge + Size => Encrypted(disk', p)
    BY <2>2, <1>2, <1>3, <1>5, Sizes DEF InWork, Intact, Encrypted
  <2>5. p >= Edge + Size - Offset /\ p >= Frontier(backup) => Encrypted(disk', p)
    <3>1. p >= Edge + Size - Offset => Untouched(p)
      BY <1>2, <1>5, Sizes DEF Untouched
    <3> QED
      BY <3>1, <2>2, <1>3, <1>5 DEF Encrypted
  <2> QED
    BY <2>3, <2>4, <2>5, <1>2, <1>5 DEF InWork, Intact
<1> QED
  BY <1>2, <1>4, <1>5

(* An interrupted write costs a short run, by either area.                 *)
LEMMA ChunkLossy ==
  ASSUME ControlInv, ContentInv, pc \in InChunk, WriteAll \/ WritePart
  PROVE  Lossy(disk', Frontier(backup)) /\ Lossy(disk', Edge)
<1>1. pc \in AreaInUse
  BY DEF AreaInUse
<1>2. /\ Edge \in Int /\ Size \in Nat /\ Size <= Chunk /\ direction \in {"encrypt", "decrypt"}
      /\ distance \in Nat /\ distance <= UpdateInterval - 1
      /\ direction = "encrypt" => Frontier(backup) = Edge + distance
      /\ direction = "decrypt" => Frontier(backup) = Edge - distance
      /\ \A p \in Kept : p \in Int
  BY <1>1, WorkFacts, Sizes DEF Kept, Data, InChunk
<1>3. CASE direction = "encrypt"
  <2> DEFINE low == Edge - Size + Offset
             high == Edge + distance
             bound == Edge
  <2>1. Within(disk', Frontier(backup), low, high)
    BY <1>2, <1>3, ChunkWrite, Sizes DEF Within, Intact
  <2>2. Within(disk', Edge, low, bound)
    BY <1>2, <1>3, ChunkWrite, Sizes DEF Within, Intact
  <2>3. /\ low \in Int /\ high \in Int /\ bound \in Int
        /\ high - low <= MaxLoss /\ bound - low <= MaxLoss
    BY <1>2, Sizes DEF MaxLoss
  <2> HIDE DEF low, high, bound
  <2> QED
    BY <2>1, <2>2, <2>3, WindowIsLossy
<1>4. CASE direction = "decrypt"
  <2> DEFINE low == Edge - distance
             high == Edge + Size - Offset
             bound == Edge
  <2>1. Within(disk', Frontier(backup), low, high)
    BY <1>2, <1>4, ChunkWrite, Sizes DEF Within, Intact
  <2>2. Within(disk', Edge, bound, high)
    BY <1>2, <1>4, ChunkWrite, Sizes DEF Within, Intact
  <2>3. /\ low \in Int /\ high \in Int /\ bound \in Int
        /\ high - low <= MaxLoss /\ high - bound <= MaxLoss
    BY <1>2, Sizes DEF MaxLoss
  <2> HIDE DEF low, high, bound
  <2> QED
    BY <2>1, <2>2, <2>3, WindowIsLossy
<1> QED
  BY <1>2, <1>3, <1>4

(* How a write moves the frontier: it is that of the backup header or, if  *)
(* the header is updated, that of the area in memory.                      *)
LEMMA FrontierMoves ==
  ASSUME ControlInv, ContentInv, WriteAll \/ WritePart
  PROVE  /\ pc \notin UpdateStep => Frontier(backup') = Frontier(backup)
         /\ pc \in UpdateStep => /\ Frontier(backup') \in {Frontier(backup), Edge}
                                 /\ WriteAll => Frontier(backup') = Edge
<1>1. /\ TypeOK /\ Shape /\ backup' \in {backup, NewBackup} /\ (WriteAll => backup' = NewBackup)
      /\ backup \in Headers /\ (backup # NoHeader => Fits(backup))
  BY DeviceTyped DEF ControlInv, ToolsTypeOK, TypeOK, Shape
<1>2. CASE pc \in UpdateStep
  <2>1. pc \in {"update", "lastUpdate"} \/ (pc = "closing" /\ changed)
    BY <1>2 DEF UpdateStep
  <2>2. Frontier(NewBackup) = Edge
    BY <1>1, <2>1, BackupTyped
  <2> QED
    BY <1>1, <1>2, <2>2
<1>3. CASE pc = "writeBackup"
  <2>1. Frontier(backup) = DataSize
    BY <1>1, <1>3, FrontierFacts, Sizes DEF ControlInv, Agreement
  <2>2. NewBackup = Header([start |-> DataSize + Offset, length |-> 0], password)
    BY <1>3 DEF NewBackup, UpdateStep
  <2>3. Frontier(NewBackup) = DataSize
    BY <2>2, HeaderFacts, Sizes DEF Frontier, NoHeader, Header
  <2> QED
    BY <1>1, <1>3, <2>1, <2>3 DEF UpdateStep
<1>4. CASE pc = "zeroBackup"
  <2>1. Frontier(backup) = DataSize
    BY <1>1, <1>4, FrontierFacts, Sizes DEF ControlInv, Agreement
  <2>2. NewBackup = NoHeader
    BY <1>4 DEF NewBackup, UpdateStep
  <2> QED
    BY <1>1, <1>4, <2>1, <2>2 DEF UpdateStep, Frontier
<1>5. CASE pc \notin HeaderStep
  BY <1>1, <1>5, BackupTyped DEF HeaderStep
<1> QED
  BY <1>2, <1>3, <1>4, <1>5 DEF HeaderStep

(* Between two chunks, what was moved since the backup header was written  *)
(* is found but for the short run that overwrote its place.                *)
LEMMA BetweenLossy ==
  ASSUME ControlInv, ContentInv, pc \in BetweenChunks
  PROVE  Lossy(disk, Frontier(backup)) /\ Lossy(disk, Edge)
<1>1. /\ Edge \in Int /\ direction \in {"encrypt", "decrypt"}
      /\ distance \in Nat /\ distance <= UpdateInterval - 1 + Chunk
      /\ direction = "encrypt" => Frontier(backup) = Edge + distance
      /\ direction = "decrypt" => Frontier(backup) = Edge - distance
      /\ \A p \in Kept : p \in Int
  BY WorkFacts, Sizes DEF Kept, Data, AreaInUse
<1>2. /\ \A p \in Kept : Intact(disk, Edge, p)
      /\ \A p \in Kept : Untouched(p) =>
           IF direction = "encrypt" THEN p < Frontier(backup) => Plainly(disk, p)
           ELSE p >= Frontier(backup) => Encrypted(disk, p)
  BY DEF ContentInv, ContentSafe
<1>3. CASE direction = "encrypt"
  <2> DEFINE low == Edge + Offset
             high == Edge + distance
  <2>0. \A p \in Kept : p < Edge + Offset => Untouched(p)
    BY <1>1, <1>3, Sizes DEF Untouched, BetweenChunks, InChunk
  <2>1. Within(disk, Frontier(backup), low, high)
    BY <2>0, <1>1, <1>2, <1>3, Sizes DEF Within, Intact
  <2>2. low \in Int /\ high \in Int /\ high - low <= MaxLoss
    BY <1>1, Sizes DEF MaxLoss
  <2> HIDE DEF low, high
  <2> QED
    BY <1>2, <2>1, <2>2, WindowIsLossy, IntactIsNotLossy
<1>4. CASE direction = "decrypt"
  <2> DEFINE low == Edge - distance
             high == Edge - Offset
  <2>0. \A p \in Kept : p >= Edge - Offset => Untouched(p)
    BY <1>1, <1>4, Sizes DEF Untouched
  <2>1. Within(disk, Frontier(backup), low, high)
    BY <2>0, <1>1, <1>2, <1>4, Sizes DEF Within, Intact
  <2>2. low \in Int /\ high \in Int /\ high - low <= MaxLoss
    BY <1>1, Sizes DEF MaxLoss
  <2> HIDE DEF low, high
  <2> QED
    BY <1>2, <2>1, <2>2, WindowIsLossy, IntactIsNotLossy
<1> QED
  BY <1>1, <1>3, <1>4

(* Whatever part of a write is done, a short run is all that is missing,   *)
(* by the header and by the area in memory.                                *)
LEMMA WriteLossy ==
  ASSUME ControlInv, ContentInv, WriteAll \/ WritePart
  PROVE  /\ Lossy(disk', Frontier(backup'))
         /\ pc \in AreaInUse \/ (pc = "closing" /\ changed) => Lossy(disk', Edge)
         /\ pc = "closing" /\ outcome # "error" =>
              \A p \in Kept : Intact(disk', Frontier(backup'), p)
<1>1. /\ pc \in Outside \cup AreaInUse \/ pc = "closing"
      /\ pc \in InChunk => pc \in AreaInUse /\ pc \notin UpdateStep /\ pc # "closing"
      /\ pc \in Outside \cup AfterChunks => pc \notin UpdateStep /\ pc # "closing"
      /\ pc \in BetweenChunks => pc # "closing"
      /\ pc \notin InChunk /\ pc \in AreaInUse => pc \in BetweenChunks \cup AfterChunks
      /\ pc \in Outside => pc \notin AreaInUse
  BY DEF ControlInv, ToolsTypeOK, TypeOK, Outside, AreaInUse, BetweenChunks, InChunk,
         AfterChunks,
         UpdateStep
<1>2. CASE pc \in InChunk
  BY <1>1, <1>2, ChunkLossy, FrontierMoves
<1>3. CASE pc \in Outside
  <2>1. \A p \in Kept : Intact(disk', Frontier(backup), p)
    BY <1>3, OuterWrite DEF Outside, InChunk
  <2> QED
    BY <1>1, <1>3, <2>1, FrontierMoves, IntactIsNotLossy
<1>4. CASE pc \in AfterChunks
  <2>1. \A p \in Kept : Intact(disk', Edge, p)
    BY <1>4, OuterWrite DEF AreaInUse, AfterChunks, InChunk
  <2>2. Frontier(backup') = Edge
    BY <1>1, <1>4, FrontierMoves DEF ContentInv, Bookkeeping
  <2> QED
    BY <1>1, <1>4, <2>1, <2>2, IntactIsNotLossy
<1>5. ASSUME pc \in BetweenChunks \cup {"closing"}
      PROVE  \A f : \A p \in Kept : Intact(disk, f, p) <=> Intact(disk', f, p)
  BY <1>5, OuterWrite DEF Intact, Plainly, Encrypted, BetweenChunks, InChunk
<1>6. CASE pc \in BetweenChunks
  <2>1. Lossy(disk', Frontier(backup)) /\ Lossy(disk', Edge)
    BY <1>5, <1>6, BetweenLossy DEF Lossy
  <2> QED
    BY <1>1, <1>6, <2>1, FrontierMoves
<1>7. CASE pc = "closing"
  <2>1. Lossy(disk', Frontier(backup)) /\ (changed => Lossy(disk', Edge))
    BY <1>5, <1>7 DEF Lossy, ContentInv, Closing
  <2>2. ~changed => pc \notin UpdateStep
    BY <1>7 DEF UpdateStep
  <2>3. Frontier(backup') \in {Frontier(backup), Edge}
        /\ (~changed => Frontier(backup') = Frontier(backup))
    BY <2>2, FrontierMoves
  <2>4. outcome # "error" => \A p \in Kept : Intact(disk', Frontier(backup'), p)
    BY <1>5, <1>7, <2>3 DEF ContentInv, Closing
  <2>5. pc \notin AreaInUse
    BY <1>7 DEF AreaInUse, BetweenChunks, InChunk, AfterChunks
  <2> QED
    BY <1>7, <2>1, <2>3, <2>4, <2>5
<1> QED
  BY <1>1, <1>2, <1>3, <1>4, <1>6, <1>7

-----------------------------------------------------------------------------
(* What has to be shown of a step, by where it leads to.                   *)
LEMMA ToOutside ==
  ASSUME pc' \in Outside \ {"unflip"}, distance' = 0, outcome' = "error",
         \A p \in Kept' : Intact(disk', Frontier(backup'), p),
         pc' = "conceal" => backup'.length = 0
  PROVE  ContentInv'
  BY DEF ContentInv, ContentSafe, Bookkeeping, Closing, Outside, AreaInUse, BetweenChunks,
         InChunk,
         AfterChunks, Intact, Plainly, Encrypted, Frontier

(* To the undoing of a toggle: its buffer holds the start of the data.     *)
LEMMA ToUnflip ==
  ASSUME pc' = "unflip", outcome' = "error", lost' = lost, backup'.length = 0,
         \A p \in Kept : Intact(disk', Frontier(backup'), p),
         \A p \in Kept : p < Portion => buf'[p].data = p /\ buf'[p].unit = Plain
  PROVE  ContentInv'
<1>1. Kept' = Kept
  BY DEF Kept
<1> QED
  BY <1>1 DEF ContentInv, ContentSafe, Bookkeeping, Closing, Outside, AreaInUse, BetweenChunks,
              InChunk, AfterChunks, Intact, Plainly, Encrypted, Frontier

(* To a step between two chunks.                                           *)
LEMMA ToBetween ==
  ASSUME pc' \in BetweenChunks, lost' = lost, \A p \in Kept : Intact(disk', Edge', p),
         \A p \in Kept : IF direction' = "encrypt"
                         THEN p < Edge' + Offset /\ p < Frontier(backup') => Plainly(disk', p)
                         ELSE p >= Edge' - Offset /\ p >= Frontier(backup') => Encrypted(disk', p),
         distance' = IF direction' = "encrypt" THEN Frontier(backup') - Edge'
                     ELSE Edge' - Frontier(backup'),
         outcome' = "error" \/ (pc' = "lastUpdate" /\ outcome' = "paused"),
         Edge' \in Int
  PROVE  ContentInv'
<1>1. Kept' = Kept
  BY DEF Kept
<1>2. Bookkeeping' /\ Closing'
  BY DEF Bookkeeping, Closing, Outside, AreaInUse, BetweenChunks, InChunk, AfterChunks, Frontier
<1>3. \A p \in Kept : Untouched(p)' => IF direction' = "encrypt" THEN p < Edge' + Offset
                                       ELSE p >= Edge' - Offset
  BY Sizes DEF Untouched, BetweenChunks, InChunk
<1>4. ContentSafe'
  BY <1>1, <1>3 DEF ContentSafe, Outside, AreaInUse, BetweenChunks, InChunk, AfterChunks,
                    Intact, Plainly, Encrypted, Frontier
<1> QED
  BY <1>2, <1>4 DEF ContentInv

(* To a step within a chunk: what is in work is in the buffer.             *)
LEMMA ToChunk ==
  ASSUME pc' \in InChunk, Edge' \in Int, Size' \in Int, outcome' = "error",
         \A p \in Kept' :
           IF InWork(p)'
           THEN IF direction' = "encrypt"
                THEN /\ buf'[p - (Edge' - Size')].data = p
                     /\ buf'[p - (Edge' - Size')].unit = p + Offset
                ELSE buf'[p - Edge'].data = p /\ buf'[p - Edge'].unit = Plain
           ELSE Intact(disk', Edge', p),
         pc' = "write" /\ direction' = "decrypt" => \A p \in Kept' : Intact(disk', Edge', p),
         \A p \in Kept' :
           IF direction' = "encrypt"
           THEN p < Edge' + Offset - Size' /\ p < Frontier(backup') => Plainly(disk', p)
           ELSE p >= Edge' - Offset /\ p >= Frontier(backup') => Encrypted(disk', p),
         distance' = IF direction' = "encrypt" THEN Frontier(backup') - Edge'
                     ELSE Edge' - Frontier(backup')
  PROVE  ContentInv'
<1>1. Bookkeeping' /\ Closing'
  BY DEF Bookkeeping, Closing, Outside, AreaInUse, BetweenChunks, InChunk, AfterChunks, Frontier
<1>2. \A p \in Kept' : Untouched(p)' => IF direction' = "encrypt" THEN p < Edge' + Offset - Size'
                                        ELSE p >= Edge' - Offset
  BY DEF Untouched
<1>3. ContentSafe'
  BY <1>2 DEF ContentSafe, Outside, AreaInUse, BetweenChunks, InChunk, AfterChunks,
              Intact, Plainly, Encrypted, Frontier
<1> QED
  BY <1>1, <1>3 DEF ContentInv

(* To a step after the last chunk.                                         *)
LEMMA ToAfter ==
  ASSUME pc' \in AfterChunks, lost' = lost, outcome' = "error",
         \A p \in Kept : Intact(disk', Edge', p), Frontier(backup') = Edge'
  PROVE  ContentInv'
<1>1. Kept' = Kept
  BY DEF Kept
<1> QED
  BY <1>1 DEF ContentInv, ContentSafe, Bookkeeping, Closing, Outside, AreaInUse, BetweenChunks,
              InChunk, AfterChunks, Intact, Plainly, Encrypted, Frontier

(* To closing_seq, after an error with what it left missing.               *)
LEMMA ToClosing ==
  ASSUME pc' = "closing", lost' = lost, Lossy(disk', Frontier(backup')),
         changed' => Lossy(disk', Edge'),
         outcome' # "error" => /\ \A p \in Kept : Intact(disk', Frontier(backup'), p)
                               /\ changed' => Edge' = Frontier(backup')
  PROVE  ContentInv'
<1>1. Kept' = Kept
  BY DEF Kept
<1>2. ContentSafe' /\ Bookkeeping'
  BY DEF ContentSafe, Bookkeeping, Outside, AreaInUse, BetweenChunks, InChunk, AfterChunks
<1>3. Closing'
  BY <1>1 DEF Closing, Lossy, Intact, Plainly, Encrypted, Frontier
<1> QED
  BY <1>2, <1>3 DEF ContentInv

(* The steps of the wizard that leave the device alone.                    *)
LEMMA QuietKeep ==
  ASSUME ControlInv, ContentInv
  PROVE  /\ Begin => ContentInv'
         /\ RecordJob \/ OpenBackupHeader \/ (\E cancel \in BOOLEAN : GoOn(cancel)) \/ LeaveLoop
            \/ FinishJob \/ ReadFails => ContentInv'
<1> USE DEF deviceVars, jobVars, historyVars
<1>0. TypeOK /\ Shape
  BY DEF ControlInv, ToolsTypeOK
<1>1. ASSUME UNCHANGED <<disk, backup, lost>>
      PROVE  /\ Kept' = Kept /\ Frontier(backup') = Frontier(backup)
             /\ \A f, p : Intact(disk', f, p) <=> Intact(disk, f, p)
             /\ \A f : Lossy(disk, f) <=> Lossy(disk', f)
  BY <1>1 DEF Kept, Frontier, Intact, Plainly, Encrypted, Lossy
<1>2. ASSUME pc \in Outside \ {"unflip"}, pc' \in {"writeBackup", "open"},
             UNCHANGED <<disk, backup, lost, distance, outcome>>
      PROVE  ContentInv'
  <2>1. distance = 0 /\ outcome = "error" /\ \A p \in Kept : Intact(disk, Frontier(backup), p)
    BY <1>2 DEF ContentInv, ContentSafe, Bookkeeping, Outside
  <2> QED
    BY <1>1, <1>2, <2>1, ToOutside DEF Outside
<1>3. CASE Begin
  BY <1>2, <1>3 DEF Begin, BeginEncryption, Resume, StartDecryption, BeginJob, Outside
<1>4. CASE RecordJob
  BY <1>2, <1>4 DEF RecordJob, Step, Outside
<1>5. CASE OpenBackupHeader
  <2>1. /\ pc = "open" /\ pc' = "read" /\ UNCHANGED <<disk, backup, lost>>
        /\ area' = AreaOf(backup) /\ UNCHANGED <<distance, outcome, direction>>
    BY <1>5 DEF OpenBackupHeader, Step
  <2>2. distance = 0 /\ outcome = "error" /\ \A p \in Kept : Intact(disk, Frontier(backup), p)
    BY <2>1 DEF ContentInv, ContentSafe, Bookkeeping, Outside
  <2>3. Frontier(backup) \in Int /\ Edge' = Frontier(backup)
    <3>1. backup # NoHeader /\ backup \in Headers /\ Fits(backup)
      BY <1>0, <2>1 DEF TypeOK, Shape
    <3> QED
      BY <3>1, <2>1, FrontierFacts, HeaderFacts DEF Frontier, Edge
  <2>4. \A p \in Kept : Intact(disk', Edge', p) /\ p \in Int
    BY <1>1, <2>1, <2>2, <2>3, Sizes DEF Kept, Data
  <2>5. \A p \in Kept : /\ p < Frontier(backup') => Plainly(disk', p)
                        /\ p >= Frontier(backup') => Encrypted(disk', p)
    BY <1>1, <2>1, <2>3, <2>4 DEF Intact
  <2>6. distance' = 0 /\ Frontier(backup') - Edge' = 0 /\ Edge' - Frontier(backup') = 0
    BY <1>1, <2>1, <2>2, <2>3
  <2> QED
    BY <2>1, <2>2, <2>3, <2>4, <2>5, <2>6, ToBetween DEF BetweenChunks
<1>6. ASSUME pc \in BetweenChunks, pc' \in BetweenChunks,
             outcome' = "error" \/ (pc' = "lastUpdate" /\ outcome' = "paused"),
             UNCHANGED <<disk, backup, lost, distance, direction, area>>
      PROVE  ContentInv'
  <2>1. /\ Edge' = Edge /\ Edge \in Int /\ \A p \in Kept : p \in Int
        /\ distance = IF direction = "encrypt" THEN Frontier(backup) - Edge
                      ELSE Edge - Frontier(backup)
    BY <1>6, WorkFacts, Sizes DEF Edge, AreaInUse, Kept, Data, ContentInv, Bookkeeping
  <2>2. /\ \A p \in Kept : Intact(disk, Edge, p)
        /\ \A p \in Kept : IF direction = "encrypt"
                           THEN p < Edge + Offset /\ p < Frontier(backup) => Plainly(disk, p)
                           ELSE p >= Edge - Offset /\ p >= Frontier(backup) => Encrypted(disk, p)
    BY <1>6, <2>1, Sizes DEF ContentInv, ContentSafe, Untouched, BetweenChunks, InChunk
  <2> QED
    BY <1>1, <1>6, <2>1, <2>2, ToBetween DEF Plainly, Encrypted
<1>7. ASSUME NEW cancel \in BOOLEAN, GoOn(cancel)
      PROVE  ContentInv'
  <2>1. outcome = "error"
    BY <1>7 DEF GoOn, Step, ContentInv, Bookkeeping
  <2> QED
    BY <1>6, <1>7, <2>1 DEF GoOn, Step, BetweenChunks
<1>8. CASE LeaveLoop
  <2>1. outcome = "error"
    BY <1>8 DEF LeaveLoop, Step, ContentInv, Bookkeeping
  <2> QED
    BY <1>6, <1>8, <2>1 DEF LeaveLoop, Step, BetweenChunks
<1>9. CASE FinishJob
  <2>1. /\ pc = "finish" /\ pc' = "closing" /\ Edge' = Edge
        /\ UNCHANGED <<disk, backup, lost>>
    BY <1>9 DEF FinishJob, Step, Edge
  <2>2. Frontier(backup) = Edge /\ \A p \in Kept : Intact(disk, Edge, p)
    BY <2>1 DEF ContentInv, ContentSafe, Bookkeeping, AfterChunks
  <2>3. Lossy(disk, Edge)
    BY <2>2, IntactIsNotLossy
  <2> QED
    BY <1>1, <2>1, <2>2, <2>3, ToClosing
<1>10. CASE ReadFails
  <2>1. /\ pc \in ReadStep /\ pc' = "closing" /\ outcome' = "error" /\ Edge' = Edge
        /\ UNCHANGED <<disk, backup, lost>>
    BY <1>10 DEF ReadFails, Edge
  <2>2. changed' <=> changed
    BY <1>10 DEF ReadFails
  <2>3. CASE pc \in Outside
    <3>1. ~changed /\ \A p \in Kept : Intact(disk, Frontier(backup), p)
      BY <1>0, <2>3 DEF Shape, ContentInv, ContentSafe
    <3> QED
      BY <1>1, <2>1, <2>2, <3>1, IntactIsNotLossy, ToClosing
  <2>4. CASE pc \in BetweenChunks
    BY <1>1, <2>1, <2>4, BetweenLossy, ToClosing
  <2>5. CASE pc \in AfterChunks
    <3>1. Frontier(backup) = Edge /\ \A p \in Kept : Intact(disk, Edge, p)
      BY <2>5 DEF ContentInv, ContentSafe, Bookkeeping
    <3> QED
      BY <1>1, <2>1, <3>1, IntactIsNotLossy, ToClosing
  <2> QED
    BY <2>1, <2>3, <2>4, <2>5 DEF ReadStep, Outside, BetweenChunks, AfterChunks
<1> QED
  BY <1>3, <1>4, <1>5, <1>7, <1>8, <1>9, <1>10

(* What is in the buffer once a chunk has been read and transformed.       *)
LEMMA TransformedKept ==
  ASSUME ControlInv, ContentInv, pc = "read", NEW cells \in [Blocks -> Content],
         NEW p \in Kept, InWork(p),
         direction = "encrypt" => cells[p] = disk[p],
         direction = "decrypt" => cells[p + Offset] = disk[p + Offset]
  PROVE  IF direction = "encrypt"
         THEN /\ Transformed(cells)[p - (Edge - Size)].data = p
              /\ Transformed(cells)[p - (Edge - Size)].unit = p + Offset
         ELSE Transformed(cells)[p - Edge].data = p /\ Transformed(cells)[p - Edge].unit = Plain
<1>1. pc \in AreaInUse
  BY DEF AreaInUse, BetweenChunks
<1>2. /\ TypeOK /\ Shape /\ direction \in {"encrypt", "decrypt"}
      /\ Edge \in Int /\ Size \in Nat
      /\ direction = "encrypt" => /\ From = Edge - Size /\ UnitNo = From + Offset
      /\ direction = "decrypt" => /\ From = Edge + Offset /\ UnitNo = From
      /\ p \in Int /\ p \in Blocks /\ p + Offset \in Blocks
  BY <1>1, WorkFacts, ChunkFacts, Sizes DEF Kept, Data, Blocks
<1>3. Intact(disk, Edge, p)
  BY DEF ContentInv, ContentSafe, BetweenChunks
<1>4. CASE direction = "encrypt"
  <2> DEFINE i == p - (Edge - Size)
  <2>1. i \in Span(0, Size) /\ From + i = p /\ UnitNo + i = p + Offset /\ p < Edge
    BY <1>2, <1>4, Sizes DEF InWork, Span
  <2>2. Plainly(cells, p) /\ cells[p] \in Content
    BY <1>2, <1>3, <1>4, <2>1 DEF Intact, Plainly
  <2>3. Transformed(cells)[i] = Encrypt(Uncover(i, cells[p]), p + Offset)
    BY <2>1, <1>4 DEF Transformed
  <2>4. /\ Uncover(i, cells[p]) \in Content
        /\ Uncover(i, cells[p]).data = p /\ Uncover(i, cells[p]).unit = Plain
    BY <2>2, ContentFacts DEF Uncover, Plainly
  <2> QED
    BY <2>3, <2>4, <1>4, ContentFacts
<1>5. CASE direction = "decrypt"
  <2> DEFINE i == p - Edge
  <2>1. i \in Span(0, Size) /\ From + i = p + Offset /\ UnitNo + i = p + Offset /\ p >= Edge
    BY <1>2, <1>5, Sizes DEF InWork, Span
  <2>2. Encrypted(cells, p) /\ cells[p + Offset] \in Content
    <3>1. Encrypted(disk, p)
      BY <1>2, <1>3, <2>1 DEF Intact
    <3> QED
      BY <3>1, <1>2, <1>5 DEF Encrypted
  <2>3. Transformed(cells)[i] = Cover(i, Decrypt(cells[p + Offset], p + Offset))
    BY <2>1, <1>5 DEF Transformed
  <2>4. /\ Decrypt(cells[p + Offset], p + Offset) \in Content
        /\ Decrypt(cells[p + Offset], p + Offset).data = p
        /\ Decrypt(cells[p + Offset], p + Offset).unit = Plain
    BY <1>2, <2>2, ContentFacts DEF Encrypted
  <2>5. /\ Cover(i, Decrypt(cells[p + Offset], p + Offset)).data = p
        /\ Cover(i, Decrypt(cells[p + Offset], p + Offset)).unit = Plain
    BY <2>4, ContentFacts DEF Cover
  <2> QED
    BY <2>3, <2>5, <1>5
<1> QED
  BY <1>2, <1>4, <1>5

(* Reading a chunk, with or without sectors that cannot be read.           *)
LEMMA ReadKeep ==
  ASSUME ControlInv, ContentInv,
         ReadChunk \/ \E b \in Span(From, Size) : ReadUnreadable({b})
  PROVE  ContentInv'
<1> USE DEF deviceVars, jobVars, historyVars
<1>1. pc = "read" /\ pc' = "write" /\ pc \in AreaInUse /\ pc \in BetweenChunks
  BY DEF ReadChunk, ReadUnreadable, Step, AreaInUse, BetweenChunks
<1>2. UNCHANGED <<backup, direction, area, remaining, distance, outcome>>
  BY DEF ReadChunk, ReadUnreadable
<1>3. /\ Edge' = Edge /\ Size' = Size /\ Frontier(backup') = Frontier(backup)
      /\ Edge \in Int /\ Size \in Nat /\ direction \in {"encrypt", "decrypt"}
      /\ TypeOK /\ Shape
      /\ distance = IF direction = "encrypt" THEN Frontier(backup) - Edge
                    ELSE Edge - Frontier(backup)
      /\ outcome = "error"
      /\ Frontier(backup) \in Int
      /\ direction = "encrypt" => From = Edge - Size
  BY <1>1, <1>2, WorkFacts, ChunkFacts, Sizes
     DEF Edge, Size, Smaller, Frontier, ContentInv, Bookkeeping
<1>4. \A p \in Data : p \in Int /\ p \in Blocks /\ p + Offset \in Blocks
  BY Sizes DEF Data, Blocks
<1>5. \A p \in Kept : Intact(disk, Edge, p)
  BY <1>1 DEF ContentInv, ContentSafe
<1>6. PICK cells \in [Blocks -> Content] :
        /\ buf' = Transformed(cells)
        /\ \A p \in Kept' : /\ p \in Kept
                            /\ direction = "encrypt" => cells[p] = disk[p]
                            /\ direction = "decrypt" => cells[p + Offset] = disk[p + Offset]
                            /\ p < Edge => disk'[p] = disk[p]
                            /\ p >= Edge => disk'[p + Offset] = disk[p + Offset]
                            /\ direction = "encrypt" => disk'[p] = disk[p]
                            /\ direction = "decrypt" => disk'[p + Offset] = disk[p + Offset]
  <2>1. CASE ReadChunk
    <3>1. disk \in [Blocks -> Content] /\ buf' = Transformed(disk) /\ disk' = disk /\ lost' = lost
      BY <2>1, <1>3 DEF ReadChunk, TypeOK
    <3> QED
      BY <3>1 DEF Kept
  <2>2. ASSUME NEW b \in Span(From, Size), ReadUnreadable({b})
        PROVE  \E cells \in [Blocks -> Content] :
        /\ buf' = Transformed(cells)
        /\ \A p \in Kept' : /\ p \in Kept
                            /\ direction = "encrypt" => cells[p] = disk[p]
                            /\ direction = "decrypt" => cells[p + Offset] = disk[p + Offset]
                            /\ p < Edge => disk'[p] = disk[p]
                            /\ p >= Edge => disk'[p + Offset] = disk[p + Offset]
                            /\ direction = "encrypt" => disk'[p] = disk[p]
                            /\ direction = "decrypt" => disk'[p + Offset] = disk[p + Offset]
    <3> DEFINE read == [c \in Blocks |-> IF c \in {b} THEN Garbage ELSE disk[c]]
    <3>1. read \in [Blocks -> Content] /\ \A c \in Blocks : c # b => read[c] = disk[c]
      BY <1>3, GarbageIsContent DEF TypeOK
    <3>2. buf' = Transformed(read)
      BY <2>2 DEF ReadUnreadable
    <3>3. CASE direction = "encrypt"
      <4>1. disk' = read /\ lost' = lost \cup {b}
        BY <2>2, <3>3 DEF ReadUnreadable
      <4>2. b \in Int /\ b < Edge
        BY <1>3, <3>3, Sizes DEF Span
      <4>3. \A p \in Kept' : p # b /\ p \in Kept /\ p \in Data
        BY <4>1 DEF Kept
      <4>4. \A p \in Kept' : p >= Edge => p + Offset # b
        BY <4>2, <4>3, <1>3, <1>4, Sizes
      <4> HIDE DEF read
      <4> QED
        BY <4>1, <4>3, <4>4, <3>1, <3>2, <3>3, <1>4
    <3>4. CASE direction = "decrypt"
      <4>1. disk' = disk /\ lost' = lost \cup {p \in Data : p + Offset \in {b}}
        BY <2>2, <3>4 DEF ReadUnreadable
      <4>2. \A p \in Kept' : p + Offset # b /\ p \in Kept /\ p \in Data
        BY <4>1 DEF Kept
      <4> HIDE DEF read
      <4> QED
        BY <4>1, <4>2, <3>1, <3>2, <3>4, <1>4
    <3> QED
      BY <1>3, <3>3, <3>4
  <2> QED
    BY <2>1, <2>2
<1>7. \A p \in Kept' : p \in Kept /\ p \in Data /\ Intact(disk', Edge, p)
  <2> SUFFICES ASSUME NEW p \in Kept' PROVE p \in Kept /\ p \in Data /\ Intact(disk', Edge, p)
    OBVIOUS
  <2>1. p \in Kept /\ p \in Data /\ p \in Int
    BY <1>4, <1>6 DEF Kept
  <2>2. CASE p < Edge
    BY <2>1, <2>2, <1>5, <1>6 DEF Intact, Plainly
  <2>3. CASE p >= Edge
    BY <2>1, <2>3, <1>3, <1>5, <1>6 DEF Intact, Encrypted
  <2> QED
    BY <2>1, <2>2, <2>3, <1>3
<1>8. \A p \in Kept' : InWork(p)' <=> InWork(p)
  BY <1>2, <1>3 DEF InWork
<1>9. \A p \in Kept' : InWork(p) =>
        IF direction = "encrypt"
        THEN buf'[p - (Edge - Size)].data = p /\ buf'[p - (Edge - Size)].unit = p + Offset
        ELSE buf'[p - Edge].data = p /\ buf'[p - Edge].unit = Plain
  BY <1>1, <1>6, TransformedKept
<1>10. \A p \in Kept' :
         IF direction = "encrypt"
         THEN p < Edge + Offset - Size /\ p < Frontier(backup) => Plainly(disk', p)
         ELSE p >= Edge - Offset /\ p >= Frontier(backup) => Encrypted(disk', p)
  <2>1. \A p \in Kept : IF direction = "encrypt"
                        THEN p < Edge + Offset /\ p < Frontier(backup) => Plainly(disk, p)
                        ELSE p >= Edge - Offset /\ p >= Frontier(backup) => Encrypted(disk, p)
    BY <1>1, <1>3, <1>4, Sizes DEF ContentInv, ContentSafe, Untouched, Kept, InChunk
  <2>2. \A p \in Kept' : p < Edge + Offset - Size => p < Edge + Offset
    BY <1>3, <1>4, <1>7, Sizes
  <2> QED
    BY <2>1, <2>2, <1>3, <1>6 DEF Plainly, Encrypted
<1> QED
  BY <1>1, <1>2, <1>3, <1>7, <1>8, <1>9, <1>10, ToChunk DEF InChunk

(* The steps of a job that write to the device and succeed.                *)
LEMMA WriteKeep ==
  ASSUME ControlInv, ContentInv,
         \/ WriteBackupHeader \/ Toggle \/ Untoggle \/ WipeChunk \/ WriteChunk \/ UpdateHeader
         \/ LastUpdate \/ WritePrimaryHeader \/ ZeroRest \/ UndoWrite
  PROVE  ContentInv'
<1> USE DEF deviceVars, jobVars, historyVars
<1>0. WriteAll /\ TypeOK /\ Shape /\ lost' = lost /\ Kept' = Kept
  BY DEF WriteBackupHeader, Toggle, Untoggle, WipeChunk, WriteChunk, UpdateHeader, LastUpdate,
         WritePrimaryHeader, ZeroRest, UndoWrite, ControlInv, ToolsTypeOK, Kept
<1>1. ASSUME pc \in AfterChunks, pc' \in AfterChunks, outcome' = outcome, area' = area
      PROVE  ContentInv'
  <2>1. /\ outcome = "error" /\ Edge' = Edge /\ Frontier(backup) = Edge
        /\ pc \notin InChunk /\ pc \in AreaInUse /\ pc \notin UpdateStep
    BY <1>1 DEF ContentInv, Bookkeeping, Edge, AfterChunks, InChunk, AreaInUse, UpdateStep
  <2>2. /\ Frontier(backup') = Edge' /\ \A p \in Kept : Intact(disk', Edge', p)
    BY <1>0, <2>1, OuterWrite, FrontierMoves
  <2> QED
    BY <1>0, <1>1, <2>1, <2>2, ToAfter
<1>2. CASE WritePrimaryHeader \/ ZeroRest \/ (Toggle /\ pc = "reveal")
  BY <1>1, <1>2 DEF WritePrimaryHeader, ZeroRest, Toggle, Step, AfterChunks
<1>3. CASE WriteBackupHeader \/ (Toggle /\ pc = "conceal")
  <2>1. /\ pc \in {"writeBackup", "conceal"} /\ pc' \in {"conceal", "record"}
        /\ pc' = "conceal" => pc = "writeBackup"
        /\ UNCHANGED <<distance, outcome>>
    BY <1>3 DEF WriteBackupHeader, Toggle, Step
  <2>2. /\ pc \in Outside /\ pc \notin InChunk /\ pc \notin UpdateStep
        /\ distance = 0 /\ outcome = "error"
    BY <2>1 DEF ContentInv, Bookkeeping, Outside, InChunk, UpdateStep
  <2>3. \A p \in Kept' : Intact(disk', Frontier(backup'), p)
    BY <1>0, <2>2, OuterWrite, FrontierMoves
  <2>4. pc = "writeBackup" => backup'.length = 0
    BY <1>0, HeaderFacts DEF WriteAll, NewBackup, UpdateStep, Header
  <2> QED
    BY <2>1, <2>2, <2>3, <2>4, ToOutside DEF Outside
<1>4. CASE Untoggle \/ UndoWrite
  <2>1. /\ pc \in {"unflip", "undo"} /\ pc' = "closing" /\ UNCHANGED <<outcome, area>>
        /\ outcome = "error" /\ Edge' = Edge
    BY <1>4 DEF Untoggle, UndoWrite, Step, ContentInv, Bookkeeping, Edge
  <2>2. changed' <=> changed
    BY <1>4 DEF Untoggle, UndoWrite
  <2>3. pc = "unflip" => ~changed
    BY <1>0 DEF Shape, Outside
  <2>4. Lossy(disk', Frontier(backup')) /\ (changed' => Lossy(disk', Edge'))
    BY <1>0, <2>1, <2>2, <2>3, WriteLossy DEF AreaInUse, InChunk
  <2> QED
    BY <1>0, <2>1, <2>4, ToClosing
<1>5. CASE WipeChunk
  <2>1. /\ pc = "write" /\ pc' = "write" /\ direction = "encrypt"
        /\ UNCHANGED <<buf, area, remaining, direction, distance, outcome>>
        /\ pc \in InChunk /\ pc \in AreaInUse /\ pc \notin UpdateStep
    BY <1>5 DEF WipeChunk, Step, InChunk, AreaInUse, UpdateStep
  <2>2. /\ Edge' = Edge /\ Size' = Size /\ Edge \in Int /\ Size \in Int
        /\ Frontier(backup') = Frontier(backup) /\ outcome = "error"
        /\ distance = Frontier(backup) - Edge
        /\ \A p \in Kept : (InWork(p)' <=> InWork(p)) /\ p \in Int
    BY <1>0, <2>1, WorkFacts, FrontierMoves, Sizes
       DEF Edge, Size, Smaller, InWork, ContentInv, Bookkeeping, Kept, Data
  <2>3. \A p \in Kept : InWork(p) => /\ buf[p - (Edge - Size)].data = p
                                     /\ buf[p - (Edge - Size)].unit = p + Offset
    BY <2>1 DEF ContentInv, ContentSafe
  <2>4. \A p \in Kept : ~InWork(p) => Intact(disk', Edge, p)
    BY <1>0, <2>1, ChunkWrite
  <2>5. \A p \in Kept : p < Edge + Offset - Size /\ p < Frontier(backup) => Plainly(disk', p)
    <3>1. Edge + Offset - Size = Edge - Size + Offset
      BY <2>2, Sizes
    <3> QED
      BY <1>0, <2>1, <3>1, ChunkWrite
  <2> QED
    BY <1>0, <2>1, <2>2, <2>3, <2>4, <2>5, ToChunk
<1>6. CASE WriteChunk
  <2>1. /\ pc = "write" /\ pc' \in {"update", "next"} /\ area' = MovedArea
        /\ distance' = distance + Size
        /\ (direction = "decrypt" \/ pass > WipePasses)
        /\ UNCHANGED <<direction, outcome>>
        /\ pc \in InChunk /\ pc \in AreaInUse /\ pc \notin UpdateStep
    BY <1>6 DEF WriteChunk, Step, InChunk, AreaInUse, UpdateStep
  <2>2. /\ Edge \in Int /\ Size \in Nat /\ direction \in {"encrypt", "decrypt"}
        /\ Frontier(backup') = Frontier(backup) /\ Frontier(backup) \in Int /\ outcome = "error"
        /\ distance \in Nat /\ pass \in Int
        /\ direction = "encrypt" => Frontier(backup) = Edge + distance
        /\ direction = "decrypt" => Frontier(backup) = Edge - distance
        /\ \A p \in Kept : p \in Int /\ p \in Blocks /\ p + Offset \in Blocks
    <3>1. /\ Edge \in Int /\ Size \in Nat /\ direction \in {"encrypt", "decrypt"}
          /\ Frontier(backup') = Frontier(backup) /\ Frontier(backup) \in Int
          /\ distance \in Nat
          /\ direction = "encrypt" => Frontier(backup) = Edge + distance
          /\ direction = "decrypt" => Frontier(backup) = Edge - distance
      BY <1>0, <2>1, WorkFacts, FrontierMoves, Sizes
    <3>2. outcome = "error" /\ pass \in Int
      BY <1>0, <2>1, Sizes DEF ContentInv, Bookkeeping, TypeOK
    <3>3. \A p \in Kept : p \in Int /\ p \in Blocks /\ p + Offset \in Blocks
      BY Sizes DEF Kept, Data, Blocks
    <3> QED
      BY <3>1, <3>2, <3>3
  <2>3. Edge' = IF direction = "encrypt" THEN Edge - Size ELSE Edge + Size
    <3>1. area.start \in Int
      BY <1>0, <2>1, ChunkFacts
    <3> QED
      BY <2>1, <2>2, <3>1, Sizes DEF Edge, MovedArea
  <2>4. \A b \in Span(To, Size) : b \in Blocks => disk'[b] = buf[b - To]
    <3>1. NewBlocks = [b \in Span(To, Size) |-> IF direction = "encrypt" /\ pass <= WipePasses
                                                THEN Garbage ELSE buf[b - To]]
      BY <2>1 DEF NewBlocks
    <3>2. ~(direction = "encrypt" /\ pass <= WipePasses)
      BY <2>1, <2>2, Sizes
    <3> QED
      BY <1>0, <3>1, <3>2 DEF WriteAll, Write
  <2>5. \A p \in Kept : Intact(disk', Edge', p)
    <3>1. CASE direction = "encrypt"
      <4>1. To = Edge - Size + Offset
        BY <1>0, <2>1, <2>2, <3>1, ChunkFacts, Sizes
      <4>2. ASSUME NEW p \in Kept, InWork(p)
            PROVE  Encrypted(disk', p)
        <5> DEFINE b == p + Offset
        <5>1. b \in Span(To, Size) /\ b \in Blocks /\ b - To = p - (Edge - Size)
          BY <2>2, <3>1, <4>1, <4>2, Sizes DEF Span, InWork
        <5>2. disk'[b] = buf[p - (Edge - Size)]
          <6> HIDE DEF b
          <6> QED
            BY <2>4, <5>1
        <5> QED
          BY <2>1, <3>1, <4>2, <5>2 DEF Encrypted, ContentInv, ContentSafe
      <4>3. \A p \in Kept : ~InWork(p) => Intact(disk', Edge, p)
        BY <1>0, <2>1, ChunkWrite
      <4> QED
        BY <2>2, <2>3, <3>1, <4>2, <4>3, Sizes DEF Intact, InWork
    <3>2. CASE direction = "decrypt"
      <4>1. To = Edge
        BY <1>0, <2>1, <3>2, ChunkFacts
      <4>2. ASSUME NEW p \in Kept, InWork(p)
            PROVE  Plainly(disk', p)
        <5>1. p \in Span(To, Size) /\ p \in Blocks
          BY <2>2, <3>2, <4>1, <4>2, Sizes DEF Span, InWork
        <5>2. disk'[p] = buf[p - Edge]
          BY <2>4, <4>1, <5>1
        <5> QED
          BY <2>1, <3>2, <4>2, <5>2 DEF Plainly, ContentInv, ContentSafe
      <4>3. \A p \in Kept : ~InWork(p) => Intact(disk', Edge, p)
        BY <1>0, <2>1, ChunkWrite
      <4> QED
        BY <2>2, <2>3, <3>2, <4>2, <4>3, Sizes DEF Intact, InWork
    <3> QED
      BY <2>2, <3>1, <3>2
  <2>6. \A p \in Kept : IF direction = "encrypt"
                        THEN p < Edge' + Offset /\ p < Frontier(backup') => Plainly(disk', p)
                        ELSE p >= Edge' - Offset /\ p >= Frontier(backup') => Encrypted(disk', p)
    <3>1. Edge' + Offset = Edge - Size + Offset \/ direction # "encrypt"
      BY <2>3
    <3>2. Edge' - Offset = Edge + Size - Offset \/ direction = "encrypt"
      BY <2>2, <2>3, Sizes
    <3> QED
      BY <1>0, <2>1, <2>2, <3>1, <3>2, ChunkWrite
  <2>7. distance' = IF direction = "encrypt" THEN Frontier(backup) - Edge'
                    ELSE Edge' - Frontier(backup)
    BY <2>1, <2>2, <2>3
  <2> QED
    BY <1>0, <2>1, <2>2, <2>3, <2>5, <2>6, <2>7, ToBetween DEF BetweenChunks
<1>7. CASE UpdateHeader \/ LastUpdate
  <2>1. /\ pc \in {"update", "lastUpdate"} /\ UNCHANGED <<area, outcome, direction>>
        /\ Edge' = Edge /\ pc \in UpdateStep /\ pc \in BetweenChunks /\ pc \notin InChunk
        /\ pc \in AreaInUse
    BY <1>7
       DEF UpdateHeader, LastUpdate, Step, Edge, UpdateStep, BetweenChunks, InChunk,
           AreaInUse
  <2>2. /\ Frontier(backup') = Edge' /\ Edge \in Int
        /\ \A p \in Kept : p \in Int /\ Intact(disk', Edge', p)
    BY <1>0, <2>1, OuterWrite, FrontierMoves, WorkFacts, Sizes DEF Kept, Data
  <2>3. Lossy(disk', Edge')
    BY <2>2, IntactIsNotLossy
  <2>4. CASE UpdateHeader
    <3>1. pc = "update" /\ pc' = "next" /\ distance' = 0 /\ outcome = "error"
      BY <2>4 DEF UpdateHeader, Step, ContentInv, Bookkeeping
    <3>2. \A p \in Kept : IF direction' = "encrypt"
                          THEN p < Edge' + Offset /\ p < Frontier(backup') => Plainly(disk', p)
                          ELSE p >= Edge' - Offset /\ p >= Frontier(backup') => Encrypted(disk', p)
      BY <2>1, <2>2 DEF Intact
    <3> QED
      BY <1>0, <2>1, <2>2, <3>1, <3>2, ToBetween DEF BetweenChunks
  <2>5. CASE LastUpdate /\ outcome = "paused"
    BY <1>0, <2>1, <2>2, <2>3, <2>5, ToClosing DEF LastUpdate, Step, AfterLoop
  <2>6. CASE LastUpdate /\ outcome # "paused"
    <3>1. pc = "lastUpdate" /\ outcome = "error"
      BY <1>0, <2>6 DEF LastUpdate, Step, ContentInv, Bookkeeping, TypeOK
    <3>2. pc' \in AfterChunks
      BY <2>6 DEF LastUpdate, Step, AfterLoop, AfterChunks
    <3> QED
      BY <1>0, <2>1, <2>2, <3>1, <3>2, ToAfter
  <2> QED
    BY <1>7, <2>4, <2>5, <2>6
<1> QED
  BY <1>2, <1>3, <1>4, <1>5, <1>6, <1>7 DEF Toggle, Step

(* A write that fails: encryption undoes it, a toggle is undone, and       *)
(* otherwise the job closes.                                               *)
LEMMA FailedWriteKeep ==
  ASSUME ControlInv, ContentInv, WriteFails
  PROVE  ContentInv'
<1> USE DEF deviceVars, jobVars, historyVars
<1>1. /\ WritePart /\ TypeOK /\ Shape /\ lost' = lost /\ Kept' = Kept /\ outcome' = "error"
      /\ UNCHANGED <<area, remaining, direction, distance>>
      /\ Edge' = Edge /\ Size' = Size /\ pc \in WriteStep \ {"closing"}
  BY DEF WriteFails, ControlInv, ToolsTypeOK, Kept, Edge, Size, Smaller
<1>2. changed' <=> changed
  BY DEF WriteFails
<1>3. CASE pc = "write" /\ Undoable
  <2>1. /\ pc' = "undo" /\ buf' = buf /\ direction = "encrypt"
        /\ pc \in InChunk /\ pc \in AreaInUse /\ pc \notin UpdateStep
    BY <1>3 DEF WriteFails, Undoable, InChunk, AreaInUse, UpdateStep
  <2>2. /\ Edge \in Int /\ Size \in Int /\ Frontier(backup') = Frontier(backup)
        /\ distance = Frontier(backup) - Edge
        /\ \A p \in Kept : (InWork(p)' <=> InWork(p)) /\ p \in Int
    BY <1>1, <2>1, WorkFacts, FrontierMoves, Sizes
       DEF InWork, ContentInv, Bookkeeping, Kept, Data
  <2>3. \A p \in Kept : InWork(p) => /\ buf[p - (Edge - Size)].data = p
                                     /\ buf[p - (Edge - Size)].unit = p + Offset
    BY <2>1 DEF ContentInv, ContentSafe
  <2>4. \A p \in Kept : ~InWork(p) => Intact(disk', Edge, p)
    BY <1>1, <2>1, ChunkWrite
  <2>5. \A p \in Kept : p < Edge + Offset - Size /\ p < Frontier(backup) => Plainly(disk', p)
    <3>1. Edge + Offset - Size = Edge - Size + Offset
      BY <2>2, Sizes
    <3> QED
      BY <1>1, <2>1, <3>1, ChunkWrite
  <2> QED
    BY <1>1, <2>1, <2>2, <2>3, <2>4, <2>5, ToChunk DEF InChunk
<1>4. CASE pc \in {"conceal", "reveal", "unflip"}
  <2>1. pc' = "unflip" /\ pc \notin InChunk /\ pc \notin UpdateStep /\ pc # "writeBackup"
    BY <1>4 DEF WriteFails, InChunk, UpdateStep
  <2>2. Frontier(backup) = DataSize /\ backup'.length = 0
    <3>1. backup.length = 0 /\ backup' = backup
      BY <1>1, <1>4, DeviceTyped, BackupTyped
         DEF HeaderStep, UpdateStep, ContentInv, Bookkeeping, ControlInv, Agreement
    <3> QED
      BY <1>1, <3>1, FrontierFacts, Sizes DEF TypeOK, Shape
  <2>3. \A p \in Kept : /\ Intact(disk, Frontier(backup), p)
                        /\ Intact(disk', Frontier(backup'), p)
    <3>1. CASE pc = "reveal"
      <4>1. pc \in AfterChunks /\ pc \in AreaInUse /\ Frontier(backup) = Edge
        BY <3>1 DEF AfterChunks, AreaInUse, ContentInv, Bookkeeping
      <4> QED
        BY <1>1, <2>1, <4>1, OuterWrite, FrontierMoves DEF ContentInv, ContentSafe
    <3>2. CASE pc # "reveal"
      <4>1. pc \in Outside
        BY <1>4, <3>2 DEF Outside
      <4> QED
        BY <1>1, <2>1, <4>1, OuterWrite, FrontierMoves DEF ContentInv, ContentSafe
    <3> QED
      BY <3>1, <3>2
  <2>4. \A p \in Kept : p < Portion => buf'[p].data = p /\ buf'[p].unit = Plain
    <3>1. CASE pc = "unflip"
      BY <3>1 DEF WriteFails, ContentInv, Bookkeeping
    <3>2. CASE pc # "unflip"
      <4>1. buf' = [b \in 0..Portion - 1 |-> disk[b]]
        BY <1>4, <3>2 DEF WriteFails
      <4>2. \A p \in Kept : p \in Int /\ p >= 0 /\ p < DataSize
        BY Sizes DEF Kept, Data
      <4>3. \A p \in Kept : Plainly(disk, p)
        BY <2>2, <2>3, <4>2 DEF Intact
      <4> QED
        BY <4>1, <4>2, <4>3, Sizes DEF Plainly
    <3> QED
      BY <3>1, <3>2
  <2> QED
    BY <1>1, <2>1, <2>2, <2>3, <2>4, ToUnflip
<1>5. CASE ~(pc = "write" /\ Undoable) /\ pc \notin {"conceal", "reveal", "unflip"}
  <2>1. pc' = "closing"
    BY <1>5 DEF WriteFails
  <2>2. pc \in AreaInUse \/ ~changed
    BY <1>1, <1>5 DEF WriteStep, HeaderStep, UpdateStep, Shape, Outside, AreaInUse, InChunk,
                      BetweenChunks, AfterChunks
  <2>3. Lossy(disk', Frontier(backup')) /\ (changed' => Lossy(disk', Edge'))
    BY <1>1, <1>2, <2>2, WriteLossy
  <2> QED
    BY <1>1, <2>1, <2>3, ToClosing
<1> QED
  BY <1>3, <1>4, <1>5

(* When a job or a tool is over, lost is all that is not in its place.     *)
LEMMA EndKeep ==
  ASSUME pc' = "idle", distance' = 0, outcome' = "error",
         disk' \in [Blocks -> Content], backup' \in Headers, backup' # NoHeader => Fits(backup'),
         lost \subseteq Data, lost' = lost \cup Wrong(disk', backup')
  PROVE  /\ ContentInv'
         /\ Kept' \subseteq Kept
         /\ \A p \in Kept : p \notin Kept' => ~Intact(disk', Frontier(backup'), p)
<1>1. \A p \in Data : p \notin Wrong(disk', backup') <=> Intact(disk', Frontier(backup'), p)
  BY WrongFacts
<1>2. \A p \in Kept' : p \in Kept /\ p \in Data /\ Intact(disk', Frontier(backup'), p)
  BY <1>1 DEF Kept
<1>3. \A p \in Kept : p \notin Kept' => ~Intact(disk', Frontier(backup'), p)
  BY <1>1 DEF Kept
<1> QED
  BY <1>2, <1>3, ToOutside DEF Outside

(* The end of a job.                                                       *)
LEMMA CloseKeep ==
  ASSUME ControlInv, ContentInv, CloseJob \/ CloseFails \/ Crash
  PROVE  /\ ContentInv' /\ pc' = "idle"
         /\ result' = outcome \/ result' = "crash"
         /\ Kept' \subseteq Kept
         /\ \E first \in Data : Kept \ Kept' \subseteq first..first + MaxLoss - 1
         /\ result' \in {"paused", "success"} => Kept' = Kept
<1>1. /\ TypeOK /\ Shape /\ (WriteAll \/ WritePart)
      /\ \E report \in {outcome, "crash"} : End(report) /\ (report = outcome => pc = "closing")
  BY DEF ControlInv, ToolsTypeOK, CloseJob, CloseFails, Crash, TypeOK
<1>2. PICK report \in {outcome, "crash"} : End(report) /\ (report = outcome => pc = "closing")
  BY <1>1
<1>3. /\ pc' = "idle" /\ distance' = 0 /\ outcome' = "error" /\ result' = report
      /\ lost' = lost \cup Wrong(disk', backup') /\ lost \subseteq Data
  BY <1>1, <1>2 DEF End, ForgetJob, TypeOK
<1>4. /\ disk' \in [Blocks -> Content] /\ backup' \in Headers
      /\ (backup' # NoHeader => Fits(backup'))
  BY <1>1, DeviceTyped
<1>5. /\ ContentInv' /\ Kept' \subseteq Kept
      /\ \A p \in Kept : p \notin Kept' => ~Intact(disk', Frontier(backup'), p)
  BY <1>3, <1>4, EndKeep
<1>6. PICK first \in Data :
        \A p \in Kept : ~Intact(disk', Frontier(backup'), p) => p \in first..first + MaxLoss - 1
  BY <1>1, WriteLossy DEF Lossy
<1>7. Kept \ Kept' \subseteq first..first + MaxLoss - 1
  BY <1>5, <1>6
<1>8. result' \in {"paused", "success"} => Kept' = Kept
  <2> SUFFICES ASSUME result' \in {"paused", "success"} PROVE Kept \subseteq Kept'
    BY <1>5
  <2>1. pc = "closing" /\ outcome # "error"
    BY <1>2, <1>3
  <2> QED
    BY <1>1, <1>5, <2>1, WriteLossy
<1> QED
  BY <1>2, <1>3, <1>5, <1>7, <1>8

(* ChangePwd and RestoreVolumeHeader write where a complete volume keeps   *)
(* no data.                                                                *)
LEMMA ToolKeep ==
  ASSUME ControlInv, ContentInv,
         \/ UseTool \/ ChangePrimary \/ FinishTool
         \/ \E report \in {"error", "crash"} : StopTool(report)
  PROVE  ContentInv' /\ Kept' = Kept
<1> USE DEF deviceVars, jobVars, historyVars
<1>1. CASE UseTool
  <2>1. /\ pc = "idle" /\ pc' = "idle"
        /\ UNCHANGED <<disk, backup, lost, distance, outcome>>
    BY <1>1 DEF UseTool, ChangePwd, RestoreVolumeHeader, RunTool
  <2>2. /\ Kept' = Kept /\ distance = 0 /\ outcome = "error"
        /\ \A p \in Kept : Intact(disk, Frontier(backup), p)
    BY <2>1 DEF Kept, ContentInv, ContentSafe, Bookkeeping, Outside
  <2> QED
    BY <2>1, <2>2, ToOutside DEF Outside
<1>2. ASSUME NEW B \in SUBSET ToolBlocks,
             NEW h \in {backup, IF tool = "backup" THEN copy ELSE backup},
             WriteTool(B, h), tool # "none"
      PROVE  /\ disk' \in [Blocks -> Content] /\ backup' \in Headers
             /\ (backup' # NoHeader => Fits(backup'))
             /\ pc = "idle" /\ distance = 0 /\ outcome = "error" /\ lost \subseteq Data
             /\ \A p \in Kept : Intact(disk', Frontier(backup'), p)
  <2>1. /\ TypeOK /\ copy \in Headers /\ Fits(copy) /\ pc = "idle"
        /\ backup \in Headers /\ (backup # NoHeader => Fits(backup))
        /\ tool \in {"primary", "backup", "restore"} /\ copy # NoHeader
    BY <1>2, HeaderFacts DEF ControlInv, ToolsTypeOK, TypeOK, Shape
  <2>2. /\ distance = 0 /\ outcome = "error" /\ lost \subseteq Data
        /\ \A p \in Kept : Intact(disk, Frontier(backup), p) /\ p \in Nat /\ p + Offset \in Blocks
    BY <2>1, Sizes
       DEF TypeOK, ContentInv, ContentSafe, Bookkeeping, Outside, Kept, Data, Blocks
  <2>3. backup.length = DataSize /\ (tool = "backup" => AreaOf(copy) = AreaOf(backup))
    BY <2>1 DEF ControlInv, Agreement, PrimaryAgrees
  <2>4. tool = "backup" => copy.length = DataSize
    BY <2>3, HeaderFacts
  <2>5. Frontier(backup) = 0 /\ Frontier(backup') = 0
    BY <1>2, <2>1, <2>3, <2>4, FrontierFacts, Sizes DEF WriteTool
  <2>6. \A b \in B : b < Offset
    BY <2>1, Sizes DEF ToolBlocks
  <2>7. disk' \in [Blocks -> Content] /\ \A b \in Blocks : b >= Offset => disk'[b] = disk[b]
    BY <1>2, <2>1, <2>6, GarbageIsContent, Sizes DEF WriteTool, TypeOK, Blocks
  <2>8. \A p \in Kept : Intact(disk', Frontier(backup'), p)
    <3> SUFFICES ASSUME NEW p \in Kept PROVE Intact(disk', 0, p)
      BY <2>5
    <3>1. Encrypted(disk, p) /\ ~(p < 0) /\ p + Offset >= Offset
      BY <2>2, <2>5, Sizes DEF Intact
    <3> QED
      BY <2>2, <2>7, <3>1 DEF Intact, Encrypted
  <2>9. backup' \in Headers /\ (backup' # NoHeader => Fits(backup'))
    BY <1>2, <2>1 DEF WriteTool
  <2> QED
    BY <2>1, <2>2, <2>7, <2>8, <2>9
<1>3. CASE ChangePrimary
  <2>1. /\ WriteTool(ToolBlocks, backup) /\ tool # "none"
        /\ UNCHANGED <<pc, lost, distance, outcome>>
    BY <1>3 DEF ChangePrimary
  <2>2. /\ pc = "idle" /\ distance = 0 /\ outcome = "error" /\ Kept' = Kept
        /\ \A p \in Kept : Intact(disk', Frontier(backup'), p)
    BY <1>2, <2>1 DEF Kept
  <2> QED
    BY <2>1, <2>2, ToOutside DEF Outside
<1>4. ASSUME NEW B \in SUBSET ToolBlocks,
             NEW h \in {backup, IF tool = "backup" THEN copy ELSE backup},
             NEW report, WriteTool(B, h), tool # "none", EndTool(report),
             UNCHANGED <<pc, distance, outcome>>
      PROVE  ContentInv' /\ Kept' = Kept
  <2>1. /\ disk' \in [Blocks -> Content] /\ backup' \in Headers
        /\ (backup' # NoHeader => Fits(backup'))
        /\ pc = "idle" /\ distance = 0 /\ outcome = "error" /\ lost \subseteq Data
        /\ \A p \in Kept : Intact(disk', Frontier(backup'), p)
    BY <1>2, <1>4
  <2>2. lost' = lost \cup Wrong(disk', backup')
    BY <1>4 DEF EndTool
  <2>3. /\ ContentInv' /\ Kept' \subseteq Kept
        /\ \A p \in Kept : p \notin Kept' => ~Intact(disk', Frontier(backup'), p)
    BY <1>4, <2>1, <2>2, EndKeep
  <2> QED
    BY <2>1, <2>3
<1>5. CASE FinishTool
  BY <1>4, <1>5 DEF FinishTool
<1>6. CASE \E report \in {"error", "crash"} : StopTool(report)
  BY <1>4, <1>6 DEF StopTool
<1> QED
  BY <1>1, <1>3, <1>5, <1>6

(* The invariant holds to begin with, and every step preserves it.         *)
LEMMA ContentInit == ToolsInit => ContentInv
<1> SUFFICES ASSUME ToolsInit PROVE ContentInv
  OBVIOUS
<1>1. \A p \in Kept : Intact(disk, Frontier(backup), p)
  <2> SUFFICES ASSUME NEW p \in Kept PROVE Plainly(disk, p) /\ p < Frontier(backup)
    BY DEF Intact
  <2>1. p \in Data /\ p \in Blocks /\ p < DataSize
    BY Sizes DEF Kept, Data, Blocks
  <2> QED
    BY <2>1 DEF ToolsInit, Init, Frontier, Plainly, FileSystem
<1>2. ContentSafe
  BY <1>1 DEF ToolsInit, Init, ContentSafe, Outside, BetweenChunks, InChunk, AfterChunks
<1>3. Bookkeeping /\ Closing
  BY DEF ToolsInit, Init, Bookkeeping, Closing, Outside, AreaInUse, BetweenChunks, InChunk,
         AfterChunks
<1> QED
  BY <1>2, <1>3 DEF ContentInv

(* Each step has been dealt with by a lemma of its own.                    *)
LEMMA ContentStep ==
  ASSUME ControlInv, ContentInv, [ToolsNext]_allVars
  PROVE  ContentInv'
<1>1. CASE InPlaceStep(Next)
  BY <1>1, QuietKeep, ReadKeep, WriteKeep, FailedWriteKeep, CloseKeep
     DEF InPlaceStep, Next, Work, Fail
<1>2. CASE UNCHANGED allVars
  BY <1>2 DEF allVars, vars, deviceVars, jobVars, historyVars, ContentInv, ContentSafe,
              Bookkeeping, Closing, Lossy, Kept, Intact, Plainly, Encrypted, Edge, Frontier,
              Untouched, InWork, Size, Smaller
<1> QED
  BY <1>1, <1>2, ToolKeep DEF ToolsNext

(* The invariant holds throughout.                                         *)
LEMMA ContentCorrect == ToolsSpec => [](ControlInv /\ ContentInv)
<1>1. ToolsInit => ControlInv /\ ContentInv
  BY ControlInit, ContentInit
<1>2. ControlInv /\ ContentInv /\ [ToolsNext]_allVars => (ControlInv /\ ContentInv)'
  BY ControlStep, ContentStep
<1> QED
  BY <1>1, <1>2, PTL DEF ToolsSpec

-----------------------------------------------------------------------------
(* Every step of the jobs and the tools is a step of KeptContent, or none. *)
LEMMA KeptStep ==
  ASSUME ControlInv, ContentInv, [ToolsNext]_allVars
  PROVE  ToolsKept!Next \/ UNCHANGED ToolsKept!vars
<1> USE DEF deviceVars, jobVars, historyVars, toolVars
<1>0. /\ TypeOK /\ Shape /\ Kept = Data \ lost /\ Kept' = Data \ lost'
      /\ MaxLoss = UpdateInterval - 1 + Chunk - Offset
  BY DEF ControlInv, ToolsTypeOK, Kept, MaxLoss
<1>1. ASSUME InPlaceStep(Begin) \/ UseTool
      PROVE  ToolsKept!Start
  <2>1. /\ pc = "idle" /\ tool = "none" /\ (pc' # "idle" \/ tool' # "none")
        /\ result' = result /\ lost' = lost
    BY <1>1 DEF InPlaceStep, Begin, BeginEncryption, Resume, StartDecryption, BeginJob, UseTool,
                ChangePwd, RestoreVolumeHeader, RunTool
  <2> QED
    BY <2>1 DEF ToolsKept!Start
<1>2. ASSUME pc # "idle" \/ tool # "none", pc' = "idle", tool' = "none",
             result' \in {"paused", "success"} => Kept' = Kept,
             result' \in {"error", "paused", "success", "crash"}, Kept' \subseteq Kept,
             \E first \in Data : Kept \ Kept' \subseteq first..first + MaxLoss - 1
      PROVE  ToolsKept!Finish \/ ToolsKept!Interrupt
  BY <1>0, <1>2 DEF ToolsKept!Finish, ToolsKept!Interrupt
<1>3. ASSUME InPlaceStep(CloseJob \/ CloseFails \/ Crash)
      PROVE  ToolsKept!Finish \/ ToolsKept!Interrupt
  <2>1. pc # "idle" /\ tool = "none" /\ tool' = "none" /\ outcome \in {"error", "paused", "success"}
    BY <1>0, <1>3 DEF InPlaceStep, CloseJob, CloseFails, Crash, TypeOK
  <2> QED
    BY <1>2, <1>3, <2>1, CloseKeep DEF InPlaceStep
<1>4. ASSUME FinishTool \/ \E report \in {"error", "crash"} : StopTool(report)
      PROVE  ToolsKept!Finish \/ ToolsKept!Interrupt
  <2>1. Kept' = Kept
    BY <1>4, ToolKeep
  <2>2. /\ tool # "none" /\ tool' = "none" /\ pc' = pc
        /\ result' \in {"error", "paused", "success", "crash"}
    BY <1>4 DEF FinishTool, StopTool, EndTool
  <2>3. Kept \ Kept' \subseteq 0..0 + MaxLoss - 1 /\ 0 \in Data
    BY <2>1, Sizes DEF Data
  <2> QED
    BY <1>0, <1>2, <2>1, <2>2, <2>3 DEF Shape
<1>5. ASSUME NEW b \in Span(From, Size), InPlaceStep(ReadUnreadable({b}))
      PROVE  ToolsKept!Unreadable
  <2>1. /\ pc = "read" /\ pc' = "write" /\ tool' = tool /\ result' = result
        /\ lost' = lost \cup IF direction = "encrypt" THEN {b} ELSE {p \in Data : p + Offset \in {b}}
    BY <1>5 DEF InPlaceStep, ReadUnreadable, Step
  <2>2. b \in Int /\ Offset \in Int /\ Data \subseteq Int
    BY <1>0, Sizes, ChunkFacts, <2>1 DEF Span, Data, Blocks, AreaInUse, BetweenChunks
  <2>3. PICK sector \in Int : lost' \in {lost, lost \cup {sector}}
    <3>1. CASE direction = "encrypt"
      BY <2>1, <2>2, <3>1
    <3>2. CASE direction # "encrypt"
      <4>1. \A p \in Data : p + Offset \in {b} => p = b - Offset
        BY <2>2
      <4>2. lost' = lost \cup {p \in Data : p + Offset \in {b}}
        BY <2>1, <3>2
      <4>3. lost' \in {lost, lost \cup {b - Offset}}
        BY <4>1, <4>2
      <4> QED
        BY <2>2, <4>3
    <3> QED
      BY <3>1, <3>2
  <2>4. \E s \in Data : Kept' \in {Kept, Kept \ {s}}
    <3>1. CASE sector \in Data
      BY <1>0, <2>3, <3>1
    <3>2. CASE sector \notin Data
      <4>1. Kept' = Kept
        BY <1>0, <2>3, <3>2
      <4>2. 0 \in Data
        BY Sizes DEF Data
      <4> QED
        BY <4>1, <4>2
    <3> QED
      BY <3>1, <3>2
  <2> QED
    BY <1>0, <2>1, <2>4 DEF ToolsKept!Unreadable
<1>6. ASSUME UNCHANGED <<lost, result>>, pc # "idle" \/ tool # "none" <=> pc' # "idle" \/ tool' # "none"
      PROVE  UNCHANGED ToolsKept!vars
  BY <1>6 DEF ToolsKept!vars
<1>7. ASSUME InPlaceStep(ReadFails \/ WriteFails \/ (Work /\ ~CloseJob))
      PROVE  UNCHANGED ToolsKept!vars
  <2>1. UNCHANGED <<lost, result, tool>> /\ pc # "idle" /\ pc' # "idle"
    BY <1>7 DEF InPlaceStep, Work, ReadFails, WriteFails, WriteBackupHeader, Toggle, Untoggle,
                RecordJob, OpenBackupHeader, ReadChunk, WipeChunk, WriteChunk, UpdateHeader, GoOn,
                LeaveLoop, LastUpdate, AfterLoop, WritePrimaryHeader, ZeroRest, FinishJob,
                UndoWrite, Step, ReadStep, WriteStep, HeaderStep, UpdateStep
  <2> QED
    BY <1>6, <2>1
<1>8. ASSUME ChangePrimary \/ UNCHANGED allVars
      PROVE  UNCHANGED ToolsKept!vars
  <2>1. /\ UNCHANGED <<lost, result, pc>>
        /\ tool # "none" <=> tool' # "none"
    BY <1>8 DEF ChangePrimary, allVars, vars
  <2> QED
    BY <1>6, <2>1
<1>9. CASE InPlaceStep(Next)
  BY <1>1, <1>3, <1>5, <1>7, <1>9 DEF InPlaceStep, Next, Fail, ToolsKept!Next
<1> QED
  BY <1>1, <1>4, <1>8, <1>9 DEF ToolsNext, ToolsKept!Next

(* The owner of the partition is promised no more and no less than what    *)
(* KeptContent says: whatever sequence of encryptions, decryptions,        *)
(* changes of password and restored headers, pauses, device errors and     *)
(* crashes, a success or a pause costs nothing, and an interruption at     *)
(* most one run of UpdateInterval - 1 + Chunk - Offset sectors, those that *)
(* moved since FastVolumeHeaderUpdate last saved the header and whose old  *)
(* place has been overwritten.                                             *)
THEOREM ContentKept == ToolsSpec => ToolsKeepContent
<1>1. ToolsInit => ToolsKept!Init
  BY DEF ToolsInit, Init, ToolsKept!Init
<1>2. ControlInv /\ ContentInv /\ [ToolsNext]_allVars => [ToolsKept!Next]_(ToolsKept!vars)
  BY KeptStep
<1> QED
  BY <1>1, <1>2, ContentCorrect, PTL DEF ToolsSpec, ToolsKeepContent, ToolsKept!Spec

------------------------------------------------------------------------------
(* The start of the file system, where it is plain: concealed, or in the   *)
(* open, or all of it plain and in the open.                               *)
Hidden(d) == \A b \in 0..Portion - 1 : d[b].unit = Plain => d[b].concealed
Revealed(d) == \A b \in 0..Portion - 1 : d[b].unit = Plain => ~d[b].concealed
Shown(d) == \A b \in 0..Portion - 1 : d[b].unit = Plain /\ ~d[b].concealed

(* A job works for a backup header, until a decryption erases it.          *)
HeaderThere ==
  /\ pc \in (AreaInUse \ {"finish"}) \cup {"unflip"} => backup # NoHeader
  /\ pc = "finish" => IF direction = "encrypt" THEN backup.length = DataSize /\ area.length = DataSize
                      ELSE backup = NoHeader /\ ~changed
  /\ pc = "closing" /\ changed => backup # NoHeader
  /\ pc \in {"writeBackup", "conceal"} => direction = "encrypt"

(* A job that succeeds leaves a complete volume, or none.                  *)
Complete == backup = NoHeader \/ backup.length = DataSize
Done ==
  /\ pc = "idle" /\ result = "success" => Complete
  /\ pc = "closing" /\ outcome = "success" =>
       Complete /\ (changed => backup # NoHeader /\ area.length = DataSize)

(* What is plain of the start is concealed while there is a header, from   *)
(* the conceal step to the reveal step.                                    *)
Concealing ==
  /\ pc \in {"writeBackup", "conceal"} => Shown(disk)
  /\ pc = "unflip" /\ direction = "encrypt" => Shown(buf)
  /\ ~toggled =>
       /\ pc = "unflip" /\ direction = "decrypt" => Hidden(buf)
       /\ pc \in {"record", "open", "writePrimary", "reveal"} \cup BetweenChunks \cup InChunk =>
            Hidden(disk)
       /\ pc \in {"zero", "zeroBackup"} => Revealed(disk)
       /\ pc = "idle" => IF backup = NoHeader THEN Revealed(disk) ELSE Hidden(disk)
       /\ pc = "finish" => IF direction = "encrypt" THEN Hidden(disk) ELSE Revealed(disk)
       /\ pc = "closing" => IF backup = NoHeader THEN Revealed(disk)
                            ELSE changed \/ backup.length > 0 => Hidden(disk)

(* The cell that holds the buffer's copy of data unit p.                   *)
InBuffer(p) == IF direction = "encrypt" THEN buf[p - (Edge - Size)] ELSE buf[p - Edge]

Using == pc \in AreaInUse \/ (pc = "closing" /\ changed)
InArea(p) == p >= Frontier(backup) \/ (Using /\ p >= Edge)

(* Encrypted, the start is as the file system has it; what comes out of    *)
(* the buffer is concealed or not as its new place calls for.              *)
StartRight ==
  ~toggled => \A p \in 0..Portion - 1 :
    /\ InArea(p) /\ disk[p + Offset].unit = p + Offset => ~disk[p + Offset].concealed
    /\ pc \in InChunk /\ InWork(p) =>
         IF direction = "encrypt" THEN InBuffer(p).unit = p + Offset => ~InBuffer(p).concealed
         ELSE InBuffer(p).unit = Plain => InBuffer(p).concealed

(* Encryption leaves nothing plain in the buffer, decryption no data unit. *)
BufferUnits ==
  pc \in InChunk => \A i \in DOMAIN buf :
    IF direction = "encrypt" THEN buf[i].unit # Plain ELSE buf[i].unit < 0

(* A job that is not over is counted, unless it has not begun or is done.  *)
Recorded ==
  ~crashed /\ ~toggled =>
    /\ pc = "idle" => pending > 0 \/ Complete
    /\ pc \in {"open"} \cup AreaInUse => pending > 0
    /\ pc = "unflip" /\ direction = "decrypt" => pending > 0
    /\ pc = "closing" => \/ pending > 0
                         \/ Complete /\ (changed => area.length = DataSize)
                         \/ backup.length = 0 /\ ~changed /\ Shown(disk)

(* Beyond the start nothing is ever concealed, ...                         *)
Beyond ==
  \A p \in Portion..DataSize - 1 :
    /\ disk[p].unit = Plain => ~disk[p].concealed
    /\ disk[p + Offset].unit = p + Offset => ~disk[p + Offset].concealed
    /\ pc \in InChunk /\ InWork(p) =>
         (InBuffer(p).unit \in {Plain, p + Offset} => ~InBuffer(p).concealed)

(* ... provided that no chunk begins within it: frontiers move by whole    *)
(* chunks, from the start or from the end.                                 *)
Multiple(n) == \E k \in Nat : n = k * Chunk
Aligned(f) == Multiple(f) \/ Multiple(DataSize - f)
EdgesAligned == Aligned(Frontier(backup)) /\ (Using => Aligned(Edge))
PortionInOneChunk == \A n \in 1..Portion - 1 : ~Multiple(DataSize - n)

ConcealInv == HeaderThere /\ Done /\ Concealing /\ BufferUnits /\ StartRight
              /\ Recorded

(* Where the closing sequence leaves the frontier of the header.           *)
Closed == IF changed THEN Edge ELSE Frontier(backup)

(* One error of an encryption leaves all data in its place, as seen from   *)
(* there.                                                                  *)
ErrorInv ==
  /\ pc \in {"undo", "unflip"} => errors > 0
  /\ pc = "closing" /\ outcome = "error" =>
       /\ errors > 0
       /\ direction = "encrypt" /\ errors = 1 => \A p \in Kept : Intact(disk, Closed, p)
  /\ pc \in BetweenChunks \cup InChunk /\ ~changed => distance = 0

-----------------------------------------------------------------------------
(* Encrypting and decrypting do not conceal, flipping does.                *)
LEMMA CellFacts ==
  ASSUME NEW c \in Content, NEW u \in Blocks
  PROVE  /\ Encrypt(c, u).unit # Plain
         /\ Encrypt(c, u).unit = u =>
              c.unit = Plain /\ (Encrypt(c, u).concealed <=> c.concealed)
         /\ Decrypt(c, u).unit < 0
         /\ Decrypt(c, u).unit = Plain =>
              c.unit = u /\ (Decrypt(c, u).concealed <=> c.concealed)
         /\ Flip(c).unit # Plain => Flip(c) = Garbage
         /\ Flip(c).unit = Plain => c.unit = Plain /\ (Flip(c).concealed <=> ~c.concealed)
         /\ c.unit = Plain => Flip(c).unit = Plain
         /\ ~Garbage.concealed /\ Garbage.unit # Plain /\ Garbage.unit < 0
         /\ u >= 0
<1>1. u \in Nat /\ Garbage.unit = -2 /\ ~Garbage.concealed /\ Plain = -1
  BY Sizes DEF Blocks, Garbage, Plain
<1>2. /\ Encrypt(c, u).unit # Plain
      /\ Encrypt(c, u).unit = u =>
           c.unit = Plain /\ (Encrypt(c, u).concealed <=> c.concealed)
  <2>1. CASE c.unit = Plain
    <3>1. c # Garbage
      BY <2>1, <1>1
    <3>2. Encrypt(c, u).unit = u /\ (Encrypt(c, u).concealed <=> c.concealed)
      BY <2>1, <3>1 DEF Encrypt, Content
    <3> QED
      BY <2>1, <3>2, <1>1
  <2>2. CASE c.unit # Plain
    BY <2>2, <1>1 DEF Encrypt
  <2> QED
    BY <2>1, <2>2
<1>3. /\ Decrypt(c, u).unit < 0
      /\ Decrypt(c, u).unit = Plain =>
           c.unit = u /\ (Decrypt(c, u).concealed <=> c.concealed)
  <2>1. CASE c.unit = u
    <3>1. c # Garbage
      BY <2>1, <1>1
    <3>2. Decrypt(c, u).unit = Plain /\ (Decrypt(c, u).concealed <=> c.concealed)
      BY <2>1, <3>1 DEF Decrypt, Content
    <3> QED
      BY <2>1, <3>2, <1>1
  <2>2. CASE c.unit # u
    BY <2>2, <1>1 DEF Decrypt
  <2> QED
    BY <2>1, <2>2
<1>4. CASE c.unit = Plain
  <2>1. c # Garbage
    BY <1>4, <1>1
  <2>2. Flip(c).unit = Plain /\ (Flip(c).concealed <=> ~c.concealed)
    BY <1>4, <2>1 DEF Flip, Content
  <2> QED
    BY <1>1, <1>2, <1>3, <1>4, <2>2
<1>5. CASE c.unit # Plain
  <2>1. Flip(c) = Garbage
    BY <1>5 DEF Flip
  <2> QED
    BY <1>1, <1>2, <1>3, <1>5, <2>1
<1> QED
  BY <1>4, <1>5

(* The buffer holds the data units that are in work.                       *)
LEMMA BufferFacts ==
  ASSUME ControlInv, ContentInv, pc \in InChunk
  PROVE  /\ TypeOK /\ Shape /\ direction \in {"encrypt", "decrypt"}
         /\ Edge \in Nat /\ Edge <= DataSize /\ Size \in Nat /\ Size > 0
         /\ DOMAIN buf = 0..Size - 1 /\ \A i \in 0..Size - 1 : buf[i] \in Content
         /\ direction = "encrypt" =>
              /\ Size <= Edge /\ To = Edge - Size + Offset /\ UnitNo = To
              /\ \A i \in 0..Size - 1 : buf[i] = InBuffer(Edge - Size + i) /\ InWork(Edge - Size + i)
         /\ direction = "decrypt" =>
              /\ Edge + Size <= DataSize /\ To = Edge
              /\ \A i \in 0..Size - 1 : buf[i] = InBuffer(Edge + i) /\ InWork(Edge + i)
<1>1. pc \in AreaInUse
  BY DEF AreaInUse
<1>2. /\ TypeOK /\ Shape /\ direction \in {"encrypt", "decrypt"}
      /\ Edge \in Nat /\ Edge <= DataSize /\ Size \in Nat /\ Size > 0
      /\ DOMAIN buf = 0..Size - 1
  BY <1>1, WorkFacts, ChunkFacts, Sizes DEF Shape
<1>3. \A i \in 0..Size - 1 : buf[i] \in Content
  BY <1>2 DEF TypeOK
<1>4. ASSUME direction = "encrypt"
      PROVE  /\ Size <= Edge /\ To = Edge - Size + Offset /\ UnitNo = To
             /\ \A i \in 0..Size - 1 : buf[i] = InBuffer(Edge - Size + i) /\ InWork(Edge - Size + i)
  <2>1. Size <= Edge /\ To = Edge - Size + Offset /\ UnitNo = To
    BY <1>1, <1>2, <1>4, WorkFacts, ChunkFacts, Sizes
  <2>2. ASSUME NEW i \in 0..Size - 1
        PROVE  buf[i] = InBuffer(Edge - Size + i) /\ InWork(Edge - Size + i)
    <3>1. /\ (Edge - Size + i) - (Edge - Size) = i
          /\ Edge - Size <= Edge - Size + i /\ Edge - Size + i < Edge
      BY <1>2
    <3>2. InBuffer(Edge - Size + i) = buf[(Edge - Size + i) - (Edge - Size)]
      BY <1>4 DEF InBuffer
    <3>3. InWork(Edge - Size + i)
      BY <1>4, <3>1 DEF InWork
    <3> QED
      BY <3>1, <3>2, <3>3
  <2> QED
    BY <2>1, <2>2
<1>5. ASSUME direction = "decrypt"
      PROVE  /\ Edge + Size <= DataSize /\ To = Edge
             /\ \A i \in 0..Size - 1 : buf[i] = InBuffer(Edge + i) /\ InWork(Edge + i)
  <2>1. Edge + Size <= DataSize /\ To = Edge
    BY <1>1, <1>2, <1>5, WorkFacts, ChunkFacts, Sizes
  <2>2. ASSUME NEW i \in 0..Size - 1
        PROVE  buf[i] = InBuffer(Edge + i) /\ InWork(Edge + i)
    <3>1. (Edge + i) - Edge = i /\ Edge <= Edge + i /\ Edge + i < Edge + Size
      BY <1>2
    <3>2. InBuffer(Edge + i) = buf[(Edge + i) - Edge]
      BY <1>5 DEF InBuffer
    <3>3. InWork(Edge + i)
      BY <1>5, <3>1 DEF InWork
    <3> QED
      BY <3>1, <3>2, <3>3
  <2> QED
    BY <2>1, <2>2
<1> QED
  BY <1>2, <1>3, <1>4, <1>5

(* Plain data that a write leaves behind was there already, or is what a   *)
(* decryption, or the undoing of an encryption, puts in its place.         *)
LEMMA PlainWritten ==
  ASSUME ControlInv, ContentInv, BufferUnits, WriteAll \/ WritePart,
         pc \notin {"conceal", "reveal", "unflip"}, NEW p \in Data, disk'[p].unit = Plain
  PROVE  \/ disk'[p] = disk[p]
         \/ pc = "write" /\ direction = "decrypt" /\ InWork(p) /\ disk'[p] = InBuffer(p)
         \/ /\ pc = "undo" /\ direction = "encrypt" /\ InWork(p) /\ p >= Offset
            /\ disk'[p] = Decrypt(InBuffer(p), p + Offset)
<1>1. PICK B \in SUBSET DOMAIN NewBlocks :
        \A b \in Blocks : disk'[b] = IF b \in B THEN NewBlocks[b] ELSE disk[b]
  BY DeviceTyped DEF ControlInv, ToolsTypeOK
<1>2. p \in Int /\ 0 <= p /\ p < DataSize /\ p \in Blocks /\ Garbage.unit # Plain
  BY Sizes DEF Data, Blocks, Garbage, Plain
<1>3. CASE p \notin B
  BY <1>1, <1>2, <1>3
<1>4. CASE p \in B
  <2>1. p \in DOMAIN NewBlocks /\ disk'[p] = NewBlocks[p]
    BY <1>1, <1>2, <1>4
  <2>2. CASE pc = "write"
    <3>1. pc \in InChunk
      BY <2>2 DEF InChunk
    <3>2. NewBlocks = [b \in Span(To, Size) |->
                         IF direction = "encrypt" /\ pass <= WipePasses
                         THEN Garbage ELSE buf[b - To]]
      BY <2>2 DEF NewBlocks
    <3>3. disk'[p] = buf[p - To] /\ p \in Span(To, Size)
      BY <2>1, <3>2, <1>2
    <3>4. To \in Int /\ Size \in Nat
      BY <3>1, BufferFacts, Sizes
    <3>5. p - To \in 0..Size - 1 /\ To + (p - To) = p
      BY <3>3, <3>4, <1>2 DEF Span
    <3>6. direction = "decrypt"
      BY <3>1, <3>3, <3>5, <1>2, BufferFacts DEF BufferUnits
    <3>7. buf[p - Edge] = InBuffer(Edge + (p - Edge)) /\ InWork(Edge + (p - Edge)) /\ To = Edge
      BY <3>1, <3>5, <3>6, BufferFacts
    <3>8. Edge + (p - Edge) = p
      BY <3>1, <1>2, BufferFacts
    <3> QED
      BY <2>2, <3>3, <3>6, <3>7, <3>8
  <2>3. CASE pc = "undo"
    <3>1. pc \in InChunk /\ direction = "encrypt"
      BY <2>3, BufferFacts DEF InChunk, Shape
    <3>2. NewBlocks = [b \in Span(To, Size - Offset) |->
                         Decrypt(buf[b - To + Offset], UnitNo + b - To + Offset)]
      BY <2>3 DEF NewBlocks
    <3>3. /\ To = Edge - Size + Offset /\ UnitNo = To
          /\ Edge \in Int /\ Size \in Int /\ Size <= Edge
      BY <3>1, BufferFacts
    <3>4. p \in Span(To, Size - Offset)
      BY <2>1, <3>2
    <3>5. disk'[p] = Decrypt(buf[p - To + Offset], UnitNo + p - To + Offset)
      BY <2>1, <3>2, <3>4
    <3>6. /\ p - To + Offset = p - (Edge - Size) /\ UnitNo + p - To + Offset = p + Offset
          /\ p - (Edge - Size) \in 0..Size - 1 /\ p >= Offset
      BY <3>3, <3>4, <1>2, Sizes DEF Span
    <3>7. /\ buf[p - (Edge - Size)] = InBuffer(Edge - Size + (p - (Edge - Size)))
          /\ InWork(Edge - Size + (p - (Edge - Size)))
      BY <3>1, <3>6, BufferFacts
    <3>8. Edge - Size + (p - (Edge - Size)) = p
      BY <3>3, <1>2
    <3> QED
      BY <2>3, <3>1, <3>5, <3>6, <3>7, <3>8
  <2>4. CASE pc \in {"writePrimary", "zero"}
    <3>1. NewBlocks[p] = Garbage
      BY <2>1, <2>4 DEF NewBlocks
    <3> QED
      BY <2>1, <3>1, <1>2
  <2>5. CASE pc \notin {"write", "undo", "writePrimary", "zero"}
    <3>1. NewBlocks = Empty
      BY <2>5 DEF NewBlocks
    <3> QED
      BY <2>1, <3>1 DEF Empty
  <2> QED
    BY <2>2, <2>3, <2>4, <2>5
<1> QED
  BY <1>3, <1>4

(* A data unit in its place was there already, or an encryption puts it    *)
(* there.                                                                  *)
LEMMA EncryptedWritten ==
  ASSUME ControlInv, ContentInv, BufferUnits, WriteAll \/ WritePart,
         NEW p \in Data, disk'[p + Offset].unit = p + Offset
  PROVE  \/ disk'[p + Offset] = disk[p + Offset]
         \/ /\ pc = "write" /\ direction = "encrypt" /\ InWork(p)
            /\ disk'[p + Offset] = InBuffer(p)
<1>1. PICK B \in SUBSET DOMAIN NewBlocks :
        \A b \in Blocks : disk'[b] = IF b \in B THEN NewBlocks[b] ELSE disk[b]
  BY DeviceTyped DEF ControlInv, ToolsTypeOK
<1>2. /\ p \in Int /\ 0 <= p /\ p + Offset \in Blocks /\ p + Offset >= Offset
      /\ Garbage.unit # p + Offset
  BY Sizes DEF Data, Blocks, Garbage
<1>3. CASE p + Offset \notin B
  BY <1>1, <1>2, <1>3
<1>4. CASE p + Offset \in B
  <2>1. p + Offset \in DOMAIN NewBlocks /\ disk'[p + Offset] = NewBlocks[p + Offset]
    BY <1>1, <1>2, <1>4
  <2>2. CASE pc = "write"
    <3>1. pc \in InChunk
      BY <2>2 DEF InChunk
    <3>2. NewBlocks = [b \in Span(To, Size) |->
                         IF direction = "encrypt" /\ pass <= WipePasses
                         THEN Garbage ELSE buf[b - To]]
      BY <2>2 DEF NewBlocks
    <3> DEFINE q == p + Offset
    <3>10. q \in Span(To, Size) /\ disk'[q] = NewBlocks[q] /\ disk'[q].unit = q
      BY <2>1, <3>2
    <3>12. Garbage.unit # q
      BY <1>2
    <3> HIDE DEF q
    <3>11. disk'[q] = buf[q - To]
      BY <3>2, <3>10, <3>12
    <3>3. disk'[p + Offset] = buf[(p + Offset) - To] /\ p + Offset \in Span(To, Size)
      <4>1. q - To = (p + Offset) - To
        BY DEF q
      <4> QED
        BY <3>10, <3>11, <4>1 DEF q
    <3>4. To \in Int /\ Size \in Nat
      BY <3>1, BufferFacts, Sizes
    <3>5. (p + Offset) - To \in 0..Size - 1
      BY <3>3, <3>4, <1>2, Sizes DEF Span
    <3>6. direction = "encrypt"
      BY <3>1, <3>3, <3>5, <1>2, BufferFacts, Sizes DEF BufferUnits
    <3>7. To = Edge - Size + Offset /\ Edge \in Int /\ Size \in Int
      BY <3>1, <3>6, BufferFacts
    <3>8. /\ (p + Offset) - To = p - (Edge - Size)
          /\ Edge - Size + (p - (Edge - Size)) = p
      BY <3>7, <1>2, Sizes
    <3>9. buf[p - (Edge - Size)] = InBuffer(p) /\ InWork(p)
      BY <3>1, <3>5, <3>6, <3>8, BufferFacts
    <3> QED
      BY <2>2, <3>3, <3>6, <3>8, <3>9
  <2>3. CASE pc = "undo"
    <3>1. pc \in InChunk /\ direction = "encrypt"
      BY <2>3, BufferFacts DEF InChunk, Shape
    <3>2. NewBlocks = [b \in Span(To, Size - Offset) |->
                         Decrypt(buf[b - To + Offset], UnitNo + b - To + Offset)]
      BY <2>3 DEF NewBlocks
    <3>3. To = Edge - Size + Offset /\ UnitNo = To /\ Edge \in Int /\ Size \in Int
      BY <3>1, BufferFacts
    <3> DEFINE q == p + Offset
    <3>5. q \in Span(To, Size - Offset) /\ q \in Int
      BY <2>1, <3>2, <1>2, Sizes
    <3>6. disk'[q] = Decrypt(buf[q - To + Offset], UnitNo + q - To + Offset)
      BY <2>1, <3>2, <3>5
    <3>7. q - To + Offset \in 0..Size - 1 /\ UnitNo + q - To + Offset = q + Offset
      BY <3>3, <3>5, <1>2, Sizes DEF Span
    <3>8. buf[q - To + Offset] \in Content /\ q + Offset \in Blocks
      <4>1. buf[q - To + Offset] \in Content
        BY <3>1, <3>7, BufferFacts
      <4>2. q + Offset \in Blocks
        BY <3>1, <3>3, <3>5, BufferFacts, Sizes DEF Blocks, Span
      <4> QED
        BY <4>1, <4>2
    <3>9. disk'[q].unit < 0
      BY <3>6, <3>7, <3>8, CellFacts
    <3> QED
      BY <3>9, <1>2, Sizes
  <2>4. CASE pc \in {"conceal", "reveal", "unflip"}
    <3>1. DOMAIN NewBlocks = 0..Portion - 1
      BY <2>4 DEF NewBlocks
    <3> QED
      BY <2>1, <3>1, <1>2, Sizes
  <2>5. CASE pc \in {"writePrimary", "zero"}
    <3>1. NewBlocks[p + Offset] = Garbage
      BY <2>1, <2>5 DEF NewBlocks
    <3> QED
      BY <2>1, <3>1, <1>2
  <2>6. CASE pc \notin {"write", "undo", "writePrimary", "zero", "conceal", "reveal", "unflip"}
    <3>1. NewBlocks = Empty
      BY <2>6 DEF NewBlocks
    <3> QED
      BY <2>1, <3>1 DEF Empty
  <2> QED
    BY <2>2, <2>3, <2>4, <2>5, <2>6
<1> QED
  BY <1>3, <1>4

(* A chunk read and turned: what it leaves in the buffer, and that the     *)
(* start of the file system, and nothing else, changes between concealed   *)
(* and in the open, unless the chunk begins within the start.              *)
LEMMA Turned ==
  ASSUME ControlInv, ContentInv, pc = "read", NEW cells \in [Blocks -> Content],
         NEW i \in 0..Size - 1
  PROVE  /\ direction = "encrypt" =>
              /\ Edge - Size + i \in Data
              /\ Transformed(cells)[i].unit # Plain
              /\ Transformed(cells)[i].unit = Edge - Size + i + Offset =>
                   /\ cells[Edge - Size + i].unit = Plain
                   /\ Transformed(cells)[i].concealed <=>
                        IF Edge - Size + i < Portion
                        THEN ~cells[Edge - Size + i].concealed
                        ELSE cells[Edge - Size + i].concealed
         /\ direction = "decrypt" =>
              /\ Edge + i \in Data
              /\ Transformed(cells)[i].unit < 0
              /\ Transformed(cells)[i].unit = Plain =>
                   /\ cells[Edge + i + Offset].unit = Edge + i + Offset
                   /\ Edge + i < Portion =>
                        (Transformed(cells)[i].concealed <=> ~cells[Edge + i + Offset].concealed)
                   /\ Edge + i >= Portion /\ Edge \notin 1..Portion - 1 =>
                        (Transformed(cells)[i].concealed <=> cells[Edge + i + Offset].concealed)
<1>1. pc \in AreaInUse
  BY DEF AreaInUse, BetweenChunks
<1>2. /\ TypeOK /\ Shape /\ direction \in {"encrypt", "decrypt"}
      /\ Edge \in Nat /\ Edge <= DataSize /\ Size \in Nat
      /\ direction = "encrypt" =>
           Size <= Edge /\ remaining = Edge /\ From = Edge - Size /\ UnitNo = From + Offset
      /\ direction = "decrypt" => Edge + Size <= DataSize /\ From = Edge + Offset /\ UnitNo = From
  BY <1>1, WorkFacts, ChunkFacts, Sizes
<1>3. i \in Span(0, Size) /\ i \in Int /\ i >= 0 /\ i < Size
  BY <1>2 DEF Span
<1>4. ASSUME direction = "encrypt"
      PROVE  /\ Edge - Size + i \in Data
             /\ Transformed(cells)[i].unit # Plain
             /\ Transformed(cells)[i].unit = Edge - Size + i + Offset =>
                  /\ cells[Edge - Size + i].unit = Plain
                  /\ Transformed(cells)[i].concealed <=>
                       IF Edge - Size + i < Portion
                       THEN ~cells[Edge - Size + i].concealed
                       ELSE cells[Edge - Size + i].concealed
  <2> DEFINE p == Edge - Size + i
  <2>1. /\ p \in Data /\ p \in Blocks /\ p + Offset \in Blocks
        /\ From + i = p /\ UnitNo + i = p + Offset
        /\ i < Portion - (remaining - Size) <=> p < Portion
    BY <1>2, <1>3, <1>4, Sizes DEF Data, Blocks
  <2>2. Transformed(cells)[i] = Encrypt(Uncover(i, cells[p]), p + Offset)
    BY <1>3, <1>4, <2>1 DEF Transformed
  <2>3. Uncover(i, cells[p]) = IF p < Portion THEN Flip(cells[p]) ELSE cells[p]
    BY <2>1 DEF Uncover
  <2> HIDE DEF p
  <2>4. cells[p] \in Content /\ Flip(cells[p]) \in Content
    BY <2>1, ContentFacts
  <2>5. CASE p < Portion
    <3>1. Transformed(cells)[i] = Encrypt(Flip(cells[p]), p + Offset)
      BY <2>2, <2>3, <2>5
    <3>2. /\ Transformed(cells)[i].unit # Plain
          /\ Transformed(cells)[i].unit = p + Offset =>
               /\ Flip(cells[p]).unit = Plain
               /\ Transformed(cells)[i].concealed <=> Flip(cells[p]).concealed
      BY <2>1, <2>4, <3>1, CellFacts
    <3>3. Flip(cells[p]).unit = Plain =>
            cells[p].unit = Plain /\ (Flip(cells[p]).concealed <=> ~cells[p].concealed)
      BY <2>1, <2>4, CellFacts
    <3> QED
      BY <2>1, <2>5, <3>2, <3>3 DEF p
  <2>6. CASE ~(p < Portion)
    <3>1. Transformed(cells)[i] = Encrypt(cells[p], p + Offset)
      BY <2>2, <2>3, <2>6
    <3>2. /\ Transformed(cells)[i].unit # Plain
          /\ Transformed(cells)[i].unit = p + Offset =>
               /\ cells[p].unit = Plain
               /\ Transformed(cells)[i].concealed <=> cells[p].concealed
      BY <2>1, <2>4, <3>1, CellFacts
    <3> QED
      BY <2>1, <2>6, <3>2 DEF p
  <2> QED
    BY <2>5, <2>6
<1>5. ASSUME direction = "decrypt"
      PROVE  /\ Edge + i \in Data
             /\ Transformed(cells)[i].unit < 0
             /\ Transformed(cells)[i].unit = Plain =>
                  /\ cells[Edge + i + Offset].unit = Edge + i + Offset
                  /\ Edge + i < Portion =>
                       (Transformed(cells)[i].concealed <=> ~cells[Edge + i + Offset].concealed)
                  /\ Edge + i >= Portion /\ Edge \notin 1..Portion - 1 =>
                       (Transformed(cells)[i].concealed <=> cells[Edge + i + Offset].concealed)
  <2> DEFINE q == Edge + i + Offset
             c == Decrypt(cells[q], q)
  <2>1. /\ Edge + i \in Data /\ q \in Blocks
        /\ From + i = q /\ UnitNo + i = q /\ From - Offset = Edge
    BY <1>2, <1>3, <1>5, Sizes DEF Data, Blocks
  <2>2. Transformed(cells)[i] = Cover(i, c)
    BY <1>3, <1>5, <2>1 DEF Transformed
  <2>3. /\ Edge + i < Portion => Edge < Portion /\ i < Smaller(Portion, Edge + Size)
        /\ Edge + i >= Portion /\ Edge \notin 1..Portion - 1 =>
             ~(Edge < Portion /\ i < Smaller(Portion, Edge + Size))
    BY <1>2, <1>3, Sizes DEF Smaller
  <2>4. Cover(i, c) = IF Edge < Portion /\ i < Smaller(Portion, Edge + Size)
                      THEN Flip(c) ELSE c
    BY <2>1 DEF Cover
  <2> HIDE DEF q
  <2>5. cells[q] \in Content /\ c \in Content
    BY <2>1, ContentFacts
  <2>6. /\ c.unit < 0
        /\ c.unit = Plain => cells[q].unit = q /\ (c.concealed <=> cells[q].concealed)
    BY <2>1, <2>5, CellFacts
  <2> HIDE DEF c
  <2>7. /\ Flip(c).unit # Plain => Flip(c) = Garbage
        /\ Flip(c).unit = Plain => c.unit = Plain /\ (Flip(c).concealed <=> ~c.concealed)
    <3>1. 0 \in Blocks
      BY Sizes DEF Blocks
    <3> QED
      BY <2>5, <3>1, CellFacts
  <2>8. Flip(c).unit < 0
    BY <2>7 DEF Garbage, Plain
  <2>9. CASE Edge < Portion /\ i < Smaller(Portion, Edge + Size)
    <3>1. Transformed(cells)[i] = Flip(c)
      BY <2>2, <2>4, <2>9
    <3> QED
      BY <2>1, <2>3, <2>6, <2>7, <2>8, <2>9, <3>1 DEF q
  <2>10. CASE ~(Edge < Portion /\ i < Smaller(Portion, Edge + Size))
    <3>1. Transformed(cells)[i] = c
      BY <2>2, <2>4, <2>10
    <3> QED
      BY <2>1, <2>3, <2>6, <2>10, <3>1 DEF q
  <2> QED
    BY <2>9, <2>10
<1> QED
  BY <1>4, <1>5

(* Concealing and revealing write the start of the partition only.         *)
LEMMA ToggleBlocks ==
  ASSUME ControlInv, WriteAll \/ WritePart, pc \in {"conceal", "reveal", "unflip"},
         NEW b \in Blocks, b \notin 0..Portion - 1
  PROVE  disk'[b] = disk[b]
<1>1. PICK B \in SUBSET DOMAIN NewBlocks :
        \A c \in Blocks : disk'[c] = IF c \in B THEN NewBlocks[c] ELSE disk[c]
  BY DeviceTyped DEF ControlInv, ToolsTypeOK
<1>2. DOMAIN NewBlocks = 0..Portion - 1
  BY DEF NewBlocks
<1> QED
  BY <1>1, <1>2

(* These steps write headers only.                                         *)
LEMMA HeaderOnly ==
  ASSUME ControlInv, WriteAll \/ WritePart,
         pc \notin {"conceal", "reveal", "unflip", "write", "undo", "writePrimary", "zero"},
         NEW b \in Blocks
  PROVE  disk'[b] = disk[b]
<1>1. PICK B \in SUBSET DOMAIN NewBlocks :
        \A c \in Blocks : disk'[c] = IF c \in B THEN NewBlocks[c] ELSE disk[c]
  BY DeviceTyped DEF ControlInv, ToolsTypeOK
<1>2. NewBlocks = Empty
  BY DEF NewBlocks
<1> QED
  BY <1>1, <1>2 DEF Empty

(* What writes do to the start of the file system, plain or encrypted.     *)
LEMMA StartWritten ==
  ASSUME ControlInv, ContentInv, BufferUnits, StartRight, ~toggled, WriteAll \/ WritePart
  PROVE  /\ pc \notin {"conceal", "reveal", "unflip"} /\ Hidden(disk) => Hidden(disk')
         /\ pc \notin {"conceal", "reveal", "unflip", "write"} /\ Revealed(disk) => Revealed(disk')
         /\ \A p \in 0..Portion - 1 :
              InArea(p) /\ disk'[p + Offset].unit = p + Offset => ~disk'[p + Offset].concealed
<1>1. \A p \in 0..Portion - 1 : p \in Data /\ p \in Int /\ ~(p >= Offset) /\ p + Offset \in Blocks
  BY Sizes DEF Data, Blocks
<1>2. ASSUME NEW p \in 0..Portion - 1, pc \notin {"conceal", "reveal", "unflip"},
             disk'[p].unit = Plain
      PROVE  \/ disk'[p] = disk[p]
             \/ pc = "write" /\ disk'[p].concealed
  <2>1. \/ disk'[p] = disk[p]
        \/ pc = "write" /\ direction = "decrypt" /\ InWork(p) /\ disk'[p] = InBuffer(p)
    BY <1>1, <1>2, PlainWritten
  <2>2. CASE pc = "write" /\ direction = "decrypt" /\ InWork(p) /\ disk'[p] = InBuffer(p)
    <3>1. InBuffer(p).unit = Plain => InBuffer(p).concealed
      BY <1>2, <2>2 DEF StartRight, InChunk
    <3> QED
      BY <1>2, <2>2, <3>1
  <2> QED
    BY <2>1, <2>2
<1>3. pc \notin {"conceal", "reveal", "unflip"} /\ Hidden(disk) => Hidden(disk')
  BY <1>2 DEF Hidden
<1>4. pc \notin {"conceal", "reveal", "unflip", "write"} /\ Revealed(disk) => Revealed(disk')
  BY <1>2 DEF Revealed
<1>5. ASSUME NEW p \in 0..Portion - 1, InArea(p), disk'[p + Offset].unit = p + Offset
      PROVE  ~disk'[p + Offset].concealed
  <2>1. \/ disk'[p + Offset] = disk[p + Offset]
        \/ /\ pc = "write" /\ direction = "encrypt" /\ InWork(p)
           /\ disk'[p + Offset] = InBuffer(p)
    BY <1>1, <1>5, EncryptedWritten
  <2>2. CASE disk'[p + Offset] = disk[p + Offset]
    BY <1>5, <2>2 DEF StartRight
  <2>3. CASE /\ pc = "write" /\ direction = "encrypt" /\ InWork(p)
             /\ disk'[p + Offset] = InBuffer(p)
    <3>1. InBuffer(p).unit = p + Offset => ~InBuffer(p).concealed
      BY <2>3 DEF StartRight, InChunk
    <3> QED
      BY <1>5, <2>3, <3>1
  <2> QED
    BY <2>1, <2>2, <2>3
<1> QED
  BY <1>3, <1>4, <1>5

(* The last pass over a chunk being encrypted writes all of it.            *)
LEMMA WholeChunk ==
  ASSUME ControlInv, ContentInv, pc = "write", direction = "encrypt", pass > WipePasses,
         WriteAll, NEW p \in Data, InWork(p)
  PROVE  disk'[p + Offset] = InBuffer(p)
<1>1. pc \in InChunk
  BY DEF InChunk
<1>2. /\ To = Edge - Size + Offset /\ Edge \in Int /\ Size \in Int /\ Edge <= DataSize
      /\ Size <= Edge /\ pass \in Int
  BY <1>1, BufferFacts, Sizes DEF TypeOK
<1>3. NewBlocks = [b \in Span(To, Size) |->
                     IF direction = "encrypt" /\ pass <= WipePasses THEN Garbage ELSE buf[b - To]]
  BY DEF NewBlocks
<1> DEFINE q == p + Offset
<1>4. q \in Span(To, Size) /\ q \in Blocks /\ q - To = p - (Edge - Size)
  BY <1>2, Sizes DEF Span, Blocks, Data, InWork
<1>5. InBuffer(p) = buf[p - (Edge - Size)]
  BY DEF InBuffer
<1>6. ~(pass <= WipePasses)
  BY <1>2, Sizes
<1> HIDE DEF q
<1>7. q \in DOMAIN NewBlocks /\ NewBlocks[q] = buf[q - To]
  BY <1>3, <1>4, <1>6
<1>8. disk'[q] = NewBlocks[q]
  BY <1>4, <1>7 DEF WriteAll, Write
<1> QED
  BY <1>4, <1>5, <1>7, <1>8 DEF q

(* What writes do beyond the start.                                        *)
LEMMA BeyondWritten ==
  ASSUME ControlInv, ContentInv, BufferUnits, Beyond, WriteAll \/ WritePart,
         NEW p \in Portion..DataSize - 1
  PROVE  /\ disk'[p].unit = Plain => ~disk'[p].concealed
         /\ disk'[p + Offset].unit = p + Offset => ~disk'[p + Offset].concealed
<1>1. /\ p \in Data /\ p \in Int /\ p \in Blocks /\ p + Offset \in Blocks /\ p \notin 0..Portion - 1
      /\ Plain = -1 /\ ~(-2 = p + Offset)
  BY Sizes DEF Data, Blocks, Plain
<1>2. /\ disk[p].unit = Plain => ~disk[p].concealed
      /\ disk[p + Offset].unit = p + Offset => ~disk[p + Offset].concealed
      /\ pc \in InChunk /\ InWork(p) =>
           (InBuffer(p).unit \in {Plain, p + Offset} => ~InBuffer(p).concealed)
  BY DEF Beyond
<1>3. ASSUME disk'[p].unit = Plain
      PROVE  ~disk'[p].concealed
  <2>1. CASE pc \in {"conceal", "reveal", "unflip"}
    BY <1>1, <1>2, <1>3, <2>1, ToggleBlocks
  <2>2. CASE pc \notin {"conceal", "reveal", "unflip"}
    <3>1. \/ disk'[p] = disk[p]
          \/ pc = "write" /\ direction = "decrypt" /\ InWork(p) /\ disk'[p] = InBuffer(p)
          \/ /\ pc = "undo" /\ direction = "encrypt" /\ InWork(p) /\ p >= Offset
             /\ disk'[p] = Decrypt(InBuffer(p), p + Offset)
      BY <1>1, <1>3, <2>2, PlainWritten
    <3>2. CASE disk'[p] = disk[p]
      BY <1>2, <1>3, <3>2
    <3>3. CASE pc = "write" /\ InWork(p) /\ disk'[p] = InBuffer(p)
      BY <1>2, <1>3, <3>3 DEF InChunk
    <3>4. CASE /\ pc = "undo" /\ direction = "encrypt" /\ InWork(p) /\ p >= Offset
               /\ disk'[p] = Decrypt(InBuffer(p), p + Offset)
      <4>1. pc \in InChunk
        BY <3>4 DEF InChunk
      <4>2. p - (Edge - Size) \in 0..Size - 1 /\ InBuffer(p) = buf[p - (Edge - Size)]
        <5>1. Edge \in Int /\ Size \in Int
          BY <4>1, BufferFacts
        <5> QED
          BY <3>4, <5>1, <1>1 DEF InBuffer, InWork
      <4>3. InBuffer(p) \in Content
        BY <4>1, <4>2, BufferFacts
      <4>4. /\ InBuffer(p).unit = p + Offset
            /\ Decrypt(InBuffer(p), p + Offset).concealed <=> InBuffer(p).concealed
        BY <1>1, <1>3, <3>4, <4>3, CellFacts
      <4> QED
        BY <1>2, <3>4, <4>1, <4>4
    <3> QED
      BY <3>1, <3>2, <3>3, <3>4
  <2> QED
    BY <2>1, <2>2
<1>4. ASSUME disk'[p + Offset].unit = p + Offset
      PROVE  ~disk'[p + Offset].concealed
  <2>1. \/ disk'[p + Offset] = disk[p + Offset]
        \/ /\ pc = "write" /\ direction = "encrypt" /\ InWork(p)
           /\ disk'[p + Offset] = InBuffer(p)
    BY <1>1, <1>4, EncryptedWritten
  <2> QED
    BY <1>2, <1>4, <2>1 DEF InChunk
<1> QED
  BY <1>3, <1>4

(* What writes do to the backup header.                                    *)
LEMMA BackupWritten ==
  ASSUME ControlInv, WriteAll \/ WritePart
  PROVE  /\ backup' \in Headers /\ (backup' # NoHeader => Fits(backup'))
         /\ pc \notin HeaderStep => backup' = backup
         /\ pc = "writeBackup" => backup'.length = 0 /\ (WriteAll => backup' # NoHeader)
         /\ pc = "zeroBackup" =>
              backup' \in {backup, NoHeader} /\ (WriteAll => backup' = NoHeader)
         /\ pc \in UpdateStep =>
              /\ backup' = backup \/ (backup' # NoHeader /\ backup'.length = area.length)
              /\ WriteAll => backup' # NoHeader /\ backup'.length = area.length
<1>1. /\ TypeOK /\ Shape /\ backup' \in {backup, NewBackup} /\ (WriteAll => backup' = NewBackup)
      /\ backup' \in Headers /\ (backup' # NoHeader => Fits(backup'))
  BY DeviceTyped DEF ControlInv, ToolsTypeOK
<1>2. CASE pc = "writeBackup"
  <2>1. backup.length = 0
    BY <1>2 DEF ControlInv, Agreement
  <2>2. NewBackup = Header([start |-> DataSize + Offset, length |-> 0], password)
    BY <1>2 DEF NewBackup, UpdateStep
  <2>3. NewBackup.length = 0 /\ NewBackup # NoHeader
    BY <2>2, Sizes DEF Header, NoHeader
  <2> QED
    BY <1>1, <1>2, <2>1, <2>3 DEF HeaderStep, UpdateStep
<1>3. CASE pc = "zeroBackup"
  <2>1. NewBackup = NoHeader
    BY <1>3 DEF NewBackup, UpdateStep
  <2> QED
    BY <1>1, <1>3, <2>1 DEF HeaderStep, UpdateStep
<1>4. CASE pc \in UpdateStep
  <2>1. pc \in {"update", "lastUpdate"} \/ (pc = "closing" /\ changed)
    BY <1>4 DEF UpdateStep
  <2>2. NewBackup # NoHeader /\ NewBackup.length = area.length
    BY <1>1, <2>1, BackupTyped
  <2> QED
    BY <1>1, <1>4, <2>1, <2>2 DEF HeaderStep
<1>5. CASE pc \notin HeaderStep
  BY <1>1, <1>5, BackupTyped DEF HeaderStep
<1> QED
  BY <1>2, <1>3, <1>4, <1>5 DEF HeaderStep

(* The end of a job finds a header, or none, for what the step was.        *)
LEMMA EndHeader ==
  ASSUME ControlInv, ContentInv, HeaderThere, pc # "idle", WriteAll \/ WritePart
  PROVE  /\ backup' = NoHeader => /\ pc \in {"writeBackup", "zeroBackup", "finish", "closing"}
                                  /\ pc \in {"finish", "closing"} => backup = NoHeader
                                  /\ pc = "finish" => direction = "decrypt"
         /\ backup'.length > 0 => /\ pc \in {"record", "open", "writePrimary", "finish", "closing"}
                                            \cup BetweenChunks \cup InChunk
                                  /\ pc = "finish" => direction = "encrypt"
                                  /\ pc = "closing" => backup.length > 0 \/ changed
<1>1. /\ pc \notin HeaderStep => backup' = backup
      /\ pc = "writeBackup" => backup'.length = 0
      /\ pc = "zeroBackup" => backup' \in {backup, NoHeader}
      /\ pc \in UpdateStep => backup' = backup \/ backup' # NoHeader
  BY BackupWritten
<1>2. /\ pc \in {"conceal", "record", "open"} => backup # NoHeader
      /\ direction \in {"encrypt", "decrypt"} /\ changed \in BOOLEAN
      /\ pc \in {"writeBackup", "conceal", "unflip", "record", "open", "read", "write", "undo",
                 "update", "next", "lastUpdate", "writePrimary", "reveal", "zero", "zeroBackup",
                 "finish", "closing"}
  BY DEF ControlInv, ToolsTypeOK, TypeOK, Shape
<1>3. /\ pc \in {"reveal", "zero", "zeroBackup", "conceal", "unflip"} => backup.length = 0
      /\ NoHeader.length = 0
  BY DEF ControlInv, Agreement, NoHeader, ContentInv, Bookkeeping
<1>4. /\ pc \in (AreaInUse \ {"finish"}) \cup {"unflip"} => backup # NoHeader
      /\ pc = "finish" /\ direction = "encrypt" => backup # NoHeader
      /\ pc = "finish" /\ direction = "decrypt" => backup = NoHeader
      /\ pc = "closing" /\ changed => backup # NoHeader
  <2>1. DataSize # 0 /\ NoHeader.length = 0
    BY Sizes DEF NoHeader
  <2> QED
    BY <2>1 DEF HeaderThere
<1>5. CASE pc \in UpdateStep
  <2>1. pc \in {"update", "lastUpdate"} \/ (pc = "closing" /\ changed)
    BY <1>5 DEF UpdateStep
  <2>2. backup' # NoHeader
    BY <1>1, <1>4, <1>5, <2>1 DEF AreaInUse, BetweenChunks
  <2> QED
    BY <2>1, <2>2 DEF BetweenChunks
<1>6. CASE pc \notin UpdateStep
  <2>1. ASSUME backup' = NoHeader
        PROVE  /\ pc \in {"writeBackup", "zeroBackup", "finish", "closing"}
               /\ pc \in {"finish", "closing"} => backup = NoHeader
               /\ pc = "finish" => direction = "decrypt"
    <3>1. CASE pc \in {"writeBackup", "zeroBackup"}
      BY <3>1
    <3>2. CASE pc \notin {"writeBackup", "zeroBackup"}
      <4>1. backup = NoHeader
        BY <1>1, <1>6, <2>1, <3>2 DEF HeaderStep
      <4> QED
        BY <1>2, <1>4, <3>2, <4>1 DEF AreaInUse, BetweenChunks, InChunk, AfterChunks
    <3> QED
      BY <3>1, <3>2
  <2>2. ASSUME backup'.length > 0
        PROVE  /\ pc \in {"record", "open", "writePrimary", "finish", "closing"}
                         \cup BetweenChunks \cup InChunk
               /\ pc = "finish" => direction = "encrypt"
               /\ pc = "closing" => backup.length > 0
    <3>1. backup' = backup
      BY <1>1, <1>3, <1>6, <2>2 DEF HeaderStep
    <3>2. backup.length > 0 /\ backup.length # 0
      BY <2>2, <3>1
    <3>3. pc \in {"record", "open", "writePrimary", "finish", "closing"} \cup BetweenChunks \cup InChunk
      BY <1>2, <1>3, <1>6, <2>2, <3>2, <1>1 DEF BetweenChunks, InChunk, HeaderStep
    <3>4. pc = "finish" => direction = "encrypt"
      BY <1>2, <1>3, <1>4, <3>2
    <3> QED
      BY <3>2, <3>3, <3>4
  <2> QED
    BY <2>1, <2>2
<1> QED
  BY <1>5, <1>6

(* When a job ends, by itself or in a crash, what is plain of the start is *)
(* concealed next to a header and in the open without one, but for the     *)
(* case that HalfConcealed names.                                          *)
LEMMA EndConcealed ==
  ASSUME ControlInv, ContentInv, ConcealInv, pc # "idle", WriteAll \/ WritePart,
         ~toggled, ~HalfConcealed(disk', backup')
  PROVE  IF backup' = NoHeader THEN Revealed(disk') ELSE Hidden(disk')
<1>1. HeaderThere /\ Concealing /\ BufferUnits /\ StartRight
  BY DEF ConcealInv
<1>2. backup' \in Headers /\ \A b \in 0..Portion - 1 : b \in Blocks
  BY BackupWritten, Sizes DEF Blocks
<1>3. ASSUME backup' = NoHeader
      PROVE  Revealed(disk')
  <2>1. Revealed(disk) /\ pc \in {"writeBackup", "zeroBackup", "finish", "closing"}
    <3>1. /\ pc \in {"writeBackup", "zeroBackup", "finish", "closing"}
          /\ pc \in {"finish", "closing"} => backup = NoHeader
          /\ pc = "finish" => direction = "decrypt"
      BY <1>1, <1>3, EndHeader
    <3>2. Shown(disk) => Revealed(disk)
      BY DEF Shown, Revealed
    <3> QED
      BY <1>1, <3>1, <3>2 DEF Concealing
  <2> QED
    BY <1>1, <2>1, StartWritten
<1>4. ASSUME backup' # NoHeader, backup'.length = 0
      PROVE  Hidden(disk')
  BY <1>4 DEF HalfConcealed, Hidden
<1>5. ASSUME backup'.length > 0
      PROVE  Hidden(disk')
  <2>1. /\ pc \in {"record", "open", "writePrimary", "finish", "closing"}
                     \cup BetweenChunks \cup InChunk
        /\ pc = "finish" => direction = "encrypt"
        /\ pc = "closing" => backup.length > 0 \/ changed
    BY <1>1, <1>5, EndHeader
  <2>2. pc = "closing" => backup # NoHeader
    BY <1>1, <2>1 DEF HeaderThere, NoHeader
  <2>3. Hidden(disk)
    BY <1>1, <2>1, <2>2 DEF Concealing
  <2>4. pc \notin {"conceal", "reveal", "unflip"}
    BY <2>1 DEF BetweenChunks, InChunk
  <2> QED
    BY <1>1, <2>3, <2>4, StartWritten
<1> QED
  BY <1>2, <1>3, <1>4, <1>5, HeaderFacts

(* Outside the chunks it is enough that the area has not grown.            *)
LEMMA StartAfter ==
  ASSUME ControlInv, ContentInv, ConcealInv, WriteAll \/ WritePart \/ UNCHANGED disk,
         ~toggled' => ~toggled, pc' \notin InChunk,
         \A p \in 0..Portion - 1 : InArea(p)' => InArea(p)
  PROVE  BufferUnits' /\ StartRight'
<1>1. BufferUnits'
  BY DEF BufferUnits
<1>2. ASSUME ~toggled', NEW p \in 0..Portion - 1, InArea(p)', disk'[p + Offset].unit = p + Offset
      PROVE  ~disk'[p + Offset].concealed
  <2>1. CASE WriteAll \/ WritePart
    BY <1>2, <2>1, StartWritten DEF ConcealInv
  <2>2. CASE UNCHANGED disk
    BY <1>2, <2>2 DEF ConcealInv, StartRight
  <2> QED
    BY <2>1, <2>2
<1>3. StartRight'
  BY <1>2 DEF StartRight
<1> QED
  BY <1>1, <1>3

(* The beginning of a job.                                                 *)
LEMMA BeginConceal ==
  ASSUME ControlInv, ContentInv, ConcealInv, Begin
  PROVE  ConcealInv'
<1> USE DEF deviceVars, jobVars, historyVars
<1>1. /\ pc = "idle" /\ UNCHANGED <<disk, backup, area, changed, outcome>>
      /\ TypeOK /\ Shape /\ ~changed /\ NoHeader.length = 0 /\ DataSize > 0
      /\ backup \in Headers /\ (backup # NoHeader => Fits(backup))
  BY Sizes DEF Begin, BeginEncryption, Resume, StartDecryption, BeginJob, ControlInv, ToolsTypeOK,
         TypeOK, Shape, Outside, NoHeader
<1>2. pc' \in {"writeBackup", "open"}
  BY DEF Begin, BeginEncryption, Resume, StartDecryption, BeginJob
<1>3. CASE \E w \in Passwords : BeginEncryption(w)
  <2>1. /\ pc' = "writeBackup" /\ direction' = "encrypt" /\ backup.length = 0
        /\ FileSystemVisible
    BY <1>3 DEF BeginEncryption, BeginJob
  <2>2. Shown(disk')
    <3>1. \A b : FileSystem(b).unit = Plain /\ ~FileSystem(b).concealed
      BY DEF FileSystem
    <3>2. \A b \in 0..Portion - 1 : disk'[b] = FileSystem(b)
      BY <1>1, <2>1 DEF FileSystemVisible
    <3> QED
      BY <3>1, <3>2 DEF Shown
  <2>3. HeaderThere' /\ Done' /\ Concealing' /\ Recorded' /\ BufferUnits'
    BY <2>1, <2>2
       DEF HeaderThere, Done, Concealing, Recorded, BufferUnits, AreaInUse, BetweenChunks, InChunk,
           AfterChunks
  <2>4. \A p \in 0..Portion - 1 : ~InArea(p)'
    <3>1. Frontier(backup) = DataSize /\ Frontier(backup)' = Frontier(backup)
      BY <1>1, <2>1, FrontierFacts, Sizes DEF Frontier
    <3> QED
      BY <2>1, <3>1, Sizes
         DEF InArea, Using, AreaInUse, BetweenChunks, InChunk, AfterChunks
  <2>5. StartRight'
    BY <2>1, <2>4 DEF StartRight, InChunk
  <2> QED
    BY <2>3, <2>5 DEF ConcealInv
<1>4. CASE \E w \in Passwords : StartDecryption(w) \/ \E way \in {"encrypt", "decrypt"} : Resume(w, way)
  <2>1. /\ pc' = "open" /\ backup # NoHeader /\ toggled' = toggled /\ crashed' = crashed
        /\ \/ pending' = pending /\ (pending > 0 \/ backup.length < DataSize)
           \/ SaveSettings(1)
    BY <1>1, <1>4 DEF StartDecryption, Resume, BeginJob
  <2>2. ~crashed' /\ ~toggled' => pending' > 0
    <3>1. SaveSettings(1) => pending' > 0
      BY <1>1 DEF SaveSettings, TypeOK
    <3>2. ~crashed /\ ~toggled => pending > 0 \/ Complete
      BY <1>1 DEF ConcealInv, Recorded
    <3>3. backup.length < DataSize => ~Complete
      BY <1>1, <2>1, Sizes DEF Complete
    <3> QED
      BY <2>1, <3>1, <3>2, <3>3
  <2>3. ~toggled => Hidden(disk)
    BY <1>1, <2>1 DEF ConcealInv, Concealing
  <2>4. HeaderThere' /\ Done' /\ Recorded'
    BY <2>1, <2>2
       DEF HeaderThere, Done, Recorded, AreaInUse, BetweenChunks, InChunk, AfterChunks
  <2>5. Concealing'
    BY <1>1, <2>1, <2>3 DEF Concealing, BetweenChunks, InChunk, Hidden
  <2>6. \A p \in 0..Portion - 1 : InArea(p)' => InArea(p)
    BY <1>1, <2>1 DEF InArea, Using, Edge, Frontier, AreaInUse, BetweenChunks, InChunk, AfterChunks
  <2>7. BufferUnits' /\ StartRight'
    BY <1>1, <2>1, <2>6, StartAfter DEF InChunk
  <2> QED
    BY <2>4, <2>5, <2>7 DEF ConcealInv
<1> QED
  BY <1>3, <1>4 DEF Begin

(* The steps that leave the device alone.                                  *)
LEMMA QuietConceal ==
  ASSUME ControlInv, ContentInv, ConcealInv
  PROVE  RecordJob \/ OpenBackupHeader \/ (\E cancel \in BOOLEAN : GoOn(cancel)) \/ LeaveLoop
         \/ FinishJob \/ ReadFails => ConcealInv'
<1> USE DEF deviceVars, jobVars, historyVars
<1>0. /\ TypeOK /\ Shape /\ Agreement /\ HeaderThere /\ Done /\ Concealing /\ Recorded
      /\ Hidden(disk) \in BOOLEAN /\ Revealed(disk) \in BOOLEAN /\ Shown(disk) \in BOOLEAN
      /\ NoHeader.length = 0 /\ DataSize > 0 /\ pending \in Nat
      /\ Shown(disk) => Revealed(disk)
  BY Sizes DEF ConcealInv, ControlInv, ToolsTypeOK, TypeOK, NoHeader, Hidden, Revealed, Shown
<1>1. ASSUME UNCHANGED disk PROVE /\ Hidden(disk)' <=> Hidden(disk)
                                  /\ Revealed(disk)' <=> Revealed(disk)
                                  /\ Shown(disk)' <=> Shown(disk)
  BY <1>1 DEF Hidden, Revealed, Shown
<1>2. CASE RecordJob
  <2>1. /\ pc = "record" /\ pc' = "open" /\ pending' > 0
        /\ UNCHANGED <<disk, backup, area, changed, toggled, crashed, direction>>
    BY <1>0, <1>2 DEF RecordJob, Step, SaveSettings
  <2>2. HeaderThere' /\ Done' /\ Recorded'
    BY <2>1 DEF HeaderThere, Done, Recorded, AreaInUse, BetweenChunks, InChunk, AfterChunks
  <2>3. Concealing'
    BY <1>0, <1>1, <2>1 DEF Concealing, BetweenChunks, InChunk
  <2>4. \A p \in 0..Portion - 1 : InArea(p)' => InArea(p)
    BY <2>1 DEF InArea, Using, Edge, Frontier, AreaInUse, BetweenChunks, InChunk, AfterChunks
  <2>5. BufferUnits' /\ StartRight'
    BY <2>1, <2>4, StartAfter DEF InChunk
  <2> QED
    BY <2>2, <2>3, <2>5 DEF ConcealInv
<1>3. CASE OpenBackupHeader
  <2>1. /\ pc = "open" /\ pc' = "read" /\ area' = AreaOf(backup) /\ backup # NoHeader
        /\ UNCHANGED <<disk, backup, changed, toggled, crashed, direction, pending>>
    BY <1>0, <1>3 DEF OpenBackupHeader, Step, Shape
  <2>2. HeaderThere' /\ Done' /\ Recorded'
    BY <1>0, <2>1 DEF HeaderThere, Done, Recorded, AreaInUse, BetweenChunks, InChunk, AfterChunks
  <2>3. Concealing'
    BY <1>0, <1>1, <2>1 DEF Concealing, BetweenChunks, InChunk
  <2>4. \A p \in 0..Portion - 1 : InArea(p)' => InArea(p)
    BY <2>1, HeaderFacts DEF InArea, Using, Edge, Frontier
  <2>5. BufferUnits' /\ StartRight'
    BY <2>1, <2>4, StartAfter DEF InChunk
  <2> QED
    BY <2>2, <2>3, <2>5 DEF ConcealInv
<1>4. CASE (\E cancel \in BOOLEAN : GoOn(cancel)) \/ LeaveLoop
  <2>1. /\ pc \in {"next", "read"} /\ pc' \in {"read", "lastUpdate"}
        /\ UNCHANGED <<disk, backup, area, changed, toggled, crashed, direction, pending>>
    BY <1>4 DEF GoOn, LeaveLoop, Step
  <2>2. HeaderThere' /\ Done' /\ Recorded'
    BY <1>0, <2>1 DEF HeaderThere, Done, Recorded, AreaInUse, BetweenChunks, InChunk, AfterChunks
  <2>3. Concealing'
    BY <1>0, <1>1, <2>1 DEF Concealing, BetweenChunks, InChunk
  <2>4. \A p \in 0..Portion - 1 : InArea(p)' => InArea(p)
    BY <2>1 DEF InArea, Using, Edge, Frontier, AreaInUse, BetweenChunks
  <2>5. BufferUnits' /\ StartRight'
    BY <2>1, <2>4, StartAfter DEF InChunk
  <2> QED
    BY <2>2, <2>3, <2>5 DEF ConcealInv
<1>5. CASE FinishJob
  <2>1. /\ pc = "finish" /\ pc' = "closing"
        /\ UNCHANGED <<disk, backup, area, changed, toggled, crashed, direction>>
        /\ direction \in {"encrypt", "decrypt"}
    BY <1>0, <1>5 DEF FinishJob, Step, TypeOK
  <2>2. /\ direction = "encrypt" => backup.length = DataSize /\ area.length = DataSize
        /\ direction = "decrypt" => backup = NoHeader /\ ~changed
    BY <1>0, <2>1 DEF HeaderThere
  <2>3. Complete' /\ (changed => backup # NoHeader /\ area.length = DataSize)
    BY <1>0, <2>1, <2>2 DEF Complete
  <2>4. HeaderThere' /\ Done' /\ Recorded'
    BY <2>1, <2>3 DEF HeaderThere, Done, Recorded, AreaInUse, BetweenChunks, InChunk, AfterChunks
  <2>5. Concealing'
    BY <1>0, <1>1, <2>1, <2>2 DEF Concealing, BetweenChunks, InChunk
  <2>6. \A p \in 0..Portion - 1 : InArea(p)' => InArea(p)
    BY <2>1 DEF InArea, Using, Edge, Frontier, AreaInUse, AfterChunks
  <2>7. BufferUnits' /\ StartRight'
    BY <2>1, <2>6, StartAfter DEF InChunk
  <2> QED
    BY <2>4, <2>5, <2>7 DEF ConcealInv
<1>6. CASE ReadFails
  <2>1. /\ pc \in ReadStep /\ pc' = "closing" /\ outcome' = "error"
        /\ UNCHANGED <<disk, backup, area, changed, toggled, crashed, direction, pending>>
    BY <1>6 DEF ReadFails
  <2>2. /\ pc \in {"writeBackup", "conceal", "open"} => ~changed
        /\ pc \in {"conceal", "open"} => backup # NoHeader
        /\ pc \in {"writeBackup", "conceal", "reveal"} => backup.length = 0
        /\ pc = "reveal" => ~changed /\ direction = "decrypt"
        /\ pc \in {"read", "update", "lastUpdate", "reveal"} => backup # NoHeader
    BY <1>0 DEF Shape, Agreement, Outside, ContentInv, Bookkeeping, HeaderThere, AreaInUse,
                BetweenChunks, AfterChunks
  <2>3. HeaderThere' /\ Done'
    BY <2>1, <2>2 DEF HeaderThere, Done, ReadStep, AreaInUse, BetweenChunks, InChunk, AfterChunks
  <2>4. Recorded'
    <3>1. pc \in {"writeBackup", "conceal"} => Shown(disk)
      BY <1>0 DEF Concealing
    <3>2. ~crashed /\ ~toggled /\ pc \notin {"writeBackup", "conceal"} => pending > 0
      BY <1>0, <2>1 DEF Recorded, ReadStep, AreaInUse, BetweenChunks, AfterChunks
    <3> QED
      BY <1>1, <2>1, <2>2, <3>1, <3>2 DEF Recorded, AreaInUse, BetweenChunks, InChunk, AfterChunks
  <2>5. Concealing'
    <3>1. ~toggled => IF backup = NoHeader THEN Revealed(disk)
                      ELSE (changed \/ backup.length > 0) => Hidden(disk)
      BY <1>0, <2>1, <2>2 DEF Concealing, ReadStep, BetweenChunks
    <3> QED
      BY <1>0, <1>1, <2>1, <3>1 DEF Concealing, BetweenChunks, InChunk
  <2>6. \A p \in 0..Portion - 1 : InArea(p)' => InArea(p)
    BY <2>1, <2>2 DEF InArea, Using, Edge, Frontier, AreaInUse, BetweenChunks, AfterChunks, ReadStep, InChunk
  <2>7. BufferUnits' /\ StartRight'
    BY <2>1, <2>6, StartAfter DEF InChunk
  <2> QED
    BY <2>3, <2>4, <2>5, <2>7 DEF ConcealInv
<1> QED
  BY <1>2, <1>3, <1>4, <1>5, <1>6

(* What reading a chunk does, whether or not a sector could not be read.   *)
LEMMA ChunkRead ==
  ASSUME ControlInv, ReadChunk \/ \E b \in Span(From, Size) : ReadUnreadable({b})
  PROVE  /\ pc = "read" /\ pc' = "write"
         /\ UNCHANGED <<backup, direction, area, remaining, changed, outcome, pending, crashed, toggled>>
         /\ \A b \in Blocks : disk'[b] = disk[b] \/ disk'[b] = Garbage
         /\ \E cells \in [Blocks -> Content] :
              /\ buf' = Transformed(cells)
              /\ \A b \in Blocks : cells[b] = disk[b] \/ cells[b] = Garbage
<1>0. disk \in [Blocks -> Content]
  BY DEF ControlInv, ToolsTypeOK, TypeOK
<1>1. CASE ReadChunk
  <2>1. buf' = Transformed(disk) /\ disk' = disk
    BY <1>1 DEF ReadChunk, deviceVars
  <2>2. /\ pc = "read" /\ pc' = "write"
        /\ UNCHANGED <<backup, direction, area, remaining, changed, outcome, pending, crashed, toggled>>
    BY <1>1 DEF ReadChunk, Step, historyVars, deviceVars
  <2> QED
    BY <1>0, <2>1, <2>2
<1>2. ASSUME NEW b \in Span(From, Size), ReadUnreadable({b})
      PROVE  /\ pc = "read" /\ pc' = "write"
             /\ UNCHANGED <<backup, direction, area, remaining, changed, outcome, pending, crashed, toggled>>
             /\ \A c \in Blocks : disk'[c] = disk[c] \/ disk'[c] = Garbage
             /\ \E cells \in [Blocks -> Content] :
                  /\ buf' = Transformed(cells)
                  /\ \A c \in Blocks : cells[c] = disk[c] \/ cells[c] = Garbage
  <2> DEFINE read == [c \in Blocks |-> IF c \in {b} THEN Garbage ELSE disk[c]]
  <2>1. read \in [Blocks -> Content] /\ \A c \in Blocks : read[c] = disk[c] \/ read[c] = Garbage
    BY <1>0, GarbageIsContent
  <2>2. buf' = Transformed(read) /\ disk' \in {read, disk}
    BY <1>2 DEF ReadUnreadable
  <2> HIDE DEF read
  <2>3. \A c \in Blocks : disk'[c] = disk[c] \/ disk'[c] = Garbage
    BY <2>1, <2>2
  <2>4. /\ pc = "read" /\ pc' = "write"
        /\ UNCHANGED <<backup, direction, area, remaining, changed, outcome, pending, crashed, toggled>>
    BY <1>2 DEF ReadUnreadable, Step
  <2> QED
    BY <2>1, <2>2, <2>3, <2>4
<1> QED
  BY <1>1, <1>2

(* Where the buffer's copy of a data unit is after a read.                 *)
LEMMA InBufferRead ==
  ASSUME ControlInv, ContentInv, ReadChunk \/ \E b \in Span(From, Size) : ReadUnreadable({b})
  PROVE  /\ Edge' = Edge /\ Size' = Size /\ Edge \in Int /\ Size \in Nat
         /\ direction' = direction /\ direction \in {"encrypt", "decrypt"}
         /\ pc \in AreaInUse
         /\ DOMAIN buf' = 0..Size - 1
         /\ \A p \in Data : InWork(p)' =>
              /\ p \in Int /\ p + Offset \in Blocks /\ p \in Blocks
              /\ direction = "encrypt" =>
                   /\ p - (Edge - Size) \in 0..Size - 1 /\ Edge - Size + (p - (Edge - Size)) = p
                   /\ InBuffer(p)' = buf'[p - (Edge - Size)]
              /\ direction = "decrypt" =>
                   /\ p - Edge \in 0..Size - 1 /\ Edge + (p - Edge) = p /\ p >= Edge
                   /\ InBuffer(p)' = buf'[p - Edge]
<1>1. /\ pc \in AreaInUse /\ pc = "read" /\ direction' = direction /\ Edge' = Edge /\ Size' = Size
      /\ \E cells \in [Blocks -> Content] : buf' = Transformed(cells)
  BY ChunkRead DEF AreaInUse, BetweenChunks, Edge, Size, Smaller
<1>2. TypeOK /\ Shape /\ Edge \in Int /\ Size \in Nat /\ direction \in {"encrypt", "decrypt"}
  BY <1>1, WorkFacts
<1>3. DOMAIN buf' = 0..Size - 1
  BY <1>1, <1>2, TransformedTyped
<1>4. ASSUME NEW p \in Data, InWork(p)'
      PROVE  /\ p \in Int /\ p + Offset \in Blocks /\ p \in Blocks
             /\ direction = "encrypt" =>
                  /\ p - (Edge - Size) \in 0..Size - 1 /\ Edge - Size + (p - (Edge - Size)) = p
                  /\ InBuffer(p)' = buf'[p - (Edge - Size)]
             /\ direction = "decrypt" =>
                  /\ p - Edge \in 0..Size - 1 /\ Edge + (p - Edge) = p /\ p >= Edge
                  /\ InBuffer(p)' = buf'[p - Edge]
  <2>1. p \in Int /\ p + Offset \in Blocks /\ p \in Blocks
    BY Sizes DEF Data, Blocks
  <2>2. CASE direction = "encrypt"
    <3>1. Edge - Size <= p /\ p < Edge /\ InBuffer(p)' = buf'[p - (Edge - Size)]
      BY <1>1, <1>4, <2>2 DEF InWork, InBuffer
    <3> QED
      BY <1>2, <2>1, <2>2, <3>1
  <2>3. CASE direction = "decrypt"
    <3>1. Edge <= p /\ p < Edge + Size /\ InBuffer(p)' = buf'[p - Edge]
      BY <1>1, <1>4, <2>3 DEF InWork, InBuffer
    <3> QED
      BY <1>2, <2>1, <2>3, <3>1
  <2> QED
    BY <1>2, <2>2, <2>3
<1> QED
  BY <1>1, <1>2, <1>3, <1>4

(* Reading a chunk.                                                        *)
LEMMA ReadConceal ==
  ASSUME ControlInv, ContentInv, ConcealInv,
         ReadChunk \/ \E b \in Span(From, Size) : ReadUnreadable({b})
  PROVE  ConcealInv'
<1>1. /\ pc = "read" /\ pc' = "write"
      /\ UNCHANGED <<backup, direction, area, remaining, changed, outcome, pending, crashed, toggled>>
      /\ \A b \in Blocks : disk'[b] = disk[b] \/ disk'[b] = Garbage
  BY ChunkRead
<1>2. PICK cells \in [Blocks -> Content] :
        /\ buf' = Transformed(cells)
        /\ \A b \in Blocks : cells[b] = disk[b] \/ cells[b] = Garbage
  BY ChunkRead
<1>3. /\ HeaderThere /\ Done /\ Concealing /\ StartRight /\ Recorded
      /\ Garbage.unit = -2 /\ Plain = -1
      /\ \A p \in 0..Portion - 1 : p \in Data /\ p \in Int /\ p >= 0 /\ p \in Blocks /\ p + Offset \in Blocks
      /\ \A p \in 0..Portion - 1 : ~(-2 = p + Offset)
  BY Sizes DEF ConcealInv, Garbage, Plain, Data, Blocks
<1>4. HeaderThere' /\ Done' /\ Recorded'
  BY <1>1, <1>3 DEF HeaderThere, Done, Recorded, AreaInUse, BetweenChunks, InChunk, AfterChunks
<1>5. ~toggled => Hidden(disk)
  BY <1>1, <1>3 DEF Concealing, BetweenChunks
<1>6. Concealing'
  <2>1. Hidden(disk) => Hidden(disk)'
    BY <1>1, <1>3 DEF Hidden
  <2> QED
    BY <1>1, <1>5, <2>1 DEF Concealing, BetweenChunks, InChunk
<1>7. BufferUnits'
  <2> SUFFICES ASSUME NEW i \in 0..Size - 1
               PROVE  IF direction = "encrypt" THEN buf'[i].unit # Plain ELSE buf'[i].unit < 0
    BY <1>1, InBufferRead DEF BufferUnits
  <2> QED
    BY <1>1, <1>2, Turned, InBufferRead
<1>8. ASSUME ~toggled', NEW p \in 0..Portion - 1
      PROVE  /\ InArea(p)' /\ disk'[p + Offset].unit = p + Offset => ~disk'[p + Offset].concealed
             /\ InWork(p)' =>
                  IF direction' = "encrypt"
                  THEN InBuffer(p)'.unit = p + Offset => ~InBuffer(p)'.concealed
                  ELSE InBuffer(p)'.unit = Plain => InBuffer(p)'.concealed
  <2>1. /\ InArea(p)' => InArea(p)
        /\ p >= Edge => InArea(p)
    BY <1>1 DEF InArea, Using, Edge, Frontier, AreaInUse, BetweenChunks, InChunk
  <2>2. InArea(p) /\ disk[p + Offset].unit = p + Offset => ~disk[p + Offset].concealed
    BY <1>1, <1>3, <1>8 DEF StartRight
  <2>3. InArea(p)' /\ disk'[p + Offset].unit = p + Offset => ~disk'[p + Offset].concealed
    <3>1. disk'[p + Offset] = disk[p + Offset] \/ disk'[p + Offset] = Garbage
      BY <1>1, <1>3
    <3> QED
      BY <1>3, <2>1, <2>2, <3>1
  <2>4. ASSUME InWork(p)', direction = "encrypt"
        PROVE  InBuffer(p)'.unit = p + Offset => ~InBuffer(p)'.concealed
    <3>1. /\ p - (Edge - Size) \in 0..Size - 1 /\ Edge - Size + (p - (Edge - Size)) = p
          /\ InBuffer(p)' = buf'[p - (Edge - Size)]
      BY <1>3, <2>4, InBufferRead
    <3>2. buf'[p - (Edge - Size)].unit = p + Offset =>
            cells[p].unit = Plain /\ (buf'[p - (Edge - Size)].concealed <=> ~cells[p].concealed)
      <4>1. /\ Transformed(cells)[p - (Edge - Size)].unit = p + Offset =>
                 /\ cells[p].unit = Plain
                 /\ Transformed(cells)[p - (Edge - Size)].concealed <=>
                      IF p < Portion THEN ~cells[p].concealed ELSE cells[p].concealed
        BY <1>1, <2>4, <3>1, Turned
      <4>2. p < Portion
        BY <1>3, Sizes
      <4> QED
        BY <1>2, <4>1, <4>2
    <3>3. cells[p].unit = Plain => cells[p].concealed
      <4>1. cells[p] = disk[p] \/ cells[p] = Garbage
        BY <1>2, <1>3
      <4> QED
        BY <1>1, <1>3, <1>5, <1>8, <4>1 DEF Hidden
    <3> QED
      BY <3>1, <3>2, <3>3
  <2>5. ASSUME InWork(p)', direction = "decrypt"
        PROVE  InBuffer(p)'.unit = Plain => InBuffer(p)'.concealed
    <3>1. /\ p - Edge \in 0..Size - 1 /\ Edge + (p - Edge) = p /\ p >= Edge
          /\ InBuffer(p)' = buf'[p - Edge]
      BY <1>3, <2>5, InBufferRead
    <3>2. buf'[p - Edge].unit = Plain =>
            /\ cells[p + Offset].unit = p + Offset
            /\ buf'[p - Edge].concealed <=> ~cells[p + Offset].concealed
      <4>1. Transformed(cells)[p - Edge].unit = Plain =>
              /\ cells[p + Offset].unit = p + Offset
              /\ p < Portion =>
                   (Transformed(cells)[p - Edge].concealed <=> ~cells[p + Offset].concealed)
        BY <1>1, <2>5, <3>1, Turned
      <4>2. p < Portion
        BY <1>3, Sizes
      <4> QED
        BY <1>2, <4>1, <4>2
    <3>3. cells[p + Offset].unit = p + Offset => ~cells[p + Offset].concealed
      <4>1. cells[p + Offset] = disk[p + Offset] \/ cells[p + Offset] = Garbage
        BY <1>2, <1>3
      <4> QED
        BY <1>3, <2>1, <2>2, <3>1, <4>1
    <3> QED
      BY <3>1, <3>2, <3>3
  <2> QED
    BY <1>1, <2>3, <2>4, <2>5, InBufferRead
<1>9. StartRight'
  BY <1>8 DEF StartRight
<1> QED
  BY <1>4, <1>6, <1>7, <1>9 DEF ConcealInv

(* While a chunk stays in work, the buffer is what it was.                 *)
LEMMA ChunkStays ==
  ASSUME ControlInv, ContentInv, ConcealInv, WriteAll \/ WritePart, pc \in InChunk, pc' \in InChunk,
         UNCHANGED <<buf, direction, area, remaining, toggled>>
  PROVE  BufferUnits' /\ StartRight'
<1>1. /\ Edge' = Edge /\ Size' = Size /\ Frontier(backup') = Frontier(backup)
      /\ BufferUnits /\ StartRight
  <2>1. pc \notin UpdateStep
    BY DEF UpdateStep, InChunk
  <2> QED
    BY <2>1, FrontierMoves DEF Edge, Size, Smaller, ConcealInv
<1>2. BufferUnits'
  BY <1>1 DEF BufferUnits
<1>3. ASSUME ~toggled, NEW p \in 0..Portion - 1
      PROVE  /\ InArea(p)' /\ disk'[p + Offset].unit = p + Offset => ~disk'[p + Offset].concealed
             /\ InWork(p)' =>
                  IF direction' = "encrypt"
                  THEN InBuffer(p)'.unit = p + Offset => ~InBuffer(p)'.concealed
                  ELSE InBuffer(p)'.unit = Plain => InBuffer(p)'.concealed
  <2>1. InArea(p)' => InArea(p)
    BY <1>1 DEF InArea, Using, Frontier, AreaInUse
  <2>2. (InWork(p)' <=> InWork(p)) /\ InBuffer(p)' = InBuffer(p)
    BY <1>1 DEF InWork, InBuffer
  <2>3. InArea(p) /\ disk'[p + Offset].unit = p + Offset => ~disk'[p + Offset].concealed
    BY <1>1, <1>3, StartWritten
  <2>4. InWork(p) => IF direction = "encrypt"
                     THEN InBuffer(p).unit = p + Offset => ~InBuffer(p).concealed
                     ELSE InBuffer(p).unit = Plain => InBuffer(p).concealed
    BY <1>1, <1>3 DEF StartRight
  <2>5. direction' = direction
    OBVIOUS
  <2>6. InWork(p)' => IF direction' = "encrypt"
                      THEN InBuffer(p)'.unit = p + Offset => ~InBuffer(p)'.concealed
                      ELSE InBuffer(p)'.unit = Plain => InBuffer(p)'.concealed
    BY <2>2, <2>4, <2>5
  <2> QED
    BY <2>1, <2>3, <2>6
<1>4. StartRight'
  BY <1>3 DEF StartRight
<1> QED
  BY <1>2, <1>4

(* The writes that conceal, reveal, or take either back.                   *)
LEMMA ToggleWritten ==
  ASSUME ControlInv, ContentInv, WriteAll, pc \in {"conceal", "reveal", "unflip"}
  PROVE  /\ pc = "conceal" /\ Shown(disk) => Hidden(disk')
         /\ pc = "reveal" /\ Hidden(disk) => Revealed(disk')
         /\ pc = "unflip" /\ Shown(buf) => Shown(disk')
         /\ pc = "unflip" /\ Hidden(buf) => Hidden(disk')
<1>1. \A b \in 0..Portion - 1 : b \in Blocks /\ disk[b] \in Content
  BY Sizes DEF ControlInv, ToolsTypeOK, TypeOK, Blocks
<1>2. CASE pc \in {"conceal", "reveal"}
  <2>1. NewBlocks = [b \in 0..Portion - 1 |-> Flip(disk[b])]
    BY <1>2 DEF NewBlocks
  <2>2. \A b \in 0..Portion - 1 : disk'[b] = Flip(disk[b])
    BY <1>1, <2>1 DEF WriteAll, Write
  <2>3. \A b \in 0..Portion - 1 :
          disk'[b].unit = Plain => disk[b].unit = Plain /\ (disk'[b].concealed <=> ~disk[b].concealed)
    BY <1>1, <2>2, CellFacts
  <2> QED
    BY <1>2, <2>3 DEF Shown, Hidden, Revealed
<1>3. CASE pc = "unflip"
  <2>1. NewBlocks = [b \in 0..Portion - 1 |-> buf[b]]
    BY <1>3 DEF NewBlocks
  <2>2. \A b \in 0..Portion - 1 : disk'[b] = buf[b]
    BY <1>1, <2>1 DEF WriteAll, Write
  <2> QED
    BY <1>3, <2>2 DEF Shown, Hidden
<1> QED
  BY <1>2, <1>3

(* The writes that succeed.                                                *)
LEMMA WriteConceal ==
  ASSUME ControlInv, ContentInv, ConcealInv
  PROVE  WriteBackupHeader \/ Toggle \/ Untoggle \/ WipeChunk \/ WriteChunk \/ UpdateHeader
         \/ LastUpdate \/ WritePrimaryHeader \/ ZeroRest \/ UndoWrite => ConcealInv'
<1> USE DEF deviceVars, jobVars, historyVars
<1>0. /\ TypeOK /\ Shape /\ Agreement /\ Bookkeeping
      /\ HeaderThere /\ Done /\ Concealing /\ BufferUnits /\ StartRight /\ Recorded
      /\ NoHeader.length = 0 /\ DataSize > 0
      /\ direction \in {"encrypt", "decrypt"} /\ changed \in BOOLEAN
  BY Sizes DEF ConcealInv, ControlInv, ContentInv, ToolsTypeOK, TypeOK, NoHeader
<1>1. ASSUME WriteAll, pc \notin UpdateStep
      PROVE  Frontier(backup)' = Frontier(backup)
  BY <1>1, FrontierMoves DEF Frontier
<1>2. CASE WriteBackupHeader
  <2>1. /\ pc = "writeBackup" /\ pc' = "conceal" /\ WriteAll /\ pc \notin UpdateStep
        /\ UNCHANGED <<area, changed, toggled, crashed, direction, pending>>
    BY <1>2 DEF WriteBackupHeader, Step, UpdateStep
  <2>2. Shown(disk')
    <3>1. \A b \in 0..Portion - 1 : b \in Blocks
      BY Sizes DEF Blocks
    <3>2. \A b \in 0..Portion - 1 : disk'[b] = disk[b]
      BY <2>1, <3>1, HeaderOnly
    <3>3. Shown(disk)
      BY <1>0, <2>1 DEF Concealing
    <3> QED
      BY <3>2, <3>3 DEF Shown
  <2>3. HeaderThere' /\ Done' /\ Recorded' /\ Concealing'
    BY <1>0, <2>1, <2>2
       DEF HeaderThere, Done, Recorded, Concealing, AreaInUse, BetweenChunks, InChunk, AfterChunks
  <2>4. \A p \in 0..Portion - 1 : InArea(p)' => InArea(p)
    BY <1>1, <2>1 DEF InArea, Using, AreaInUse, BetweenChunks, InChunk, AfterChunks
  <2>5. BufferUnits' /\ StartRight'
    BY <2>1, <2>4, StartAfter DEF InChunk
  <2> QED
    BY <2>3, <2>5 DEF ConcealInv
<1>3. CASE Toggle
  <2>1. /\ \/ pc = "conceal" /\ pc' = "record"
           \/ pc = "reveal" /\ pc' = "zero"
        /\ WriteAll /\ pc \notin UpdateStep
        /\ UNCHANGED <<area, changed, toggled, crashed, direction, pending>>
    BY <1>3 DEF Toggle, Step, UpdateStep
  <2>2. backup' = backup
    BY <2>1, BackupWritten DEF HeaderStep
  <2>3. HeaderThere' /\ Done' /\ Recorded'
    BY <1>0, <2>1, <2>2
       DEF HeaderThere, Done, Recorded, AreaInUse, BetweenChunks, InChunk, AfterChunks
  <2>4. /\ pc = "conceal" => Hidden(disk')
        /\ pc = "reveal" /\ ~toggled => Revealed(disk')
    <3>1. (pc = "conceal" => Shown(disk)) /\ (pc = "reveal" /\ ~toggled => Hidden(disk))
      BY <1>0 DEF Concealing
    <3> QED
      BY <2>1, <3>1, ToggleWritten
  <2>5. Concealing'
    BY <2>1, <2>4 DEF Concealing, BetweenChunks, InChunk
  <2>6. \A p \in 0..Portion - 1 : InArea(p)' => InArea(p)
    BY <1>1, <2>1 DEF InArea, Using, Edge, AreaInUse, BetweenChunks, InChunk, AfterChunks
  <2>7. BufferUnits' /\ StartRight'
    BY <2>1, <2>6, StartAfter DEF InChunk
  <2> QED
    BY <2>3, <2>5, <2>7 DEF ConcealInv
<1>4. CASE Untoggle
  <2>1. /\ pc = "unflip" /\ pc' = "closing" /\ WriteAll /\ pc \notin UpdateStep
        /\ UNCHANGED <<area, changed, toggled, crashed, direction, pending, outcome>>
        /\ ~changed /\ outcome = "error"
    BY <1>0, <1>4 DEF Untoggle, Step, UpdateStep, Shape, Outside, Bookkeeping
  <2>2. backup' = backup /\ backup # NoHeader /\ backup.length = 0
    BY <1>0, <2>1, BackupWritten DEF HeaderStep, HeaderThere, Bookkeeping
  <2>3. direction = "encrypt" => Shown(disk')
    <3>1. direction = "encrypt" => Shown(buf)
      BY <1>0, <2>1 DEF Concealing
    <3> QED
      BY <2>1, <3>1, ToggleWritten
  <2>4. HeaderThere' /\ Done'
    BY <1>0, <2>1, <2>2 DEF HeaderThere, Done, AreaInUse, BetweenChunks, InChunk, AfterChunks
  <2>5. Recorded'
    BY <1>0, <2>1, <2>2, <2>3 DEF Recorded, AreaInUse, BetweenChunks, InChunk, AfterChunks
  <2>6. Concealing'
    BY <2>1, <2>2 DEF Concealing, BetweenChunks, InChunk
  <2>7. \A p \in 0..Portion - 1 : InArea(p)' => InArea(p)
    BY <1>1, <2>1 DEF InArea, Using, AreaInUse, BetweenChunks, InChunk, AfterChunks
  <2>8. BufferUnits' /\ StartRight'
    BY <2>1, <2>7, StartAfter DEF InChunk
  <2> QED
    BY <2>4, <2>5, <2>6, <2>8 DEF ConcealInv
<1>5. CASE WipeChunk
  <2>1. /\ pc = "write" /\ pc' = "write" /\ WriteAll /\ pc \notin UpdateStep
        /\ UNCHANGED <<buf, remaining, area, changed, toggled, crashed, direction, pending, outcome>>
    BY <1>5 DEF WipeChunk, Step, UpdateStep
  <2>2. backup' = backup
    BY <2>1, BackupWritten DEF HeaderStep
  <2>3. HeaderThere' /\ Done' /\ Recorded'
    BY <1>0, <2>1, <2>2
       DEF HeaderThere, Done, Recorded, AreaInUse, BetweenChunks, InChunk, AfterChunks
  <2>4. Concealing'
    <3>1. ~toggled => Hidden(disk')
      <4>1. ~toggled => Hidden(disk)
        BY <1>0, <2>1 DEF Concealing, InChunk
      <4> QED
        BY <1>0, <2>1, <4>1, StartWritten
    <3> QED
      BY <2>1, <3>1 DEF Concealing, BetweenChunks, InChunk
  <2>5. BufferUnits' /\ StartRight'
    BY <2>1, ChunkStays DEF InChunk
  <2> QED
    BY <2>3, <2>4, <2>5 DEF ConcealInv
<1>6. CASE WriteChunk
  <2>1. /\ pc = "write" /\ pc' \in {"update", "next"} /\ WriteAll /\ pc \notin UpdateStep
        /\ UNCHANGED <<toggled, crashed, direction, pending, outcome>>
        /\ area' = MovedArea /\ (direction = "decrypt" \/ pass > WipePasses)
    BY <1>6 DEF WriteChunk, Step, UpdateStep
  <2>2. backup' = backup
    BY <2>1, BackupWritten DEF HeaderStep
  <2>3. HeaderThere' /\ Done' /\ Recorded'
    BY <1>0, <2>1, <2>2
       DEF HeaderThere, Done, Recorded, AreaInUse, BetweenChunks, InChunk, AfterChunks
  <2>4. Concealing'
    <3>1. ~toggled => Hidden(disk')
      <4>1. ~toggled => Hidden(disk)
        BY <1>0, <2>1 DEF Concealing, InChunk
      <4> QED
        BY <1>0, <2>1, <4>1, StartWritten
    <3> QED
      BY <2>1, <3>1 DEF Concealing, BetweenChunks, InChunk
  <2>5. BufferUnits'
    BY <2>1 DEF BufferUnits, InChunk
  <2>6. /\ direction = "encrypt" => Edge' = Edge - Size
        /\ direction = "decrypt" => Edge' = Edge + Size
        /\ Edge \in Int /\ Size \in Nat
    <3>1. /\ pc \in AreaInUse /\ Edge \in Int /\ Size \in Nat
          /\ area.start \in Int
      BY <1>0, <2>1, WorkFacts, ChunkFacts DEF AreaInUse, InChunk
    <3>2. /\ direction = "encrypt" => area'.start = area.start - Size
          /\ direction = "decrypt" => area'.start = area.start + Size
      BY <2>1 DEF MovedArea
    <3> QED
      BY <3>1, <3>2, Sizes DEF Edge
  <2>7. ASSUME ~toggled, NEW p \in 0..Portion - 1, InArea(p)', disk'[p + Offset].unit = p + Offset
        PROVE  ~disk'[p + Offset].concealed
    <3>1. p \in Data /\ p \in Int
      BY Sizes DEF Data
    <3>2. InArea(p) \/ (direction = "encrypt" /\ InWork(p))
      <4>1. p >= Frontier(backup) \/ p >= Edge'
        BY <1>1, <2>1, <2>7 DEF InArea
      <4>2. Using
        BY <2>1 DEF Using, AreaInUse, InChunk
      <4>3. CASE direction = "encrypt"
        BY <2>6, <3>1, <4>1, <4>2, <4>3 DEF InArea, InWork
      <4>4. CASE direction = "decrypt"
        <5>1. p >= Edge + Size => p >= Edge
          BY <2>6, <3>1
        <5> QED
          BY <2>6, <4>1, <4>2, <4>4, <5>1 DEF InArea
      <4> QED
        BY <1>0, <4>3, <4>4
    <3>3. CASE InArea(p)
      BY <1>0, <2>1, <2>7, <3>3, StartWritten
    <3>4. CASE direction = "encrypt" /\ InWork(p)
      <4>1. disk'[p + Offset] = InBuffer(p)
        BY <2>1, <3>1, <3>4, WholeChunk
      <4>2. InBuffer(p).unit = p + Offset => ~InBuffer(p).concealed
        BY <1>0, <2>1, <2>7, <3>4 DEF StartRight, InChunk
      <4> QED
        BY <2>7, <4>1, <4>2
    <3> QED
      BY <3>2, <3>3, <3>4
  <2>8. StartRight'
    BY <2>1, <2>7 DEF StartRight, InChunk
  <2> QED
    BY <2>3, <2>4, <2>5, <2>8 DEF ConcealInv
<1>7. CASE UpdateHeader \/ LastUpdate
  <2>1. /\ pc \in {"update", "lastUpdate"} /\ WriteAll /\ pc \in UpdateStep
        /\ pc = "update" => pc' = "next"
        /\ pc = "lastUpdate" => pc' \in {"closing", "writePrimary", "reveal"}
        /\ pc' \in {"next", "closing", "writePrimary", "reveal"}
        /\ UNCHANGED <<area, toggled, crashed, direction, pending, outcome>>
        /\ changed' => changed
        /\ outcome # "success"
    BY <1>0, <1>7
       DEF UpdateHeader, LastUpdate, AfterLoop, Step, UpdateStep, Bookkeeping
  <2>2. backup' # NoHeader
    BY <2>1, BackupWritten
  <2>3. ~crashed /\ ~toggled => pending > 0
    BY <1>0, <2>1 DEF Recorded, AreaInUse, BetweenChunks
  <2>4. HeaderThere' /\ Done' /\ Recorded'
    BY <2>1, <2>2, <2>3
       DEF HeaderThere, Done, Recorded, AreaInUse, BetweenChunks, InChunk, AfterChunks
  <2>5. Concealing'
    <3>1. ~toggled => Hidden(disk')
      <4>1. ~toggled => Hidden(disk)
        BY <1>0, <2>1 DEF Concealing, BetweenChunks
      <4> QED
        BY <1>0, <2>1, <4>1, StartWritten
    <3> QED
      BY <2>1, <2>2, <3>1 DEF Concealing, BetweenChunks, InChunk
  <2>6. \A p \in 0..Portion - 1 : InArea(p)' => InArea(p)
    <3>1. Frontier(backup)' \in {Frontier(backup), Edge} /\ Edge' = Edge /\ Using
      BY <2>1, FrontierMoves DEF Frontier, Edge, Using, AreaInUse, BetweenChunks
    <3> QED
      BY <3>1 DEF InArea
  <2>7. BufferUnits' /\ StartRight'
    BY <2>1, <2>6, StartAfter DEF InChunk
  <2> QED
    BY <2>4, <2>5, <2>7 DEF ConcealInv
<1>8. CASE WritePrimaryHeader
  <2>1. /\ pc = "writePrimary" /\ pc' = "finish" /\ WriteAll /\ pc \notin UpdateStep
        /\ UNCHANGED <<area, changed, toggled, crashed, direction, pending, outcome>>
    BY <1>8 DEF WritePrimaryHeader, Step, UpdateStep
  <2>2. /\ backup' = backup /\ backup # NoHeader /\ direction = "encrypt"
        /\ backup.length = DataSize /\ area.length = DataSize
    <3>1. backup' = backup
      BY <2>1, BackupWritten DEF HeaderStep
    <3>2. /\ direction = "encrypt" /\ backup # NoHeader /\ remaining = 0 /\ AreaOf(backup) = area
          /\ remaining = DataSize - area.length /\ area.length \in Int
      BY <1>0, <2>1 DEF Agreement, Shape, AreaInUse, AfterChunks, TypeOK
    <3>3. area.length = DataSize
      BY <3>2, Sizes
    <3> QED
      BY <3>1, <3>2, <3>3, HeaderFacts
  <2>3. HeaderThere' /\ Done' /\ Recorded'
    BY <1>0, <2>1, <2>2
       DEF HeaderThere, Done, Recorded, AreaInUse, BetweenChunks, InChunk, AfterChunks
  <2>4. Concealing'
    <3>1. ~toggled => Hidden(disk')
      <4>1. ~toggled => Hidden(disk)
        BY <1>0, <2>1 DEF Concealing
      <4> QED
        BY <1>0, <2>1, <4>1, StartWritten
    <3> QED
      BY <2>1, <2>2, <3>1 DEF Concealing, BetweenChunks, InChunk
  <2>5. \A p \in 0..Portion - 1 : InArea(p)' => InArea(p)
    BY <1>1, <2>1 DEF InArea, Using, Edge, AreaInUse, AfterChunks
  <2>6. BufferUnits' /\ StartRight'
    BY <2>1, <2>5, StartAfter DEF InChunk
  <2> QED
    BY <2>3, <2>4, <2>6 DEF ConcealInv
<1>9. CASE ZeroRest
  <2>1. /\ pc \in {"zero", "zeroBackup"} /\ WriteAll /\ pc \notin UpdateStep
        /\ pc = "zero" => pc' = "zeroBackup"
        /\ pc = "zeroBackup" => pc' = "finish"
        /\ UNCHANGED <<area, changed, toggled, crashed, direction, pending, outcome>>
    BY <1>9 DEF ZeroRest, Step, UpdateStep
  <2>2. /\ direction = "decrypt" /\ ~changed
        /\ pc = "zero" => backup' = backup /\ backup # NoHeader
        /\ pc = "zeroBackup" => backup' = NoHeader
    BY <1>0, <2>1, BackupWritten
       DEF HeaderStep, Agreement, HeaderThere, Shape, AreaInUse, AfterChunks
  <2>3. HeaderThere' /\ Done' /\ Recorded'
    BY <1>0, <2>1, <2>2
       DEF HeaderThere, Done, Recorded, AreaInUse, BetweenChunks, InChunk, AfterChunks
  <2>4. Concealing'
    <3>1. ~toggled => Revealed(disk')
      <4>1. ~toggled => Revealed(disk)
        BY <1>0, <2>1 DEF Concealing
      <4> QED
        BY <1>0, <2>1, <4>1, StartWritten
    <3> QED
      BY <2>1, <2>2, <3>1 DEF Concealing, BetweenChunks, InChunk
  <2>5. \A p \in 0..Portion - 1 : InArea(p)' => InArea(p)
    BY <1>1, <2>1 DEF InArea, Using, Edge, AreaInUse, AfterChunks
  <2>6. BufferUnits' /\ StartRight'
    BY <2>1, <2>5, StartAfter DEF InChunk
  <2> QED
    BY <2>3, <2>4, <2>6 DEF ConcealInv
<1>10. CASE UndoWrite
  <2>1. /\ pc = "undo" /\ pc' = "closing" /\ WriteAll /\ pc \notin UpdateStep
        /\ UNCHANGED <<area, changed, toggled, crashed, direction, pending, outcome>>
        /\ outcome = "error"
    BY <1>0, <1>10 DEF UndoWrite, Step, UpdateStep, Bookkeeping
  <2>2. backup' = backup /\ backup # NoHeader
    BY <1>0, <2>1, BackupWritten DEF HeaderStep, HeaderThere, AreaInUse, InChunk
  <2>3. HeaderThere' /\ Done' /\ Recorded'
    BY <1>0, <2>1, <2>2
       DEF HeaderThere, Done, Recorded, AreaInUse, BetweenChunks, InChunk, AfterChunks
  <2>4. Concealing'
    <3>1. ~toggled => Hidden(disk')
      <4>1. ~toggled => Hidden(disk)
        BY <1>0, <2>1 DEF Concealing, InChunk
      <4> QED
        BY <1>0, <2>1, <4>1, StartWritten
    <3> QED
      BY <2>1, <2>2, <3>1 DEF Concealing, BetweenChunks, InChunk
  <2>5. \A p \in 0..Portion - 1 : InArea(p)' => InArea(p)
    BY <1>1, <2>1 DEF InArea, Using, Edge, AreaInUse, InChunk, AfterChunks
  <2>6. BufferUnits' /\ StartRight'
    BY <2>1, <2>5, StartAfter DEF InChunk
  <2> QED
    BY <2>3, <2>4, <2>6 DEF ConcealInv
<1> QED
  BY <1>2, <1>3, <1>4, <1>5, <1>6, <1>7, <1>8, <1>9, <1>10

(* The writes that fail.                                                   *)
LEMMA FailConceal ==
  ASSUME ControlInv, ContentInv, ConcealInv, WriteFails
  PROVE  ConcealInv'
<1> USE DEF deviceVars, jobVars, historyVars
<1>0. /\ TypeOK /\ Shape /\ Agreement /\ Bookkeeping
      /\ HeaderThere /\ Done /\ Concealing /\ BufferUnits /\ StartRight /\ Recorded
      /\ NoHeader.length = 0 /\ DataSize > 0
      /\ direction \in {"encrypt", "decrypt"} /\ changed \in BOOLEAN
  BY Sizes DEF ConcealInv, ControlInv, ContentInv, ToolsTypeOK, TypeOK, NoHeader
<1>1. /\ WritePart /\ pc \in WriteStep \ {"closing"} /\ outcome' = "error"
      /\ UNCHANGED <<direction, area, remaining, changed, pending, crashed, toggled>>
      /\ Edge' = Edge
  BY DEF WriteFails, Edge
<1>2. CASE pc = "write" /\ Undoable
  <2>1. /\ pc' = "undo" /\ buf' = buf /\ pc \notin UpdateStep
    BY <1>2 DEF WriteFails, UpdateStep
  <2>2. backup' = backup
    BY <1>1, <1>2, BackupWritten DEF HeaderStep, UpdateStep
  <2>3. HeaderThere' /\ Done' /\ Recorded'
    BY <1>0, <1>1, <1>2, <2>1, <2>2
       DEF HeaderThere, Done, Recorded, AreaInUse, BetweenChunks, InChunk, AfterChunks
  <2>4. Concealing'
    <3>1. ~toggled => Hidden(disk')
      <4>1. ~toggled => Hidden(disk)
        BY <1>0, <1>2 DEF Concealing, InChunk
      <4> QED
        BY <1>0, <1>1, <1>2, <4>1, StartWritten
    <3> QED
      BY <1>1, <2>1, <3>1 DEF Concealing, BetweenChunks, InChunk
  <2>5. BufferUnits' /\ StartRight'
    BY <1>1, <1>2, <2>1, ChunkStays DEF InChunk
  <2> QED
    BY <2>3, <2>4, <2>5 DEF ConcealInv
<1>3. CASE pc \in {"conceal", "reveal", "unflip"}
  <2>1. /\ pc' = "unflip" /\ pc \notin UpdateStep
        /\ pc = "unflip" => buf' = buf
        /\ pc # "unflip" => buf' = [b \in 0..Portion - 1 |-> disk[b]]
    BY <1>3 DEF WriteFails, UpdateStep
  <2>2. /\ backup' = backup /\ backup # NoHeader
        /\ pc = "conceal" => direction = "encrypt"
        /\ pc = "reveal" => direction = "decrypt"
    BY <1>0, <1>1, <1>3, BackupWritten
       DEF HeaderStep, UpdateStep, Shape, HeaderThere, Agreement, AreaInUse, AfterChunks
  <2>3. HeaderThere' /\ Done'
    BY <2>1, <2>2 DEF HeaderThere, Done, AreaInUse, BetweenChunks, InChunk, AfterChunks
  <2>4. Recorded'
    BY <1>0, <1>1, <1>3, <2>1, <2>2
       DEF Recorded, AreaInUse, BetweenChunks, InChunk, AfterChunks
  <2>5. /\ direction = "encrypt" => Shown(buf')
        /\ direction = "decrypt" /\ ~toggled => Hidden(buf')
    <3>1. CASE pc = "unflip"
      BY <1>0, <2>1, <3>1 DEF Concealing
    <3>2. CASE pc # "unflip"
      <4>1. \A b \in 0..Portion - 1 : buf'[b] = disk[b]
        BY <2>1, <3>2
      <4>2. /\ direction = "encrypt" => Shown(disk)
            /\ direction = "decrypt" /\ ~toggled => Hidden(disk)
        BY <1>0, <1>3, <2>2, <3>2 DEF Concealing
      <4> QED
        BY <4>1, <4>2 DEF Shown, Hidden
    <3> QED
      BY <3>1, <3>2
  <2>6. Concealing'
    BY <1>1, <2>1, <2>5 DEF Concealing, BetweenChunks, InChunk
  <2>7. \A p \in 0..Portion - 1 : InArea(p)' => InArea(p)
    <3>1. Frontier(backup)' = Frontier(backup)
      BY <1>1, <2>1, FrontierMoves DEF Frontier
    <3> QED
      BY <2>1, <3>1 DEF InArea, Using, AreaInUse, BetweenChunks, InChunk, AfterChunks
  <2>8. BufferUnits' /\ StartRight'
    BY <1>1, <2>1, <2>7, StartAfter DEF InChunk
  <2> QED
    BY <2>3, <2>4, <2>6, <2>8 DEF ConcealInv
<1>4. CASE ~(pc = "write" /\ Undoable) /\ pc \notin {"conceal", "reveal", "unflip"}
  <2>1. /\ pc' = "closing"
        /\ pc \in {"update", "lastUpdate", "writeBackup", "zeroBackup", "write", "undo",
                   "writePrimary", "zero"}
        /\ pc \in UpdateStep <=> pc \in {"update", "lastUpdate"}
    BY <1>1, <1>4 DEF WriteFails, WriteStep, HeaderStep, UpdateStep
  <2>2. /\ pc = "writeBackup" => backup'.length = 0 /\ ~changed
        /\ pc \in {"zero", "zeroBackup"} => ~changed /\ backup'.length = 0
        /\ pc \notin {"writeBackup", "zeroBackup"} => backup' # NoHeader
    <3>1. /\ pc \notin HeaderStep => backup' = backup
          /\ pc = "writeBackup" => backup'.length = 0
          /\ pc = "zeroBackup" => backup' \in {backup, NoHeader}
          /\ pc \in UpdateStep => backup' = backup \/ backup' # NoHeader
      BY <1>1, BackupWritten
    <3>2. /\ pc \notin {"writeBackup", "zeroBackup"} => backup # NoHeader
          /\ pc \in {"zero", "zeroBackup"} => backup.length = 0 /\ ~changed
          /\ pc = "writeBackup" => ~changed
      BY <1>0, <2>1 DEF HeaderThere, Agreement, Shape, Outside, AreaInUse, BetweenChunks, InChunk,
                        AfterChunks
    <3> QED
      BY <1>0, <2>1, <3>1, <3>2 DEF HeaderStep
  <2>3. HeaderThere' /\ Done'
    BY <1>1, <2>1, <2>2 DEF HeaderThere, Done, AreaInUse, BetweenChunks, InChunk, AfterChunks
  <2>4. pc = "writeBackup" => Shown(disk')
    <3>1. pc = "writeBackup" => \A b \in 0..Portion - 1 : b \in Blocks /\ disk'[b] = disk[b]
      BY <1>1, HeaderOnly, Sizes DEF Blocks
    <3>2. pc = "writeBackup" => Shown(disk)
      BY <1>0 DEF Concealing
    <3> QED
      BY <3>1, <3>2 DEF Shown
  <2>5. Recorded'
    <3>1. pc # "writeBackup" /\ ~crashed /\ ~toggled => pending > 0
      BY <1>0, <2>1 DEF Recorded, AreaInUse, BetweenChunks, InChunk, AfterChunks
    <3> QED
      BY <1>1, <2>1, <2>2, <2>4, <3>1
         DEF Recorded, AreaInUse, BetweenChunks, InChunk, AfterChunks
  <2>6. ASSUME ~toggled
        PROVE  IF backup' = NoHeader THEN Revealed(disk')
               ELSE (changed \/ backup'.length > 0) => Hidden(disk')
    <3>1. CASE pc = "writeBackup"
      <4>1. Revealed(disk')
        BY <2>4, <3>1 DEF Shown, Revealed
      <4>2. ~(changed \/ backup'.length > 0)
        BY <2>2, <3>1
      <4> QED
        BY <4>1, <4>2
    <3>2. CASE pc \in {"zero", "zeroBackup"}
      <4>1. Revealed(disk')
        <5>1. Revealed(disk)
          BY <1>0, <2>6, <3>2 DEF Concealing
        <5> QED
          BY <1>0, <1>1, <2>6, <3>2, <5>1, StartWritten
      <4>2. ~(changed \/ backup'.length > 0)
        BY <2>2, <3>2
      <4> QED
        BY <4>1, <4>2
    <3>3. CASE pc \notin {"writeBackup", "zero", "zeroBackup"}
      <4>1. Hidden(disk)
        BY <1>0, <2>1, <2>6, <3>3 DEF Concealing, BetweenChunks, InChunk
      <4>2. Hidden(disk')
        BY <1>0, <1>1, <2>1, <2>6, <3>3, <4>1, StartWritten
      <4> QED
        BY <2>2, <3>3, <4>2
    <3> QED
      BY <3>1, <3>2, <3>3
  <2>7. Concealing'
    BY <1>1, <2>1, <2>6 DEF Concealing, BetweenChunks, InChunk
  <2>8. \A p \in 0..Portion - 1 : InArea(p)' => InArea(p)
    <3>1. CASE pc \in {"update", "lastUpdate"}
      <4>1. Frontier(backup)' \in {Frontier(backup), Edge} /\ Using
        BY <1>1, <2>1, <3>1, FrontierMoves DEF Frontier, Using, AreaInUse, BetweenChunks
      <4> QED
        BY <1>1, <4>1 DEF InArea
    <3>2. CASE pc \notin {"update", "lastUpdate"}
      <4>1. Frontier(backup)' = Frontier(backup)
        BY <1>1, <2>1, <3>2, FrontierMoves DEF Frontier
      <4>2. Using' => Using
        BY <1>1, <2>1, <2>2, <3>2 DEF Using, AreaInUse, BetweenChunks, InChunk, AfterChunks
      <4> QED
        BY <1>1, <4>1, <4>2 DEF InArea
    <3> QED
      BY <3>1, <3>2
  <2>9. BufferUnits' /\ StartRight'
    BY <1>1, <2>1, <2>8, StartAfter DEF InChunk
  <2> QED
    BY <2>3, <2>5, <2>7, <2>9 DEF ConcealInv
<1> QED
  BY <1>2, <1>3, <1>4

(* The end of a job.                                                       *)
LEMMA CloseConceal ==
  ASSUME ControlInv, ContentInv, ConcealInv, CloseJob \/ CloseFails \/ Crash
  PROVE  ConcealInv'
<1>0. /\ TypeOK /\ Shape /\ HeaderThere /\ Done /\ Recorded /\ NoHeader.length = 0
      /\ changed \in BOOLEAN /\ DataSize > 0
  BY Sizes DEF ControlInv, ConcealInv, ToolsTypeOK, TypeOK, NoHeader
<1>1. /\ WriteAll \/ WritePart
      /\ pc # "idle" /\ pc' = "idle" /\ pending' = pending
      /\ toggled' = (toggled \/ HalfConcealed(disk', backup'))
      /\ result' = "success" => pc = "closing" /\ outcome = "success"
      /\ ~crashed' => pc = "closing" /\ ~crashed
  BY DEF CloseJob, CloseFails, Crash, End
<1>2. HeaderThere' /\ BufferUnits'
  BY <1>1 DEF HeaderThere, BufferUnits, AreaInUse, BetweenChunks, InChunk, AfterChunks
<1>3. pc = "closing" => backup' = backup \/ (changed /\ backup'.length = area.length)
  BY <1>1, BackupWritten DEF HeaderStep, UpdateStep
<1>4. Done'
  <2>1. ASSUME pc = "closing", outcome = "success" PROVE Complete'
    BY <1>0, <1>3, <2>1 DEF Done, Complete
  <2> QED
    BY <1>1, <2>1 DEF Done
<1>5. Recorded'
  <2> SUFFICES ASSUME ~crashed', ~toggled' PROVE pending > 0 \/ Complete'
    BY <1>1 DEF Recorded, AreaInUse, BetweenChunks, InChunk, AfterChunks
  <2>1. pc = "closing" /\ ~crashed /\ ~toggled /\ ~HalfConcealed(disk', backup')
    BY <1>1
  <2>2. \/ pending > 0
        \/ Complete /\ (changed => area.length = DataSize)
        \/ backup.length = 0 /\ ~changed /\ Shown(disk)
    BY <1>0, <2>1 DEF Recorded
  <2>3. CASE Complete /\ (changed => area.length = DataSize)
    BY <1>3, <2>1, <2>3 DEF Complete
  <2>4. CASE backup.length = 0 /\ ~changed /\ Shown(disk)
    <3>1. backup' = backup
      BY <1>3, <2>1, <2>4
    <3>2. 0 \in 0..Portion - 1 /\ 0 \in Blocks
      BY Sizes DEF Blocks
    <3>3. disk'[0] = disk[0] /\ disk[0].unit = Plain /\ ~disk[0].concealed
      BY <1>1, <2>1, <2>4, <3>2, HeaderOnly DEF Shown
    <3>4. backup' = NoHeader
      BY <2>1, <2>4, <3>1, <3>2, <3>3 DEF HalfConcealed
    <3> QED
      BY <3>4 DEF Complete
  <2> QED
    BY <2>2, <2>3, <2>4
<1>6. Concealing'
  <2> SUFFICES ASSUME ~toggled' PROVE IF backup' = NoHeader THEN Revealed(disk') ELSE Hidden(disk')
    BY <1>1 DEF Concealing, BetweenChunks, InChunk
  <2> QED
    BY <1>1, EndConcealed
<1>7. \A p \in 0..Portion - 1 : InArea(p)' => InArea(p)
  <2>1. ~Using'
    BY <1>1 DEF Using, AreaInUse, BetweenChunks, InChunk, AfterChunks
  <2>2. CASE pc \in UpdateStep
    <3>1. Frontier(backup)' \in {Frontier(backup), Edge} /\ Using
      BY <1>1, <2>2, FrontierMoves DEF Frontier, Using, AreaInUse, BetweenChunks, UpdateStep
    <3> QED
      BY <2>1, <3>1 DEF InArea
  <2>3. CASE pc \notin UpdateStep
    <3>1. Frontier(backup)' = Frontier(backup)
      BY <1>1, <2>3, FrontierMoves DEF Frontier
    <3> QED
      BY <2>1, <3>1 DEF InArea
  <2> QED
    BY <2>2, <2>3
<1>8. StartRight'
  BY <1>1, <1>7, StartAfter DEF InChunk
<1> QED
  BY <1>2, <1>4, <1>5, <1>6, <1>8 DEF ConcealInv

(* The tools overwrite what lies before the data of a complete volume.     *)
LEMMA ToolConceal ==
  ASSUME ControlInv, ContentInv, ConcealInv,
         \/ UseTool \/ ChangePrimary \/ FinishTool
         \/ \E report \in {"error", "crash"} : StopTool(report)
  PROVE  ConcealInv'
<1> USE DEF deviceVars, jobVars, historyVars
<1>0. /\ TypeOK /\ Shape /\ HeaderThere /\ Done /\ Concealing /\ StartRight /\ Recorded
      /\ NoHeader.length = 0 /\ DataSize > 0 /\ Garbage.unit = -2 /\ Plain = -1
      /\ disk \in [Blocks -> Content]
  BY Sizes DEF ControlInv, ConcealInv, ToolsTypeOK, TypeOK, NoHeader, Garbage, Plain
<1>1. CASE UseTool
  <2>1. /\ pc = "idle" /\ pc' = "idle"
        /\ UNCHANGED <<disk, backup, result, toggled, crashed, pending, area, changed, direction>>
    BY <1>1 DEF UseTool, ChangePwd, RestoreVolumeHeader, RunTool
  <2>2. HeaderThere' /\ Done' /\ Recorded' /\ BufferUnits'
    BY <1>0, <2>1 DEF HeaderThere, Done, Recorded, BufferUnits, Complete, AreaInUse,
                      BetweenChunks, InChunk, AfterChunks
  <2>3. Concealing'
    <3>1. ~toggled => IF backup = NoHeader THEN Revealed(disk) ELSE Hidden(disk)
      BY <1>0, <2>1 DEF Concealing
    <3> QED
      BY <2>1, <3>1 DEF Concealing, BetweenChunks, InChunk, Revealed, Hidden
  <2>4. \A p \in 0..Portion - 1 : InArea(p)' => InArea(p)
    BY <2>1 DEF InArea, Using, Frontier, AreaInUse, BetweenChunks, InChunk, AfterChunks
  <2>5. StartRight'
    BY <2>1, <2>4, StartAfter DEF InChunk
  <2> QED
    BY <2>2, <2>3, <2>5 DEF ConcealInv
<1>2. ASSUME NEW B \in SUBSET ToolBlocks,
             NEW h \in {backup, IF tool = "backup" THEN copy ELSE backup},
             WriteTool(B, h), tool # "none", pc' = pc, ~toggled' => ~toggled,
             Done'
      PROVE  ConcealInv'
  <2>1. /\ tool \in {"primary", "backup", "restore"} /\ pc = "idle" /\ copy # NoHeader
        /\ copy \in Headers /\ backup \in Headers
        /\ backup # NoHeader => Fits(backup)
    BY <1>2, HeaderFacts DEF ControlInv, ToolsTypeOK, TypeOK, Shape
  <2>2. backup.length = DataSize /\ (tool = "backup" => copy.length = DataSize)
    <3>1. backup.length = DataSize /\ (tool = "backup" => AreaOf(copy) = AreaOf(backup))
      BY <2>1 DEF ControlInv, Agreement, PrimaryAgrees
    <3> QED
      BY <3>1, HeaderFacts
  <2>3. backup # NoHeader /\ backup' # NoHeader /\ backup'.length = DataSize
    BY <1>0, <1>2, <2>1, <2>2 DEF WriteTool
  <2>4. \A b \in Blocks : disk'[b] = disk[b] \/ disk'[b] = Garbage
    BY <1>2 DEF WriteTool
  <2>5. Frontier(backup) = 0
    BY <2>1, <2>2, FrontierFacts, Sizes
  <2>6. /\ HeaderThere' /\ BufferUnits'
    BY <1>2, <2>1 DEF HeaderThere, BufferUnits, AreaInUse, BetweenChunks, InChunk, AfterChunks
  <2>7. Recorded'
    BY <1>2, <2>1, <2>3 DEF Recorded, Complete, AreaInUse, BetweenChunks, InChunk, AfterChunks
  <2>8. \A p \in 0..Portion - 1 : /\ p \in Blocks /\ p + Offset \in Blocks /\ p >= Frontier(backup)
                                  /\ ~(-2 = p + Offset)
    BY <2>5, Sizes DEF Blocks
  <2>9. Concealing'
    <3>1. ~toggled => Hidden(disk)
      BY <1>0, <2>1, <2>3 DEF Concealing
    <3>2. Hidden(disk) => Hidden(disk')
      BY <1>0, <2>4, <2>8 DEF Hidden
    <3> QED
      BY <1>2, <2>1, <2>3, <3>1, <3>2 DEF Concealing, BetweenChunks, InChunk
  <2>10. StartRight'
    <3>1. ASSUME ~toggled, NEW p \in 0..Portion - 1, disk'[p + Offset].unit = p + Offset
          PROVE  ~disk'[p + Offset].concealed
      <4>1. disk'[p + Offset] = disk[p + Offset]
        BY <1>0, <2>4, <2>8, <3>1
      <4> QED
        BY <1>0, <2>8, <3>1, <4>1 DEF StartRight, InArea
    <3> QED
      BY <1>2, <2>1, <3>1 DEF StartRight, InChunk
  <2> QED
    BY <1>2, <2>6, <2>7, <2>9, <2>10 DEF ConcealInv
<1>3. ASSUME tool # "none", NEW h \in {backup, IF tool = "backup" THEN copy ELSE backup},
             backup' = h
      PROVE  Complete' /\ pc = "idle"
  <2>1. /\ pc = "idle" /\ tool \in {"primary", "backup", "restore"}
        /\ backup.length = DataSize /\ (tool = "backup" => AreaOf(copy) = AreaOf(backup))
    BY <1>3 DEF ControlInv, ToolsTypeOK, Shape, Agreement, PrimaryAgrees
  <2>2. tool = "backup" => copy.length = DataSize
    BY <2>1, HeaderFacts
  <2> QED
    BY <1>3, <2>1, <2>2 DEF Complete
<1>4. CASE ChangePrimary
  <2>1. /\ WriteTool(ToolBlocks, backup) /\ tool # "none" /\ backup' = backup
        /\ pc' = pc /\ toggled' = toggled
    BY <1>4 DEF ChangePrimary, WriteTool
  <2>2. Done'
    BY <1>3, <2>1 DEF Done
  <2> QED
    BY <1>2, <2>1, <2>2
<1>5. CASE FinishTool
  <2>1. /\ WriteTool(ToolBlocks, IF tool = "backup" THEN copy ELSE backup) /\ tool # "none"
        /\ backup' = (IF tool = "backup" THEN copy ELSE backup)
        /\ pc' = pc /\ (~toggled' => ~toggled)
    BY <1>5 DEF FinishTool, WriteTool, EndTool
  <2>2. Done'
    BY <1>3, <2>1 DEF Done
  <2> QED
    BY <1>2, <2>1, <2>2
<1>6. CASE \E report \in {"error", "crash"} : StopTool(report)
  <2>1. PICK B \in SUBSET ToolBlocks, h \in {backup, IF tool = "backup" THEN copy ELSE backup} :
          WriteTool(B, h)
    BY <1>6 DEF StopTool
  <2>2. tool # "none" /\ backup' = h /\ pc' = pc /\ (~toggled' => ~toggled)
    BY <1>6, <2>1 DEF StopTool, WriteTool, EndTool
  <2>3. Done'
    BY <1>3, <2>2 DEF Done
  <2> QED
    BY <1>2, <2>1, <2>2, <2>3
<1> QED
  BY <1>1, <1>4, <1>5, <1>6

(* The invariant holds to begin with, and every step preserves it.         *)
LEMMA ConcealInit == ToolsInit => ConcealInv
<1> SUFFICES ASSUME ToolsInit PROVE ConcealInv
  OBVIOUS
<1>1. /\ pc = "idle" /\ backup = NoHeader /\ result = "none" /\ area = NoArea
      /\ disk = [b \in Blocks |-> IF b \in Data THEN FileSystem(b) ELSE Garbage]
  BY DEF ToolsInit, Init
<1>2. HeaderThere /\ Done /\ BufferUnits /\ Recorded
  BY <1>1 DEF HeaderThere, Done, BufferUnits, Recorded, Complete, AreaInUse, BetweenChunks, InChunk,
              AfterChunks
<1>3. Revealed(disk)
  <2>1. \A b \in 0..Portion - 1 : b \in Data /\ b \in Blocks
    BY Sizes DEF Data, Blocks
  <2>2. \A b \in 0..Portion - 1 : disk[b] = FileSystem(b)
    BY <1>1, <2>1
  <2>3. \A b : ~FileSystem(b).concealed
    BY DEF FileSystem
  <2> QED
    BY <2>2, <2>3 DEF Revealed
<1>4. Concealing
  BY <1>1, <1>3 DEF Concealing, BetweenChunks, InChunk
<1>5. StartRight
  <2>1. \A p \in 0..Portion - 1 : ~(p >= DataSize)
    BY Sizes
  <2> QED
    BY <1>1, <2>1 DEF StartRight, InArea, Using, Frontier, AreaInUse, BetweenChunks, InChunk,
                      AfterChunks
<1> QED
  BY <1>2, <1>4, <1>5 DEF ConcealInv

(* Each step has been dealt with by a lemma of its own.                    *)
LEMMA ConcealStep ==
  ASSUME ControlInv, ContentInv, ConcealInv, [ToolsNext]_allVars
  PROVE  ConcealInv'
<1>1. CASE InPlaceStep(Next)
  BY <1>1, BeginConceal, QuietConceal, ReadConceal, WriteConceal, FailConceal, CloseConceal
     DEF InPlaceStep, Next, Work, Fail
<1>2. CASE UNCHANGED allVars
  <2>1. HeaderThere' /\ Done' /\ Recorded'
    BY <1>2 DEF allVars, vars, deviceVars, jobVars, historyVars, ConcealInv, HeaderThere, Done,
                Recorded, Complete, Shown
  <2>2. Concealing' /\ BufferUnits'
    BY <1>2 DEF allVars, vars, deviceVars, jobVars, historyVars, ConcealInv, Concealing, Hidden,
                Shown, Revealed, BufferUnits
  <2>3. StartRight'
    BY <1>2 DEF allVars, vars, deviceVars, jobVars, historyVars, ConcealInv, StartRight, InArea,
                Using, InWork, InBuffer, Frontier, Edge, Size, Smaller
  <2> QED
    BY <2>1, <2>2, <2>3 DEF ConcealInv
<1> QED
  BY <1>1, <1>2, ToolConceal DEF ToolsNext

(* The invariant holds throughout.                                         *)
LEMMA ConcealCorrect == ToolsSpec => [](ControlInv /\ ContentInv /\ ConcealInv)
<1>1. ToolsInit => ConcealInv
  BY ConcealInit
<1>2. ControlInv /\ ContentInv /\ ConcealInv /\ [ToolsNext]_allVars => ConcealInv'
  BY ConcealStep
<1> QED
  BY <1>1, <1>2, ContentCorrect, PTL DEF ToolsSpec

(* As long as nothing crashed, a partition that is encrypted in part is    *)
(* counted in the settings (SaveNonSysInPlaceEncSettings), whatever jobs,  *)
(* changes of direction, pauses and errors went before.                    *)
THEOREM PartialIsRecorded == ToolsSpec => []PendingRecorded
<1>1. ConcealInv => PendingRecorded
  BY Sizes DEF ConcealInv, Recorded, PendingRecorded, Complete, NoHeader
<1> QED
  BY <1>1, ConcealCorrect, PTL

(* Between jobs Windows never finds the start of the file system of a      *)
(* partition that is encrypted in part: where it is still plain it is      *)
(* concealed, whatever interrupted the jobs.                               *)
THEOREM PartialIsHidden == ToolsSpec => []HiddenWhilePartial
<1>1. ControlInv /\ ContentInv /\ ConcealInv => HiddenWhilePartial
  <2> SUFFICES ASSUME ControlInv, ContentInv, ConcealInv, pc = "idle", ~toggled,
                      backup # NoHeader, NEW b \in 0..Portion - 1, b < backup.start - Offset,
                      b \notin lost
               PROVE  disk[b].concealed
    BY DEF HiddenWhilePartial
  <2>1. b \in Kept /\ b < Frontier(backup)
    BY Sizes DEF Kept, Data, Frontier
  <2>2. Intact(disk, Frontier(backup), b)
    BY <2>1 DEF ContentInv, ContentSafe, Outside
  <2>3. disk[b].unit = Plain
    BY <2>1, <2>2 DEF Intact, Plainly
  <2> QED
    BY <2>3 DEF ConcealInv, Concealing, Hidden
<1> QED
  BY <1>1, ConcealCorrect, PTL

-----------------------------------------------------------------------------
(* Moving a frontier by a chunk, or by what is left, keeps it aligned.     *)
LEMMA AlignedMoves ==
  ASSUME NEW f \in 0..DataSize, Aligned(f)
  PROVE  /\ f >= Chunk => Aligned(f - Chunk)
         /\ f + Chunk <= DataSize => Aligned(f + Chunk)
         /\ Aligned(0) /\ Aligned(DataSize)
         /\ PortionInOneChunk => f \notin 1..Portion - 1
<1>1. ASSUME NEW n \in Nat, Multiple(n) PROVE Multiple(n + Chunk)
  <2>1. PICK k \in Nat : n = k * Chunk
    BY <1>1 DEF Multiple
  <2>2. n + Chunk = (k + 1) * Chunk /\ k + 1 \in Nat
    BY <2>1, Sizes
  <2> QED
    BY <2>2 DEF Multiple
<1>2. ASSUME NEW n \in Nat, Multiple(n), n > 0 PROVE n >= Chunk /\ Multiple(n - Chunk)
  <2>1. PICK k \in Nat : n = k * Chunk
    BY <1>2 DEF Multiple
  <2>2. k > 0
    BY <1>2, <2>1, Sizes
  <2>3. n - Chunk = (k - 1) * Chunk /\ k - 1 \in Nat
    BY <2>1, <2>2, Sizes
  <2>4. (k - 1) * Chunk >= 0
    BY <2>3, Sizes
  <2> QED
    BY <2>3, <2>4, Sizes DEF Multiple
<1>3. Multiple(0)
  BY Sizes DEF Multiple
<1>4. f \in Nat /\ DataSize - f \in Nat /\ DataSize - DataSize = 0 /\ Chunk \in Nat
  BY Sizes
<1>5. ASSUME f >= Chunk PROVE Aligned(f - Chunk)
  <2>1. DataSize - (f - Chunk) = DataSize - f + Chunk /\ f > 0
    BY <1>4, <1>5, Sizes
  <2>2. CASE Multiple(f)
    BY <1>2, <1>4, <2>1, <2>2 DEF Aligned
  <2>3. CASE Multiple(DataSize - f)
    BY <1>1, <1>4, <2>1, <2>3 DEF Aligned
  <2> QED
    BY <2>2, <2>3 DEF Aligned
<1>6. ASSUME f + Chunk <= DataSize PROVE Aligned(f + Chunk)
  <2>1. DataSize - (f + Chunk) = DataSize - f - Chunk /\ DataSize - f > 0
    BY <1>4, <1>6, Sizes
  <2>2. CASE Multiple(f)
    BY <1>1, <1>4, <2>2 DEF Aligned
  <2>3. CASE Multiple(DataSize - f)
    BY <1>2, <1>4, <2>1, <2>3 DEF Aligned
  <2> QED
    BY <2>2, <2>3 DEF Aligned
<1>7. Aligned(0) /\ Aligned(DataSize)
  BY <1>3, <1>4 DEF Aligned
<1>8. ASSUME PortionInOneChunk, f \in 1..Portion - 1 PROVE FALSE
  <2>1. Multiple(f)
    BY <1>8 DEF PortionInOneChunk, Aligned
  <2>2. f > 0 /\ f < Chunk
    BY <1>4, <1>8, Sizes
  <2> QED
    BY <1>2, <1>4, <2>1, <2>2
<1> QED
  BY <1>5, <1>6, <1>7, <1>8

(* What a step leaves of the frontier and of the edge in memory.           *)
LEMMA EdgesKept ==
  ASSUME EdgesAligned,
         Frontier(backup)' = Frontier(backup) \/ (Using /\ Frontier(backup)' = Edge),
         Using' => Using /\ Edge' = Edge
  PROVE  EdgesAligned'
<1>1. Aligned(Frontier(backup)) /\ (Using => Aligned(Edge))
  BY DEF EdgesAligned
<1> QED
  BY <1>1 DEF EdgesAligned, Aligned

(* Frontiers move by whole chunks, from the start or from the end.         *)
LEMMA EdgesStep ==
  ASSUME ControlInv, ContentInv, EdgesAligned, [ToolsNext]_allVars
  PROVE  EdgesAligned'
<1> USE DEF deviceVars, jobVars, historyVars, toolVars
<1>0. TypeOK /\ Shape
  BY DEF ControlInv, ToolsTypeOK
<1>1. CASE InPlaceStep(Begin)
  <2>1. pc' \in {"writeBackup", "open"} /\ backup' = backup
    BY <1>1 DEF InPlaceStep, Begin, BeginEncryption, Resume, StartDecryption, BeginJob
  <2> QED
    BY <2>1, EdgesKept DEF Using, Frontier, AreaInUse, BetweenChunks, InChunk, AfterChunks
<1>2. CASE InPlaceStep(OpenBackupHeader)
  <2>1. /\ area' = AreaOf(backup) /\ backup # NoHeader /\ backup' = backup
    BY <1>0, <1>2 DEF InPlaceStep, OpenBackupHeader, Step, Shape
  <2>2. Edge' = Frontier(backup) /\ Frontier(backup)' = Frontier(backup)
    BY <2>1, HeaderFacts DEF Edge, Frontier
  <2> QED
    BY <2>2 DEF EdgesAligned, Aligned
<1>3. CASE InPlaceStep(WriteChunk)
  <2>1. /\ pc = "write" /\ WriteAll /\ pc \notin UpdateStep
        /\ area' = MovedArea /\ pc \in AreaInUse
    BY <1>3 DEF InPlaceStep, WriteChunk, Step, UpdateStep, AreaInUse, InChunk
  <2>2. Frontier(backup)' = Frontier(backup)
    BY <2>1, FrontierMoves DEF Frontier
  <2>3. /\ Edge \in 0..DataSize /\ Size \in Nat /\ area.start \in Int
        /\ Size = Smaller(remaining, Chunk) /\ remaining \in Nat
        /\ direction = "encrypt" => Edge = remaining
        /\ direction = "decrypt" => Edge = DataSize - remaining
        /\ direction \in {"encrypt", "decrypt"}
    BY <2>1, <1>0, WorkFacts, ChunkFacts DEF Size
  <2>4. /\ direction = "encrypt" => area'.start = area.start - Size
        /\ direction = "decrypt" => area'.start = area.start + Size
    BY <2>1 DEF MovedArea
  <2>5. /\ direction = "encrypt" => Edge' = Edge - Size
        /\ direction = "decrypt" => Edge' = Edge + Size
    BY <2>3, <2>4, Sizes DEF Edge
  <2>6. \/ Edge' = 0 \/ Edge' = DataSize
        \/ Edge >= Chunk /\ Edge' = Edge - Chunk
        \/ Edge + Chunk <= DataSize /\ Edge' = Edge + Chunk
    BY <2>3, <2>5, Sizes DEF Smaller
  <2>7. Aligned(Edge)
    BY <2>1 DEF EdgesAligned, Using
  <2>8. Aligned(Edge')
    BY <2>3, <2>6, <2>7, AlignedMoves
  <2> QED
    BY <2>2, <2>8 DEF EdgesAligned, Aligned
<1>4. ASSUME WriteAll \/ WritePart, area' = area, Using' => Using
      PROVE  EdgesAligned'
  <2>1. Frontier(backup)' = Frontier(backup) \/ (pc \in UpdateStep /\ Frontier(backup)' = Edge)
    BY <1>4, FrontierMoves DEF Frontier
  <2>2. pc \in UpdateStep => Using
    BY DEF UpdateStep, Using, AreaInUse, BetweenChunks
  <2> QED
    BY <1>4, <2>1, <2>2, EdgesKept DEF Edge
<1>5. CASE InPlaceStep(WriteBackupHeader \/ Toggle \/ Untoggle \/ WipeChunk \/ UpdateHeader \/ LastUpdate
                       \/ WritePrimaryHeader \/ ZeroRest \/ UndoWrite)
  <2>1. WriteAll /\ area' = area
    BY <1>5 DEF InPlaceStep, WriteBackupHeader, Toggle, Untoggle, WipeChunk, UpdateHeader,
                LastUpdate, WritePrimaryHeader, ZeroRest, UndoWrite
  <2>2. \/ pc' \in Outside
        \/ pc \in AreaInUse
        \/ pc = "unflip" /\ pc' = "closing" /\ changed' = changed
    BY <1>5 DEF InPlaceStep, WriteBackupHeader, Toggle, Untoggle, WipeChunk, UpdateHeader,
                LastUpdate, WritePrimaryHeader, ZeroRest, UndoWrite, Step, Outside, AreaInUse,
                BetweenChunks, InChunk, AfterChunks
  <2>3. Using' => Using
    BY <1>0, <2>2 DEF Using, Shape, Outside, AreaInUse, BetweenChunks, InChunk, AfterChunks
  <2> QED
    BY <1>4, <2>1, <2>3
<1>6. CASE InPlaceStep(WriteFails)
  <2>1. WritePart /\ area' = area /\ changed' = changed /\ pc \in WriteStep \ {"closing"}
        /\ pc' \in {"undo", "unflip", "closing"} /\ (pc' = "undo" => pc = "write")
    BY <1>6 DEF InPlaceStep, WriteFails
  <2>2. Using' => Using
    BY <1>0, <2>1 DEF Using, Shape, Outside, AreaInUse, BetweenChunks, InChunk, AfterChunks,
                      WriteStep, HeaderStep, UpdateStep
  <2> QED
    BY <1>4, <2>1, <2>2
<1>7. CASE InPlaceStep(CloseJob \/ CloseFails \/ Crash)
  <2>1. (WriteAll \/ WritePart) /\ pc' = "idle"
    BY <1>7 DEF InPlaceStep, CloseJob, CloseFails, Crash, End
  <2>2. ~Using'
    BY <2>1 DEF Using, AreaInUse, BetweenChunks, InChunk, AfterChunks
  <2>3. Frontier(backup)' = Frontier(backup) \/ (Using /\ Frontier(backup)' = Edge)
    BY <2>1, FrontierMoves DEF Frontier, UpdateStep, Using, AreaInUse, BetweenChunks
  <2> QED
    BY <2>2, <2>3, EdgesKept
<1>8. CASE InPlaceStep(\/ RecordJob \/ (\E cancel \in BOOLEAN : GoOn(cancel)) \/ LeaveLoop
                       \/ FinishJob \/ ReadFails \/ ReadChunk
                       \/ \E b \in Span(From, Size) : ReadUnreadable({b}))
  <2>1. backup' = backup /\ area' = area /\ changed' = changed
    BY <1>8 DEF InPlaceStep, RecordJob, GoOn, LeaveLoop, FinishJob, ReadFails, ReadChunk,
                ReadUnreadable
  <2>2. \/ pc' \in Outside
        \/ pc \in AreaInUse
        \/ pc \in Outside /\ pc' = "closing"
    BY <1>8 DEF InPlaceStep, RecordJob, GoOn, LeaveLoop, FinishJob, ReadFails, ReadChunk,
                ReadUnreadable, Step, Outside, AreaInUse, BetweenChunks, InChunk, AfterChunks, ReadStep
  <2>3. Using' => Using
    BY <1>0, <2>1, <2>2 DEF Using, Shape, Outside, AreaInUse, BetweenChunks, InChunk, AfterChunks
  <2> QED
    BY <2>1, <2>3, EdgesKept DEF Edge, Frontier
<1>9. CASE InPlaceStep(Next)
  BY <1>1, <1>2, <1>3, <1>5, <1>6, <1>7, <1>8, <1>9 DEF InPlaceStep, Next, Work, Fail
<1>10. CASE UNCHANGED allVars \/ UseTool
  <2>1. backup' = backup /\ area' = area /\ changed' = changed /\ pc' = pc
    BY <1>10 DEF allVars, vars, UseTool, ChangePwd, RestoreVolumeHeader, RunTool
  <2> QED
    BY <2>1, EdgesKept DEF Edge, Frontier, Using
<1>11. CASE \/ ChangePrimary \/ FinishTool
            \/ \E report \in {"error", "crash"} : StopTool(report)
  <2>1. /\ tool # "none" /\ pc' = pc
        /\ backup' \in {backup, IF tool = "backup" THEN copy ELSE backup}
    BY <1>11 DEF ChangePrimary, FinishTool, StopTool, WriteTool
  <2>2. /\ pc = "idle" /\ tool \in {"primary", "backup", "restore"}
        /\ backup.length = DataSize /\ (tool = "backup" => AreaOf(copy) = AreaOf(backup))
        /\ backup \in Headers /\ copy \in Headers /\ Fits(copy) /\ (backup # NoHeader => Fits(backup))
    BY <2>1 DEF ControlInv, ToolsTypeOK, TypeOK, Shape, Agreement, PrimaryAgrees
  <2>3. tool = "backup" => copy.length = DataSize
    BY <2>2, HeaderFacts
  <2>4. Frontier(backup) = 0 /\ Frontier(copy) \in Int /\ (tool = "backup" => Frontier(copy) = 0)
    BY <2>2, <2>3, FrontierFacts, Sizes
  <2>5. Frontier(backup)' = Frontier(backup)
    <3>1. Frontier(backup)' \in {Frontier(backup), IF tool = "backup" THEN Frontier(copy) ELSE Frontier(backup)}
      BY <2>1 DEF Frontier
    <3> QED
      BY <2>4, <3>1
  <2>6. ~Using'
    BY <2>1, <2>2 DEF Using, AreaInUse, BetweenChunks, InChunk, AfterChunks
  <2> QED
    BY <2>5, <2>6, EdgesKept
<1> QED
  BY <1>9, <1>10, <1>11 DEF ToolsNext

(* Reading a chunk conceals the start of the file system, or uncovers it,  *)
(* and nothing else: no chunk begins within the start.                     *)
LEMMA BeyondRead ==
  ASSUME ControlInv, ContentInv, EdgesAligned, Beyond, PortionInOneChunk,
         ReadChunk \/ \E b \in Span(From, Size) : ReadUnreadable({b}),
         NEW p \in Portion..DataSize - 1, InWork(p)', InBuffer(p)'.unit \in {Plain, p + Offset}
  PROVE  ~InBuffer(p)'.concealed
<1>1. /\ pc = "read"
      /\ \A b \in Blocks : disk'[b] = disk[b] \/ disk'[b] = Garbage
  BY ChunkRead
<1>2. PICK cells \in [Blocks -> Content] :
        /\ buf' = Transformed(cells)
        /\ \A b \in Blocks : cells[b] = disk[b] \/ cells[b] = Garbage
  BY ChunkRead
<1>3. /\ p \in Data /\ p \in Int /\ p >= 0 /\ p >= Portion /\ ~(p < Portion)
      /\ Garbage.unit = -2 /\ Plain = -1 /\ ~(-2 = p + Offset) /\ ~(p + Offset < 0)
  BY Sizes DEF Data, Garbage, Plain
<1>4. /\ disk[p].unit = Plain => ~disk[p].concealed
      /\ disk[p + Offset].unit = p + Offset => ~disk[p + Offset].concealed
  BY DEF Beyond
<1>5. /\ p + Offset \in Blocks /\ p \in Blocks
      /\ Edge \in Int /\ Size \in Nat /\ direction \in {"encrypt", "decrypt"}
  BY <1>3, InBufferRead
<1>6. CASE direction = "encrypt"
  <2>1. /\ p - (Edge - Size) \in 0..Size - 1 /\ Edge - Size + (p - (Edge - Size)) = p
        /\ InBuffer(p)' = buf'[p - (Edge - Size)]
    BY <1>3, <1>6, InBufferRead
  <2>2. /\ Transformed(cells)[p - (Edge - Size)].unit # Plain
        /\ Transformed(cells)[p - (Edge - Size)].unit = p + Offset =>
             /\ cells[p].unit = Plain
             /\ Transformed(cells)[p - (Edge - Size)].concealed <=>
                  IF p < Portion THEN ~cells[p].concealed ELSE cells[p].concealed
    BY <1>1, <1>6, <2>1, Turned
  <2>3. cells[p].unit = Plain => ~cells[p].concealed
    <3>1. cells[p] = disk[p] \/ cells[p] = Garbage
      BY <1>2, <1>5
    <3> QED
      BY <1>3, <1>4, <3>1
  <2> QED
    BY <1>2, <1>3, <2>1, <2>2, <2>3
<1>7. CASE direction = "decrypt"
  <2>1. /\ p - Edge \in 0..Size - 1 /\ Edge + (p - Edge) = p /\ p >= Edge
        /\ InBuffer(p)' = buf'[p - Edge]
    BY <1>3, <1>7, InBufferRead
  <2>2. Edge \notin 1..Portion - 1
    <3>1. Edge \in 0..DataSize /\ Aligned(Edge)
      <4>1. pc \in AreaInUse
        BY <1>1 DEF AreaInUse, BetweenChunks
      <4> QED
        BY <4>1, WorkFacts DEF EdgesAligned, Using
    <3> QED
      BY <3>1, AlignedMoves
  <2>3. /\ Transformed(cells)[p - Edge].unit < 0
        /\ Transformed(cells)[p - Edge].unit = Plain =>
             /\ cells[p + Offset].unit = p + Offset
             /\ p >= Portion /\ Edge \notin 1..Portion - 1 =>
                  (Transformed(cells)[p - Edge].concealed <=> cells[p + Offset].concealed)
    BY <1>1, <1>7, <2>1, Turned
  <2>4. cells[p + Offset].unit = p + Offset => ~cells[p + Offset].concealed
    <3>1. cells[p + Offset] = disk[p + Offset] \/ cells[p + Offset] = Garbage
      BY <1>2, <1>5
    <3> QED
      BY <1>3, <1>4, <3>1
  <2>5. InBuffer(p)'.unit = Transformed(cells)[p - Edge].unit
    BY <1>2, <2>1
  <2>6. Transformed(cells)[p - Edge].unit = Plain
    BY <1>3, <2>3, <2>5
  <2> QED
    BY <1>2, <1>3, <2>1, <2>2, <2>3, <2>4, <2>6
<1> QED
  BY <1>5, <1>6, <1>7

(* Every step writes, leaves the disk alone or puts random data on it; one *)
(* that stays in a chunk, or leads to one, has it in the buffer already,   *)
(* or has read it.                                                         *)
LEMMA BeyondMoves ==
  ASSUME ControlInv, ContentInv, [ToolsNext]_allVars
  PROVE  /\ \/ WriteAll \/ WritePart
            \/ \A b \in Blocks : disk'[b] = disk[b] \/ disk'[b] = Garbage
         /\ pc' \in InChunk =>
              \/ ReadChunk \/ \E b \in Span(From, Size) : ReadUnreadable({b})
              \/ pc \in InChunk /\ UNCHANGED <<buf, direction, area, remaining>>
<1> USE DEF deviceVars, jobVars, historyVars, toolVars
<1>0. tool # "none" => pc = "idle"
  BY DEF ControlInv, Shape
<1>1. CASE InPlaceStep(ReadChunk \/ \E b \in Span(From, Size) : ReadUnreadable({b}))
  BY <1>1, ChunkRead DEF InPlaceStep
<1>2. CASE InPlaceStep(WipeChunk \/ WriteFails)
  <2>1. /\ WriteAll \/ WritePart
        /\ UNCHANGED <<direction, area, remaining>>
        /\ pc' \in InChunk => pc = "write" /\ buf' = buf
    BY <1>2 DEF InPlaceStep, WipeChunk, WriteFails, Step, InChunk
  <2> QED
    BY <2>1 DEF InChunk
<1>3. CASE InPlaceStep(WriteBackupHeader \/ Toggle \/ Untoggle \/ WriteChunk \/ UpdateHeader
                       \/ LastUpdate \/ WritePrimaryHeader \/ ZeroRest \/ UndoWrite
                       \/ CloseJob \/ CloseFails \/ Crash)
  BY <1>3 DEF InPlaceStep, WriteBackupHeader, Toggle, Untoggle, WriteChunk, UpdateHeader,
              LastUpdate, AfterLoop, WritePrimaryHeader, ZeroRest, UndoWrite, CloseJob, CloseFails,
              Crash, End, Step, InChunk
<1>4. CASE InPlaceStep(Begin \/ RecordJob \/ OpenBackupHeader \/ (\E cancel \in BOOLEAN : GoOn(cancel))
                       \/ LeaveLoop \/ FinishJob \/ ReadFails)
  <2>1. disk' = disk /\ pc' \notin InChunk
    BY <1>4 DEF InPlaceStep, Begin, BeginEncryption, Resume, StartDecryption, BeginJob, RecordJob,
                OpenBackupHeader, GoOn, LeaveLoop, FinishJob, ReadFails, Step, InChunk
  <2> QED
    BY <2>1
<1>5. CASE InPlaceStep(Next)
  BY <1>1, <1>2, <1>3, <1>4, <1>5 DEF InPlaceStep, Next, Work, Fail
<1>6. CASE UNCHANGED allVars
  BY <1>6 DEF allVars, vars
<1>7. CASE UseTool
  <2>1. disk' = disk /\ pc' = "idle"
    BY <1>7 DEF UseTool, ChangePwd, RestoreVolumeHeader, RunTool
  <2> QED
    BY <2>1 DEF InChunk
<1>8. CASE ChangePrimary \/ FinishTool \/ \E report \in {"error", "crash"} : StopTool(report)
  <2>1. PICK B \in SUBSET ToolBlocks, h \in {backup, IF tool = "backup" THEN copy ELSE backup} :
          WriteTool(B, h)
    BY <1>8 DEF ChangePrimary, FinishTool, StopTool
  <2>2. tool # "none" /\ pc' = pc
    BY <1>8 DEF ChangePrimary, FinishTool, StopTool
  <2>3. \A b \in Blocks : disk'[b] = disk[b] \/ disk'[b] = Garbage
    BY <2>1 DEF WriteTool
  <2> QED
    BY <1>0, <2>2, <2>3 DEF InChunk
<1> QED
  BY <1>5, <1>6, <1>7, <1>8 DEF ToolsNext

(* Nothing beyond the start comes to be concealed.                         *)
LEMMA BeyondStep ==
  ASSUME ControlInv, ContentInv, ConcealInv, EdgesAligned, Beyond, PortionInOneChunk,
         [ToolsNext]_allVars
  PROVE  Beyond'
<1>1. ASSUME NEW p \in Portion..DataSize - 1
      PROVE  /\ disk'[p].unit = Plain => ~disk'[p].concealed
             /\ disk'[p + Offset].unit = p + Offset => ~disk'[p + Offset].concealed
  <2>1. CASE WriteAll \/ WritePart
    BY <1>1, <2>1, BeyondWritten DEF ConcealInv
  <2>2. CASE \A b \in Blocks : disk'[b] = disk[b] \/ disk'[b] = Garbage
    <3>1. /\ p \in Blocks /\ p + Offset \in Blocks
          /\ Garbage.unit # Plain /\ Garbage.unit # p + Offset
      BY Sizes DEF Blocks, Garbage, Plain
    <3>2. /\ disk[p].unit = Plain => ~disk[p].concealed
          /\ disk[p + Offset].unit = p + Offset => ~disk[p + Offset].concealed
      BY DEF Beyond
    <3>3. /\ disk'[p] = disk[p] \/ disk'[p] = Garbage
          /\ disk'[p + Offset] = disk[p + Offset] \/ disk'[p + Offset] = Garbage
      BY <2>2, <3>1
    <3> QED
      BY <3>1, <3>2, <3>3
  <2> QED
    BY <2>1, <2>2, BeyondMoves
<1>2. ASSUME NEW p \in Portion..DataSize - 1, pc' \in InChunk, InWork(p)',
             InBuffer(p)'.unit \in {Plain, p + Offset}
      PROVE  ~InBuffer(p)'.concealed
  <2>1. CASE ReadChunk \/ \E b \in Span(From, Size) : ReadUnreadable({b})
    BY <1>2, <2>1, BeyondRead
  <2>2. CASE pc \in InChunk /\ UNCHANGED <<buf, direction, area, remaining>>
    <3>1. (InWork(p)' <=> InWork(p)) /\ InBuffer(p)' = InBuffer(p)
      BY <2>2 DEF InWork, InBuffer, Edge, Size, Smaller
    <3> QED
      BY <1>2, <2>2, <3>1 DEF Beyond
  <2> QED
    BY <1>2, <2>1, <2>2, BeyondMoves
<1> QED
  BY <1>1, <1>2 DEF Beyond

(* In the beginning nothing is concealed, and there is no header.          *)
LEMMA BeyondInit == ToolsInit => EdgesAligned /\ Beyond
<1> SUFFICES ASSUME ToolsInit PROVE EdgesAligned /\ Beyond
  OBVIOUS
<1>1. /\ pc = "idle" /\ backup = NoHeader
      /\ disk = [b \in Blocks |-> IF b \in Data THEN FileSystem(b) ELSE Garbage]
  BY DEF ToolsInit, Init
<1>2. EdgesAligned
  <2>1. Multiple(0)
    BY Sizes DEF Multiple
  <2>2. Aligned(DataSize)
    BY <2>1, Sizes DEF Aligned
  <2> QED
    BY <1>1, <2>2 DEF EdgesAligned, Frontier, Using, AreaInUse, BetweenChunks, InChunk, AfterChunks
<1>3. Beyond
  <2>1. \A b \in Blocks : ~disk[b].concealed
    BY <1>1 DEF FileSystem, Garbage
  <2>2. \A p \in Portion..DataSize - 1 : p \in Blocks /\ p + Offset \in Blocks
    BY Sizes DEF Blocks
  <2> QED
    BY <1>1, <2>1, <2>2 DEF Beyond, InChunk
<1> QED
  BY <1>2, <1>3

(* What is recovered of a complete volume, or of the file system after a   *)
(* complete decryption, is in the open.                                    *)
LEMMA RecoveredInTheOpen ==
  ASSUME ControlInv, ContentInv, ConcealInv, Beyond, pc = "idle", ~toggled, Complete, NEW p \in Data
  PROVE  ~Recovered(disk, backup, p).concealed
<1>1. /\ TypeOK /\ Shape /\ Concealing /\ StartRight
      /\ p \in Int /\ p \in Blocks /\ p + Offset \in Blocks
      /\ p \in 0..Portion - 1 \/ p \in Portion..DataSize - 1
      /\ disk[p] \in Content /\ disk[p + Offset] \in Content
      /\ backup \in Headers /\ (backup # NoHeader => Fits(backup)) /\ ~Garbage.concealed
  BY Sizes DEF ControlInv, ConcealInv, ToolsTypeOK, TypeOK, Shape, Data, Blocks, Garbage
<1>2. CASE backup = NoHeader
  <2>1. disk[p].unit = Plain => ~disk[p].concealed
    BY <1>1, <1>2 DEF Concealing, Revealed, Beyond
  <2> QED
    BY <1>1, <1>2, <2>1 DEF Recovered, AsPlain
<1>3. CASE backup # NoHeader
  <2>1. backup.length = DataSize /\ Frontier(backup) = 0 /\ p >= 0
    BY <1>1, <1>3, FrontierFacts, Sizes DEF Complete, Data
  <2>2. disk[p + Offset].unit = p + Offset => ~disk[p + Offset].concealed
    BY <1>1, <2>1 DEF StartRight, InArea, Beyond
  <2>3. p + Offset \in Span(backup.start, backup.length)
    <3>1. backup.start = Offset
      BY <1>1, <1>3, <2>1, Sizes DEF Frontier, Headers
    <3> QED
      BY <1>1, <2>1, <3>1, Sizes DEF Span, Data
  <2>4. Recovered(disk, backup, p) = Decrypt(disk[p + Offset], p + Offset)
    BY <1>3, <2>3 DEF Recovered
  <2>5. CASE disk[p + Offset].unit = p + Offset
    <3>1. /\ disk[p + Offset] # Garbage
          /\ Decrypt(disk[p + Offset], p + Offset) = [disk[p + Offset] EXCEPT !.unit = Plain]
      BY <1>1, <2>5, Sizes DEF Decrypt, Garbage, Blocks
    <3>2. Decrypt(disk[p + Offset], p + Offset).concealed <=> disk[p + Offset].concealed
      BY <1>1, <3>1 DEF Content
    <3> QED
      BY <2>2, <2>4, <2>5, <3>2
  <2>6. CASE disk[p + Offset].unit # p + Offset
    BY <1>1, <2>4, <2>6 DEF Decrypt
  <2> QED
    BY <2>5, <2>6
<1> QED
  BY <1>2, <1>3

(* What a completed job leaves behind is the file system in the open, with *)
(* nothing concealed, and so is what a volume that can be mounted holds,   *)
(* whatever jobs were interrupted on the way.  Provided that no chunk      *)
(* begins within the start that is concealed: see Cover, which would flip  *)
(* what lies behind the start.                                             *)
THEOREM OpenWhenDone ==
  ASSUME PortionInOneChunk
  PROVE  ToolsSpec => []RevealedWhenDone
<1>1. ToolsInit => EdgesAligned /\ Beyond
  BY BeyondInit
<1>2. ControlInv /\ ContentInv /\ ConcealInv /\ EdgesAligned /\ Beyond /\ [ToolsNext]_allVars
      => EdgesAligned' /\ Beyond'
  BY EdgesStep, BeyondStep
<1>3. ControlInv /\ ContentInv /\ ConcealInv /\ Beyond => RevealedWhenDone
  <2> SUFFICES ASSUME ControlInv, ContentInv, ConcealInv, Beyond, pc = "idle", ~toggled,
                      result = "success" \/ Mountable(backup), NEW p \in Data \ lost
               PROVE  ~Recovered(disk, backup, p).concealed
    BY DEF RevealedWhenDone
  <2>1. Complete
    BY DEF ConcealInv, Done, Mountable, Complete
  <2> QED
    BY <2>1, RecoveredInTheOpen
<1> QED
  BY <1>1, <1>2, <1>3, ConcealCorrect, PTL DEF ToolsSpec

-----------------------------------------------------------------------------
(* What a failed write of an encryption leaves, unless it is undone, and   *)
(* what the undo leaves.                                                   *)
LEMMA OneWriteFailed ==
  ASSUME ControlInv, ContentInv, ErrorInv, direction = "encrypt", changed' = changed, area' = area,
         \/ WritePart /\ pc \in (Outside \cup AreaInUse) \ {"undo"} /\ (pc = "write" => Size <= Offset)
         \/ WriteAll /\ pc \in {"undo", "unflip"},
         NEW p \in Kept
  PROVE  Intact(disk', Closed', p)
<1>0. /\ TypeOK /\ Shape /\ changed \in BOOLEAN /\ p \in Int
      /\ pc \in Outside => ~changed /\ pc \notin InChunk /\ pc \notin UpdateStep
  BY Sizes DEF ControlInv, ToolsTypeOK, TypeOK, Shape, Outside, InChunk, UpdateStep, Kept, Data
<1>1. Closed' = IF changed THEN Edge ELSE Frontier(backup')
  BY <1>0 DEF Closed, Edge, Frontier
<1>2. CASE pc \in Outside
  <2>1. Frontier(backup') = Frontier(backup)
    BY <1>0, <1>2, FrontierMoves
  <2> QED
    BY <1>0, <1>1, <1>2, <2>1, OuterWrite
<1>3. ASSUME pc \in AreaInUse PROVE Closed' = Edge
  <2>1. CASE changed
    BY <1>1, <2>1
  <2>2. CASE ~changed
    <3>1. Frontier(backup) = Edge
      <4>1. CASE pc \in BetweenChunks \cup InChunk
        <5>1. distance = 0 /\ Frontier(backup) = Edge + distance /\ Edge \in Int
          BY <1>3, <2>2, <4>1, WorkFacts DEF ErrorInv
        <5> QED
          BY <5>1
      <4>2. CASE pc \in AfterChunks
        BY <4>2 DEF ContentInv, Bookkeeping
      <4> QED
        BY <1>3, <4>1, <4>2 DEF AreaInUse
    <3>2. Frontier(backup') = Edge
      BY <3>1, FrontierMoves
    <3> QED
      BY <1>1, <2>2, <3>2
  <2> QED
    BY <1>0, <2>1, <2>2
<1>4. CASE pc \in AreaInUse /\ pc \notin InChunk
  BY <1>3, <1>4, OuterWrite
<1>5. CASE pc \in InChunk
  <2>1. /\ pc \in AreaInUse /\ Closed' = Edge /\ Edge \in Int /\ Size \in Nat /\ distance \in Nat
        /\ Frontier(backup) = Edge + distance
    BY <1>3, <1>5, WorkFacts DEF AreaInUse
  <2>2. /\ p < Edge - Size + Offset /\ p < Frontier(backup) => Plainly(disk', p)
        /\ p >= Edge => Encrypted(disk', p)
    BY <1>5, ChunkWrite
  <2>3. p < Edge /\ p < Edge - Size + Offset => Plainly(disk', p)
    BY <1>0, <2>1, <2>2
  <2>4. CASE pc = "write"
    <3>1. Size <= Offset
      BY <2>4
    <3>2. p < Edge => p < Edge - Size + Offset
      BY <1>0, <2>1, <3>1, Sizes
    <3> QED
      BY <1>0, <2>1, <2>2, <2>3, <3>2 DEF Intact
  <2>5. CASE pc = "undo"
    <3>1. WriteAll /\ Size > Offset
      BY <1>0, <2>5 DEF Shape, Outside, AreaInUse
    <3>2. /\ To = Edge - Size + Offset /\ UnitNo = To
      BY <1>5, BufferFacts
    <3>3. ASSUME p < Edge, p >= Edge - Size + Offset
          PROVE  Plainly(disk', p)
      <4>1. /\ InWork(p) /\ p \in Blocks /\ p \in Span(To, Size - Offset)
            /\ p - To + Offset = p - (Edge - Size)
            /\ UnitNo + p - To + Offset = p + Offset /\ p + Offset \in Blocks
        BY <1>0, <2>1, <3>2, <3>3, Sizes DEF InWork, Span, Blocks, Kept, Data
      <4>2. buf[p - (Edge - Size)].data = p /\ buf[p - (Edge - Size)].unit = p + Offset
        BY <1>5, <4>1 DEF ContentInv, ContentSafe
      <4>3. NewBlocks = [b \in Span(To, Size - Offset) |->
                           Decrypt(buf[b - To + Offset], UnitNo + b - To + Offset)]
        BY <2>5 DEF NewBlocks
      <4>4. disk'[p] = Decrypt(buf[p - (Edge - Size)], p + Offset)
        <5>1. p \in DOMAIN NewBlocks /\ NewBlocks[p] = Decrypt(buf[p - (Edge - Size)], p + Offset)
          BY <4>1, <4>3
        <5> QED
          BY <3>1, <4>1, <5>1 DEF WriteAll, Write
      <4>5. buf[p - (Edge - Size)] \in Content
        <5>1. p - (Edge - Size) \in 0..Size - 1
          BY <1>0, <2>1, <3>3, Sizes
        <5> QED
          BY <1>5, <5>1, BufferFacts
      <4> QED
        BY <4>1, <4>2, <4>4, <4>5, ContentFacts DEF Plainly
    <3> QED
      BY <1>0, <2>1, <2>2, <2>3, <3>3, Sizes DEF Intact
  <2> QED
    BY <1>5, <2>4, <2>5 DEF InChunk
<1> QED
  BY <1>2, <1>4, <1>5 DEF Outside, AreaInUse, InChunk

(* The steps to closing_seq after an error, and all others.                *)
LEMMA ErrorStep ==
  ASSUME ControlInv, ContentInv, ErrorInv, [ToolsNext]_allVars
  PROVE  ErrorInv'
<1> USE DEF deviceVars, jobVars, historyVars, toolVars
<1>0. /\ TypeOK /\ Shape /\ errors \in Nat /\ changed \in BOOLEAN
      /\ tool # "none" => pc = "idle"
  BY Sizes DEF ControlInv, ToolsTypeOK, TypeOK, Shape
<1>1. ASSUME pc' \notin {"undo", "unflip", "closing"} \cup BetweenChunks \cup InChunk
      PROVE  ErrorInv'
  BY <1>1 DEF ErrorInv
<1>2. CASE InPlaceStep(Begin \/ WriteBackupHeader \/ Toggle \/ RecordJob \/ WritePrimaryHeader
                       \/ ZeroRest \/ CloseJob \/ CloseFails \/ Crash)
  <2>1. pc' \notin {"undo", "unflip", "closing"} \cup BetweenChunks \cup InChunk
    BY <1>2 DEF InPlaceStep, Begin, BeginEncryption, Resume, StartDecryption, BeginJob,
                WriteBackupHeader, Toggle, RecordJob, WritePrimaryHeader, ZeroRest, CloseJob,
                CloseFails, Crash, End, Step, BetweenChunks, InChunk
  <2> QED
    BY <1>1, <2>1
<1>3. CASE InPlaceStep(OpenBackupHeader \/ ReadChunk \/ WipeChunk \/ WriteChunk \/ UpdateHeader
                       \/ (\E cancel \in BOOLEAN : GoOn(cancel)) \/ LeaveLoop
                       \/ \E b \in Span(From, Size) : ReadUnreadable({b}))
  <2>1. pc' \notin {"undo", "unflip", "closing"}
    BY <1>3 DEF InPlaceStep, OpenBackupHeader, ReadChunk, WipeChunk, WriteChunk, UpdateHeader, GoOn,
                LeaveLoop, ReadUnreadable, Step
  <2>2. \/ changed' \/ distance' = 0
        \/ pc = "open" /\ distance' = distance
        \/ pc \in BetweenChunks \cup InChunk /\ distance' = distance /\ changed' = changed
    BY <1>3 DEF InPlaceStep, OpenBackupHeader, ReadChunk, WipeChunk, WriteChunk, UpdateHeader, GoOn,
                LeaveLoop, ReadUnreadable, Step, BetweenChunks, InChunk
  <2>3. pc = "open" => distance = 0
    BY DEF ContentInv, Bookkeeping, Outside
  <2> QED
    BY <2>1, <2>2, <2>3 DEF ErrorInv
<1>4. CASE InPlaceStep(LastUpdate \/ FinishJob)
  BY <1>4 DEF InPlaceStep, LastUpdate, AfterLoop, FinishJob, Step, ErrorInv, BetweenChunks, InChunk
<1>5. ASSUME pc' = "closing", errors' > 0, lost' = lost,
             direction' = "encrypt" /\ errors' = 1 => \A p \in Kept : Intact(disk', Closed', p)
      PROVE  ErrorInv'
  <2>1. Kept' = Kept
    BY <1>5 DEF Kept
  <2> QED
    BY <1>5, <2>1 DEF ErrorInv, BetweenChunks, InChunk, Intact, Plainly, Encrypted
<1>6. CASE InPlaceStep(ReadFails)
  <2>1. /\ pc' = "closing" /\ errors' = errors + 1 /\ pc \in ReadStep
        /\ UNCHANGED <<disk, backup, direction, area, changed, lost>>
    BY <1>6 DEF InPlaceStep, ReadFails
  <2>2. ASSUME direction = "encrypt", NEW p \in Kept
        PROVE  Intact(disk', Closed', p)
    <3>1. Closed' = Closed
      BY <2>1 DEF Closed, Edge, Frontier
    <3>2. CASE pc \in Outside
      <4>1. Closed = Frontier(backup)
        BY <1>0, <3>2 DEF Closed, Shape
      <4> QED
        BY <2>1, <3>1, <3>2, <4>1 DEF ContentInv, ContentSafe
    <3>3. CASE pc \notin Outside
      <4>1. pc \in BetweenChunks \cup AfterChunks /\ pc \in AreaInUse
        BY <2>1, <3>3 DEF ReadStep, Outside, BetweenChunks, AfterChunks, AreaInUse
      <4>2. Intact(disk, Edge, p)
        BY <2>2, <4>1 DEF ContentInv, ContentSafe
      <4>3. ~changed => Frontier(backup) = Edge
        <5>1. CASE pc \in AfterChunks
          BY <5>1 DEF ContentInv, Bookkeeping
        <5>2. CASE pc \in BetweenChunks
          <6>1. Frontier(backup) = Edge + distance /\ Edge \in Int /\ (~changed => distance = 0)
            BY <2>2, <4>1, <5>2, WorkFacts DEF ErrorInv
          <6> QED
            BY <6>1
        <5> QED
          BY <4>1, <5>1, <5>2
      <4> QED
        BY <1>0, <2>1, <3>1, <4>2, <4>3 DEF Closed
    <3> QED
      BY <3>2, <3>3
  <2> QED
    BY <1>0, <1>5, <2>1, <2>2
<1>7. CASE InPlaceStep(UndoWrite \/ Untoggle)
  <2>1. /\ pc' = "closing" /\ pc \in {"undo", "unflip"} /\ WriteAll
        /\ UNCHANGED <<errors, direction, area, changed, lost>>
    BY <1>7 DEF InPlaceStep, UndoWrite, Untoggle, Step
  <2>2. errors > 0
    BY <2>1 DEF ErrorInv
  <2>3. ASSUME direction = "encrypt", NEW p \in Kept
        PROVE  Intact(disk', Closed', p)
    BY <2>1, <2>3, OneWriteFailed
  <2> QED
    BY <1>5, <2>1, <2>2, <2>3
<1>8. CASE InPlaceStep(WriteFails)
  <2>1. /\ WritePart /\ errors' = errors + 1 /\ pc \in WriteStep \ {"closing"}
        /\ UNCHANGED <<direction, area, changed, lost, distance>>
        /\ pc' \in {"undo", "unflip", "closing"}
        /\ pc' = "closing" => ~(pc = "write" /\ Undoable) /\ pc # "unflip"
    BY <1>8 DEF InPlaceStep, WriteFails
  <2>2. CASE pc' = "closing"
    <3>1. ASSUME direction = "encrypt", errors' = 1, NEW p \in Kept
          PROVE  Intact(disk', Closed', p)
      <4>1. pc # "undo"
        BY <1>0, <2>1, <3>1 DEF ErrorInv
      <4>2. pc \in Outside \cup AreaInUse
        BY <2>1 DEF WriteStep, HeaderStep, UpdateStep, Outside, AreaInUse, BetweenChunks, InChunk,
                    AfterChunks
      <4>3. pc = "write" => Size <= Offset
        <5>1. pc = "write" => Size \in Nat
          BY WorkFacts DEF AreaInUse, InChunk
        <5> QED
          BY <2>1, <2>2, <3>1, <5>1, Sizes DEF Undoable
      <4> QED
        BY <2>1, <3>1, <4>1, <4>2, <4>3, OneWriteFailed
    <3> QED
      BY <1>0, <1>5, <2>1, <2>2, <3>1
  <2>3. CASE pc' = "undo"
    <3>1. pc = "write"
      BY <1>8, <2>3 DEF InPlaceStep, WriteFails
    <3> QED
      BY <1>0, <2>1, <2>3, <3>1 DEF ErrorInv, InChunk
  <2>4. CASE pc' = "unflip"
    BY <1>0, <2>1, <2>4 DEF ErrorInv, BetweenChunks, InChunk
  <2> QED
    BY <2>1, <2>2, <2>3, <2>4
<1>9. CASE InPlaceStep(Next)
  BY <1>2, <1>3, <1>4, <1>6, <1>7, <1>8, <1>9 DEF InPlaceStep, Next, Work, Fail
<1>10. CASE \/ UseTool \/ ChangePrimary \/ FinishTool
            \/ \E report \in {"error", "crash"} : StopTool(report)
  <2>1. pc' = "idle"
    BY <1>0, <1>10 DEF UseTool, ChangePwd, RestoreVolumeHeader, RunTool, ChangePrimary, FinishTool,
                       StopTool
  <2> QED
    BY <1>1, <2>1 DEF BetweenChunks, InChunk
<1>11. CASE UNCHANGED allVars
  BY <1>11 DEF allVars, vars, ErrorInv, Kept, Intact, Plainly, Encrypted, Closed, Edge, Frontier
<1> QED
  BY <1>9, <1>10, <1>11 DEF ToolsNext

(* A single device error during encryption, wherever it strikes, costs     *)
(* nothing: a failed write is undone as far as it overlaps what was read,  *)
(* and closing_seq saves where the encrypted area begins.                  *)
THEOREM SingleErrorUndone == ToolsSpec => EncryptionErrorUndone
<1>1. ToolsInit => ErrorInv
  BY DEF ToolsInit, Init, ErrorInv, BetweenChunks, InChunk
<1>2. ControlInv /\ ContentInv /\ ErrorInv /\ [ToolsNext]_allVars => ErrorInv'
  BY ErrorStep
<1>3. ASSUME ControlInv, ContentInv, ErrorInv, direction = "encrypt",
             (CloseJob /\ errors <= 1) \/ (CloseFails /\ errors = 0)
      PROVE  lost' = lost
  <2>1. /\ pc = "closing" /\ lost' = lost \cup Wrong(disk', backup')
        /\ WriteAll \/ (WritePart /\ errors = 0)
        /\ errors <= 1 /\ TypeOK /\ Shape /\ errors \in Nat
        /\ outcome \in {"error", "paused", "success"} /\ changed \in BOOLEAN
    BY <1>3, Sizes DEF CloseJob, CloseFails, End, ControlInv, ToolsTypeOK, TypeOK
  <2>2. /\ disk' \in [Blocks -> Content] /\ backup' \in Headers
        /\ backup' # NoHeader => Fits(backup')
    BY <2>1, DeviceTyped
  <2>3. ASSUME NEW p \in Kept PROVE Intact(disk', Frontier(backup'), p)
    <3>1. CASE outcome # "error"
      BY <1>3, <2>1, <3>1, WriteLossy
    <3>2. CASE outcome = "error"
      <4>1. errors = 1 /\ WriteAll /\ Intact(disk, Closed, p)
        BY <1>3, <2>1, <3>2 DEF ErrorInv
      <4>2. disk'[p] = disk[p] /\ disk'[p + Offset] = disk[p + Offset]
        BY <1>3, <2>1, OuterWrite DEF InChunk
      <4>3. Frontier(backup') = Closed
        BY <1>3, <2>1, <4>1, FrontierMoves DEF Closed, UpdateStep
      <4> QED
        BY <4>1, <4>2, <4>3 DEF Intact, Plainly, Encrypted
    <3> QED
      BY <3>1, <3>2
  <2>4. Wrong(disk', backup') \subseteq lost
    BY <2>2, <2>3, WrongFacts DEF Wrong, Kept
  <2> QED
    BY <2>1, <2>4
<1>4. ControlInv /\ ContentInv /\ ErrorInv =>
        [direction = "encrypt" /\ \/ CloseJob /\ errors <= 1
                                  \/ CloseFails /\ errors = 0
           => lost' = lost]_vars
  BY <1>3
<1> QED
  BY <1>1, <1>2, <1>4, ContentCorrect, PTL DEF ToolsSpec, EncryptionErrorUndone

=============================================================================
