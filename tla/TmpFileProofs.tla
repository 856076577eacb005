--------------------------- MODULE TmpFileProofs ---------------------------
(***************************************************************************)
(* Proofs about TmpFile: for every size of the memory, of the buffer and   *)
(* of the file, the two parts and the buffer are one file.                 *)
(***************************************************************************)
EXTENDS TmpFile, TLAPS

\* What is not on disk is in memory.
Sizes == fileLen <= MaxLen /\ diskLen = Border(fileLen)

\* The pointer on disk is behind what the buffer holds.
Pointer == filePos + ahead <= fileLen /\ phys = Border(filePos + ahead)

\* The buffer holds the bytes that follow.
Buffered == \A i \in 0 .. ahead - 1 : buf[i] = Content[filePos + i]

\* The end is noted only where it is.
Ended == buffEof => ahead = 0 /\ filePos = fileLen

FileInv == TypeOK /\ Sizes /\ Pointer /\ Buffered /\ Ended

LEMMA EmptyType == \A S, n : n = 0 => Empty \in [0 .. n - 1 -> S]
<1> SUFFICES ASSUME NEW S PROVE Empty \in [0 .. 0 - 1 -> S]
  OBVIOUS
<1>1. 0 .. 0 - 1 = {}
  OBVIOUS
<1> QED BY <1>1 DEF Empty

LEMMA ContentType ==
  ASSUME TypeOK, Sizes
  PROVE  Content \in [0 .. fileLen - 1 -> Bytes]
<1> SUFFICES ASSUME NEW i \in 0 .. fileLen - 1
             PROVE  (IF i < Mem THEN mem[i] ELSE OnDisk(i - Mem)) \in Bytes
  BY DEF Content
<1>1. CASE i < Mem
  BY <1>1, TmpFileAssumption DEF TypeOK
<1>2. CASE ~(i < Mem)
  <2>1. i - Mem \in 0 .. diskLen - 1
    BY <1>2, TmpFileAssumption DEF TypeOK, Sizes, Border, Larger
  <2> QED BY <1>2, <2>1 DEF OnDisk, TypeOK
<1> QED BY <1>1, <1>2

\* iread returns the bytes of the file from filePos on and leaves the pointer behind them.
LEMMA FetchedIsContent ==
  ASSUME FileInv, ahead = 0, NEW k \in Nat, filePos + k <= fileLen
  PROVE  /\ Fetched(k) = Part(Content, filePos, k)
         /\ Fetched(k) \in [0 .. k - 1 -> Bytes]
         /\ Moved(k) = Border(filePos + k)
<1> USE TmpFileAssumption
<1>0. /\ Mem \in Nat /\ filePos \in Nat /\ fileLen \in Nat /\ diskLen \in Nat
      /\ diskLen = Border(fileLen) /\ phys = Border(filePos)
  BY DEF FileInv, TypeOK, Sizes, Pointer
<1>1. Fetched(k) = Part(Content, filePos, k)
  <2> SUFFICES ASSUME NEW i \in 0 .. k - 1
               PROVE  (IF i < InMem(k) THEN mem[filePos + i] ELSE OnDisk(phys + i - InMem(k))) = Content[filePos + i]
    BY DEF Fetched, Part
  <2>1. filePos + i \in 0 .. fileLen - 1
    BY <1>0
  <2>2. Content[filePos + i] = IF filePos + i < Mem THEN mem[filePos + i] ELSE OnDisk(filePos + i - Mem)
    BY <1>0, <2>1 DEF Content
  <2>3. i < InMem(k) <=> filePos + i < Mem
    BY <1>0 DEF InMem, Smaller
  <2>4. filePos + i >= Mem => phys + i - InMem(k) = filePos + i - Mem
    BY <1>0 DEF InMem, Smaller, Border, Larger
  <2>5. CASE filePos + i < Mem
    BY <2>2, <2>3, <2>5
  <2>6. CASE ~(filePos + i < Mem)
    <3>1. phys + i - InMem(k) = filePos + i - Mem
      BY <1>0, <2>4, <2>6
    <3> HIDE DEF OnDisk
    <3> QED BY <2>2, <2>3, <2>6, <3>1
  <2> QED BY <2>5, <2>6
<1>2. Fetched(k) \in [0 .. k - 1 -> Bytes]
  <2>1. \A i \in 0 .. k - 1 : filePos + i \in 0 .. fileLen - 1
    BY <1>0
  <2> QED BY <1>1, <2>1, ContentType DEF Part, FileInv
<1>3. Moved(k) = Border(filePos + k)
  BY <1>0 DEF Moved, InMem, Smaller, Border, Larger
<1> QED BY <1>1, <1>2, <1>3

\* iwrite, with the pointer where filePos belongs, puts the bytes into the file.
LEMMA StorePuts ==
  ASSUME FileInv, NEW n \in 1 .. MaxLen, NEW s \in [0 .. n - 1 -> Bytes],
         Store(s, n, Border(filePos)),
         filePos' = filePos + n, fileLen' = Larger(fileLen, filePos')
  PROVE  /\ Content' = Plain!Put(Content, fileLen, filePos, s, n)
         /\ mem' \in [0 .. Mem - 1 -> Bytes]
         /\ diskLen' \in Nat /\ disk' \in [0 .. diskLen' - 1 -> Bytes]
         /\ phys' = Border(filePos') /\ diskLen' = Border(fileLen')
<1> USE TmpFileAssumption
<1> DEFINE m == InMem(n)
<1>0. /\ Mem \in Nat /\ filePos \in Nat /\ fileLen \in Nat /\ filePos <= fileLen
      /\ diskLen = Border(fileLen) /\ n \in Nat /\ n > 0
      /\ mem \in [0 .. Mem - 1 -> Bytes] /\ disk \in [0 .. diskLen - 1 -> Bytes]
  BY DEF FileInv, TypeOK, Sizes
<1>1. m \in 0 .. n /\ (m > 0 => filePos + m <= Mem) /\ (m < n => Border(filePos) = filePos + m - Mem)
  BY <1>0 DEF InMem, Smaller, Border, Larger
<1>2. /\ phys' = Border(filePos')
      /\ diskLen' = Border(fileLen') /\ diskLen' \in Nat
  BY <1>0, <1>1 DEF Store, InMem, Smaller, Border, Larger
<1>3. mem' \in [0 .. Mem - 1 -> Bytes]
  <2> SUFFICES ASSUME NEW i \in 0 .. Mem - 1
               PROVE  (IF i \in filePos .. filePos + m - 1 THEN s[i - filePos] ELSE mem[i]) \in Bytes
    BY DEF Store
  <2> QED BY <1>0, <1>1
<1>4. disk' \in [0 .. diskLen' - 1 -> Bytes]
  <2> SUFFICES ASSUME NEW i \in 0 .. diskLen' - 1
               PROVE  (IF i \in Border(filePos) .. Border(filePos) + (n - m) - 1 THEN s[i - Border(filePos) + m]
                                                                           ELSE disk[i]) \in Bytes
    BY DEF Store
  <2>1. CASE i \in Border(filePos) .. Border(filePos) + (n - m) - 1
    <3>1. i - Border(filePos) + m \in 0 .. n - 1
      BY <1>0, <1>1, <1>2, <2>1 DEF Border, Larger
    <3> QED BY <2>1, <3>1
  <2>2. CASE i \notin Border(filePos) .. Border(filePos) + (n - m) - 1
    <3>1. i \in 0 .. diskLen - 1
      BY <1>0, <1>1, <2>2 DEF Store, Border, Larger
    <3> QED BY <1>0, <2>2, <3>1
  <2> QED BY <2>1, <2>2
<1>5. Content' = Plain!Put(Content, fileLen, filePos, s, n)
  <2>0. fileLen' = Plain!Larger(fileLen, filePos + n)
    BY <1>0 DEF Larger, Plain!Larger
  <2> SUFFICES ASSUME NEW i \in 0 .. fileLen' - 1
               PROVE  (IF i < Mem THEN mem'[i] ELSE OnDisk(i - Mem)')
                        = IF i \in filePos .. filePos + n - 1 THEN s[i - filePos] ELSE Content[i]
    BY <2>0 DEF Content, Plain!Put
  <2>1. CASE i < Mem
    <3>1. mem'[i] = IF i \in filePos .. filePos + m - 1 THEN s[i - filePos] ELSE mem[i]
      BY <2>1, <1>0 DEF Store
    <3>2. i \in filePos .. filePos + m - 1 <=> i \in filePos .. filePos + n - 1
      BY <1>0, <2>1 DEF InMem, Smaller
    <3>3. i \notin filePos .. filePos + n - 1 => i \in 0 .. fileLen - 1 /\ Content[i] = mem[i]
      BY <1>0, <2>1 DEF Content, Larger
    <3> QED BY <2>1, <3>1, <3>2, <3>3
  <2>2. CASE ~(i < Mem)
    <3> DEFINE j == i - Mem
    <3>1. j \in 0 .. diskLen' - 1
      BY <1>0, <1>2, <2>2 DEF Border, Larger
    <3>2. OnDisk(j)' = disk'[j]
      BY <3>1 DEF OnDisk
    <3>3. disk'[j] = IF j \in Border(filePos) .. Border(filePos) + (n - m) - 1 THEN s[j - Border(filePos) + m] ELSE disk[j]
      BY <3>1 DEF Store
    <3>4. j \in Border(filePos) .. Border(filePos) + (n - m) - 1 <=> i \in filePos .. filePos + n - 1
      BY <1>0, <2>2 DEF InMem, Smaller, Border, Larger
    <3>5. i \in filePos .. filePos + n - 1 => j - Border(filePos) + m = i - filePos
      BY <1>0, <2>2 DEF InMem, Smaller, Border, Larger
    <3>6. i \notin filePos .. filePos + n - 1 => i \in 0 .. fileLen - 1 /\ j \in 0 .. diskLen - 1
      BY <1>0, <2>2 DEF Border, Larger
    <3>7. i \notin filePos .. filePos + n - 1 => Content[i] = disk[j]
      BY <1>0, <2>2, <3>6 DEF Content, OnDisk
    <3> QED BY <2>2, <3>2, <3>3, <3>4, <3>5, <3>7
  <2> QED BY <2>1, <2>2
<1> QED BY <1>2, <1>3, <1>4, <1>5

----------------------------------------------------------------------------
(* Every call keeps the invariant and is a call of the plain file.         *)

LEMMA InitStep == Init => FileInv /\ Plain!Init
<1> SUFFICES ASSUME Init PROVE FileInv /\ Plain!Init
  OBVIOUS
<1> USE TmpFileAssumption DEF Init
<1>1. TypeOK
  <2>1. /\ buf \in [0 .. ahead - 1 -> Bytes] /\ disk \in [0 .. diskLen - 1 -> Bytes]
        /\ got.n = 0 /\ got.data \in [0 .. got.n - 1 -> Bytes]
    BY EmptyType
  <2>2. phys \in Nat /\ diskLen \in Nat /\ fileLen \in Nat /\ filePos \in 0 .. fileLen /\ ahead \in Nat
        /\ call.turn \in BOOLEAN /\ call.what.op \in Calls
    BY DEF Calls
  <2>3. mem \in [0 .. Mem - 1 -> Bytes] /\ buffEof \in BOOLEAN
    OBVIOUS
  <2> HIDE DEF Init
  <2>4. got.n \in Nat
    BY <2>1
  <2> QED BY <2>1, <2>2, <2>3, <2>4 DEF TypeOK, Calls
<1>2. Sizes /\ Pointer /\ Buffered /\ Ended
  BY DEF Sizes, Pointer, Buffered, Ended, Border, Larger
<1>3. Content = Plain!Empty
  BY DEF Content, Plain!Empty
<1> QED BY <1>1, <1>2, <1>3 DEF FileInv, Plain!Init, Plain!Empty, Empty

\* The content stays when memory, disk and length do.
LEMMA ContentStays ==
  ASSUME UNCHANGED <<mem, diskVars, fileLen>>
  PROVE  Content' = Content
BY DEF Content, diskVars, OnDisk

LEMMA SmallerSame == \A x, y \in Int : Plain!Smaller(x, y) = Smaller(x, y) /\ Plain!Larger(x, y) = Larger(x, y)
BY DEF Plain!Smaller, Smaller, Plain!Larger, Larger

LEMMA ReadStep ==
  ASSUME FileInv, ~Mixed, NEW n \in 1 .. MaxLen, Read(n)
  PROVE  FileInv' /\ Plain!Read(n)
<1> USE TmpFileAssumption
<1> DEFINE k == Rest(n)
<1>0. /\ filePos \in Nat /\ fileLen \in Nat /\ filePos <= fileLen /\ ahead = 0 /\ n \in Nat
      /\ TypeOK /\ Sizes /\ Pointer
  BY DEF FileInv, TypeOK, Read
<1>1. k \in Nat /\ filePos + k <= fileLen /\ k = Plain!Smaller(n, fileLen - filePos)
  BY <1>0 DEF Rest, Smaller, Plain!Smaller
<1>2. /\ Fetched(k) = Part(Content, filePos, k) /\ Fetched(k) \in [0 .. k - 1 -> Bytes]
      /\ Moved(k) = Border(filePos + k)
  BY <1>0, <1>1, FetchedIsContent
<1>3. /\ Asked([op |-> "read", n |-> n])
      /\ got' = [n |-> k, data |-> Fetched(k)] /\ phys' = Moved(k) /\ filePos' = filePos + k
      /\ buf' = Empty /\ ahead' = 0 /\ buffEof' = FALSE
      /\ UNCHANGED <<mem, disk, diskLen, fileLen>>
  BY DEF Read, Invalidate, diskVars
<1>4. Content' = Content
  BY <1>3, ContentStays DEF diskVars
<1>5. TypeOK'
  <2>1. buf' \in [0 .. ahead' - 1 -> Bytes]
    BY <1>3, EmptyType
  <2>2. got'.n \in Nat /\ got'.data \in [0 .. got'.n - 1 -> Bytes]
    BY <1>1, <1>2, <1>3
  <2>3. phys' \in Nat /\ filePos' \in 0 .. fileLen'
    BY <1>0, <1>1, <1>2, <1>3 DEF Border, Larger
  <2> QED BY <1>0, <1>3, <2>1, <2>2, <2>3 DEF TypeOK, Calls, Asked
<1>6. Sizes' /\ Pointer' /\ Buffered' /\ Ended'
  BY <1>0, <1>1, <1>2, <1>3 DEF Sizes, Pointer, Buffered, Ended, Border
<1>7. Plain!Read(n)
  BY <1>1, <1>2, <1>3, <1>4 DEF Plain!Read, Plain!Take, Plain!Part, Part, Asked, Plain!Asked
<1> QED BY <1>5, <1>6, <1>7 DEF FileInv

LEMMA BufferedStep ==
  ASSUME FileInv, GetBuffered
  PROVE  FileInv' /\ Plain!Getcc
<1> USE TmpFileAssumption
<1>0. /\ filePos \in Nat /\ fileLen \in Nat /\ ahead \in Nat /\ ahead > 0 /\ filePos + ahead <= fileLen
      /\ TypeOK /\ Sizes /\ Pointer /\ Buffered /\ Ended
  BY DEF FileInv, TypeOK, Pointer, GetBuffered
<1>1. /\ Asked([op |-> "getcc"]) /\ got' = [n |-> 1, data |-> [i \in {0} |-> buf[0]]]
      /\ buf' = Part(buf, 1, ahead - 1) /\ ahead' = ahead - 1 /\ filePos' = filePos + 1
      /\ UNCHANGED <<mem, disk, diskLen, phys, fileLen, buffEof>>
  BY DEF GetBuffered, Returns, diskVars
<1>2. Content' = Content
  BY <1>1, ContentStays DEF diskVars
<1>3. buf[0] = Content[filePos] /\ buf[0] \in Bytes
  BY <1>0, ContentType DEF Buffered
<1>4. \A i \in 0 .. ahead - 2 : buf'[i] = buf[1 + i] /\ buf[1 + i] = Content[filePos + (1 + i)]
  BY <1>0, <1>1 DEF Part, Buffered
<1>5. TypeOK'
  <2>1. buf' \in [0 .. ahead' - 1 -> Bytes]
    BY <1>0, <1>1 DEF Part, TypeOK
  <2>2. got'.n \in Nat /\ got'.data \in [0 .. got'.n - 1 -> Bytes]
    BY <1>1, <1>3
  <2> QED BY <1>0, <1>1, <2>1, <2>2 DEF TypeOK, Calls, Asked
<1>6. Sizes' /\ Pointer' /\ Ended'
  BY <1>0, <1>1 DEF Sizes, Pointer, Ended
<1>7. Buffered'
  <2> SUFFICES ASSUME NEW i \in 0 .. ahead' - 1 PROVE buf'[i] = Content'[filePos' + i]
    BY DEF Buffered
  <2>1. i \in 0 .. ahead - 2 /\ filePos + (1 + i) = filePos' + i
    BY <1>0, <1>1
  <2> QED BY <1>2, <1>4, <2>1
<1>8. Plain!Getcc
  <2>1. Plain!Smaller(1, fileLen - filePos) = 1
    BY <1>0 DEF Plain!Smaller
  <2>2. Plain!Part(Content, filePos, 1) = [i \in {0} |-> buf[0]]
    BY <1>0, <1>3 DEF Plain!Part
  <2> QED BY <1>1, <1>2, <2>1, <2>2 DEF Plain!Getcc, Plain!Take, Asked, Plain!Asked
<1> QED BY <1>5, <1>6, <1>7, <1>8 DEF FileInv

LEMMA FilledStep ==
  ASSUME FileInv, GetFilled
  PROVE  FileInv' /\ Plain!Getcc
<1> USE TmpFileAssumption
<1> DEFINE k == Rest(Buf)
<1>0. /\ filePos \in Nat /\ fileLen \in Nat /\ ahead = 0 /\ filePos <= fileLen
      /\ k \in Nat /\ k > 0 /\ filePos + k <= fileLen
      /\ TypeOK /\ Sizes /\ Pointer /\ ~buffEof
  BY DEF FileInv, TypeOK, Pointer, GetFilled, Rest, Smaller
<1>1. /\ Fetched(k) = Part(Content, filePos, k) /\ Fetched(k) \in [0 .. k - 1 -> Bytes]
      /\ Moved(k) = Border(filePos + k)
  BY <1>0, FetchedIsContent
<1>2. /\ Asked([op |-> "getcc"]) /\ got' = [n |-> 1, data |-> [i \in {0} |-> Fetched(k)[0]]]
      /\ buf' = Part(Fetched(k), 1, k - 1) /\ ahead' = k - 1
      /\ phys' = Moved(k) /\ filePos' = filePos + 1
      /\ UNCHANGED <<mem, disk, diskLen, fileLen, buffEof>>
  BY DEF GetFilled, Returns, diskVars
<1>3. Content' = Content
  BY <1>2, ContentStays DEF diskVars
<1>4. \A i \in 0 .. k - 1 : Fetched(k)[i] = Content[filePos + i]
  BY <1>1 DEF Part
<1>5. \A i \in 0 .. k - 2 : buf'[i] = Fetched(k)[1 + i] /\ 1 + i \in 0 .. k - 1
  BY <1>0, <1>2 DEF Part
<1>6. TypeOK'
  <2>1. buf' \in [0 .. ahead' - 1 -> Bytes]
    BY <1>0, <1>1, <1>2 DEF Part
  <2>2. got'.n \in Nat /\ got'.data \in [0 .. got'.n - 1 -> Bytes]
    BY <1>0, <1>1, <1>2
  <2>3. phys' \in Nat
    BY <1>0, <1>1, <1>2 DEF Border, Larger
  <2> QED BY <1>0, <1>2, <2>1, <2>2, <2>3 DEF TypeOK, Calls, Asked
<1>7. Sizes' /\ Pointer' /\ Ended'
  <2>1. filePos' + ahead' = filePos + k
    BY <1>0, <1>2
  <2> QED BY <1>0, <1>1, <1>2, <2>1 DEF Sizes, Pointer, Ended, Border
<1>8. Buffered'
  <2> SUFFICES ASSUME NEW i \in 0 .. ahead' - 1 PROVE buf'[i] = Content'[filePos' + i]
    BY DEF Buffered
  <2>1. i \in 0 .. k - 2 /\ filePos + (1 + i) = filePos' + i
    BY <1>0, <1>2
  <2> QED BY <1>3, <1>4, <1>5, <2>1
<1>9. Plain!Getcc
  <2>1. Plain!Smaller(1, fileLen - filePos) = 1
    BY <1>0 DEF Plain!Smaller
  <2>2. Fetched(k)[0] = Content[filePos]
    BY <1>0, <1>4
  <2>3. Plain!Part(Content, filePos, 1) = [i \in {0} |-> Fetched(k)[0]]
    BY <1>0, <2>2 DEF Plain!Part
  <2> QED BY <1>2, <1>3, <2>1, <2>3 DEF Plain!Getcc, Plain!Take, Asked, Plain!Asked
<1> QED BY <1>6, <1>7, <1>8, <1>9 DEF FileInv

LEMMA EofStep ==
  ASSUME FileInv, GetEof
  PROVE  FileInv' /\ Plain!Getcc
<1> USE TmpFileAssumption
<1>0. /\ filePos \in Nat /\ fileLen \in Nat /\ filePos = fileLen /\ ahead = 0
      /\ TypeOK /\ Sizes /\ Pointer /\ Buffered
  BY DEF FileInv, TypeOK, Ended, GetEof, Rest, Smaller
<1>1. /\ Asked([op |-> "getcc"]) /\ got' = [n |-> 0, data |-> Empty] /\ buffEof' = TRUE
      /\ UNCHANGED <<mem, disk, diskLen, phys, fileLen, filePos, buf, ahead>>
  BY DEF GetEof, AtEof, diskVars
<1>2. Content' = Content
  BY <1>1, ContentStays DEF diskVars
<1>3. FileInv'
  BY <1>0, <1>1, <1>2 DEF FileInv, TypeOK, Calls, Asked, Sizes, Pointer, Buffered, Ended, Empty
<1>4. Plain!Smaller(1, fileLen - filePos) = 0 /\ Plain!Part(Content, filePos, 0) = Empty
  BY <1>0 DEF Plain!Smaller, Plain!Part, Empty
<1> QED BY <1>0, <1>1, <1>2, <1>3, <1>4 DEF Plain!Getcc, Plain!Take, Asked, Plain!Asked

LEMMA WriteStep ==
  ASSUME FileInv, NEW n \in 1 .. MaxLen, NEW s \in [0 .. n - 1 -> Bytes], Write(s, n)
  PROVE  FileInv' /\ Plain!Write(s, n)
<1> USE TmpFileAssumption
<1>0. /\ filePos \in Nat /\ fileLen \in Nat /\ ahead \in Nat /\ n \in Nat /\ filePos + n <= MaxLen
      /\ Asked([op |-> "write", n |-> n, data |-> s])
      /\ filePos' = filePos + n /\ fileLen' = Larger(fileLen, filePos') /\ got' = got
      /\ filePos + ahead <= fileLen
      /\ TypeOK /\ Sizes /\ Pointer /\ Ended
  BY DEF FileInv, TypeOK, Pointer, Write
<1>1. Store(s, n, Border(filePos)) /\ ahead' = 0 /\ buf' = Empty
  <2>1. CASE ahead > 0
    BY <2>1 DEF Write, Invalidate
  <2>2. CASE ~(ahead > 0)
    <3>1. ahead = 0 /\ phys = Border(filePos)
      BY <1>0, <2>2 DEF Pointer
    <3>2. buf = Empty
      BY <1>0, <3>1 DEF TypeOK, Empty
    <3> QED BY <2>2, <3>1, <3>2 DEF Write, buffVars
  <2> QED BY <2>1, <2>2
<1>2. buffEof' \in BOOLEAN /\ (buffEof' => filePos = fileLen)
  BY <1>0 DEF Write, Invalidate, buffVars, Ended, TypeOK
<1>3. /\ Content' = Plain!Put(Content, fileLen, filePos, s, n)
      /\ mem' \in [0 .. Mem - 1 -> Bytes]
      /\ diskLen' \in Nat /\ disk' \in [0 .. diskLen' - 1 -> Bytes]
      /\ phys' = Border(filePos') /\ diskLen' = Border(fileLen')
  BY <1>0, <1>1, StorePuts
<1>4. TypeOK'
  <2>1. buf' \in [0 .. ahead' - 1 -> Bytes]
    BY <1>1, EmptyType
  <2>2. fileLen' \in Nat /\ filePos' \in 0 .. fileLen' /\ phys' \in Nat /\ ahead' \in Nat
    BY <1>0, <1>1, <1>3 DEF Border, Larger
  <2> QED BY <1>0, <1>2, <1>3, <2>1, <2>2 DEF TypeOK, Calls, Asked
<1>5. Sizes' /\ Pointer' /\ Buffered' /\ Ended'
  BY <1>0, <1>1, <1>2, <1>3 DEF Sizes, Pointer, Buffered, Ended, Border, Larger
<1>6. fileLen' = Plain!Larger(fileLen, filePos + n)
  BY <1>0 DEF Larger, Plain!Larger
<1> QED BY <1>0, <1>3, <1>4, <1>5, <1>6 DEF FileInv, Plain!Write, Asked, Plain!Asked

LEMMA SeekStep ==
  ASSUME FileInv, NEW offset \in Int, NEW from \in {"set", "cur", "end"}, Seek(offset, from)
  PROVE  FileInv' /\ Plain!Seek(offset, from)
<1> USE TmpFileAssumption
<1>0. /\ filePos \in Nat /\ fileLen \in Nat /\ fileLen <= MaxLen
      /\ TypeOK /\ Sizes
  BY DEF FileInv, TypeOK, Sizes
<1>1. /\ Asked([op |-> "seek", offset |-> offset, from |-> from])
      /\ filePos' = Clamped(Origin(from) + offset) /\ phys' = Border(filePos')
      /\ buf' = Empty /\ ahead' = 0 /\ buffEof' = FALSE
      /\ UNCHANGED <<mem, disk, diskLen, fileLen, got>>
  BY DEF Seek, Invalidate, diskVars
<1>2. Origin(from) + offset \in Int
  BY <1>0 DEF Origin
<1>3. filePos' \in 0 .. fileLen
  BY <1>0, <1>1, <1>2 DEF Clamped, Smaller
<1>4. Content' = Content
  BY <1>1, ContentStays DEF diskVars
<1>5. FileInv'
  <2>1. TypeOK'
    <3>1. buf' \in [0 .. ahead' - 1 -> Bytes]
      BY <1>1, EmptyType
    <3>2. phys' \in Nat /\ filePos' \in 0 .. fileLen' /\ ahead' \in Nat
      BY <1>0, <1>1, <1>3 DEF Border, Larger
    <3> QED BY <1>0, <1>1, <3>1, <3>2 DEF TypeOK, Calls, Asked
  <2> QED BY <1>0, <1>1, <1>3, <2>1 DEF FileInv, Sizes, Pointer, Buffered, Ended, Border, Larger
<1>6. Plain!Seek(offset, from)
  <2>1. Plain!Origin(from) = Origin(from)
    BY DEF Plain!Origin, Origin
  <2>2. filePos' = IF Origin(from) + offset < 0 THEN 0 ELSE Plain!Smaller(Origin(from) + offset, fileLen)
    BY <1>0, <1>1, <1>2 DEF Clamped, Smaller, Plain!Smaller
  <2> QED BY <1>1, <1>4, <2>1, <2>2 DEF Plain!Seek, Asked, Plain!Asked
<1> QED BY <1>5, <1>6

LEMMA Shorter == \A a, b \in Nat : a <= b => \A i \in 0 .. a - 1 : i \in 0 .. b - 1 /\ 0 + i = i
OBVIOUS

LEMMA TruncateStep ==
  ASSUME FileInv, NEW offset \in 0 .. MaxLen, Truncate(offset)
  PROVE  FileInv' /\ Plain!Truncate(offset)
<1> USE TmpFileAssumption
<1>0. /\ fileLen \in Nat /\ diskLen = Border(fileLen) /\ fileLen <= MaxLen /\ offset \in Nat
      /\ disk \in [0 .. diskLen - 1 -> Bytes] /\ TypeOK
  BY DEF FileInv, TypeOK, Sizes
<1>1. /\ Asked([op |-> "truncate", n |-> offset])
      /\ fileLen' = Smaller(offset, fileLen) /\ diskLen' = Border(fileLen')
      /\ disk' = [i \in 0 .. diskLen' - 1 |-> disk[i]]
      /\ filePos' = fileLen' /\ phys' = Border(filePos')
      /\ buf' = Empty /\ ahead' = 0 /\ buffEof' = FALSE
      /\ UNCHANGED <<mem, got>>
  BY DEF Truncate, Invalidate
<1>2. fileLen' \in Nat /\ fileLen' <= fileLen /\ diskLen' \in Nat /\ diskLen' <= diskLen
  BY <1>0, <1>1 DEF Smaller, Border, Larger
<1>3. disk' \in [0 .. diskLen' - 1 -> Bytes]
  BY <1>0, <1>1, <1>2
<1>4. FileInv'
  <2>1. TypeOK'
    <3>1. buf' \in [0 .. ahead' - 1 -> Bytes]
      BY <1>1, EmptyType
    <3>2. phys' \in Nat /\ filePos' \in 0 .. fileLen' /\ ahead' \in Nat
      BY <1>1, <1>2
    <3> QED BY <1>0, <1>1, <1>2, <1>3, <3>1, <3>2 DEF TypeOK, Calls, Asked
  <2> QED BY <1>0, <1>1, <1>2, <2>1 DEF FileInv, Sizes, Pointer, Buffered, Ended, Border
<1>5. Content' = Plain!Part(Content, 0, fileLen')
  <2>0. \A i \in 0 .. fileLen' - 1 : 0 + i = i /\ i \in 0 .. fileLen - 1
    BY <1>0, <1>2, Shorter
  <2> SUFFICES ASSUME NEW i \in 0 .. fileLen' - 1
               PROVE  (IF i < Mem THEN mem'[i] ELSE OnDisk(i - Mem)') = Content[0 + i]
    BY DEF Content, Plain!Part
  <2>1. Content[0 + i] = IF i < Mem THEN mem[i] ELSE OnDisk(i - Mem)
    <3>1. 0 + i = i /\ i \in 0 .. fileLen - 1
      BY <2>0
    <3>2. Content[i] = IF i < Mem THEN mem[i] ELSE OnDisk(i - Mem)
      BY <3>1 DEF Content
    <3> QED BY <3>1, <3>2
  <2>2. ~(i < Mem) => i - Mem \in 0 .. diskLen' - 1 /\ i - Mem \in 0 .. diskLen - 1
    BY <1>0, <1>1, <1>2 DEF Border, Larger
  <2>3. ~(i < Mem) => OnDisk(i - Mem)' = OnDisk(i - Mem)
    BY <1>1, <2>2 DEF OnDisk
  <2> QED BY <1>1, <2>1, <2>3
<1>6. fileLen' = Plain!Smaller(offset, fileLen)
  BY <1>1 DEF Smaller, Plain!Smaller
<1> QED BY <1>1, <1>2, <1>4, <1>5, <1>6 DEF Plain!Truncate, Asked, Plain!Asked

LEMMA RenewStep ==
  ASSUME FileInv, Renew
  PROVE  FileInv' /\ Plain!Renew
<1> USE TmpFileAssumption
<1>1. /\ mem' \in [0 .. Mem - 1 -> Bytes]
      /\ disk' = Empty /\ diskLen' = 0 /\ phys' = 0 /\ fileLen' = 0 /\ filePos' = 0
      /\ buf' = Empty /\ ahead' = 0 /\ buffEof' = FALSE /\ got' = got /\ Asked([op |-> "open"])
  BY DEF Renew, New
<1>2. FileInv'
  <2>1. TypeOK'
    <3>1. buf' \in [0 .. ahead' - 1 -> Bytes] /\ disk' \in [0 .. diskLen' - 1 -> Bytes]
      BY <1>1, EmptyType
    <3>2. phys' \in Nat /\ diskLen' \in Nat /\ fileLen' \in Nat /\ filePos' \in 0 .. fileLen' /\ ahead' \in Nat
      BY <1>1
    <3>3. got'.n \in Nat /\ got'.data \in [0 .. got'.n - 1 -> Bytes] /\ buffEof' \in BOOLEAN
      BY <1>1 DEF TypeOK, FileInv
    <3> QED BY <1>1, <3>1, <3>2, <3>3 DEF TypeOK, Calls, Asked
  <2> QED BY <1>1, <2>1 DEF FileInv, Sizes, Pointer, Buffered, Ended, Border, Larger
<1>3. Content' = Plain!Empty
  BY <1>1 DEF Content, Plain!Empty
<1> QED BY <1>1, <1>2, <1>3 DEF Plain!Renew, Asked, Plain!Asked

LEMMA NextStep ==
  ASSUME ~Mixed, FileInv, [Next]_vars
  PROVE  FileInv' /\ [Plain!Next]_(Plain!plainVars)
<1>1. ASSUME NEW n \in 1 .. MaxLen, Read(n) PROVE FileInv' /\ Plain!Next
  BY <1>1, ReadStep, TmpFileAssumption DEF Plain!Next
<1>2. ASSUME NEW n \in 1 .. MaxLen, NEW s \in [0 .. n - 1 -> Bytes], Write(s, n) PROVE FileInv' /\ Plain!Next
  BY <1>2, WriteStep, TmpFileAssumption DEF Plain!Next
<1>3. CASE GetBuffered
  BY <1>3, BufferedStep DEF Plain!Next
<1>4. CASE GetFilled
  BY <1>4, FilledStep DEF Plain!Next
<1>5. CASE GetEof
  BY <1>5, EofStep DEF Plain!Next
<1>6. ASSUME NEW offset \in - MaxLen .. MaxLen, NEW from \in {"set", "cur", "end"}, Seek(offset, from)
      PROVE  FileInv' /\ Plain!Next
  <2>1. offset \in Int
    BY TmpFileAssumption
  <2> QED BY <1>6, <2>1, SeekStep DEF Plain!Next
<1>7. ASSUME NEW offset \in 0 .. MaxLen, Truncate(offset) PROVE FileInv' /\ Plain!Next
  BY <1>7, TruncateStep DEF Plain!Next
<1>8. CASE Renew
  BY <1>8, RenewStep DEF Plain!Next
<1>9. CASE UNCHANGED vars
  <2>1. UNCHANGED <<mem, disk, diskLen, phys, fileLen, filePos, buf, ahead, buffEof, call, got>>
    BY <1>9 DEF vars, diskVars, buffVars
  <2>2. Content' = Content
    BY <2>1, ContentStays DEF diskVars
  <2> QED BY <2>1, <2>2 DEF FileInv, TypeOK, Sizes, Pointer, Buffered, Ended, Plain!plainVars
<1> QED BY <1>1, <1>2, <1>3, <1>4, <1>5, <1>6, <1>7, <1>8, <1>9 DEF Next

\* The fields of the object have values the code expects in every reachable state: the
\* position lies in the file, and no call returns, and no buffer holds, what lies behind the
\* end of the file on disk.
THEOREM TypeCorrect ==
  ASSUME ~Mixed
  PROVE  Spec => []TypeOK
<1>1. FileInv => TypeOK
  BY DEF FileInv
<1> QED BY <1>1, InitStep, NextStep, PTL DEF Spec

\* TFileTmp is a file: whatever the sizes of memBuff and of the buffer, each call, with its
\* arguments, reads, writes, cuts off and finds its place as it would on one file on disk.
THEOREM TmpFileIsFile ==
  ASSUME ~Mixed
  PROVE  Spec => ImplementsFile
<1> QED BY InitStep, NextStep, PTL DEF Spec, ImplementsFile, Plain!Spec

=============================================================================
