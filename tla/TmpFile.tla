------------------------------ MODULE TmpFile ------------------------------
(***************************************************************************)
(* Temporary files (TFileTmp of mts.cc), in which articles, mails and      *)
(* lists are received: the first Mem bytes are kept in memory, the rest in *)
(* a file on disk.  The base class TFile reads single characters through a *)
(* buffer of its own, which is filled by the iread of TFileTmp.            *)
(*                                                                         *)
(* filePos counts the bytes that callers have got; the pointer of the file *)
(* on disk is ahead of it by what is in the buffer, and stands at the      *)
(* beginning while all of this is in memory.                               *)
(***************************************************************************)
EXTENDS Integers

CONSTANTS
  Bytes, NoByte,     \* NoByte is read where the file on disk has nothing
  Mem,               \* size of memBuff
  Buf,               \* size of the buffer of TFile
  MaxLen,            \* bound on the length of the file
  Mixed              \* callers may read blocks without a seek behind single characters

ASSUME TmpFileAssumption ==
  /\ NoByte \notin Bytes
  /\ Mem \in Nat /\ Buf \in Nat \ {0} /\ MaxLen \in Nat
  /\ Mixed \in BOOLEAN

VARIABLES
  mem,               \* memBuff, not initialized at first
  disk, diskLen,     \* the file on disk
  phys,              \* and its pointer
  fileLen, filePos,
  buf, ahead,        \* buffer from buffNdx on, buffEnd - buffNdx
  buffEof,
  call,              \* auxiliary: the last call, with its arguments, and whose turn it is
  got                \* what the last call that reads has returned

diskVars == <<disk, diskLen>>
buffVars == <<buf, ahead, buffEof>>
vars == <<mem, diskVars, phys, fileLen, filePos, buffVars, call, got>>

Smaller(a, b) == IF a < b THEN a ELSE b
Larger(a, b)  == IF a < b THEN b ELSE a

Empty          == [i \in {} |-> 0]
Part(f, at, n) == [i \in 0 .. n - 1 |-> f[at + i]]
Calls          == {"open", "read", "getcc", "write", "seek", "truncate"}

\* NoByte is in none of them: nothing is read from behind the end of the file on disk.
TypeOK ==
  /\ mem \in [0 .. Mem - 1 -> Bytes]
  /\ diskLen \in Nat /\ disk \in [0 .. diskLen - 1 -> Bytes]
  /\ phys \in Nat
  /\ fileLen \in Nat /\ filePos \in 0 .. fileLen
  /\ ahead \in Nat /\ buf \in [0 .. ahead - 1 -> Bytes]
  /\ buffEof \in BOOLEAN
  /\ call.turn \in BOOLEAN /\ call.what.op \in Calls
  /\ got.n \in Nat /\ got.data \in [0 .. got.n - 1 -> Bytes]

\* A new file on disk; memBuff is whatever the heap has.
New ==
  /\ mem' \in [0 .. Mem - 1 -> Bytes]
  /\ disk' = Empty /\ diskLen' = 0 /\ phys' = 0
  /\ fileLen' = 0 /\ filePos' = 0
  /\ buf' = Empty /\ ahead' = 0 /\ buffEof' = FALSE

Init ==
  /\ mem \in [0 .. Mem - 1 -> Bytes]
  /\ disk = Empty /\ diskLen = 0 /\ phys = 0
  /\ fileLen = 0 /\ filePos = 0
  /\ buf = Empty /\ ahead = 0 /\ buffEof = FALSE
  /\ call = [turn |-> FALSE, what |-> [op |-> "open"]] /\ got = [n |-> 0, data |-> Empty]

Asked(what) == call' = [turn |-> ~call.turn, what |-> what]

Invalidate == buf' = Empty /\ ahead' = 0 /\ buffEof' = FALSE

\* Where the pointer on disk belongs for a position in the file.
Border(p) == Larger(0, p - Mem)

----------------------------------------------------------------------------
(* iread and iwrite *)

\* How many of n bytes from filePos on are in memory.
InMem(n) == IF filePos < Mem THEN Smaller(n, Mem - filePos) ELSE 0

\* Mutant: a block is not cut off at the end of the file.
RestAll(n) == n

\* Not more is read than there is.
Rest(n) == Smaller(n, fileLen - filePos)

OnDisk(i) == IF i \in 0 .. diskLen - 1 THEN disk[i] ELSE NoByte

\* iread: k bytes from filePos and from the pointer on, moves the latter.
Fetched(k) == [i \in 0 .. k - 1 |-> IF i < InMem(k) THEN mem[filePos + i] ELSE OnDisk(phys + i - InMem(k))]
Moved(k) ==
  LET beyond == phys + k - InMem(k) IN IF beyond <= diskLen THEN beyond ELSE Larger(phys, diskLen)

\* Mutant: buff is not moved on behind the part that goes to memory.
StoreStill(s, n, start) ==
  LET m    == InMem(n)
      rest == n - m IN
  /\ mem' = [i \in 0 .. Mem - 1 |-> IF i \in filePos .. filePos + m - 1 THEN s[i - filePos] ELSE mem[i]]
  /\ diskLen' = IF rest = 0 THEN diskLen ELSE Larger(diskLen, start + rest)
  /\ disk' = [i \in 0 .. diskLen' - 1 |->
                IF i \in start .. start + rest - 1 THEN s[i - start] ELSE disk[i]]
  /\ phys' = start + rest

\* iwrite with the pointer at start: n bytes of s.
Store(s, n, start) ==
  LET m    == InMem(n)
      rest == n - m IN
  /\ mem' = [i \in 0 .. Mem - 1 |-> IF i \in filePos .. filePos + m - 1 THEN s[i - filePos] ELSE mem[i]]
  /\ diskLen' = IF rest = 0 THEN diskLen ELSE Larger(diskLen, start + rest)
  /\ disk' = [i \in 0 .. diskLen' - 1 |->
                IF i \in start .. start + rest - 1 THEN s[i - start + m] ELSE disk[i]]
  /\ phys' = start + rest

----------------------------------------------------------------------------
(* The calls *)

\* A block.
Read(n) ==
  LET k == Rest(n) IN
  /\ Mixed \/ ahead = 0
  /\ Asked([op |-> "read", n |-> n])
  /\ got' = [n |-> k, data |-> Fetched(k)]
  /\ phys' = Moved(k)
  /\ filePos' = filePos + k
  /\ Invalidate
  /\ UNCHANGED <<mem, diskVars, fileLen>>

Returns(c) == got' = [n |-> 1, data |-> [i \in {0} |-> c]] /\ Asked([op |-> "getcc"])
AtEof      == got' = [n |-> 0, data |-> Empty] /\ Asked([op |-> "getcc"])

\* getcc with something in the buffer; fgets and fputs are sequences of such calls.
GetBuffered ==
  /\ ahead > 0
  /\ Returns(buf[0])
  /\ buf' = Part(buf, 1, ahead - 1) /\ ahead' = ahead - 1
  /\ filePos' = filePos + 1
  /\ UNCHANGED <<mem, diskVars, phys, fileLen, buffEof>>

\* getcc after fillBuff has read the next block.
GetFilled ==
  LET k == Rest(Buf) IN
  /\ ahead = 0 /\ ~buffEof /\ k > 0
  /\ Returns(Fetched(k)[0])
  /\ buf' = Part(Fetched(k), 1, k - 1) /\ ahead' = k - 1
  /\ phys' = Moved(k)
  /\ filePos' = filePos + 1
  /\ UNCHANGED <<mem, diskVars, fileLen, buffEof>>

\* getcc when fillBuff gets nothing, or has got nothing before.
GetEof ==
  /\ ahead = 0 /\ (buffEof \/ Rest(Buf) <= 0)
  /\ AtEof
  /\ buffEof' = TRUE
  /\ UNCHANGED <<mem, diskVars, phys, fileLen, filePos, buf, ahead>>

\* write seeks to filePos if the buffer has been read ahead ("fillBuff() problem").
Write(s, n) ==
  /\ filePos + n <= MaxLen
  /\ Asked([op |-> "write", n |-> n, data |-> s])
  /\ IF ahead > 0 THEN Store(s, n, Border(filePos)) /\ Invalidate
                  ELSE Store(s, n, phys) /\ UNCHANGED buffVars
  /\ filePos' = filePos + n
  /\ fileLen' = Larger(fileLen, filePos')
  /\ UNCHANGED got

Origin(from) ==
  IF from = "set" THEN 0 ELSE IF from = "cur" THEN filePos ELSE fileLen

Clamped(p) == IF p < 0 THEN 0 ELSE Smaller(p, fileLen)

Seek(offset, from) ==
  /\ Asked([op |-> "seek", offset |-> offset, from |-> from])
  /\ filePos' = Clamped(Origin(from) + offset)
  /\ phys' = Border(filePos')
  /\ Invalidate
  /\ UNCHANGED <<mem, diskVars, fileLen, got>>

\* TFile::truncate cuts the file on disk and seeks to the end.
Truncate(offset) ==
  /\ Asked([op |-> "truncate", n |-> offset])
  /\ fileLen' = Smaller(offset, fileLen)
  /\ diskLen' = Border(fileLen')
  /\ disk' = [i \in 0 .. diskLen' - 1 |-> disk[i]]
  /\ filePos' = fileLen'
  /\ phys' = Border(filePos')
  /\ Invalidate
  /\ UNCHANGED <<mem, got>>

\* close removes the file; open makes a new one.
Renew == New /\ Asked([op |-> "open"]) /\ UNCHANGED got

Next ==
  \/ \E n \in 1 .. MaxLen : Read(n) \/ \E s \in [0 .. n - 1 -> Bytes] : Write(s, n)
  \/ GetBuffered \/ GetFilled \/ GetEof
  \/ \E offset \in - MaxLen .. MaxLen, from \in {"set", "cur", "end"} : Seek(offset, from)
  \/ \E offset \in 0 .. MaxLen : Truncate(offset)
  \/ Renew

Spec == Init /\ [][Next]_vars

----------------------------------------------------------------------------
(* Properties *)

Content == [i \in 0 .. fileLen - 1 |-> IF i < Mem THEN mem[i] ELSE OnDisk(i - Mem)]

Plain == INSTANCE PlainFile WITH content <- Content, len <- fileLen, pos <- filePos

\* The two parts and the buffer together are one file: each call returns, writes, cuts off
\* and finds what the same call with the same arguments (both are in call, which the two
\* have in common) would in a plain file, wherever the border between memory and disk
\* lies.  (Callers seek before they read a block behind single characters, see Mixed.)
ImplementsFile == Plain!Spec

=============================================================================
