------------------------------ MODULE ReadList ------------------------------
(***************************************************************************)
(* The lists of read articles of newsrc.cc: what one line of the newsrc    *)
(* holds for a group.  A list is a sequence of ranges [lo, hi]; the        *)
(* operators below are the member functions that work on one, each as one  *)
(* critical section of TNewsrc::sema.                                      *)
(***************************************************************************)
EXTENDS Integers, SequencesExt

CONSTANTS
  ResetAbove,  \* in groups with more than so many articles (100 in the code)
  ResetSlack   \* a mark may be so far above the last article (4 in the code)

ASSUME ResetOK == ResetAbove \in Nat /\ ResetSlack \in Nat

ArtRange  == [lo : Int, hi : Int]
Single(n) == [lo |-> n, hi |-> n]

\* The article numbers a list stands for.
Elems(R) == UNION {R[i].lo .. R[i].hi : i \in DOMAIN R}

\* Ascending ranges, none empty, with a gap between each two: each set of
\* numbers has exactly one such list.
NormalForm(R) ==
  /\ R \in Seq(ArtRange)
  /\ \A i \in DOMAIN R : 1 <= R[i].lo /\ R[i].lo <= R[i].hi
  /\ \A i, j \in DOMAIN R : i < j => R[i].hi + 1 < R[j].lo
-----------------------------------------------------------------------------
(* artIsRead(), artMarkRead(), grpFirstUnread()                            *)

\* mutant of ArtIsRead: the end of a range is left out
ArtIsReadShort(R, n) ==
  n <= 0 \/ \E i \in DOMAIN R : n \in R[i].lo .. R[i].hi - 1

\* The scan ends at the first range that holds n or lies above it.
ArtIsRead(R, n) ==
  \/ n <= 0
  \/ \E i \in DOMAIN R : /\ n \in R[i].lo .. R[i].hi
                         /\ \A j \in 1 .. i - 1 : R[j].lo <= n

\* The ranges at which artMarkRead() ends its scan for n: above n, around n, or
\* just below n.
Stops(R, n) == {i \in DOMAIN R : n < R[i].lo \/ n \in R[i].lo .. R[i].hi + 1}

\* mutant of MarkRead: a gap closed is not noticed
MarkNoMerge(R, n) ==
  IF Stops(R, n) = {} THEN Append(R, Single(n))
  ELSE LET i == Min(Stops(R, n))
       IN CASE n < R[i].lo - 1 -> InsertAt(R, i, Single(n))
            [] n = R[i].lo - 1 -> [R EXCEPT ![i].lo = n]
            [] n = R[i].hi + 1 -> [R EXCEPT ![i].hi = n]
            [] OTHER -> R

MarkRead(R, n) ==
  IF Stops(R, n) = {} THEN Append(R, Single(n))
  ELSE LET i == Min(Stops(R, n))
           closesGap == i < Len(R) /\ n = R[i + 1].lo - 1
       IN CASE n < R[i].lo - 1 -> InsertAt(R, i, Single(n))
            [] n = R[i].lo - 1 -> [R EXCEPT ![i].lo = n]
            [] n = R[i].hi + 1 ->
                 IF closesGap
                 THEN RemoveAt([R EXCEPT ![i].hi = R[i + 1].hi], i + 1)
                 ELSE [R EXCEPT ![i].hi = n]
            [] OTHER -> R

FirstUnread(R, groupLo) ==
  IF R = <<>> \/ groupLo < R[1].lo THEN groupLo ELSE R[1].hi + 1
-----------------------------------------------------------------------------
(* grpFixReadList(), grpCatchup()                                          *)

\* A mark above the last article, with some slack: the group has been reset.
FixReset(R, groupHi) ==
  IF R # <<>> /\ R[Len(R)].hi > groupHi + (IF groupHi > ResetAbove THEN ResetSlack
                                            ELSE 0)
  THEN <<>> ELSE R

\* Leading ranges that end below the first article are eliminated.
FixDrop(R, groupLo) ==
  LET keep == {i \in DOMAIN R : groupLo <= R[i].hi}
  IN IF keep = {} THEN <<>> ELSE SubSeq(R, Min(keep), Len(R))

\* The numbers below the first article count as read.
FixFirst(R, groupLo) ==
  IF R = <<>> \/ groupLo < R[1].lo
  THEN IF groupLo > 1 THEN Cons([lo |-> 1, hi |-> groupLo - 1], R) ELSE R
  ELSE [R EXCEPT ![1].lo = 1]

FixReadList(R, groupLo, groupHi) ==
  FixFirst(FixDrop(FixReset(R, groupHi), groupLo), groupLo)

\* The article from which grpCatchup() leaves articles unread.
CatchupLo(groupLo, groupHi, numKeep) == Max({groupHi - numKeep + 1, 1, groupLo})
-----------------------------------------------------------------------------
(* getReadList(), putReadList().  The text of a line is a sequence of       *)
(* tokens: a number, a range, or junk.                                      *)

Num(n)      == [kind |-> "num", lo |-> n, hi |-> n]
Dash(lo, hi) == [kind |-> "range", lo |-> lo, hi |-> hi]
Junk        == [kind |-> "junk", lo |-> 0, hi |-> 0]

\* The tokens a newsrc is made of: natural numbers, ranges of them other than 0-0, junk.
LineToken ==
  {t \in [kind : {"num", "range"}, lo : Nat, hi : Nat] :
     IF t.kind = "num" THEN t.lo = t.hi ELSE t.lo # 0 \/ t.hi # 0} \cup {Junk}

\* The numbers a token covers.  Tokens ascend if none begins below the one before.
TokenLo(t)   == Min({t.lo, t.hi})
Covered(t)   == TokenLo(t) .. Max({t.lo, t.hi})
Ascending(s) == \A i, j \in DOMAIN s : i < j => TokenLo(s[i]) <= TokenLo(s[j])

\* Negative numbers count as 0, a range may be written backwards and does not
\* begin with 0.
Parsed(t) ==
  LET lo == Min({Max({t.lo, 0}), Max({t.hi, 0})})
  IN [lo |-> IF t.kind = "range" /\ lo = 0 THEN 1 ELSE lo,
      hi |-> Max({t.lo, t.hi, 0})]

\* mutant of AddRange: a gap of one is closed
AddNear(R, r) ==
  IF r.lo <= 0 THEN R
  ELSE IF R # <<>> /\ r.lo <= R[Len(R)].hi + 2
       THEN [R EXCEPT ![Len(R)] = [lo |-> Min({@.lo, r.lo}), hi |-> Max({@.hi, r.hi})]]
       ELSE Append(R, r)

\* A range that overlaps or touches the last one is combined with it.
AddRange(R, r) ==
  IF r.lo <= 0 THEN R
  ELSE IF R # <<>> /\ r.lo <= R[Len(R)].hi + 1
       THEN [R EXCEPT ![Len(R)] = [lo |-> Min({@.lo, r.lo}), hi |-> Max({@.hi, r.hi})]]
       ELSE Append(R, r)

\* Reading ends at the first token that is not a number.
Readable(line) ==
  LET junk == {i \in DOMAIN line : line[i].kind = "junk"}
  IN IF junk = {} THEN line ELSE SubSeq(line, 1, Min(junk) - 1)

GetReadList(line) ==
  LET tokens == Readable(line)
      list[i \in 0 .. Len(tokens)] ==
        IF i = 0 THEN <<>> ELSE AddRange(list[i - 1], Parsed(tokens[i]))
  IN list[Len(tokens)]

PutReadList(R) ==
  IF R = <<>> THEN <<Num(0)>>
  ELSE [i \in DOMAIN R |-> IF R[i].lo = R[i].hi THEN Num(R[i].lo)
                           ELSE Dash(R[i].lo, R[i].hi)]
=============================================================================
