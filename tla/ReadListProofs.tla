--------------------------- MODULE ReadListProofs ---------------------------
(***************************************************************************)
(* Theorems about the lists of ReadList, whatever their length: an         *)
(* operation on a list in normal form yields the list, in normal form, of  *)
(* just the numbers it should, and the questions asked of it have the      *)
(* answers the set of its numbers has.                                     *)
(***************************************************************************)
EXTENDS ReadList, TLAPS, SequenceTheorems, WellFoundedInduction
-----------------------------------------------------------------------------
(* Sequences and minima.                                                     *)

\* q is s with e put before its element i; without its element i; with the
\* element i replaced by e.
Inserted(q, S, s, i, e) ==
  /\ q \in Seq(S) /\ Len(q) = Len(s) + 1
  /\ \A j \in 1 .. i - 1 : q[j] = s[j]
  /\ q[i] = e
  /\ \A j \in i + 1 .. Len(s) + 1 : q[j] = s[j - 1]
Removed(q, S, s, i) ==
  /\ q \in Seq(S) /\ Len(q) = Len(s) - 1
  /\ \A j \in 1 .. i - 1 : q[j] = s[j]
  /\ \A j \in i .. Len(s) - 1 : q[j] = s[j + 1]

LEMMA InsertAtOk ==
  ASSUME NEW S, NEW s \in Seq(S), NEW i \in 1 .. Len(s) + 1, NEW e \in S
  PROVE  Inserted(InsertAt(s, i, e), S, s, i, e)
<1> DEFINE a == SubSeq(s, 1, i - 1)
           b == SubSeq(s, i, Len(s))
           ab == a \o <<e>>
<1>0. Len(s) \in Nat /\ i \in Nat
  BY LenProperties
<1>1. /\ a \in Seq(S) /\ Len(a) = i - 1
      /\ \A j \in 1 .. i - 1 : a[j] = s[j]
  <2>1. \A j \in 1 .. i - 1 : s[j] \in S
    BY ElementOfSeq, <1>0
  <2> QED
    BY <1>0, <2>1, SubSeqProperties
<1>2. /\ b \in Seq(S) /\ Len(b) = Len(s) - i + 1
      /\ \A j \in 1 .. Len(s) - i + 1 : b[j] = s[i + j - 1]
  <2>1. \A j \in i .. Len(s) : s[j] \in S
    BY ElementOfSeq, <1>0
  <2>2. /\ SubSeq(s, i, Len(s)) \in Seq(S)
        /\ Len(SubSeq(s, i, Len(s))) = IF i <= Len(s) THEN Len(s) - i + 1 ELSE 0
        /\ \A j \in 1 .. Len(s) - i + 1 : SubSeq(s, i, Len(s))[j] = s[i + j - 1]
    BY <1>0, <2>1, SubSeqProperties
  <2> QED
    BY <1>0, <2>2
<1>3. <<e>> \in Seq(S) /\ Len(<<e>>) = 1 /\ <<e>>[1] = e
  OBVIOUS
<1> HIDE DEF a, b
<1>4. /\ ab \in Seq(S) /\ Len(ab) = i
      /\ \A j \in 1 .. i : ab[j] = IF j <= i - 1 THEN a[j] ELSE <<e>>[j - (i - 1)]
  BY <1>0, <1>1, <1>3, ConcatProperties
<1> HIDE DEF ab
<1>5. /\ ab \o b \in Seq(S) /\ Len(ab \o b) = Len(s) + 1
      /\ \A j \in 1 .. Len(s) + 1 : (ab \o b)[j] = IF j <= i THEN ab[j] ELSE b[j - i]
  <2>1. /\ ab \o b \in Seq(S) /\ Len(ab \o b) = Len(ab) + Len(b)
        /\ \A j \in 1 .. Len(ab) + Len(b) :
             (ab \o b)[j] = IF j <= Len(ab) THEN ab[j] ELSE b[j - Len(ab)]
    BY <1>2, <1>4, ConcatProperties
  <2>2. Len(ab) + Len(b) = Len(s) + 1
    BY <1>0, <1>2, <1>4
  <2> QED
    BY <1>4, <2>1, <2>2
<1>6. InsertAt(s, i, e) = ab \o b
  BY DEF InsertAt, a, b, ab
<1> DEFINE c == ab \o b
<1> HIDE DEF c
<1>7. ASSUME NEW j \in 1 .. Len(s) + 1
      PROVE  c[j] = IF j < i THEN s[j] ELSE IF j = i THEN e ELSE s[j - 1]
  <2>1. CASE j < i
    BY <2>1, <1>0, <1>1, <1>4, <1>5 DEF c
  <2>2. CASE j = i
    BY <2>2, <1>0, <1>3, <1>4, <1>5 DEF c
  <2>3. CASE j > i
    <3> DEFINE k == j - i
    <3>1. k \in 1 .. Len(s) - i + 1 /\ i + k - 1 = j - 1
      BY <2>3, <1>0
    <3>2. c[j] = b[k]
      BY <2>3, <1>0, <1>5 DEF c
    <3> HIDE DEF k
    <3>3. b[k] = s[j - 1]
      BY <3>1, <1>2
    <3> QED
      BY <2>3, <3>2, <3>3, <1>0
  <2> QED
    BY <1>0, <2>1, <2>2, <2>3
<1> QED
  <2>1. c \in Seq(S) /\ Len(c) = Len(s) + 1
    BY <1>5 DEF c
  <2>2. \A j \in 1 .. i - 1 : c[j] = s[j]
    BY <1>0, <1>7
  <2>3. c[i] = e
    BY <1>0, <1>7
  <2>4. \A j \in i + 1 .. Len(s) + 1 : c[j] = s[j - 1]
    BY <1>0, <1>7
  <2>5. Inserted(c, S, s, i, e)
    BY <2>1, <2>2, <2>3, <2>4 DEF Inserted
  <2> QED
    BY <1>6, <2>5 DEF c

LEMMA RemoveAtOk ==
  ASSUME NEW S, NEW s \in Seq(S), NEW i \in 1 .. Len(s)
  PROVE  Removed(RemoveAt(s, i), S, s, i)
<1> DEFINE a == SubSeq(s, 1, i - 1)
           b == SubSeq(s, i + 1, Len(s))
<1>0. Len(s) \in Nat /\ i \in Nat
  BY LenProperties
<1>1. /\ a \in Seq(S) /\ Len(a) = i - 1
      /\ \A j \in 1 .. i - 1 : a[j] = s[j]
  <2>1. \A j \in 1 .. i - 1 : s[j] \in S
    BY ElementOfSeq, <1>0
  <2> QED
    BY <1>0, <2>1, SubSeqProperties
<1>2. /\ b \in Seq(S) /\ Len(b) = Len(s) - i
      /\ \A j \in 1 .. Len(s) - i : b[j] = s[i + j]
  <2>1. \A j \in i + 1 .. Len(s) : s[j] \in S
    BY ElementOfSeq, <1>0
  <2>2. /\ SubSeq(s, i + 1, Len(s)) \in Seq(S)
        /\ Len(SubSeq(s, i + 1, Len(s))) = IF i + 1 <= Len(s) THEN Len(s) - (i + 1) + 1 ELSE 0
        /\ \A j \in 1 .. Len(s) - (i + 1) + 1 : SubSeq(s, i + 1, Len(s))[j] = s[i + 1 + j - 1]
    BY <1>0, <2>1, SubSeqProperties
  <2> QED
    BY <1>0, <2>2
<1> HIDE DEF a, b
<1>3. /\ a \o b \in Seq(S) /\ Len(a \o b) = Len(s) - 1
      /\ \A j \in 1 .. Len(s) - 1 : (a \o b)[j] = IF j <= i - 1 THEN a[j] ELSE b[j - (i - 1)]
  <2>1. /\ a \o b \in Seq(S) /\ Len(a \o b) = Len(a) + Len(b)
        /\ \A j \in 1 .. Len(a) + Len(b) :
             (a \o b)[j] = IF j <= Len(a) THEN a[j] ELSE b[j - Len(a)]
    BY <1>1, <1>2, ConcatProperties
  <2>2. Len(a) + Len(b) = Len(s) - 1
    BY <1>0, <1>1, <1>2
  <2> QED
    BY <1>1, <2>1, <2>2
<1> DEFINE c == a \o b
<1> HIDE DEF c
<1>4. ASSUME NEW j \in 1 .. Len(s) - 1
      PROVE  c[j] = IF j < i THEN s[j] ELSE s[j + 1]
  <2>1. CASE j < i
    BY <2>1, <1>0, <1>1, <1>3 DEF c
  <2>2. CASE j >= i
    <3> DEFINE k == j - (i - 1)
    <3>1. k \in 1 .. Len(s) - i /\ i + k = j + 1
      BY <2>2, <1>0
    <3>2. c[j] = b[k]
      BY <2>2, <1>0, <1>3 DEF c
    <3> HIDE DEF k
    <3>3. b[k] = s[j + 1]
      BY <3>1, <1>2
    <3> QED
      BY <2>2, <3>2, <3>3, <1>0
  <2> QED
    BY <1>0, <2>1, <2>2
<1> QED
  <2>1. c \in Seq(S) /\ Len(c) = Len(s) - 1
    BY <1>3 DEF c
  <2>2. \A j \in 1 .. i - 1 : c[j] = s[j]
    BY <1>0, <1>4
  <2>3. \A j \in i .. Len(s) - 1 : c[j] = s[j + 1]
    BY <1>0, <1>4
  <2>4. Removed(c, S, s, i)
    BY <2>1, <2>2, <2>3 DEF Removed
  <2>5. RemoveAt(s, i) = c
    BY DEF RemoveAt, a, b, c
  <2> QED
    BY <2>4, <2>5

\* A set of natural numbers has a minimum, and Min picks it.
LEMMA MinOk ==
  ASSUME NEW S, S \subseteq Nat, S # {}
  PROVE  Min(S) \in S /\ \A n \in S : Min(S) <= n
<1> DEFINE R == {ss \in Nat \X Nat : ss[1] < ss[2]}
<1>1. IsWellFoundedOn(R, Nat)
  BY NatLessThanWellFounded DEF OpToRel
<1> HIDE DEF R
<1>2. PICK x \in S : \A y \in S : ~(<<y, x>> \in R)
  BY <1>1, WFMin
<1>3. ASSUME NEW y \in S PROVE x <= y
  <2>1. x \in Nat /\ y \in Nat
    OBVIOUS
  <2>2. <<y, x>> \notin R
    BY <1>2
  <2>3. ~(y < x)
    BY <2>1, <2>2 DEF R
  <2> QED
    BY <2>1, <2>3
<1> QED
  BY <1>3 DEF Min
-----------------------------------------------------------------------------
(* The numbers of a list.                                                    *)

LEMMA ElemsMember ==
  ASSUME NEW R, NEW n
  PROVE  n \in Elems(R) <=> \E i \in DOMAIN R : n \in R[i].lo .. R[i].hi
  BY DEF Elems

LEMMA NormalEntry ==
  ASSUME NEW R, NormalForm(R), NEW i \in DOMAIN R
  PROVE  /\ Len(R) \in Nat /\ DOMAIN R = 1 .. Len(R) /\ i \in Nat
         /\ R[i] \in ArtRange /\ R[i] = [lo |-> R[i].lo, hi |-> R[i].hi]
         /\ R[i].lo \in Int /\ R[i].hi \in Int /\ 1 <= R[i].lo /\ R[i].lo <= R[i].hi
         /\ \A j \in DOMAIN R : i < j => R[i].hi + 1 < R[j].lo
<1>1. Len(R) \in Nat /\ DOMAIN R = 1 .. Len(R) /\ i \in Nat /\ R[i] \in ArtRange
  BY LenProperties, ElementOfSeq DEF NormalForm
<1> QED
  BY <1>1 DEF NormalForm, ArtRange

\* The list with range i made lo .. hi.
Changed(q, R, i, lo, hi) ==
  /\ q \in Seq(ArtRange) /\ Len(q) = Len(R) /\ DOMAIN q = DOMAIN R
  /\ q[i].lo = lo /\ q[i].hi = hi
  /\ \A j \in DOMAIN R : j # i => q[j] = R[j]

LEMMA LowOk ==
  ASSUME NEW R, NormalForm(R), NEW i \in DOMAIN R, NEW v, v \in Int
  PROVE  Changed([R EXCEPT ![i].lo = v], R, i, v, R[i].hi)
<1> DEFINE Q == [R EXCEPT ![i].lo = v]
<1>1. R \in Seq(ArtRange) /\ Len(R) \in Nat /\ DOMAIN R = 1 .. Len(R)
  BY LenProperties DEF NormalForm
<1>2. R \in [1 .. Len(R) -> ArtRange]
  BY <1>1
<1>3. R[i] \in ArtRange /\ [R[i] EXCEPT !.lo = v] \in ArtRange
  BY <1>1, <1>2 DEF ArtRange
<1>4. [R[i] EXCEPT !.lo = v].lo = v /\ [R[i] EXCEPT !.lo = v].hi = R[i].hi
  BY <1>3 DEF ArtRange
<1>5. Q[i] = [R[i] EXCEPT !.lo = v] /\ \A j \in DOMAIN R : j # i => Q[j] = R[j]
  OBVIOUS
<1>6. Q \in [1 .. Len(R) -> ArtRange]
  BY <1>1, <1>2, <1>3
<1>7. Q[i].lo = v /\ Q[i].hi = R[i].hi
  BY <1>4, <1>5
<1> HIDE DEF Q
<1>8. Q \in Seq(ArtRange) /\ Len(Q) = Len(R) /\ DOMAIN Q = DOMAIN R
  BY <1>1, <1>6
<1>9. Changed(Q, R, i, v, R[i].hi)
  BY <1>5, <1>7, <1>8 DEF Changed
<1> QED
  BY <1>9 DEF Q

LEMMA HighOk ==
  ASSUME NEW R, NormalForm(R), NEW i \in DOMAIN R, NEW v, v \in Int
  PROVE  Changed([R EXCEPT ![i].hi = v], R, i, R[i].lo, v)
<1> DEFINE Q == [R EXCEPT ![i].hi = v]
<1>1. R \in Seq(ArtRange) /\ Len(R) \in Nat /\ DOMAIN R = 1 .. Len(R)
  BY LenProperties DEF NormalForm
<1>2. R \in [1 .. Len(R) -> ArtRange]
  BY <1>1
<1>3. R[i] \in ArtRange /\ [R[i] EXCEPT !.hi = v] \in ArtRange
  BY <1>1, <1>2 DEF ArtRange
<1>4. [R[i] EXCEPT !.hi = v].lo = R[i].lo /\ [R[i] EXCEPT !.hi = v].hi = v
  BY <1>3 DEF ArtRange
<1>5. Q[i] = [R[i] EXCEPT !.hi = v] /\ \A j \in DOMAIN R : j # i => Q[j] = R[j]
  OBVIOUS
<1>6. Q \in [1 .. Len(R) -> ArtRange]
  BY <1>1, <1>2, <1>3
<1>7. Q[i].lo = R[i].lo /\ Q[i].hi = v
  BY <1>4, <1>5
<1> HIDE DEF Q
<1>8. Q \in Seq(ArtRange) /\ Len(Q) = Len(R) /\ DOMAIN Q = DOMAIN R
  BY <1>1, <1>6
<1>9. Changed(Q, R, i, R[i].lo, v)
  BY <1>5, <1>7, <1>8 DEF Changed
<1> QED
  BY <1>9 DEF Q
-----------------------------------------------------------------------------
(* The ways artMarkRead() changes a list.                                    *)

LEMMA SingleOk ==
  ASSUME NEW n \in Nat \ {0}
  PROVE  Single(n) \in ArtRange /\ Single(n).lo = n /\ Single(n).hi = n
  BY DEF Single, ArtRange

LEMMA AppendRange ==
  ASSUME NEW R, NormalForm(R), NEW r \in ArtRange, 1 <= r.lo, r.lo <= r.hi,
         \A j \in DOMAIN R : R[j].hi + 1 < r.lo
  PROVE  /\ NormalForm(Append(R, r))
         /\ Elems(Append(R, r)) = Elems(R) \cup (r.lo .. r.hi)
<1> DEFINE Q == Append(R, r)
<1>1. R \in Seq(ArtRange) /\ Len(R) \in Nat /\ DOMAIN R = 1 .. Len(R)
  BY LenProperties DEF NormalForm
<1>r. r.lo \in Int /\ r.hi \in Int
  BY DEF ArtRange
<1>2. /\ Q \in Seq(ArtRange) /\ Len(Q) = Len(R) + 1
      /\ \A i \in 1 .. Len(R) : Q[i] = R[i]
      /\ Q[Len(R) + 1] = r
  BY <1>1, AppendProperties
<1>3. DOMAIN Q = 1 .. Len(R) + 1
  BY <1>2, LenProperties
<1> HIDE DEF Q
<1>4. ASSUME NEW i \in DOMAIN Q
      PROVE  /\ 1 <= Q[i].lo /\ Q[i].lo <= Q[i].hi
             /\ \A j \in DOMAIN Q : i < j => Q[i].hi + 1 < Q[j].lo
  <2>1. CASE i \in DOMAIN R
    <3>1. ASSUME NEW j \in DOMAIN Q, i < j PROVE Q[i].hi + 1 < Q[j].lo
      <4>1. CASE j \in DOMAIN R
        BY <2>1, <3>1, <4>1, <1>1, <1>2, NormalEntry
      <4>2. CASE j = Len(R) + 1
        BY <2>1, <4>2, <1>1, <1>2, NormalEntry
      <4> QED
        BY <4>1, <4>2, <1>1, <1>3
    <3> QED
      BY <2>1, <3>1, <1>1, <1>2, NormalEntry
  <2>2. CASE i = Len(R) + 1
    BY <2>2, <1>1, <1>2, <1>3
  <2> QED
    BY <2>1, <2>2, <1>1, <1>3
<1>5. NormalForm(Q)
  BY <1>2, <1>4 DEF NormalForm
<1>6. ASSUME NEW m PROVE m \in Elems(Q) <=> m \in Elems(R) \/ m \in r.lo .. r.hi
  <2>1. ASSUME NEW i \in DOMAIN Q, m \in Q[i].lo .. Q[i].hi
        PROVE  m \in r.lo .. r.hi \/ \E j \in DOMAIN R : m \in R[j].lo .. R[j].hi
    <3>1. CASE i \in DOMAIN R
      BY <3>1, <2>1, <1>1, <1>2
    <3>2. CASE i = Len(R) + 1
      BY <3>2, <2>1, <1>2
    <3> QED
      BY <3>1, <3>2, <1>1, <1>3
  <2>2. ASSUME NEW j \in DOMAIN R, m \in R[j].lo .. R[j].hi
        PROVE  \E i \in DOMAIN Q : m \in Q[i].lo .. Q[i].hi
    BY <2>2, <1>1, <1>2, <1>3
  <2>3. m \in r.lo .. r.hi => \E i \in DOMAIN Q : m \in Q[i].lo .. Q[i].hi
    <3>1. Len(R) + 1 \in DOMAIN Q
      BY <1>1, <1>3
    <3> QED
      BY <3>1, <1>2
  <2> QED
    BY <2>1, <2>2, <2>3, ElemsMember
<1> QED
  BY <1>5, <1>6 DEF Q

LEMMA AppendSingle ==
  ASSUME NEW R, NormalForm(R), NEW n \in Nat \ {0},
         \A j \in DOMAIN R : R[j].hi + 1 < n
  PROVE  /\ NormalForm(Append(R, Single(n)))
         /\ Elems(Append(R, Single(n))) = Elems(R) \cup {n}
<1> DEFINE r == Single(n)
<1>1. r \in ArtRange /\ r.lo = n /\ r.hi = n
  BY SingleOk
<1> HIDE DEF r
<1>2. 1 <= r.lo /\ r.lo <= r.hi /\ (\A j \in DOMAIN R : R[j].hi + 1 < r.lo)
      /\ r.lo .. r.hi = {n}
  BY <1>1
<1>3. NormalForm(Append(R, r)) /\ Elems(Append(R, r)) = Elems(R) \cup (r.lo .. r.hi)
  BY <1>1, <1>2, AppendRange
<1> QED
  BY <1>2, <1>3 DEF r

\* The range is a new one before range i.
LEMMA InsertSingle ==
  ASSUME NEW R, NormalForm(R), NEW n \in Nat \ {0}, NEW i \in DOMAIN R,
         \A j \in DOMAIN R : j < i => R[j].hi + 1 < n,
         n < R[i].lo - 1,
         NEW Q, Q = InsertAt(R, i, Single(n))
  PROVE  NormalForm(Q) /\ Elems(Q) = Elems(R) \cup {n}
<1>1. R \in Seq(ArtRange) /\ Len(R) \in Nat /\ DOMAIN R = 1 .. Len(R) /\ i \in Nat /\ i <= Len(R)
      /\ 1 <= i
  BY LenProperties DEF NormalForm
<1>2. /\ Q \in Seq(ArtRange) /\ Len(Q) = Len(R) + 1
      /\ \A j \in 1 .. i - 1 : Q[j] = R[j]
      /\ Q[i] = Single(n)
      /\ \A j \in i + 1 .. Len(R) + 1 : Q[j] = R[j - 1]
  <2>1. i \in 1 .. Len(R) + 1
    BY <1>1
  <2>2. Single(n) \in ArtRange
    BY SingleOk
  <2> QED
    <3>1. Inserted(InsertAt(R, i, Single(n)), ArtRange, R, i, Single(n))
      BY <1>1, <2>1, <2>2, InsertAtOk
    <3> QED
      BY <3>1 DEF Inserted
<1>3. DOMAIN Q = 1 .. Len(R) + 1
  BY <1>2, LenProperties
<1>n. /\ \A j \in DOMAIN R : R[j].lo \in Int /\ R[j].hi \in Int /\ 1 <= R[j].lo /\ R[j].lo <= R[j].hi
      /\ \A j, k \in DOMAIN R : j < k => R[j].hi + 1 < R[k].lo
  BY NormalEntry
<1>b. ASSUME NEW j \in DOMAIN Q, j < i PROVE j \in DOMAIN R /\ Q[j] = R[j]
  BY <1>b, <1>1, <1>2, <1>3
<1>a. ASSUME NEW j \in DOMAIN Q, j > i PROVE j - 1 \in DOMAIN R /\ j - 1 >= i /\ Q[j] = R[j - 1]
  BY <1>a, <1>1, <1>2, <1>3
<1>i. i \in DOMAIN Q /\ Q[i].lo = n /\ Q[i].hi = n
  BY <1>1, <1>2, <1>3, SingleOk
<1>u. ASSUME NEW j \in DOMAIN R, j >= i PROVE n + 1 < R[j].lo
  <2>1. R[i].lo \in Int /\ R[i].hi \in Int /\ R[j].lo \in Int /\ R[i].lo <= R[i].hi
    BY <1>n
  <2>2. j > i => R[i].hi + 1 < R[j].lo
    BY <1>n
  <2>3. j = i \/ j > i
    BY <1>u, <1>1
  <2> QED
    BY <2>1, <2>2, <2>3
<1>4. ASSUME NEW j \in DOMAIN Q
      PROVE  /\ 1 <= Q[j].lo /\ Q[j].lo <= Q[j].hi
             /\ \A k \in DOMAIN Q : j < k => Q[j].hi + 1 < Q[k].lo
  <2>0. j \in Nat
    BY <1>1, <1>3
  <2>1. CASE j < i
    <3>1. ASSUME NEW k \in DOMAIN Q, j < k PROVE Q[j].hi + 1 < Q[k].lo
      <4>0. k \in Nat
        BY <1>1, <1>3
      <4>1. CASE k < i
        BY <2>1, <3>1, <4>1, <1>b, <1>n
      <4>2. CASE k = i
        BY <2>1, <4>2, <1>b, <1>i
      <4>3. CASE k > i
        <5>1. j < k - 1
          BY <2>0, <2>1, <4>0, <4>3, <1>1
        <5> QED
          BY <2>1, <4>3, <5>1, <1>b, <1>a, <1>n
      <4> QED
        BY <4>0, <4>1, <4>2, <4>3, <1>1
    <3> QED
      BY <2>1, <3>1, <1>b, <1>n
  <2>2. CASE j = i
    <3>1. ASSUME NEW k \in DOMAIN Q, j < k PROVE Q[j].hi + 1 < Q[k].lo
      BY <2>2, <3>1, <1>a, <1>i, <1>u
    <3> QED
      BY <2>2, <3>1, <1>i
  <2>3. CASE j > i
    <3>1. ASSUME NEW k \in DOMAIN Q, j < k PROVE Q[j].hi + 1 < Q[k].lo
      <4>1. k > i /\ j - 1 < k - 1
        BY <2>0, <2>3, <3>1, <1>1, <1>3
      <4> QED
        BY <2>3, <4>1, <1>a, <1>n
    <3> QED
      BY <2>3, <3>1, <1>a, <1>n
  <2> QED
    BY <2>0, <2>1, <2>2, <2>3, <1>1
<1>5. NormalForm(Q)
  BY <1>2, <1>4 DEF NormalForm
<1>6. ASSUME NEW m PROVE m \in Elems(Q) <=> m \in Elems(R) \/ m = n
  <2>1. ASSUME NEW j \in DOMAIN Q, m \in Q[j].lo .. Q[j].hi
        PROVE  m = n \/ \E k \in DOMAIN R : m \in R[k].lo .. R[k].hi
    <3>0. j \in Nat
      BY <1>1, <1>3
    <3>1. CASE j < i
      BY <3>1, <2>1, <1>b
    <3>2. CASE j = i
      BY <3>2, <2>1, <1>i
    <3>3. CASE j > i
      BY <3>3, <2>1, <1>a
    <3> QED
      BY <3>0, <3>1, <3>2, <3>3, <1>1
  <2>2. ASSUME NEW k \in DOMAIN R, m \in R[k].lo .. R[k].hi
        PROVE  \E j \in DOMAIN Q : m \in Q[j].lo .. Q[j].hi
    <3>1. CASE k < i
      <4>1. k \in DOMAIN Q
        BY <1>1, <1>3
      <4> QED
        BY <3>1, <4>1, <2>2, <1>b
    <3>2. CASE k >= i
      <4>1. k + 1 \in DOMAIN Q /\ k + 1 > i /\ (k + 1) - 1 = k
        BY <3>2, <1>1, <1>3
      <4> QED
        BY <4>1, <2>2, <1>a
    <3> QED
      BY <3>1, <3>2, <1>1
  <2>3. m = n => \E j \in DOMAIN Q : m \in Q[j].lo .. Q[j].hi
    BY <1>i
  <2> QED
    BY <2>1, <2>2, <2>3, ElemsMember
<1> QED
  BY <1>5, <1>6

\* A range grows by one number, to which no other one is near.
LEMMA ChangeRange ==
  ASSUME NEW R, NormalForm(R), NEW i \in DOMAIN R, NEW lo \in Nat \ {0}, NEW hi \in Nat,
         lo <= hi,
         \A j \in DOMAIN R : j < i => R[j].hi + 1 < lo,
         \A j \in DOMAIN R : j > i => hi + 1 < R[j].lo,
         NEW Q, Changed(Q, R, i, lo, hi)
  PROVE  /\ NormalForm(Q)
         /\ Elems(R) \subseteq Elems(Q) \cup (R[i].lo .. R[i].hi)
         /\ Elems(Q) \subseteq Elems(R) \cup (lo .. hi)
         /\ lo .. hi \subseteq Elems(Q)
<1>0. /\ Q \in Seq(ArtRange) /\ Q[i].lo = lo /\ Q[i].hi = hi
      /\ \A j \in DOMAIN R : j # i => Q[j] = R[j]
  BY DEF Changed
<1>1. DOMAIN Q = DOMAIN R /\ DOMAIN R = 1 .. Len(R) /\ Len(R) \in Nat
  BY LenProperties DEF NormalForm, Changed
<1>n. /\ \A j \in DOMAIN R : R[j].lo \in Int /\ R[j].hi \in Int /\ 1 <= R[j].lo /\ R[j].lo <= R[j].hi
      /\ \A j, k \in DOMAIN R : j < k => R[j].hi + 1 < R[k].lo
  BY NormalEntry
<1>2. ASSUME NEW j \in DOMAIN Q
      PROVE  /\ 1 <= Q[j].lo /\ Q[j].lo <= Q[j].hi
             /\ \A k \in DOMAIN Q : j < k => Q[j].hi + 1 < Q[k].lo
  <2>1. CASE j = i
    BY <2>1, <1>0, <1>1
  <2>2. CASE j # i
    <3>1. ASSUME NEW k \in DOMAIN Q, j < k PROVE Q[j].hi + 1 < Q[k].lo
      <4>1. CASE k = i
        BY <2>2, <3>1, <4>1, <1>0, <1>1
      <4>2. CASE k # i
        BY <2>2, <3>1, <4>2, <1>0, <1>1, <1>n
      <4> QED
        BY <4>1, <4>2
    <3> QED
      BY <2>2, <3>1, <1>0, <1>1, <1>n
  <2> QED
    BY <2>1, <2>2
<1>3. NormalForm(Q)
  BY <1>0, <1>2 DEF NormalForm
<1>4. ASSUME NEW m \in Elems(R) PROVE m \in Elems(Q) \/ m \in R[i].lo .. R[i].hi
  <2>1. PICK j \in DOMAIN R : m \in R[j].lo .. R[j].hi
    BY ElemsMember
  <2> QED
    BY <2>1, <1>0, <1>1, ElemsMember
<1>5. ASSUME NEW m \in Elems(Q) PROVE m \in Elems(R) \/ m \in lo .. hi
  <2>1. PICK j \in DOMAIN Q : m \in Q[j].lo .. Q[j].hi
    BY ElemsMember
  <2> QED
    BY <2>1, <1>0, <1>1, ElemsMember
<1>6. ASSUME NEW m \in lo .. hi PROVE m \in Elems(Q)
  BY <1>0, <1>1, <1>6, ElemsMember
<1> QED
  BY <1>3, <1>4, <1>5, <1>6

\* Ranges i and i + 1 become one.
LEMMA JoinRanges ==
  ASSUME NEW R, NormalForm(R), NEW i \in DOMAIN R, i + 1 \in DOMAIN R, NEW n \in Nat,
         n = R[i].hi + 1, n = R[i + 1].lo - 1,
         NEW Q, Q = RemoveAt([R EXCEPT ![i].hi = R[i + 1].hi], i + 1)
  PROVE  NormalForm(Q) /\ Elems(Q) = Elems(R) \cup {n}
<1> DEFINE v == R[i + 1].hi
           X == [R EXCEPT ![i].hi = v]
<1>1. R \in Seq(ArtRange) /\ Len(R) \in Nat /\ DOMAIN R = 1 .. Len(R) /\ i \in Nat /\ i < Len(R)
      /\ 1 <= i
  BY LenProperties DEF NormalForm
<1>n. /\ \A j \in DOMAIN R : R[j].lo \in Int /\ R[j].hi \in Int /\ 1 <= R[j].lo /\ R[j].lo <= R[j].hi
      /\ \A j, k \in DOMAIN R : j < k => R[j].hi + 1 < R[k].lo
  BY NormalEntry
<1>2. /\ X \in Seq(ArtRange) /\ Len(X) = Len(R)
      /\ X[i].lo = R[i].lo /\ X[i].hi = R[i + 1].hi
      /\ \A j \in DOMAIN R : j # i => X[j] = R[j]
  <2>1. v \in Int
    BY <1>n
  <2> HIDE DEF v
  <2>2. Changed(X, R, i, R[i].lo, v)
    BY <2>1, HighOk
  <2> HIDE DEF X
  <2> QED
    BY <2>2 DEF v, Changed
<1> HIDE DEF X
<1> DEFINE c == i + 1
<1>k. c \in 1 .. Len(X) /\ c - 1 = i
  BY <1>1, <1>2
<1>q. Q = RemoveAt(X, c)
  BY DEF X
<1> HIDE DEF c
<1>m. Removed(Q, ArtRange, X, c)
  BY <1>2, <1>k, <1>q, RemoveAtOk
<1>3. Q \in Seq(ArtRange) /\ Len(Q) = Len(R) - 1
  BY <1>2, <1>m DEF Removed
<1>x. \A j \in 1 .. c - 1 : Q[j] = X[j]
  BY <1>m DEF Removed
<1>y. \A j \in c .. Len(X) - 1 : Q[j] = X[j + 1]
  BY <1>m DEF Removed
<1>4. DOMAIN Q = 1 .. Len(R) - 1
  BY <1>3, LenProperties
<1>i. i \in DOMAIN Q /\ Q[i].lo = R[i].lo /\ Q[i].hi = R[i + 1].hi
  <2>1. i \in 1 .. Len(R) - 1 /\ i \in 1 .. c - 1
    BY <1>1, <1>k
  <2>2. Q[i] = X[i]
    BY <2>1, <1>x
  <2> QED
    BY <2>1, <2>2, <1>2, <1>4
<1>b. ASSUME NEW j \in DOMAIN Q, j < i PROVE j \in DOMAIN R /\ Q[j] = R[j]
  <2>1. j \in DOMAIN R /\ j \in 1 .. c - 1 /\ j # i
    BY <1>b, <1>k, <1>1, <1>4
  <2>2. Q[j] = X[j]
    BY <2>1, <1>x
  <2> QED
    BY <2>1, <2>2, <1>2
<1>a. ASSUME NEW j \in DOMAIN Q, j > i
      PROVE  j + 1 \in DOMAIN R /\ j + 1 > i + 1 /\ Q[j] = R[j + 1]
  <2>1. /\ j \in c .. Len(X) - 1 /\ j + 1 \in DOMAIN R /\ j + 1 # i
        /\ j + 1 > i + 1
    BY <1>a, <1>1, <1>2, <1>4 DEF c
  <2>2. Q[j] = X[j + 1]
    BY <2>1, <1>y
  <2> QED
    BY <2>1, <2>2, <1>2
<1>5. ASSUME NEW j \in DOMAIN Q
      PROVE  /\ 1 <= Q[j].lo /\ Q[j].lo <= Q[j].hi
             /\ \A k \in DOMAIN Q : j < k => Q[j].hi + 1 < Q[k].lo
  <2>0. j \in Nat
    BY <1>1, <1>4
  <2>1. CASE j < i
    <3>1. ASSUME NEW k \in DOMAIN Q, j < k PROVE Q[j].hi + 1 < Q[k].lo
      <4>0. k \in Nat
        BY <1>1, <1>4
      <4>1. CASE k < i
        BY <2>1, <3>1, <4>1, <1>b, <1>n
      <4>2. CASE k = i
        BY <2>1, <4>2, <1>b, <1>i, <1>n
      <4>3. CASE k > i
        <5>1. j < k + 1
          BY <2>0, <3>1, <4>0
        <5> QED
          BY <2>1, <4>3, <5>1, <1>b, <1>a, <1>n
      <4> QED
        BY <4>0, <4>1, <4>2, <4>3, <1>1
    <3> QED
      BY <2>1, <3>1, <1>b, <1>n
  <2>2. CASE j = i
    <3>1. ASSUME NEW k \in DOMAIN Q, j < k PROVE Q[j].hi + 1 < Q[k].lo
      BY <2>2, <3>1, <1>a, <1>i, <1>n
    <3>2. R[i].hi + 1 < R[i + 1].lo /\ R[i].hi \in Int /\ R[i + 1].lo \in Int /\ R[i + 1].hi \in Int
          /\ R[i].lo <= R[i].hi /\ R[i + 1].lo <= R[i + 1].hi /\ R[i].lo \in Int /\ 1 <= R[i].lo
      BY <1>1, <1>n
    <3>3. 1 <= R[i].lo /\ R[i].lo <= R[i + 1].hi
      BY <3>2
    <3>4. 1 <= Q[i].lo /\ Q[i].lo <= Q[i].hi
      BY <3>3, <1>i
    <3> QED
      BY <2>2, <3>1, <3>4
  <2>3. CASE j > i
    <3>1. ASSUME NEW k \in DOMAIN Q, j < k PROVE Q[j].hi + 1 < Q[k].lo
      <4>1. k > i /\ j + 1 < k + 1
        BY <2>0, <2>3, <3>1, <1>1, <1>4
      <4> QED
        BY <2>3, <4>1, <1>a, <1>n
    <3> QED
      BY <2>3, <3>1, <1>a, <1>n
  <2>4. j < i \/ j = i \/ j > i
    BY <2>0, <1>1
  <2> QED
    BY <2>1, <2>2, <2>3, <2>4
<1>6. NormalForm(Q)
  BY <1>3, <1>5 DEF NormalForm
<1>7. ASSUME NEW m PROVE m \in Elems(Q) <=> m \in Elems(R) \/ m = n
  <2>i. m \in Q[i].lo .. Q[i].hi <=> \/ m \in R[i].lo .. R[i].hi \/ m = n
                                   \/ m \in R[i + 1].lo .. R[i + 1].hi
    BY <1>i, <1>n, <1>1
  <2>1. ASSUME NEW j \in DOMAIN Q, m \in Q[j].lo .. Q[j].hi
        PROVE  m = n \/ \E k \in DOMAIN R : m \in R[k].lo .. R[k].hi
    <3>0. j \in Nat
      BY <1>1, <1>4
    <3>1. CASE j < i
      BY <3>1, <2>1, <1>b
    <3>2. CASE j = i
      BY <3>2, <2>1, <2>i
    <3>3. CASE j > i
      BY <3>3, <2>1, <1>a
    <3> QED
      BY <3>0, <3>1, <3>2, <3>3, <1>1
  <2>2. ASSUME NEW k \in DOMAIN R, m \in R[k].lo .. R[k].hi
        PROVE  \E j \in DOMAIN Q : m \in Q[j].lo .. Q[j].hi
    <3>1. CASE k < i
      <4>1. k \in DOMAIN Q
        BY <3>1, <1>1, <1>4
      <4> QED
        BY <3>1, <4>1, <2>2, <1>b
    <3>2. CASE k = i \/ k = i + 1
      BY <3>2, <2>2, <2>i, <1>i
    <3>3. CASE k > i + 1
      <4>1. k - 1 \in DOMAIN Q /\ k - 1 > i /\ (k - 1) + 1 = k
        BY <3>3, <1>1, <1>4
      <4> QED
        BY <4>1, <2>2, <1>a
    <3>4. k < i \/ k = i \/ k = i + 1 \/ k > i + 1
      BY <1>1
    <3> QED
      BY <3>1, <3>2, <3>3, <3>4
  <2>3. m = n => \E j \in DOMAIN Q : m \in Q[j].lo .. Q[j].hi
    BY <1>i, <2>i
  <2> QED
    BY <2>1, <2>2, <2>3, ElemsMember
<1> QED
  BY <1>6, <1>7

\* artMarkRead() adds the number to the list, whichever ranges it meets.
THEOREM MarkReadOk ==
  ASSUME NEW R, NormalForm(R), NEW n \in Nat \ {0}
  PROVE  /\ NormalForm(MarkRead(R, n))
         /\ Elems(MarkRead(R, n)) = Elems(R) \cup {n}
<1>1. R \in Seq(ArtRange) /\ Len(R) \in Nat /\ DOMAIN R = 1 .. Len(R)
  BY LenProperties DEF NormalForm
<1>n. /\ \A j \in DOMAIN R : R[j].lo \in Int /\ R[j].hi \in Int /\ 1 <= R[j].lo /\ R[j].lo <= R[j].hi
      /\ \A j, k \in DOMAIN R : j < k => R[j].hi + 1 < R[k].lo
  BY NormalEntry
<1>s. ASSUME NEW j \in DOMAIN R, j \notin Stops(R, n) PROVE R[j].hi + 1 < n
  <2>1. ~(n < R[j].lo) /\ n \notin R[j].lo .. R[j].hi + 1
    BY <1>s DEF Stops
  <2> QED
    BY <2>1, <1>n
<1>2. CASE Stops(R, n) = {}
  BY <1>2, <1>s, AppendSingle DEF MarkRead
<1>3. CASE Stops(R, n) # {}
  <2> DEFINE i == Min(Stops(R, n))
             closesGap == i < Len(R) /\ n = R[i + 1].lo - 1
  <2>1. i \in Stops(R, n) /\ \A j \in Stops(R, n) : i <= j
    <3>1. Stops(R, n) \subseteq Nat
      BY <1>1 DEF Stops
    <3> QED
      BY <3>1, <1>3, MinOk
  <2>2. MarkRead(R, n) =
          CASE n < R[i].lo - 1 -> InsertAt(R, i, Single(n))
            [] n = R[i].lo - 1 -> [R EXCEPT ![i].lo = n]
            [] n = R[i].hi + 1 ->
                 IF closesGap
                 THEN RemoveAt([R EXCEPT ![i].hi = R[i + 1].hi], i + 1)
                 ELSE [R EXCEPT ![i].hi = n]
            [] OTHER -> R
    BY <1>3 DEF MarkRead
  <2> HIDE DEF i
  <2>3. i \in DOMAIN R /\ i \in Nat /\ i <= Len(R) /\ 1 <= i
    BY <2>1, <1>1 DEF Stops
  <2>4. \A j \in DOMAIN R : j < i => R[j].hi + 1 < n
    BY <2>1, <2>3, <1>1, <1>s
  <2>t. R[i].lo \in Int /\ R[i].hi \in Int /\ 1 <= R[i].lo /\ R[i].lo <= R[i].hi
    BY <2>3, <1>n
  <2>5. n < R[i].lo \/ n \in R[i].lo .. R[i].hi + 1
    BY <2>1 DEF Stops
  <2>6. CASE n < R[i].lo - 1
    <3>1. MarkRead(R, n) = InsertAt(R, i, Single(n))
      BY <2>2, <2>6, <2>t
    <3> QED
      BY <3>1, <2>3, <2>4, <2>6, InsertSingle
  <2>7. CASE n = R[i].lo - 1
    <3> DEFINE Q == [R EXCEPT ![i].lo = n]
    <3>1. MarkRead(R, n) = Q
      BY <2>2, <2>7, <2>t
    <3>4. Changed(Q, R, i, n, R[i].hi)
      BY <2>3, LowOk
    <3> HIDE DEF Q
    <3>5. /\ NormalForm(Q)
          /\ Elems(R) \subseteq Elems(Q) \cup (R[i].lo .. R[i].hi)
          /\ Elems(Q) \subseteq Elems(R) \cup (n .. R[i].hi)
          /\ n .. R[i].hi \subseteq Elems(Q)
      <4>1. \A j \in DOMAIN R : j > i => R[i].hi + 1 < R[j].lo
        BY <2>3, <1>n
      <4>2. n <= R[i].hi /\ R[i].hi \in Nat
        BY <2>7, <2>t
      <4> QED
        BY <4>1, <4>2, <3>4, <2>3, <2>4, ChangeRange
    <3>6. n .. R[i].hi = (R[i].lo .. R[i].hi) \cup {n} /\ R[i].lo .. R[i].hi \subseteq Elems(R)
      <4>1. n .. R[i].hi = (R[i].lo .. R[i].hi) \cup {n}
        BY <2>7, <2>t
      <4> QED
        BY <4>1, <2>3, ElemsMember
    <3> QED
      BY <3>1, <3>5, <3>6
  <2>8. CASE n = R[i].hi + 1 /\ closesGap
    <3> DEFINE Q == RemoveAt([R EXCEPT ![i].hi = R[i + 1].hi], i + 1)
    <3>1. MarkRead(R, n) = Q
      BY <2>2, <2>8, <2>t
    <3>2. i + 1 \in DOMAIN R
      BY <2>8, <2>3, <1>1
    <3> HIDE DEF Q
    <3>3. NormalForm(Q) /\ Elems(Q) = Elems(R) \cup {n}
      BY <3>2, <2>8, <2>3, JoinRanges DEF Q
    <3> QED
      BY <3>1, <3>3
  <2>9. CASE n = R[i].hi + 1 /\ ~closesGap
    <3> DEFINE Q == [R EXCEPT ![i].hi = n]
    <3>1. MarkRead(R, n) = Q
      BY <2>2, <2>9, <2>t
    <3>4. Changed(Q, R, i, R[i].lo, n)
      BY <2>3, HighOk
    <3> HIDE DEF Q
    <3>5. /\ NormalForm(Q)
          /\ Elems(R) \subseteq Elems(Q) \cup (R[i].lo .. R[i].hi)
          /\ Elems(Q) \subseteq Elems(R) \cup (R[i].lo .. n)
          /\ R[i].lo .. n \subseteq Elems(Q)
      <4>1. ASSUME NEW j \in DOMAIN R, j > i PROVE n + 1 < R[j].lo
        <5>1. i + 1 \in DOMAIN R /\ (j = i + 1 \/ i + 1 < j)
          BY <4>1, <2>3, <1>1
        <5>2. n + 1 < R[i + 1].lo
          <6>1. n # R[i + 1].lo - 1
            BY <5>1, <2>9, <2>3, <1>1
          <6>2. R[i].hi + 1 < R[i + 1].lo /\ R[i + 1].lo \in Int
            BY <5>1, <2>3, <1>n
          <6> QED
            BY <6>1, <6>2, <2>9, <2>t
        <5>3. R[i + 1].lo \in Int /\ R[i + 1].hi \in Int /\ R[i + 1].lo <= R[i + 1].hi /\ R[j].lo \in Int
              /\ (i + 1 < j => R[i + 1].hi + 1 < R[j].lo)
          BY <5>1, <1>n
        <5> QED
          BY <5>1, <5>2, <5>3
      <4>2. \A j \in DOMAIN R : j < i => R[j].hi + 1 < R[i].lo
        BY <2>3, <1>n
      <4>3. R[i].lo <= n /\ R[i].lo \in Nat \ {0}
        BY <2>9, <2>t
      <4> DEFINE l == R[i].lo
      <4>4. /\ \A j \in DOMAIN R : j < i => R[j].hi + 1 < l
            /\ l <= n /\ l \in Nat \ {0} /\ n \in Nat
            /\ Changed(Q, R, i, l, n)
        BY <4>2, <4>3, <3>4
      <4> HIDE DEF l
      <4>5. /\ NormalForm(Q)
            /\ Elems(R) \subseteq Elems(Q) \cup (R[i].lo .. R[i].hi)
            /\ Elems(Q) \subseteq Elems(R) \cup (l .. n)
            /\ l .. n \subseteq Elems(Q)
        BY <4>1, <4>4, <2>3, ChangeRange
      <4> QED
        BY <4>5 DEF l
    <3>6. R[i].lo .. n = (R[i].lo .. R[i].hi) \cup {n} /\ R[i].lo .. R[i].hi \subseteq Elems(R)
      <4>1. R[i].lo .. n = (R[i].lo .. R[i].hi) \cup {n}
        BY <2>9, <2>t
      <4> QED
        BY <4>1, <2>3, ElemsMember
    <3> QED
      BY <3>1, <3>5, <3>6
  <2>10. CASE n \in R[i].lo .. R[i].hi
    <3>1. MarkRead(R, n) = R
      BY <2>2, <2>10, <2>t
    <3> QED
      BY <3>1, <2>3, <2>10, ElemsMember
  <2> QED
    BY <2>5, <2>6, <2>7, <2>8, <2>9, <2>10, <2>t
<1> QED
  BY <1>2, <1>3
-----------------------------------------------------------------------------
(* artIsRead(), grpFirstUnread()                                             *)

\* artIsRead() decides membership, though it stops at the first range above n.
THEOREM ArtIsReadOk ==
  ASSUME NEW R, NormalForm(R), NEW n \in Int
  PROVE  ArtIsRead(R, n) <=> n <= 0 \/ n \in Elems(R)
<1>1. DOMAIN R = 1 .. Len(R) /\ Len(R) \in Nat
  BY LenProperties DEF NormalForm
<1>n. /\ \A j \in DOMAIN R : R[j].lo \in Int /\ R[j].hi \in Int /\ 1 <= R[j].lo /\ R[j].lo <= R[j].hi
      /\ \A j, k \in DOMAIN R : j < k => R[j].hi + 1 < R[k].lo
  BY NormalEntry
<1>2. ASSUME NEW i \in DOMAIN R, n \in R[i].lo .. R[i].hi
      PROVE  \A j \in 1 .. i - 1 : R[j].lo <= n
  <2>1. ASSUME NEW j \in 1 .. i - 1 PROVE R[j].lo <= n
    <3>1. j \in DOMAIN R /\ j < i
      BY <1>1
    <3> QED
      BY <3>1, <1>2, <1>n
  <2> QED
    BY <2>1
<1> QED
  BY <1>2, ElemsMember DEF ArtIsRead

\* Nothing is read below the first range nor right behind it.
LEMMA FirstRange ==
  ASSUME NEW R, NormalForm(R), R # <<>>
  PROVE  /\ 1 \in DOMAIN R /\ R[1].lo \in Int /\ R[1].hi \in Int /\ 1 <= R[1].lo /\ R[1].lo <= R[1].hi
         /\ R[1].lo .. R[1].hi \subseteq Elems(R)
         /\ \A m \in Elems(R) : /\ m \in Int /\ R[1].lo <= m
                                /\ m <= R[1].hi \/ m > R[1].hi + 1
<1>1. /\ R \in Seq(ArtRange) /\ DOMAIN R = 1 .. Len(R) /\ Len(R) \in Nat
      /\ Len(R) # 0
  BY LenProperties, EmptySeq DEF NormalForm
<1>2. 1 \in DOMAIN R
  BY <1>1
<1>n. /\ \A j \in DOMAIN R : R[j].lo \in Int /\ R[j].hi \in Int /\ 1 <= R[j].lo /\ R[j].lo <= R[j].hi
      /\ \A j, k \in DOMAIN R : j < k => R[j].hi + 1 < R[k].lo
  BY NormalEntry
<1>3. ASSUME NEW m \in Elems(R)
      PROVE  m \in Int /\ R[1].lo <= m /\ (m <= R[1].hi \/ m > R[1].hi + 1)
  <2>1. PICK j \in DOMAIN R : m \in R[j].lo .. R[j].hi
    BY ElemsMember
  <2>2. CASE j = 1
    BY <2>1, <2>2, <1>n
  <2>3. CASE 1 < j
    <3>1. R[1].hi + 1 < R[j].lo
      BY <2>3, <1>2, <1>n
    <3>2. m \in Int /\ R[j].lo \in Int /\ R[j].lo <= m
      BY <2>1, <1>n
    <3> QED
      BY <3>1, <3>2, <1>2, <1>n
  <2> QED
    BY <2>2, <2>3, <1>1
<1>4. R[1].lo .. R[1].hi \subseteq Elems(R)
  BY <1>2, ElemsMember
<1> QED
  BY <1>2, <1>3, <1>4, <1>n

\* Once a list is fixed, the article grpFirstUnread() names is the first one unread.
THEOREM FirstUnreadOk ==
  ASSUME NEW R, NormalForm(R), NEW lo \in Nat \ {0}, 1 .. lo - 1 \subseteq Elems(R)
  PROVE  LET first == FirstUnread(R, lo)
         IN  /\ first \in Nat /\ first >= lo /\ first \notin Elems(R)
             /\ lo .. first - 1 \subseteq Elems(R)
<1>1. CASE R = <<>>
  <2>1. FirstUnread(R, lo) = lo
    BY <1>1 DEF FirstUnread
  <2>2. Elems(R) = {}
    BY <1>1 DEF Elems
  <2> QED
    BY <2>1, <2>2
<1>2. CASE R # <<>> /\ lo < R[1].lo
  <2>1. FirstUnread(R, lo) = lo
    BY <1>2 DEF FirstUnread
  <2>2. lo \notin Elems(R)
    BY <1>2, FirstRange
  <2> QED
    BY <2>1, <2>2
<1>3. CASE R # <<>> /\ ~(lo < R[1].lo)
  <2>1. FirstUnread(R, lo) = R[1].hi + 1
    BY <1>3 DEF FirstUnread
  <2> DEFINE a == R[1].lo
             b == R[1].hi
  <2>2. /\ a \in Int /\ b \in Int /\ 1 <= a /\ a <= b /\ a .. b \subseteq Elems(R)
        /\ \A m \in Elems(R) : m \in Int /\ a <= m /\ (m <= b \/ m > b + 1)
    BY <1>3, FirstRange
  <2>3. a <= lo
    BY <1>3, <2>2
  <2>4. FirstUnread(R, lo) = b + 1
    BY <2>1
  <2> HIDE DEF a, b
  <2>5. b + 1 \notin Elems(R)
    BY <2>2
  <2>6. lo <= b + 1
    <3>1. SUFFICES ASSUME b + 1 < lo PROVE FALSE
      BY <2>2
    <3>2. b + 1 \in 1 .. lo - 1
      BY <2>2, <3>1
    <3> QED
      BY <2>5, <3>2
  <2>7. lo .. b \subseteq Elems(R)
    <3>1. lo .. b \subseteq a .. b
      BY <2>2, <2>3
    <3> QED
      BY <2>2, <3>1
  <2>8. (b + 1) - 1 = b /\ b + 1 \in Nat
    BY <2>2
  <2> QED
    BY <2>4, <2>5, <2>6, <2>7, <2>8
<1> QED
  BY <1>1, <1>2, <1>3
-----------------------------------------------------------------------------
(* grpFixReadList(), grpCatchup()                                            *)

LEMMA EmptyOk == NormalForm(<<>>) /\ Elems(<<>>) = {}
  BY EmptySeq DEF NormalForm, Elems

LEMMA ElemsPositive ==
  ASSUME NEW R, NormalForm(R), NEW n \in Elems(R)
  PROVE  n \in Nat \ {0}
<1>1. PICK i \in DOMAIN R : n \in R[i].lo .. R[i].hi
  BY ElemsMember
<1> QED
  BY <1>1, NormalEntry

\* The end of the last range is the greatest number of the list.
LEMMA LastRange ==
  ASSUME NEW R, NormalForm(R), R # <<>>
  PROVE  /\ Len(R) \in DOMAIN R /\ R[Len(R)].hi \in Nat
         /\ R[Len(R)].hi \in Elems(R)
         /\ \A n \in Elems(R) : n <= R[Len(R)].hi
<1>1. /\ R \in Seq(ArtRange) /\ DOMAIN R = 1 .. Len(R) /\ Len(R) \in Nat /\ Len(R) # 0
  BY LenProperties, EmptySeq DEF NormalForm
<1>2. Len(R) \in DOMAIN R
  BY <1>1
<1>n. /\ \A j \in DOMAIN R : R[j].lo \in Int /\ R[j].hi \in Int /\ 1 <= R[j].lo /\ R[j].lo <= R[j].hi
      /\ \A j, k \in DOMAIN R : j < k => R[j].hi + 1 < R[k].lo
  BY NormalEntry
<1>3. ASSUME NEW n \in Elems(R) PROVE n <= R[Len(R)].hi
  <2>1. PICK i \in DOMAIN R : n \in R[i].lo .. R[i].hi
    BY ElemsMember
  <2>2. CASE i = Len(R)
    BY <2>1, <2>2, <1>n
  <2>3. CASE i < Len(R)
    <3>1. R[i].hi + 1 < R[Len(R)].lo
      BY <2>3, <1>2, <1>n
    <3>2. R[Len(R)].lo <= R[Len(R)].hi /\ R[Len(R)].lo \in Int /\ R[Len(R)].hi \in Int
          /\ R[i].hi \in Int /\ R[i].lo \in Int
      BY <1>2, <1>n
    <3> QED
      BY <3>1, <3>2, <2>1
  <2> QED
    BY <2>2, <2>3, <1>1
<1>4. R[Len(R)].hi \in R[Len(R)].lo .. R[Len(R)].hi
  BY <1>2, <1>n
<1> QED
  BY <1>2, <1>3, <1>4, <1>n, ElemsMember

\* q is the list without its ranges before range k.
Rest(q, R, k) ==
  /\ NormalForm(q) /\ q # <<>> /\ q[1] = R[k]
  /\ Elems(q) \subseteq Elems(R)
  /\ \A n \in Elems(R) \ Elems(q) : \E i \in DOMAIN R : i < k /\ n \in R[i].lo .. R[i].hi

LEMMA RestOk ==
  ASSUME NEW R, NormalForm(R), NEW k \in DOMAIN R, NEW Q, Q = SubSeq(R, k, Len(R))
  PROVE  Rest(Q, R, k)
<1>1. R \in Seq(ArtRange) /\ DOMAIN R = 1 .. Len(R) /\ Len(R) \in Nat /\ k \in Nat /\ 1 <= k
      /\ k <= Len(R)
  BY LenProperties DEF NormalForm
<1>n. /\ \A j \in DOMAIN R : R[j].lo \in Int /\ R[j].hi \in Int /\ 1 <= R[j].lo /\ R[j].lo <= R[j].hi
      /\ \A i, j \in DOMAIN R : i < j => R[i].hi + 1 < R[j].lo
  BY NormalEntry
<1>2. Q \in Seq(ArtRange) /\ Len(Q) = Len(R) - k + 1 /\ DOMAIN Q = 1 .. Len(R) - k + 1
  <2>1. \A i \in k .. Len(R) : R[i] \in ArtRange
    BY ElementOfSeq, <1>1
  <2>2. Q \in Seq(ArtRange) /\ Len(Q) = IF k <= Len(R) THEN Len(R) - k + 1 ELSE 0
    BY <1>1, <2>1, SubSeqProperties
  <2>3. Len(Q) = Len(R) - k + 1
    BY <1>1, <2>2
  <2> QED
    BY <2>2, <2>3, LenProperties
<1>3. \A i \in 1 .. Len(R) - k + 1 : Q[i] = R[k + i - 1]
  <2>1. \A i \in k .. Len(R) : R[i] \in ArtRange
    BY ElementOfSeq, <1>1
  <2> QED
    BY <1>1, <2>1, SubSeqProperties
<1>4. ASSUME NEW i \in DOMAIN Q
      PROVE  i \in Nat /\ k + i - 1 \in DOMAIN R /\ Q[i] = R[k + i - 1]
  BY <1>1, <1>2, <1>3
<1>5. ASSUME NEW i \in DOMAIN Q
      PROVE  /\ 1 <= Q[i].lo /\ Q[i].lo <= Q[i].hi
             /\ \A j \in DOMAIN Q : i < j => Q[i].hi + 1 < Q[j].lo
  <2>1. ASSUME NEW j \in DOMAIN Q, i < j PROVE Q[i].hi + 1 < Q[j].lo
    <3>1. k + i - 1 < k + j - 1
      BY <2>1, <1>1, <1>4
    <3> QED
      BY <3>1, <1>4, <1>n
  <2> QED
    BY <2>1, <1>4, <1>n
<1>6. NormalForm(Q)
  BY <1>2, <1>5 DEF NormalForm
<1>7. Q # <<>> /\ Q[1] = R[k]
  <2>1. 1 \in DOMAIN Q /\ k + 1 - 1 = k /\ Len(Q) # 0
    BY <1>1, <1>2
  <2> QED
    BY <2>1, <1>4
<1>8. ASSUME NEW n \in Elems(Q) PROVE n \in Elems(R)
  BY <1>4, ElemsMember
<1>9. ASSUME NEW n \in Elems(R), n \notin Elems(Q)
      PROVE  \E i \in DOMAIN R : i < k /\ n \in R[i].lo .. R[i].hi
  <2>1. PICK i \in DOMAIN R : n \in R[i].lo .. R[i].hi
    BY ElemsMember
  <2>2. ASSUME i >= k PROVE FALSE
    <3> DEFINE j == i - k + 1
    <3>1. j \in DOMAIN Q /\ k + j - 1 = i
      BY <2>2, <1>1, <1>2
    <3> HIDE DEF j
    <3>2. Q[j] = R[i]
      BY <3>1, <1>4
    <3> QED
      BY <3>1, <3>2, <2>1, <1>9, ElemsMember
  <2> QED
    BY <2>1, <2>2, <1>1
<1> QED
  BY <1>6, <1>7, <1>8, <1>9 DEF Rest

\* The group was reset: the limit on sets.
Reset(S, hi) ==
  IF \E n \in S : n > hi + (IF hi > ResetAbove THEN ResetSlack ELSE 0) THEN {} ELSE S

LEMMA FixResetOk ==
  ASSUME NEW R, NormalForm(R), NEW hi \in Int
  PROVE  NormalForm(FixReset(R, hi)) /\ Elems(FixReset(R, hi)) = Reset(Elems(R), hi)
<1> DEFINE limit == hi + (IF hi > ResetAbove THEN ResetSlack ELSE 0)
<1>0. limit \in Int
  BY ResetOK
<1>r. /\ Reset(Elems(R), hi) = IF \E n \in Elems(R) : n > limit THEN {} ELSE Elems(R)
      /\ FixReset(R, hi) = IF R # <<>> /\ R[Len(R)].hi > limit THEN <<>> ELSE R
  BY DEF Reset, FixReset
<1> HIDE DEF limit
<1>1. CASE R = <<>>
  BY <1>1, <1>r, EmptyOk
<1>2. CASE R # <<>>
  <2>1. R[Len(R)].hi > limit <=> \E n \in Elems(R) : n > limit
    <3>1. ASSUME NEW n \in Elems(R), n > limit PROVE R[Len(R)].hi > limit
      <4>1. n <= R[Len(R)].hi /\ R[Len(R)].hi \in Nat /\ n \in Nat
        BY <1>2, LastRange, ElemsPositive
      <4> QED
        BY <3>1, <4>1, <1>0
    <3> QED
      BY <3>1, <1>2, LastRange
  <2> QED
    BY <1>2, <2>1, <1>r, EmptyOk
<1> QED
  BY <1>1, <1>2

\* What is dropped lies below the first article.
LEMMA FixDropOk ==
  ASSUME NEW R, NormalForm(R), NEW lo \in Int
  PROVE  /\ NormalForm(FixDrop(R, lo))
         /\ FixDrop(R, lo) # <<>> => lo <= FixDrop(R, lo)[1].hi
         /\ Elems(FixDrop(R, lo)) \cup (1 .. lo - 1) = Elems(R) \cup (1 .. lo - 1)
<1> DEFINE keep == {i \in DOMAIN R : lo <= R[i].hi}
<1>1. DOMAIN R = 1 .. Len(R) /\ Len(R) \in Nat
  BY LenProperties DEF NormalForm
<1>n. \A j \in DOMAIN R : R[j].lo \in Int /\ R[j].hi \in Int /\ 1 <= R[j].lo /\ R[j].lo <= R[j].hi
  BY NormalEntry
<1>2. ASSUME NEW i \in DOMAIN R, i \notin keep, NEW n \in R[i].lo .. R[i].hi
      PROVE  n \in 1 .. lo - 1
  <2>1. ~(lo <= R[i].hi)
    BY <1>2
  <2> QED
    BY <2>1, <1>n
<1>3. CASE keep = {}
  <2>1. FixDrop(R, lo) = <<>>
    BY <1>3 DEF FixDrop
  <2>2. Elems(R) \subseteq 1 .. lo - 1
    BY <1>2, <1>3, ElemsMember
  <2> QED
    BY <2>1, <2>2, EmptyOk
<1>4. CASE keep # {}
  <2> DEFINE k == Min(keep)
             Q == SubSeq(R, k, Len(R))
  <2>1. FixDrop(R, lo) = Q
    BY <1>4 DEF FixDrop
  <2>2. k \in keep /\ \A i \in keep : k <= i
    <3>1. keep \subseteq Nat
      BY <1>1
    <3> QED
      BY <3>1, <1>4, MinOk
  <2>3. k \in DOMAIN R /\ lo <= R[k].hi
    BY <2>2
  <2>q. Q = SubSeq(R, k, Len(R))
    OBVIOUS
  <2> HIDE DEF k, keep, Q
  <2>4. \A i \in DOMAIN R : i < k => i \notin keep
    <3>1. k \in Nat /\ \A i \in DOMAIN R : i \in Nat
      BY <2>3, <1>1
    <3> QED
      BY <2>2, <3>1
  <2>5. /\ NormalForm(Q) /\ Q # <<>> /\ Q[1] = R[k]
        /\ Elems(Q) \subseteq Elems(R)
        /\ \A n \in Elems(R) \ Elems(Q) : \E i \in DOMAIN R : i < k /\ n \in R[i].lo .. R[i].hi
    <3>1. Rest(Q, R, k)
      BY <2>3, <2>q, RestOk
    <3> QED
      BY <3>1 DEF Rest
  <2>6. Elems(R) \ Elems(Q) \subseteq 1 .. lo - 1
    BY <2>4, <2>5, <1>2
  <2> QED
    BY <2>1, <2>3, <2>5, <2>6
<1> QED
  BY <1>3, <1>4

LEMMA FixFirstOk ==
  ASSUME NEW R, NormalForm(R), NEW lo \in Int, R # <<>> => lo <= R[1].hi
  PROVE  /\ NormalForm(FixFirst(R, lo))
         /\ Elems(FixFirst(R, lo)) = Elems(R) \cup (1 .. lo - 1)
<1>1. R \in Seq(ArtRange) /\ DOMAIN R = 1 .. Len(R) /\ Len(R) \in Nat
  BY LenProperties DEF NormalForm
<1>n. /\ \A j \in DOMAIN R : R[j].lo \in Int /\ R[j].hi \in Int /\ 1 <= R[j].lo /\ R[j].lo <= R[j].hi
      /\ \A i, j \in DOMAIN R : i < j => R[i].hi + 1 < R[j].lo
  BY NormalEntry
<1>2. CASE (R = <<>> \/ lo < R[1].lo) /\ ~(lo > 1)
  <2>1. FixFirst(R, lo) = R
    BY <1>2 DEF FixFirst
  <2>2. 1 .. lo - 1 = {}
    BY <1>2
  <2> QED
    BY <2>1, <2>2
<1>3. CASE (R = <<>> \/ lo < R[1].lo) /\ lo > 1
  <2> DEFINE e == [lo |-> 1, hi |-> lo - 1]
             Q == <<e>> \o R
  <2>1. FixFirst(R, lo) = Q
    BY <1>3 DEF FixFirst, Cons
  <2>2. e \in ArtRange /\ e.lo = 1 /\ e.hi = lo - 1 /\ 1 <= lo - 1
    BY <1>3 DEF ArtRange
  <2> HIDE DEF e
  <2>3. <<e>> \in Seq(ArtRange) /\ Len(<<e>>) = 1 /\ <<e>>[1] = e
    BY <2>2
  <2>4. /\ Q \in Seq(ArtRange) /\ Len(Q) = 1 + Len(R)
        /\ \A j \in 1 .. 1 + Len(R) : Q[j] = IF j <= 1 THEN <<e>>[j] ELSE R[j - 1]
    BY <2>3, <1>1, ConcatProperties
  <2> HIDE DEF Q
  <2>5. DOMAIN Q = 1 .. 1 + Len(R)
    BY <2>4, LenProperties
  <2>6. 1 \in DOMAIN Q /\ Q[1] = e
    BY <2>3, <2>4, <2>5, <1>1
  <2>7. ASSUME NEW j \in DOMAIN Q, j # 1 PROVE j \in Nat /\ j - 1 \in DOMAIN R /\ Q[j] = R[j - 1]
    BY <2>4, <2>5, <2>7, <1>1
  <2>8. ASSUME NEW j \in DOMAIN R PROVE lo < R[j].lo
    <3>1. R # <<>> /\ 1 \in DOMAIN R /\ (j = 1 \/ 1 < j) /\ lo < R[1].lo
      BY <2>8, <1>1, <1>3, EmptySeq
    <3> QED
      BY <3>1, <1>n
  <2>9. ASSUME NEW i \in DOMAIN Q
        PROVE  /\ 1 <= Q[i].lo /\ Q[i].lo <= Q[i].hi
               /\ \A j \in DOMAIN Q : i < j => Q[i].hi + 1 < Q[j].lo
    <3>1. CASE i = 1
      <4>1. ASSUME NEW j \in DOMAIN Q, i < j PROVE Q[i].hi + 1 < Q[j].lo
        <5>1. j # 1
          BY <3>1, <4>1, <2>5
        <5>2. Q[j] = R[j - 1] /\ lo < R[j - 1].lo
          BY <5>1, <2>7, <2>8
        <5> QED
          BY <3>1, <5>2, <2>2, <2>6
      <4> QED
        BY <3>1, <4>1, <2>2, <2>6
    <3>2. CASE i # 1
      <4>1. ASSUME NEW j \in DOMAIN Q, i < j PROVE Q[i].hi + 1 < Q[j].lo
        <5>1. j # 1 /\ i - 1 < j - 1
          BY <3>2, <4>1, <2>5, <1>1
        <5> QED
          BY <3>2, <5>1, <2>7, <1>n
      <4> QED
        BY <3>2, <4>1, <2>7, <1>n
    <3> QED
      BY <3>1, <3>2
  <2>10. NormalForm(Q)
    BY <2>4, <2>9 DEF NormalForm
  <2>11. ASSUME NEW m PROVE m \in Elems(Q) <=> m \in Elems(R) \/ m \in 1 .. lo - 1
    <3>1. ASSUME NEW j \in DOMAIN Q, m \in Q[j].lo .. Q[j].hi
          PROVE  m \in 1 .. lo - 1 \/ \E i \in DOMAIN R : m \in R[i].lo .. R[i].hi
      <4>1. CASE j = 1
        BY <3>1, <4>1, <2>2, <2>6
      <4>2. CASE j # 1
        BY <3>1, <4>2, <2>7
      <4> QED
        BY <4>1, <4>2
    <3>2. ASSUME NEW i \in DOMAIN R, m \in R[i].lo .. R[i].hi
          PROVE  \E j \in DOMAIN Q : m \in Q[j].lo .. Q[j].hi
      <4>1. i + 1 \in DOMAIN Q /\ i + 1 # 1 /\ (i + 1) - 1 = i
        BY <1>1, <2>5
      <4> QED
        BY <3>2, <4>1, <2>7
    <3>3. m \in 1 .. lo - 1 => \E j \in DOMAIN Q : m \in Q[j].lo .. Q[j].hi
      BY <2>2, <2>6
    <3> QED
      BY <3>1, <3>2, <3>3, ElemsMember
  <2> QED
    BY <2>1, <2>10, <2>11
<1>4. CASE R # <<>> /\ ~(lo < R[1].lo)
  <2> DEFINE Q == [R EXCEPT ![1].lo = 1]
  <2>1. FixFirst(R, lo) = Q
    BY <1>4 DEF FixFirst
  <2>2. 1 \in DOMAIN R
    BY <1>1, <1>4, EmptySeq
  <2>3. Changed(Q, R, 1, 1, R[1].hi)
    <3>1. 1 \in Int
      OBVIOUS
    <3> QED
      BY <3>1, <2>2, LowOk, Zenon
  <2> HIDE DEF Q
  <2>4. /\ \A j \in DOMAIN R : j < 1 => R[j].hi + 1 < 1
        /\ \A j \in DOMAIN R : j > 1 => R[1].hi + 1 < R[j].lo
        /\ 1 <= R[1].hi /\ R[1].hi \in Nat
    BY <2>2, <1>1, <1>n
  <2>5. /\ NormalForm(Q)
        /\ Elems(R) \subseteq Elems(Q) \cup (R[1].lo .. R[1].hi)
        /\ Elems(Q) \subseteq Elems(R) \cup (1 .. R[1].hi)
        /\ 1 .. R[1].hi \subseteq Elems(Q)
    BY <2>2, <2>3, <2>4, ChangeRange
  <2>6. /\ R[1].lo .. R[1].hi \subseteq 1 .. R[1].hi
        /\ R[1].lo .. R[1].hi \subseteq Elems(R)
        /\ 1 .. R[1].hi \subseteq (R[1].lo .. R[1].hi) \cup (1 .. lo - 1)
        /\ 1 .. lo - 1 \subseteq 1 .. R[1].hi
    <3> DEFINE a == R[1].lo
               b == R[1].hi
    <3>1. a \in Int /\ b \in Int /\ 1 <= a /\ a <= b /\ a <= lo /\ lo <= b
      BY <1>4, <1>n, <2>2
    <3>2. a .. b \subseteq Elems(R)
      BY <2>2, ElemsMember
    <3> HIDE DEF a, b
    <3>3. a .. b \subseteq 1 .. b /\ 1 .. b \subseteq (a .. b) \cup (1 .. lo - 1) /\ 1 .. lo - 1 \subseteq 1 .. b
      BY <3>1
    <3> QED
      BY <3>2, <3>3 DEF a, b
  <2> QED
    BY <2>1, <2>5, <2>6
<1> QED
  BY <1>2, <1>3, <1>4

\* The fix under way: whatever has been dropped already, what is read in the end
\* is the list and all numbers below the first article.
LEMMA FixRestOk ==
  ASSUME NEW R, NormalForm(R), NEW lo \in Int
  PROVE  /\ NormalForm(FixFirst(FixDrop(R, lo), lo))
         /\ Elems(FixFirst(FixDrop(R, lo), lo)) = Elems(R) \cup (1 .. lo - 1)
<1> DEFINE Q == FixDrop(R, lo)
<1>1. /\ NormalForm(Q)
      /\ Q # <<>> => lo <= Q[1].hi
      /\ Elems(Q) \cup (1 .. lo - 1) = Elems(R) \cup (1 .. lo - 1)
  BY FixDropOk
<1> HIDE DEF Q
<1>2. NormalForm(FixFirst(Q, lo)) /\ Elems(FixFirst(Q, lo)) = Elems(Q) \cup (1 .. lo - 1)
  BY <1>1, FixFirstOk
<1> QED
  BY <1>1, <1>2 DEF Q

\* grpFixReadList() fits the list to the articles of the server, as a set: everything
\* below the first article is read, and nothing at all before if the group was reset.
THEOREM FixReadListOk ==
  ASSUME NEW R, NormalForm(R), NEW lo \in Int, NEW hi \in Int
  PROVE  /\ NormalForm(FixReadList(R, lo, hi))
         /\ Elems(FixReadList(R, lo, hi)) = Reset(Elems(R), hi) \cup (1 .. lo - 1)
<1> DEFINE Q == FixReset(R, hi)
<1>1. NormalForm(Q) /\ Elems(Q) = Reset(Elems(R), hi)
  BY FixResetOk
<1>2. FixReadList(R, lo, hi) = FixFirst(FixDrop(Q, lo), lo)
  BY DEF FixReadList
<1> HIDE DEF Q
<1> QED
  BY <1>1, <1>2, FixRestOk

\* The article from which a catchup leaves articles unread is in 1 .. groupHi + 1, or 1.
LEMMA CatchupLoOk ==
  ASSUME NEW lo \in Int, NEW hi \in Int, NEW keep \in Int
  PROVE  /\ CatchupLo(lo, hi, keep) \in {hi - keep + 1, 1, lo}
         /\ CatchupLo(lo, hi, keep) >= hi - keep + 1
         /\ CatchupLo(lo, hi, keep) >= 1
         /\ CatchupLo(lo, hi, keep) >= lo
<1> DEFINE a == hi - keep + 1
           S == {a, 1, lo}
<1>1. a \in Int
  OBVIOUS
<1> HIDE DEF a
<1>2. \E m \in S : \A n \in S : m >= n
  <2>1. CASE a >= 1 /\ a >= lo
    BY <2>1, <1>1
  <2>2. CASE 1 >= a /\ 1 >= lo
    BY <2>2, <1>1
  <2>3. CASE lo >= a /\ lo >= 1
    BY <2>3, <1>1
  <2> QED
    BY <2>1, <2>2, <2>3, <1>1
<1>3. Max(S) \in S /\ \A n \in S : Max(S) >= n
  BY <1>2 DEF Max
<1> QED
  BY <1>3 DEF CatchupLo, a
-----------------------------------------------------------------------------
(* getReadList(), putReadList()                                              *)

\* g[i] is the list after i tokens.
Lists(tokens, g) ==
  g = [i \in 0 .. Len(tokens) |->
         IF i = 0 THEN <<>> ELSE AddRange(g[i - 1], Parsed(tokens[i]))]

LEMMA ListsExist ==
  ASSUME NEW tokens, Len(tokens) \in Nat
  PROVE  \E g : Lists(tokens, g)
<1> DEFINE Upto(k, g) == g = [i \in 0 .. k |->
                                IF i = 0 THEN <<>> ELSE AddRange(g[i - 1], Parsed(tokens[i]))]
           Bad == {k \in Nat : ~ \E g : Upto(k, g)}
<1>1. SUFFICES ASSUME Bad # {} PROVE FALSE
  BY DEF Lists
<1>2. PICK k \in Bad : \A m \in Bad : k <= m
  <2>1. Bad \subseteq Nat
    OBVIOUS
  <2> QED
    BY <1>1, <2>1, MinOk
<1>3. CASE k = 0
  <2> DEFINE g == [i \in 0 .. 0 |-> <<>>]
  <2>1. Upto(0, g)
    <3>1. 0 .. 0 = {0}
      OBVIOUS
    <3> QED
      BY <3>1
  <2> QED
    BY <1>2, <1>3, <2>1
<1>4. CASE k # 0
  <2>1. k \in Nat /\ k - 1 \in Nat /\ k - 1 \notin Bad
    BY <1>2, <1>4
  <2>2. PICK g : Upto(k - 1, g)
    BY <2>1
  <2> DEFINE h == [i \in 0 .. k |-> IF i = k THEN AddRange(g[k - 1], Parsed(tokens[k])) ELSE g[i]]
  <2>3. ASSUME NEW i \in 0 .. k
        PROVE  h[i] = IF i = 0 THEN <<>> ELSE AddRange(h[i - 1], Parsed(tokens[i]))
    <3>1. CASE i = k
      <4>1. h[i] = AddRange(g[i - 1], Parsed(tokens[i])) /\ i # 0
        BY <1>4, <3>1
      <4>2. i - 1 \in 0 .. k /\ i - 1 # k
        BY <2>1, <3>1
      <4>3. h[i - 1] = g[i - 1]
        BY <4>2
      <4> QED
        BY <4>1, <4>3
    <3>2. CASE i # k
      <4>1. i \in 0 .. k - 1
        BY <2>1, <3>2
      <4>2. h[i] = g[i]
        BY <3>2
      <4>3. g[i] = IF i = 0 THEN <<>> ELSE AddRange(g[i - 1], Parsed(tokens[i]))
        BY <2>2, <4>1
      <4>4. i # 0 => h[i - 1] = g[i - 1]
        <5>1. i # 0 => i - 1 \in 0 .. k /\ i - 1 # k
          BY <2>1, <4>1
        <5> QED
          BY <5>1
      <4> QED
        BY <4>2, <4>3, <4>4
    <3> QED
      BY <3>1, <3>2
  <2>4. Upto(k, h)
    BY <2>3
  <2> QED
    BY <1>2, <2>4
<1> QED
  BY <1>3, <1>4

\* getReadList() goes through the tokens one by one.
LEMMA GetReadListSteps ==
  ASSUME NEW line, Len(Readable(line)) \in Nat
  PROVE  \E g : /\ GetReadList(line) = g[Len(Readable(line))]
                /\ g[0] = <<>>
                /\ \A i \in 1 .. Len(Readable(line)) :
                     g[i] = AddRange(g[i - 1], Parsed(Readable(line)[i]))
<1> DEFINE g == CHOOSE g : Lists(Readable(line), g)
<1>1. Lists(Readable(line), g)
  BY ListsExist
<1>2. GetReadList(line) = g[Len(Readable(line))]
  BY Zenon DEF GetReadList, Lists
<1> HIDE DEF g
<1> DEFINE t == Readable(line)
<1> HIDE DEF t
<1>3. g = [i \in 0 .. Len(t) |-> IF i = 0 THEN <<>> ELSE AddRange(g[i - 1], Parsed(t[i]))]
  BY <1>1 DEF Lists, t
<1>4. Len(t) \in Nat
  BY DEF t
<1>5. g[0] = <<>>
  <2>1. 0 \in 0 .. Len(t)
    BY <1>4
  <2> QED
    BY <1>3, <2>1
<1>6. ASSUME NEW i \in 1 .. Len(t) PROVE g[i] = AddRange(g[i - 1], Parsed(t[i]))
  <2>1. i \in 0 .. Len(t) /\ i # 0
    BY <1>4
  <2> QED
    BY <1>3, <2>1
<1> QED
  BY <1>2, <1>5, <1>6 DEF t

LEMMA EntryOk ==
  ASSUME NEW R, NormalForm(R), NEW i \in DOMAIN R, NEW r \in ArtRange
  PROVE  Changed([R EXCEPT ![i] = r], R, i, r.lo, r.hi)
<1> DEFINE Q == [R EXCEPT ![i] = r]
<1>1. R \in Seq(ArtRange) /\ Len(R) \in Nat /\ DOMAIN R = 1 .. Len(R)
  BY LenProperties DEF NormalForm
<1>2. R \in [1 .. Len(R) -> ArtRange]
  BY <1>1
<1>3. Q[i] = r /\ \A j \in DOMAIN R : j # i => Q[j] = R[j]
  OBVIOUS
<1>4. Q \in [1 .. Len(R) -> ArtRange]
  BY <1>1, <1>2
<1> HIDE DEF Q
<1>5. Q \in Seq(ArtRange) /\ Len(Q) = Len(R) /\ DOMAIN Q = DOMAIN R
  BY <1>1, <1>4
<1>6. Changed(Q, R, i, r.lo, r.hi)
  BY <1>3, <1>5 DEF Changed
<1> QED
  BY <1>6 DEF Q

LEMMA MinMaxOk ==
  ASSUME NEW a \in Int, NEW b \in Int
  PROVE  /\ Min({a, b}) = IF a <= b THEN a ELSE b
         /\ Max({a, b}) = IF a <= b THEN b ELSE a
<1>1. CASE a <= b
  <2>1. a \in {a, b} /\ \A n \in {a, b} : a <= n
    BY <1>1
  <2>2. \A m \in {a, b} : (\A n \in {a, b} : m <= n) => m = a
    BY <1>1
  <2>3. b \in {a, b} /\ \A n \in {a, b} : b >= n
    BY <1>1
  <2>4. \A m \in {a, b} : (\A n \in {a, b} : m >= n) => m = b
    BY <1>1
  <2>5. Min({a, b}) = a
    BY <2>1, <2>2 DEF Min
  <2>6. Max({a, b}) = b
    BY <2>3, <2>4 DEF Max
  <2> QED
    BY <1>1, <2>5, <2>6
<1>2. CASE ~(a <= b)
  <2>1. b \in {a, b} /\ \A n \in {a, b} : b <= n
    BY <1>2
  <2>2. \A m \in {a, b} : (\A n \in {a, b} : m <= n) => m = b
    BY <1>2
  <2>3. a \in {a, b} /\ \A n \in {a, b} : a >= n
    BY <1>2
  <2>4. \A m \in {a, b} : (\A n \in {a, b} : m >= n) => m = a
    BY <1>2
  <2>5. Min({a, b}) = b
    BY <2>1, <2>2 DEF Min
  <2>6. Max({a, b}) = a
    BY <2>3, <2>4 DEF Max
  <2> QED
    BY <1>2, <2>5, <2>6
<1> QED
  BY <1>1, <1>2

\* The list q is R with the numbers of the range r, no new range begins above r.lo.
Added(q, R, r) ==
  /\ NormalForm(q)
  /\ Elems(q) = Elems(R) \cup (r.lo .. r.hi \ {0})
  /\ \A i \in DOMAIN q : q[i].lo <= r.lo \/ (i \in DOMAIN R /\ q[i] = R[i])

\* A range that begins where the last one begins or behind it is added.  A 0 stands for
\* an empty list.
LEMMA AddRangeOk ==
  ASSUME NEW R, NormalForm(R), NEW r \in ArtRange, 0 <= r.lo, r.lo <= r.hi,
         r.lo = 0 => r.hi = 0,
         r.lo > 0 => \A i \in DOMAIN R : R[i].lo <= r.lo
  PROVE  Added(AddRange(R, r), R, r)
<1>r. r.lo \in Int /\ r.hi \in Int
  BY DEF ArtRange
<1>d. R \in Seq(ArtRange) /\ Len(R) \in Nat /\ DOMAIN R = 1 .. Len(R)
  BY LenProperties DEF NormalForm
<1>n. \A j \in DOMAIN R : R[j].lo \in Int /\ R[j].hi \in Int /\ 1 <= R[j].lo /\ R[j].lo <= R[j].hi
  BY NormalEntry
<1>1. CASE r.lo <= 0
  <2>1. AddRange(R, r) = R
    BY <1>1 DEF AddRange
  <2>2. r.lo .. r.hi \ {0} = {}
    BY <1>1, <1>r
  <2> QED
    BY <2>1, <2>2 DEF Added
<1>2. CASE r.lo > 0 /\ (R = <<>> \/ ~(r.lo <= R[Len(R)].hi + 1))
  <2>1. AddRange(R, r) = Append(R, r)
    BY <1>2, <1>r DEF AddRange
  <2>2. ASSUME NEW j \in DOMAIN R PROVE R[j].hi + 1 < r.lo
    <3>1. R # <<>>
      BY <1>d, EmptySeq
    <3>2. R[Len(R)].hi \in Nat /\ ~(r.lo <= R[Len(R)].hi + 1)
      BY <3>1, <1>2, LastRange
    <3>3. R[j].hi \in Elems(R)
      <4>1. R[j].hi \in R[j].lo .. R[j].hi
        BY <1>n
      <4> QED
        BY <4>1, ElemsMember
    <3>4. R[j].hi <= R[Len(R)].hi
      BY <3>1, <3>3, LastRange
    <3> QED
      BY <3>2, <3>4, <1>r, <1>n
  <2>3. 1 <= r.lo /\ r.lo .. r.hi \ {0} = r.lo .. r.hi
    BY <1>2, <1>r
  <2>4. NormalForm(Append(R, r)) /\ Elems(Append(R, r)) = Elems(R) \cup (r.lo .. r.hi)
    BY <2>2, <2>3, AppendRange
  <2>5. ASSUME NEW i \in DOMAIN Append(R, r) PROVE Append(R, r)[i].lo <= r.lo
    <3>1. /\ Append(R, r) \in Seq(ArtRange) /\ Len(Append(R, r)) = Len(R) + 1
          /\ \A k \in 1 .. Len(R) : Append(R, r)[k] = R[k]
          /\ Append(R, r)[Len(R) + 1] = r
      BY <1>d, AppendProperties
    <3>2. DOMAIN Append(R, r) = 1 .. Len(R) + 1
      BY <3>1, LenProperties
    <3>3. CASE i = Len(R) + 1
      BY <3>1, <3>3, <1>r
    <3>4. CASE i \in 1 .. Len(R)
      <4>1. Append(R, r)[i] = R[i] /\ R[i].lo <= r.lo
        BY <3>1, <3>4, <1>d, <1>2
      <4> QED
        BY <4>1
    <3> QED
      BY <3>2, <3>3, <3>4, <1>d
  <2> QED
    BY <2>1, <2>3, <2>4, <2>5 DEF Added
<1>3. CASE r.lo > 0 /\ R # <<>> /\ r.lo <= R[Len(R)].hi + 1
  <2> DEFINE l == Len(R)
             e == R[l]
             lo == Min({e.lo, r.lo})
             hi == Max({e.hi, r.hi})
             m == [lo |-> lo, hi |-> hi]
             Q == [R EXCEPT ![l] = m]
  <2>1. AddRange(R, r) = Q
    BY <1>3, <1>r DEF AddRange
  <2>2. l \in DOMAIN R /\ e.lo \in Int /\ e.hi \in Int /\ 1 <= e.lo /\ e.lo <= e.hi
    BY <1>3, <1>n, LastRange
  <2>3. lo = e.lo /\ hi = IF e.hi <= r.hi THEN r.hi ELSE e.hi
    <3>1. e.lo <= r.lo
      BY <2>2, <1>3
    <3> HIDE DEF l, e
    <3> QED
      BY <3>1, <2>2, <1>r, MinMaxOk
  <2>4. r.lo <= e.hi + 1
    BY <1>3
  <2>5. \A j \in DOMAIN R : j < l => R[j].hi + 1 < e.lo
    BY <2>2, <1>d, NormalEntry
  <2>6. \A j \in DOMAIN R : ~(j > l)
    BY <1>d
  <2>7. m \in ArtRange /\ m.lo = lo /\ m.hi = hi /\ lo \in Nat \ {0} /\ hi \in Nat /\ lo <= hi
    <3>1. lo \in Nat \ {0} /\ hi \in Nat /\ lo <= hi
      <4> HIDE DEF lo, hi, e
      <4> QED
        BY <2>2, <2>3, <1>r
    <3> HIDE DEF lo, hi
    <3> QED
      BY <3>1 DEF ArtRange
  <2> HIDE DEF m
  <2>8. Changed(Q, R, l, m.lo, m.hi)
    BY <2>2, <2>7, EntryOk
  <2> HIDE DEF l, e, lo, hi, Q
  <2>9. Changed(Q, R, l, lo, hi)
    BY <2>7, <2>8
  <2>10. /\ NormalForm(Q)
         /\ Elems(R) \subseteq Elems(Q) \cup (R[l].lo .. R[l].hi)
         /\ Elems(Q) \subseteq Elems(R) \cup (lo .. hi)
         /\ lo .. hi \subseteq Elems(Q)
    <3>1. \A j \in DOMAIN R : j < l => R[j].hi + 1 < lo
      BY <2>3, <2>5
    <3>2. \A j \in DOMAIN R : j > l => hi + 1 < R[j].lo
      BY <2>6
    <3> QED
      BY <2>2, <2>7, <2>9, <3>1, <3>2, ChangeRange
  <2>11. lo .. hi = (e.lo .. e.hi) \cup (r.lo .. r.hi)
    <3>1. e.lo <= r.lo
      BY <2>2, <1>3 DEF e
    <3> QED
      BY <3>1, <2>2, <2>3, <2>4, <1>r
  <2>12. r.lo .. r.hi \ {0} = r.lo .. r.hi
    BY <1>3, <1>r
  <2>13. e.lo .. e.hi \subseteq Elems(R)
    BY <2>2, ElemsMember DEF e
  <2>14. Elems(Q) = Elems(R) \cup (r.lo .. r.hi)
    BY <2>10, <2>11, <2>13 DEF e
  <2>15. ASSUME NEW i \in DOMAIN Q PROVE Q[i].lo <= r.lo
    <3>1. i \in DOMAIN R
      BY <2>9 DEF Changed
    <3>2. CASE i = l
      <4>1. Q[i].lo = e.lo /\ e.lo <= r.lo
        BY <3>2, <2>2, <2>3, <2>9, <1>3 DEF Changed, e
      <4> QED
        BY <4>1
    <3>3. CASE i # l
      <4>1. Q[i] = R[i]
        BY <3>1, <3>3, <2>9 DEF Changed
      <4>2. R[i].lo <= r.lo
        BY <3>1, <1>3
      <4> QED
        BY <4>1, <4>2
    <3> QED
      BY <3>2, <3>3
  <2> QED
    BY <2>1, <2>10, <2>12, <2>14, <2>15 DEF Added
<1> QED
  BY <1>1, <1>2, <1>3, <1>r

\* The readable tokens of a line are its tokens, none of them junk.
LEMMA ReadableOk ==
  ASSUME NEW line \in Seq(LineToken)
  PROVE  /\ Readable(line) \in Seq(LineToken)
         /\ \A i \in DOMAIN Readable(line) : Readable(line)[i].kind # "junk"
<1> DEFINE junk == {i \in DOMAIN line : line[i].kind = "junk"}
<1>1. DOMAIN line = 1 .. Len(line) /\ Len(line) \in Nat
  BY LenProperties
<1>2. CASE junk = {}
  BY <1>2 DEF Readable
<1>3. CASE junk # {}
  <2> DEFINE m == Min(junk)
             n == m - 1
             t == SubSeq(line, 1, n)
  <2>1. m \in junk /\ \A k \in junk : m <= k
    <3>1. junk \subseteq Nat
      BY <1>1
    <3> HIDE DEF junk
    <3> QED
      BY <3>1, <1>3, MinOk
  <2>2. Readable(line) = t
    BY <1>3 DEF Readable
  <2>3. n \in Nat /\ n <= Len(line)
    BY <2>1, <1>1
  <2>4. \A k \in 1 .. n : line[k].kind # "junk"
    <3>1. ASSUME NEW k \in 1 .. n, line[k].kind = "junk" PROVE FALSE
      <4>1. k \in junk
        BY <3>1, <2>3, <1>1
      <4>2. m <= k /\ m \in Nat /\ k \in Nat
        BY <4>1, <2>1, <1>1
      <4> QED
        BY <4>2, <3>1
    <3> QED
      BY <3>1
  <2> HIDE DEF n
  <2>5. \A k \in 1 .. n : line[k] \in LineToken
    BY <2>3, <1>1, ElementOfSeq
  <2>6. /\ t \in Seq(LineToken) /\ Len(t) = IF 1 <= n THEN n - 1 + 1 ELSE 0
        /\ \A k \in 1 .. n - 1 + 1 : t[k] = line[1 + k - 1]
    BY <2>3, <2>5, SubSeqProperties
  <2>7. DOMAIN t = 1 .. n
    <3>1. Len(t) = n
      BY <2>3, <2>6
    <3> QED
      BY <2>6, <3>1, LenProperties
  <2>8. ASSUME NEW k \in DOMAIN t PROVE t[k].kind # "junk"
    <3>1. k \in 1 .. n /\ k \in 1 .. n - 1 + 1 /\ 1 + k - 1 = k
      BY <2>3, <2>7
    <3>2. t[k] = line[k]
      BY <2>6, <3>1
    <3> QED
      BY <2>4, <3>1, <3>2
  <2> QED
    BY <2>2, <2>6, <2>8
<1> QED
  BY <1>2, <1>3

\* A token that is not junk is parsed as the range it stands for.
LEMMA ParsedOk ==
  ASSUME NEW t \in LineToken, t.kind # "junk", NEW r, r = Parsed(t)
  PROVE  /\ r \in ArtRange /\ 0 <= r.lo /\ r.lo <= r.hi /\ (r.lo = 0 => r.hi = 0)
         /\ r.lo = TokenLo(t) \/ (TokenLo(t) = 0 /\ r.lo = 1)
         /\ TokenLo(t) \in Nat
         /\ (r.lo .. r.hi) \ {0} = Covered(t) \ {0}
<1>1. /\ t.lo \in Nat /\ t.hi \in Nat
      /\ t.kind = "num" => t.lo = t.hi
      /\ t.kind = "range" => ~(t.lo = 0 /\ t.hi = 0)
      /\ t.kind \in {"num", "range"}
  BY DEF LineToken, Junk
<1> DEFINE a == t.lo
           b == t.hi
<1>2. a \in Nat /\ b \in Nat
  BY <1>1
<1> HIDE DEF a, b
<1>3. Max({a, 0}) = a /\ Max({b, 0}) = b
  BY <1>2, MinMaxOk
<1>4. Min({a, b}) = (IF a <= b THEN a ELSE b) /\ Max({a, b}) = IF a <= b THEN b ELSE a
  BY <1>2, MinMaxOk
<1>5. Max({a, b, 0}) = IF a <= b THEN b ELSE a
  <2> DEFINE m == IF a <= b THEN b ELSE a
  <2>1. m \in {a, b, 0} /\ \A n \in {a, b, 0} : m >= n
    BY <1>2
  <2>2. \A k \in {a, b, 0} : (\A n \in {a, b, 0} : k >= n) => k = m
    BY <1>2
  <2> HIDE DEF m
  <2>3. Max({a, b, 0}) = m
    BY <2>1, <2>2 DEF Max
  <2> QED
    BY <2>3 DEF m
<1>6. r = [lo |-> IF t.kind = "range" /\ Min({a, b}) = 0 THEN 1 ELSE Min({a, b}),
           hi |-> Max({a, b, 0})]
  BY <1>3 DEF Parsed, a, b
<1>7. TokenLo(t) = Min({a, b}) /\ Covered(t) = Min({a, b}) .. Max({a, b})
  BY DEF TokenLo, Covered, a, b
<1>8. /\ t.kind = "num" => a = b
      /\ t.kind = "range" => ~(a = 0 /\ b = 0)
      /\ t.kind \in {"num", "range"}
  BY <1>1 DEF a, b
<1> DEFINE lo == IF a <= b THEN a ELSE b
           hi == IF a <= b THEN b ELSE a
<1>9. /\ lo \in Nat /\ hi \in Nat /\ lo <= hi
      /\ t.kind # "range" => lo = hi
      /\ t.kind = "range" => hi >= 1
  BY <1>2, <1>8
<1> HIDE DEF lo, hi
<1>10. /\ r = [lo |-> IF t.kind = "range" /\ lo = 0 THEN 1 ELSE lo, hi |-> hi]
       /\ TokenLo(t) = lo /\ Covered(t) = lo .. hi
  BY <1>4, <1>5, <1>6, <1>7 DEF lo, hi
<1>11. r.lo = (IF t.kind = "range" /\ lo = 0 THEN 1 ELSE lo) /\ r.hi = hi
  BY <1>10
<1>12. r \in ArtRange
  BY <1>9, <1>10 DEF ArtRange
<1>13. (r.lo .. r.hi) \ {0} = (lo .. hi) \ {0}
  BY <1>9, <1>11
<1> QED
  BY <1>9, <1>10, <1>11, <1>12, <1>13

\* The numbers the first m tokens stand for.
Numbers(t, m) == UNION {Covered(t[k]) : k \in 1 .. m}

LEMMA NumbersMember ==
  ASSUME NEW t, NEW m, NEW n
  PROVE  n \in Numbers(t, m) <=> \E k \in 1 .. m : n \in Covered(t[k])
  BY DEF Numbers

\* getReadList(): of a line with ascending tokens the list, in normal form, of the numbers
\* the tokens up to the first junk stand for, but for 0.
THEOREM GetReadListOk ==
  ASSUME NEW line \in Seq(LineToken), Ascending(Readable(line))
  PROVE  /\ NormalForm(GetReadList(line))
         /\ Elems(GetReadList(line)) = Numbers(Readable(line), Len(Readable(line))) \ {0}
<1> DEFINE t == Readable(line)
<1>1. t \in Seq(LineToken) /\ \A i \in DOMAIN t : t[i].kind # "junk"
  BY ReadableOk
<1>2. Len(t) \in Nat /\ DOMAIN t = 1 .. Len(t)
  BY <1>1, LenProperties
<1>3. PICK g : /\ GetReadList(line) = g[Len(t)]
               /\ g[0] = <<>>
               /\ \A i \in 1 .. Len(t) : g[i] = AddRange(g[i - 1], Parsed(t[i]))
  BY <1>2, GetReadListSteps
<1>a. Ascending(t)
  OBVIOUS
<1> HIDE DEF t
<1> DEFINE Good(i) == /\ NormalForm(g[i])
                      /\ Elems(g[i]) = Numbers(t, i) \ {0}
                      /\ \A k \in DOMAIN g[i] : g[i][k].lo <= 1 \/ (i > 0 /\ g[i][k].lo <= TokenLo(t[i]))
           Bad == {i \in 0 .. Len(t) : ~Good(i)}
<1>4. Bad = {}
  <2>1. SUFFICES ASSUME Bad # {} PROVE FALSE
    OBVIOUS
  <2>2. PICK i \in Bad : \A m \in Bad : i <= m
    <3>1. Bad \subseteq Nat
      BY <1>2
    <3> HIDE DEF Bad
    <3> QED
      BY <2>1, <3>1, MinOk
  <2>3. i \in Nat /\ i <= Len(t) /\ ~Good(i)
    BY <2>2, <1>2
  <2>4. CASE i = 0
    <3>1. Numbers(t, 0) = {} /\ DOMAIN <<>> = {}
      BY EmptySeq, NumbersMember
    <3>2. Good(0)
      BY <3>1, <1>3, EmptyOk
    <3> QED
      BY <2>3, <2>4, <3>2
  <2>5. CASE i # 0
    <3> DEFINE p == i - 1
    <3>1. p \in 0 .. Len(t) /\ p < i /\ i \in 1 .. Len(t) /\ 1 .. i = (1 .. p) \cup {i} /\ p \in Nat
          /\ (p > 0 => p \in DOMAIN t) /\ i \in DOMAIN t
      BY <2>3, <2>5, <1>2
    <3> HIDE DEF p
    <3>2. Good(p)
      <4>1. ~(i <= p)
        BY <3>1, <2>3
      <4>2. p \notin Bad
        BY <4>1, <2>2
      <4> QED
        BY <4>2, <3>1
    <3> DEFINE r == Parsed(t[i])
    <3>3. g[i] = AddRange(g[p], r)
      BY <3>1, <1>3 DEF p
    <3>4. t[i] \in LineToken /\ t[i].kind # "junk"
      BY <3>1, <1>1, ElementOfSeq
    <3> HIDE DEF r
    <3>5. /\ r \in ArtRange /\ 0 <= r.lo /\ r.lo <= r.hi /\ (r.lo = 0 => r.hi = 0)
          /\ r.lo = TokenLo(t[i]) \/ (TokenLo(t[i]) = 0 /\ r.lo = 1)
          /\ TokenLo(t[i]) \in Nat
          /\ (r.lo .. r.hi) \ {0} = Covered(t[i]) \ {0}
      BY <3>4, ParsedOk DEF r
    <3>6. ASSUME NEW k \in DOMAIN g[p] PROVE g[p][k].lo <= 1 \/ g[p][k].lo <= TokenLo(t[i])
      <4>1. g[p][k].lo \in Int
        BY <3>2, NormalEntry
      <4>2. p > 0 => TokenLo(t[p]) <= TokenLo(t[i]) /\ TokenLo(t[p]) \in Nat
        <5>1. p > 0 => t[p] \in LineToken /\ t[p].kind # "junk"
          BY <3>1, <1>1, <1>2, ElementOfSeq
        <5> QED
          BY <5>1, <3>1, <1>a, ParsedOk DEF Ascending
      <4>3. g[p][k].lo <= 1 \/ (p > 0 /\ g[p][k].lo <= TokenLo(t[p]))
        BY <3>2
      <4> QED
        BY <4>1, <4>2, <4>3, <3>5
    <3>7. r.lo > 0 => \A k \in DOMAIN g[p] : g[p][k].lo <= r.lo
      <4>1. ASSUME r.lo > 0, NEW k \in DOMAIN g[p] PROVE g[p][k].lo <= r.lo
        <5>1. g[p][k].lo \in Int /\ r.lo \in Int
          BY <3>2, <3>5, NormalEntry DEF ArtRange
        <5> QED
          BY <5>1, <4>1, <3>5, <3>6
      <4> QED
        BY <4>1
    <3>8. Added(g[i], g[p], r)
      BY <3>2, <3>3, <3>5, <3>7, AddRangeOk
    <3>9. NormalForm(g[i])
      BY <3>8 DEF Added
    <3>10. Elems(g[i]) = Numbers(t, i) \ {0}
      <4>1. ASSUME NEW n PROVE n \in Numbers(t, i) <=> n \in Numbers(t, p) \/ n \in Covered(t[i])
        <5>1. \A k : k \in 1 .. i <=> k \in 1 .. p \/ k = i
          BY <3>1
        <5> QED
          BY <5>1, NumbersMember
      <4>2. Elems(g[i]) = Elems(g[p]) \cup ((r.lo .. r.hi) \ {0})
        BY <3>8 DEF Added
      <4>3. Elems(g[p]) = Numbers(t, p) \ {0}
        BY <3>2
      <4> HIDE DEF Good
      <4> QED
        BY <4>1, <4>2, <4>3, <3>5
    <3>11. ASSUME NEW k \in DOMAIN g[i] PROVE g[i][k].lo <= 1 \/ g[i][k].lo <= TokenLo(t[i])
      <4>1. g[i][k].lo <= r.lo \/ (k \in DOMAIN g[p] /\ g[i][k] = g[p][k])
        BY <3>8 DEF Added
      <4>2. g[i][k].lo \in Int /\ r.lo \in Int
        BY <3>9, <3>5, NormalEntry DEF ArtRange
      <4> QED
        BY <4>1, <4>2, <3>5, <3>6
    <3>12. Good(i)
      BY <3>9, <3>10, <3>11, <3>1
    <3> QED
      BY <2>3, <3>12
  <2> QED
    BY <2>4, <2>5
<1>5. Len(t) \in 0 .. Len(t)
  BY <1>2
<1>6. Good(Len(t))
  BY <1>4, <1>5
<1> HIDE DEF Good
<1>7. NormalForm(g[Len(t)]) /\ Elems(g[Len(t)]) = Numbers(t, Len(t)) \ {0}
  BY <1>6 DEF Good
<1> QED
  BY <1>3, <1>7 DEF t
-----------------------------------------------------------------------------
(* What is written is read back.                                             *)

\* A range of a list, written and parsed again.
LEMMA WrittenOk ==
  ASSUME NEW R, NormalForm(R), R # <<>>, NEW i \in DOMAIN R, NEW t, t = PutReadList(R)[i]
  PROVE  t \in LineToken /\ t.kind # "junk" /\ Parsed(t) = R[i] /\ TokenLo(t) = R[i].lo
<1>1. /\ R[i] = [lo |-> R[i].lo, hi |-> R[i].hi]
      /\ R[i].lo \in Nat /\ R[i].hi \in Nat /\ 1 <= R[i].lo /\ R[i].lo <= R[i].hi
  BY NormalEntry
<1>2. t = IF R[i].lo = R[i].hi THEN Num(R[i].lo) ELSE Dash(R[i].lo, R[i].hi)
  BY DEF PutReadList
<1> DEFINE a == R[i].lo
           b == R[i].hi
<1>3. a \in Nat /\ b \in Nat /\ 1 <= a /\ a <= b
  BY <1>1
<1>4. t = IF a = b THEN Num(a) ELSE Dash(a, b)
  BY <1>2
<1>5. R[i] = [lo |-> a, hi |-> b]
  BY <1>1
<1> HIDE DEF a, b
<1>6. t.lo = a /\ t.hi = b /\ t.kind # "junk"
  BY <1>4 DEF Num, Dash
<1>7. t \in LineToken
  <2>1. CASE a = b
    BY <2>1, <1>3, <1>4 DEF LineToken, Num
  <2>2. CASE a # b
    BY <2>2, <1>3, <1>4 DEF LineToken, Dash
  <2> QED
    BY <2>1, <2>2
<1>8. Min({a, b}) = a /\ Max({a, 0}) = a /\ Max({b, 0}) = b
  <2>1. Min({a, b}) = a
    BY <1>3, MinMaxOk
  <2>2. Max({a, 0}) = a /\ Max({b, 0}) = b
    <3> DEFINE z == 0
    <3>1. z \in Int /\ z <= a /\ z <= b /\ a \in Int /\ b \in Int
      BY <1>3
    <3> HIDE DEF z
    <3>2. Max({a, z}) = IF a <= z THEN z ELSE a
      BY ONLY <3>1, MinMaxOk, Zenon
    <3>3. Max({b, z}) = IF b <= z THEN z ELSE b
      BY ONLY <3>1, MinMaxOk, Zenon
    <3>4. Max({a, z}) = a /\ Max({b, z}) = b
      BY <3>1, <3>2, <3>3, <1>3
    <3> QED
      BY <3>4 DEF z
  <2> QED
    BY <2>1, <2>2
<1>9. Max({a, b, 0}) = b
  <2>1. b \in {a, b, 0} /\ \A n \in {a, b, 0} : b >= n
    BY <1>3
  <2>2. \A k \in {a, b, 0} : (\A n \in {a, b, 0} : k >= n) => k = b
    BY <1>3
  <2> QED
    BY <2>1, <2>2 DEF Max
<1>10. Parsed(t) = [lo |-> a, hi |-> b]
  <2>1. /\ Min({Max({t.lo, 0}), Max({t.hi, 0})}) = a
        /\ Max({t.lo, t.hi, 0}) = b
    BY <1>6, <1>8, <1>9
  <2> QED
    BY <2>1, <1>3 DEF Parsed
<1>11. TokenLo(t) = a
  BY <1>6, <1>8 DEF TokenLo
<1> QED
  BY <1>5, <1>6, <1>7, <1>10, <1>11 DEF a

\* A line as putReadList() writes it has ascending tokens and no junk.
LEMMA WrittenLine ==
  ASSUME NEW R, NormalForm(R), NEW line, line = PutReadList(R)
  PROVE  line \in Seq(LineToken) /\ Readable(line) = line /\ Ascending(line)
<1>1. CASE R = <<>>
  <2>1. line = <<Num(0)>>
    BY <1>1 DEF PutReadList
  <2>2. Num(0) \in LineToken /\ Num(0).kind # "junk"
    BY DEF LineToken, Num
  <2> HIDE DEF Num
  <2>3. line \in Seq(LineToken) /\ DOMAIN line = {1} /\ line[1] = Num(0)
    BY <2>1, <2>2
  <2>4. {i \in DOMAIN line : line[i].kind = "junk"} = {}
    BY <2>2, <2>3
  <2>5. Readable(line) = line
    BY <2>4 DEF Readable
  <2> QED
    BY <2>3, <2>5 DEF Ascending
<1>2. CASE R # <<>>
  <2>1. R \in Seq(ArtRange) /\ DOMAIN R = 1 .. Len(R) /\ Len(R) \in Nat
    BY LenProperties DEF NormalForm
  <2>2. DOMAIN line = DOMAIN R
    BY <1>2 DEF PutReadList
  <2>3. \A i \in DOMAIN R : line[i] \in LineToken /\ line[i].kind # "junk" /\ TokenLo(line[i]) = R[i].lo
    BY <1>2, WrittenOk
  <2>4. line \in Seq(LineToken)
    <3>1. line = [i \in 1 .. Len(R) |-> line[i]]
      BY <1>2, <2>1 DEF PutReadList
    <3>2. line \in [1 .. Len(R) -> LineToken]
      BY <3>1, <2>1, <2>3
    <3> QED
      BY <3>2, <2>1
  <2>5. {i \in DOMAIN line : line[i].kind = "junk"} = {}
    BY <2>2, <2>3
  <2>6. Readable(line) = line
    BY <2>5 DEF Readable
  <2>7. ASSUME NEW i \in DOMAIN R, NEW j \in DOMAIN R, i < j PROVE R[i].lo <= R[j].lo
    <3>1. R[i].lo \in Int /\ R[j].lo \in Int /\ R[i].hi \in Int /\ R[i].lo <= R[i].hi
          /\ R[i].hi + 1 < R[j].lo
      BY <2>7, NormalEntry
    <3> QED
      BY <3>1
  <2>8. Ascending(line)
    BY <2>2, <2>3, <2>7 DEF Ascending
  <2> QED
    BY <2>4, <2>6, <2>8
<1> QED
  BY <1>1, <1>2

\* What putReadList() writes of a list, getReadList() reads back.
THEOREM PutGetOk ==
  ASSUME NEW R, NormalForm(R)
  PROVE  GetReadList(PutReadList(R)) = R
<1> DEFINE line == PutReadList(R)
<1>1. line \in Seq(LineToken) /\ Readable(line) = line
  BY WrittenLine
<1>2. Len(line) \in Nat /\ DOMAIN line = 1 .. Len(line)
  BY <1>1, LenProperties
<1> DEFINE n == Len(line)
<1>3. PICK g : /\ GetReadList(line) = g[n]
               /\ g[0] = <<>>
               /\ \A i \in 1 .. n : g[i] = AddRange(g[i - 1], Parsed(line[i]))
  BY <1>1, <1>2, GetReadListSteps
<1>4. CASE R = <<>>
  <2>1. line = <<Num(0)>>
    BY <1>4 DEF PutReadList
  <2>2. n = 1 /\ line[1] = Num(0)
    BY <2>1
  <2>3. 1 \in 1 .. n /\ 1 - 1 = 0
    BY <2>2
  <2> HIDE DEF line, n
  <2>4. g[1] = AddRange(g[1 - 1], Parsed(line[1]))
    BY <1>3, <2>3
  <2>5. g[1] = AddRange(<<>>, Parsed(Num(0)))
    BY <1>3, <2>2, <2>3, <2>4
  <2>6. Num(0) \in LineToken /\ Num(0).kind = "num" /\ Num(0).lo = 0 /\ Num(0).hi = 0
    BY DEF LineToken, Num
  <2>7. Parsed(Num(0)).lo <= 0
    <3>1. TokenLo(Num(0)) = 0
      BY <2>6, MinMaxOk DEF TokenLo
    <3>2. Max({0, 0}) = 0 /\ Min({0, 0}) = 0
      BY MinMaxOk
    <3> QED
      BY <2>6, <3>2 DEF Parsed
  <2>8. AddRange(<<>>, Parsed(Num(0))) = <<>>
    BY <2>7 DEF AddRange
  <2>9. GetReadList(line) = <<>>
    BY <1>3, <2>2, <2>5, <2>8
  <2> QED
    BY <1>4, <2>9 DEF line
<1>5. CASE R # <<>>
  <2>1. R \in Seq(ArtRange) /\ DOMAIN R = 1 .. Len(R) /\ Len(R) \in Nat
    BY LenProperties DEF NormalForm
  <2>2. n = Len(R)
    <3>1. DOMAIN line = DOMAIN R
      BY <1>5 DEF PutReadList
    <3>2. Len(R) # 0
      BY <1>5, <2>1, EmptySeq
    <3>3. 1 .. n = 1 .. Len(R) /\ n \in Nat
      BY <3>1, <1>2, <2>1
    <3> DEFINE m == Len(R)
    <3> HIDE DEF n, m
    <3>4. 1 .. n = 1 .. m /\ n \in Nat /\ m \in Nat /\ m # 0
      BY <3>2, <3>3, <2>1 DEF m
    <3>5. m \in 1 .. m
      BY <3>4
    <3>6. m \in 1 .. n
      BY <3>4, <3>5
    <3>7. n \in 1 .. n
      BY <3>4, <3>6
    <3>8. n \in 1 .. m
      BY <3>4, <3>7
    <3>9. n = m
      BY <3>4, <3>6, <3>8
    <3> QED
      BY <3>9 DEF m
  <2>3. \A i \in DOMAIN R : Parsed(line[i]) = R[i]
    BY <1>5, WrittenOk
  <2> HIDE DEF line, n
  <2> DEFINE Copied(i) == /\ g[i] \in Seq(ArtRange) /\ Len(g[i]) = i
                          /\ \A k \in 1 .. i : g[i][k] = R[k]
             Bad == {i \in 0 .. n : ~Copied(i)}
  <2>4. Bad = {}
    <3>1. SUFFICES ASSUME Bad # {} PROVE FALSE
      OBVIOUS
    <3>2. PICK i \in Bad : \A m \in Bad : i <= m
      <4>1. Bad \subseteq Nat
        BY <2>1, <2>2
      <4> HIDE DEF Bad
      <4> QED
        BY <3>1, <4>1, MinOk
    <3>3. i \in Nat /\ i <= n /\ ~Copied(i) /\ n \in Nat
      BY <3>2, <2>1, <2>2
    <3>4. CASE i = 0
      <4>1. Copied(0)
        BY <1>3, EmptySeq
      <4> QED
        BY <3>3, <3>4, <4>1
    <3>5. CASE i # 0
      <4> DEFINE p == i - 1
      <4>1. p \in 0 .. n /\ p < i /\ p \in Nat /\ i = p + 1 /\ i \in 1 .. n /\ i \in DOMAIN R
        BY <3>3, <3>5, <2>1, <2>2
      <4>2. g[i] = AddRange(g[p], R[i])
        BY <4>1, <1>3, <2>3
      <4> HIDE DEF p
      <4>3. Copied(p)
        <5>1. ~(i <= p)
          BY <4>1, <3>3
        <5>2. p \notin Bad
          BY <5>1, <3>2
        <5> QED
          BY <5>2, <4>1
      <4>4. R[i].lo \in Int /\ 1 <= R[i].lo /\ R[i] \in ArtRange
        BY <4>1, NormalEntry
      <4>5. g[i] = Append(g[p], R[i])
        <5>1. CASE g[p] = <<>>
          BY <5>1, <4>2, <4>4 DEF AddRange
        <5>2. CASE g[p] # <<>>
          <6>1. p \in DOMAIN R /\ g[p][Len(g[p])] = R[p]
            <7>1. Len(g[p]) # 0
              BY <5>2, <4>3, EmptySeq
            <7>2. p \in 1 .. p
              BY <7>1, <4>1, <4>3
            <7> QED
              BY <7>2, <4>1, <4>3, <2>1, <2>2
          <6>2. R[p].hi + 1 < R[i].lo /\ R[p].hi \in Int
            BY <6>1, <4>1, NormalEntry
          <6> QED
            BY <5>2, <6>1, <6>2, <4>2, <4>4 DEF AddRange
        <5> QED
          BY <5>1, <5>2
      <4>6. /\ Append(g[p], R[i]) \in Seq(ArtRange) /\ Len(Append(g[p], R[i])) = Len(g[p]) + 1
            /\ \A k \in 1 .. Len(g[p]) : Append(g[p], R[i])[k] = g[p][k]
            /\ Append(g[p], R[i])[Len(g[p]) + 1] = R[i]
        BY <4>3, <4>4, AppendProperties
      <4>7. ASSUME NEW k \in 1 .. i PROVE g[i][k] = R[k]
        <5>1. CASE k \in 1 .. p
          BY <5>1, <4>3, <4>5, <4>6
        <5>2. CASE k = i
          BY <5>2, <4>1, <4>3, <4>5, <4>6
        <5> QED
          BY <5>1, <5>2, <4>1
      <4>8. g[i] \in Seq(ArtRange) /\ Len(g[i]) = i
        BY <4>1, <4>3, <4>5, <4>6
      <4> QED
        BY <3>3, <4>7, <4>8
    <3> QED
      BY <3>4, <3>5
  <2>5. Copied(n)
    <3>1. n \in 0 .. n
      BY <2>1, <2>2
    <3> QED
      BY <3>1, <2>4
  <2>6. g[n] = R
    <3>1. g[n] \in Seq(ArtRange) /\ Len(g[n]) = Len(R) /\ \A k \in 1 .. Len(R) : g[n][k] = R[k]
      BY <2>2, <2>5
    <3> QED
      BY <3>1, <2>1, SeqEqual
  <2> QED
    BY <1>3, <2>6 DEF line
<1> QED
  BY <1>4, <1>5
=============================================================================
