------------------------ MODULE ReadListSessionProofs ------------------------
(***************************************************************************)
(* Theorems about ReadListSession for every line of a newsrc with          *)
(* ascending tokens, every number of articles and any length of the list:  *)
(* the list stays the normal form of the set of numbers beside it.         *)
(***************************************************************************)
EXTENDS ReadListSession, ReadListProofs

\* The set of numbers read contains all numbers below the article the list was
\* last fixed to.
FixedRead == isFixed \in Nat /\ (isFixed > 0 => 1 .. isFixed - 1 \subseteq ref)

SessionInv == ListIsSet /\ FixedRead

\* The numbers of a line as a set.
LEMMA LineSetOk ==
  ASSUME NEW line \in Lines
  PROVE  Numbers(Readable(line), Len(Readable(line))) \ {0} = LineSet(line)
<1>1. line \in Seq(LineToken)
  BY LinesOK
<1> DEFINE t == Readable(line)
           A == UNION {Covered(u) : u \in ToSet(t)}
<1>2. t \in Seq(LineToken)
  BY <1>1, ReadableOk
<1>3. DOMAIN t = 1 .. Len(t)
  BY <1>2, LenProperties
<1>4. LineSet(line) = A \ {0}
  BY DEF LineSet
<1>5. ASSUME NEW n PROVE n \in A <=> \E u \in ToSet(t) : n \in Covered(u)
  OBVIOUS
<1> HIDE DEF t, A
<1>6. ASSUME NEW n PROVE n \in A <=> n \in Numbers(t, Len(t))
  <2>1. (\E u \in ToSet(t) : n \in Covered(u)) <=> \E k \in 1 .. Len(t) : n \in Covered(t[k])
    BY <1>3 DEF ToSet
  <2> QED
    BY <1>5, <2>1, NumbersMember
<1>7. LineSet(line) = Numbers(t, Len(t)) \ {0}
  BY <1>4, <1>6
<1> QED
  BY <1>7 DEF t

LEMMA InitSession == Init => SessionInv
<1> SUFFICES ASSUME Init PROVE SessionInv
  OBVIOUS
<1>1. PICK line \in Lines : readList = GetReadList(line) /\ ref = LineSet(line) /\ isFixed = 0
  BY DEF Init
<1>2. line \in Seq(LineToken) /\ Ascending(Readable(line))
  BY LinesOK
<1>3. /\ NormalForm(GetReadList(line))
      /\ Elems(GetReadList(line)) = Numbers(Readable(line), Len(Readable(line))) \ {0}
  BY <1>2, GetReadListOk
<1>4. ListIsSet
  BY <1>1, <1>3, LineSetOk DEF ListIsSet
<1> QED
  BY <1>1, <1>4 DEF SessionInv, FixedRead

\* A list fitted to the server's articles is fitted as a set, by each of the two calls.
LEMMA FixedStep ==
  ASSUME SessionInv, NEW lo \in Nat \ {0}, NEW hi \in Int, Fixed(lo, hi)
  PROVE  SessionInv'
<1> DEFINE new == FixReadList(readList, lo, hi)
           set == FixSet(ref, lo, hi)
<1>1. /\ NormalForm(new)
      /\ Elems(new) = Reset(Elems(readList), hi) \cup (1 .. lo - 1)
  BY FixReadListOk DEF SessionInv, ListIsSet
<1>2. set = Reset(ref, hi) \cup (1 .. lo - 1)
  BY DEF FixSet, Reset
<1>3. Elems(new) = set
  BY <1>1, <1>2 DEF SessionInv, ListIsSet
<1>4. readList' = new /\ ref' = set /\ isFixed' = lo
  BY DEF Fixed
<1> HIDE DEF new
<1>5. ListIsSet'
  BY <1>1, <1>3, <1>4 DEF ListIsSet
<1>6. FixedRead'
  <2>1. 1 .. lo - 1 \subseteq set
    BY <1>2
  <2> HIDE DEF set
  <2> QED
    BY <1>4, <2>1 DEF FixedRead
<1> QED
  BY <1>5, <1>6 DEF SessionInv

LEMMA SessionStep == SessionInv /\ [Next]_vars => SessionInv'
<1> SUFFICES ASSUME SessionInv, [Next]_vars PROVE SessionInv'
  OBVIOUS
<1>1. ASSUME NEW n \in 1 .. MaxArt, Marked(n) PROVE SessionInv'
  <2>1. n \in Nat \ {0} /\ n \in Int
    BY LinesOK
  <2>2. NormalForm(readList) /\ Elems(readList) = ref
    BY DEF SessionInv, ListIsSet
  <2>3. NormalForm(readList') /\ Elems(readList') = ref \cup {n}
    <3>1. CASE ArtIsRead(readList, n)
      <4>1. n \in Elems(readList) /\ readList' = readList
        BY <3>1, <2>1, <2>2, <1>1, ArtIsReadOk DEF Marked
      <4> QED
        BY <4>1, <2>2
    <3>2. CASE ~ArtIsRead(readList, n)
      <4>1. readList' = MarkRead(readList, n)
        BY <3>2, <1>1 DEF Marked
      <4> QED
        BY <4>1, <2>1, <2>2, MarkReadOk
    <3> QED
      BY <3>1, <3>2
  <2>4. ref' = ref \cup {n} /\ isFixed' = isFixed
    BY <1>1 DEF Marked
  <2>5. ListIsSet'
    BY <2>3, <2>4 DEF ListIsSet
  <2>6. FixedRead'
    BY <2>4 DEF SessionInv, FixedRead
  <2> QED
    BY <2>5, <2>6 DEF SessionInv
<1>2. ASSUME NEW lo \in 1 .. MaxArt, NEW hi \in lo - 1 .. MaxArt, Fixed(lo, hi)
      PROVE  SessionInv'
  <2>1. lo \in Nat \ {0} /\ hi \in Int
    BY LinesOK
  <2> QED
    BY <2>1, <1>2, FixedStep
<1>3. ASSUME NEW hi \in 0 .. MaxArt, NEW keep \in 0 .. MaxArt, CaughtUp(hi, keep)
      PROVE  SessionInv'
  <2> DEFINE lo == CatchupLo(1, hi, keep)
  <2>1. hi \in Int /\ keep \in Int /\ 1 \in Int
    BY LinesOK
  <2>2. lo \in {hi - keep + 1, 1, 1} /\ lo >= 1
    BY <2>1, CatchupLoOk
  <2>3. Fixed(lo, hi)
    BY <1>3 DEF CaughtUp
  <2> HIDE DEF lo
  <2>4. lo \in Nat \ {0}
    BY <2>1, <2>2
  <2> QED
    BY <2>1, <2>3, <2>4, FixedStep
<1>4. CASE UNCHANGED vars
  BY <1>4 DEF vars, SessionInv, ListIsSet, FixedRead
<1> QED
  BY <1>1, <1>2, <1>3, <1>4 DEF Next

\* The list and the set of numbers it should stand for keep together, through every step of
\* a session.
THEOREM SessionInvariant == Spec => []SessionInv
  BY InitSession, SessionStep, PTL DEF Spec

\* The list of a group, read from its line, marked, fixed and caught up in any order, is
\* in normal form and stands for just the numbers it should: no article is fetched again,
\* none is passed over.
THEOREM ListStaysSet == Spec => []ListIsSet
<1>1. SessionInv => ListIsSet
  BY DEF SessionInv
<1> QED
  BY <1>1, SessionInvariant, PTL

\* artIsRead() and grpFirstUnread(), which look at a part of the list only, answer as the
\* set of its numbers would.
THEOREM QueriesStaySet == Spec => []QueriesAreSet
<1>1. SessionInv => QueriesAreSet
  <2> SUFFICES ASSUME SessionInv PROVE QueriesAreSet
    OBVIOUS
  <2>1. NormalForm(readList) /\ Elems(readList) = ref
    BY DEF SessionInv, ListIsSet
  <2>2. ASSUME NEW n \in 0 .. MaxArt + 2 PROVE ArtIsRead(readList, n) <=> n \in ref \cup {0}
    <3>1. n \in Int /\ n >= 0
      BY LinesOK
    <3>2. n <= 0 <=> n = 0
      BY <3>1
    <3>3. ArtIsRead(readList, n) <=> n <= 0 \/ n \in ref
      BY <3>1, <2>1, ArtIsReadOk
    <3> QED
      BY <3>2, <3>3
  <2>3. ASSUME isFixed > 0
        PROVE  LET first == FirstUnread(readList, isFixed) IN
                 /\ first >= isFixed /\ first \notin ref
                 /\ isFixed .. first - 1 \subseteq ref
    <3>1. isFixed \in Nat \ {0} /\ 1 .. isFixed - 1 \subseteq ref
      BY <2>3 DEF SessionInv, FixedRead
    <3> QED
      BY <3>1, <2>1, FirstUnreadOk
  <2> QED
    BY <2>2, <2>3 DEF QueriesAreSet
<1> QED
  BY <1>1, SessionInvariant, PTL

\* What a session writes of the list, the next one reads back.
THEOREM RoundTripAlways == Spec => []RoundTrip
<1>1. SessionInv => RoundTrip
  BY PutGetOk DEF SessionInv, ListIsSet, RoundTrip
<1> QED
  BY <1>1, SessionInvariant, PTL
=============================================================================
