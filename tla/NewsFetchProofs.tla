-------------------------- MODULE NewsFetchProofs --------------------------
(***************************************************************************)
(* Theorems about NewsFetch, for every number of connections, groups and   *)
(* articles, every strategy and every setting of the options: the types    *)
(* and the exclusive use of the connections first; then, from the same     *)
(* invariant, the requests: no article is fetched by two connections,      *)
(* strategy 0 takes one group after the other, and with strategy 2 one     *)
(* routine at most works asynchronously; then the                          *)
(* marks: an article counts as read only when it has been dealt with, and  *)
(* a session that runs to its end leaves none behind; and last, what a     *)
(* session costs that is interrupted: no more articles than connections.   *)
(***************************************************************************)
EXTENDS NewsFetch, TLAPS, WellFoundedInduction, FiniteSetTheorems, FunctionTheorems
-----------------------------------------------------------------------------
(* Lemmas about the operators.                                               *)

\* A set of natural numbers has a minimum, and SetMin picks it.
LEMMA SetMinInSet ==
  ASSUME NEW S, S \subseteq Nat, S # {}
  PROVE  SetMin(S) \in S /\ \A n \in S : SetMin(S) <= n
<1> DEFINE R == {ss \in Nat \X Nat : ss[1] < ss[2]}
<1>1. IsWellFoundedOn(R, Nat)
  BY NatLessThanWellFounded DEF OpToRel
<1> HIDE DEF R
<1>2. PICK x \in S : \A y \in S : ~(<<y, x>> \in R)
  BY <1>1, WFMin
<1>3. ASSUME NEW y \in S PROVE x <= y
  <2>1. x \in Nat /\ y \in Nat
    OBVIOUS
  <2>2. <<y, x>> \notin R
    BY <1>2
  <2>3. ~(y < x)
    BY <2>1, <2>2 DEF R
  <2> QED
    BY <2>1, <2>3
<1> QED
  BY <1>3 DEF SetMin

\* nntpMtGetWaiting() returns a slot that is waiting, if there is one.
LEMMA FirstWaitingOk ==
  ASSUME WaitingSlots # {}
  PROVE  FirstWaiting \in Slots /\ nntpS[FirstWaiting] = "waiting"
<1>1. WaitingSlots \subseteq Nat
  BY ConstantsOK DEF WaitingSlots, Slots
<1> QED
  BY <1>1, SetMinInSet DEF FirstWaiting, WaitingSlots

\* grpFirstUnread() and the search of mtGetGroup() return a number.
LEMMA NextUnreadType ==
  ASSUME NEW S, NEW lo \in Nat, NEW hi \in Nat
  PROVE  NextUnread(S, lo, hi) \in Nat
<1>1. CASE \E n \in lo .. hi : n \notin S
  <2> DEFINE U == {n \in lo .. hi : n \notin S}
  <2>1. U \subseteq Nat /\ U # {}
    BY <1>1
  <2> QED
    BY <2>1, <1>1, SetMinInSet DEF NextUnread
<1>2. CASE ~\E n \in lo .. hi : n \notin S
  BY <1>2 DEF NextUnread
<1> QED
  BY <1>1, <1>2
-----------------------------------------------------------------------------
(* Type correctness.                                                         *)

LEMMA TypeInit == Init => TypeOK
<1> SUFFICES ASSUME Init PROVE TypeOK
  OBVIOUS
<1>1. read \in [Group -> SUBSET Int] /\ saved \in [Group -> SUBSET Int]
  BY ConstantsOK, Nat \subseteq Int DEF Init
<1>2. nntp \in [Slots -> SlotType] /\ attempts \in [Slots -> Int]
  BY ConstantsOK DEF Init, SlotType, NoGroup
<1>3. /\ nntpS \in [Slots -> NntpStates] /\ job \in [Slots -> Jobs]
      /\ nntpSyncCall \in [Slots -> BOOLEAN]
  BY DEF Init, NntpStates, Jobs
<1>4. /\ rpc \in [Group -> RoutinePcs]
      /\ loc \in [Group -> LocalsType]
  BY DEF Init, RoutinePcs, LocalsType
<1>5. xhdr \in [owner : Slots \cup {NoSlot}, expNum : Int, groupName : Int]
  BY DEF Init, NoGroup
<1> QED
  BY <1>1, <1>2, <1>3, <1>4, <1>5 DEF Init, TypeOK, MainPcs

\* selectArticle() keeps the type of the connections.
LEMMA SelectType ==
  ASSUME NEW f \in [Slots -> SlotType], NEW s, NEW g \in Int, NEW n \in Int
  PROVE  [f EXCEPT ![s].selGroup = g, ![s].selArticle = n] \in [Slots -> SlotType]
<1> DEFINE h == [f EXCEPT ![s].selGroup = g]
<1>1. h \in [Slots -> SlotType]
  BY DEF SlotType
<1>2. [h EXCEPT ![s].selArticle = n] \in [Slots -> SlotType]
  <2> HIDE DEF h
  <2> QED
    BY <1>1 DEF SlotType
<1> QED
  BY <1>2

\* So do GROUP, by setActGroup(), ...
LEMMA ActGroupType ==
  ASSUME NEW f \in [Slots -> SlotType], NEW s, NEW g \in Int, NEW n \in Int
  PROVE  [f EXCEPT ![s].actGroup = g, ![s].selNntpArticle = n] \in [Slots -> SlotType]
<1> DEFINE h == [f EXCEPT ![s].actGroup = g]
<1>1. h \in [Slots -> SlotType]
  BY DEF SlotType
<1>2. [h EXCEPT ![s].selNntpArticle = n] \in [Slots -> SlotType]
  <2> HIDE DEF h
  <2> QED
    BY <1>1 DEF SlotType
<1> QED
  BY <1>2

\* ... and the loop of mtGetGroup() keeps that of its variables.
LEMMA RequestType ==
  ASSUME NEW f \in [Group -> LocalsType], NEW g, NEW n \in Nat, NEW b \in BOOLEAN
  PROVE  /\ [f EXCEPT ![g].artNum = n, ![g].artRequested = b] \in [Group -> LocalsType]
         /\ [f EXCEPT ![g].artRequested = b, ![g].artNum = n] \in [Group -> LocalsType]
<1> DEFINE h == [f EXCEPT ![g].artNum = n]
           k == [f EXCEPT ![g].artRequested = b]
<1>1. h \in [Group -> LocalsType] /\ k \in [Group -> LocalsType]
  BY DEF LocalsType
<1>2. /\ [h EXCEPT ![g].artRequested = b] \in [Group -> LocalsType]
      /\ [k EXCEPT ![g].artNum = n] \in [Group -> LocalsType]
  <2> HIDE DEF h, k
  <2> QED
    BY <1>1 DEF LocalsType
<1> QED
  BY <1>2

\* grpFixReadList() yields a set of numbers, artNum stays a number.
LEMMA FixReadType ==
  ASSUME NEW S \in SUBSET Int, NEW lo \in Nat, NEW hi \in Nat
  PROVE  FixRead(S, lo, hi) \in SUBSET Int
<1>1. 1 .. lo - 1 \in SUBSET Int /\ S \ (1 .. lo - 1) \in SUBSET Int
  OBVIOUS
<1> DEFINE last == hi + (IF hi > ResetAbove THEN ResetSlack ELSE 0)
<1>2. CASE \E n \in S : n > last
  BY <1>1, <1>2 DEF FixRead
<1>3. CASE ~\E n \in S : n > last
  BY <1>1, <1>3 DEF FixRead
<1> QED
  BY <1>2, <1>3

LEMMA EnoughArtType ==
  ASSUME NEW g \in Group, NEW n \in Nat
  PROVE  EnoughArt(g, n) \in Nat
  BY ConstantsOK DEF EnoughArt

LEMMA TypeMain == TypeOK /\ MainNext => TypeOK'
<1> SUFFICES ASSUME TypeOK, MainNext PROVE TypeOK'
  OBVIOUS
<1> USE DEF TypeOK, MainGoto, MainPcs, Handler, Final, slotVars, groupVars,
            newsVars, endVars
<1>1. CASE StartConnect
  BY <1>1 DEF StartConnect, Jobs
<1>2. CASE WaitConnect
  BY <1>2 DEF WaitConnect
<1>3. CASE StartNewGroups
  BY <1>3, FirstWaitingOk DEF StartNewGroups, NntpStates, Jobs
<1>4. CASE WaitOne
  BY <1>4 DEF WaitOne
<1>5. CASE GetSlot
  BY <1>5, FirstWaitingOk DEF GetSlot, NntpStates
<1>6. CASE StartGroup
  <2>1. CASE Enough
    BY <1>6, <2>1 DEF StartGroup
  <2>2. CASE ~Enough
    <3> DEFINE b == Strategy = 2
    <3>1. b \in BOOLEAN
      OBVIOUS
    <3>2. /\ nntpSyncCall' = [nntpSyncCall EXCEPT ![mainSlot] = b]
          /\ loc' = [loc EXCEPT ![curGroup].thread = mainSlot,
                                ![curGroup].syncCall = b]
          /\ nntp' = [nntp EXCEPT ![mainSlot].selGroup = curGroup,
                                  ![mainSlot].selArticle = -1]
          /\ rpc' = [rpc EXCEPT ![curGroup] = "begun"]
          /\ mainSlot' = NoSlot
          /\ mainPc' \in {"afterGroup", "inGroup"}
          /\ UNCHANGED <<curGroup, disc, nntpS, job, attempts, activeRoutines,
                         syncTransSema, xhdr, newsVars, endVars, stopOperation,
                         faults>>
      BY <1>6, <2>2 DEF StartGroup, Select
    <3> HIDE DEF b
    <3>3. nntpSyncCall' \in [Slots -> BOOLEAN]
      BY <3>1, <3>2
    <3>4. loc' \in [Group -> LocalsType]
      BY <3>1, <3>2 DEF LocalsType
    <3>5. nntp' \in [Slots -> SlotType]
      <4>1. curGroup \in Int /\ -1 \in Int /\ nntp \in [Slots -> SlotType]
        OBVIOUS
      <4> QED
        BY <3>2, <4>1, SelectType, Zenon
    <3> QED
      BY <3>2, <3>3, <3>4, <3>5 DEF RoutinePcs
  <2> QED
    BY <2>1, <2>2
<1>7. CASE GroupReturned
  BY <1>7 DEF GroupReturned
<1>8. CASE Drain
  BY <1>8 DEF Drain
<1>9. CASE NextGroup
  BY <1>9 DEF NextGroup
<1>10. CASE Settle
  BY <1>10 DEF Settle
<1>11. CASE Scan
  BY <1>11 DEF Scan
<1>12. CASE ChkActive
  BY <1>12, ConstantsOK DEF ChkActive, Slots
<1>13. CASE Save
  BY <1>13 DEF Save
<1>14. CASE WaitDisc
  BY <1>14 DEF WaitDisc
<1> QED
  BY <1>1, <1>2, <1>3, <1>4, <1>5, <1>6, <1>7, <1>8, <1>9, <1>10, <1>11, <1>12, <1>13, <1>14 DEF MainNext

LEMMA TypeRoutine ==
  ASSUME TypeOK, NEW g \in Group, RoutineNext(g)
  PROVE  TypeOK'
<1> USE DEF TypeOK, RGoto, Thread, RoutinePcs, mainVars, slotVars, newsVars,
            endVars
<1>1. CASE RoutineBegin(g)
  BY <1>1 DEF RoutineBegin
<1>2. CASE SelectOk(g)
  <2> DEFINE S == FixRead(read[g], GroupLo[g], GroupHi[g])
             n == NextUnread(S, GroupLo[g], GroupHi[g])
             s == Thread(g)
  <2>1. S \in SUBSET Int /\ n \in Nat
    <3>1. GroupLo[g] \in Nat /\ GroupHi[g] \in Nat /\ read[g] \in SUBSET Int
      BY ConstantsOK
    <3> QED
      BY <3>1, FixReadType, NextUnreadType, Zenon
  <2>2. read' = [read EXCEPT ![g] = S] /\ rpc' = [rpc EXCEPT ![g] = "loop"]
    BY <1>2 DEF SelectOk
  <2>3. loc' = [loc EXCEPT ![g].artNum = n, ![g].artRequested = TRUE]
    BY <1>2 DEF SelectOk
  <2>4. loc' \in [Group -> LocalsType]
    BY <2>1, <2>3, RequestType, Zenon
  <2>5. nntp' \in [Slots -> SlotType] /\ job' \in [Slots -> Jobs]
    <3> DEFINE f == [nntp EXCEPT ![s].actGroup = g, ![s].selNntpArticle = -1]
    <3>1. g \in Int /\ -1 \in Int /\ n \in Int
      <4> HIDE DEF n
      <4> QED
        BY ConstantsOK, <2>1 DEF Group
    <3>2. f \in [Slots -> SlotType]
      BY <3>1, ActGroupType, Zenon
    <3>3. CASE loc[g].syncCall
      BY <1>2, <3>2, <3>3 DEF SelectOk
    <3>4. CASE ~loc[g].syncCall
      <4>1. /\ nntp' = [f EXCEPT ![s].selGroup = g, ![s].selArticle = n]
            /\ job' = [job EXCEPT ![s] = "xhStart"]
        BY <1>2, <3>4 DEF SelectOk
      <4> HIDE DEF f, n
      <4>2. nntp' \in [Slots -> SlotType]
        BY <4>1, <3>1, <3>2, <2>1, SelectType, Zenon
      <4> QED
        BY <4>1, <4>2 DEF Jobs
    <3> QED
      BY <3>3, <3>4
  <2> HIDE DEF S
  <2> QED
    BY <1>2, <2>1, <2>2, <2>4, <2>5 DEF SelectOk
<1>3. CASE SelectFail(g)
  <2>1. nntp' \in [Slots -> SlotType]
    <3>1. NoGroup \in Int /\ -1 \in Int
      BY DEF NoGroup
    <3>2. nntp' = [nntp EXCEPT ![Thread(g)].actGroup = NoGroup,
                               ![Thread(g)].selNntpArticle = -1]
      BY <1>3 DEF SelectFail
    <3> QED
      BY <3>1, <3>2, ActGroupType, Zenon
  <2> QED
    BY <1>3, <2>1 DEF SelectFail, NntpStates
<1>4. CASE LoopExit(g)
  BY <1>4 DEF LoopExit, NntpStates
<1>5. CASE RoutineEnd(g)
  BY <1>5 DEF RoutineEnd
<1>6. CASE LoopTransit(g)
  BY <1>6 DEF LoopTransit, NntpStates, LocalsType
<1>7. CASE LoopBody(g)
  BY <1>7 DEF LoopBody
<1>8. CASE Pick(g)
  <2> DEFINE n == NextUnread(read[g], loc[g].artNum, GroupHi[g])
  <2>1. n \in Nat
    BY ConstantsOK, NextUnreadType DEF LocalsType
  <2>2. loc' \in [Group -> LocalsType]
    <3>1. CASE loc[g].artRequested
      <4> DEFINE b == n > GroupHi[g]
      <4>1. b \in BOOLEAN
        OBVIOUS
      <4>2. loc' = [loc EXCEPT ![g].artNum = n, ![g].artRequested = b]
        BY <1>8, <3>1 DEF Pick
      <4> QED
        BY <2>1, <4>1, <4>2, RequestType, Zenon
    <3>2. CASE ~loc[g].artRequested
      BY <1>8, <3>2 DEF Pick
    <3> QED
      BY <3>1, <3>2
  <2> QED
    BY <1>8, <2>2 DEF Pick
<1>9. CASE TakeAsync(g)
  <2> DEFINE s == FirstWaiting
             n == EnoughArt(g, loc[g].artNum + 1)
  <2>1. s \in Slots /\ g \in Int /\ loc[g].artNum \in Int
    BY <1>9, FirstWaitingOk, ConstantsOK DEF TakeAsync, Group, LocalsType
  <2>2. nntp' \in [Slots -> SlotType]
    BY <1>9, <2>1, SelectType, Zenon DEF TakeAsync, Select
  <2>3. loc' \in [Group -> LocalsType]
    <3> DEFINE f == [loc EXCEPT ![g].thread = s]
    <3>1. n \in Nat
      BY EnoughArtType DEF LocalsType
    <3> HIDE DEF s, n
    <3>2. f \in [Group -> LocalsType]
      BY <2>1 DEF LocalsType
    <3>3. loc' = [f EXCEPT ![g].artRequested = TRUE, ![g].artNum = n]
      BY <1>9 DEF TakeAsync, s, n
    <3> HIDE DEF f
    <3> QED
      BY <3>1, <3>2, <3>3, RequestType, Zenon
  <2> QED
    BY <1>9, <2>1, <2>2, <2>3 DEF TakeAsync, NntpStates, Jobs, ArticleJobs
<1>10. CASE TakeSync(g)
  <2>1. nntp' \in [Slots -> SlotType]
    <3>1. g \in Int
      BY ConstantsOK DEF Group
    <3>2. loc[g].artNum \in Int
      BY DEF LocalsType
    <3> QED
      BY <1>10, <3>1, <3>2, SelectType, Zenon DEF TakeSync, Select
  <2> QED
    BY <1>10, <2>1 DEF TakeSync, NntpStates, Jobs, ArticleJobs
<1>11. CASE ArticleDone(g)
  <2>1. loc' \in [Group -> LocalsType]
    <3>1. loc[g].artNum + 1 \in Nat
      BY DEF LocalsType
    <3>2. EnoughArt(g, loc[g].artNum + 1) \in Nat /\ TRUE \in BOOLEAN
      BY <3>1, EnoughArtType
    <3> QED
      BY <1>11, <3>2, RequestType, Zenon DEF ArticleDone
  <2> QED
    BY <1>11, <2>1 DEF ArticleDone
<1>12. CASE TakeNone(g)
  <2>1. EnoughArt(g, loc[g].artNum) \in Nat
    BY EnoughArtType DEF LocalsType
  <2> QED
    BY <1>12, <2>1 DEF TakeNone, LocalsType
<1> QED
  BY <1>1, <1>2, <1>3, <1>4, <1>5, <1>6, <1>7, <1>8, <1>9, <1>10, <1>11, <1>12
     DEF RoutineNext

\* Marking pairs of a group and a number keeps the type of the newsrc.
LEMMA MarkType ==
  ASSUME read \in [Group -> SUBSET Int], NEW P, \A p \in P : p[2] \in Int, Mark(P)
  PROVE  read' \in [Group -> SUBSET Int]
<1>1. \A g \in Group : {p[2] : p \in {q \in P : q[1] = g}} \in SUBSET Int
  OBVIOUS
<1> QED
  BY <1>1 DEF Mark

\* The numbers on an Xref line are numbers.
LEMMA XrefType ==
  ASSUME NEW g, NEW n \in Int
  PROVE  \A p \in XrefPairs(g, n) : p[2] \in Int
<1> SUFFICES ASSUME NEW p \in XrefPairs(g, n) PROVE p[2] \in Int
  OBVIOUS
<1>1. CASE \E x \in CrossPost : p \in x
  BY <1>1, ConstantsOK
<1>2. CASE p = <<g, n>>
  BY <1>2
<1>3. (\E x \in CrossPost : p \in x) \/ p = <<g, n>>
  <2> DEFINE U == {x \in CrossPost : <<g, n>> \in x}
  <2>1. p \in UNION U \/ p = <<g, n>>
    BY DEF XrefPairs
  <2>2. U \subseteq CrossPost
    OBVIOUS
  <2> HIDE DEF U
  <2> QED
    BY <2>1, <2>2
<1> QED
  BY <1>1, <1>2, <1>3

\* The end of mtGetArticle() leaves a known state.
LEMMA FinishedType ==
  ASSUME TypeOK, NEW s \in Slots, NEW ok, Finished(s, ok)
  PROVE  nntpS' \in [Slots -> NntpStates] /\ job' \in [Slots -> Jobs]
  BY DEF TypeOK, Finished, SetS, NntpStates, Jobs

\* The articles of a group are numbers.
LEMMA AvailType ==
  ASSUME NEW g \in Group
  PROVE  Avail(g) \subseteq Nat /\ GroupHi[g] \in Nat
  BY ConstantsOK DEF Avail

\* A worker on an article or on XHDR has a group of the newsrc selected.
GroupKnown ==
  \A s \in Slots :
    /\ job[s] \in ArticleJobs => nntp[s].selGroup \in Group
    /\ job[s] \in {"xhStart", "xhBegin", "xhLines"} => nntp[s].actGroup \in Group

LEMMA TypeWorker ==
  ASSUME TypeOK, GroupKnown, NEW s \in Slots, WorkerNext(s)
  PROVE  TypeOK'
<1> USE DEF TypeOK, JobGoto, SetS, NntpStates, mainVars, groupVars, newsVars,
            endVars
<1>1. CASE ConnBegin(s)
  BY <1>1 DEF ConnBegin, Jobs, ArticleJobs
<1>2. CASE ConnOk(s)
  BY <1>2 DEF ConnOk, Jobs, SlotType
<1>3. CASE ConnFail(s)
  BY <1>3, ConstantsOK DEF ConnFail, Jobs
<1>4. CASE NgStart(s)
  BY <1>4 DEF NgStart, Jobs, ArticleJobs
<1>5. CASE NgList(s)
  BY <1>5 DEF NgList, Jobs, ArticleJobs
<1>6. CASE XhStart(s)
  BY <1>6 DEF XhStart, Jobs, ArticleJobs
<1>7. CASE XhBegin(s)
  BY <1>7 DEF XhBegin, Jobs, SlotType
<1>8. CASE XhRefused(s)
  BY <1>8 DEF XhRefused, Jobs, ArticleJobs
<1>9. CASE XhLine(s)
  <2> DEFINE cur == SetMin(XhComing(s))
  <2>1. cur \in Nat
    <3>1. nntp[s].actGroup \in Group
      BY <1>9 DEF XhLine, GroupKnown
    <3>2. XhComing(s) \subseteq Nat /\ XhComing(s) # {}
      BY <1>9, <3>1, AvailType DEF XhLine, XhComing
    <3> QED
      BY <3>2, SetMinInSet
  <2> HIDE DEF cur
  <2>2. read' \in [Group -> SUBSET Int]
    <3> DEFINE P == {xhdr.groupName} \X (xhdr.expNum .. cur - 1)
    <3>1. Mark(P)
      BY <1>9 DEF XhLine, cur
    <3>2. \A p \in P : p[2] \in Int
      OBVIOUS
    <3> QED
      BY <3>1, <3>2, MarkType
  <2>3. xhdr' \in [owner : Slots \cup {NoSlot}, expNum : Int, groupName : Int]
    <3> DEFINE i == cur + 1
               o == IF stopOperation THEN NoSlot ELSE s
               f == [xhdr EXCEPT !.expNum = i]
    <3>1. i \in Int /\ o \in Slots \cup {NoSlot}
      BY <2>1
    <3>2. xhdr' = [f EXCEPT !.owner = o]
      BY <1>9 DEF XhLine, cur
    <3> HIDE DEF i, o
    <3>3. f \in [owner : Slots \cup {NoSlot}, expNum : Int, groupName : Int]
      BY <3>1
    <3> HIDE DEF f
    <3> QED
      BY <3>1, <3>2, <3>3
  <2> QED
    BY <1>9, <2>2, <2>3 DEF XhLine, Jobs
<1>10. CASE XhEnd(s)
  BY <1>10 DEF XhEnd, Jobs, ArticleJobs
<1>11. CASE ArtStart(s)
  BY <1>11 DEF ArtStart, Jobs, ArticleJobs
<1>12. CASE HeadOk(s)
  <2>1. nntp' \in [Slots -> SlotType]
    <3>1. nntp[s].selGroup \in Int /\ nntp[s].selArticle \in Int
      BY DEF SlotType
    <3> QED
      BY <1>12, <3>1, ActGroupType, Zenon DEF HeadOk
  <2> QED
    BY <1>12, <2>1 DEF HeadOk, Jobs, ArticleJobs
<1>13. CASE HeadNotAvail(s)
  <2> DEFINE n == IF MustSelect(s) THEN -1 ELSE nntp[s].selNntpArticle
             g == nntp[s].selGroup
  <2>1. n \in Int /\ g \in Int
    BY DEF SlotType
  <2>2. nntp' = [nntp EXCEPT ![s].actGroup = g, ![s].selNntpArticle = n]
    BY <1>13 DEF HeadNotAvail, SlotType
  <2> HIDE DEF n, g
  <2>3. nntp' \in [Slots -> SlotType]
    BY <2>1, <2>2, ActGroupType, Zenon
  <2> QED
    BY <1>13, <2>3 DEF HeadNotAvail, Jobs, ArticleJobs
<1>14. CASE HeadFail(s)
  <2>1. nntp' \in [Slots -> SlotType]
    <3>1. NoGroup \in Int /\ nntp[s].selGroup \in Int /\ -1 \in Int
      BY DEF NoGroup, SlotType
    <3>2. PICK selected \in {TRUE, ~MustSelect(s)} :
            nntp' = IF ~MustSelect(s) THEN nntp
                    ELSE [nntp EXCEPT ![s].selNntpArticle = -1,
                            ![s].actGroup = IF selected THEN nntp[s].selGroup
                                            ELSE NoGroup]
      BY <1>14 DEF HeadFail
    <3> DEFINE g == IF selected THEN nntp[s].selGroup ELSE NoGroup
    <3>3. g \in Int
      BY <3>1
    <3>4. \/ nntp' = nntp
          \/ nntp' = [nntp EXCEPT ![s].selNntpArticle = -1, ![s].actGroup = g]
      BY <3>2
    <3>5. [nntp EXCEPT ![s].selNntpArticle = -1, ![s].actGroup = g]
            = [nntp EXCEPT ![s].actGroup = g, ![s].selNntpArticle = -1]
      BY DEF SlotType
    <3> HIDE DEF g
    <3>6. [nntp EXCEPT ![s].actGroup = g, ![s].selNntpArticle = -1]
            \in [Slots -> SlotType]
      BY <3>1, <3>3, ActGroupType, Zenon
    <3> QED
      BY <3>4, <3>5, <3>6, Zenon
  <2> QED
    BY <1>14, <2>1 DEF HeadFail, Jobs, ArticleJobs
<1>15. CASE BodyOk(s)
  BY <1>15, ConstantsOK DEF BodyOk, Jobs, ArticleJobs
<1>16. CASE BodyFail(s)
  BY <1>16 DEF BodyFail, Jobs, ArticleJobs
<1>17. CASE ArtWrite(s)
  BY <1>17 DEF ArtWrite, Jobs, ArticleJobs
<1>18. CASE ArtMark(s)
  <2>1. read' \in [Group -> SUBSET Int]
    <3>1. Art(s)[2] \in Int
      BY DEF Art, SlotType
    <3>2. \A p \in {Art(s)} : p[2] \in Int
      BY <3>1
    <3> QED
      BY <1>18, <3>2, MarkType DEF ArtMark
  <2>2. nntp' \in [Slots -> SlotType]
    <3>1. nntp' = [nntp EXCEPT ![s].artNotAvail = 0]
      BY <1>18 DEF ArtMark
    <3> QED
      BY <3>1 DEF SlotType
  <2>3. nntpS' \in [Slots -> NntpStates] /\ job' \in [Slots -> Jobs]
    BY <1>18, FinishedType DEF ArtMark
  <2> QED
    BY <1>18, <2>1, <2>2, <2>3 DEF ArtMark
<1>19. CASE ArtMissing(s)
  <2> DEFINE cnt    == nntp[s].artNotAvail + 1
             many   == cnt >= NotAvailMax
             unread == Art(s)[2] \notin read[Art(s)[1]]
             n == IF ~many THEN cnt ELSE IF unread THEN 0 ELSE NotAvailMax
             P == IF ~many \/ unread THEN {Art(s)} ELSE {}
  <2>1. n \in Int
    BY ConstantsOK DEF SlotType
  <2>2. \A p \in P : p[2] \in Int
    BY DEF Art, SlotType
  <2>3. Mark(P) /\ nntp' = [nntp EXCEPT ![s].artNotAvail = n]
    BY <1>19 DEF ArtMissing
  <2> HIDE DEF n, P
  <2>4. read' \in [Group -> SUBSET Int]
    BY <2>2, <2>3, MarkType
  <2>5. nntp' \in [Slots -> SlotType]
    BY <2>1, <2>3 DEF SlotType
  <2>6. nntpS' \in [Slots -> NntpStates] /\ job' \in [Slots -> Jobs]
    <3>1. \/ Finished(s, TRUE)
          \/ job' = [job EXCEPT ![s] = "artNext"] /\ UNCHANGED nntpS
      BY <1>19 DEF ArtMissing
    <3> QED
      BY <3>1, FinishedType DEF Jobs, ArticleJobs
  <2> QED
    BY <1>19, <2>4, <2>5, <2>6 DEF ArtMissing
<1>20. CASE ArtNext(s)
  <2> DEFINE g      == Art(s)[1]
             after  == {k \in Avail(g) : k > nntp[s].selNntpArticle}
             seen   == IF Answers(s) THEN after ELSE {}
             beyond == {k \in seen : k > Art(s)[2]}
             P == {g} \X NextHoles(g, Art(s)[2], seen)
             n == IF beyond = {} THEN GroupHi[g] ELSE SetMin(beyond)
  <2>1. n \in Int
    <3>1. g \in Group
      BY <1>20 DEF ArtNext, GroupKnown, Art, ArticleJobs
    <3>2. GroupHi[g] \in Nat /\ beyond \subseteq Nat
      BY <3>1, AvailType
    <3> HIDE DEF beyond
    <3>3. CASE beyond = {}
      BY <3>2, <3>3
    <3>4. CASE beyond # {}
      <4>1. SetMin(beyond) \in beyond
        BY <3>2, <3>4, SetMinInSet
      <4>2. SetMin(beyond) \in Int
        <5>1. beyond \subseteq Int
          BY <3>2
        <5> QED
          BY <4>1, <5>1, Zenon
      <4>3. n = SetMin(beyond)
        BY <3>4, Zenon
      <4> QED
        BY <4>2, <4>3
    <3> QED
      BY <3>3, <3>4
  <2>2. \A p \in P : p[2] \in Int
    <3>1. \A i \in NextHoles(g, Art(s)[2], seen) : i \in Int
      BY SMT DEF NextHoles
    <3> QED
      BY <3>1
  <2>3. Mark(P) /\ nntp' = [nntp EXCEPT ![s].selNntpArticle = n]
    BY <1>20 DEF ArtNext
  <2> HIDE DEF n, P
  <2>4. read' \in [Group -> SUBSET Int]
    BY <2>2, <2>3, MarkType
  <2>5. nntp' \in [Slots -> SlotType]
    BY <2>1, <2>3 DEF SlotType
  <2>6. nntpS' \in [Slots -> NntpStates] /\ job' \in [Slots -> Jobs]
    BY <1>20, FinishedType DEF ArtNext
  <2> QED
    BY <1>20, <2>4, <2>5, <2>6 DEF ArtNext
<1>21. CASE ArtFail(s)
  BY <1>21, FinishedType DEF ArtFail
<1>a. \A p \in XrefMarks(s) : p[2] \in Int
  BY XrefType DEF XrefMarks, Art, SlotType
<1>22. CASE LinesOk(s)
  <2>1. read' \in [Group -> SUBSET Int]
    BY <1>22, <1>a, MarkType DEF LinesOk
  <2> QED
    BY <1>22, <2>1 DEF LinesOk, Jobs, ArticleJobs
<1>23. CASE LinesCut(s)
  <2>1. read' \in [Group -> SUBSET Int]
    BY <1>23, <1>a, MarkType DEF LinesCut
  <2> QED
    BY <1>23, <2>1 DEF LinesCut, Jobs, ArticleJobs
<1> QED
  BY <1>1, <1>2, <1>3, <1>4, <1>5, <1>6, <1>7, <1>8, <1>9, <1>10, <1>11, <1>12, <1>13, <1>14, <1>15, <1>16, <1>17, <1>18, <1>19, <1>20,
     <1>21, <1>22, <1>23 DEF WorkerNext

LEMMA TypeOthers ==
  ASSUME TypeOK,
         UserInterrupt \/ CheckTransfer \/ SigClose \/ SigSave \/ Disconnect \/ \E s \in Slots : LinkBreak(s)
  PROVE  TypeOK'
<1> USE DEF TypeOK, slotVars, groupVars, newsVars
<1>1. CASE UserInterrupt \/ CheckTransfer
  BY <1>1 DEF UserInterrupt, CheckTransfer, Sigint, MainPcs, Handler
<1>2. CASE SigClose
  BY <1>2 DEF SigClose, MainGoto, MainPcs, Handler
<1>3. CASE SigSave
  BY <1>3 DEF SigSave, MainGoto, MainPcs, Final
<1>4. CASE Disconnect
  <2>1. disc' \in Slots \cup {NoSlot, MaxNntpThreads}
    BY <1>4, ConstantsOK DEF Disconnect, Slots
  <2> QED
    BY <1>4, <2>1 DEF Disconnect, SlotType, NntpStates, endVars
<1>5. CASE \E s \in Slots : LinkBreak(s)
  BY <1>5, ConstantsOK DEF LinkBreak, SlotType, mainVars, endVars
<1> QED
  BY <1>1, <1>2, <1>3, <1>4, <1>5

LEMMA TypeStutter == TypeOK /\ UNCHANGED vars => TypeOK'
  BY DEF TypeOK, vars, mainVars, slotVars, groupVars, newsVars, endVars

LEMMA TypeNext == TypeOK /\ GroupKnown /\ [Next]_vars => TypeOK'
<1> SUFFICES ASSUME TypeOK, GroupKnown, [Next]_vars PROVE TypeOK'
  OBVIOUS
<1>1. CASE MainNext
  BY <1>1, TypeMain
<1>2. ASSUME NEW g \in Group, GroupNext(g) PROVE TypeOK'
  BY <1>2, TypeRoutine DEF GroupNext
<1>3. ASSUME NEW s \in Slots, SlotNext(s) PROVE TypeOK'
  BY <1>3, TypeWorker DEF SlotNext
<1>4. CASE \/ UserInterrupt \/ CheckTransfer \/ SigClose \/ SigSave \/ Disconnect
           \/ \E s \in Slots : LinkBreak(s)
  BY <1>4, TypeOthers
<1>5. CASE UNCHANGED vars
  BY <1>5, TypeStutter
<1> QED
  BY <1>1, <1>2, <1>3, <1>4, <1>5 DEF Next
-----------------------------------------------------------------------------
(* The exclusive use of the connections.                                     *)

\* Why no slot has two users.  A slot counts as waiting only while nobody has
\* it; while getNews() has it, nothing runs on it; while a routine has it, the
\* only worker on it is the mtGetArticle() the routine itself has called.
NothingYet ==
  mainPc = "connect" =>
    /\ mainSlot = NoSlot
    /\ \A s \in Slots : job[s] = "none" /\ nntpS[s] = "init"
    /\ \A g \in Group : rpc[g] = "none"

MainHas ==
  mainSlot # NoSlot => job[mainSlot] = "none" /\ nntpS[mainSlot] # "waiting"

RoutineHas ==
  \A g \in Group : \A s \in Slots : Holds(g, s) =>
    /\ nntpS[s] # "waiting" /\ mainSlot # s
    /\ job[s] # "none" =>
         rpc[g] = "inArticle" /\ job[s] \in ArticleJobs /\ nntpSyncCall[s]
    /\ \A h \in Group : Holds(h, s) => h = g

WorkerHas == \A s \in Slots : job[s] # "none" => nntpS[s] # "waiting"

SlotInv == NothingYet /\ MainHas /\ RoutineHas /\ WorkerHas

IInv == TypeOK /\ GroupKnown /\ SlotInv

LEMMA SlotInvInit == Init => SlotInv /\ GroupKnown
  BY DEF Init, SlotInv, NothingYet, MainHas, RoutineHas, WorkerHas, Holds,
         GroupKnown, ArticleJobs

LEMMA SlotInvExclusive == TypeOK /\ SlotInv => SlotExclusive
<1> SUFFICES ASSUME TypeOK, SlotInv, NEW s \in Slots
             PROVE  /\ nntpS[s] = "waiting" => Users(s) = {}
                    /\ \A u, v \in Users(s) : u = v
  BY DEF SlotExclusive
<1> USE DEF SlotInv
<1>1. s # NoSlot
  BY ConstantsOK DEF Slots, NoSlot
<1>2. ASSUME nntpS[s] = "waiting" PROVE Users(s) = {}
  <2>1. mainSlot # s
    BY <1>1, <1>2 DEF MainHas
  <2>2. job[s] = "none"
    BY <1>2 DEF WorkerHas
  <2>3. \A g \in Group : ~Holds(g, s)
    BY <1>2 DEF RoutineHas
  <2> QED
    BY <2>1, <2>2, <2>3 DEF Users
<1>3. ASSUME NEW u \in Users(s), NEW v \in Users(s) PROVE u = v
  <2> DEFINE M == mainSlot = s
             R(g) == Holds(g, s)
             W == job[s] # "none" /\ ~\E g \in Group : Holds(g, s) /\ rpc[g] = "inArticle"
  <2>1. \A w \in Users(s) : \/ M /\ w = <<"main", 0>>
                            \/ \E g \in Group : R(g) /\ w = <<"routine", g>>
                            \/ W /\ w = <<"worker", 0>>
    BY DEF Users
  <2>2. M => ~W /\ \A g \in Group : ~R(g)
    BY <1>1 DEF MainHas, RoutineHas
  <2>3. W => \A g \in Group : ~R(g)
    BY DEF RoutineHas
  <2>4. \A g, h \in Group : R(g) /\ R(h) => g = h
    BY DEF RoutineHas
  <2> HIDE DEF M, R, W
  <2> QED
    BY <2>1, <2>2, <2>3, <2>4
<1> QED
  BY <1>2, <1>3

LEMMA SlotMain == IInv /\ MainNext => SlotInv' /\ GroupKnown'
<1> SUFFICES ASSUME IInv, MainNext PROVE SlotInv' /\ GroupKnown'
  OBVIOUS
<1> USE DEF IInv, TypeOK, SlotInv, NothingYet, MainHas, RoutineHas, WorkerHas,
            Holds, Thread, GroupKnown, MainGoto, slotVars, groupVars, newsVars,
            endVars
<1>1. CASE StartConnect
  BY <1>1 DEF StartConnect, ArticleJobs
<1>2. CASE WaitConnect
  BY <1>2 DEF WaitConnect
<1>3. CASE StartNewGroups
  BY <1>3, FirstWaitingOk DEF StartNewGroups, ArticleJobs
<1>4. CASE WaitOne
  BY <1>4 DEF WaitOne
<1>5. CASE GetSlot
  BY <1>5, FirstWaitingOk DEF GetSlot
<1>6. CASE StartGroup
  <2>1. NothingYet'
    BY <1>6 DEF StartGroup, Select, NoSlot
  <2>2. MainHas'
    BY <1>6 DEF StartGroup, Select, NoSlot
  <2>3. RoutineHas'
    <3>1. CASE Enough
      BY <1>6, <3>1 DEF StartGroup
    <3>2. CASE ~Enough
      <4>1. /\ UNCHANGED <<nntpS, job>> /\ mainSlot' = NoSlot
            /\ rpc' = [rpc EXCEPT ![curGroup] = "begun"]
        BY <1>6, <3>2 DEF StartGroup
      <4>2. \A h \in Group : h # curGroup => loc'[h] = loc[h]
        BY <1>6, <3>2 DEF StartGroup
      <4>3. \A s \in Slots : s # mainSlot => nntpSyncCall'[s] = nntpSyncCall[s]
        BY <1>6, <3>2 DEF StartGroup
      <4>4. curGroup \in Group => loc'[curGroup].thread = mainSlot
        BY <1>6, <3>2 DEF StartGroup, LocalsType
      <4>5. \A s \in Slots : s # NoSlot
        BY ConstantsOK DEF Slots, NoSlot
      <4>6. \A h \in Group : \A s \in Slots :
              Holds(h, s)' => \/ h = curGroup /\ s = mainSlot
                              \/ h # curGroup /\ Holds(h, s)
        BY <4>1, <4>2, <4>4
      <4> QED
        BY <4>1, <4>2, <4>3, <4>5, <4>6
    <3> QED
      BY <3>1, <3>2
  <2>4. WorkerHas'
    BY <1>6 DEF StartGroup, Select, NoSlot
  <2>5. GroupKnown'
    <3>1. \A s \in Slots : s # mainSlot => nntp'[s] = nntp[s]
      BY <1>6 DEF StartGroup, Select
    <3>2. \A s \in Slots : job[s] # "none" => s # mainSlot
      BY ConstantsOK DEF Slots, NoSlot
    <3>3. job' = job
      BY <1>6 DEF StartGroup
    <3> QED
      BY <3>1, <3>2, <3>3 DEF ArticleJobs
  <2> QED
    BY <2>1, <2>2, <2>3, <2>4, <2>5
<1>7. CASE GroupReturned
  BY <1>7 DEF GroupReturned
<1>8. CASE Drain
  BY <1>8 DEF Drain
<1>9. CASE NextGroup
  BY <1>9 DEF NextGroup
<1>10. CASE Settle
  BY <1>10 DEF Settle
<1>11. CASE Scan
  BY <1>11 DEF Scan
<1>12. CASE ChkActive
  BY <1>12 DEF ChkActive
<1>13. CASE Save
  BY <1>13 DEF Save
<1>14. CASE WaitDisc
  BY <1>14 DEF WaitDisc
<1> QED
  BY <1>1, <1>2, <1>3, <1>4, <1>5, <1>6, <1>7, <1>8, <1>9, <1>10, <1>11, <1>12, <1>13, <1>14 DEF MainNext

LEMMA SlotRoutine ==
  ASSUME IInv, NEW g \in Group, RoutineNext(g)
  PROVE  SlotInv' /\ GroupKnown'
<1> USE DEF IInv, TypeOK, SlotInv, NothingYet, MainHas, RoutineHas, WorkerHas,
            Holds, Thread, GroupKnown, RGoto, mainVars, slotVars, newsVars,
            endVars, LocalsType
<1>1. CASE RoutineBegin(g)
  BY <1>1 DEF RoutineBegin
<1>2. CASE SelectOk(g)
  <2>1. NothingYet'
    BY <1>2 DEF SelectOk, SlotType, ArticleJobs
  <2>2. MainHas'
    BY <1>2 DEF SelectOk, SlotType, ArticleJobs
  <2>3. RoutineHas'
    BY <1>2 DEF SelectOk, SlotType, ArticleJobs
  <2>4. WorkerHas'
    BY <1>2 DEF SelectOk, SlotType, ArticleJobs
  <2>5. GroupKnown'
    <3> DEFINE s == Thread(g)
    <3>1. s \in Slots => job[s] = "none" /\ nntp'[s].actGroup = g
      BY <1>2 DEF SelectOk, SlotType
    <3>2. \A r \in Slots : r # s => nntp'[r] = nntp[r] /\ job'[r] = job[r]
      BY <1>2 DEF SelectOk
    <3>3. s \in Slots => job'[s] \in {"none", "xhStart"}
      BY <1>2, <3>1 DEF SelectOk
    <3> HIDE DEF s
    <3> QED
      BY <3>1, <3>2, <3>3 DEF ArticleJobs
  <2> QED
    BY <2>1, <2>2, <2>3, <2>4, <2>5
<1>3. CASE SelectFail(g)
  BY <1>3 DEF SelectFail, SlotType
<1>4. CASE LoopExit(g)
  BY <1>4 DEF LoopExit
<1>5. CASE RoutineEnd(g)
  BY <1>5 DEF RoutineEnd
<1>6. CASE LoopTransit(g)
  <2> DEFINE s == Thread(g)
  <2>a. s \in Slots => /\ job[s] = "none" /\ mainSlot # s
                       /\ \A h \in Group : Holds(h, s) => h = g
    BY <1>6 DEF LoopTransit, MayTransit
  <2>b. /\ UNCHANGED <<mainPc, mainSlot, job, nntp, nntpSyncCall>>
        /\ \A r \in Slots : nntpS'[r] = IF r = s THEN "waiting" ELSE nntpS[r]
        /\ rpc[g] = "loop" /\ loc[g].syncCall
    BY <1>6 DEF LoopTransit, MayTransit
  <2>c. \A h \in Group : /\ h # g => rpc'[h] = rpc[h] /\ loc'[h] = loc[h]
                         /\ h = g => rpc'[h] = "pick" /\ ~loc'[h].syncCall
    BY <1>6 DEF LoopTransit
  <2>d. \A h \in Group : \A r \in Slots : Holds(h, r)' => h # g /\ Holds(h, r)
    BY <2>c
  <2> HIDE DEF s
  <2>1. NothingYet'
    BY <2>b
  <2>2. MainHas'
    BY <2>a, <2>b
  <2>3. RoutineHas'
    BY <2>a, <2>b, <2>c, <2>d
  <2>4. WorkerHas'
    BY <2>a, <2>b
  <2>5. GroupKnown'
    BY <2>b
  <2> QED
    BY <2>1, <2>2, <2>3, <2>4, <2>5
<1>7. CASE LoopBody(g)
  BY <1>7 DEF LoopBody
<1>8. CASE Pick(g)
  BY <1>8 DEF Pick
<1>9. CASE TakeAsync(g)
  BY <1>9, FirstWaitingOk DEF TakeAsync, Select, ArticleJobs, SlotType
<1>10. CASE TakeSync(g)
  BY <1>10 DEF TakeSync, Select, ArticleJobs, SlotType
<1>11. CASE ArticleDone(g)
  <2>1. NothingYet'
    BY <1>11 DEF ArticleDone
  <2>2. MainHas'
    BY <1>11 DEF ArticleDone
  <2>3. RoutineHas'
    BY <1>11 DEF ArticleDone
  <2>4. WorkerHas'
    BY <1>11 DEF ArticleDone
  <2>5. GroupKnown'
    BY <1>11 DEF ArticleDone
  <2> QED
    BY <2>1, <2>2, <2>3, <2>4, <2>5
<1>12. CASE TakeNone(g)
  BY <1>12 DEF TakeNone
<1> QED
  BY <1>1, <1>2, <1>3, <1>4, <1>5, <1>6, <1>7, <1>8, <1>9, <1>10, <1>11, <1>12 DEF RoutineNext

LEMMA SlotWorker ==
  ASSUME IInv, NEW s \in Slots, WorkerNext(s)
  PROVE  SlotInv' /\ GroupKnown'
<1> USE DEF IInv, TypeOK, SlotInv, NothingYet, MainHas, RoutineHas, WorkerHas,
            Holds, Thread, GroupKnown, JobGoto, SetS, ArticleJobs, mainVars,
            groupVars, newsVars, endVars
<1>1. CASE ConnBegin(s)
  BY <1>1 DEF ConnBegin
<1>2. CASE ConnOk(s)
  BY <1>2 DEF ConnOk, SlotType
<1>3. CASE ConnFail(s)
  BY <1>3 DEF ConnFail
<1>4. CASE NgStart(s)
  BY <1>4 DEF NgStart
<1>5. CASE NgList(s)
  BY <1>5 DEF NgList
<1>6. CASE XhStart(s)
  BY <1>6 DEF XhStart
<1>7. CASE XhBegin(s)
  BY <1>7 DEF XhBegin
<1>8. CASE XhRefused(s)
  BY <1>8 DEF XhRefused
<1>9. CASE XhLine(s)
  BY <1>9 DEF XhLine
<1>10. CASE XhEnd(s)
  BY <1>10 DEF XhEnd
<1>11. CASE ArtStart(s)
  BY <1>11 DEF ArtStart
<1>12. CASE HeadOk(s)
  BY <1>12 DEF HeadOk, SlotType
<1>13. CASE HeadNotAvail(s)
  BY <1>13 DEF HeadNotAvail, SlotType
<1>14. CASE HeadFail(s)
  BY <1>14 DEF HeadFail, SlotType
<1>15. CASE BodyOk(s)
  BY <1>15 DEF BodyOk
<1>16. CASE BodyFail(s)
  BY <1>16 DEF BodyFail
<1>17. CASE ArtWrite(s)
  BY <1>17 DEF ArtWrite
<1>18. CASE ArtMark(s)
  BY <1>18 DEF ArtMark, Finished, SlotType
<1>19. CASE ArtMissing(s)
  BY <1>19 DEF ArtMissing, Finished, SlotType
<1>20. CASE ArtNext(s)
  BY <1>20 DEF ArtNext, Finished, SlotType
<1>21. CASE ArtFail(s)
  BY <1>21 DEF ArtFail, Finished, SlotType
<1>22. CASE LinesOk(s)
  BY <1>22 DEF LinesOk
<1>23. CASE LinesCut(s)
  BY <1>23 DEF LinesCut
<1> QED
  BY <1>1, <1>2, <1>3, <1>4, <1>5, <1>6, <1>7, <1>8, <1>9, <1>10, <1>11, <1>12, <1>13, <1>14, <1>15, <1>16, <1>17, <1>18, <1>19, <1>20,
     <1>21, <1>22, <1>23 DEF WorkerNext

LEMMA SlotOthers ==
  ASSUME IInv,
         UserInterrupt \/ CheckTransfer \/ SigClose \/ SigSave \/ Disconnect \/ \E s \in Slots : LinkBreak(s)
  PROVE  SlotInv' /\ GroupKnown'
<1> USE DEF IInv, TypeOK, SlotInv, NothingYet, MainHas, RoutineHas, WorkerHas,
            Holds, Thread, GroupKnown, slotVars, groupVars, newsVars
<1>1. CASE UserInterrupt \/ CheckTransfer
  BY <1>1 DEF UserInterrupt, CheckTransfer, Sigint
<1>2. CASE SigClose
  BY <1>2 DEF SigClose, MainGoto
<1>3. CASE SigSave
  BY <1>3 DEF SigSave, MainGoto
<1>4. CASE Disconnect
  BY <1>4 DEF Disconnect, endVars
<1>5. CASE \E s \in Slots : LinkBreak(s)
  BY <1>5 DEF LinkBreak, mainVars, endVars, SlotType
<1> QED
  BY <1>1, <1>2, <1>3, <1>4, <1>5

LEMMA SlotStutter == IInv /\ UNCHANGED vars => SlotInv' /\ GroupKnown'
  BY DEF IInv, SlotInv, NothingYet, MainHas, RoutineHas, WorkerHas, Holds, Thread,
         GroupKnown, vars, mainVars, slotVars, groupVars

LEMMA IInvNext == IInv /\ [Next]_vars => IInv'
<1> SUFFICES ASSUME IInv, [Next]_vars PROVE IInv'
  OBVIOUS
<1>1. TypeOK'
  BY TypeNext DEF IInv
<1>2. SlotInv' /\ GroupKnown'
  <2>1. CASE MainNext
    BY <2>1, SlotMain
  <2>2. ASSUME NEW g \in Group, GroupNext(g) PROVE SlotInv' /\ GroupKnown'
    BY <2>2, SlotRoutine DEF GroupNext
  <2>3. ASSUME NEW s \in Slots, SlotNext(s) PROVE SlotInv' /\ GroupKnown'
    BY <2>3, SlotWorker DEF SlotNext
  <2>4. CASE \/ UserInterrupt \/ CheckTransfer \/ SigClose \/ SigSave \/ Disconnect
             \/ \E s \in Slots : LinkBreak(s)
    BY <2>4, SlotOthers
  <2>5. CASE UNCHANGED vars
    BY <2>5, SlotStutter
  <2> QED
    BY <2>1, <2>2, <2>3, <2>4, <2>5 DEF Next
<1> QED
  BY <1>1, <1>2 DEF IInv

LEMMA IInvAlways == Spec => []IInv
<1>1. Init => IInv
  BY TypeInit, SlotInvInit DEF IInv
<1> QED
  BY <1>1, IInvNext, PTL DEF Spec

\* The types of the declarations in news.cc and nntpcl.hh are kept by every
\* step of the session, its threads and its signal handler.
THEOREM TypeCorrect == Spec => []TypeOK
<1>1. IInv => TypeOK
  BY DEF IInv
<1> QED
  BY <1>1, IInvAlways, PTL

\* nntpS[] works as a lock: although most assignments to it are made without
\* blockThread(), no connection ever has two users, whatever the number of
\* connections and groups, the strategy and the faults.
THEOREM SlotsExclusive == Spec => []SlotExclusive
<1>1. IInv => SlotExclusive
  BY SlotInvExclusive DEF IInv
<1> QED
  BY <1>1, IInvAlways, PTL
-----------------------------------------------------------------------------
(* A failed connection, with strategies 0 and 1.                             *)

\* Without strategy 2 there are no synchronous routines, and a slot that is held
\* has not failed since it was handed out.
NoSync ==
  Strategy # 2 =>
    /\ \A g \in Group : ~loc[g].syncCall
    /\ \A s \in Slots : ~nntpSyncCall[s]
    /\ \A s \in Slots : mainSlot = s => nntpS[s] # "failed"
    /\ \A g \in Group : \A s \in Slots : Holds(g, s) => nntpS[s] # "failed"

LEMMA NoSyncInit == Init => NoSync
  BY DEF Init, NoSync, Holds

LEMMA NoSyncMain == IInv /\ NoSync /\ MainNext => NoSync'
<1> SUFFICES ASSUME IInv, NoSync, MainNext, Strategy # 2 PROVE NoSync'
  BY DEF NoSync
<1> USE DEF IInv, TypeOK, SlotInv, NothingYet, MainHas, RoutineHas, WorkerHas,
            Holds, Thread, NoSync, MainGoto, slotVars, groupVars
<1>1. CASE StartConnect
  BY <1>1 DEF StartConnect
<1>2. CASE WaitConnect
  BY <1>2 DEF WaitConnect
<1>3. CASE StartNewGroups
  BY <1>3, FirstWaitingOk DEF StartNewGroups
<1>4. CASE WaitOne
  BY <1>4 DEF WaitOne
<1>5. CASE GetSlot
  BY <1>5, FirstWaitingOk DEF GetSlot
<1>6. CASE StartGroup
  <2>1. CASE Enough
    BY <1>6, <2>1 DEF StartGroup
  <2>2. CASE ~Enough
    <3>1. /\ UNCHANGED nntpS /\ mainSlot' = NoSlot
          /\ rpc' = [rpc EXCEPT ![curGroup] = "begun"]
          /\ \A s \in Slots : s # NoSlot
      BY <1>6, <2>2, ConstantsOK DEF StartGroup, Slots, NoSlot
    <3>2. \A h \in Group : /\ h # curGroup => loc'[h] = loc[h]
                           /\ ~loc'[h].syncCall
      BY <1>6, <2>2 DEF StartGroup, LocalsType
    <3>3. curGroup \in Group => loc'[curGroup].thread = mainSlot
      BY <1>6, <2>2 DEF StartGroup, LocalsType
    <3>4. \A s \in Slots : ~nntpSyncCall'[s]
      BY <1>6, <2>2 DEF StartGroup
    <3>5. \A h \in Group : \A s \in Slots :
            Holds(h, s)' => s = mainSlot \/ Holds(h, s)
      BY <3>1, <3>2, <3>3
    <3> QED
      BY <3>1, <3>2, <3>4, <3>5
  <2> QED
    BY <2>1, <2>2
<1>7. CASE GroupReturned
  BY <1>7 DEF GroupReturned
<1>8. CASE Drain
  BY <1>8 DEF Drain
<1>9. CASE NextGroup
  BY <1>9 DEF NextGroup
<1>10. CASE Settle
  BY <1>10 DEF Settle
<1>11. CASE Scan
  BY <1>11 DEF Scan
<1>12. CASE ChkActive
  BY <1>12 DEF ChkActive
<1>13. CASE Save
  BY <1>13 DEF Save
<1>14. CASE WaitDisc
  BY <1>14 DEF WaitDisc
<1> QED
  BY <1>1, <1>2, <1>3, <1>4, <1>5, <1>6, <1>7, <1>8, <1>9, <1>10, <1>11, <1>12, <1>13, <1>14 DEF MainNext

LEMMA NoSyncRoutine ==
  ASSUME IInv, NoSync, NEW g \in Group, RoutineNext(g)
  PROVE  NoSync'
<1> SUFFICES ASSUME Strategy # 2 PROVE NoSync'
  BY DEF NoSync
<1> USE DEF IInv, TypeOK, SlotInv, RoutineHas, Holds, Thread, NoSync, RGoto,
            mainVars, slotVars, LocalsType
<1>1. CASE RoutineBegin(g)
  BY <1>1 DEF RoutineBegin
<1>2. CASE SelectOk(g)
  <2>1. /\ UNCHANGED <<nntpS, nntpSyncCall, mainSlot>>
        /\ rpc' = [rpc EXCEPT ![g] = "loop"]
    BY <1>2 DEF SelectOk
  <2>2. \A h \in Group : /\ loc'[h].syncCall = loc[h].syncCall
                         /\ loc'[h].thread = loc[h].thread
    BY <1>2 DEF SelectOk
  <2>3. \A h \in Group : \A s \in Slots : Holds(h, s)' => Holds(h, s)
    BY <2>1, <2>2
  <2> QED
    BY <2>1, <2>2, <2>3
<1>3. CASE SelectFail(g)
  BY <1>3 DEF SelectFail
<1>4. CASE LoopExit(g)
  BY <1>4 DEF LoopExit
<1>5. CASE RoutineEnd(g)
  BY <1>5 DEF RoutineEnd
<1>6. CASE LoopTransit(g)
  BY <1>6 DEF LoopTransit
<1>7. CASE LoopBody(g)
  BY <1>7 DEF LoopBody
<1>8. CASE Pick(g)
  BY <1>8 DEF Pick
<1>9. CASE TakeAsync(g)
  BY <1>9, FirstWaitingOk DEF TakeAsync
<1>10. CASE TakeSync(g)
  BY <1>10 DEF TakeSync
<1>11. CASE ArticleDone(g)
  BY <1>11 DEF ArticleDone
<1>12. CASE TakeNone(g)
  BY <1>12 DEF TakeNone
<1> QED
  BY <1>1, <1>2, <1>3, <1>4, <1>5, <1>6, <1>7, <1>8, <1>9, <1>10, <1>11, <1>12 DEF RoutineNext

LEMMA NoSyncWorker ==
  ASSUME IInv, NoSync, NEW s \in Slots, WorkerNext(s)
  PROVE  NoSync'
<1> SUFFICES ASSUME Strategy # 2 PROVE NoSync'
  BY DEF NoSync
<1> USE DEF IInv, TypeOK, SlotInv, MainHas, RoutineHas, Holds, Thread, NoSync,
            JobGoto, SetS, mainVars, groupVars
<1>1. CASE ConnBegin(s)
  BY <1>1 DEF ConnBegin
<1>2. CASE ConnOk(s)
  BY <1>2 DEF ConnOk
<1>3. CASE ConnFail(s)
  <2>1. s # NoSlot
    BY ConstantsOK DEF Slots, NoSlot
  <2> QED
    BY <1>3, <2>1 DEF ConnFail, ArticleJobs
<1>4. CASE NgStart(s)
  BY <1>4 DEF NgStart
<1>5. CASE NgList(s)
  BY <1>5 DEF NgList
<1>6. CASE XhStart(s)
  BY <1>6 DEF XhStart
<1>7. CASE XhBegin(s)
  BY <1>7 DEF XhBegin
<1>8. CASE XhRefused(s)
  BY <1>8 DEF XhRefused
<1>9. CASE XhLine(s)
  BY <1>9 DEF XhLine
<1>10. CASE XhEnd(s)
  BY <1>10 DEF XhEnd
<1>11. CASE ArtStart(s)
  BY <1>11 DEF ArtStart
<1>12. CASE HeadOk(s)
  BY <1>12 DEF HeadOk
<1>13. CASE HeadNotAvail(s)
  BY <1>13 DEF HeadNotAvail
<1>14. CASE HeadFail(s)
  BY <1>14 DEF HeadFail
<1>15. CASE BodyOk(s)
  BY <1>15 DEF BodyOk
<1>16. CASE BodyFail(s)
  BY <1>16 DEF BodyFail
<1>17. CASE ArtWrite(s)
  BY <1>17 DEF ArtWrite
<1>18. CASE ArtMark(s)
  BY <1>18 DEF ArtMark, Finished
<1>19. CASE ArtMissing(s)
  BY <1>19 DEF ArtMissing, Finished
<1>20. CASE ArtNext(s)
  BY <1>20 DEF ArtNext, Finished
<1>21. CASE ArtFail(s)
  BY <1>21, ConstantsOK DEF ArtFail, Finished, Slots, NoSlot
<1>22. CASE LinesOk(s)
  BY <1>22 DEF LinesOk
<1>23. CASE LinesCut(s)
  BY <1>23 DEF LinesCut
<1> QED
  BY <1>1, <1>2, <1>3, <1>4, <1>5, <1>6, <1>7, <1>8, <1>9, <1>10, <1>11, <1>12, <1>13, <1>14, <1>15, <1>16, <1>17, <1>18, <1>19, <1>20,
     <1>21, <1>22, <1>23 DEF WorkerNext

LEMMA NoSyncNext == IInv /\ NoSync /\ [Next]_vars => NoSync'
<1> SUFFICES ASSUME IInv, NoSync, [Next]_vars PROVE NoSync'
  OBVIOUS
<1>1. CASE MainNext
  BY <1>1, NoSyncMain
<1>2. ASSUME NEW g \in Group, GroupNext(g) PROVE NoSync'
  BY <1>2, NoSyncRoutine DEF GroupNext
<1>3. ASSUME NEW s \in Slots, SlotNext(s) PROVE NoSync'
  BY <1>3, NoSyncWorker DEF SlotNext
<1>4. CASE UserInterrupt \/ CheckTransfer \/ SigClose \/ SigSave
  BY <1>4 DEF UserInterrupt, CheckTransfer, Sigint, SigClose, SigSave, NoSync, Holds, Thread, slotVars, groupVars
<1>5. CASE Disconnect
  BY <1>5 DEF Disconnect, NoSync, Holds, Thread, groupVars, IInv, TypeOK
<1>6. CASE \E s \in Slots : LinkBreak(s)
  BY <1>6 DEF LinkBreak, NoSync, Holds, Thread, groupVars, mainVars
<1>7. CASE UNCHANGED vars
  BY <1>7 DEF vars, NoSync, Holds, Thread, groupVars, mainVars, slotVars
<1> QED
  BY <1>1, <1>2, <1>3, <1>4, <1>5, <1>6, <1>7 DEF Next

\* No step touches the state of a failed slot nobody works on, except that the
\* disconnect thread resets it.
FailedKept ==
  \A s \in Slots : (nntpS[s] = "failed" /\ job[s] = "none")
                     => nntpS'[s] \in {"failed", "init"}

LEMMA FailedKeptMain == IInv /\ MainNext => FailedKept
  BY FirstWaitingOk
     DEF IInv, TypeOK, FailedKept, MainNext, StartConnect, WaitConnect,
         StartNewGroups, WaitOne, GetSlot, StartGroup, GroupReturned, Drain,
         NextGroup, Settle, Scan, ChkActive, Save, WaitDisc, slotVars

LEMMA FailedKeptRoutine ==
  ASSUME IInv, NoSync, Strategy # 2, NEW g \in Group, RoutineNext(g)
  PROVE  FailedKept
<1> USE DEF IInv, TypeOK, FailedKept, NoSync, Holds, Thread, slotVars
<1>1. CASE SelectFail(g)
  BY <1>1 DEF SelectFail
<1>2. CASE LoopExit(g) \/ LoopTransit(g) \/ TakeSync(g)
  BY <1>2 DEF LoopExit, LoopTransit, MayTransit, TakeSync
<1>3. CASE TakeAsync(g)
  BY <1>3, FirstWaitingOk DEF TakeAsync
<1>4. CASE \/ RoutineBegin(g) \/ SelectOk(g) \/ RoutineEnd(g) \/ LoopBody(g)
           \/ Pick(g) \/ ArticleDone(g) \/ TakeNone(g)
  BY <1>4 DEF RoutineBegin, SelectOk, RoutineEnd, LoopBody, Pick, ArticleDone, TakeNone
<1> QED
  BY <1>1, <1>2, <1>3, <1>4 DEF RoutineNext

LEMMA FailedKeptWorker ==
  ASSUME IInv, NEW s \in Slots, WorkerNext(s)
  PROVE  FailedKept
<1> USE DEF IInv, TypeOK, FailedKept, JobGoto, SetS
<1>1. CASE ConnBegin(s)
  BY <1>1 DEF ConnBegin
<1>2. CASE ConnOk(s)
  BY <1>2 DEF ConnOk
<1>3. CASE ConnFail(s)
  BY <1>3 DEF ConnFail
<1>4. CASE NgStart(s)
  BY <1>4 DEF NgStart
<1>5. CASE NgList(s)
  BY <1>5 DEF NgList
<1>6. CASE XhStart(s)
  BY <1>6 DEF XhStart
<1>7. CASE XhBegin(s)
  BY <1>7 DEF XhBegin
<1>8. CASE XhRefused(s)
  BY <1>8 DEF XhRefused
<1>9. CASE XhLine(s)
  BY <1>9 DEF XhLine
<1>10. CASE XhEnd(s)
  BY <1>10 DEF XhEnd
<1>11. CASE ArtStart(s)
  BY <1>11 DEF ArtStart
<1>12. CASE HeadOk(s)
  BY <1>12 DEF HeadOk
<1>13. CASE HeadNotAvail(s)
  BY <1>13 DEF HeadNotAvail
<1>14. CASE HeadFail(s)
  BY <1>14 DEF HeadFail
<1>15. CASE BodyOk(s)
  BY <1>15 DEF BodyOk
<1>16. CASE BodyFail(s)
  BY <1>16 DEF BodyFail
<1>17. CASE ArtWrite(s)
  BY <1>17 DEF ArtWrite
<1>18. CASE ArtMark(s)
  BY <1>18 DEF ArtMark, Finished
<1>19. CASE ArtMissing(s)
  BY <1>19 DEF ArtMissing, Finished
<1>20. CASE ArtNext(s)
  BY <1>20 DEF ArtNext, Finished
<1>21. CASE ArtFail(s)
  BY <1>21 DEF ArtFail, Finished
<1>22. CASE LinesOk(s)
  BY <1>22 DEF LinesOk
<1>23. CASE LinesCut(s)
  BY <1>23 DEF LinesCut
<1> QED
  BY <1>1, <1>2, <1>3, <1>4, <1>5, <1>6, <1>7, <1>8, <1>9, <1>10, <1>11, <1>12, <1>13, <1>14, <1>15, <1>16, <1>17, <1>18, <1>19, <1>20,
     <1>21, <1>22, <1>23 DEF WorkerNext

\* A connection whose article transfer failed is left to die: with strategies 0
\* and 1 no step of any thread brings it back into use.
THEOREM FailedStays == ASSUME Strategy # 2 PROVE Spec => FailedStaysFailed
<1>1. IInv /\ NoSync /\ [Next]_vars => [FailedKept]_vars
  <2> SUFFICES ASSUME IInv, NoSync, Next PROVE FailedKept
    OBVIOUS
  <2>1. CASE MainNext
    BY <2>1, FailedKeptMain
  <2>2. ASSUME NEW g \in Group, GroupNext(g) PROVE FailedKept
    BY <2>2, FailedKeptRoutine DEF GroupNext
  <2>3. ASSUME NEW s \in Slots, SlotNext(s) PROVE FailedKept
    BY <2>3, FailedKeptWorker DEF SlotNext
  <2>4. CASE \/ UserInterrupt \/ CheckTransfer \/ SigClose \/ SigSave \/ Disconnect
             \/ \E s \in Slots : LinkBreak(s)
    BY <2>4 DEF IInv, TypeOK, FailedKept, UserInterrupt, CheckTransfer,
                Sigint, SigClose, SigSave, Disconnect,
                LinkBreak, slotVars
  <2> QED
    BY <2>1, <2>2, <2>3, <2>4 DEF Next
<1>2. Spec => []NoSync
  <2>1. Spec => []IInv
    BY IInvAlways
  <2> QED
    BY <2>1, NoSyncInit, NoSyncNext, PTL DEF Spec
<1>3. [][FailedKept]_vars => FailedStaysFailed
  BY PTL DEF FailedStaysFailed, FailedKept
<1> QED
  BY <1>1, <1>2, <1>3, IInvAlways, PTL DEF Spec
-----------------------------------------------------------------------------
(* What a step does to the article workers.                                  *)

Fetching(s) == job[s] \in ArticleJobs

\* No article worker is started.
JobsKept ==
  \A s \in Slots : Fetching(s)' =>
    /\ Fetching(s)
    /\ nntp'[s].selGroup = nntp[s].selGroup /\ nntp'[s].selArticle = nntp[s].selArticle

\* A worker at an article counts as running for nntpMtAnyRunning().
StatesKept ==
  \A s \in Slots : Fetching(s)' => nntpS'[s] = nntpS[s] \/ nntpS'[s] = "running"

MarksKept == \A g \in Group : read[g] \subseteq read'[g]

LEMMA MarkKeeps ==
  ASSUME TypeOK, NEW P, Mark(P)
  PROVE  MarksKept
  BY DEF MarksKept, Mark, TypeOK

LEMMA WorkerKeeps ==
  ASSUME IInv, NEW s \in Slots, WorkerNext(s)
  PROVE  /\ JobsKept /\ StatesKept
         /\ UNCHANGED <<mainVars, groupVars>>
<1> USE DEF IInv, TypeOK, JobsKept, StatesKept, Fetching, JobGoto, SetS, ArticleJobs,
            mainVars, groupVars
<1>1. CASE ConnBegin(s) \/ ConnOk(s) \/ ConnFail(s)
  BY <1>1 DEF ConnBegin, ConnOk, ConnFail
<1>2. CASE NgStart(s) \/ NgList(s)
  BY <1>2 DEF NgStart, NgList
<1>3. CASE XhStart(s) \/ XhBegin(s) \/ XhRefused(s)
  BY <1>3 DEF XhStart, XhBegin, XhRefused
<1>4. CASE XhLine(s) \/ XhEnd(s)
  BY <1>4 DEF XhLine, XhEnd
<1>5. CASE ArtStart(s) \/ BodyOk(s) \/ BodyFail(s) \/ ArtWrite(s)
  BY <1>5 DEF ArtStart, BodyOk, BodyFail, ArtWrite
<1>6. CASE HeadOk(s)
  BY <1>6 DEF HeadOk, SlotType
<1>7. CASE HeadNotAvail(s)
  BY <1>7 DEF HeadNotAvail, SlotType
<1>8. CASE HeadFail(s)
  BY <1>8 DEF HeadFail, SlotType
<1>9. CASE LinesOk(s) \/ LinesCut(s)
  BY <1>9 DEF LinesOk, LinesCut
<1>10. CASE ArtMark(s)
  BY <1>10 DEF ArtMark, Finished, SlotType
<1>11. CASE ArtMissing(s)
  BY <1>11 DEF ArtMissing, Finished, SlotType
<1>12. CASE ArtNext(s)
  BY <1>12 DEF ArtNext, Finished, SlotType
<1>13. CASE ArtFail(s)
  BY <1>13 DEF ArtFail, Finished, SlotType
<1> QED
  BY <1>1, <1>2, <1>3, <1>4, <1>5, <1>6, <1>7, <1>8, <1>9, <1>10, <1>11, <1>12, <1>13
     DEF WorkerNext

LEMMA WorkerMarks ==
  ASSUME TypeOK, NEW s \in Slots, WorkerNext(s)
  PROVE  MarksKept
<1>1. (\E P : Mark(P)) \/ UNCHANGED read
  BY DEF WorkerNext, ConnBegin, ConnOk, ConnFail, NgStart, NgList, XhStart, XhBegin, XhRefused,
    XhLine, XhEnd, ArtStart, HeadOk, HeadNotAvail, HeadFail, LinesOk, LinesCut, BodyOk, BodyFail,
    ArtWrite, ArtMark, ArtMissing, ArtNext, ArtFail, newsVars
<1> QED
  BY <1>1, MarkKeeps DEF MarksKept

\* The main thread, the disconnect thread, the connections and the signals.
LEMMA MainKeeps ==
  ASSUME IInv, MainNext
  PROVE  /\ JobsKept /\ StatesKept /\ UNCHANGED <<read, syncTransSema>>
         /\ ~ StartGroup => UNCHANGED <<rpc, loc>>
<1> USE DEF IInv, TypeOK, JobsKept, StatesKept, Fetching, SlotInv, MainHas, WorkerHas,
            NothingYet, slotVars, groupVars, newsVars, MainGoto
<1>1. CASE StartConnect
  BY <1>1 DEF StartConnect, ArticleJobs
<1>2. CASE StartNewGroups
  BY <1>2, FirstWaitingOk DEF StartNewGroups, ArticleJobs
<1>3. CASE GetSlot
  BY <1>3, FirstWaitingOk DEF GetSlot, ArticleJobs
<1>4. CASE StartGroup
  <2>1. UNCHANGED <<nntpS, job, read, syncTransSema>>
    BY <1>4 DEF StartGroup
  <2>2. \A s \in Slots : s # mainSlot => nntp'[s] = nntp[s]
    BY <1>4 DEF StartGroup, Select
  <2>3. \A s \in Slots : job[s] # "none" => s # mainSlot
    BY ConstantsOK DEF Slots, NoSlot
  <2> QED
    BY <1>4, <2>1, <2>2, <2>3 DEF ArticleJobs
<1>5. CASE WaitConnect \/ WaitOne \/ GroupReturned \/ Drain \/ NextGroup \/ Settle \/ Scan
           \/ ChkActive \/ Save \/ WaitDisc
  BY <1>5 DEF WaitConnect, WaitOne, GroupReturned, Drain, NextGroup, Settle, Scan, ChkActive,
    Save, WaitDisc
<1> QED
  BY <1>1, <1>2, <1>3, <1>4, <1>5 DEF MainNext

LEMMA OthersKeep ==
  ASSUME IInv,
         \/ UserInterrupt \/ CheckTransfer \/ SigClose \/ SigSave \/ Disconnect
         \/ \E s \in Slots : LinkBreak(s)
         \/ UNCHANGED vars
  PROVE  /\ JobsKept /\ UNCHANGED <<rpc, loc, read, syncTransSema, curGroup>>
         /\ mainPc' = mainPc \/ mainPc' \in Handler \cup Final
<1> USE DEF IInv, TypeOK, JobsKept, Fetching, slotVars, groupVars, newsVars
<1>1. CASE UserInterrupt \/ CheckTransfer
  BY <1>1 DEF UserInterrupt, CheckTransfer, Sigint, Handler
<1>2. CASE SigClose \/ SigSave
  BY <1>2 DEF SigClose, SigSave, MainGoto, Handler, Final
<1>3. CASE Disconnect
  BY <1>3 DEF Disconnect, SlotType
<1>4. CASE \E s \in Slots : LinkBreak(s)
  BY <1>4 DEF LinkBreak, mainVars, SlotType
<1>5. CASE UNCHANGED vars
  BY <1>5 DEF vars, mainVars
<1> QED
  BY <1>1, <1>2, <1>3, <1>4, <1>5
-----------------------------------------------------------------------------
(* One routine works asynchronously.                                         *)

Transition ==
  Strategy = 2 => \A g \in Group :
    /\ rpc[g] \in {"loop", "pick", "take"} /\ ~loc[g].syncCall => syncTransSema = g
    /\ rpc[g] \in {"begun", "select", "inArticle"} => loc[g].syncCall

LEMMA TransitionMain == IInv /\ Transition /\ MainNext => Transition'
<1> SUFFICES ASSUME IInv, Transition, MainNext, Strategy = 2 PROVE Transition'
  BY DEF Transition
<1>1. CASE StartGroup /\ ~Enough
  <2>1. /\ rpc' = [rpc EXCEPT ![curGroup] = "begun"] /\ UNCHANGED syncTransSema
        /\ loc' = [loc EXCEPT ![curGroup].thread = mainSlot, ![curGroup].syncCall = TRUE]
    BY <1>1 DEF StartGroup
  <2>2. curGroup \in Group => loc'[curGroup].syncCall
    BY <2>1 DEF IInv, TypeOK, LocalsType
  <2> QED
    BY <2>1, <2>2 DEF Transition, IInv, TypeOK
<1>2. CASE StartGroup /\ Enough
  BY <1>2 DEF StartGroup, Transition
<1>3. CASE ~StartGroup
  BY <1>3, MainKeeps DEF Transition
<1> QED
  BY <1>1, <1>2, <1>3

LEMMA TransitionRoutine ==
  ASSUME IInv, Transition, NEW g \in Group, RoutineNext(g)
  PROVE  Transition'
<1> USE DEF IInv, TypeOK, Transition, RGoto, LocalsType, groupVars
<1>1. CASE RoutineBegin(g) \/ SelectFail(g) \/ RoutineEnd(g)
  BY <1>1 DEF RoutineBegin, SelectFail, RoutineEnd
<1>2. CASE SelectOk(g)
  BY <1>2 DEF SelectOk
<1>3. CASE LoopExit(g)
  BY <1>3 DEF LoopExit
<1>4. CASE LoopTransit(g)
  BY <1>4, NoGroup \notin Group DEF LoopTransit, MayTransit, NoGroup, Group
<1>5. CASE LoopBody(g)
  BY <1>5 DEF LoopBody
<1>6. CASE Pick(g)
  BY <1>6 DEF Pick
<1>7. CASE TakeAsync(g)
  BY <1>7 DEF TakeAsync
<1>8. CASE TakeSync(g)
  BY <1>8 DEF TakeSync
<1>9. CASE ArticleDone(g) \/ TakeNone(g)
  BY <1>9 DEF ArticleDone, TakeNone
<1> QED
  BY <1>1, <1>2, <1>3, <1>4, <1>5, <1>6, <1>7, <1>8, <1>9 DEF RoutineNext

\* With strategy 2, whatever the routines do at once: one that has given its own
\* connection up and takes any that is waiting owns syncTransSema, so that there
\* is one at most (news.cc 1206-1218).
THEOREM OneAtTransition == Spec => []OneTransition
<1>1. Init => Transition
  BY DEF Init, Transition
<1>2. IInv /\ Transition /\ [Next]_vars => Transition'
  <2> SUFFICES ASSUME IInv, Transition, [Next]_vars PROVE Transition'
    OBVIOUS
  <2>1. ASSUME NEW s \in Slots, WorkerNext(s) PROVE Transition'
    BY <2>1, WorkerKeeps DEF Transition, groupVars
  <2>2. CASE \/ UserInterrupt \/ CheckTransfer \/ SigClose \/ SigSave \/ Disconnect
             \/ \E s \in Slots : LinkBreak(s)
             \/ UNCHANGED vars
    BY <2>2, OthersKeep DEF Transition
  <2> QED
    BY <2>1, <2>2, TransitionMain, TransitionRoutine DEF Next, GroupNext, SlotNext
<1>3. Transition => OneTransition
  BY DEF Transition, OneTransition
<1> QED
  BY <1>1, <1>2, <1>3, IInvAlways, PTL DEF Spec
-----------------------------------------------------------------------------
(* Each group has its routine once, and each number is requested once.       *)

\* The routine of a group has not been started before the main thread comes to it.
Before == {"connect", "waitConnect", "newGroups", "waitOne", "getSlot", "gotSlot"}
During == {"inGroup", "drain", "afterGroup"}

Fresh ==
  \A g \in Group : \/ mainPc \in Before /\ g >= curGroup
                   \/ mainPc \in During /\ g > curGroup
                   => rpc[g] = "none"

\* An article that waits for a slot is one of the group, or, at the byte limit,
\* the number behind its last.
Pending ==
  \A g \in Group :
    /\ ~loc[g].artRequested => loc[g].artNum <= GroupHi[g] + 1
    /\ rpc[g] = "inArticle" => ~loc[g].artRequested

\* The routine has passed the number, or waits for its article, or has nothing
\* left to request.
Requested(s, g, n) ==
  \/ n < loc[g].artNum
  \/ n = loc[g].artNum /\ rpc[g] = "inArticle" /\ Thread(g) = s
  \/ n = loc[g].artNum /\ n > GroupHi[g] /\ loc[g].artRequested

InOrder(s) ==
  /\ rpc[nntp[s].selGroup] \notin {"none", "begun", "select"}
  /\ nntp[s].selArticle <= GroupHi[nntp[s].selGroup] + 1
  /\ Requested(s, nntp[s].selGroup, nntp[s].selArticle)

Requests == \A s \in Slots : Fetching(s) => InOrder(s)

RequestInv == IInv /\ Fresh /\ Pending /\ Requests /\ NoDuplicateFetch

LEMMA KeepNoDuplicate == ASSUME NoDuplicateFetch, JobsKept PROVE NoDuplicateFetch'
  BY DEF NoDuplicateFetch, JobsKept, Fetching, Art

\* A step that starts no article worker and leaves the requests alone.
LEMMA KeepRequests ==
  ASSUME RequestInv, JobsKept, \A h \in Group : rpc'[h] = rpc[h] /\ loc'[h] = loc[h]
  PROVE  Pending' /\ Requests' /\ NoDuplicateFetch'
<1>1. \A s \in Slots : Fetching(s) => nntp[s].selGroup \in Group
  BY DEF RequestInv, IInv, GroupKnown, Fetching
<1> QED
  BY <1>1, KeepNoDuplicate DEF RequestInv, Pending, Requests, InOrder, Requested, JobsKept,
     Fetching, Thread

\* A step of the routine of group g that starts no worker.
LEMMA RoutineRequests ==
  ASSUME RequestInv, JobsKept, NEW g \in Group,
         \A h \in Group : h # g => rpc'[h] = rpc[h] /\ loc'[h] = loc[h],
         ~loc'[g].artRequested => loc'[g].artNum <= GroupHi[g] + 1,
         rpc'[g] = "inArticle" => ~loc'[g].artRequested,
         \A s \in Slots : Fetching(s)' /\ nntp[s].selGroup = g =>
           /\ rpc'[g] \notin {"none", "begun", "select"}
           /\ Requested(s, g, nntp[s].selArticle)'
  PROVE  Pending' /\ Requests' /\ NoDuplicateFetch'
<1>1. Pending'
  BY DEF RequestInv, Pending
<1>2. Requests'
  <2> SUFFICES ASSUME NEW s \in Slots, Fetching(s)' PROVE InOrder(s)'
    BY DEF Requests
  <2>1. /\ Fetching(s) /\ nntp'[s].selGroup = nntp[s].selGroup
        /\ nntp'[s].selArticle = nntp[s].selArticle /\ nntp[s].selGroup \in Group
    BY DEF JobsKept, RequestInv, IInv, GroupKnown, Fetching
  <2>2. InOrder(s)
    BY <2>1 DEF RequestInv, Requests
  <2>3. CASE nntp[s].selGroup = g
    BY <2>1, <2>2, <2>3 DEF InOrder, Requested
  <2>4. CASE nntp[s].selGroup # g
    BY <2>1, <2>2, <2>4 DEF InOrder, Requested, Thread
  <2> QED
    BY <2>3, <2>4
<1> QED
  BY <1>1, <1>2, KeepNoDuplicate DEF RequestInv

\* The types the steps of a routine rely on.
LEMMA RoutineTypes ==
  ASSUME IInv, NEW g \in Group
  PROVE  /\ loc[g].artNum \in Nat /\ loc[g].artRequested \in BOOLEAN
         /\ loc[g].thread \in Slots \cup {NoSlot}
         /\ GroupHi[g] \in Nat /\ GroupLo[g] \in Nat
         /\ \A s \in Slots : nntp[s].selArticle \in Int
  BY ConstantsOK DEF IInv, TypeOK, LocalsType, SlotType

LEMMA EnoughArtEffect ==
  ASSUME NEW g \in Group, NEW n \in Nat
  PROVE  EnoughArt(g, n) = n \/ EnoughArt(g, n) = GroupHi[g] + 1
  BY DEF EnoughArt

LEMMA NextUnreadEffect ==
  ASSUME NEW S, NEW lo \in Nat, NEW hi \in Nat
  PROVE  /\ NextUnread(S, lo, hi) \in Nat /\ NextUnread(S, lo, hi) >= lo
         /\ lo > hi => NextUnread(S, lo, hi) = lo
<1>1. CASE \E n \in lo .. hi : n \notin S
  <2> DEFINE U == {n \in lo .. hi : n \notin S}
  <2>1. U \subseteq Nat /\ U # {}
    BY <1>1
  <2>2. SetMin(U) \in U
    BY <2>1, SetMinInSet
  <2> QED
    BY <1>1, <2>2 DEF NextUnread
<1>2. CASE ~\E n \in lo .. hi : n \notin S
  BY <1>2 DEF NextUnread
<1> QED
  BY <1>1, <1>2

\* The steps of a routine but for those that start an article worker.
LEMMA RoutineKeeps ==
  ASSUME IInv, NEW g \in Group, RoutineNext(g), ~TakeAsync(g), ~TakeSync(g)
  PROVE  JobsKept
<1>1. CASE SelectOk(g)
  <2> DEFINE s == Thread(g)
  <2>1. s \in Slots => job[s] = "none"
    BY <1>1 DEF SelectOk, IInv, SlotInv, RoutineHas, Holds
  <2>2. \A r \in Slots : r # s => job'[r] = job[r] /\ nntp'[r] = nntp[r]
    BY <1>1 DEF SelectOk, IInv, TypeOK
  <2>3. s \in Slots => job'[s] \in {"none", "xhStart"}
    BY <1>1, <2>1 DEF SelectOk, IInv, TypeOK
  <2> HIDE DEF s
  <2> QED
    BY <2>2, <2>3 DEF JobsKept, Fetching, ArticleJobs
<1>2. CASE SelectFail(g)
  BY <1>2 DEF SelectFail, JobsKept, Fetching, IInv, TypeOK, SlotType
<1>3. CASE ~SelectOk(g) /\ ~SelectFail(g)
  BY <1>3 DEF RoutineNext, RoutineBegin, LoopExit, RoutineEnd, LoopTransit, LoopBody, Pick,
    ArticleDone, TakeNone, slotVars, JobsKept, Fetching
<1> QED
  BY <1>1, <1>2, <1>3

\* No number of a group is requested before its routine has selected it.
LEMMA NotYetRequested ==
  ASSUME RequestInv, NEW g \in Group, rpc[g] \in {"none", "begun", "select"},
         NEW s \in Slots, Fetching(s)
  PROVE  nntp[s].selGroup # g
  BY DEF RequestInv, Requests, InOrder

LEMMA RequestsBegin ==
  ASSUME RequestInv, NEW g \in Group, JobsKept,
         RoutineBegin(g) \/ SelectOk(g) \/ SelectFail(g)
  PROVE  Pending' /\ Requests' /\ NoDuplicateFetch'
<1>1. \A h \in Group : h # g => rpc'[h] = rpc[h] /\ loc'[h] = loc[h]
  BY DEF RoutineBegin, SelectOk, SelectFail, RGoto, RequestInv, IInv, TypeOK
<1>2. rpc[g] \in {"begun", "select"} /\ rpc'[g] # "inArticle"
  BY DEF RoutineBegin, SelectOk, SelectFail, RGoto, RequestInv, IInv, TypeOK
<1>3. ~loc'[g].artRequested => loc'[g].artNum <= GroupHi[g] + 1
  <2>1. CASE SelectOk(g)
    BY <2>1 DEF SelectOk, RequestInv, IInv, TypeOK, LocalsType
  <2>2. CASE ~SelectOk(g)
    BY <2>2 DEF RoutineBegin, SelectFail, RequestInv, Pending
  <2> QED
    BY <2>1, <2>2
<1>4. \A s \in Slots : Fetching(s)' => nntp[s].selGroup # g
  BY <1>2, NotYetRequested DEF JobsKept
<1> QED
  BY <1>1, <1>2, <1>3, <1>4, RoutineRequests

LEMMA RequestsLoop ==
  ASSUME RequestInv, NEW g \in Group, JobsKept,
         LoopExit(g) \/ RoutineEnd(g) \/ LoopTransit(g) \/ LoopBody(g)
  PROVE  Pending' /\ Requests' /\ NoDuplicateFetch'
<1>1. \A h \in Group : h # g => rpc'[h] = rpc[h] /\ loc'[h] = loc[h]
  BY DEF LoopExit, RoutineEnd, LoopTransit, LoopBody, RGoto, RequestInv, IInv, TypeOK
<1>2. /\ rpc[g] \in {"loop", "ending"} /\ rpc'[g] \in {"ending", "done", "pick"}
      /\ loc'[g].artNum = loc[g].artNum /\ loc'[g].artRequested = loc[g].artRequested
  BY DEF LoopExit, RoutineEnd, LoopTransit, LoopBody, RGoto, RequestInv, IInv, TypeOK, LocalsType
<1>3. \A s \in Slots : Fetching(s)' /\ nntp[s].selGroup = g => Requested(s, g, nntp[s].selArticle)'
  BY <1>2 DEF JobsKept, RequestInv, Requests, InOrder, Requested
<1> QED
  BY <1>1, <1>2, <1>3, RoutineRequests DEF RequestInv, Pending

LEMMA RequestsPick ==
  ASSUME RequestInv, NEW g \in Group, JobsKept, Pick(g)
  PROVE  Pending' /\ Requests' /\ NoDuplicateFetch'
<1> DEFINE n == NextUnread(read[g], loc[g].artNum, GroupHi[g])
<1>1. \A h \in Group : h # g => rpc'[h] = rpc[h] /\ loc'[h] = loc[h]
  BY DEF Pick, RGoto, RequestInv, IInv, TypeOK
<1>2. rpc[g] = "pick" /\ rpc'[g] = "take"
  BY DEF Pick, RGoto, RequestInv, IInv, TypeOK
<1>3. /\ loc[g].artNum \in Nat /\ GroupHi[g] \in Nat /\ \A s \in Slots : nntp[s].selArticle \in Int
      /\ n \in Nat /\ n >= loc[g].artNum /\ (loc[g].artNum > GroupHi[g] => n = loc[g].artNum)
  BY RoutineTypes, NextUnreadEffect DEF RequestInv
<1>4. CASE ~loc[g].artRequested
  <2>1. loc'[g].artNum = loc[g].artNum /\ loc'[g].artRequested = loc[g].artRequested
    BY <1>4 DEF Pick, RequestInv, IInv, TypeOK
  <2>2. \A s \in Slots : Fetching(s)' /\ nntp[s].selGroup = g => Requested(s, g, nntp[s].selArticle)'
    BY <1>2, <2>1 DEF JobsKept, RequestInv, Requests, InOrder, Requested
  <2> QED
    BY <1>1, <1>2, <2>1, <2>2, RoutineRequests DEF RequestInv, Pending
<1>5. CASE loc[g].artRequested
  <2>1. loc'[g].artNum = n /\ loc'[g].artRequested = (n > GroupHi[g])
    BY <1>5 DEF Pick, RequestInv, IInv, TypeOK, LocalsType
  <2> HIDE DEF n
  <2>2. n <= GroupHi[g] => n <= GroupHi[g] + 1 /\ ~(n > GroupHi[g])
    BY <1>3
  <2>3. n <= GroupHi[g] \/ (n > GroupHi[g]) = TRUE
    BY <1>3
  <2>4. loc'[g].artNum <= GroupHi[g] + 1 \/ loc'[g].artRequested
    BY <2>1, <2>2, <2>3
  <2>5. ASSUME NEW s \in Slots, Fetching(s)', nntp[s].selGroup = g
        PROVE  Requested(s, g, nntp[s].selArticle)'
    <3>1. Requested(s, g, nntp[s].selArticle) /\ nntp'[s].selArticle = nntp[s].selArticle
      BY <2>5 DEF JobsKept, RequestInv, Requests, InOrder
    <3>2. \/ nntp[s].selArticle < n
          \/ nntp[s].selArticle = n /\ n > GroupHi[g]
      BY <1>2, <1>3, <3>1 DEF Requested
    <3>3. CASE nntp[s].selArticle < n
      BY <2>1, <3>1, <3>3 DEF Requested
    <3>4. CASE nntp[s].selArticle = n /\ n > GroupHi[g]
      <4>1. loc'[g].artRequested
        BY <2>1, <3>4
      <4> QED
        BY <2>1, <3>1, <3>4, <4>1 DEF Requested
    <3> QED
      BY <3>2, <3>3, <3>4
  <2> QED
    BY <1>1, <1>2, <2>4, <2>5, RoutineRequests
<1> QED
  BY <1>4, <1>5

LEMMA RequestsDone ==
  ASSUME RequestInv, NEW g \in Group, JobsKept, ArticleDone(g) \/ TakeNone(g)
  PROVE  Pending' /\ Requests' /\ NoDuplicateFetch'
<1> DEFINE a == loc[g].artNum
           b == loc'[g].artNum
<1>1. /\ \A h \in Group : h # g => rpc'[h] = rpc[h] /\ loc'[h] = loc[h]
      /\ rpc'[g] = "loop"
  BY DEF ArticleDone, TakeNone, RGoto, RequestInv, IInv, TypeOK
<1>2. a \in Nat /\ GroupHi[g] \in Nat /\ \A s \in Slots : nntp[s].selArticle \in Int
  BY RoutineTypes DEF RequestInv
<1>3. CASE ArticleDone(g)
  <2>1. /\ rpc[g] = "inArticle" /\ job[Thread(g)] = "none" /\ ~loc[g].artRequested
        /\ b \in {a + 1, GroupHi[g] + 1} /\ loc'[g].artRequested /\ a <= GroupHi[g] + 1
    BY <1>2, <1>3, EnoughArtEffect, a + 1 \in Nat DEF ArticleDone, RequestInv, IInv, TypeOK, LocalsType, Pending
  <2>2. ASSUME NEW s \in Slots, Fetching(s)', nntp[s].selGroup = g
        PROVE  Requested(s, g, nntp[s].selArticle)'
    <3>1. /\ Requested(s, g, nntp[s].selArticle) /\ nntp'[s].selArticle = nntp[s].selArticle
          /\ Fetching(s)
      BY <2>2 DEF JobsKept, RequestInv, Requests, InOrder
    <3>2. nntp[s].selArticle < a
      BY <2>1, <3>1 DEF Requested, Fetching, ArticleJobs
    <3> QED
      BY <1>2, <2>1, <3>1, <3>2 DEF Requested
  <2> QED
    BY <1>1, <2>1, <2>2, RoutineRequests
<1>4. CASE TakeNone(g)
  <2>1. /\ rpc[g] = "take" /\ b \in {a, GroupHi[g] + 1}
        /\ loc'[g].artRequested = loc[g].artRequested
    BY <1>2, <1>4, EnoughArtEffect DEF TakeNone, RequestInv, IInv, TypeOK, LocalsType
  <2>2. ~loc'[g].artRequested => b <= GroupHi[g] + 1
    BY <1>2, <2>1 DEF RequestInv, Pending
  <2>3. ASSUME NEW s \in Slots, Fetching(s)', nntp[s].selGroup = g
        PROVE  Requested(s, g, nntp[s].selArticle)'
    <3>1. /\ Requested(s, g, nntp[s].selArticle) /\ nntp'[s].selArticle = nntp[s].selArticle
          /\ nntp[s].selArticle <= GroupHi[g] + 1
      BY <2>3 DEF JobsKept, RequestInv, Requests, InOrder
    <3>2. ~loc[g].artRequested => nntp[s].selArticle < a /\ a <= GroupHi[g] + 1
      BY <2>1, <3>1 DEF Requested, RequestInv, Pending
    <3> QED
      BY <1>2, <2>1, <3>1, <3>2, RoutineTypes DEF Requested, RequestInv
  <2> QED
    BY <1>1, <2>2, <2>3, RoutineRequests
<1> QED
  BY <1>3, <1>4

\* An article worker is started, with a number that nobody has requested.
LEMMA RequestsTake ==
  ASSUME RequestInv, NEW g \in Group, NEW t,
         t \in Slots => job[t] = "none",
         rpc[g] = "take", ~loc[g].artRequested,
         Select(t, g, loc[g].artNum), job' = [job EXCEPT ![t] = "artStart"],
         \A h \in Group : h # g => rpc'[h] = rpc[h] /\ loc'[h] = loc[h],
         \/ /\ rpc'[g] = "loop" /\ loc'[g].artRequested
            /\ loc'[g].artNum \in {loc[g].artNum + 1, GroupHi[g] + 1}
         \/ rpc'[g] = "inArticle" /\ loc'[g] = loc[g] /\ Thread(g) = t
  PROVE  Pending' /\ Requests' /\ NoDuplicateFetch'
<1> DEFINE a == loc[g].artNum
<1>1. a \in Nat /\ GroupHi[g] \in Nat /\ \A s \in Slots : nntp[s].selArticle \in Int
  BY RoutineTypes DEF RequestInv
<1>2. a <= GroupHi[g] + 1
  BY DEF RequestInv, Pending
<1>3. \A s \in Slots : s # t => (Fetching(s)' <=> Fetching(s)) /\ nntp'[s] = nntp[s]
  <2> SUFFICES ASSUME NEW s \in Slots, s # t
               PROVE  (Fetching(s)' <=> Fetching(s)) /\ nntp'[s] = nntp[s]
    OBVIOUS
  <2>1. job'[s] = job[s] /\ nntp'[s] = nntp[s]
    BY DEF Select, RequestInv, IInv, TypeOK
  <2> QED
    BY <2>1 DEF Fetching
<1>4. t \in Slots => nntp'[t].selGroup = g /\ nntp'[t].selArticle = a
  BY DEF Select, RequestInv, IInv, TypeOK, SlotType
<1>5. ASSUME NEW s \in Slots, Fetching(s), nntp[s].selGroup = g
      PROVE  nntp[s].selArticle < a /\ s # t
  <2>1. Requested(s, g, nntp[s].selArticle)
    BY <1>5 DEF RequestInv, Requests, InOrder
  <2> QED
    BY <1>5, <2>1 DEF Requested, Fetching, ArticleJobs
<1>6. Pending'
  BY <1>2 DEF RequestInv, Pending
<1>7. Requests'
  <2> SUFFICES ASSUME NEW s \in Slots, Fetching(s)' PROVE InOrder(s)'
    BY DEF Requests
  <2>1. CASE s = t
    BY <1>1, <1>2, <1>4, <2>1 DEF InOrder, Requested, Thread
  <2>2. CASE s # t /\ nntp[s].selGroup = g
    <3>1. nntp[s].selArticle < a /\ nntp'[s] = nntp[s]
      BY <1>3, <1>5, <2>2
    <3> HIDE DEF a
    <3>2. loc'[g].artNum = a \/ loc'[g].artNum = a + 1 \/ loc'[g].artNum = GroupHi[g] + 1
      BY DEF a
    <3>3. nntp[s].selArticle < loc'[g].artNum
      BY <1>1, <1>2, <3>1, <3>2
    <3>4. nntp[s].selArticle <= GroupHi[g] + 1
      BY <1>1, <1>2, <3>1
    <3> QED
      BY <2>2, <3>1, <3>3, <3>4 DEF InOrder, Requested
  <2>3. CASE s # t /\ nntp[s].selGroup # g
    <3>1. Fetching(s) /\ nntp'[s] = nntp[s]
      BY <1>3, <2>3
    <3>2. nntp[s].selGroup \in Group /\ InOrder(s)
      BY <3>1 DEF RequestInv, IInv, GroupKnown, Fetching, Requests
    <3> QED
      BY <2>3, <3>1, <3>2 DEF InOrder, Requested, Thread
  <2> QED
    BY <2>1, <2>2, <2>3
<1>8. NoDuplicateFetch'
  <2> SUFFICES ASSUME NEW r \in Slots, NEW s \in Slots, r # s, Fetching(r)', Fetching(s)',
                      Art(r)' = Art(s)'
               PROVE  FALSE
    BY DEF NoDuplicateFetch, Fetching
  <2>1. ASSUME NEW q \in Slots, q # t, t \in Slots, Fetching(q)' PROVE Art(q)' # Art(t)'
    <3>1. Fetching(q) /\ nntp'[q] = nntp[q]
      BY <1>3, <2>1
    <3>2. nntp[q].selGroup = g => nntp[q].selArticle < a
      BY <1>5, <3>1
    <3>3. nntp[q].selGroup = g => nntp[q].selArticle # a
      BY <1>1, <3>2
    <3> QED
      BY <1>4, <2>1, <3>1, <3>3 DEF Art
  <2>2. CASE r = t \/ s = t
    BY <2>1, <2>2
  <2>3. CASE r # t /\ s # t
    BY <1>3, <2>3 DEF RequestInv, NoDuplicateFetch, Fetching, Art
  <2> QED
    BY <2>2, <2>3
<1> QED
  BY <1>6, <1>7, <1>8

LEMMA RequestsRoutine ==
  ASSUME RequestInv, NEW g \in Group, RoutineNext(g)
  PROVE  Pending' /\ Requests' /\ NoDuplicateFetch'
<1>1. CASE TakeAsync(g)
  <2> DEFINE t == FirstWaiting
  <2>1. t \in Slots /\ job[t] = "none"
    BY <1>1, FirstWaitingOk DEF TakeAsync, RequestInv, IInv, SlotInv, WorkerHas
  <2>2. /\ rpc[g] = "take" /\ ~loc[g].artRequested /\ Select(t, g, loc[g].artNum)
        /\ job' = [job EXCEPT ![t] = "artStart"]
        /\ \A h \in Group : h # g => rpc'[h] = rpc[h] /\ loc'[h] = loc[h]
        /\ rpc'[g] = "loop"
    BY <1>1 DEF TakeAsync, RGoto, RequestInv, IInv, TypeOK
  <2>3. loc'[g].artRequested /\ loc'[g].artNum = EnoughArt(g, loc[g].artNum + 1)
    BY <1>1 DEF TakeAsync, RequestInv, IInv, TypeOK, LocalsType
  <2>4. loc[g].artNum + 1 \in Nat
    BY RoutineTypes DEF RequestInv
  <2>5. loc'[g].artNum \in {loc[g].artNum + 1, GroupHi[g] + 1}
    BY <2>3, <2>4, EnoughArtEffect
  <2> HIDE DEF t
  <2> QED
    BY <2>1, <2>2, <2>3, <2>5, RequestsTake
<1>2. CASE TakeSync(g)
  <2> DEFINE t == Thread(g)
  <2>1. t \in Slots => job[t] = "none"
    BY <1>2 DEF TakeSync, RequestInv, IInv, SlotInv, RoutineHas, Holds
  <2>2. /\ rpc[g] = "take" /\ ~loc[g].artRequested /\ Select(t, g, loc[g].artNum)
        /\ job' = [job EXCEPT ![t] = "artStart"]
        /\ \A h \in Group : h # g => rpc'[h] = rpc[h] /\ loc'[h] = loc[h]
        /\ rpc'[g] = "inArticle" /\ loc'[g] = loc[g]
    BY <1>2 DEF TakeSync, RGoto, RequestInv, IInv, TypeOK
  <2>3. Thread(g) = t
    OBVIOUS
  <2> HIDE DEF t
  <2> QED
    BY <2>1, <2>2, <2>3, RequestsTake
<1>3. CASE ~TakeAsync(g) /\ ~TakeSync(g)
  <2>1. JobsKept
    BY <1>3, RoutineKeeps DEF RequestInv
  <2> QED
    BY <1>3, <2>1, RequestsBegin, RequestsLoop, RequestsPick, RequestsDone DEF RoutineNext
<1> QED
  BY <1>1, <1>2, <1>3

\* The main thread starts the routine of the next group.
LEMMA RequestsStart ==
  ASSUME RequestInv, StartGroup, JobsKept
  PROVE  Pending' /\ Requests' /\ NoDuplicateFetch'
<1>1. CASE Enough
  BY <1>1, KeepRequests DEF StartGroup
<1>2. CASE ~Enough /\ curGroup \in Group
  <2> DEFINE g == curGroup
  <2>1. /\ rpc' = [rpc EXCEPT ![g] = "begun"] /\ mainPc = "gotSlot"
        /\ loc' = [loc EXCEPT ![g].thread = mainSlot, ![g].syncCall = (Strategy = 2)]
    BY <1>2 DEF StartGroup, MainGoto
  <2>2. /\ \A h \in Group : h # g => rpc'[h] = rpc[h] /\ loc'[h] = loc[h]
        /\ rpc'[g] = "begun"
        /\ loc'[g].artNum = loc[g].artNum /\ loc'[g].artRequested = loc[g].artRequested
    BY <1>2, <2>1 DEF RequestInv, IInv, TypeOK, LocalsType
  <2>3. rpc[g] = "none"
    <3>1. g >= curGroup
      BY <1>2 DEF Group
    <3> QED
      BY <1>2, <2>1, <3>1 DEF RequestInv, Fresh, Before
  <2>4. \A s \in Slots : Fetching(s)' => nntp[s].selGroup # g
    BY <1>2, <2>3, NotYetRequested DEF JobsKept
  <2>5. ~loc'[g].artRequested => loc'[g].artNum <= GroupHi[g] + 1
    BY <1>2, <2>2 DEF RequestInv, Pending
  <2> HIDE DEF g
  <2>6. g \in Group
    BY <1>2 DEF g
  <2> QED
    BY <2>2, <2>4, <2>5, <2>6, RoutineRequests
<1>3. CASE ~Enough /\ curGroup \notin Group
  <2>1. \A h \in Group : rpc'[h] = rpc[h] /\ loc'[h] = loc[h]
    BY <1>3 DEF StartGroup, RequestInv, IInv, TypeOK
  <2> QED
    BY <2>1, KeepRequests
<1> QED
  BY <1>1, <1>2, <1>3

\* A routine begins when the main thread has come to its group.
LEMMA FreshMain == IInv /\ Fresh /\ MainNext => Fresh'
<1> SUFFICES ASSUME IInv, Fresh, MainNext PROVE Fresh'
  OBVIOUS
<1>0. curGroup \in Nat /\ Group \subseteq Nat
  BY ConstantsOK DEF IInv, TypeOK, Group
<1>1. CASE StartGroup
  <2>1. /\ mainPc = "gotSlot" /\ mainPc' \in {"settle", "afterGroup", "inGroup"}
        /\ curGroup' = curGroup
        /\ rpc' = rpc \/ rpc' = [rpc EXCEPT ![curGroup] = "begun"]
    BY <1>1 DEF StartGroup, MainGoto
  <2> QED
    BY <1>0, <2>1 DEF Fresh, Before, During, IInv, TypeOK
<1>2. CASE NextGroup
  <2>1. /\ mainPc = "afterGroup" /\ rpc' = rpc
        /\ mainPc' = "settle" \/ (mainPc' = "getSlot" /\ curGroup' = curGroup + 1)
    BY <1>2 DEF NextGroup, MainGoto, groupVars
  <2> QED
    BY <1>0, <2>1 DEF Fresh, Before, During
<1>3. CASE ~StartGroup /\ ~NextGroup
  <2>1. UNCHANGED <<curGroup, rpc>>
    BY <1>3 DEF MainNext, StartConnect, WaitConnect, StartNewGroups, WaitOne, GetSlot, GroupReturned,
      Drain, Settle, Scan, ChkActive, Save, WaitDisc, groupVars
  <2>2. /\ mainPc' \in Before => mainPc \in Before
        /\ mainPc' \in During => mainPc \in During
    BY <1>3 DEF MainNext, StartConnect, WaitConnect, StartNewGroups, WaitOne, GetSlot, GroupReturned,
      Drain, Settle, Scan, ChkActive, Save, WaitDisc, MainGoto, Before, During
  <2> QED
    BY <2>1, <2>2 DEF Fresh
<1> QED
  BY <1>1, <1>2, <1>3

LEMMA FreshRoutine ==
  ASSUME IInv, Fresh, NEW g \in Group, RoutineNext(g)
  PROVE  Fresh'
<1>1. /\ UNCHANGED <<mainPc, curGroup>> /\ rpc[g] # "none"
      /\ \A h \in Group : h # g => rpc'[h] = rpc[h]
  BY DEF RoutineNext, RoutineBegin, SelectOk, SelectFail, LoopExit, RoutineEnd, LoopTransit, LoopBody,
    Pick, TakeAsync, TakeSync, ArticleDone, TakeNone, RGoto, mainVars, IInv, TypeOK
<1> QED
  BY <1>1 DEF Fresh

LEMMA RequestInit == Init => RequestInv
<1> SUFFICES ASSUME Init PROVE RequestInv
  OBVIOUS
<1>1. IInv
  BY TypeInit, SlotInvInit DEF IInv
<1>2. Fresh /\ Pending
  BY DEF Init, Fresh, Pending
<1>3. Requests /\ NoDuplicateFetch
  BY DEF Init, Requests, NoDuplicateFetch, Fetching, ArticleJobs
<1> QED
  BY <1>1, <1>2, <1>3 DEF RequestInv

LEMMA RequestNext == RequestInv /\ [Next]_vars => RequestInv'
<1> SUFFICES ASSUME RequestInv, [Next]_vars
             PROVE  Fresh' /\ Pending' /\ Requests' /\ NoDuplicateFetch'
  BY IInvNext DEF RequestInv
<1>1. CASE MainNext
  <2>1. JobsKept /\ (~StartGroup => UNCHANGED <<rpc, loc>>)
    BY <1>1, MainKeeps DEF RequestInv
  <2> QED
    BY <1>1, <2>1, FreshMain, RequestsStart, KeepRequests DEF RequestInv
<1>2. ASSUME NEW g \in Group, RoutineNext(g)
      PROVE  Fresh' /\ Pending' /\ Requests' /\ NoDuplicateFetch'
  BY <1>2, FreshRoutine, RequestsRoutine DEF RequestInv
<1>3. ASSUME NEW s \in Slots, WorkerNext(s)
      PROVE  Fresh' /\ Pending' /\ Requests' /\ NoDuplicateFetch'
  <2>1. JobsKept /\ UNCHANGED <<mainPc, curGroup, rpc, loc>>
    BY <1>3, WorkerKeeps DEF RequestInv, mainVars, groupVars
  <2> QED
    BY <2>1, KeepRequests DEF RequestInv, Fresh
<1>4. CASE \/ UserInterrupt \/ CheckTransfer \/ SigClose \/ SigSave \/ Disconnect
           \/ \E s \in Slots : LinkBreak(s)
           \/ UNCHANGED vars
  <2>1. JobsKept /\ UNCHANGED <<rpc, loc, curGroup>>
        /\ (mainPc' = mainPc \/ mainPc' \in Handler \cup Final)
    BY <1>4, OthersKeep DEF RequestInv
  <2> QED
    BY <2>1, KeepRequests DEF RequestInv, Fresh, Handler, Final, Before, During
<1> QED
  BY <1>1, <1>2, <1>3, <1>4 DEF Next, GroupNext, SlotNext

\* No article is fetched by two connections (news.cc 1198-1288): although it is
\* marked read only when it has arrived, and the read list is searched meanwhile,
\* the routine of its group never asks for a number again, whatever connection
\* fails and whatever strategy is used, and each group has one routine.
THEOREM NothingTwice == Spec => []NoDuplicateFetch
<1>1. RequestInv => NoDuplicateFetch
  BY DEF RequestInv
<1> QED
  BY RequestInit, RequestNext, <1>1, PTL DEF Spec
-----------------------------------------------------------------------------
(* With strategy 0 one group comes after the other.                          *)

\* The articles under way are those of the present group; there are none between
\* two groups, because each is counted by nntpMtAnyRunning().
PresentGroup ==
  /\ mainPc \in Before \cup During => disc = NoSlot
  /\ mainPc \in Before \cup {"afterGroup"} => \A s \in Slots : ~Fetching(s)
  /\ mainPc \in {"inGroup", "drain"} =>
       \A s \in Slots : Fetching(s) => /\ nntp[s].selGroup = curGroup
                                       /\ nntpS[s] \in {"starting", "running"}

GroupInv == IInv /\ (Strategy = 0 => PresentGroup /\ OneGroupAtATime)

LEMMA KeepOneGroup == ASSUME OneGroupAtATime, JobsKept PROVE OneGroupAtATime'
  BY DEF OneGroupAtATime, JobsKept, Fetching

LEMMA PresentMain ==
  ASSUME IInv, PresentGroup, MainNext, Strategy = 0
  PROVE  PresentGroup'
<1>1. JobsKept /\ StatesKept
  BY MainKeeps
<1>2. CASE StartGroup
  <2>1. /\ mainPc = "gotSlot" /\ mainPc' \in {"settle", "inGroup"} /\ UNCHANGED disc
    BY <1>2 DEF StartGroup, MainGoto
  <2> QED
    BY <1>1, <2>1 DEF PresentGroup, Before, During, JobsKept
<1>3. CASE Drain
  <2>1. /\ mainPc = "drain" /\ mainPc' = "afterGroup" /\ UNCHANGED disc
        /\ \A s \in Slots : nntpS[s] \notin {"starting", "running"}
    BY <1>3 DEF Drain, MainGoto, AnyRunning
  <2> QED
    BY <1>1, <2>1 DEF PresentGroup, Before, During, JobsKept
<1>4. CASE GroupReturned
  <2>1. mainPc = "inGroup" /\ mainPc' = "drain" /\ UNCHANGED <<curGroup, disc>>
    BY <1>4 DEF GroupReturned, MainGoto
  <2> QED
    BY <1>1, <2>1 DEF PresentGroup, Before, During, JobsKept, StatesKept
<1>5. CASE ~StartGroup /\ ~Drain /\ ~GroupReturned
  <2>1. mainPc' \in Before \cup During =>
          mainPc \in Before \cup {"afterGroup"} /\ mainPc' \in Before /\ UNCHANGED disc
    BY <1>5 DEF MainNext, StartConnect, WaitConnect, StartNewGroups, WaitOne, GetSlot, NextGroup,
      Settle, Scan, ChkActive, Save, WaitDisc, MainGoto, Before, During
  <2> QED
    BY <1>1, <2>1 DEF PresentGroup, Before, During, JobsKept
<1> QED
  BY <1>2, <1>3, <1>4, <1>5

\* Where a routine changes the state of a slot, it has the slot to itself.
LEMMA RoutineStates ==
  ASSUME IInv, NEW g \in Group, RoutineNext(g), ~TakeAsync(g), ~TakeSync(g)
  PROVE  StatesKept
<1>1. CASE SelectFail(g) \/ LoopExit(g) \/ LoopTransit(g)
  <2> DEFINE t == Thread(g)
  <2>1. \/ nntpS' = nntpS
        \/ nntpS' = [nntpS EXCEPT ![t] = "waiting"] /\ (t \in Slots => Holds(g, t))
    BY <1>1 DEF SelectFail, LoopExit, LoopTransit, MayTransit, Holds
  <2>2. /\ job' = job /\ rpc[g] # "inArticle"
    BY <1>1 DEF SelectFail, LoopExit, LoopTransit
  <2>3. t \in Slots /\ Holds(g, t) => job[t] = "none"
    BY <2>2 DEF IInv, SlotInv, RoutineHas
  <2> HIDE DEF t
  <2> QED
    BY <2>1, <2>2, <2>3 DEF StatesKept, Fetching, ArticleJobs, IInv, TypeOK
<1>2. CASE ~(SelectFail(g) \/ LoopExit(g) \/ LoopTransit(g))
  BY <1>2 DEF RoutineNext, RoutineBegin, SelectOk, RoutineEnd, LoopBody, Pick, ArticleDone,
    TakeNone, slotVars, StatesKept
<1> QED
  BY <1>1, <1>2

LEMMA GroupRoutine ==
  ASSUME GroupInv, NEW g \in Group, RoutineNext(g), Strategy = 0
  PROVE  PresentGroup' /\ OneGroupAtATime'
<1>1. mainPc = "inGroup" /\ curGroup = g /\ UNCHANGED <<mainPc, curGroup, disc>> /\ disc = NoSlot
  <2>1. mainPc = "inGroup" /\ curGroup = g
    BY DEF RoutineNext, MayRun
  <2>2. UNCHANGED mainVars
    BY DEF RoutineNext, RoutineBegin, SelectOk, SelectFail, LoopExit, RoutineEnd, LoopTransit,
      LoopBody, Pick, TakeAsync, TakeSync, ArticleDone, TakeNone
  <2> QED
    BY <2>1, <2>2 DEF mainVars, GroupInv, PresentGroup, During
<1>2. SUFFICES \A s \in Slots : Fetching(s)' => /\ nntp'[s].selGroup = g
                                                /\ nntpS'[s] \in {"starting", "running"}
  <2>1. PresentGroup'
    BY <1>1, <1>2 DEF PresentGroup, Before, During
  <2>2. OneGroupAtATime'
    BY <1>2 DEF OneGroupAtATime, Fetching
  <2> QED
    BY <2>1, <2>2
<1>3. \A s \in Slots : Fetching(s) => /\ nntp[s].selGroup = g
                                      /\ nntpS[s] \in {"starting", "running"}
  BY <1>1 DEF GroupInv, PresentGroup
<1>4. CASE TakeAsync(g) \/ TakeSync(g)
  <2>1. PICK t : /\ Select(t, g, loc[g].artNum) /\ nntpS' = [nntpS EXCEPT ![t] = "starting"]
                 /\ job' = [job EXCEPT ![t] = "artStart"]
    BY <1>4 DEF TakeAsync, TakeSync
  <2> QED
    BY <1>3, <2>1 DEF Select, Fetching, ArticleJobs, GroupInv, IInv, TypeOK, SlotType
<1>5. CASE ~(TakeAsync(g) \/ TakeSync(g))
  <2>1. JobsKept /\ StatesKept
    BY <1>5, RoutineKeeps, RoutineStates DEF GroupInv
  <2> QED
    BY <1>3, <2>1 DEF JobsKept, StatesKept
<1> QED
  BY <1>4, <1>5

LEMMA GroupInit == Init => GroupInv
<1> SUFFICES ASSUME Init PROVE GroupInv
  OBVIOUS
<1>1. IInv
  BY TypeInit, SlotInvInit DEF IInv
<1>2. PresentGroup /\ OneGroupAtATime
  BY DEF Init, PresentGroup, OneGroupAtATime, Fetching, ArticleJobs, Before
<1> QED
  BY <1>1, <1>2 DEF GroupInv

LEMMA GroupStep == GroupInv /\ [Next]_vars => GroupInv'
<1> SUFFICES ASSUME GroupInv, [Next]_vars, Strategy = 0
             PROVE  PresentGroup' /\ OneGroupAtATime'
  BY IInvNext DEF GroupInv
<1>0. IInv /\ PresentGroup /\ OneGroupAtATime
  BY DEF GroupInv
<1>1. CASE MainNext
  BY <1>0, <1>1, PresentMain, MainKeeps, KeepOneGroup
<1>2. ASSUME NEW g \in Group, RoutineNext(g) PROVE PresentGroup' /\ OneGroupAtATime'
  BY <1>2, GroupRoutine
<1>3. ASSUME NEW s \in Slots, WorkerNext(s) PROVE PresentGroup' /\ OneGroupAtATime'
  <2>1. JobsKept /\ StatesKept /\ UNCHANGED <<mainPc, curGroup, disc>>
    BY <1>0, <1>3, WorkerKeeps DEF mainVars
  <2> QED
    BY <1>0, <2>1, KeepOneGroup DEF PresentGroup, JobsKept, StatesKept
<1>4. CASE \/ UserInterrupt \/ CheckTransfer \/ SigClose \/ SigSave \/ Disconnect
           \/ \E s \in Slots : LinkBreak(s)
           \/ UNCHANGED vars
  <2>1. /\ JobsKept /\ curGroup' = curGroup
        /\ mainPc' = mainPc \/ mainPc' \in Handler \cup Final
    BY <1>0, <1>4, OthersKeep
  <2>2. disc = NoSlot => UNCHANGED <<disc, nntpS>>
    BY <1>4, ConstantsOK DEF UserInterrupt, CheckTransfer, Sigint, SigClose, SigSave, Disconnect,
      LinkBreak, vars, mainVars, slotVars, Slots, NoSlot
  <2> QED
    BY <1>0, <2>1, <2>2, KeepOneGroup DEF PresentGroup, JobsKept, Before, During, Handler, Final
<1> QED
  BY <1>1, <1>2, <1>3, <1>4 DEF Next, GroupNext, SlotNext

\* Strategy 0 fetches "one group after the other without intersection" (news.cc
\* 1468, 1576): nntpMtAnyRunning() sees every article that is under way, whatever fails
\* and whenever the session is aborted.
THEOREM OneByOne == Spec => []OneGroupAtATime
<1>1. GroupInv => OneGroupAtATime
  BY DEF GroupInv, OneGroupAtATime
<1> QED
  BY GroupInit, GroupStep, <1>1, PTL DEF Spec
-----------------------------------------------------------------------------
(* Nobody uses a connection that is being closed, with strategies 0 and 1.   *)

Busy(s) == job[s] \notin {"none", "connBegin", "connOpen"}
Active  == {"starting", "running", "runningspecial"}
Resting == {"none", "done"}

\* Whoever works on a slot counts for nntpMtAnyRunning(), and a routine that has
\* not selected its group yet has a slot that is starting.
Visible ==
  /\ \A s \in Slots : Busy(s) => nntpS[s] \in Active
  /\ \A s \in Slots : mainPc = "gotSlot" /\ mainSlot = s => nntpS[s] = "starting"
  /\ \A g \in Group : \A s \in Slots :
       rpc[g] \in {"begun", "select"} /\ Thread(g) = s => nntpS[s] = "starting"

\* Only the routine the main thread is in is at work, and behind the last poll of
\* nntpWaitFinished() nothing is.
Still ==
  /\ mainPc \in Before \cup During => disc = NoSlot
  /\ mainPc \in {"chkActive", "save", "waitDisc", "end"} \/ disc # NoSlot =>
       \A s \in Slots : ~Busy(s)
  /\ mainPc \notin {"inGroup"} \cup Handler \cup {"exited"} \/ disc # NoSlot =>
       \A g \in Group : rpc[g] \in Resting
  /\ mainPc = "inGroup" => \A g \in Group : g # curGroup => rpc[g] \in Resting

QuietInv == IInv /\ (Strategy # 2 => Visible /\ Still)

LEMMA QuietWorker ==
  ASSUME IInv, Visible, Still, NEW s \in Slots, WorkerNext(s)
  PROVE  Visible' /\ Still'
<1>1. /\ UNCHANGED <<mainPc, curGroup, disc, mainSlot, rpc, loc>>
      /\ \A r \in Slots : r # s => job'[r] = job[r] /\ nntpS'[r] = nntpS[r]
      /\ Busy(s)' => Busy(s) /\ (nntpS'[s] = nntpS[s] \/ nntpS'[s] \in {"running", "runningspecial"})
      /\ job[s] # "none"
  <2> USE DEF IInv, TypeOK, Busy, JobGoto, SetS, mainVars, groupVars
  <2>1. CASE ConnBegin(s) \/ ConnOk(s) \/ ConnFail(s) \/ NgStart(s) \/ NgList(s)
    BY <2>1 DEF ConnBegin, ConnOk, ConnFail, NgStart, NgList
  <2>2. CASE XhStart(s) \/ XhBegin(s) \/ XhRefused(s)
    BY <2>2 DEF XhStart, XhBegin, XhRefused
  <2>3. CASE XhLine(s) \/ XhEnd(s)
    BY <2>3 DEF XhLine, XhEnd
  <2>4. CASE ArtStart(s) \/ BodyOk(s) \/ BodyFail(s) \/ ArtWrite(s) \/ HeadOk(s) \/ HeadNotAvail(s)
    BY <2>4 DEF ArtStart, BodyOk, BodyFail, ArtWrite, HeadOk, HeadNotAvail
  <2>5. CASE HeadFail(s) \/ LinesOk(s) \/ LinesCut(s)
    BY <2>5 DEF HeadFail, LinesOk, LinesCut
  <2>6. CASE ArtMark(s) \/ ArtMissing(s)
    BY <2>6 DEF ArtMark, ArtMissing, Finished
  <2>7. CASE ArtNext(s) \/ ArtFail(s)
    BY <2>7 DEF ArtNext, ArtFail, Finished
  <2> QED
    BY <2>1, <2>2, <2>3, <2>4, <2>5, <2>6, <2>7 DEF WorkerNext
<1>2. \A g \in Group : rpc[g] \in {"begun", "select"} => Thread(g) # s
  BY <1>1 DEF IInv, SlotInv, RoutineHas, Holds
<1>3. mainSlot # s
  BY <1>1, ConstantsOK DEF IInv, SlotInv, MainHas, Slots, NoSlot
<1>4. ASSUME NEW r \in Slots PROVE Busy(r)' => Busy(r)
  <2>1. CASE r = s
    BY <1>1, <2>1 DEF Busy
  <2>2. CASE r # s
    BY <1>1, <2>2 DEF Busy
  <2> QED
    BY <2>1, <2>2
<1>5. Visible'
  <2>1. ASSUME NEW r \in Slots, Busy(r)' PROVE nntpS'[r] \in Active
    <3>1. Busy(r) /\ nntpS[r] \in Active
      BY <1>4, <2>1 DEF Visible
    <3>2. CASE r = s
      BY <1>1, <2>1, <3>1, <3>2 DEF Active, Busy
    <3>3. CASE r # s
      BY <1>1, <3>1, <3>3
    <3> QED
      BY <3>2, <3>3
  <2>2. ASSUME NEW r \in Slots, mainPc' = "gotSlot", mainSlot' = r PROVE nntpS'[r] = "starting"
    BY <1>1, <1>3, <2>2 DEF Visible
  <2>3. ASSUME NEW g \in Group, NEW r \in Slots, rpc'[g] \in {"begun", "select"}, Thread(g)' = r
        PROVE  nntpS'[r] = "starting"
    BY <1>1, <1>2, <2>3 DEF Visible, Thread
  <2> QED
    <3>1. \A r \in Slots : Busy(r)' => nntpS'[r] \in Active
      BY <2>1
    <3>2. \A r \in Slots : mainPc' = "gotSlot" /\ mainSlot' = r => nntpS'[r] = "starting"
      BY <2>2
    <3>3. \A g \in Group : \A r \in Slots :
            rpc'[g] \in {"begun", "select"} /\ Thread(g)' = r => nntpS'[r] = "starting"
      BY <2>3
    <3> QED
      BY <3>1, <3>2, <3>3 DEF Visible, Busy, Thread, Active
<1>6. Still'
  <2>1. (\A r \in Slots : ~Busy(r)) => \A r \in Slots : ~Busy(r)'
    BY <1>4
  <2> QED
    BY <1>1, <2>1 DEF Still, Busy
<1> QED
  BY <1>5, <1>6

\* The steps of the main thread.
LEMMA QuietMain ==
  ASSUME IInv, Visible, Still, MainNext, Strategy # 2
  PROVE  Visible' /\ Still'
<1> USE DEF IInv, TypeOK, Visible, Still, Busy, Active, Resting, MainGoto, Before, During, Handler,
            Thread, slotVars, groupVars
<1>1. CASE StartConnect
  BY <1>1 DEF StartConnect, SlotInv, NothingYet
<1>2. CASE StartNewGroups
  BY <1>2, FirstWaitingOk DEF StartNewGroups
<1>3. CASE GetSlot
  <2>1. CASE mainPc' = "gotSlot"
    BY <1>3, <2>1, FirstWaitingOk DEF GetSlot
  <2>2. CASE mainPc' # "gotSlot"
    BY <1>3, <2>2 DEF GetSlot
  <2> QED
    BY <2>1, <2>2
<1>4. CASE StartGroup
  <2>1. CASE Enough
    BY <1>4, <2>1 DEF StartGroup
  <2>2. CASE ~Enough
    <3>1. /\ UNCHANGED <<nntpS, job, disc, curGroup>> /\ mainPc = "gotSlot" /\ mainPc' = "inGroup"
          /\ rpc' = [rpc EXCEPT ![curGroup] = "begun"]
          /\ loc' = [loc EXCEPT ![curGroup].thread = mainSlot, ![curGroup].syncCall = FALSE]
      BY <1>4, <2>2 DEF StartGroup
    <3>2. /\ \A h \in Group : h # curGroup => rpc'[h] = rpc[h] /\ loc'[h] = loc[h]
          /\ curGroup \in Group => loc'[curGroup].thread = mainSlot
      BY <3>1 DEF LocalsType
    <3>3. Visible'
      BY <3>1, <3>2
    <3>4. Still'
      BY <3>1, <3>2
    <3> QED
      BY <3>3, <3>4
  <2> QED
    BY <2>1, <2>2
<1>5. CASE GroupReturned
  BY <1>5 DEF GroupReturned
<1>6. CASE Scan
  <2>1. \A s \in Slots : nntpS[s] \notin Active
    BY <1>6 DEF Scan, AnyRunning
  <2> QED
    BY <1>6, <2>1 DEF Scan
<1>7. CASE ChkActive
  BY <1>7 DEF ChkActive
<1>8. CASE WaitConnect \/ WaitOne \/ Drain \/ NextGroup \/ Settle
  BY <1>8 DEF WaitConnect, WaitOne, Drain, NextGroup, Settle
<1>9. CASE Save \/ WaitDisc
  BY <1>9 DEF Save, WaitDisc
<1> QED
  BY <1>1, <1>2, <1>3, <1>4, <1>5, <1>6, <1>7, <1>8, <1>9 DEF MainNext

\* The steps of the routine the main thread is in.
LEMMA QuietRoutine ==
  ASSUME IInv, Visible, Still, NEW g \in Group, RoutineNext(g), Strategy # 2
  PROVE  Visible' /\ Still'
<1>1. mainPc = "inGroup" /\ curGroup = g /\ UNCHANGED mainVars /\ disc = NoSlot
  BY DEF RoutineNext, MayRun, Still, During, RoutineBegin, SelectOk, SelectFail, LoopExit, RoutineEnd,
    LoopTransit, LoopBody, Pick, TakeAsync, TakeSync, ArticleDone, TakeNone
<1>2. \A h \in Group : h # g => rpc'[h] = rpc[h] /\ loc'[h] = loc[h]
  BY DEF RoutineNext, RoutineBegin, SelectOk, SelectFail, LoopExit, RoutineEnd,
    LoopTransit, LoopBody, Pick, TakeAsync, TakeSync, ArticleDone, TakeNone, RGoto, IInv, TypeOK
<1>3. Still'
  BY <1>1, <1>2 DEF Still, Before, During, Handler, mainVars
<1>4. \A h \in Group : h # g => rpc[h] \in Resting
  BY <1>1 DEF Still
<1>5. Visible'
  <2> USE <1>1, <1>2, <1>4 DEF Visible, Busy, Active, Resting, IInv, TypeOK, mainVars, RGoto, Thread
  <2>1. CASE RoutineBegin(g)
    BY <2>1 DEF RoutineBegin, slotVars
  <2>2. CASE SelectOk(g)
    BY <2>2 DEF SelectOk
  <2>3. CASE SelectFail(g) \/ LoopExit(g) \/ LoopTransit(g)
    <3>1. /\ job' = job /\ rpc[g] # "inArticle" /\ rpc'[g] \notin {"begun", "select"}
          /\ \/ nntpS' = nntpS
             \/ /\ nntpS' = [nntpS EXCEPT ![Thread(g)] = "waiting"]
                /\ Thread(g) \in Slots => Holds(g, Thread(g))
      BY <2>3 DEF SelectFail, LoopExit, LoopTransit, MayTransit, Holds
    <3>2. Thread(g) \in Slots /\ Holds(g, Thread(g)) => job[Thread(g)] = "none"
      BY <3>1 DEF SlotInv, RoutineHas
    <3> QED
      BY <3>1, <3>2
  <2>4. CASE RoutineEnd(g) \/ LoopBody(g) \/ Pick(g) \/ ArticleDone(g) \/ TakeNone(g)
    BY <2>4 DEF RoutineEnd, LoopBody, Pick, ArticleDone, TakeNone, slotVars
  <2>5. CASE TakeAsync(g)
    BY <2>5, FirstWaitingOk DEF TakeAsync
  <2>6. CASE TakeSync(g)
    BY <2>6 DEF TakeSync
  <2> QED
    BY <2>1, <2>2, <2>3, <2>4, <2>5, <2>6 DEF RoutineNext
<1> QED
  BY <1>3, <1>5

LEMMA QuietOthers ==
  ASSUME IInv, Visible, Still,
         \/ UserInterrupt \/ CheckTransfer \/ SigClose \/ SigSave \/ Disconnect
         \/ \E s \in Slots : LinkBreak(s)
         \/ UNCHANGED vars
  PROVE  Visible' /\ Still'
<1> USE DEF IInv, TypeOK, Visible, Still, Busy, Active, Resting, Before, During, Handler, Final, Thread,
            slotVars, groupVars
<1>1. CASE UserInterrupt \/ CheckTransfer
  BY <1>1 DEF UserInterrupt, CheckTransfer, Sigint
<1>2. CASE SigClose \/ SigSave
  BY <1>2 DEF SigClose, SigSave, MainGoto
<1>3. CASE Disconnect
  <2>1. /\ UNCHANGED <<mainPc, curGroup, mainSlot, job, rpc, loc>> /\ disc # NoSlot /\ disc' # NoSlot
        /\ \A s \in Slots : s # disc => nntpS'[s] = nntpS[s]
    BY <1>3, ConstantsOK DEF Disconnect, Slots, NoSlot
  <2> QED
    BY <2>1
<1>4. CASE \E s \in Slots : LinkBreak(s)
  BY <1>4 DEF LinkBreak, mainVars
<1>5. CASE UNCHANGED vars
  BY <1>5 DEF vars, mainVars
<1> QED
  BY <1>1, <1>2, <1>3, <1>4, <1>5

LEMMA QuietNext == QuietInv /\ [Next]_vars => QuietInv'
<1> SUFFICES ASSUME QuietInv, [Next]_vars, Strategy # 2 PROVE Visible' /\ Still'
  BY IInvNext DEF QuietInv
<1>1. IInv /\ Visible /\ Still
  BY DEF QuietInv
<1> QED
  BY <1>1, QuietMain, QuietRoutine, QuietWorker, QuietOthers DEF Next, GroupNext, SlotNext

LEMMA QuietInit == Init => QuietInv
<1> SUFFICES ASSUME Init PROVE QuietInv
  OBVIOUS
<1>1. IInv
  BY TypeInit, SlotInvInit DEF IInv
<1>2. Visible /\ Still
  BY DEF Init, Visible, Still, Busy, Resting, Before
<1> QED
  BY <1>1, <1>2 DEF QuietInv

\* nntpWaitFinished() waits "until every operation has stopped" (news.cc 945-1000):
\* though it looks at the slots and at the routines in turn and not at once, with
\* strategies 0 and 1 no connection is closed under a thread that transfers something.
THEOREM QuietWhenClosed == ASSUME Strategy # 2 PROVE Spec => []QuietAtDisconnect
<1>1. QuietInv => QuietAtDisconnect
  BY DEF QuietInv, Still, QuietAtDisconnect, Busy, Resting
<1> QED
  BY QuietInit, QuietNext, <1>1, PTL DEF Spec

-----------------------------------------------------------------------------
(* The marks: what is assumed of the session, and the invariant.            *)

\* Nobody interrupts the session, the disk takes what is written, and there is
\* no byte limit.
Undisturbed == ~UserAbort /\ ~ThroughputCheck /\ ~DiskFull /\ MaxBytes = 0

\* The connections are sound as long as they are in use ...
NoFaults == MaxFaults = 0 /\ Strategy # 2

\* What the beginning of a header scores decides as the whole header does: no line
\* raises the score of an article above the threshold again.
ScoresFinal == KillCut = Kill

\* ... or may fail, but nothing is marked ahead of its transfer or without one,
\* and no article is killed for the part of its header that came through.
NoGuesses == ~DoXref /\ NotAvail = {} /\ ScoresFinal

\* The server counts each group up to its last article, on Xref lines as well.
NumbersKnown ==
  /\ \A g \in Group : GroupLo[g] <= GroupHi[g] + 1
  /\ \A x \in CrossPost : \A p \in x : p[2] <= GroupHi[p[1]]

GoesWell == Undisturbed /\ (NoFaults \/ NoGuesses)

\* The handler of SIGINT has not been called.
NotAborted == ~doAbortProgram /\ areasOpen /\ mainPc \notin Handler \cup {"exited"}

\* A connection somebody uses is up.
Linked ==
  NoFaults /\ disc = NoSlot =>
    \A s \in Slots : \/ nntp[s].link = "up"
                     \/ nntp[s].link = "closed" /\ nntpS[s] \in {"init", "connecting"}

\* The routine of group g has had its answer to GROUP.
Passed(g) == rpc[g] \notin {"none", "begun", "select"}

\* A routine requests the numbers of its group only.
Ranged ==
  \A g \in Group : rpc[g] \in {"loop", "pick", "take", "inArticle"} =>
    /\ loc[g].artNum >= GroupLo[g]
    /\ ~loc[g].artRequested => loc[g].artNum <= GroupHi[g]

InRange(s) ==
  Fetching(s) =>
    nntp[s].selArticle \in GroupLo[nntp[s].selGroup] .. GroupHi[nntp[s].selGroup]

\* XHDR: the static variables belong to the worker that has xhdrSema.
Overview(s) ==
  /\ job[s] \in {"xhStart", "xhBegin"} => nntp[s].selArticle >= GroupLo[nntp[s].actGroup]
  /\ job[s] \in {"xhBegin", "xhLines"} => xhdr.owner = s
  /\ job[s] = "xhLines" => /\ xhdr.groupName = nntp[s].actGroup
                           /\ xhdr.expNum >= GroupLo[nntp[s].actGroup]

\* The NEXT loop at number k: the connection does not stand at an article behind
\* k and another one between the two, which NEXT would not return.
NoneBetween(g, k, m) == \A a \in Avail(g) : a > k => a > m
Beside(s, g, k) ==
  nntp[s].selNntpArticle <= k \/ NoneBetween(g, k, nntp[s].selNntpArticle)

\* So it is for each number that is still to be requested, unless it has been
\* read meanwhile.
NextSafe(s, g, k) == k \in read[g] \/ Beside(s, g, k)

\* The numbers slot s may be asked for in group g: from artNum on, and the one it
\* is asked for.
Ahead(s, g, k) ==
  k >= loc[g].artNum \/ (Fetching(s) /\ nntp[s].selGroup = g /\ nntp[s].selArticle = k)

NextOk(s) ==
  \A g \in Group : nntp[s].actGroup = g =>
    /\ Passed(g)
    /\ \A k \in Nat : Ahead(s, g, k) => NextSafe(s, g, k)

Missing(s) ==
  \A g \in Group : \A n \in Nat : Art(s) = <<g, n>> =>
    /\ job[s] \in {"artMissing", "artNext"} => n \notin Avail(g) /\ nntp[s].actGroup = g
    /\ job[s] = "artNext" => n \in read[g] /\ Beside(s, g, n)

Stored(s) == job[s] = "artMark" => Art(s) \in written \cup Kill

Good(s) == InRange(s) /\ Overview(s) /\ NextOk(s) /\ Missing(s) /\ Stored(s)

\* An article marked by its Xref line is on its way to the message files.
UnderWay(g, n) ==
  DoXref /\ \E s \in Slots : /\ job[s] \in {"artBody", "artWrite"}
                             /\ <<g, n>> \in XrefPairs(Art(s)[1], Art(s)[2])

Marked == \A g \in Group : \A n \in read[g] : Accounted(g, n) \/ UnderWay(g, n)

DeliveryInv ==
  /\ QuietInv /\ NoSync /\ RequestInv
  /\ NotAborted /\ Linked /\ Ranged
  /\ \A s \in Slots : Good(s)
  /\ Marked /\ SavedIsDelivered
-----------------------------------------------------------------------------
(* What a step leaves as it was.                                             *)

\* Jobs that request no article and no XHDR.
Other == {"none", "connBegin", "connOpen", "ngStart", "ngList"}

\* Routines go forward.
Forward ==
  \A g \in Group : Passed(g) => Passed(g)' /\ loc'[g].artNum >= loc[g].artNum

PassedKeep == \A g \in Group : Passed(g) => read[g] \subseteq read'[g]

\* Nothing happens to the worker of slot t, or it ends.
Untouched(t) ==
  /\ job'[t] = job[t] \/ job'[t] \in Other
  /\ nntp'[t].actGroup = nntp[t].actGroup
  /\ nntp'[t].selNntpArticle = nntp[t].selNntpArticle
  /\ job'[t] \notin Other => /\ nntp'[t].selGroup = nntp[t].selGroup
                             /\ nntp'[t].selArticle = nntp[t].selArticle
                             /\ xhdr.owner = t => xhdr' = xhdr

\* The connection of slot t stays at its article, and is asked for no other.
Steady(t) ==
  /\ nntp'[t].actGroup = nntp[t].actGroup
  /\ nntp'[t].selNntpArticle = nntp[t].selNntpArticle
  /\ Fetching(t)' => /\ Fetching(t)
                     /\ nntp'[t].selGroup = nntp[t].selGroup
                     /\ nntp'[t].selArticle = nntp[t].selArticle

LEMMA NextOkKept ==
  ASSUME IInv, IInv', NEW t \in Slots, NextOk(t), Steady(t), Forward, PassedKeep
  PROVE  NextOk(t)'
<1> SUFFICES ASSUME NEW g \in Group, nntp'[t].actGroup = g
             PROVE  /\ Passed(g)'
                    /\ \A k \in Nat : Ahead(t, g, k)' => NextSafe(t, g, k)'
  BY DEF NextOk
<1>1. Passed(g) /\ \A k \in Nat : Ahead(t, g, k) => NextSafe(t, g, k)
  BY DEF NextOk, Steady
<1>2. Passed(g)' /\ read[g] \subseteq read'[g] /\ loc'[g].artNum >= loc[g].artNum
  BY <1>1 DEF Forward, PassedKeep
<1>3. ASSUME NEW k \in Nat, Ahead(t, g, k)' PROVE NextSafe(t, g, k)'
  <2>1. Ahead(t, g, k)
    <3>1. loc[g].artNum \in Nat /\ loc'[g].artNum \in Nat
      BY DEF IInv, TypeOK, LocalsType
    <3> QED
      BY <1>2, <1>3, <3>1 DEF Ahead, Steady
  <2> QED
    BY <1>1, <1>2, <2>1 DEF NextSafe, Beside, Steady
<1> QED
  BY <1>2, <1>3

LEMMA GoodKept ==
  ASSUME IInv, IInv', NEW t \in Slots, Good(t), Untouched(t), Forward, PassedKeep,
         RequestInv, written \subseteq written'
  PROVE  Good(t)'
<1>1. InRange(t)'
  BY DEF Good, InRange, Untouched, Fetching, ArticleJobs, Other
<1>2. Overview(t)'
  BY DEF Good, Overview, Untouched, Other
<1>3. NextOk(t)'
  <2>1. Steady(t)
    BY DEF Steady, Untouched, Fetching, Other, ArticleJobs
  <2> QED
    BY <2>1, NextOkKept DEF Good
<1>4. Missing(t)'
  <2> SUFFICES ASSUME NEW g \in Group, NEW n \in Nat, Art(t)' = <<g, n>>,
                      job'[t] \in {"artMissing", "artNext"}
               PROVE  /\ n \notin Avail(g) /\ nntp'[t].actGroup = g
                      /\ job'[t] = "artNext" => n \in read'[g] /\ Beside(t, g, n)'
    BY DEF Missing
  <2>1. Art(t) = <<g, n>> /\ job'[t] = job[t] /\ Fetching(t)
    BY DEF Untouched, Other, Art, Fetching, ArticleJobs
  <2>2. Passed(g)
    BY <2>1 DEF RequestInv, Requests, InOrder, Art, Passed
  <2> QED
    BY <2>1, <2>2 DEF Good, Missing, Untouched, PassedKeep, Beside
<1>5. Stored(t)'
  BY DEF Good, Stored, Untouched, Other, Art
<1> QED
  BY <1>1, <1>2, <1>3, <1>4, <1>5 DEF Good

\* What is on its way stays there or arrives.
LEMMA AccountedKept ==
  ASSUME NEW g \in Group, NEW n, Accounted(g, n), written \subseteq written'
  PROVE  Accounted(g, n)'
  BY DEF Accounted

BodiesKept ==
  DoXref => \A s \in Slots : job[s] \in {"artBody", "artWrite"} =>
    /\ job'[s] \in {"artBody", "artWrite"}
    /\ nntp'[s].selGroup = nntp[s].selGroup /\ nntp'[s].selArticle = nntp[s].selArticle

LEMMA UnderWayKept ==
  ASSUME BodiesKept, NEW g \in Group, NEW n, UnderWay(g, n)
  PROVE  UnderWay(g, n)'
  BY DEF BodiesKept, UnderWay, Art

LEMMA MarkedKept ==
  ASSUME Marked, BodiesKept, written \subseteq written', 
         \A g \in Group : \A n \in read'[g] :
            n \in read[g] \/ Accounted(g, n)' \/ UnderWay(g, n)'
  PROVE  Marked'
  BY AccountedKept, UnderWayKept DEF Marked
-----------------------------------------------------------------------------
(* The routines.                                                             *)

LEMMA RoutineForward ==
  ASSUME IInv, MaxBytes = 0, NEW g \in Group, RoutineNext(g)
  PROVE  Forward
<1>1. \A h \in Group : h # g => rpc'[h] = rpc[h] /\ loc'[h] = loc[h]
  BY DEF RoutineNext, RoutineBegin, SelectOk, SelectFail, LoopExit, RoutineEnd, LoopTransit, LoopBody,
    Pick, TakeAsync, TakeSync, ArticleDone, TakeNone, RGoto, IInv, TypeOK
<1>2. loc[g].artNum \in Nat /\ \A h \in Group : loc[h].artNum \in Nat
  BY DEF IInv, TypeOK, LocalsType
<1>3. ASSUME Passed(g) PROVE Passed(g)' /\ loc'[g].artNum >= loc[g].artNum
  <2> USE <1>2, <1>3 DEF Passed, RGoto, IInv, TypeOK
  <2>1. CASE RoutineBegin(g) \/ SelectOk(g) \/ SelectFail(g)
    BY <2>1 DEF RoutineBegin, SelectOk, SelectFail
  <2>2. CASE LoopExit(g) \/ RoutineEnd(g) \/ LoopBody(g) \/ TakeSync(g)
    BY <2>2 DEF LoopExit, RoutineEnd, LoopBody, TakeSync
  <2>3. CASE LoopTransit(g)
    BY <2>3 DEF LoopTransit, LocalsType
  <2>4. CASE Pick(g)
    <3> DEFINE n == NextUnread(read[g], loc[g].artNum, GroupHi[g])
    <3>1. n >= loc[g].artNum
      BY NextUnreadEffect, RoutineTypes
    <3>2. loc'[g].artNum = IF loc[g].artRequested THEN n ELSE loc[g].artNum
      BY <2>4 DEF Pick, LocalsType
    <3> HIDE DEF n
    <3> QED
      BY <2>4, <3>1, <3>2 DEF Pick
  <2>5. CASE TakeAsync(g) \/ ArticleDone(g) \/ TakeNone(g)
    <3>1. ~Enough
      BY DEF Enough
    <3>2. loc'[g].artNum \in {loc[g].artNum, loc[g].artNum + 1} /\ rpc'[g] = "loop"
      BY <2>5, <3>1 DEF TakeAsync, ArticleDone, TakeNone, EnoughArt, LocalsType
    <3> QED
      BY <3>2
  <2> QED
    BY <2>1, <2>2, <2>3, <2>4, <2>5 DEF RoutineNext
<1> QED
  BY <1>1, <1>2, <1>3 DEF Forward, Passed

LEMMA RoutineRanged ==
  ASSUME IInv, Ranged, MaxBytes = 0, NEW g \in Group, RoutineNext(g)
  PROVE  Ranged'
<1>1. \A h \in Group : h # g => rpc'[h] = rpc[h] /\ loc'[h] = loc[h]
  BY DEF RoutineNext, RoutineBegin, SelectOk, SelectFail, LoopExit, RoutineEnd, LoopTransit, LoopBody,
    Pick, TakeAsync, TakeSync, ArticleDone, TakeNone, RGoto, IInv, TypeOK
<1>2. /\ loc[g].artNum \in Nat /\ loc[g].artRequested \in BOOLEAN
      /\ GroupLo[g] \in Nat /\ GroupHi[g] \in Nat
  BY RoutineTypes
<1>3. SUFFICES ASSUME rpc'[g] \in {"loop", "pick", "take", "inArticle"}
               PROVE  /\ loc'[g].artNum >= GroupLo[g]
                      /\ ~loc'[g].artRequested => loc'[g].artNum <= GroupHi[g]
  BY <1>1 DEF Ranged
<1> USE <1>2, <1>3 DEF Ranged, RGoto, IInv, TypeOK
<1>4. CASE RoutineBegin(g) \/ SelectFail(g) \/ LoopExit(g) \/ RoutineEnd(g)
  BY <1>4 DEF RoutineBegin, SelectFail, LoopExit, RoutineEnd
<1>5. CASE SelectOk(g)
  BY <1>5, NextUnreadEffect DEF SelectOk, LocalsType
<1>6. CASE LoopTransit(g) \/ LoopBody(g) \/ TakeSync(g)
  BY <1>6 DEF LoopTransit, LoopBody, TakeSync, LocalsType
<1>7. CASE Pick(g)
  <2> DEFINE n == NextUnread(read[g], loc[g].artNum, GroupHi[g])
  <2>1. n \in Nat /\ n >= loc[g].artNum
    BY NextUnreadEffect
  <2>2. CASE loc[g].artRequested
    <3>1. loc'[g].artNum = n /\ loc'[g].artRequested = (n > GroupHi[g])
      BY <1>7, <2>2 DEF Pick, LocalsType
    <3> HIDE DEF n
    <3> QED
      BY <1>7, <2>1, <3>1 DEF Pick
  <2>3. CASE ~loc[g].artRequested
    BY <1>7, <2>3 DEF Pick
  <2> QED
    BY <2>2, <2>3
<1>8. CASE TakeAsync(g) \/ ArticleDone(g)
  <2>1. ~Enough
    BY DEF Enough
  <2>2. /\ loc'[g].artNum = loc[g].artNum + 1 /\ loc'[g].artRequested
        /\ rpc[g] \in {"take", "inArticle"}
    BY <1>8, <2>1 DEF TakeAsync, ArticleDone, EnoughArt, LocalsType
  <2> QED
    BY <2>2
<1>9. CASE TakeNone(g)
  BY <1>9 DEF TakeNone, EnoughArt, Enough, LocalsType
<1> QED
  BY <1>4, <1>5, <1>6, <1>7, <1>8, <1>9 DEF RoutineNext

LEMMA RoutinePassedKeep ==
  ASSUME IInv, NEW g \in Group, RoutineNext(g)
  PROVE  PassedKeep
<1>1. CASE SelectOk(g)
  BY <1>1 DEF SelectOk, IInv, TypeOK, PassedKeep, Passed
<1>2. CASE ~SelectOk(g)
  BY <1>2 DEF RoutineNext, RoutineBegin, SelectFail, LoopExit, RoutineEnd, LoopTransit,
    LoopBody, Pick, TakeAsync, TakeSync, ArticleDone, TakeNone, newsVars, PassedKeep
<1> QED
  BY <1>1, <1>2

\* A routine starts an article worker on slot t.
LEMMA GoodTake ==
  ASSUME IInv, IInv', RequestInv, Ranged, Forward, PassedKeep, NEW g \in Group, NEW t,
         t \in Slots => job[t] = "none" /\ Good(t),
         rpc[g] = "take", ~loc[g].artRequested,
         Select(t, g, loc[g].artNum), job' = [job EXCEPT ![t] = "artStart"],
         UNCHANGED <<xhdr, written>>,
         \A s \in Slots : Good(s)
  PROVE  \A s \in Slots : Good(s)'
<1> SUFFICES ASSUME NEW s \in Slots PROVE Good(s)'
  OBVIOUS
<1>1. CASE s # t
  <2>1. job'[s] = job[s] /\ nntp'[s] = nntp[s]
    BY <1>1 DEF Select, IInv, TypeOK
  <2>2. Untouched(s)
    BY <2>1 DEF Untouched
  <2> QED
    BY <2>2, GoodKept
<1>2. CASE s = t
  <2> DEFINE a == loc[g].artNum
  <2>1. /\ job'[s] = "artStart" /\ nntp'[s].selGroup = g /\ nntp'[s].selArticle = a
        /\ nntp'[s].actGroup = nntp[s].actGroup
        /\ nntp'[s].selNntpArticle = nntp[s].selNntpArticle
    BY <1>2 DEF Select, IInv, TypeOK, SlotType
  <2>2. a \in Nat /\ a >= GroupLo[g] /\ a <= GroupHi[g] /\ GroupLo[g] \in Nat /\ GroupHi[g] \in Nat
    BY RoutineTypes DEF Ranged
  <2>3. InRange(s)'
    BY <2>1, <2>2 DEF InRange
  <2>4. Overview(s)' /\ Missing(s)' /\ Stored(s)'
    BY <2>1 DEF Overview, Missing, Stored
  <2>5. NextOk(s)'
    <3> SUFFICES ASSUME NEW h \in Group, nntp'[s].actGroup = h
                 PROVE  /\ Passed(h)'
                        /\ \A k \in Nat : Ahead(s, h, k)' => NextSafe(s, h, k)'
      BY DEF NextOk
    <3>1. Passed(h) /\ \A k \in Nat : Ahead(s, h, k) => NextSafe(s, h, k)
      BY <1>2, <2>1 DEF Good, NextOk
    <3>2. Passed(h)' /\ read[h] \subseteq read'[h] /\ loc'[h].artNum >= loc[h].artNum
      BY <3>1 DEF Forward, PassedKeep
    <3>3. loc[h].artNum \in Nat /\ loc'[h].artNum \in Nat
      BY DEF IInv, TypeOK, LocalsType
    <3>4. ASSUME NEW k \in Nat, Ahead(s, h, k)' PROVE Ahead(s, h, k)
      <4>1. k >= loc'[h].artNum \/ (h = g /\ k = a)
        BY <2>1, <3>4 DEF Ahead
      <4> QED
        BY <2>2, <3>2, <3>3, <4>1 DEF Ahead
    <3> QED
      BY <2>1, <3>1, <3>2, <3>4 DEF NextSafe, Beside
  <2> QED
    BY <2>3, <2>4, <2>5 DEF Good
<1> QED
  BY <1>1, <1>2

LEMMA GoodSelectOk ==
  ASSUME IInv, IInv', RequestInv, Forward, PassedKeep, NEW g \in Group, SelectOk(g),
         \A s \in Slots : Good(s)
  PROVE  \A s \in Slots : Good(s)'
<1> DEFINE t == Thread(g)
           S == FixRead(read[g], GroupLo[g], GroupHi[g])
           n == NextUnread(S, GroupLo[g], GroupHi[g])
<1>1. n \in Nat /\ n >= GroupLo[g]
  BY RoutineTypes, NextUnreadEffect
<1>2. t \in Slots => job[t] = "none"
  BY DEF SelectOk, IInv, SlotInv, RoutineHas, Holds
<1>3. UNCHANGED <<xhdr, written>> /\ rpc'[g] = "loop"
  BY DEF SelectOk, RGoto, IInv, TypeOK
<1>4. t \in Slots => /\ nntp'[t].actGroup = g /\ nntp'[t].selNntpArticle = -1
                     /\ \/ job'[t] = "none"
                        \/ job'[t] = "xhStart" /\ nntp'[t].selArticle = n
  BY <1>2 DEF SelectOk, IInv, TypeOK, SlotType
<1>5. \A s \in Slots : s # t => job'[s] = job[s] /\ nntp'[s] = nntp[s]
  BY DEF SelectOk, IInv, TypeOK
<1> HIDE DEF t, n
<1> SUFFICES ASSUME NEW s \in Slots PROVE Good(s)'
  OBVIOUS
<1>6. CASE s # t
  <2>1. Untouched(s)
    BY <1>3, <1>5, <1>6 DEF Untouched
  <2> QED
    BY <1>3, <2>1, GoodKept
<1>7. CASE s = t
  <2>1. ~Fetching(s)'
    BY <1>4, <1>7 DEF Fetching, ArticleJobs
  <2>2. NextOk(s)'
    BY <1>3, <1>4, <1>7 DEF NextOk, Passed, NextSafe, Beside
  <2>3. Overview(s)'
    BY <1>1, <1>4, <1>7 DEF Overview
  <2>4. InRange(s)' /\ Missing(s)' /\ Stored(s)'
    BY <1>4, <1>7, <2>1 DEF InRange, Missing, Stored
  <2> QED
    BY <2>2, <2>3, <2>4 DEF Good
<1> QED
  BY <1>6, <1>7

LEMMA GoodSelectFail ==
  ASSUME IInv, IInv', RequestInv, Forward, PassedKeep, NEW g \in Group, SelectFail(g),
         \A s \in Slots : Good(s)
  PROVE  \A s \in Slots : Good(s)'
<1> DEFINE t == Thread(g)
<1>1. t \in Slots => job[t] = "none"
  BY DEF SelectFail, IInv, SlotInv, RoutineHas, Holds
<1>2. UNCHANGED <<xhdr, written, job>>
  BY DEF SelectFail, newsVars
<1>3. t \in Slots => nntp'[t].actGroup = NoGroup
  BY DEF SelectFail, IInv, TypeOK, SlotType
<1>4. \A s \in Slots : s # t => nntp'[s] = nntp[s]
  BY DEF SelectFail, IInv, TypeOK
<1> HIDE DEF t
<1> SUFFICES ASSUME NEW s \in Slots PROVE Good(s)'
  OBVIOUS
<1>5. CASE s # t
  <2>1. Untouched(s)
    BY <1>2, <1>4, <1>5 DEF Untouched
  <2> QED
    BY <1>2, <2>1, GoodKept
<1>6. CASE s = t
  <2>1. NoGroup \notin Group
    BY DEF NoGroup, Group
  <2>2. NextOk(s)'
    BY <1>3, <1>6, <2>1 DEF NextOk
  <2>3. InRange(s)' /\ Overview(s)' /\ Missing(s)' /\ Stored(s)'
    BY <1>1, <1>2, <1>6 DEF InRange, Overview, Missing, Stored, Fetching, ArticleJobs
  <2> QED
    BY <2>2, <2>3 DEF Good
<1> QED
  BY <1>5, <1>6

LEMMA RoutineGood ==
  ASSUME IInv, IInv', RequestInv, Ranged, MaxBytes = 0, NEW g \in Group, RoutineNext(g),
         \A s \in Slots : Good(s)
  PROVE  \A s \in Slots : Good(s)'
<1>1. Forward /\ PassedKeep
  BY RoutineForward, RoutinePassedKeep
<1>2. CASE TakeAsync(g)
  <2> DEFINE t == FirstWaiting
  <2>1. t \in Slots /\ job[t] = "none"
    BY <1>2, FirstWaitingOk DEF TakeAsync, IInv, SlotInv, WorkerHas
  <2>2. /\ rpc[g] = "take" /\ ~loc[g].artRequested /\ Select(t, g, loc[g].artNum)
        /\ job' = [job EXCEPT ![t] = "artStart"] /\ UNCHANGED <<xhdr, written>>
    BY <1>2 DEF TakeAsync, newsVars
  <2> HIDE DEF t
  <2> QED
    BY <1>1, <2>1, <2>2, GoodTake
<1>3. CASE TakeSync(g)
  <2> DEFINE t == Thread(g)
  <2>1. t \in Slots => job[t] = "none"
    BY <1>3 DEF TakeSync, IInv, SlotInv, RoutineHas, Holds
  <2>2. /\ rpc[g] = "take" /\ ~loc[g].artRequested /\ Select(t, g, loc[g].artNum)
        /\ job' = [job EXCEPT ![t] = "artStart"] /\ UNCHANGED <<xhdr, written>>
    BY <1>3 DEF TakeSync, newsVars
  <2> HIDE DEF t
  <2> QED
    BY <1>1, <2>1, <2>2, GoodTake
<1>4. CASE SelectOk(g)
  BY <1>1, <1>4, GoodSelectOk
<1>5. CASE SelectFail(g)
  BY <1>1, <1>5, GoodSelectFail
<1>6. CASE ~(TakeAsync(g) \/ TakeSync(g) \/ SelectOk(g) \/ SelectFail(g))
  <2>1. UNCHANGED <<job, nntp, xhdr, written>>
    BY <1>6 DEF RoutineNext, RoutineBegin, LoopExit, RoutineEnd, LoopTransit, LoopBody, Pick,
      ArticleDone, TakeNone, slotVars, newsVars
  <2>2. \A s \in Slots : Untouched(s)
    BY <2>1 DEF Untouched
  <2> QED
    BY <1>1, <2>1, <2>2, GoodKept
<1> QED
  BY <1>2, <1>3, <1>4, <1>5, <1>6

LEMMA RoutineLinked ==
  ASSUME QuietInv, NoSync, Linked, NEW g \in Group, RoutineNext(g)
  PROVE  Linked'
<1> SUFFICES ASSUME NoFaults, disc' = NoSlot, NEW s \in Slots
             PROVE  \/ nntp'[s].link = "up"
                    \/ nntp'[s].link = "closed" /\ nntpS'[s] \in {"init", "connecting"}
  BY DEF Linked
<1>1. disc = NoSlot /\ IInv /\ Visible /\ ~loc[g].syncCall
  BY DEF RoutineNext, RoutineBegin, SelectOk, SelectFail, LoopExit, RoutineEnd, LoopTransit, LoopBody,
    Pick, TakeAsync, TakeSync, ArticleDone, TakeNone, mainVars, QuietInv, NoFaults, NoSync
<1>2. \/ nntp[s].link = "up"
      \/ nntp[s].link = "closed" /\ nntpS[s] \in {"init", "connecting"}
  BY <1>1 DEF Linked
<1> USE DEF IInv, TypeOK, SlotType
<1>3. nntp'[s].link = nntp[s].link
  BY <1>1 DEF RoutineNext, RoutineBegin, SelectOk, SelectFail, LoopExit, RoutineEnd, LoopTransit,
    LoopBody, Pick, TakeAsync, TakeSync, ArticleDone, TakeNone, Select, slotVars
<1>4. nntpS'[s] = nntpS[s] \/ nntpS[s] \in {"starting", "waiting"}
  <2>1. CASE SelectFail(g)
    BY <1>1, <2>1 DEF SelectFail, Visible
  <2>2. CASE TakeAsync(g)
    BY <2>2, FirstWaitingOk DEF TakeAsync
  <2>3. CASE ~SelectFail(g) /\ ~TakeAsync(g)
    BY <1>1, <2>3 DEF RoutineNext, RoutineBegin, SelectOk, LoopExit, RoutineEnd, LoopTransit,
      LoopBody, Pick, TakeSync, ArticleDone, TakeNone, MayTransit, slotVars
  <2> QED
    BY <2>1, <2>2, <2>3
<1> QED
  BY <1>2, <1>3, <1>4

LEMMA FixReadEffect ==
  ASSUME NEW S, NEW lo \in Nat, NEW hi \in Nat, NEW n \in FixRead(S, lo, hi)
  PROVE  n \in S \/ n \in 1 .. lo - 1
  BY DEF FixRead

LEMMA RoutineMarked ==
  ASSUME IInv, Marked, NEW g \in Group, RoutineNext(g)
  PROVE  Marked'
<1>1. written' = written
  BY DEF RoutineNext, RoutineBegin, SelectOk, SelectFail, LoopExit, RoutineEnd, LoopTransit, LoopBody,
    Pick, TakeAsync, TakeSync, ArticleDone, TakeNone, newsVars
<1>2. BodiesKept
  <2>1. CASE TakeAsync(g) \/ TakeSync(g)
    <3>1. PICK t : /\ Select(t, g, loc[g].artNum) /\ job' = [job EXCEPT ![t] = "artStart"]
                   /\ t \in Slots => job[t] = "none"
      BY <2>1, FirstWaitingOk DEF TakeAsync, TakeSync, IInv, SlotInv, WorkerHas, RoutineHas, Holds
    <3> QED
      BY <3>1 DEF BodiesKept, Select, IInv, TypeOK
  <2>2. CASE SelectOk(g) \/ SelectFail(g)
    <3>1. PICK t : /\ \A s \in Slots : s # t => job'[s] = job[s] /\ nntp'[s] = nntp[s]
                   /\ t \in Slots => job[t] = "none"
      BY <2>2 DEF SelectOk, SelectFail, IInv, TypeOK, SlotInv, RoutineHas, Holds
    <3> QED
      BY <3>1 DEF BodiesKept
  <2>3. CASE ~(TakeAsync(g) \/ TakeSync(g) \/ SelectOk(g) \/ SelectFail(g))
    BY <2>3 DEF BodiesKept, RoutineNext, RoutineBegin, LoopExit, RoutineEnd, LoopTransit, LoopBody,
      Pick, ArticleDone, TakeNone, slotVars
  <2> QED
    BY <2>1, <2>2, <2>3
<1>3. ASSUME NEW h \in Group, NEW n \in read'[h] PROVE n \in read[h] \/ Accounted(h, n)'
  <2>1. CASE SelectOk(g) /\ h = g
    <3>1. n \in FixRead(read[g], GroupLo[g], GroupHi[g])
      BY <2>1 DEF SelectOk, IInv, TypeOK
    <3>2. n \in read[h] \/ n \in 1 .. GroupLo[g] - 1
      BY <2>1, <3>1, FixReadEffect, RoutineTypes
    <3>3. n \in 1 .. GroupLo[g] - 1 => n < GroupLo[g]
      BY RoutineTypes
    <3> QED
      BY <2>1, <3>2, <3>3 DEF Accounted
  <2>2. CASE ~(SelectOk(g) /\ h = g)
    BY <2>2 DEF RoutineNext, RoutineBegin, SelectOk, SelectFail, LoopExit, RoutineEnd, LoopTransit,
      LoopBody, Pick, TakeAsync, TakeSync, ArticleDone, TakeNone, newsVars, IInv, TypeOK
  <2> QED
    BY <2>1, <2>2
<1> QED
  BY <1>1, <1>2, <1>3, MarkedKept
-----------------------------------------------------------------------------
(* The numbers the NEXT loop and XHDR mark.                                  *)

LEMMA SetMaxInSet ==
  ASSUME NEW S, NEW hi \in Int, S \subseteq Int, \A x \in S : x <= hi, S # {}
  PROVE  SetMax(S) \in S /\ \A n \in S : n <= SetMax(S)
<1> DEFINE T == {hi - x : x \in S}
<1>1. T \subseteq Nat /\ T # {}
  <2>1. PICK x \in S : TRUE
    OBVIOUS
  <2>2. hi - x \in T
    OBVIOUS
  <2>3. ASSUME NEW y \in S PROVE hi - y \in Nat
    <3>1. y \in Int /\ y <= hi
      OBVIOUS
    <3> QED
      BY <3>1
  <2> QED
    BY <2>2, <2>3
<1>2. SetMin(T) \in T /\ \A t \in T : SetMin(T) <= t
  BY <1>1, SetMinInSet
<1>3. PICK m \in S : SetMin(T) = hi - m
  BY <1>2
<1>4. ASSUME NEW n \in S PROVE n <= m
  <2>1. hi - n \in T
    OBVIOUS
  <2>2. hi - m <= hi - n
    BY <1>2, <1>3, <2>1
  <2>3. m \in Int /\ n \in Int
    OBVIOUS
  <2> QED
    BY <2>2, <2>3
<1> QED
  BY <1>4 DEF SetMax

\* From a connection that is beside n, the loop marks only numbers the server does
\* not have, and moves the connection beside all the numbers behind n.
LEMMA NextHolesEffect ==
  ASSUME NEW g \in Group, NEW n \in Nat, n >= GroupLo[g], NEW m \in Int, m <= n \/ NoneBetween(g, n, m),
         NEW after, after = {k \in Avail(g) : k > m},
         NEW beyond, beyond = {k \in after : k > n},
         NEW next, next = IF beyond = {} THEN GroupHi[g] ELSE SetMin(beyond)
  PROVE  /\ \A k \in NextHoles(g, n, after) : k \in GroupLo[g] .. GroupHi[g] \ Avail(g)
         /\ \A k \in Nat : k > n =>
              \/ k \in NextHoles(g, n, after) \/ next <= k \/ NoneBetween(g, k, next)
<1> DEFINE upto == after \ beyond
           from == IF upto = {} THEN n ELSE SetMin(upto)
           to   == IF beyond # {} THEN SetMin(beyond)
                   ELSE IF upto = {} THEN GroupHi[g] + 1 ELSE SetMax(upto)
<1>1. /\ GroupLo[g] \in Nat /\ GroupHi[g] \in Nat
      /\ \A k \in Avail(g) : k \in Nat /\ k >= GroupLo[g] /\ k <= GroupHi[g]
  BY RoutineTypes, ConstantsOK DEF Avail
<1>2. upto \subseteq Nat /\ beyond \subseteq Nat /\ after = upto \cup beyond
  BY <1>1
<1>3. NextHoles(g, n, after) = (from + 1 .. to - 1) \ upto
  BY DEF NextHoles
<1>4. upto # {} => SetMin(upto) \in upto
  BY <1>2, SetMinInSet
<1>5. beyond # {} => SetMin(beyond) \in beyond /\ \A k \in beyond : SetMin(beyond) <= k
  BY <1>2, SetMinInSet
<1>6. upto # {} => SetMax(upto) \in upto
  <2>1. \A x \in upto : x <= GroupHi[g]
    BY <1>1
  <2>2. upto \subseteq Int
    BY <1>2
  <2> QED
    BY <1>1, <2>1, <2>2, SetMaxInSet
<1>7. /\ from \in Nat /\ from <= n /\ from >= GroupLo[g]
      /\ upto # {} => from > m
  BY <1>1, <1>4
<1>8. to \in Nat /\ to <= GroupHi[g] + 1 /\ (beyond # {} => to = SetMin(beyond))
  BY <1>1, <1>5, <1>6
<1>9. upto = {} => \A a \in Avail(g) : a > n => a \in beyond
  BY <1>1 DEF NoneBetween
<1> HIDE DEF upto, from, to
<1>10. ASSUME NEW k \in NextHoles(g, n, after) PROVE k \in GroupLo[g] .. GroupHi[g] \ Avail(g)
  <2>1. k \in Nat /\ k > from /\ k < to /\ k \notin upto
    BY <1>3, <1>7, <1>8
  <2>2. k \in GroupLo[g] .. GroupHi[g]
    BY <1>1, <1>7, <1>8, <2>1
  <2>3. ASSUME k \in Avail(g) PROVE FALSE
    <3>1. k \in beyond
      <4>1. CASE upto = {}
        BY <1>9, <2>1, <2>3, <4>1 DEF from
      <4>2. CASE upto # {}
        BY <1>2, <1>7, <2>1, <2>3, <4>2
      <4> QED
        BY <4>1, <4>2
    <3> QED
      BY <1>5, <1>8, <2>1, <3>1
  <2> QED
    BY <2>2, <2>3
<1>11. ASSUME NEW k \in Nat, k > n
       PROVE  k \in NextHoles(g, n, after) \/ next <= k \/ NoneBetween(g, k, next)
  <2>1. CASE beyond = {}
    <3>1. \A a \in Avail(g) : ~(a > n)
      BY <1>1, <2>1 DEF NoneBetween
    <3> QED
      BY <1>1, <1>11, <3>1 DEF NoneBetween
  <2>2. CASE beyond # {}
    <3>1. k \notin upto
      BY <1>11 DEF upto
    <3>2. next = to
      BY <1>8, <2>2
    <3> QED
      BY <1>3, <1>7, <1>8, <1>11, <3>1, <3>2
  <2> QED
    BY <2>1, <2>2
<1> QED
  BY <1>10, <1>11

\* A line of XHDR marks only numbers the server does not have.
LEMMA XhLineEffect ==
  ASSUME NEW g \in Group, NEW e \in Int, e >= GroupLo[g],
         NEW S, S = {n \in Avail(g) : n >= e}, S # {}
  PROVE  /\ SetMin(S) \in Nat /\ SetMin(S) >= e
         /\ \A k \in e .. SetMin(S) - 1 : k \in GroupLo[g] .. GroupHi[g] \ Avail(g)
<1>1. /\ GroupLo[g] \in Nat /\ GroupHi[g] \in Nat
      /\ \A k \in Avail(g) : k \in Nat /\ k >= GroupLo[g] /\ k <= GroupHi[g]
  BY RoutineTypes, ConstantsOK DEF Avail
<1>2. S \subseteq Nat
  BY <1>1
<1>3. SetMin(S) \in S /\ \A k \in S : SetMin(S) <= k
  BY <1>2, SetMinInSet
<1>4. ASSUME NEW k \in e .. SetMin(S) - 1 PROVE k \in GroupLo[g] .. GroupHi[g] \ Avail(g)
  <2>1. k \in Int /\ k >= e /\ k < SetMin(S) /\ SetMin(S) \in Nat
    BY <1>2, <1>3
  <2>2. ASSUME k \in S PROVE FALSE
    <3>1. SetMin(S) <= k
      BY <1>3, <2>2
    <3> QED
      BY <2>1, <3>1
  <2>3. SetMin(S) <= GroupHi[g]
    BY <1>1, <1>3
  <2>4. k >= GroupLo[g] /\ k <= GroupHi[g]
    BY <1>1, <2>1, <2>3
  <2> QED
    BY <1>1, <2>1, <2>2, <2>4
<1> QED
  BY <1>2, <1>3, <1>4

LEMMA XrefSymmetric ==
  ASSUME NEW g, NEW n, NEW h, NEW k, <<h, k>> \in XrefPairs(g, n)
  PROVE  <<g, n>> \in XrefPairs(h, k)
  BY DEF XrefPairs

LEMMA MarkMember ==
  ASSUME TypeOK, NEW P, Mark(P), NEW h \in Group, NEW n \in read'[h],
         \A p \in P : p = <<p[1], p[2]>>
  PROVE  n \in read[h] \/ <<h, n>> \in P
  BY DEF Mark, TypeOK

LEMMA MarkAdds ==
  ASSUME NEW P, Mark(P), NEW h \in Group, NEW n, <<h, n>> \in P
  PROVE  n \in read'[h]
<1> DEFINE Q == {q \in P : q[1] = h}
<1>1. read'[h] = read[h] \cup {p[2] : p \in Q}
  BY DEF Mark
<1>2. <<h, n>> \in Q /\ <<h, n>>[2] = n
  OBVIOUS
<1> HIDE DEF Q
<1> QED
  BY <1>1, <1>2

LEMMA XrefTuples ==
  ASSUME NEW g, NEW n
  PROVE  \A p \in XrefPairs(g, n) : p = <<p[1], p[2]>>
<1> SUFFICES ASSUME NEW p \in XrefPairs(g, n) PROVE p = <<p[1], p[2]>>
  OBVIOUS
<1>1. CASE \E x \in CrossPost : p \in x
  <2>1. p \in Group \X Nat
    BY <1>1, ConstantsOK
  <2> QED
    BY <2>1
<1>2. CASE p = <<g, n>>
  BY <1>2
<1>3. (\E x \in CrossPost : p \in x) \/ p = <<g, n>>
  <2> DEFINE U == {x \in CrossPost : <<g, n>> \in x}
  <2>1. p \in UNION U \/ p = <<g, n>>
    BY DEF XrefPairs
  <2>2. U \subseteq CrossPost
    OBVIOUS
  <2> HIDE DEF U
  <2> QED
    BY <2>1, <2>2
<1> QED
  BY <1>1, <1>2, <1>3
-----------------------------------------------------------------------------
(* The workers.                                                              *)

\* With sound connections the server answers whoever works on one.
LEMMA SoundAnswers ==
  ASSUME QuietInv, NotAborted, Linked, NoFaults, NEW s \in Slots, Busy(s)
  PROVE  nntp[s].link = "up" /\ Answers(s) /\ ~Breaks(s)
<1>1. disc = NoSlot /\ nntpS[s] \in Active
  BY DEF QuietInv, NoFaults, Still, Visible
<1>2. nntp[s].link = "up"
  BY <1>1 DEF Linked, Active
<1> QED
  BY <1>2 DEF Answers, Breaks, NotAborted

LEMMA WorkerFrame ==
  ASSUME IInv, NEW s \in Slots, WorkerNext(s)
  PROVE  /\ UNCHANGED <<mainPc, mainVars, rpc, loc, groupVars, endVars, stopOperation>>
         /\ written \subseteq written' /\ Forward /\ PassedKeep
         /\ \A t \in Slots : t # s => job'[t] = job[t] /\ nntp'[t] = nntp[t]
<1>1. UNCHANGED <<mainVars, groupVars>> /\ MarksKept
  BY WorkerKeeps, WorkerMarks DEF IInv
<1>2. UNCHANGED <<endVars, stopOperation>> /\ written \subseteq written'
  BY DEF WorkerNext, ConnBegin, ConnOk, ConnFail, NgStart, NgList, XhStart, XhBegin, XhRefused,
    XhLine, XhEnd, ArtStart, HeadOk, HeadNotAvail, HeadFail, LinesOk, LinesCut, BodyOk, BodyFail,
    ArtWrite, ArtMark, ArtMissing, ArtNext, ArtFail, newsVars
<1>3. \A t \in Slots : t # s => job'[t] = job[t] /\ nntp'[t] = nntp[t]
  BY DEF WorkerNext, ConnBegin, ConnOk, ConnFail, NgStart, NgList, XhStart, XhBegin, XhRefused,
    XhLine, XhEnd, ArtStart, HeadOk, HeadNotAvail, HeadFail, LinesOk, LinesCut, BodyOk, BodyFail,
    ArtWrite, ArtMark, ArtMissing, ArtNext, ArtFail, Finished, JobGoto, IInv, TypeOK
<1>4. Forward
  <2>1. \A g \in Group : loc[g].artNum \in Nat
    BY DEF IInv, TypeOK, LocalsType
  <2> QED
    BY <1>1, <2>1 DEF groupVars, Forward, Passed
<1> QED
  BY <1>1, <1>2, <1>3, <1>4 DEF mainVars, groupVars, MarksKept, PassedKeep

LEMMA OthersUntouched ==
  ASSUME IInv, NEW s \in Slots, WorkerNext(s), Overview(s), NEW t \in Slots, t # s
  PROVE  Untouched(t)
<1>1. job'[t] = job[t] /\ nntp'[t] = nntp[t]
  BY WorkerFrame
<1>2. xhdr.owner = t => xhdr' = xhdr
  <2>1. t # NoSlot
    BY ConstantsOK DEF Slots, NoSlot
  <2>2. CASE XhStart(s)
    BY <2>1, <2>2 DEF XhStart
  <2>3. CASE XhBegin(s) \/ XhRefused(s) \/ XhLine(s) \/ XhEnd(s)
    BY <2>3 DEF XhBegin, XhRefused, XhLine, XhEnd, JobGoto, Overview
  <2>4. CASE ~(XhStart(s) \/ XhBegin(s) \/ XhRefused(s) \/ XhLine(s) \/ XhEnd(s))
    BY <2>4 DEF WorkerNext, ConnBegin, ConnOk, ConnFail, NgStart, NgList, ArtStart, HeadOk,
      HeadNotAvail, HeadFail, LinesOk, LinesCut, BodyOk, BodyFail, ArtWrite, ArtMark, ArtMissing,
      ArtNext, ArtFail
  <2> QED
    BY <2>2, <2>3, <2>4
<1> QED
  BY <1>1, <1>2 DEF Untouched

\* What a worker at an article knows of it.
LEMMA AtArticle ==
  ASSUME RequestInv, NEW s \in Slots, Fetching(s), InRange(s)
  PROVE  /\ nntp[s].selGroup \in Group /\ Passed(nntp[s].selGroup)
         /\ nntp[s].selArticle \in Nat
         /\ nntp[s].selArticle \in GroupLo[nntp[s].selGroup] .. GroupHi[nntp[s].selGroup]
         /\ nntp[s].selArticle <= loc[nntp[s].selGroup].artNum
         /\ loc[nntp[s].selGroup].artNum \in Nat
<1>1. IInv /\ nntp[s].selGroup \in Group /\ InOrder(s)
  BY DEF RequestInv, IInv, GroupKnown, Fetching, Requests
<1>2. loc[nntp[s].selGroup].artNum \in Nat /\ nntp[s].selArticle \in Int
  BY <1>1, RoutineTypes
<1>3. GroupLo[nntp[s].selGroup] \in Nat
  BY <1>1, RoutineTypes
<1> QED
  BY <1>1, <1>2, <1>3 DEF InRange, InOrder, Requested, Passed

\* A worker goes on with its article, the connection where it is.
LEMMA GoodOnward ==
  ASSUME IInv, IInv', NEW s \in Slots, Good(s), Fetching(s), Forward, PassedKeep,
         nntp'[s].actGroup = nntp[s].actGroup,
         nntp'[s].selNntpArticle = nntp[s].selNntpArticle,
         nntp'[s].selGroup = nntp[s].selGroup, nntp'[s].selArticle = nntp[s].selArticle,
         job'[s] \in {"artHead", "artLines", "artBody", "artWrite", "artFail", "artMark"},
         job'[s] = "artMark" => Art(s)' \in written' \cup Kill
  PROVE  Good(s)'
<1>1. Steady(s)
  BY DEF Steady
<1>2. NextOk(s)'
  BY <1>1, NextOkKept DEF Good
<1>3. InRange(s)' /\ Overview(s)' /\ Missing(s)' /\ Stored(s)'
  BY DEF Good, InRange, Overview, Missing, Stored
<1> QED
  BY <1>2, <1>3 DEF Good

\* Its connection has moved.
LEMMA GoodMoved ==
  ASSUME IInv, NEW s \in Slots, InRange(s), Fetching(s),
         nntp'[s].selGroup = nntp[s].selGroup, nntp'[s].selArticle = nntp[s].selArticle,
         job'[s] \in {"artLines", "artMissing", "artFail"},
         job'[s] = "artMissing" => ~CanGet(s) /\ nntp'[s].actGroup = nntp[s].selGroup,
         NextOk(s)'
  PROVE  Good(s)'
<1>1. InRange(s)' /\ Overview(s)' /\ Stored(s)'
  BY DEF InRange, Overview, Stored
<1>2. Missing(s)'
  BY DEF Missing, CanGet, Art
<1> QED
  BY <1>1, <1>2 DEF Good

LEMMA GoodHead ==
  ASSUME IInv, IInv', RequestInv, NEW s \in Slots, WorkerNext(s), Good(s),
         HeadOk(s) \/ HeadNotAvail(s) \/ HeadFail(s)
  PROVE  Good(s)'
<1> DEFINE g == nntp[s].selGroup
           n == nntp[s].selArticle
<1>1. Fetching(s) /\ InRange(s) /\ NextOk(s)
  BY DEF HeadOk, HeadNotAvail, HeadFail, JobGoto, Fetching, ArticleJobs, Good
<1>2. g \in Group /\ Passed(g) /\ n \in Nat /\ n <= loc[g].artNum /\ loc[g].artNum \in Nat
  BY <1>1, AtArticle
<1>3. Forward /\ PassedKeep /\ UNCHANGED <<rpc, loc>>
  BY WorkerFrame
<1>4. /\ nntp'[s].selGroup = g /\ nntp'[s].selArticle = n
      /\ job'[s] \in {"artLines", "artMissing", "artFail"}
      /\ job'[s] = "artMissing" => ~CanGet(s) /\ nntp'[s].actGroup = g
  BY DEF HeadOk, HeadNotAvail, HeadFail, JobGoto, IInv, TypeOK, SlotType
<1>5. NextOk(s)'
  <2>1. CASE HeadOk(s)
    <3>1. nntp'[s].actGroup = g /\ nntp'[s].selNntpArticle = n
      BY <2>1 DEF HeadOk, IInv, TypeOK, SlotType
    <3> HIDE DEF g, n
    <3> QED
      BY <1>2, <1>3, <1>4, <3>1 DEF NextOk, Passed, Ahead, NextSafe, Beside
  <2>2. CASE (HeadNotAvail(s) \/ HeadFail(s)) /\ MustSelect(s)
    <3>1. nntp'[s].actGroup \in {g, NoGroup} /\ nntp'[s].selNntpArticle = -1
      BY <2>2 DEF HeadNotAvail, HeadFail, IInv, TypeOK, SlotType
    <3>2. NoGroup \notin Group
      BY DEF NoGroup, Group
    <3> HIDE DEF g, n
    <3> QED
      BY <1>2, <1>3, <3>1, <3>2 DEF NextOk, Passed, NextSafe, Beside
  <2>3. CASE (HeadNotAvail(s) \/ HeadFail(s)) /\ ~MustSelect(s)
    <3>1. nntp'[s].actGroup = nntp[s].actGroup /\ nntp'[s].selNntpArticle = nntp[s].selNntpArticle
      BY <2>3 DEF HeadNotAvail, HeadFail, MustSelect, IInv, TypeOK, SlotType
    <3>2. Steady(s)
      BY <1>1, <1>4, <3>1 DEF Steady
    <3> QED
      BY <1>1, <1>3, <3>2, NextOkKept
  <2> QED
    BY <2>1, <2>2, <2>3
<1> QED
  BY <1>1, <1>4, <1>5, GoodMoved

LEMMA GoodMissing ==
  ASSUME IInv, IInv', RequestInv, NEW s \in Slots, WorkerNext(s), Good(s), ArtMissing(s)
  PROVE  Good(s)'
<1> DEFINE g == nntp[s].selGroup
           n == nntp[s].selArticle
<1>1. Fetching(s) /\ InRange(s) /\ NextOk(s) /\ Missing(s) /\ job[s] = "artMissing"
  BY DEF ArtMissing, Fetching, ArticleJobs, Good
<1>2. g \in Group /\ Passed(g) /\ n \in Nat /\ n <= loc[g].artNum /\ loc[g].artNum \in Nat
  BY <1>1, AtArticle
<1>3. Forward /\ PassedKeep /\ UNCHANGED <<rpc, loc>> /\ written \subseteq written'
  BY WorkerFrame
<1>4. /\ nntp'[s].selGroup = g /\ nntp'[s].selArticle = n
      /\ nntp'[s].actGroup = nntp[s].actGroup /\ nntp'[s].selNntpArticle = nntp[s].selNntpArticle
  BY DEF ArtMissing, IInv, TypeOK, SlotType
<1>5. CASE job'[s] = "none"
  <2>1. Untouched(s)
    BY <1>4, <1>5 DEF Untouched, Other
  <2> QED
    BY <1>3, <2>1, GoodKept
<1>6. CASE job'[s] # "none"
  <2>1. /\ job'[s] = "artNext" /\ n \notin read[g] /\ Mark({Art(s)})
    BY <1>6 DEF ArtMissing, Finished, Art, IInv, TypeOK
  <2>2. n \in read'[g]
    <3>1. <<g, n>> \in {Art(s)}
      BY DEF Art
    <3> QED
      BY <1>2, <2>1, <3>1, MarkAdds
  <2>3. n \notin Avail(g) /\ nntp[s].actGroup = g
    BY <1>1, <1>2 DEF Missing, Art
  <2>4. Ahead(s, g, n)
    BY <1>1 DEF Ahead
  <2>5. NextSafe(s, g, n)
    BY <1>1, <1>2, <2>3, <2>4 DEF NextOk
  <2>6. Beside(s, g, n) /\ Beside(s, g, n)'
    BY <1>4, <2>1, <2>5 DEF NextSafe, Beside
  <2>7. Steady(s)
    BY <1>1, <1>4 DEF Steady
  <2>8. NextOk(s)'
    BY <1>1, <1>3, <2>7, NextOkKept
  <2>9. Missing(s)'
    BY <1>4, <2>1, <2>2, <2>3, <2>6 DEF Missing, Art
  <2>10. InRange(s)' /\ Overview(s)' /\ Stored(s)'
    BY <1>1, <1>4, <2>1 DEF InRange, Overview, Stored
  <2> QED
    BY <2>8, <2>9, <2>10 DEF Good
<1> QED
  BY <1>5, <1>6

LEMMA GoodNext ==
  ASSUME IInv, IInv', RequestInv, NEW s \in Slots, WorkerNext(s), Good(s), ArtNext(s),
         Answers(s)
  PROVE  Good(s)'
<1> DEFINE g == nntp[s].selGroup
           n == nntp[s].selArticle
           m == nntp[s].selNntpArticle
           after == {k \in Avail(g) : k > m}
           beyond == {k \in after : k > n}
           next == IF beyond = {} THEN GroupHi[g] ELSE SetMin(beyond)
<1>1. Fetching(s) /\ InRange(s) /\ Missing(s) /\ job[s] = "artNext"
  BY DEF ArtNext, Fetching, ArticleJobs, Good
<1>2. /\ g \in Group /\ Passed(g) /\ n \in Nat /\ n <= loc[g].artNum /\ loc[g].artNum \in Nat
      /\ n \in GroupLo[g] .. GroupHi[g]
  BY <1>1, AtArticle
<1>3. PassedKeep /\ UNCHANGED <<rpc, loc>>
  BY WorkerFrame
<1>4. n \in read[g] /\ Beside(s, g, n) /\ nntp[s].actGroup = g
  BY <1>1, <1>2 DEF Missing, Art
<1>5. Mark({g} \X NextHoles(g, n, after)) /\ job'[s] = "none"
  BY DEF ArtNext, Art, Finished, IInv, TypeOK
<1>6. nntp'[s].actGroup = g /\ nntp'[s].selNntpArticle = next
  BY <1>4 DEF ArtNext, Art, IInv, TypeOK, SlotType
<1>7. GroupLo[g] \in Nat /\ m \in Int
  BY <1>2, RoutineTypes DEF IInv, TypeOK, SlotType
<1>8. \A k \in Nat : k > n => k \in NextHoles(g, n, after) \/ next <= k \/ NoneBetween(g, k, next)
  <2>1. m <= n \/ NoneBetween(g, n, m)
    BY <1>4 DEF Beside
  <2>2. n >= GroupLo[g]
    BY <1>2, <1>7
  <2> HIDE DEF g, n, m, after, beyond, next
  <2>3. /\ after = {k \in Avail(g) : k > m} /\ beyond = {k \in after : k > n}
        /\ next = IF beyond = {} THEN GroupHi[g] ELSE SetMin(beyond)
    BY DEF after, beyond, next
  <2> QED
    BY <1>2, <1>7, <2>1, <2>2, <2>3, NextHolesEffect
<1> HIDE DEF after, beyond, next
<1>9. NextOk(s)'
  <2> SUFFICES ASSUME NEW h \in Group, nntp'[s].actGroup = h
               PROVE  /\ Passed(h)'
                      /\ \A k \in Nat : Ahead(s, h, k)' => NextSafe(s, h, k)'
    BY DEF NextOk
  <2>1. h = g
    BY <1>6
  <2>2. Passed(h)'
    BY <1>2, <1>3, <2>1 DEF Passed
  <2>3. ASSUME NEW k \in Nat, Ahead(s, h, k)' PROVE NextSafe(s, h, k)'
    <3>1. k >= n
      BY <1>2, <1>3, <1>5, <2>1, <2>3 DEF Ahead, Fetching, ArticleJobs
    <3>2. read[h] \subseteq read'[h] /\ \A j \in NextHoles(g, n, after) : j \in read'[h]
      <4>1. \A j \in NextHoles(g, n, after) : <<g, j>> \in {g} \X NextHoles(g, n, after)
        OBVIOUS
      <4> QED
        BY <1>2, <1>3, <1>5, <2>1, <4>1, MarkAdds DEF PassedKeep
    <3>3. CASE k = n
      BY <1>4, <2>1, <3>2, <3>3 DEF NextSafe
    <3>4. CASE k # n
      <4>1. k \in NextHoles(g, n, after) \/ next <= k \/ NoneBetween(g, k, next)
        BY <1>2, <1>8, <3>1, <3>4
      <4> QED
        BY <1>6, <2>1, <3>2, <4>1 DEF NextSafe, Beside
    <3> QED
      BY <3>3, <3>4
  <2> QED
    BY <2>2, <2>3
<1>10. InRange(s)' /\ Overview(s)' /\ Missing(s)' /\ Stored(s)'
  BY <1>5 DEF InRange, Overview, Missing, Stored, Fetching, ArticleJobs
<1> QED
  BY <1>9, <1>10 DEF Good

\* The worker of XHDR goes on.
LEMMA OverviewXhdr ==
  ASSUME IInv, IInv', NEW s \in Slots, Overview(s), WorkerNext(s),
         XhStart(s) \/ XhBegin(s) \/ XhLine(s), job'[s] \notin Other
  PROVE  Overview(s)'
<1>1. UNCHANGED nntp
  BY DEF XhStart, XhBegin, XhLine
<1>2. CASE XhStart(s)
  BY <1>1, <1>2 DEF XhStart, JobGoto, Overview, Other, IInv, TypeOK
<1>3. CASE XhBegin(s)
  BY <1>1, <1>3 DEF XhBegin, JobGoto, Overview, IInv, TypeOK
<1>4. CASE XhLine(s)
  <2> DEFINE g == nntp[s].actGroup
             S == XhComing(s)
  <2>1. /\ g \in Group /\ xhdr.expNum >= GroupLo[g] /\ xhdr.expNum \in Int
        /\ xhdr.groupName = g /\ xhdr.owner = s /\ S # {} /\ GroupLo[g] \in Nat
    BY <1>4, RoutineTypes DEF XhLine, IInv, GroupKnown, TypeOK, Overview
  <2>2. SetMin(S) \in Nat /\ SetMin(S) >= xhdr.expNum
    BY <2>1, XhLineEffect DEF XhComing
  <2>3. xhdr'.expNum = SetMin(S) + 1 /\ xhdr'.groupName = xhdr.groupName
        /\ xhdr'.owner = s /\ job'[s] = "xhLines"
    BY <1>4 DEF XhLine, Other, IInv, TypeOK
  <2> HIDE DEF S
  <2>4. xhdr'.expNum >= GroupLo[g]
    BY <2>1, <2>2, <2>3
  <2> QED
    BY <1>1, <2>1, <2>3, <2>4 DEF Overview
<1> QED
  BY <1>2, <1>3, <1>4

LEMMA GoodXhdr ==
  ASSUME IInv, IInv', NEW s \in Slots, Good(s), WorkerNext(s), XhStart(s) \/ XhBegin(s) \/ XhLine(s),
         Untouched(s) => Good(s)'
  PROVE  Good(s)'
<1>1. UNCHANGED nntp /\ Forward /\ PassedKeep
  BY WorkerFrame DEF XhStart, XhBegin, XhLine
<1>2. CASE job'[s] \in Other
  BY <1>1, <1>2 DEF Untouched
<1>3. CASE job'[s] \notin Other
  <2>1. job'[s] \in {"xhBegin", "xhLines"}
    BY <1>3 DEF XhStart, XhBegin, XhLine, JobGoto, Other, IInv, TypeOK
  <2>2. NextOk(s)'
    <3>1. Steady(s)
      BY <1>1, <2>1 DEF Steady, Fetching, ArticleJobs
    <3> QED
      BY <1>1, <3>1, NextOkKept DEF Good
  <2>3. Overview(s)'
    BY <1>3, OverviewXhdr DEF Good
  <2>4. InRange(s)' /\ Missing(s)' /\ Stored(s)'
    BY <2>1 DEF InRange, Missing, Stored, Fetching, ArticleJobs
  <2> QED
    BY <2>2, <2>3, <2>4 DEF Good
<1> QED
  BY <1>2, <1>3

\* Without holes in the numbers no article is missing.
LEMMA NothingMissing ==
  ASSUME RequestInv, NotAvail = {}, NEW s \in Slots, Good(s)
  PROVE  job[s] \notin {"artMissing", "artNext"}
<1> SUFFICES ASSUME job[s] \in {"artMissing", "artNext"} PROVE FALSE
  OBVIOUS
<1>1. Fetching(s) /\ InRange(s) /\ Missing(s)
  BY DEF Fetching, ArticleJobs, Good
<1>2. /\ nntp[s].selGroup \in Group /\ nntp[s].selArticle \in Nat
      /\ nntp[s].selArticle \in GroupLo[nntp[s].selGroup] .. GroupHi[nntp[s].selGroup]
  BY <1>1, AtArticle
<1>3. nntp[s].selArticle \notin Avail(nntp[s].selGroup)
  BY <1>1, <1>2 DEF Missing, Art
<1> QED
  BY <1>2, <1>3 DEF Avail

LEMMA WorkerGood ==
  ASSUME DeliveryInv, IInv', GoesWell, NEW s \in Slots, WorkerNext(s)
  PROVE  \A t \in Slots : Good(t)'
<1>1. /\ IInv /\ RequestInv /\ Good(s) /\ Overview(s)
      /\ Forward /\ PassedKeep /\ written \subseteq written'
  BY WorkerFrame DEF DeliveryInv, QuietInv, Good
<1>2. ASSUME NEW t \in Slots, Untouched(t) PROVE Good(t)'
  BY <1>1, <1>2, GoodKept DEF DeliveryInv
<1>3. ASSUME NEW t \in Slots, t # s PROVE Good(t)'
  BY <1>1, <1>2, <1>3, OthersUntouched
<1>4. Good(s)'
  <2> USE DEF JobGoto, Finished, IInv, TypeOK, SlotType
  <2>1. CASE ConnBegin(s) \/ ConnOk(s) \/ ConnFail(s) \/ NgStart(s) \/ NgList(s)
    <3>1. Untouched(s)
      BY <1>1, <2>1 DEF ConnBegin, ConnOk, ConnFail, NgStart, NgList, Untouched, Other
    <3> QED
      BY <1>2, <3>1
  <2>2. CASE XhRefused(s) \/ XhEnd(s) \/ ArtMark(s) \/ ArtFail(s)
    <3>1. Untouched(s)
      BY <1>1, <2>2 DEF XhRefused, XhEnd, ArtMark, ArtFail, Untouched, Other
    <3> QED
      BY <1>2, <3>1
  <2>3. CASE XhStart(s) \/ XhBegin(s) \/ XhLine(s)
    <3> HIDE DEF JobGoto, Finished, IInv, TypeOK, SlotType
    <3> QED
      BY <1>1, <1>2, <2>3, GoodXhdr
  <2>4. CASE ArtStart(s) \/ BodyOk(s) \/ BodyFail(s) \/ LinesOk(s) \/ LinesCut(s) \/ ArtWrite(s)
    <3>1. Fetching(s) /\ UNCHANGED nntp
      BY <2>4 DEF ArtStart, BodyOk, BodyFail, LinesOk, LinesCut, ArtWrite, Fetching, ArticleJobs
    <3>2. job'[s] \in {"artHead", "artLines", "artBody", "artWrite", "artFail", "artMark"}
      BY <1>1, <2>4 DEF ArtStart, BodyOk, BodyFail, LinesOk, LinesCut, ArtWrite
    <3>3. job'[s] = "artMark" => Art(s)' \in written' \cup Kill
      <4>1. Art(s)' = Art(s)
        BY <3>1 DEF Art
      <4>2. CASE ArtWrite(s)
        BY <4>1, <4>2 DEF ArtWrite, DeliveryInv, NotAborted, GoesWell, Undisturbed
      <4>3. CASE LinesCut(s)
        <5>1. Busy(s) /\ Breaks(s)
          BY <4>3 DEF LinesCut, Busy
        <5>2. ScoresFinal
          BY <5>1, SoundAnswers DEF DeliveryInv, GoesWell, NoGuesses
        <5> QED
          BY <1>1, <4>1, <4>3, <5>2 DEF LinesCut, ScoresFinal
      <4>4. CASE ~ArtWrite(s) /\ ~LinesCut(s)
        BY <1>1, <2>4, <4>1, <4>4 DEF ArtStart, BodyOk, BodyFail, LinesOk
      <4> QED
        BY <4>2, <4>3, <4>4
    <3> HIDE DEF JobGoto, Finished, IInv, TypeOK, SlotType
    <3> QED
      BY <1>1, <3>1, <3>2, <3>3, GoodOnward
  <2> HIDE DEF JobGoto, Finished, IInv, TypeOK, SlotType
  <2>5. CASE HeadOk(s) \/ HeadNotAvail(s) \/ HeadFail(s)
    BY <1>1, <2>5, GoodHead
  <2>6. CASE ArtMissing(s)
    BY <1>1, <2>6, GoodMissing
  <2>7. CASE ArtNext(s)
    <3>1. NoFaults
      BY <1>1, <2>7, NothingMissing DEF ArtNext, GoesWell, NoGuesses
    <3>2. Answers(s)
      BY <2>7, <3>1, SoundAnswers DEF ArtNext, Busy, DeliveryInv
    <3> QED
      BY <1>1, <2>7, <3>2, GoodNext
  <2> QED
    BY <2>1, <2>2, <2>3, <2>4, <2>5, <2>6, <2>7 DEF WorkerNext
<1> QED
  BY <1>3, <1>4

LEMMA WorkerLinked ==
  ASSUME DeliveryInv, NEW s \in Slots, WorkerNext(s)
  PROVE  Linked'
<1> SUFFICES ASSUME NoFaults, disc' = NoSlot PROVE Linked'
  BY DEF Linked
<1>1. /\ disc = NoSlot /\ \A t \in Slots : t # s => nntp'[t] = nntp[t]
      /\ IInv
  BY WorkerFrame DEF DeliveryInv, QuietInv, mainVars
<1>2. \A t \in Slots : t # s => nntpS'[t] = nntpS[t]
  BY <1>1 DEF WorkerNext, ConnBegin, ConnOk, ConnFail, NgStart, NgList, XhStart, XhBegin, XhRefused,
    XhLine, XhEnd, ArtStart, HeadOk, HeadNotAvail, HeadFail, LinesOk, LinesCut, BodyOk, BodyFail,
    ArtWrite, ArtMark, ArtMissing, ArtNext, ArtFail, Finished, SetS, IInv, TypeOK
<1>3. \/ nntp[s].link = "up"
      \/ nntp[s].link = "closed" /\ nntpS[s] \in {"init", "connecting"}
  BY <1>1 DEF DeliveryInv, Linked
<1>4. \/ nntp'[s].link = "up"
      \/ nntp'[s].link = "closed" /\ nntpS'[s] \in {"init", "connecting"}
  <2> USE DEF IInv, TypeOK, SlotType
  <2>1. CASE ConnBegin(s)
    BY <1>1, <1>3, <2>1 DEF ConnBegin, SetS
  <2>2. CASE ConnOk(s)
    BY <1>1, <2>2 DEF ConnOk
  <2>3. CASE ConnFail(s)
    BY <1>1, <2>3 DEF ConnFail, NoFaults
  <2>4. CASE ~(ConnBegin(s) \/ ConnOk(s) \/ ConnFail(s))
    <3>1. Busy(s)
      BY <2>4 DEF Busy, WorkerNext, NgStart, NgList, XhStart, XhBegin, XhRefused, XhLine, XhEnd,
        ArtStart, HeadOk, HeadNotAvail, HeadFail, LinesOk, LinesCut, BodyOk, BodyFail, ArtWrite,
        ArtMark, ArtMissing, ArtNext, ArtFail, JobGoto
    <3>2. nntp[s].link = "up"
      BY <3>1, SoundAnswers DEF DeliveryInv
    <3>3. nntp'[s].link = nntp[s].link
      <4>1. CASE HeadOk(s) \/ HeadNotAvail(s) \/ HeadFail(s)
        <5>1. CASE HeadOk(s)
          BY <1>1, <5>1 DEF HeadOk
        <5>2. CASE HeadNotAvail(s)
          BY <1>1, <5>2 DEF HeadNotAvail
        <5>3. CASE HeadFail(s)
          BY <1>1, <5>3 DEF HeadFail
        <5> QED
          BY <4>1, <5>1, <5>2, <5>3
      <4>2. CASE ArtMark(s) \/ ArtMissing(s)
        <5>1. CASE ArtMark(s)
          BY <1>1, <5>1 DEF ArtMark
        <5>2. CASE ArtMissing(s)
          BY <1>1, <5>2 DEF ArtMissing
        <5> QED
          BY <4>2, <5>1, <5>2
      <4>3. CASE ArtNext(s)
        BY <1>1, <4>3 DEF ArtNext
      <4>4. CASE ~(HeadOk(s) \/ HeadNotAvail(s) \/ HeadFail(s) \/ ArtMark(s) \/ ArtMissing(s)
                   \/ ArtNext(s))
        BY <2>4, <4>4 DEF WorkerNext, NgStart, NgList, XhStart, XhBegin, XhRefused, XhLine, XhEnd,
          ArtStart, LinesOk, LinesCut, BodyOk, BodyFail, ArtWrite, ArtFail
      <4> QED
        BY <4>1, <4>2, <4>3, <4>4
    <3> QED
      BY <3>2, <3>3
  <2> QED
    BY <2>1, <2>2, <2>3, <2>4
<1> QED
  BY <1>1, <1>2, <1>4 DEF DeliveryInv, Linked

\* What a worker marks has been dealt with, or is on its way.
LEMMA MarkedDealtWith ==
  ASSUME DeliveryInv, GoesWell, NEW s \in Slots, WorkerNext(s),
         NEW h \in Group, NEW n \in read'[h]
  PROVE  \/ n \in read[h]
         \/ /\ Accounted(h, n)' \/ UnderWay(h, n)'
            /\ NumbersKnown => n <= GroupHi[h]
<1>1. /\ IInv /\ TypeOK /\ RequestInv /\ Good(s) /\ written \subseteq written'
      /\ nntp \in [Slots -> SlotType]
  BY WorkerFrame DEF DeliveryInv, QuietInv, IInv, TypeOK
<1>2. ASSUME NEW P, Mark(P), \A p \in P : p = <<p[1], p[2]>>
      PROVE  n \in read[h] \/ <<h, n>> \in P
  BY <1>1, <1>2, MarkMember
<1>3. ASSUME Fetching(s)
      PROVE  /\ nntp[s].selGroup \in Group /\ nntp[s].selArticle \in Nat
             /\ nntp[s].selArticle \in GroupLo[nntp[s].selGroup] .. GroupHi[nntp[s].selGroup]
  BY <1>1, <1>3, AtArticle DEF Good
<1>4. ASSUME n \in GroupLo[h] .. GroupHi[h] \ Avail(h) PROVE Accounted(h, n)' /\ n <= GroupHi[h]
  BY <1>4, RoutineTypes DEF Accounted
<1>5. ASSUME NEW p, p \in XrefPairs(h, n), p \in written' \cup Kill PROVE Accounted(h, n)'
  BY <1>5 DEF Accounted
<1>6. CASE LinesOk(s) \/ LinesCut(s)
  <2>1. Mark(XrefMarks(s)) \/ Mark({})
    BY <1>6 DEF LinesOk, LinesCut
  <2>2. SUFFICES ASSUME Mark(XrefMarks(s)), <<h, n>> \in XrefMarks(s)
                 PROVE  /\ Accounted(h, n)' \/ UnderWay(h, n)'
                        /\ NumbersKnown => n <= GroupHi[h]
    <3>1. \A p \in XrefMarks(s) : p = <<p[1], p[2]>>
      BY XrefTuples DEF XrefMarks
    <3>2. CASE Mark({})
      BY <1>2, <3>2
    <3>3. CASE Mark(XrefMarks(s))
      BY <1>2, <2>2, <3>1, <3>3
    <3> QED
      BY <2>1, <3>2, <3>3
  <2>3. DoXref /\ <<h, n>> \in XrefPairs(Art(s)[1], Art(s)[2])
    BY <2>2 DEF XrefMarks
  <2>4. Art(s) \in XrefPairs(h, n)
    <3>1. <<Art(s)[1], Art(s)[2]>> \in XrefPairs(h, n)
      BY <2>3, XrefSymmetric
    <3> QED
      BY <3>1 DEF Art
  <2>5. Busy(s) /\ NoFaults
    BY <1>6, <2>3 DEF LinesOk, LinesCut, JobGoto, Busy, GoesWell, NoGuesses
  <2>6. LinesOk(s)
    BY <1>6, <2>5, SoundAnswers DEF LinesCut, DeliveryInv
  <2>7. Art(s)' = Art(s) /\ (Art(s) \in Kill \/ job'[s] = "artBody")
    BY <1>1, <2>6 DEF LinesOk, JobGoto, Art, TypeOK
  <2>8. NumbersKnown => n <= GroupHi[h]
    <3>1. <<h, n>> = Art(s) \/ \E x \in CrossPost : <<h, n>> \in x
      BY <2>3 DEF XrefPairs, Art
    <3>2. <<h, n>> = Art(s) => n <= GroupHi[h]
      <4>1. Fetching(s)
        BY <2>6 DEF LinesOk, JobGoto, Fetching, ArticleJobs
      <4> QED
        BY <1>3, <4>1, RoutineTypes DEF Art
    <3>3. \A x \in CrossPost : <<h, n>> \in x => (NumbersKnown => n <= GroupHi[h])
      BY DEF NumbersKnown
    <3> QED
      BY <3>1, <3>2, <3>3
  <2>9. CASE Art(s) \in Kill
    BY <1>5, <2>4, <2>8, <2>9
  <2>10. CASE job'[s] = "artBody"
    <3>1. UnderWay(h, n)'
      BY <2>3, <2>7, <2>10 DEF UnderWay
    <3> QED
      BY <2>8, <3>1
  <2> QED
    BY <2>7, <2>8, <2>9, <2>10
<1>7. CASE XhLine(s)
  <2> DEFINE g == nntp[s].actGroup
             S == XhComing(s)
             e == xhdr.expNum
  <2>1. /\ g \in Group /\ e >= GroupLo[g] /\ e \in Int /\ xhdr.groupName = g /\ S # {}
        /\ GroupLo[g] \in Nat
    BY <1>1, <1>7, RoutineTypes DEF XhLine, IInv, GroupKnown, TypeOK, Good, Overview
  <2>2. \A k \in e .. SetMin(S) - 1 : k \in GroupLo[g] .. GroupHi[g] \ Avail(g)
    BY <2>1, XhLineEffect DEF XhComing
  <2>3. Mark({g} \X (e .. SetMin(S) - 1))
    BY <1>7, <2>1 DEF XhLine
  <2> HIDE DEF g, S, e
  <2>4. n \in read[h] \/ <<h, n>> \in {g} \X (e .. SetMin(S) - 1)
    BY <1>2, <2>3
  <2> QED
    BY <1>4, <2>2, <2>4
<1>8. CASE ArtMark(s)
  <2>1. n \in read[h] \/ <<h, n>> \in {Art(s)}
    <3>1. \A p \in {Art(s)} : p = <<p[1], p[2]>>
      BY DEF Art
    <3> QED
      BY <1>2, <1>8, <3>1 DEF ArtMark
  <2>2. Art(s) \in written \cup Kill /\ written' = written
    BY <1>1, <1>8 DEF ArtMark, Good, Stored
  <2>3. <<h, n>> \in XrefPairs(h, n)
    BY DEF XrefPairs
  <2>4. Fetching(s)
    BY <1>8 DEF ArtMark, Fetching, ArticleJobs
  <2>5. <<h, n>> = Art(s) => n <= GroupHi[h]
    BY <1>3, <2>4, RoutineTypes DEF Art
  <2> QED
    BY <1>5, <2>1, <2>2, <2>3, <2>5
<1>9. CASE ArtMissing(s)
  <2>1. Fetching(s) /\ Missing(s) /\ job[s] = "artMissing"
    BY <1>1, <1>9 DEF ArtMissing, Fetching, ArticleJobs, Good
  <2>2. nntp[s].selArticle \notin Avail(nntp[s].selGroup)
    BY <1>3, <2>1 DEF Missing, Art
  <2>3. n \in read[h] \/ <<h, n>> \in {Art(s)}
    <3>1. PICK P \in SUBSET {Art(s)} : Mark(P)
      BY <1>9 DEF ArtMissing
    <3>2. \A p \in P : p = <<p[1], p[2]>>
      BY DEF Art
    <3> QED
      BY <1>2, <3>1, <3>2
  <2> QED
    BY <1>3, <1>4, <2>1, <2>2, <2>3 DEF Art
<1>10. CASE ArtNext(s)
  <2> DEFINE g == nntp[s].selGroup
             k == nntp[s].selArticle
             m == nntp[s].selNntpArticle
             after == {a \in Avail(g) : a > m}
  <2>1. Fetching(s) /\ Missing(s) /\ job[s] = "artNext" /\ Busy(s)
    BY <1>1, <1>10 DEF ArtNext, Fetching, ArticleJobs, Good, Busy
  <2>2. Answers(s)
    BY <1>1, <2>1, NothingMissing, SoundAnswers DEF GoesWell, NoGuesses, DeliveryInv
  <2>3. g \in Group /\ k \in Nat /\ k >= GroupLo[g]
    BY <1>3, <2>1, RoutineTypes
  <2>4. m \in Int /\ (m <= k \/ NoneBetween(g, k, m))
    BY <1>1, <2>1, <2>3 DEF Missing, Art, Beside, SlotType
  <2>5. \A j \in NextHoles(g, k, after) : j \in GroupLo[g] .. GroupHi[g] \ Avail(g)
    <3> DEFINE beyond == {a \in after : a > k}
               next == IF beyond = {} THEN GroupHi[g] ELSE SetMin(beyond)
    <3> HIDE DEF g, k, m
    <3> QED
      BY <2>3, <2>4, NextHolesEffect
  <2>6. Mark({g} \X NextHoles(g, k, after))
    BY <1>10, <2>2 DEF ArtNext, Art
  <2> HIDE DEF g, k, m, after
  <2>7. n \in read[h] \/ <<h, n>> \in {g} \X NextHoles(g, k, after)
    BY <1>2, <2>6
  <2> QED
    BY <1>4, <2>5, <2>7
<1>11. CASE ~(LinesOk(s) \/ LinesCut(s) \/ XhLine(s) \/ ArtMark(s) \/ ArtMissing(s) \/ ArtNext(s))
  BY <1>11 DEF WorkerNext, ConnBegin, ConnOk, ConnFail, NgStart, NgList, XhStart, XhBegin, XhRefused,
    XhEnd, ArtStart, HeadOk, HeadNotAvail, HeadFail, BodyOk, BodyFail, ArtWrite, ArtFail, newsVars
<1> QED
  BY <1>6, <1>7, <1>8, <1>9, <1>10, <1>11

LEMMA WorkerMarked ==
  ASSUME DeliveryInv, GoesWell, NEW s \in Slots, WorkerNext(s)
  PROVE  Marked'
<1>1. /\ IInv /\ written \subseteq written'
      /\ \A t \in Slots : t # s => job'[t] = job[t] /\ nntp'[t] = nntp[t]
  BY WorkerFrame DEF DeliveryInv, QuietInv
<1>2. \A h \in Group : \A n \in read'[h] : n \in read[h] \/ Accounted(h, n)' \/ UnderWay(h, n)'
  BY MarkedDealtWith
<1>3. ASSUME NEW h \in Group, NEW n, UnderWay(h, n) PROVE Accounted(h, n)' \/ UnderWay(h, n)'
  <2>1. PICK t \in Slots : /\ job[t] \in {"artBody", "artWrite"}
                           /\ <<h, n>> \in XrefPairs(Art(t)[1], Art(t)[2])
    BY <1>3 DEF UnderWay
  <2>2. DoXref /\ NoFaults
    BY <1>3 DEF UnderWay, GoesWell, NoGuesses
  <2>3. CASE t # s
    <3>1. job'[t] = job[t] /\ Art(t)' = Art(t)
      BY <1>1, <2>3 DEF Art
    <3> QED
      BY <2>1, <2>2, <3>1 DEF UnderWay
  <2>4. CASE t = s
    <3>1. Busy(s) /\ ~Breaks(s)
      BY <2>1, <2>2, <2>4, SoundAnswers DEF Busy, DeliveryInv
    <3>2. BodyOk(s) \/ ArtWrite(s)
      BY <2>1, <2>4, <3>1 DEF WorkerNext, ConnBegin, ConnOk, ConnFail, NgStart, NgList, XhStart,
        XhBegin, XhRefused, XhLine, XhEnd, ArtStart, HeadOk, HeadNotAvail, HeadFail, LinesOk,
        LinesCut, BodyFail, ArtMark, ArtMissing, ArtNext, ArtFail, JobGoto
    <3>3. CASE BodyOk(s)
      <4>1. job'[s] = "artWrite" /\ Art(s)' = Art(s)
        BY <1>1, <3>3 DEF BodyOk, JobGoto, Art, IInv, TypeOK
      <4> QED
        BY <2>1, <2>2, <2>4, <4>1 DEF UnderWay
    <3>4. CASE ArtWrite(s)
      <4>1. Art(s) \in written'
        BY <3>4 DEF ArtWrite, DeliveryInv, NotAborted, GoesWell, Undisturbed
      <4>2. <<Art(s)[1], Art(s)[2]>> \in XrefPairs(h, n)
        BY <2>1, <2>4, XrefSymmetric
      <4>3. Art(s) \in XrefPairs(h, n)
        BY <4>2 DEF Art
      <4> QED
        BY <4>1, <4>3 DEF Accounted
    <3> QED
      BY <3>2, <3>3, <3>4
  <2> QED
    BY <2>3, <2>4
<1> QED
  BY <1>1, <1>2, <1>3, AccountedKept DEF DeliveryInv, Marked
-----------------------------------------------------------------------------
(* The main thread and the environment.                                      *)

\* A step that leaves the newsrc and the files alone and starts no article or XHDR.
LEMMA DeliveryKept ==
  ASSUME DeliveryInv, IInv', Forward, UNCHANGED <<read, written>>,
         \A t \in Slots : Untouched(t) /\ (job[t] # "none" => job'[t] = job[t])
  PROVE  (\A t \in Slots : Good(t)') /\ Marked'
<1>1. PassedKeep /\ written \subseteq written'
  BY DEF PassedKeep
<1>2. BodiesKept
  BY DEF BodiesKept, Untouched, Other
<1>3. \A t \in Slots : Good(t)'
  BY <1>1, GoodKept DEF DeliveryInv, QuietInv
<1> QED
  BY <1>1, <1>2, <1>3, MarkedKept DEF DeliveryInv

LEMMA DeliveryMain ==
  ASSUME DeliveryInv, IInv', GoesWell, MainNext
  PROVE  /\ NotAborted' /\ Linked' /\ Ranged' /\ (\A t \in Slots : Good(t)')
         /\ Marked' /\ SavedIsDelivered'
<1>1. /\ IInv /\ RequestInv /\ UNCHANGED <<read, written, xhdr>>
      /\ ~StartGroup => UNCHANGED <<rpc, loc>>
  <2>1. UNCHANGED <<written, xhdr>>
    BY DEF MainNext, StartConnect, WaitConnect, StartNewGroups, WaitOne, GetSlot, StartGroup,
      GroupReturned, Drain, NextGroup, Settle, Scan, ChkActive, Save, WaitDisc, newsVars
  <2> QED
    BY <2>1, MainKeeps DEF DeliveryInv, QuietInv
<1>2. NotAborted'
  <2>1. UNCHANGED <<doAbortProgram, areasOpen>>
    BY DEF MainNext, StartConnect, WaitConnect, StartNewGroups, WaitOne, GetSlot, StartGroup,
      GroupReturned, Drain, NextGroup, Settle, Scan, ChkActive, Save, WaitDisc, endVars
  <2>2. mainPc' \notin Handler \cup {"exited"}
    <3>1. CASE StartGroup \/ GroupReturned \/ NextGroup \/ ChkActive
      BY <3>1 DEF StartGroup, GroupReturned, NextGroup, ChkActive, MainGoto, Handler
    <3>2. CASE ~(StartGroup \/ GroupReturned \/ NextGroup \/ ChkActive)
      BY <3>2 DEF MainNext, StartConnect, WaitConnect, StartNewGroups, WaitOne, GetSlot, Drain,
        Settle, Scan, Save, WaitDisc, MainGoto, Handler
    <3> QED
      BY <3>1, <3>2
  <2> QED
    BY <2>1, <2>2 DEF NotAborted, DeliveryInv
<1>3. Forward /\ Ranged'
  <2>1. CASE StartGroup /\ ~Enough /\ curGroup \in Group
    <3>1. /\ rpc' = [rpc EXCEPT ![curGroup] = "begun"] /\ mainPc = "gotSlot"
          /\ \A h \in Group : h # curGroup => loc'[h] = loc[h]
      BY <1>1, <2>1 DEF StartGroup, MainGoto, IInv, TypeOK
    <3>2. rpc[curGroup] = "none"
      <4>1. curGroup >= curGroup
        BY <2>1 DEF Group
      <4> QED
        BY <1>1, <2>1, <3>1, <4>1 DEF RequestInv, Fresh, Before
    <3>3. \A h \in Group : loc[h].artNum \in Nat
      BY <1>1 DEF IInv, TypeOK, LocalsType
    <3> QED
      BY <1>1, <2>1, <3>1, <3>2, <3>3 DEF Forward, Passed, Ranged, DeliveryInv, IInv, TypeOK
  <2>2. CASE ~(StartGroup /\ ~Enough /\ curGroup \in Group)
    <3>1. \A h \in Group : rpc'[h] = rpc[h] /\ loc'[h] = loc[h]
      BY <1>1, <2>2 DEF StartGroup, IInv, TypeOK
    <3>2. \A h \in Group : loc[h].artNum \in Nat
      BY <1>1 DEF IInv, TypeOK, LocalsType
    <3> QED
      BY <3>1, <3>2 DEF Forward, Passed, Ranged, DeliveryInv
  <2> QED
    BY <2>1, <2>2
<1>4. \A t \in Slots : Untouched(t) /\ (job[t] # "none" => job'[t] = job[t])
  <2> USE <1>1 DEF Untouched, Other, IInv, TypeOK, MainGoto, slotVars
  <2>1. CASE StartConnect
    BY <2>1 DEF StartConnect, SlotInv, NothingYet
  <2>2. CASE StartNewGroups
    BY <2>2, FirstWaitingOk DEF StartNewGroups, SlotInv, WorkerHas
  <2>3. CASE StartGroup
    <3>1. \A t \in Slots : t = mainSlot => job[t] = "none"
      BY ConstantsOK DEF SlotInv, MainHas, Slots, NoSlot
    <3>2. \A t \in Slots : /\ t # mainSlot => nntp'[t] = nntp[t]
                           /\ nntp'[t].actGroup = nntp[t].actGroup
                           /\ nntp'[t].selNntpArticle = nntp[t].selNntpArticle
      BY <2>3 DEF StartGroup, Select, SlotType
    <3>3. job' = job
      BY <2>3 DEF StartGroup
    <3> QED
      BY <3>1, <3>2, <3>3
  <2>4. CASE ~(StartConnect \/ StartNewGroups \/ StartGroup)
    BY <2>4 DEF MainNext, WaitConnect, WaitOne, GetSlot, GroupReturned, Drain, NextGroup, Settle,
      Scan, ChkActive, Save, WaitDisc
  <2> QED
    BY <2>1, <2>2, <2>3, <2>4
<1>5. (\A t \in Slots : Good(t)') /\ Marked'
  BY <1>1, <1>3, <1>4, DeliveryKept
<1>6. Linked'
  <2> SUFFICES ASSUME NoFaults, disc' = NoSlot, NEW t \in Slots
               PROVE  \/ nntp'[t].link = "up"
                      \/ nntp'[t].link = "closed" /\ nntpS'[t] \in {"init", "connecting"}
    BY DEF Linked
  <2>1. disc = NoSlot
    <3>1. CASE ChkActive
      BY <3>1 DEF ChkActive, NoSlot
    <3>2. CASE ~ChkActive
      BY <3>2 DEF MainNext, StartConnect, WaitConnect, StartNewGroups, WaitOne, GetSlot, StartGroup,
        GroupReturned, Drain, NextGroup, Settle, Scan, Save, WaitDisc
    <3> QED
      BY <3>1, <3>2
  <2>2. nntp'[t].link = nntp[t].link
    <3>1. CASE StartGroup
      BY <1>1, <3>1 DEF StartGroup, Select, IInv, TypeOK, SlotType
    <3>2. CASE ~StartGroup
      BY <3>2 DEF MainNext, StartConnect, WaitConnect, StartNewGroups, WaitOne, GetSlot,
        GroupReturned, Drain, NextGroup, Settle, Scan, ChkActive, Save, WaitDisc, slotVars
    <3> QED
      BY <3>1, <3>2
  <2>3. nntpS'[t] = nntpS[t] \/ nntpS[t] = "waiting"
    <3>1. CASE StartNewGroups \/ GetSlot
      BY <1>1, <3>1, FirstWaitingOk DEF StartNewGroups, GetSlot, IInv, TypeOK
    <3>2. CASE ~(StartNewGroups \/ GetSlot)
      BY <3>2 DEF MainNext, StartConnect, WaitConnect, WaitOne, StartGroup,
        GroupReturned, Drain, NextGroup, Settle, Scan, ChkActive, Save, WaitDisc, slotVars
    <3> QED
      BY <3>1, <3>2
  <2> QED
    BY <2>1, <2>2, <2>3 DEF DeliveryInv, Linked
<1>7. SavedIsDelivered'
  <2>1. CASE saved' = saved
    BY <1>1, <2>1, AccountedKept DEF DeliveryInv, SavedIsDelivered
  <2>2. CASE saved' # saved
    <3>1. mainPc = "save" /\ saved' = read
      BY <2>2 DEF MainNext, StartConnect, WaitConnect, StartNewGroups, WaitOne, GetSlot, StartGroup,
        GroupReturned, Drain, NextGroup, Settle, Scan, ChkActive, Save, WaitDisc, endVars, MainGoto
    <3>2. NoFaults => \A t \in Slots : ~Busy(t)
      BY <3>1 DEF DeliveryInv, QuietInv, Still, NoFaults
    <3>3. \A g \in Group : \A n \in read[g] : ~UnderWay(g, n)
      BY <3>2 DEF UnderWay, Busy, GoesWell, NoGuesses
    <3> QED
      BY <1>1, <3>1, <3>3, AccountedKept DEF DeliveryInv, Marked, SavedIsDelivered
  <2> QED
    BY <2>1, <2>2
<1> QED
  BY <1>2, <1>3, <1>5, <1>6, <1>7

LEMMA DeliveryOthers ==
  ASSUME DeliveryInv, IInv', GoesWell,
         \/ UserInterrupt \/ CheckTransfer \/ SigClose \/ SigSave \/ Disconnect
         \/ \E s \in Slots : LinkBreak(s)
         \/ UNCHANGED vars
  PROVE  /\ NotAborted' /\ Linked' /\ Ranged' /\ (\A t \in Slots : Good(t)')
         /\ Marked' /\ SavedIsDelivered'
<1>1. Disconnect \/ (\E s \in Slots : LinkBreak(s)) \/ UNCHANGED vars
  BY DEF UserInterrupt, CheckTransfer, SigClose, SigSave, MainGoto, GoesWell, Undisturbed,
    DeliveryInv, NotAborted, Handler
<1>2. /\ IInv /\ UNCHANGED <<read, written, xhdr, saved, rpc, loc, job>>
      /\ NotAborted' /\ (NoFaults => Disconnect \/ UNCHANGED vars)
  <2>1. IInv /\ NotAborted /\ faults \in Nat
    BY DEF DeliveryInv, QuietInv, IInv, TypeOK
  <2>2. CASE Disconnect
    BY <2>1, <2>2 DEF Disconnect, groupVars, newsVars, endVars, NotAborted
  <2>3. CASE \E s \in Slots : LinkBreak(s)
    <3>1. ~NoFaults
      BY <2>1, <2>3 DEF LinkBreak, NoFaults
    <3> QED
      BY <2>1, <2>3, <3>1 DEF LinkBreak, groupVars, newsVars, endVars, mainVars, NotAborted
  <2>4. CASE UNCHANGED vars
    BY <2>1, <2>4 DEF vars, groupVars, newsVars, endVars, slotVars, mainVars, NotAborted
  <2> QED
    BY <1>1, <2>2, <2>3, <2>4
<1>3. \A t \in Slots : Untouched(t)
  <2>1. CASE Disconnect
    BY <1>2, <2>1 DEF Disconnect, Untouched, IInv, TypeOK, SlotType
  <2>2. CASE \E s \in Slots : LinkBreak(s)
    BY <1>2, <2>2 DEF LinkBreak, Untouched, IInv, TypeOK, SlotType
  <2>3. CASE UNCHANGED vars
    BY <2>3 DEF vars, slotVars, Untouched
  <2> QED
    BY <1>1, <2>1, <2>2, <2>3
<1>4. Forward /\ Ranged'
  <2>1. \A h \in Group : loc[h].artNum \in Nat
    BY <1>2 DEF IInv, TypeOK, LocalsType
  <2> QED
    BY <1>2, <2>1 DEF Forward, Passed, Ranged, DeliveryInv
<1>5. (\A t \in Slots : Good(t)') /\ Marked'
  BY <1>2, <1>3, <1>4, DeliveryKept
<1>6. Linked'
  <2>1. NoFaults /\ Disconnect => disc' # NoSlot
    BY ConstantsOK DEF Disconnect, Slots, NoSlot
  <2>2. UNCHANGED vars => UNCHANGED <<disc, nntp, nntpS>>
    BY DEF vars, mainVars, slotVars
  <2> QED
    BY <1>2, <2>1, <2>2 DEF DeliveryInv, Linked
<1>7. SavedIsDelivered'
  BY <1>2, AccountedKept DEF DeliveryInv, SavedIsDelivered
<1> QED
  BY <1>2, <1>4, <1>5, <1>6, <1>7

LEMMA DeliveryInit == Init => DeliveryInv
<1> SUFFICES ASSUME Init PROVE DeliveryInv
  OBVIOUS
<1>1. QuietInv /\ NoSync /\ RequestInv
  BY QuietInit, NoSyncInit, RequestInit
<1>2. NotAborted /\ Linked /\ Ranged
  BY DEF Init, NotAborted, Handler, Linked, Ranged
<1>3. ASSUME NEW s \in Slots PROVE Good(s)
  BY NoGroup \notin Group DEF Init, Good, InRange, Overview, NextOk, Missing, Stored, Fetching,
    ArticleJobs, NoGroup, Group
<1>4. Marked /\ SavedIsDelivered
  BY DEF Init, Marked, SavedIsDelivered, Accounted
<1> QED
  BY <1>1, <1>2, <1>3, <1>4 DEF DeliveryInv

LEMMA DeliveryNext == ASSUME GoesWell PROVE DeliveryInv /\ [Next]_vars => DeliveryInv'
<1> SUFFICES ASSUME DeliveryInv, [Next]_vars PROVE DeliveryInv'
  OBVIOUS
<1>1. QuietInv' /\ NoSync' /\ RequestInv' /\ IInv'
  BY QuietNext, NoSyncNext, RequestNext, IInvNext DEF DeliveryInv, QuietInv
<1>2. SUFFICES /\ NotAborted' /\ Linked' /\ Ranged' /\ (\A t \in Slots : Good(t)')
               /\ Marked' /\ SavedIsDelivered'
  BY <1>1, <1>2 DEF DeliveryInv
<1>3. CASE MainNext
  BY <1>1, <1>3, DeliveryMain
<1>4. ASSUME NEW g \in Group, RoutineNext(g)
      PROVE  /\ NotAborted' /\ Linked' /\ Ranged' /\ (\A t \in Slots : Good(t)')
             /\ Marked' /\ SavedIsDelivered'
  <2>1. UNCHANGED <<mainPc, endVars, saved, written>>
    BY <1>4 DEF RoutineNext, RoutineBegin, SelectOk, SelectFail, LoopExit, RoutineEnd, LoopTransit,
      LoopBody, Pick, TakeAsync, TakeSync, ArticleDone, TakeNone, mainVars, endVars, newsVars
  <2>2. NotAborted' /\ SavedIsDelivered'
    BY <2>1, AccountedKept DEF DeliveryInv, NotAborted, SavedIsDelivered, endVars
  <2>3. Ranged' /\ (\A t \in Slots : Good(t)')
    BY <1>1, <1>4, RoutineRanged, RoutineGood DEF DeliveryInv, QuietInv, GoesWell, Undisturbed
  <2>4. Linked' /\ Marked'
    BY <1>4, RoutineLinked, RoutineMarked DEF DeliveryInv, QuietInv
  <2> QED
    BY <2>2, <2>3, <2>4
<1>5. ASSUME NEW s \in Slots, WorkerNext(s)
      PROVE  /\ NotAborted' /\ Linked' /\ Ranged' /\ (\A t \in Slots : Good(t)')
             /\ Marked' /\ SavedIsDelivered'
  <2>1. UNCHANGED <<mainPc, endVars, rpc, loc>> /\ written \subseteq written'
    BY <1>5, WorkerFrame DEF DeliveryInv, QuietInv
  <2>2. NotAborted' /\ Ranged' /\ SavedIsDelivered'
    BY <2>1, AccountedKept DEF DeliveryInv, NotAborted, Ranged, SavedIsDelivered, endVars
  <2>3. (\A t \in Slots : Good(t)') /\ Linked' /\ Marked'
    BY <1>1, <1>5, WorkerGood, WorkerLinked, WorkerMarked
  <2> QED
    BY <2>2, <2>3
<1>6. CASE \/ UserInterrupt \/ CheckTransfer \/ SigClose \/ SigSave \/ Disconnect
           \/ \E s \in Slots : LinkBreak(s)
           \/ UNCHANGED vars
  BY <1>1, <1>6, DeliveryOthers
<1> QED
  BY <1>3, <1>4, <1>5, <1>6 DEF Next, GroupNext, SlotNext

\* What the saved newsrc counts as read has been stored or killed, or is not on the
\* server (news.cc 444-533, 640-679, nntpcl.cc 502-520): the holes that NEXT and XHDR mark
\* without asking for the articles are holes, whatever the other connections read
\* and mark meanwhile, and an article marked by its Xref line arrives before the
\* newsrc is written.
THEOREM SavedDelivered == ASSUME GoesWell PROVE Spec => []SavedIsDelivered
<1>1. DeliveryInv => SavedIsDelivered
  BY DEF DeliveryInv
<1> QED
  BY DeliveryInit, DeliveryNext, <1>1, PTL DEF Spec

\* The newsrc in memory: no number is marked behind the last of its group.
Inside == \A g \in Group : \A n \in read[g] \ ReadBefore[g] : n <= GroupHi[g]

LEMMA InsideNext == ASSUME GoesWell, NumbersKnown PROVE DeliveryInv /\ Inside /\ [Next]_vars => Inside'
<1> SUFFICES ASSUME DeliveryInv, Inside, [Next]_vars PROVE Inside'
  OBVIOUS
<1>0. IInv
  BY DEF DeliveryInv, QuietInv
<1>1. ASSUME NEW g \in Group, RoutineNext(g), NEW h \in Group, NEW n \in read'[h]
      PROVE  n \in read[h] \/ n <= GroupHi[h]
  <2>1. CASE SelectOk(g) /\ h = g
    <3>1. n \in FixRead(read[g], GroupLo[g], GroupHi[g])
      BY <1>0, <1>1, <2>1 DEF SelectOk, IInv, TypeOK
    <3>2. n \in read[h] \/ n \in 1 .. GroupLo[g] - 1
      BY <1>0, <2>1, <3>1, FixReadEffect, RoutineTypes
    <3>3. GroupLo[g] <= GroupHi[g] + 1 /\ GroupLo[g] \in Nat /\ GroupHi[g] \in Nat
      BY <1>0, RoutineTypes DEF NumbersKnown
    <3> QED
      BY <2>1, <3>2, <3>3
  <2>2. CASE ~(SelectOk(g) /\ h = g)
    BY <1>0, <1>1, <2>2 DEF RoutineNext, RoutineBegin, SelectOk, SelectFail, LoopExit, RoutineEnd,
      LoopTransit, LoopBody, Pick, TakeAsync, TakeSync, ArticleDone, TakeNone, newsVars, IInv, TypeOK
  <2> QED
    BY <2>1, <2>2
<1>2. ASSUME NEW s \in Slots, WorkerNext(s), NEW h \in Group, NEW n \in read'[h]
      PROVE  n \in read[h] \/ n <= GroupHi[h]
  BY <1>2, MarkedDealtWith
<1>3. CASE MainNext
  BY <1>0, <1>3, MainKeeps DEF Inside
<1>4. CASE \/ UserInterrupt \/ CheckTransfer \/ SigClose \/ SigSave \/ Disconnect
           \/ \E s \in Slots : LinkBreak(s)
           \/ UNCHANGED vars
  BY <1>0, <1>4, OthersKeep DEF Inside
<1>5. (MainNext \/ (\E g \in Group : RoutineNext(g)) \/ (\E s \in Slots : WorkerNext(s))
        \/ UserInterrupt \/ CheckTransfer \/ SigClose \/ SigSave \/ Disconnect
        \/ (\E s \in Slots : LinkBreak(s)) \/ UNCHANGED vars)
  BY DEF Next, GroupNext, SlotNext
<1> QED
  BY <1>1, <1>2, <1>3, <1>4, <1>5 DEF Inside

\* And so it is in memory, whenever no article is being transferred; no number is
\* marked that the server has not announced.
THEOREM ReadDelivered == ASSUME GoesWell, NumbersKnown PROVE Spec => []ReadIsDelivered
<1>1. Init => DeliveryInv /\ Inside
  BY DeliveryInit DEF Init, Inside
<1>2. DeliveryInv /\ Inside /\ [Next]_vars => (DeliveryInv /\ Inside)'
  BY DeliveryNext, InsideNext
<1>3. DeliveryInv /\ Inside => ReadIsDelivered
  BY DEF DeliveryInv, Marked, Inside, ReadIsDelivered, UnderWay, ArticleJobs
<1> QED
  BY <1>1, <1>2, <1>3, PTL DEF Spec
-----------------------------------------------------------------------------
(* The session that runs to its end.                                         *)

\* No connection has failed, and nobody has interrupted the session.
Calm == faults = 0 /\ mainPc \notin Handler \cup {"exited"}

\* A worker is on the way to mark article n of group g.
Pursuing(s, g, n) == Fetching(s) /\ job[s] # "artFail" /\ Art(s) = <<g, n>>
Pursued(g, n) == \E s \in Slots : Pursuing(s, g, n)

\* In a calm session a connection somebody uses is up, and no article fails.
Reliable ==
  /\ doAbortProgram => mainPc \in Handler \cup {"exited"}
  /\ Calm => \A s \in Slots :
       /\ disc = NoSlot => \/ nntp[s].link = "up"
                           \/ nntp[s].link = "closed" /\ nntpS[s] \in {"init", "connecting"}
       /\ job[s] # "artFail"

\* The NEXT loop follows upon a number that has been marked.
MarkedFirst ==
  \A s \in Slots : \A g \in Group : \A n \in Int :
    job[s] = "artNext" /\ Art(s) = <<g, n>> => n \in read[g]

\* A routine leaves no article behind ...
Covered ==
  Calm /\ ~Enough =>
    \A g \in Group \ BadGroups : Passed(g) =>
      \A n \in Avail(g) : n < loc[g].artNum => n \in read[g] \/ Pursued(g, n)

\* ... and does not end before the last one.
RunOut ==
  Calm /\ ~Enough =>
    \A g \in Group \ BadGroups :
      rpc[g] \in {"ending", "done"} => loc[g].artNum > GroupHi[g]

\* getNews() leaves no group behind.
After == {"settle", "scan", "chkActive", "save", "waitDisc", "end"}
Walked ==
  /\ \A g \in Group :
       g < curGroup \/ (mainPc \in {"drain", "afterGroup"} /\ g = curGroup) => rpc[g] = "done"
  /\ mainPc \in After => Enough \/ curGroup > NumGroups

\* No routine calls mtGetArticle() itself.
Inline == \A g \in Group : rpc[g] # "inArticle"

\* A routine selects its group on a connection it has been given.
Given ==
  /\ curGroup >= 1
  /\ mainPc = "gotSlot" => mainSlot \in Slots
  /\ \A g \in Group : rpc[g] \in {"begun", "select"} => Thread(g) \in Slots

SavedAll ==
  mainPc \in {"waitDisc", "end"} /\ Calm /\ ~Enough /\ ~ReadOnly =>
    \A g \in Group \ BadGroups : Avail(g) \subseteq saved[g]

CompleteInv ==
  /\ QuietInv /\ NoSync /\ RequestInv
  /\ Reliable /\ MarkedFirst /\ Covered /\ RunOut /\ Walked /\ Inline /\ Given /\ SavedAll
-----------------------------------------------------------------------------
\* Pursued articles stay pursued until they are marked.
Chased ==
  \A s \in Slots : \A g \in Group : \A n \in Int :
    Pursuing(s, g, n) => Pursuing(s, g, n)' \/ n \in read'[g]

CalmBefore == Calm' => Calm
MoreBefore == ~Enough' => ~Enough

LEMMA CoveredKept ==
  ASSUME Covered, PassedKeep, CalmBefore, MoreBefore, Calm' => Chased,
         Calm' /\ ~Enough' =>
           \A h \in Group \ BadGroups : \A n \in Avail(h) : Passed(h)' /\ n < loc'[h].artNum =>
             \/ Passed(h) /\ n < loc[h].artNum
             \/ n \in read'[h] \/ Pursued(h, n)'
  PROVE  Covered'
<1> SUFFICES ASSUME Calm', ~Enough', NEW h \in Group \ BadGroups, Passed(h)', NEW n \in Avail(h),
                    n < loc'[h].artNum
             PROVE  n \in read'[h] \/ Pursued(h, n)'
  BY DEF Covered, Avail
<1>1. CASE Passed(h) /\ n < loc[h].artNum
  <2>1. n \in read[h] \/ Pursued(h, n)
    BY <1>1 DEF Covered, CalmBefore, MoreBefore
  <2>2. n \in Int
    BY AvailType
  <2>3. CASE n \in read[h]
    BY <1>1, <2>3 DEF PassedKeep
  <2>4. CASE Pursued(h, n)
    BY <2>2, <2>4 DEF Pursued, Chased
  <2> QED
    BY <2>1, <2>3, <2>4
<1>2. CASE ~(Passed(h) /\ n < loc[h].artNum)
  BY <1>2
<1> QED
  BY <1>1, <1>2

\* The numbers passed over in the search for the next one are read.
LEMMA NextUnreadSkips ==
  ASSUME NEW S, NEW lo \in Nat, NEW hi \in Nat, NEW k \in lo .. hi, k < NextUnread(S, lo, hi)
  PROVE  k \in S
<1> SUFFICES ASSUME k \notin S PROVE FALSE
  OBVIOUS
<1> DEFINE U == {n \in lo .. hi : n \notin S}
<1>1. k \in U /\ U \subseteq Nat
  OBVIOUS
<1>2. NextUnread(S, lo, hi) = SetMin(U)
  BY DEF NextUnread
<1>3. SetMin(U) <= k
  BY <1>1, SetMinInSet
<1>4. SetMin(U) \in Nat
  BY <1>1, SetMinInSet
<1> HIDE DEF U
<1> QED
  BY <1>2, <1>3, <1>4

LEMMA CalmAnswers ==
  ASSUME QuietInv, Reliable, Strategy # 2, Calm, NEW s \in Slots,
         Busy(s) \/ (nntpS[s] \in Active /\ disc = NoSlot)
  PROVE  nntp[s].link = "up" /\ ~Breaks(s)
<1>1. disc = NoSlot /\ nntpS[s] \in Active
  BY DEF QuietInv, Still, Visible
<1>2. nntp[s].link = "up"
  BY <1>1 DEF Reliable, Active
<1> QED
  BY <1>2 DEF Breaks
-----------------------------------------------------------------------------
(* The routines.                                                             *)

LEMMA RoutineReliable ==
  ASSUME CompleteInv, Strategy # 2, NEW g \in Group, RoutineNext(g)
  PROVE  Reliable' /\ CalmBefore /\ MoreBefore
<1>1. /\ UNCHANGED <<mainPc, disc, doAbortProgram, faults, bytes>>
      /\ IInv /\ Visible /\ ~loc[g].syncCall
  BY DEF RoutineNext, RoutineBegin, SelectOk, SelectFail, LoopExit, RoutineEnd,
      LoopTransit, LoopBody, Pick, TakeAsync, TakeSync, ArticleDone, TakeNone,
    mainVars, endVars, newsVars, CompleteInv, QuietInv, NoSync
<1>2. CalmBefore /\ MoreBefore
  BY <1>1 DEF CalmBefore, MoreBefore, Calm, Enough
<1>3. ASSUME NEW s \in Slots
      PROVE  /\ nntp'[s].link = nntp[s].link
             /\ nntpS'[s] = nntpS[s] \/ nntpS[s] \in {"starting", "waiting"}
             /\ job'[s] = job[s] \/ job'[s] # "artFail"
  <2> USE <1>1 DEF IInv, TypeOK, SlotType
  <2>1. nntp'[s].link = nntp[s].link
    <3>1. CASE SelectOk(g)
      BY <3>1 DEF SelectOk
    <3>2. CASE SelectFail(g)
      BY <3>2 DEF SelectFail
    <3>3. CASE TakeAsync(g)
      BY <3>3 DEF TakeAsync, Select
    <3>4. CASE ~(SelectOk(g) \/ SelectFail(g) \/ TakeAsync(g))
      BY <3>4 DEF RoutineNext, RoutineBegin, LoopExit, RoutineEnd, LoopTransit, LoopBody, Pick,
        TakeSync, ArticleDone, TakeNone, slotVars
    <3> QED
      BY <3>1, <3>2, <3>3, <3>4
  <2>2. nntpS'[s] = nntpS[s] \/ nntpS[s] \in {"starting", "waiting"}
    <3>1. CASE SelectFail(g)
      BY <3>1 DEF SelectFail, Visible
    <3>2. CASE TakeAsync(g)
      BY <3>2, FirstWaitingOk DEF TakeAsync
    <3>3. CASE ~SelectFail(g) /\ ~TakeAsync(g)
      BY <3>3 DEF RoutineNext, RoutineBegin, SelectOk, LoopExit, RoutineEnd, LoopTransit,
        LoopBody, Pick, TakeSync, ArticleDone, TakeNone, MayTransit, slotVars
    <3> QED
      BY <3>1, <3>2, <3>3
  <2>3. job'[s] = job[s] \/ job'[s] # "artFail"
    BY DEF RoutineNext, RoutineBegin, SelectOk, SelectFail, LoopExit, RoutineEnd,
      LoopTransit, LoopBody, Pick, TakeAsync, TakeSync, ArticleDone, TakeNone, slotVars
  <2> QED
    BY <2>1, <2>2, <2>3
<1>4. Reliable'
  BY <1>1, <1>3 DEF Reliable, Calm, CompleteInv
<1> QED
  BY <1>2, <1>4

\* A routine takes only slots without a worker.
LEMMA RoutineJobs ==
  ASSUME IInv, NoSync, Inline, Strategy # 2, NEW g \in Group, RoutineNext(g), NEW s \in Slots, Fetching(s)
  PROVE  job'[s] = job[s] /\ Art(s)' = Art(s)
<1>1. ~loc[g].syncCall /\ rpc[g] # "inArticle" /\ job[s] # "none"
  BY DEF NoSync, Inline, Fetching, ArticleJobs
<1> USE <1>1 DEF IInv, TypeOK, SlotType
<1>2. CASE TakeAsync(g)
  <2>1. FirstWaiting \in Slots /\ job[FirstWaiting] = "none"
    BY <1>2, FirstWaitingOk DEF TakeAsync, SlotInv, WorkerHas
  <2> HIDE DEF FirstWaiting
  <2> QED
    BY <1>2, <2>1 DEF TakeAsync, Select, Art
<1>3. CASE SelectOk(g)
  <2>1. Thread(g) = s => FALSE
    <3>1. rpc[g] = "select" => (Thread(g) = s => Holds(g, s))
      BY DEF Holds
    <3> QED
      BY <1>3, <3>1 DEF SelectOk, SlotInv, RoutineHas
  <2> QED
    BY <1>3, <2>1 DEF SelectOk, Art
<1>4. CASE SelectFail(g)
  BY <1>4 DEF SelectFail, Art
<1>5. CASE ~(TakeAsync(g) \/ SelectOk(g) \/ SelectFail(g))
  BY <1>5 DEF RoutineNext, RoutineBegin, LoopExit, RoutineEnd,
    LoopTransit, LoopBody, Pick, TakeSync, ArticleDone, TakeNone, Art, MayTransit, slotVars
<1> QED
  BY <1>2, <1>3, <1>4, <1>5

\* In a calm session GROUP fails only for a group the server does not have.
LEMMA SelectSucceeds ==
  ASSUME CompleteInv, Strategy # 2, Calm, NEW g \in Group \ BadGroups
  PROVE  ~SelectFail(g)
<1> SUFFICES ASSUME SelectFail(g) PROVE FALSE
  OBVIOUS
<1>1. Thread(g) \in Slots /\ Breaks(Thread(g))
  BY DEF SelectFail, CompleteInv, Given
<1>2. disc = NoSlot /\ nntpS[Thread(g)] \in Active
  BY <1>1 DEF SelectFail, CompleteInv, QuietInv, Visible, Still, Active, Resting
<1> QED
  BY <1>1, <1>2, CalmAnswers DEF CompleteInv

LEMMA RoutineComplete ==
  ASSUME CompleteInv, Strategy # 2, NEW g \in Group, RoutineNext(g)
  PROVE  MarkedFirst' /\ Covered' /\ RunOut' /\ Walked' /\ Inline' /\ Given' /\ SavedAll'
<1>1. /\ IInv /\ RequestInv /\ PassedKeep /\ CalmBefore /\ MoreBefore /\ ~loc[g].syncCall
      /\ rpc[g] # "inArticle"
      /\ \A h \in Group : h # g => rpc'[h] = rpc[h] /\ loc'[h] = loc[h]
      /\ UNCHANGED <<mainVars, saved>>
  <2>1. IInv /\ RequestInv /\ ~loc[g].syncCall /\ rpc[g] # "inArticle"
    BY DEF CompleteInv, QuietInv, NoSync, Inline
  <2>2. \A h \in Group : h # g => rpc'[h] = rpc[h] /\ loc'[h] = loc[h]
    BY <2>1 DEF RoutineNext, RoutineBegin, SelectOk, SelectFail, LoopExit, RoutineEnd,
      LoopTransit, LoopBody, Pick, TakeAsync, TakeSync, ArticleDone, TakeNone, RGoto, IInv, TypeOK
  <2>3. UNCHANGED <<mainVars, saved>>
    BY DEF RoutineNext, RoutineBegin, SelectOk, SelectFail, LoopExit, RoutineEnd,
      LoopTransit, LoopBody, Pick, TakeAsync, TakeSync, ArticleDone, TakeNone, endVars
  <2> QED
    BY <2>1, <2>2, <2>3, RoutinePassedKeep, RoutineReliable
<1>2. Chased
  BY <1>1, RoutineJobs DEF CompleteInv, Chased, Pursuing, Fetching
<1>3. MarkedFirst'
  <2> SUFFICES ASSUME NEW s \in Slots, NEW h \in Group, NEW n \in Int, job'[s] = "artNext",
                      Art(s)' = <<h, n>>
               PROVE  n \in read'[h]
    BY DEF MarkedFirst
  <2>1. Fetching(s)
    <3>1. job'[s] = job[s] \/ job'[s] \in {"artStart", "xhStart"}
      BY <1>1 DEF RoutineNext, RoutineBegin, SelectOk, SelectFail, LoopExit, RoutineEnd,
      LoopTransit, LoopBody, Pick, TakeAsync, TakeSync, ArticleDone, TakeNone, slotVars, IInv, TypeOK
    <3> QED
      BY <3>1 DEF Fetching, ArticleJobs
  <2>2. job[s] = "artNext" /\ Art(s) = <<h, n>>
    BY <1>1, <2>1, RoutineJobs DEF CompleteInv
  <2>3. Passed(h)
    BY <1>1, <2>1, <2>2 DEF RequestInv, Requests, InOrder, Art, Passed
  <2> QED
    BY <1>1, <2>2, <2>3 DEF CompleteInv, MarkedFirst, PassedKeep
<1>4. Inline' /\ Walked' /\ Given'
  <2>1. rpc'[g] # "inArticle" /\ rpc[g] # "done"
    BY <1>1 DEF RoutineNext, RoutineBegin, SelectOk, SelectFail, LoopExit, RoutineEnd,
      LoopTransit, LoopBody, Pick, TakeAsync, TakeSync, ArticleDone, TakeNone, RGoto, IInv, TypeOK
  <2>2. Inline'
    BY <1>1, <2>1 DEF Inline, CompleteInv
  <2>3. Walked'
    BY <1>1, <2>1, RoutineReliable DEF Walked, CompleteInv, mainVars, MoreBefore
  <2>4. Given'
    <3>1. Thread(g)' = Thread(g) \/ rpc'[g] \notin {"begun", "select"}
      BY <1>1 DEF RoutineNext, RoutineBegin, SelectOk, SelectFail, LoopExit, RoutineEnd,
        LoopTransit, LoopBody, Pick, TakeAsync, TakeSync, ArticleDone, TakeNone, RGoto, Thread, IInv, TypeOK
    <3>2. rpc'[g] \in {"begun", "select"} => rpc[g] \in {"begun", "select"}
      BY <1>1 DEF RoutineNext, RoutineBegin, SelectOk, SelectFail, LoopExit, RoutineEnd,
        LoopTransit, LoopBody, Pick, TakeAsync, TakeSync, ArticleDone, TakeNone, RGoto, IInv, TypeOK
    <3> QED
      BY <1>1, <3>1, <3>2 DEF Given, Thread, mainVars, CompleteInv
  <2> QED
    BY <2>2, <2>3, <2>4
<1>5. RunOut'
  <2> SUFFICES ASSUME Calm', ~Enough', NEW h \in Group \ BadGroups, rpc'[h] \in {"ending", "done"}
               PROVE  loc'[h].artNum > GroupHi[h]
    BY DEF RunOut
  <2>1. Calm /\ ~Enough
    BY <1>1 DEF CalmBefore, MoreBefore
  <2>2. CASE h # g
    BY <1>1, <2>1, <2>2 DEF RunOut, CompleteInv
  <2>3. CASE h = g
    <3> USE <1>1, <2>1, <2>3 DEF IInv, TypeOK, RGoto
    <3>1. CASE LoopExit(g)
      BY <3>1 DEF LoopExit, LoopEnds
    <3>2. CASE SelectFail(g)
      BY <3>2, SelectSucceeds
    <3>3. CASE RoutineEnd(g)
      BY <3>3 DEF RoutineEnd, CompleteInv, RunOut
    <3>4. CASE ~(LoopExit(g) \/ SelectFail(g) \/ RoutineEnd(g))
      BY <3>4 DEF RoutineNext, RoutineBegin, SelectOk, LoopTransit, LoopBody, Pick, TakeAsync,
        TakeSync, ArticleDone, TakeNone
    <3> QED
      BY <3>1, <3>2, <3>3, <3>4
  <2> QED
    BY <2>2, <2>3
<1>6. Covered'
  <2>1. ASSUME Calm', ~Enough', NEW h \in Group \ BadGroups, NEW n \in Avail(h), Passed(h)',
               n < loc'[h].artNum
        PROVE  \/ Passed(h) /\ n < loc[h].artNum
               \/ n \in read'[h] \/ Pursued(h, n)'
    <3>1. /\ n \in Nat /\ n \in GroupLo[h] .. GroupHi[h] /\ loc[h].artNum \in Nat
          /\ GroupHi[h] \in Nat /\ GroupLo[h] \in Nat
      BY <1>1, AvailType, RoutineTypes DEF Avail
    <3>2. CASE h # g
      BY <1>1, <2>1, <3>2 DEF Passed
    <3>3. CASE h = g
      <4> USE DEF IInv, TypeOK, RGoto
      <4>1. CASE SelectOk(g)
        <5> DEFINE S == FixRead(read[g], GroupLo[g], GroupHi[g])
        <5>1. read'[g] = S /\ loc'[g].artNum = NextUnread(S, GroupLo[g], GroupHi[g])
          BY <1>1, <4>1 DEF SelectOk, LocalsType
        <5> HIDE DEF S
        <5>2. n \in S
          BY <2>1, <3>1, <3>3, <5>1, NextUnreadSkips
        <5> QED
          BY <3>3, <5>1, <5>2
      <4>2. CASE Pick(g)
        <5>1. CASE loc[g].artRequested
          <6>1. loc'[g].artNum = NextUnread(read[g], loc[g].artNum, GroupHi[g]) /\ read' = read
            BY <1>1, <4>2, <5>1 DEF Pick, LocalsType, newsVars
          <6>2. n >= loc[g].artNum => n \in read[g]
            BY <2>1, <3>1, <3>3, <6>1, NextUnreadSkips
          <6> QED
            BY <1>1, <3>1, <3>3, <4>2, <6>1, <6>2 DEF Pick, Passed
        <5>2. CASE ~loc[g].artRequested
          BY <1>1, <2>1, <3>3, <4>2, <5>2 DEF Pick, Passed
        <5> QED
          BY <5>1, <5>2
      <4>3. CASE TakeAsync(g)
        <5>1. loc'[g].artNum = loc[g].artNum + 1 /\ Passed(g)
          BY <1>1, <2>1, <4>3 DEF TakeAsync, EnoughArt, Passed, LocalsType, MoreBefore
        <5>2. CASE n < loc[g].artNum
          BY <3>3, <5>1, <5>2
        <5>3. CASE n = loc[g].artNum
          <6>1. FirstWaiting \in Slots
            BY <4>3, FirstWaitingOk DEF TakeAsync
          <6> HIDE DEF FirstWaiting
          <6>2. PICK t \in Slots : t = FirstWaiting
            BY <6>1
          <6>3. job'[t] = "artStart" /\ nntp'[t].selGroup = g /\ nntp'[t].selArticle = n
            BY <1>1, <4>3, <5>3, <6>2 DEF TakeAsync, Select, SlotType
          <6>4. Pursuing(t, g, n)'
            BY <6>3 DEF Pursuing, Fetching, ArticleJobs, Art
          <6> QED
            BY <3>3, <6>4 DEF Pursued
        <5> QED
          BY <2>1, <3>1, <3>3, <5>1, <5>2, <5>3
      <4>4. CASE TakeNone(g)
        BY <1>1, <2>1, <3>3, <4>4 DEF TakeNone, EnoughArt, Passed, LocalsType, MoreBefore
      <4>5. CASE ~(SelectOk(g) \/ Pick(g) \/ TakeAsync(g) \/ TakeNone(g))
        <5>1. loc'[g].artNum = loc[g].artNum
          BY <1>1, <4>5 DEF RoutineNext, RoutineBegin, SelectFail, LoopExit, RoutineEnd, LoopTransit,
            LoopBody, TakeSync, ArticleDone, LocalsType
        <5>2. CASE SelectFail(g)
          BY <1>1, <2>1, <3>3, <5>2, SelectSucceeds DEF CalmBefore
        <5>3. CASE ~SelectFail(g)
          <6>1. Passed(g)
            BY <1>1, <2>1, <3>3, <4>5, <5>3 DEF RoutineNext, RoutineBegin, LoopExit, RoutineEnd,
              LoopTransit, LoopBody, TakeSync, ArticleDone, Passed
          <6> QED
            BY <2>1, <3>3, <5>1, <6>1
        <5> QED
          BY <5>2, <5>3
      <4> QED
        BY <4>1, <4>2, <4>3, <4>4, <4>5
    <3> QED
      BY <3>2, <3>3
  <2> QED
    BY <1>1, <1>2, <2>1, CoveredKept DEF CompleteInv
<1>7. SavedAll'
  BY <1>1, RoutineReliable DEF CompleteInv, SavedAll, mainVars, CalmBefore, MoreBefore
<1> QED
  BY <1>3, <1>4, <1>5, <1>6, <1>7
-----------------------------------------------------------------------------
(* The workers.                                                              *)

\* A worker leaves its connection open.
LEMMA LinkKept ==
  ASSUME IInv, NEW s \in Slots, WorkerNext(s), ~ConnOk(s)
  PROVE  nntp'[s].link = nntp[s].link
<1> USE DEF IInv, TypeOK, SlotType
<1>1. CASE HeadOk(s)
  BY <1>1 DEF HeadOk
<1>2. CASE HeadNotAvail(s)
  BY <1>2 DEF HeadNotAvail
<1>3. CASE HeadFail(s)
  BY <1>3 DEF HeadFail
<1>4. CASE ArtMark(s)
  BY <1>4 DEF ArtMark
<1>5. CASE ArtMissing(s)
  BY <1>5 DEF ArtMissing
<1>6. CASE ArtNext(s)
  BY <1>6 DEF ArtNext
<1>7. CASE ~(HeadOk(s) \/ HeadNotAvail(s) \/ HeadFail(s) \/ ArtMark(s) \/ ArtMissing(s)
             \/ ArtNext(s))
  BY <1>7 DEF WorkerNext, ConnBegin, ConnFail, NgStart, NgList, XhStart, XhBegin, XhRefused, XhLine,
    XhEnd, ArtStart, LinesOk, LinesCut, BodyOk, BodyFail, ArtWrite, ArtFail
<1> QED
  BY <1>1, <1>2, <1>3, <1>4, <1>5, <1>6, <1>7

LEMMA WorkerReliable ==
  ASSUME CompleteInv, Strategy # 2, NEW s \in Slots, WorkerNext(s)
  PROVE  Reliable' /\ CalmBefore /\ MoreBefore
<1>1. /\ IInv /\ QuietInv /\ UNCHANGED <<mainPc, mainVars, endVars>>
      /\ \A t \in Slots : t # s => job'[t] = job[t] /\ nntp'[t] = nntp[t]
  BY WorkerFrame DEF CompleteInv, QuietInv
<1>2. faults' >= faults /\ faults \in Nat /\ bytes' >= bytes /\ bytes \in Nat /\ bytes' \in Nat
  <2>1. faults \in Nat /\ bytes \in Nat
    BY <1>1 DEF IInv, TypeOK
  <2>2. faults' = faults \/ faults' = faults + 1
    BY DEF WorkerNext, ConnBegin, ConnOk, ConnFail, NgStart, NgList, XhStart, XhBegin, XhRefused,
      XhLine, XhEnd, ArtStart, HeadOk, HeadNotAvail, HeadFail, LinesOk, LinesCut, BodyOk, BodyFail,
      ArtWrite, ArtMark, ArtMissing, ArtNext, ArtFail
  <2>3. bytes' = bytes \/ bytes' = bytes + 1
    BY DEF WorkerNext, ConnBegin, ConnOk, ConnFail, NgStart, NgList, XhStart, XhBegin, XhRefused,
      XhLine, XhEnd, ArtStart, HeadOk, HeadNotAvail, HeadFail, LinesOk, LinesCut, BodyOk, BodyFail,
      ArtWrite, ArtMark, ArtMissing, ArtNext, ArtFail, newsVars
  <2> QED
    BY <2>1, <2>2, <2>3
<1>3. CalmBefore
  BY <1>1, <1>2 DEF CalmBefore, Calm
<1>4. MoreBefore
  BY <1>2, ConstantsOK DEF MoreBefore, Enough
<1>5. ASSUME Calm'
      PROVE  /\ disc' = NoSlot => \A t \in Slots :
                  \/ nntp'[t].link = "up"
                  \/ nntp'[t].link = "closed" /\ nntpS'[t] \in {"init", "connecting"}
             /\ job'[s] # "artFail"
  <2>1. Calm /\ disc' = disc
    BY <1>1, <1>3, <1>5 DEF CalmBefore, mainVars
  <2>2. ASSUME Busy(s) PROVE nntp[s].link = "up" /\ ~Breaks(s)
    <3>1. Reliable
      BY DEF CompleteInv
    <3> QED
      BY <1>1, <2>1, <2>2, <3>1, CalmAnswers
  <2>3. \A t \in Slots : t # s => nntpS'[t] = nntpS[t]
    BY <1>1 DEF WorkerNext, ConnBegin, ConnOk, ConnFail, NgStart, NgList, XhStart, XhBegin,
      XhRefused, XhLine, XhEnd, ArtStart, HeadOk, HeadNotAvail, HeadFail, LinesOk, LinesCut, BodyOk,
      BodyFail, ArtWrite, ArtMark, ArtMissing, ArtNext, ArtFail, Finished, SetS, IInv, TypeOK
  <2>4. ASSUME disc = NoSlot
        PROVE  \/ nntp'[s].link = "up"
               \/ nntp'[s].link = "closed" /\ nntpS'[s] \in {"init", "connecting"}
    <3> USE DEF IInv, TypeOK, SlotType
    <3>1. CASE ConnBegin(s)
      BY <1>1, <2>1, <2>4, <3>1 DEF ConnBegin, SetS, CompleteInv, Reliable
    <3>2. CASE ConnOk(s)
      BY <1>1, <3>2 DEF ConnOk
    <3>3. CASE ConnFail(s)
      BY <1>1, <1>5, <3>3 DEF ConnFail, Calm
    <3>4. CASE ~(ConnBegin(s) \/ ConnOk(s) \/ ConnFail(s))
      <4>1. Busy(s)
        BY <3>4 DEF Busy, WorkerNext, NgStart, NgList, XhStart, XhBegin, XhRefused, XhLine, XhEnd,
          ArtStart, HeadOk, HeadNotAvail, HeadFail, LinesOk, LinesCut, BodyOk, BodyFail, ArtWrite,
          ArtMark, ArtMissing, ArtNext, ArtFail, JobGoto
      <4>2. nntp[s].link = "up"
        BY <2>2, <4>1
      <4>3. nntp'[s].link = nntp[s].link
        BY <1>1, <3>4, LinkKept
      <4> QED
        BY <4>2, <4>3
    <3> QED
      BY <3>1, <3>2, <3>3, <3>4
  <2>5. job'[s] # "artFail"
    <3>1. SUFFICES ASSUME job'[s] = "artFail" PROVE Busy(s) /\ Breaks(s)
      BY <2>2, <3>1
    <3> QED
      BY <1>1, <3>1 DEF WorkerNext, ConnBegin, ConnOk, ConnFail, NgStart, NgList, XhStart, XhBegin,
        XhRefused, XhLine, XhEnd, ArtStart, HeadOk, HeadNotAvail, HeadFail, LinesOk, LinesCut,
        BodyOk, BodyFail, ArtWrite, ArtMark, ArtMissing, ArtNext, ArtFail, Finished, JobGoto,
        Busy, IInv, TypeOK
  <2> QED
    BY <1>1, <2>1, <2>3, <2>4, <2>5 DEF CompleteInv, Reliable
<1> QED
  BY <1>1, <1>3, <1>4, <1>5 DEF CompleteInv, Reliable, CalmBefore, endVars

\* A worker at an article keeps to it until it is marked.
LEMMA WorkerChases ==
  ASSUME CompleteInv, NEW s \in Slots, WorkerNext(s), job'[s] # "artFail",
         NEW g \in Group, NEW n \in Int, Pursuing(s, g, n)
  PROVE  Pursuing(s, g, n)' \/ n \in read'[g]
<1>1. IInv /\ JobsKept /\ PassedKeep /\ job[s] \in ArticleJobs \ {"artFail"} /\ Art(s) = <<g, n>>
      /\ nntp[s].selGroup = g /\ nntp[s].selArticle = n
  BY WorkerKeeps, WorkerFrame DEF CompleteInv, QuietInv, Pursuing, Fetching, Art
<1>2. CASE Fetching(s)'
  BY <1>1, <1>2 DEF Pursuing, Fetching, JobsKept, Art
<1>3. CASE ~Fetching(s)'
  <2>1. ArtMark(s) \/ ArtMissing(s) \/ ArtNext(s)
    BY <1>1, <1>3 DEF WorkerNext, ConnBegin, ConnOk, ConnFail, NgStart, NgList, XhStart, XhBegin,
      XhRefused, XhLine, XhEnd, ArtStart, HeadOk, HeadNotAvail, HeadFail, LinesOk, LinesCut,
      BodyOk, BodyFail, ArtWrite, ArtFail, JobGoto, Fetching, ArticleJobs, IInv, TypeOK
  <2>2. <<g, n>> \in {Art(s)}
    BY <1>1
  <2>3. CASE ArtMark(s)
    <3>1. Mark({Art(s)})
      BY <2>3 DEF ArtMark
    <3> QED
      BY <2>2, <3>1, MarkAdds
  <2>4. CASE ArtMissing(s)
    <3>1. CASE Mark({Art(s)})
      BY <2>2, <3>1, MarkAdds
    <3>2. CASE ~Mark({Art(s)})
      <4>1. n \in read[g] /\ Mark({})
        BY <1>1, <2>4, <3>2 DEF ArtMissing
      <4> QED
        BY <1>1, <4>1, MarkKeeps DEF MarksKept, IInv
    <3> QED
      BY <3>1, <3>2
  <2>5. CASE ArtNext(s)
    <3>1. n \in read[g] /\ Passed(g)
      BY <1>1, <2>5 DEF ArtNext, CompleteInv, MarkedFirst, RequestInv, Requests, InOrder, Passed,
        Fetching
    <3> QED
      BY <1>1, <3>1 DEF PassedKeep
  <2> QED
    BY <2>1, <2>3, <2>4, <2>5
<1> QED
  BY <1>2, <1>3

LEMMA WorkerComplete ==
  ASSUME CompleteInv, Strategy # 2, NEW s \in Slots, WorkerNext(s)
  PROVE  MarkedFirst' /\ Covered' /\ RunOut' /\ Walked' /\ Inline' /\ Given' /\ SavedAll'
<1>1. /\ IInv /\ RequestInv /\ PassedKeep /\ CalmBefore /\ MoreBefore
      /\ UNCHANGED <<mainVars, rpc, loc, saved>>
      /\ \A t \in Slots : t # s => job'[t] = job[t] /\ nntp'[t] = nntp[t]
  BY WorkerFrame, WorkerReliable DEF CompleteInv, QuietInv, endVars
<1>2. Calm' => Chased
  <2> SUFFICES ASSUME Calm', NEW t \in Slots, NEW g \in Group, NEW n \in Int, Pursuing(t, g, n)
               PROVE  Pursuing(t, g, n)' \/ n \in read'[g]
    BY DEF Chased
  <2>1. CASE t = s
    <3>1. job'[s] # "artFail"
      BY WorkerReliable DEF Reliable
    <3> QED
      BY <2>1, <3>1, WorkerChases
  <2>2. CASE t # s
    BY <1>1, <2>2 DEF Pursuing, Fetching, Art
  <2> QED
    BY <2>1, <2>2
<1>3. MarkedFirst'
  <2> SUFFICES ASSUME NEW t \in Slots, NEW g \in Group, NEW n \in Int, job'[t] = "artNext",
                      Art(t)' = <<g, n>>
               PROVE  n \in read'[g]
    BY DEF MarkedFirst
  <2>1. CASE t = s
    <3>1. ArtMissing(s)
      BY <1>1, <2>1 DEF WorkerNext, ConnBegin, ConnOk, ConnFail, NgStart, NgList, XhStart, XhBegin,
        XhRefused, XhLine, XhEnd, ArtStart, HeadOk, HeadNotAvail, HeadFail, LinesOk, LinesCut,
        BodyOk, BodyFail, ArtWrite, ArtMark, ArtNext, ArtFail, Finished, JobGoto, IInv, TypeOK
    <3>2. Art(s) = <<g, n>>
      BY <1>1, <2>1, <3>1 DEF ArtMissing, Art, IInv, TypeOK, SlotType
    <3>3. Mark({Art(s)})
      BY <1>1, <2>1, <3>1 DEF ArtMissing, Finished, IInv, TypeOK
    <3>4. <<g, n>> \in {Art(s)}
      BY <3>2
    <3> QED
      BY <3>3, <3>4, MarkAdds
  <2>2. CASE t # s
    <3>1. job[t] = "artNext" /\ Art(t) = <<g, n>>
      BY <1>1, <2>2 DEF Art
    <3>2. n \in read[g] /\ Passed(g)
      BY <1>1, <3>1 DEF CompleteInv, MarkedFirst, RequestInv, Requests, InOrder, Passed, Fetching,
        ArticleJobs, Art
    <3> QED
      BY <1>1, <3>2 DEF PassedKeep
  <2> QED
    BY <2>1, <2>2
<1>4. Covered'
  BY <1>1, <1>2, CoveredKept DEF CompleteInv, Passed
<1>5. RunOut' /\ SavedAll'
  BY <1>1 DEF CompleteInv, RunOut, SavedAll, mainVars, CalmBefore, MoreBefore
<1>6. Walked' /\ Inline' /\ Given'
  BY <1>1 DEF CompleteInv, Walked, Inline, Given, Thread, mainVars, MoreBefore
<1> QED
  BY <1>3, <1>4, <1>5, <1>6
-----------------------------------------------------------------------------
(* The main thread, and the others.                                          *)

\* The main thread takes only slots without a worker.
LEMMA MainJobs ==
  ASSUME IInv, MainNext, NEW t \in Slots
  PROVE  /\ Fetching(t) => job'[t] = job[t] /\ Art(t)' = Art(t)
         /\ job'[t] = job[t] \/ job'[t] \in {"connBegin", "ngStart"}
         /\ nntp'[t].link = nntp[t].link
         /\ nntpS'[t] = nntpS[t] \/ nntpS[t] = "waiting"
<1> USE DEF IInv, TypeOK, SlotType, MainGoto
<1>1. CASE StartConnect
  BY <1>1 DEF StartConnect, SlotInv, NothingYet, Fetching, ArticleJobs
<1>2. CASE StartNewGroups
  BY <1>2, FirstWaitingOk DEF StartNewGroups, SlotInv, WorkerHas, Fetching, ArticleJobs, Art
<1>3. CASE GetSlot
  BY <1>3, FirstWaitingOk DEF GetSlot, Art
<1>4. CASE StartGroup
  <2>1. t = mainSlot => job[t] = "none"
    BY ConstantsOK DEF SlotInv, MainHas, Slots, NoSlot
  <2>2. /\ t # mainSlot => nntp'[t] = nntp[t]
        /\ nntp'[t].link = nntp[t].link
    BY <1>4 DEF StartGroup, Select
  <2>3. job' = job /\ nntpS' = nntpS
    BY <1>4 DEF StartGroup
  <2> QED
    BY <2>1, <2>2, <2>3 DEF Fetching, ArticleJobs, Art
<1>5. CASE ~(StartConnect \/ StartNewGroups \/ GetSlot \/ StartGroup)
  BY <1>5 DEF MainNext, WaitConnect, WaitOne, GroupReturned, Drain, NextGroup, Settle, Scan, ChkActive,
    Save, WaitDisc, slotVars, Art
<1> QED
  BY <1>1, <1>2, <1>3, <1>4, <1>5

LEMMA MainReliable ==
  ASSUME CompleteInv, MainNext
  PROVE  Reliable' /\ CalmBefore /\ MoreBefore
<1>1. IInv /\ UNCHANGED <<doAbortProgram, faults, bytes>>
  BY DEF MainNext, StartConnect, WaitConnect, StartNewGroups, WaitOne, GetSlot, StartGroup,
    GroupReturned, Drain, NextGroup, Settle, Scan, ChkActive, Save, WaitDisc, endVars, newsVars,
    CompleteInv, QuietInv
<1>2. disc' = NoSlot => disc = NoSlot
  <2>1. CASE ChkActive
    BY <2>1 DEF ChkActive, NoSlot
  <2>2. CASE ~ChkActive
    BY <2>2 DEF MainNext, StartConnect, WaitConnect, StartNewGroups, WaitOne, GetSlot, StartGroup,
      GroupReturned, Drain, NextGroup, Settle, Scan, Save, WaitDisc
  <2> QED
    BY <2>1, <2>2
<1>3. mainPc \notin Handler \cup {"exited"}
  BY DEF MainNext, StartConnect, WaitConnect, StartNewGroups, WaitOne, GetSlot, StartGroup,
    GroupReturned, Drain, NextGroup, Settle, Scan, ChkActive, Save, WaitDisc, MainGoto, Handler
<1>4. CalmBefore /\ MoreBefore
  BY <1>1, <1>3 DEF CalmBefore, MoreBefore, Calm, Enough
<1>5. ~doAbortProgram'
  BY <1>1, <1>3 DEF CompleteInv, Reliable
<1>6. Calm' => \A s \in Slots :
        /\ disc' = NoSlot => \/ nntp'[s].link = "up"
                             \/ nntp'[s].link = "closed" /\ nntpS'[s] \in {"init", "connecting"}
        /\ job'[s] # "artFail"
  BY <1>1, <1>2, <1>4, MainJobs DEF CalmBefore, CompleteInv, Reliable
<1> QED
  BY <1>4, <1>5, <1>6 DEF Reliable

LEMMA MainWalked ==
  ASSUME CompleteInv, Strategy # 2, MainNext
  PROVE  Walked' /\ Inline' /\ Given'
<1>1. /\ IInv /\ (~StartGroup => UNCHANGED <<rpc, loc>>) /\ (Enough' <=> Enough)
      /\ Walked /\ Inline /\ Given
      /\ curGroup \in Nat /\ rpc \in [Group -> RoutinePcs] /\ loc \in [Group -> LocalsType]
  <2>1. bytes' = bytes
    BY DEF MainNext, StartConnect, WaitConnect, StartNewGroups, WaitOne, GetSlot, StartGroup,
      GroupReturned, Drain, NextGroup, Settle, Scan, ChkActive, Save, WaitDisc, newsVars
  <2>2. IInv
    BY DEF CompleteInv, QuietInv
  <2> QED
    BY <2>1, <2>2, MainKeeps DEF CompleteInv, Enough, IInv, TypeOK
<1> USE DEF MainGoto, Given, Inline, Walked, After
<1>2. CASE StartGroup
  <2>1. CASE Enough
    <3>1. rpc' = rpc /\ loc' = loc /\ mainPc' = "settle" /\ curGroup' = curGroup
      BY <1>2, <2>1 DEF StartGroup
    <3> QED
      BY <1>1, <2>1, <3>1 DEF Thread
  <2>2. CASE ~Enough
    <3>1. mainPc = "gotSlot" /\ mainPc' = "inGroup" /\ curGroup' = curGroup /\ mainSlot \in Slots
      BY <1>1, <1>2, <2>2 DEF StartGroup
    <3>2. \A h \in Group : h # curGroup => rpc'[h] = rpc[h] /\ loc'[h].thread = loc[h].thread
      BY <1>1, <1>2, <2>2 DEF StartGroup
    <3>3. curGroup \in Group => rpc'[curGroup] = "begun" /\ loc'[curGroup].thread = mainSlot
      BY <1>1, <1>2, <2>2 DEF StartGroup, LocalsType
    <3>4. Walked'
      <4>1. \A h \in Group : h < curGroup => rpc[h] = "done" /\ h # curGroup
        BY <1>1 DEF Group
      <4> QED
        BY <3>1, <3>2, <4>1
    <3>5. Inline' /\ Given'
      BY <1>1, <3>1, <3>2, <3>3 DEF Thread
    <3> QED
      BY <3>4, <3>5
  <2> QED
    BY <2>1, <2>2
<1>3. ASSUME ~StartGroup PROVE UNCHANGED <<rpc, loc>> /\ Inline'
                               /\ \A g \in Group : rpc'[g] \in {"begun", "select"} => Thread(g)' \in Slots
  BY <1>1, <1>3 DEF Thread
<1>4. CASE GetSlot
  <2>1. ~StartGroup /\ (mainPc' = "gotSlot" => mainSlot' \in Slots) /\ curGroup' = curGroup
    BY <1>4, FirstWaitingOk DEF GetSlot, StartGroup
  <2>2. mainPc' \in After => curGroup > NumGroups
    BY <1>1, <1>4, ConstantsOK DEF GetSlot, Group
  <2>3. mainPc' \notin {"drain", "afterGroup"}
    BY <1>4 DEF GetSlot
  <2> QED
    BY <1>1, <1>3, <2>1, <2>2, <2>3
<1>5. CASE GroupReturned
  <2>1. /\ ~StartGroup /\ mainPc' \in {"drain", "afterGroup"} /\ curGroup' = curGroup
        /\ rpc[curGroup] = "done"
    BY <1>5 DEF GroupReturned, StartGroup
  <2> QED
    BY <1>1, <1>3, <2>1
<1>6. CASE NextGroup
  <2>1. /\ ~StartGroup /\ mainPc = "afterGroup"
        /\ \/ Enough /\ mainPc' = "settle" /\ curGroup' = curGroup
           \/ ~Enough /\ mainPc' = "getSlot" /\ curGroup' = curGroup + 1
    BY <1>6 DEF NextGroup, StartGroup
  <2>2. \A h \in Group : h < curGroup + 1 => h < curGroup \/ h = curGroup
    BY <1>1 DEF Group
  <2> QED
    BY <1>1, <1>3, <2>1, <2>2
<1>7. CASE Drain
  <2>1. ~StartGroup /\ mainPc = "drain" /\ mainPc' = "afterGroup" /\ curGroup' = curGroup
    BY <1>7 DEF Drain, StartGroup
  <2> QED
    BY <1>1, <1>3, <2>1
<1>8. CASE Settle \/ Scan \/ ChkActive \/ Save \/ WaitDisc
  <2>1. ~StartGroup /\ mainPc \in After /\ mainPc' \in After /\ curGroup' = curGroup
    BY <1>8 DEF Settle, Scan, ChkActive, Save, WaitDisc, StartGroup
  <2> QED
    BY <1>1, <1>3, <2>1
<1>9. CASE StartConnect \/ WaitConnect \/ StartNewGroups \/ WaitOne
  <2>1. /\ ~StartGroup /\ curGroup' = curGroup
        /\ mainPc' \notin After \cup {"drain", "afterGroup", "gotSlot"}
    BY <1>9 DEF StartConnect, WaitConnect, StartNewGroups, WaitOne, StartGroup
  <2> QED
    BY <1>1, <1>3, <2>1
<1> QED
  BY <1>2, <1>4, <1>5, <1>6, <1>7, <1>8, <1>9 DEF MainNext

LEMMA MainComplete ==
  ASSUME CompleteInv, Strategy # 2, MainNext
  PROVE  MarkedFirst' /\ Covered' /\ RunOut' /\ SavedAll'
<1>1. /\ IInv /\ CalmBefore /\ MoreBefore /\ read' = read
      /\ ~StartGroup => UNCHANGED <<rpc, loc>>
  BY MainKeeps, MainReliable DEF CompleteInv, QuietInv
<1>2. Chased /\ PassedKeep
  BY <1>1, MainJobs DEF Chased, Pursuing, Fetching, PassedKeep
<1>3. MarkedFirst'
  <2>1. ASSUME NEW s \in Slots, job'[s] = "artNext"
        PROVE  job[s] = "artNext" /\ Art(s)' = Art(s)
    BY <1>1, <2>1, MainJobs DEF Fetching, ArticleJobs
  <2> QED
    BY <1>1, <2>1 DEF CompleteInv, MarkedFirst
<1>4. \A h \in Group :
        /\ Passed(h)' => Passed(h) /\ loc'[h] = loc[h]
        /\ rpc'[h] \in {"ending", "done"} => rpc'[h] = rpc[h] /\ loc'[h] = loc[h]
  <2>1. CASE StartGroup
    BY <1>1, <2>1 DEF StartGroup, Passed, IInv, TypeOK
  <2>2. CASE ~StartGroup
    BY <1>1, <2>2 DEF Passed
  <2> QED
    BY <2>1, <2>2
<1>5. Covered'
  <2>1. \A h \in Group : \A n \in Avail(h) :
           Passed(h)' /\ n < loc'[h].artNum => Passed(h) /\ n < loc[h].artNum
    BY <1>4
  <2> QED
    BY <1>1, <1>2, <2>1, CoveredKept DEF CompleteInv
<1>6. RunOut'
  BY <1>1, <1>4 DEF CompleteInv, RunOut, CalmBefore, MoreBefore
<1>7. SavedAll'
  <2> SUFFICES ASSUME mainPc' \in {"waitDisc", "end"}, Calm', ~Enough', ~ReadOnly,
                      NEW g \in Group \ BadGroups
               PROVE  Avail(g) \subseteq saved'[g]
    BY DEF SavedAll
  <2>1. Calm /\ ~Enough
    BY <1>1 DEF CalmBefore, MoreBefore
  <2>2. Save \/ (mainPc = "waitDisc" /\ saved' = saved)
    BY DEF MainNext, StartConnect, WaitConnect, StartNewGroups, WaitOne, GetSlot, StartGroup,
      GroupReturned, Drain, NextGroup, Settle, Scan, ChkActive, WaitDisc, MainGoto, endVars
  <2>3. CASE Save
    <3>1. mainPc = "save" /\ saved' = read
      BY <2>3 DEF Save, MainGoto
    <3>2. \A s \in Slots : ~Busy(s)
      BY <3>1 DEF CompleteInv, QuietInv, Still
    <3>3. rpc[g] = "done"
      <4>1. curGroup > NumGroups
        BY <2>1, <3>1 DEF CompleteInv, Walked, After
      <4>2. g < curGroup
        BY <1>1, <4>1, ConstantsOK DEF Group, IInv, TypeOK
      <4> QED
        BY <4>2 DEF CompleteInv, Walked
    <3>4. loc[g].artNum > GroupHi[g]
      BY <2>1, <3>3 DEF CompleteInv, RunOut
    <3>5. ASSUME NEW n \in Avail(g) PROVE n \in read[g]
      <4>1. n < loc[g].artNum
        BY <1>1, <3>4, RoutineTypes DEF Avail
      <4>2. n \in read[g] \/ Pursued(g, n)
        BY <2>1, <3>3, <4>1 DEF CompleteInv, Covered, Passed
      <4>3. ~Pursued(g, n)
        BY <3>2 DEF Pursued, Pursuing, Fetching, ArticleJobs, Busy
      <4> QED
        BY <4>2, <4>3
    <3> QED
      BY <3>1, <3>5
  <2>4. CASE mainPc = "waitDisc" /\ saved' = saved
    BY <2>1, <2>4 DEF CompleteInv, SavedAll
  <2> QED
    BY <2>2, <2>3, <2>4
<1> QED
  BY <1>3, <1>5, <1>6, <1>7

LEMMA OthersComplete ==
  ASSUME CompleteInv, Strategy # 2,
         \/ UserInterrupt \/ CheckTransfer \/ SigClose \/ SigSave \/ Disconnect
         \/ \E s \in Slots : LinkBreak(s)
         \/ UNCHANGED vars
  PROVE  /\ Reliable' /\ MarkedFirst' /\ Covered' /\ RunOut'
         /\ Walked' /\ Inline' /\ Given' /\ SavedAll'
<1>1. /\ IInv /\ UNCHANGED <<rpc, loc, read, curGroup, mainSlot, job, bytes>>
      /\ \A s \in Slots : Art(s)' = Art(s)
      /\ faults \in Nat
  <2>1. IInv
    BY DEF CompleteInv, QuietInv
  <2>2. CASE UserInterrupt \/ CheckTransfer \/ SigClose \/ SigSave
    BY <2>1, <2>2 DEF UserInterrupt, CheckTransfer, Sigint, SigClose, SigSave, groupVars, newsVars, slotVars,
      Art, IInv, TypeOK
  <2>3. CASE Disconnect
    BY <2>1, <2>3 DEF Disconnect, groupVars, newsVars, Art, IInv, TypeOK, SlotType
  <2>4. CASE \E s \in Slots : LinkBreak(s)
    BY <2>1, <2>4 DEF LinkBreak, groupVars, newsVars, mainVars, Art, IInv, TypeOK, SlotType
  <2>5. CASE UNCHANGED vars
    BY <2>1, <2>5 DEF vars, mainVars, slotVars, groupVars, newsVars, Art, IInv, TypeOK
  <2> QED
    BY <2>2, <2>3, <2>4, <2>5
<1>2. /\ doAbortProgram' => mainPc' \in Handler \cup {"exited"}
      /\ Calm' => Calm /\ UNCHANGED <<mainPc, saved>> /\ (Disconnect \/ UNCHANGED vars)
      /\ mainPc' = mainPc \/ mainPc' \in Handler \cup {"exited"}
  <2> USE <1>1 DEF CompleteInv, Reliable, Calm, Handler
  <2>1. CASE UserInterrupt \/ CheckTransfer \/ SigClose \/ SigSave
    BY <2>1 DEF UserInterrupt, CheckTransfer, Sigint, SigClose, SigSave, MainGoto
  <2>2. CASE Disconnect
    BY <2>2 DEF Disconnect, endVars
  <2>3. CASE \E s \in Slots : LinkBreak(s)
    BY <2>3 DEF LinkBreak, mainVars, endVars
  <2>4. CASE UNCHANGED vars
    BY <2>4 DEF vars, mainVars, endVars
  <2> QED
    BY <2>1, <2>2, <2>3, <2>4
<1>3. Reliable'
  <2>1. Calm' => (disc' = NoSlot => UNCHANGED <<disc, nntp, nntpS>>)
    <3>1. Disconnect => disc' # NoSlot
      BY ConstantsOK DEF Disconnect, Slots, NoSlot
    <3>2. UNCHANGED vars => UNCHANGED <<disc, nntp, nntpS>>
      BY DEF vars, mainVars, slotVars
    <3> QED
      BY <1>2, <3>1, <3>2
  <2> QED
    BY <1>1, <1>2, <2>1 DEF CompleteInv, Reliable
<1>4. MarkedFirst'
  BY <1>1 DEF CompleteInv, MarkedFirst
<1>5. Covered'
  <2>1. Chased /\ PassedKeep /\ CalmBefore /\ MoreBefore
    BY <1>1, <1>2 DEF Chased, Pursuing, Fetching, PassedKeep, CalmBefore, MoreBefore, Enough
  <2>2. \A h \in Group : Passed(h)' => Passed(h)
    BY <1>1 DEF Passed
  <2> QED
    BY <1>1, <2>1, <2>2, CoveredKept DEF CompleteInv
<1>6. RunOut' /\ SavedAll'
  BY <1>1, <1>2 DEF CompleteInv, RunOut, SavedAll, Enough
<1>7. Walked' /\ Inline' /\ Given'
  BY <1>1, <1>2 DEF CompleteInv, Walked, Inline, Given, Thread, Enough, After, Handler
<1> QED
  BY <1>3, <1>4, <1>5, <1>6, <1>7

LEMMA CompleteInit == Init => CompleteInv
<1> SUFFICES ASSUME Init PROVE CompleteInv
  OBVIOUS
<1>1. QuietInv /\ NoSync /\ RequestInv
  BY QuietInit, NoSyncInit, RequestInit
<1>2. Reliable /\ MarkedFirst /\ Covered /\ RunOut
  BY DEF Init, Reliable, MarkedFirst, Covered, RunOut, Passed
<1>3. Walked /\ Inline /\ Given /\ SavedAll
  BY DEF Init, Walked, Inline, Given, SavedAll, After, Group
<1> QED
  BY <1>1, <1>2, <1>3 DEF CompleteInv

LEMMA CompleteNext == ASSUME Strategy # 2 PROVE CompleteInv /\ [Next]_vars => CompleteInv'
<1> SUFFICES ASSUME CompleteInv, [Next]_vars PROVE CompleteInv'
  OBVIOUS
<1>1. QuietInv' /\ NoSync' /\ RequestInv'
  BY QuietNext, NoSyncNext, RequestNext DEF CompleteInv, QuietInv
<1>2. CASE MainNext
  BY <1>1, <1>2, MainReliable, MainWalked, MainComplete DEF CompleteInv
<1>3. ASSUME NEW g \in Group, RoutineNext(g) PROVE CompleteInv'
  BY <1>1, <1>3, RoutineReliable, RoutineComplete DEF CompleteInv
<1>4. ASSUME NEW s \in Slots, WorkerNext(s) PROVE CompleteInv'
  BY <1>1, <1>4, WorkerReliable, WorkerComplete DEF CompleteInv
<1>5. CASE \/ UserInterrupt \/ CheckTransfer \/ SigClose \/ SigSave \/ Disconnect
           \/ \E s \in Slots : LinkBreak(s)
           \/ UNCHANGED vars
  BY <1>1, <1>5, OthersComplete DEF CompleteInv
<1> QED
  BY <1>2, <1>3, <1>4, <1>5 DEF Next, GroupNext, SlotNext

\* A session that is not interrupted, hits no byte limit and loses no connection leaves
\* nothing behind (news.cc 1121-1288, 1560-1593): every article of every group the
\* server knows is marked read when the newsrc is written, whatever was marked by XHDR,
\* NEXT and Xref lines in between.
THEOREM SessionComplete == ASSUME Strategy # 2 PROVE Spec => []CompleteAtEnd
<1>1. CompleteInv => CompleteAtEnd
  BY DEF CompleteInv, SavedAll, CompleteAtEnd, Calm, Handler
<1> QED
  BY CompleteInit, CompleteNext, <1>1, PTL DEF Spec

-----------------------------------------------------------------------------
(* Interrupted sessions: what is assumed of them, and the invariant.        *)

\* NEXT is called for no number of a group (it would mark what lies behind a
\* broken connection, too), a cut header decides as the whole one would, and the
\* disk takes what is written.
LossAssumed == Strategy # 2 /\ NotAvail = {} /\ ~DiskFull /\ ScoresFinal

\* An article has one set of names.
OneName == \A x, y \in CrossPost : x \cap y # {} => x = y

\* The limit has been reached, and no routine will request an article again.
NoMore ==
  Enough /\ \A g \in Group :
    /\ rpc[g] \notin {"begun", "select"}
    /\ rpc[g] \in {"loop", "pick", "take"} =>
         loc[g].artRequested /\ loc[g].artNum > GroupHi[g]

\* No connection is given another article.
Frozen == disc # NoSlot \/ mainPc \in Handler \cup {"exited"} \/ NoMore

\* The last article of slot s may be marked, and not be stored: it is under way,
\* the connection has failed with it, or there is no more time for it.
Owed(s) == Fetching(s) \/ (job[s] = "none" /\ nntpS[s] = "failed") \/ Frozen

NameOf(s, g, n) == <<g, n>> \in XrefPairs(Art(s)[1], Art(s)[2])

MarkedOwed ==
  \A g \in Group : \A n \in read[g] :
    Accounted(g, n) \/ \E s \in Slots : Owed(s) /\ NameOf(s, g, n)
SavedOwed ==
  \A g \in Group : \A n \in saved[g] :
    Accounted(g, n) \/ (Frozen /\ \E s \in Slots : NameOf(s, g, n))

\* The number behind the last one is requested only at the byte limit.
Pended ==
  \A g \in Group : rpc[g] \in {"loop", "pick", "take"} =>
    /\ loc[g].artNum >= GroupLo[g] \/ loc[g].artNum > GroupHi[g]
    /\ ~loc[g].artRequested => \/ loc[g].artNum \in GroupLo[g] .. GroupHi[g]
                               \/ Enough /\ loc[g].artNum = GroupHi[g] + 1
Behind(s) == nntp[s].selArticle = GroupHi[nntp[s].selGroup] + 1
Reached(s) ==
  /\ Fetching(s) => InRange(s) \/ (Behind(s) /\ Frozen)
  /\ job[s] \in {"artMissing", "artNext"} => Behind(s)

\* An article is marked when it is stored or killed, or all files are closed.
StoredOrShut(s) == job[s] = "artMark" => Art(s) \in written \cup Kill \/ ~areasOpen

Sound(s) == Overview(s) /\ Reached(s) /\ StoredOrShut(s)

\* The files are closed by the handler of SIGINT, and the newsrc is written by it
\* or when the connections are being closed.
Shut ==
  /\ ~areasOpen => mainPc \in Handler \cup {"exited"}
  /\ mainPc \in {"save", "waitDisc", "end"} => disc # NoSlot

LossInv ==
  /\ QuietInv /\ NoSync /\ RequestInv /\ Inline
  /\ Shut /\ Pended
  /\ \A s \in Slots : Sound(s)
  /\ MarkedOwed /\ SavedOwed
-----------------------------------------------------------------------------
(* What a step leaves as it was.                                             *)

\* No connection is given another article from now on.
StaysFrozen == Frozen => Frozen' /\ \A s \in Slots : Art(s)' = Art(s)

\* What a connection owes it owes until it is stored.
OwedKept(s) == Owed(s) => \/ Owed(s)' /\ Art(s)' = Art(s)
                          \/ Art(s) \in written' \cup Kill

LEMMA MarkedOwedKept ==
  ASSUME MarkedOwed, written \subseteq written', \A s \in Slots : OwedKept(s),
         \A g \in Group : \A n \in read'[g] :
            n \in read[g] \/ Accounted(g, n)' \/ \E s \in Slots : Owed(s)' /\ NameOf(s, g, n)'
  PROVE  MarkedOwed'
<1> SUFFICES ASSUME NEW g \in Group, NEW n \in read'[g], n \in read[g]
             PROVE  Accounted(g, n)' \/ \E s \in Slots : Owed(s)' /\ NameOf(s, g, n)'
  BY DEF MarkedOwed
<1>1. CASE Accounted(g, n)
  BY <1>1, AccountedKept
<1>2. CASE \E s \in Slots : Owed(s) /\ NameOf(s, g, n)
  <2>1. PICK s \in Slots : Owed(s) /\ NameOf(s, g, n)
    BY <1>2
  <2>2. CASE Owed(s)' /\ Art(s)' = Art(s)
    <3>1. NameOf(s, g, n)'
      BY <2>1, <2>2 DEF NameOf
    <3> QED
      BY <2>2, <3>1
  <2>3. CASE Art(s) \in written' \cup Kill
    <3>1. Art(s) = <<Art(s)[1], Art(s)[2]>>
      BY DEF Art
    <3>2. <<Art(s)[1], Art(s)[2]>> \in XrefPairs(g, n)
      BY <2>1, XrefSymmetric DEF NameOf
    <3> QED
      BY <2>3, <3>1, <3>2 DEF Accounted
  <2> QED
    BY <2>1, <2>2, <2>3 DEF OwedKept
<1> QED
  BY <1>1, <1>2 DEF MarkedOwed

LEMMA SavedOwedKept ==
  ASSUME SavedOwed, written \subseteq written', saved' = saved, StaysFrozen
  PROVE  SavedOwed'
<1> SUFFICES ASSUME NEW g \in Group, NEW n \in saved[g]
             PROVE  Accounted(g, n)' \/ (Frozen' /\ \E s \in Slots : NameOf(s, g, n)')
  BY DEF SavedOwed
<1>1. CASE Accounted(g, n)
  BY <1>1, AccountedKept
<1>2. CASE Frozen /\ \E s \in Slots : NameOf(s, g, n)
  <2>1. PICK s \in Slots : NameOf(s, g, n)
    BY <1>2
  <2>2. NameOf(s, g, n)'
    BY <1>2, <2>1 DEF NameOf, StaysFrozen
  <2> QED
    BY <1>2, <2>2 DEF StaysFrozen
<1> QED
  BY <1>1, <1>2 DEF SavedOwed

LEMMA OverviewKept ==
  ASSUME NEW t \in Slots, Overview(t), Untouched(t)
  PROVE  Overview(t)'
  BY DEF Overview, Untouched, Other

\* Nothing happens at slot t.
LEMMA SoundKept ==
  ASSUME NEW t \in Slots, Sound(t), Untouched(t), job'[t] = job[t], Art(t)' = Art(t), StaysFrozen,
         written \subseteq written', ~areasOpen => ~areasOpen'
  PROVE  Sound(t)'
<1>1. Overview(t)'
  BY OverviewKept DEF Sound
<1>2. nntp'[t].selGroup = nntp[t].selGroup /\ nntp'[t].selArticle = nntp[t].selArticle
  BY DEF Art
<1>3. Reached(t)'
  BY <1>2 DEF Sound, Reached, InRange, Behind, Fetching, StaysFrozen
<1>4. StoredOrShut(t)'
  BY DEF Sound, StoredOrShut
<1> QED
  BY <1>1, <1>3, <1>4 DEF Sound
-----------------------------------------------------------------------------
(* The articles lost, counted.                                               *)

LEMMA NamesShared ==
  ASSUME OneName, NEW p, NEW q, p = <<p[1], p[2]>>, q = <<q[1], q[2]>>, p \in XrefPairs(q[1], q[2])
  PROVE  XrefPairs(p[1], p[2]) = XrefPairs(q[1], q[2])
<1> DEFINE Names(r) == {x \in CrossPost : r \in x}
<1>1. XrefPairs(p[1], p[2]) = {p} \cup UNION Names(p) /\ XrefPairs(q[1], q[2]) = {q} \cup UNION Names(q)
  BY DEF XrefPairs
<1>2. CASE p = q
  BY <1>2
<1>3. CASE p # q
  <2>1. PICK x \in CrossPost : p \in x /\ q \in x
    BY <1>1, <1>3
  <2>2. \A y \in CrossPost : p \in y \/ q \in y => y = x
    BY <2>1 DEF OneName
  <2>3. Names(p) = {x} /\ Names(q) = {x}
    BY <2>1, <2>2
  <2> HIDE DEF Names
  <2> QED
    BY <1>1, <2>1, <2>3
<1> QED
  BY <1>2, <1>3

LEMMA LossCounted ==
  ASSUME LossInv, OneName
  PROVE  AbortLossBounded
<1> DEFINE f == [s \in Slots |-> XrefPairs(Art(s)[1], Art(s)[2])]
           R == {f[s] : s \in Slots}
<1>1. Lost \subseteq R
  <2> SUFFICES ASSUME NEW p \in Group \X UNION {saved[g] : g \in Group},
                      p[2] \in saved[p[1]], ~Accounted(p[1], p[2])
               PROVE  XrefPairs(p[1], p[2]) \in R
    BY DEF Lost
  <2>1. p[1] \in Group /\ p = <<p[1], p[2]>>
    OBVIOUS
  <2>2. PICK s \in Slots : NameOf(s, p[1], p[2])
    BY <2>1 DEF LossInv, SavedOwed
  <2>3. Art(s) = <<Art(s)[1], Art(s)[2]>>
    BY DEF Art
  <2>4. p \in XrefPairs(Art(s)[1], Art(s)[2])
    BY <2>1, <2>2 DEF NameOf
  <2>5. XrefPairs(p[1], p[2]) = XrefPairs(Art(s)[1], Art(s)[2])
    BY <2>1, <2>3, <2>4, NamesShared
  <2> QED
    BY <2>5
<1>2. IsFiniteSet(Slots) /\ Cardinality(Slots) = MaxNntpThreads
  <2> DEFINE last == MaxNntpThreads - 1
  <2>1. 0 \in Int /\ last \in Int /\ ~(0 > last) /\ last - 0 + 1 = MaxNntpThreads
    BY ConstantsOK
  <2> HIDE DEF last
  <2>2. IsFiniteSet(0 .. last) /\ Cardinality(0 .. last) = IF 0 > last THEN 0 ELSE last - 0 + 1
    BY <2>1, FS_Interval
  <2>3. Slots = 0 .. last
    BY DEF Slots, last
  <2> QED
    BY <2>1, <2>2, <2>3
<1>3. f \in Surjection(Slots, R)
  BY Fun_IsSurj
<1>4. IsFiniteSet(R) /\ Cardinality(R) <= Cardinality(Slots)
  BY <1>2, <1>3, FS_Surjection
<1>5. Cardinality(Lost) <= Cardinality(R)
  BY <1>1, <1>4, FS_Subset
<1>6. IsFiniteSet(Lost)
  BY <1>1, <1>4, FS_Subset
<1>7. Cardinality(R) \in Nat /\ Cardinality(Lost) \in Nat
  BY <1>4, <1>6, FS_CardinalityType
<1> HIDE DEF R
<1> QED
  BY <1>2, <1>4, <1>5, <1>7, ConstantsOK DEF AbortLossBounded
-----------------------------------------------------------------------------
(* The routines.                                                             *)

\* A routine is the only one at work, and asynchronous.
LEMMA RoutineAlone ==
  ASSUME LossInv, Strategy # 2, NEW g \in Group, RoutineNext(g)
  PROVE  /\ IInv /\ disc = NoSlot /\ mainPc = "inGroup" /\ ~loc[g].syncCall /\ rpc[g] # "inArticle"
         /\ \A h \in Group : h # g => /\ rpc[h] \in Resting
                                      /\ rpc'[h] = rpc[h] /\ loc'[h] = loc[h]
         /\ UNCHANGED <<mainPc, disc, saved, areasOpen, written, bytes, xhdr>>
         /\ ~TakeSync(g) /\ ~ArticleDone(g) /\ ~LoopTransit(g)
<1>1. IInv /\ Still /\ ~loc[g].syncCall /\ rpc[g] # "inArticle"
  BY DEF LossInv, QuietInv, NoSync, Inline
<1>2. mainPc = "inGroup" /\ curGroup = g /\ disc = NoSlot
  BY <1>1 DEF RoutineNext, MayRun, Still, During
<1>3. \A h \in Group : h # g => rpc'[h] = rpc[h] /\ loc'[h] = loc[h]
  BY <1>1 DEF RoutineNext, RoutineBegin, SelectOk, SelectFail, LoopExit, RoutineEnd,
    LoopTransit, LoopBody, Pick, TakeAsync, TakeSync, ArticleDone, TakeNone, RGoto, IInv, TypeOK
<1>4. UNCHANGED <<mainPc, disc, saved, areasOpen, written, bytes, xhdr>>
  BY DEF RoutineNext, RoutineBegin, SelectOk, SelectFail, LoopExit, RoutineEnd,
    LoopTransit, LoopBody, Pick, TakeAsync, TakeSync, ArticleDone, TakeNone, mainVars, endVars, newsVars
<1>5. ~TakeSync(g) /\ ~ArticleDone(g) /\ ~LoopTransit(g)
  BY <1>1 DEF TakeSync, ArticleDone, LoopTransit, MayTransit
<1> QED
  BY <1>1, <1>2, <1>3, <1>4, <1>5 DEF Still

\* It stops when it has moved behind its last article at the limit.
LEMMA RoutineFrozen ==
  ASSUME LossInv, Strategy # 2, NEW g \in Group, RoutineNext(g)
  PROVE  /\ (Frozen <=> NoMore) /\ (Frozen' <=> NoMore') /\ (Enough' <=> Enough)
         /\ Frozen => Frozen' /\ ~SelectOk(g) /\ ~SelectFail(g) /\ ~TakeAsync(g)
<1>1. /\ IInv /\ disc = NoSlot /\ mainPc = "inGroup" /\ ~loc[g].syncCall
      /\ \A h \in Group : h # g => rpc'[h] = rpc[h] /\ loc'[h] = loc[h]
      /\ UNCHANGED <<mainPc, disc, bytes>>
      /\ ~TakeSync(g) /\ ~ArticleDone(g) /\ ~LoopTransit(g)
  BY RoutineAlone
<1>2. (Frozen <=> NoMore) /\ (Frozen' <=> NoMore') /\ (Enough' <=> Enough)
  BY <1>1 DEF Frozen, Handler, Enough
<1>3. NoMore => ~SelectOk(g) /\ ~SelectFail(g) /\ ~TakeAsync(g) /\ ~RoutineBegin(g)
  BY DEF NoMore, SelectOk, SelectFail, TakeAsync, RoutineBegin
<1>4. ASSUME NoMore PROVE NoMore'
  <2>1. Enough /\ Enough' /\ rpc[g] \notin {"begun", "select"}
    BY <1>2, <1>4 DEF NoMore
  <2>2. rpc[g] \in {"loop", "pick", "take"} => loc[g].artRequested /\ loc[g].artNum > GroupHi[g]
    BY <1>4 DEF NoMore
  <2>3. /\ rpc'[g] \notin {"begun", "select"}
        /\ rpc'[g] \in {"loop", "pick", "take"} => loc'[g].artRequested /\ loc'[g].artNum > GroupHi[g]
    <3> USE <2>1, <2>2 DEF RGoto, IInv, TypeOK, LocalsType
    <3>1. CASE LoopExit(g) \/ RoutineEnd(g) \/ LoopBody(g)
      BY <1>1, <3>1 DEF LoopExit, RoutineEnd, LoopBody
    <3>2. CASE Pick(g)
      <4> DEFINE n == NextUnread(read[g], loc[g].artNum, GroupHi[g])
      <4>1. n = loc[g].artNum /\ n \in Nat
        BY <1>1, <2>2, <3>2, NextUnreadEffect, RoutineTypes DEF Pick
      <4>2. /\ rpc'[g] = "take" /\ loc'[g].artNum = n /\ loc'[g].artRequested = (n > GroupHi[g])
        BY <1>1, <2>2, <3>2 DEF Pick
      <4> HIDE DEF n
      <4> QED
        BY <2>2, <3>2, <4>1, <4>2 DEF Pick
    <3>3. CASE TakeNone(g)
      <4>1. /\ rpc'[g] = "loop" /\ rpc[g] = "take" /\ loc'[g].artRequested = loc[g].artRequested
            /\ loc'[g].artNum = GroupHi[g] + 1
        BY <1>1, <2>1, <3>3 DEF TakeNone, EnoughArt
      <4>2. GroupHi[g] \in Nat
        BY <1>1, RoutineTypes
      <4> QED
        BY <2>2, <4>1, <4>2
    <3> QED
      BY <1>1, <1>3, <1>4, <3>1, <3>2, <3>3 DEF RoutineNext
  <2>4. \A h \in Group : h # g =>
          /\ rpc'[h] \notin {"begun", "select"}
          /\ rpc'[h] \in {"loop", "pick", "take"} => loc'[h].artRequested /\ loc'[h].artNum > GroupHi[h]
    BY <1>1, <1>4 DEF NoMore
  <2> QED
    BY <2>1, <2>3, <2>4 DEF NoMore
<1> QED
  BY <1>2, <1>3, <1>4

\* A routine leaves the slots alone that owe an article.
LEMMA RoutineOwed ==
  ASSUME LossInv, Strategy # 2, NEW g \in Group, RoutineNext(g), NEW s \in Slots,
         job[s] = "none", nntpS[s] = "failed"
  PROVE  job'[s] = "none" /\ nntpS'[s] = "failed" /\ Art(s)' = Art(s)
<1>1. /\ IInv /\ NoSync /\ ~TakeSync(g) /\ ~ArticleDone(g) /\ ~LoopTransit(g) /\ ~loc[g].syncCall
  BY RoutineAlone DEF LossInv
<1>2. ~Holds(g, s)
  BY <1>1 DEF NoSync
<1> USE <1>1 DEF IInv, TypeOK, SlotType
<1>3. CASE TakeAsync(g)
  <2>1. FirstWaiting # s
    BY <1>3, FirstWaitingOk DEF TakeAsync
  <2> HIDE DEF FirstWaiting
  <2> QED
    BY <1>3, <2>1 DEF TakeAsync, Select, Art
<1>4. CASE SelectOk(g)
  <2>1. Thread(g) # s
    BY <1>2, <1>4 DEF SelectOk, Holds
  <2> QED
    BY <1>4, <2>1 DEF SelectOk, Art
<1>5. CASE SelectFail(g)
  <2>1. Thread(g) # s
    BY <1>2, <1>5 DEF SelectFail, Holds
  <2> QED
    BY <1>5, <2>1 DEF SelectFail, Art
<1>6. CASE ~(TakeAsync(g) \/ SelectOk(g) \/ SelectFail(g))
  BY <1>6 DEF RoutineNext, RoutineBegin, LoopExit, RoutineEnd, LoopBody, Pick, TakeNone, Art, slotVars
<1> QED
  BY <1>3, <1>4, <1>5, <1>6

LEMMA RoutinePended ==
  ASSUME LossInv, Strategy # 2, NEW g \in Group, RoutineNext(g)
  PROVE  Pended'
<1>1. /\ IInv /\ ~TakeSync(g) /\ ~ArticleDone(g) /\ ~LoopTransit(g)
      /\ \A h \in Group : h # g => rpc'[h] = rpc[h] /\ loc'[h] = loc[h]
      /\ Enough' <=> Enough
  BY RoutineAlone, RoutineFrozen
<1>2. SUFFICES ASSUME rpc'[g] \in {"loop", "pick", "take"}
               PROVE  /\ loc'[g].artNum >= GroupLo[g] \/ loc'[g].artNum > GroupHi[g]
                      /\ ~loc'[g].artRequested => \/ loc'[g].artNum \in GroupLo[g] .. GroupHi[g]
                                                  \/ Enough /\ loc'[g].artNum = GroupHi[g] + 1
  BY <1>1 DEF LossInv, Pended
<1>3. /\ loc[g].artNum \in Nat /\ GroupHi[g] \in Nat /\ GroupLo[g] \in Nat
      /\ rpc[g] \in {"loop", "pick", "take"} =>
           /\ loc[g].artNum >= GroupLo[g] \/ loc[g].artNum > GroupHi[g]
           /\ ~loc[g].artRequested => \/ loc[g].artNum \in GroupLo[g] .. GroupHi[g]
                                      \/ Enough /\ loc[g].artNum = GroupHi[g] + 1
  BY <1>1, RoutineTypes DEF LossInv, Pended
<1>4. CASE RoutineBegin(g) \/ SelectFail(g) \/ LoopExit(g) \/ RoutineEnd(g) \/ LoopBody(g)
  BY <1>1, <1>2, <1>3, <1>4
     DEF RoutineBegin, SelectFail, LoopExit, RoutineEnd, LoopBody, RGoto, IInv, TypeOK
<1>5. CASE SelectOk(g)
  <2> DEFINE n == NextUnread(FixRead(read[g], GroupLo[g], GroupHi[g]), GroupLo[g], GroupHi[g])
  <2>1. n >= GroupLo[g]
    BY <1>3, NextUnreadEffect
  <2>2. loc'[g].artNum = n /\ loc'[g].artRequested
    BY <1>1, <1>5 DEF SelectOk, IInv, TypeOK, LocalsType
  <2> HIDE DEF n
  <2> QED
    BY <2>1, <2>2
<1>6. CASE Pick(g)
  <2> DEFINE n == NextUnread(read[g], loc[g].artNum, GroupHi[g])
  <2>1. n \in Nat /\ n >= loc[g].artNum
    BY <1>3, NextUnreadEffect
  <2>2. CASE loc[g].artRequested
    <3>1. loc'[g].artNum = n /\ loc'[g].artRequested = (n > GroupHi[g]) /\ rpc[g] = "pick"
      BY <1>1, <1>6, <2>2 DEF Pick, IInv, TypeOK, LocalsType
    <3>2. ~loc'[g].artRequested => ~(n > GroupHi[g])
      BY <3>1
    <3> HIDE DEF n
    <3>3. n >= GroupLo[g] \/ n > GroupHi[g]
      BY <1>3, <2>1, <3>1
    <3>4. ~loc'[g].artRequested => n \in GroupLo[g] .. GroupHi[g]
      BY <1>3, <2>1, <3>2, <3>3
    <3> QED
      BY <3>1, <3>3, <3>4
  <2>3. CASE ~loc[g].artRequested
    BY <1>3, <1>6, <2>3 DEF Pick
  <2> QED
    BY <2>2, <2>3
<1>7. CASE TakeAsync(g)
  <2>1. /\ loc'[g].artNum = EnoughArt(g, loc[g].artNum + 1) /\ loc'[g].artRequested /\ rpc[g] = "take"
    BY <1>1, <1>7 DEF TakeAsync, IInv, TypeOK, LocalsType
  <2>2. EnoughArt(g, loc[g].artNum + 1) \in {loc[g].artNum + 1, GroupHi[g] + 1}
    BY DEF EnoughArt
  <2> QED
    BY <1>3, <2>1, <2>2
<1>8. CASE TakeNone(g)
  <2>1. /\ loc'[g].artNum = EnoughArt(g, loc[g].artNum) /\ loc'[g].artRequested = loc[g].artRequested
        /\ rpc[g] = "take"
    BY <1>1, <1>8 DEF TakeNone, IInv, TypeOK, LocalsType
  <2>2. EnoughArt(g, loc[g].artNum) = loc[g].artNum
        \/ (Enough /\ EnoughArt(g, loc[g].artNum) = GroupHi[g] + 1)
    BY DEF EnoughArt
  <2> QED
    BY <1>3, <2>1, <2>2
<1> QED
  BY <1>1, <1>4, <1>5, <1>6, <1>7, <1>8 DEF RoutineNext

\* Every slot stays sound.
LEMMA RoutineSound ==
  ASSUME LossInv, IInv', Strategy # 2, NEW g \in Group, RoutineNext(g), NEW s \in Slots
  PROVE  Sound(s)'
<1>1. /\ IInv /\ NoSync /\ ~TakeSync(g) /\ ~ArticleDone(g) /\ ~LoopTransit(g) /\ Sound(s)
      /\ UNCHANGED <<xhdr, written, areasOpen>>
      /\ \A h \in Group : h # g => rpc'[h] = rpc[h] /\ loc'[h] = loc[h] /\ rpc[h] \in Resting
      /\ Frozen => Frozen'
  BY RoutineAlone, RoutineFrozen DEF LossInv
<1>2. Frozen => ~SelectOk(g) /\ ~SelectFail(g) /\ ~TakeAsync(g)
  BY RoutineFrozen
<1>3. ASSUME job'[s] = job[s], nntp'[s] = nntp[s] PROVE Sound(s)'
  <2>1. Overview(s)'
    BY <1>1, <1>3, OverviewKept DEF Sound, Untouched
  <2>2. Reached(s)' /\ StoredOrShut(s)'
    BY <1>1, <1>3 DEF Sound, Reached, StoredOrShut, InRange, Behind, Fetching, Art
  <2> QED
    BY <2>1, <2>2 DEF Sound
<1>4. CASE SelectOk(g)
  <2> DEFINE n == NextUnread(FixRead(read[g], GroupLo[g], GroupHi[g]), GroupLo[g], GroupHi[g])
  <2>1. n >= GroupLo[g]
    BY <1>1, RoutineTypes, NextUnreadEffect
  <2>2. CASE Thread(g) # s
    <3>1. job'[s] = job[s] /\ nntp'[s] = nntp[s]
      BY <1>1, <1>4, <2>2 DEF SelectOk, IInv, TypeOK
    <3> QED
      BY <1>3, <3>1
  <2>3. CASE Thread(g) = s
    <3>1. job[s] = "none"
      BY <1>1, <1>4, <2>3 DEF SelectOk, IInv, SlotInv, RoutineHas, Holds
    <3>2. nntp'[s].actGroup = g /\ \/ job'[s] = "none"
                                   \/ job'[s] = "xhStart" /\ nntp'[s].selArticle = n
      BY <1>1, <1>4, <2>3, <3>1 DEF SelectOk, IInv, TypeOK, SlotType
    <3> HIDE DEF n
    <3> QED
      BY <2>1, <3>2 DEF Sound, Overview, Reached, StoredOrShut, Fetching, ArticleJobs
  <2> QED
    BY <2>2, <2>3
<1>5. CASE SelectFail(g)
  <2>1. CASE Thread(g) # s
    <3>1. job'[s] = job[s] /\ nntp'[s] = nntp[s]
      BY <1>1, <1>5, <2>1 DEF SelectFail, IInv, TypeOK
    <3> QED
      BY <1>3, <3>1
  <2>2. CASE Thread(g) = s
    <3>1. job'[s] = "none"
      BY <1>1, <1>5, <2>2 DEF SelectFail, IInv, SlotInv, RoutineHas, Holds
    <3> QED
      BY <3>1 DEF Sound, Overview, Reached, StoredOrShut, Fetching, ArticleJobs
  <2> QED
    BY <2>1, <2>2
<1>6. CASE TakeAsync(g)
  <2>0. PICK t \in Slots : t = FirstWaiting
    BY <1>6, FirstWaitingOk DEF TakeAsync
  <2>1. CASE t # s
    <3>1. job'[s] = job[s] /\ nntp'[s] = nntp[s]
      BY <1>1, <1>6, <2>0, <2>1 DEF TakeAsync, Select, IInv, TypeOK
    <3> QED
      BY <1>3, <3>1
  <2>2. CASE t = s
    <3> DEFINE a == loc[g].artNum
    <3>1. /\ job'[s] = "artStart" /\ nntp'[s].selGroup = g /\ nntp'[s].selArticle = a
          /\ rpc[g] = "take" /\ ~loc[g].artRequested
      BY <1>1, <1>6, <2>0, <2>2 DEF TakeAsync, Select, IInv, TypeOK, SlotType
    <3>2. a \in GroupLo[g] .. GroupHi[g] \/ (Enough /\ a = GroupHi[g] + 1)
      BY <3>1 DEF LossInv, Pended
    <3>3. Overview(s)' /\ StoredOrShut(s)'
      BY <3>1 DEF Overview, StoredOrShut
    <3>4. CASE a \in GroupLo[g] .. GroupHi[g]
      BY <3>1, <3>3, <3>4 DEF Sound, Reached, InRange, Fetching
    <3>5. CASE Enough /\ a = GroupHi[g] + 1
      <4>1. Enough' /\ loc'[g].artNum = GroupHi[g] + 1 /\ loc'[g].artRequested /\ rpc'[g] = "loop"
        BY <1>1, <1>6, <3>5, RoutineFrozen
           DEF TakeAsync, EnoughArt, RGoto, IInv, TypeOK, LocalsType
      <4>2. GroupHi[g] \in Nat
        BY <1>1, RoutineTypes
      <4>3. NoMore'
        BY <1>1, <4>1, <4>2 DEF NoMore, Resting
      <4>4. Frozen'
        BY <4>3, RoutineFrozen
      <4> QED
        BY <3>1, <3>3, <3>5, <4>4 DEF Sound, Reached, Behind
    <3> QED
      BY <3>2, <3>4, <3>5
  <2> QED
    BY <2>1, <2>2
<1>7. CASE ~(TakeAsync(g) \/ SelectOk(g) \/ SelectFail(g))
  <2>1. UNCHANGED <<job, nntp>>
    BY <1>1, <1>7 DEF RoutineNext, RoutineBegin, LoopExit, RoutineEnd, LoopBody, Pick, TakeNone, slotVars
  <2> QED
    BY <1>3, <2>1
<1> QED
  BY <1>4, <1>5, <1>6, <1>7

LEMMA RoutineLoss ==
  ASSUME LossInv, IInv', Strategy # 2, NEW g \in Group, RoutineNext(g)
  PROVE  /\ Inline' /\ Shut' /\ Pended' /\ MarkedOwed' /\ SavedOwed'
         /\ \A s \in Slots : Sound(s)'
<1>1. /\ IInv /\ NoSync /\ Inline /\ ~TakeSync(g) /\ ~ArticleDone(g) /\ ~LoopTransit(g)
      /\ UNCHANGED <<mainPc, disc, saved, written, areasOpen>>
      /\ \A h \in Group : h # g => rpc'[h] = rpc[h]
      /\ Frozen => Frozen'
  BY RoutineAlone, RoutineFrozen DEF LossInv
<1>2. Inline'
  <2>1. rpc'[g] # "inArticle"
    BY <1>1 DEF RoutineNext, RoutineBegin, SelectOk, SelectFail, LoopExit, RoutineEnd, LoopBody, Pick,
      TakeAsync, TakeNone, RGoto, IInv, TypeOK
  <2> QED
    BY <1>1, <2>1 DEF Inline
<1>3. Shut'
  BY <1>1 DEF LossInv, Shut
<1>4. Frozen => UNCHANGED <<job, nntp>>
  BY <1>1, RoutineFrozen DEF RoutineNext, RoutineBegin, LoopExit, RoutineEnd, LoopBody, Pick, TakeNone,
    slotVars
<1>5. StaysFrozen
  BY <1>1, <1>4 DEF StaysFrozen, Art
<1>6. ASSUME NEW s \in Slots PROVE OwedKept(s)
  <2>1. CASE Fetching(s)
    <3>1. job'[s] = job[s] /\ Art(s)' = Art(s)
      BY <1>1, <2>1, RoutineJobs
    <3> QED
      BY <2>1, <3>1 DEF OwedKept, Owed, Fetching
  <2>2. CASE job[s] = "none" /\ nntpS[s] = "failed"
    BY <2>2, RoutineOwed DEF OwedKept, Owed
  <2>3. CASE Frozen
    BY <1>5, <2>3 DEF OwedKept, Owed, StaysFrozen
  <2> QED
    BY <2>1, <2>2, <2>3 DEF OwedKept, Owed
<1>7. ASSUME NEW h \in Group, NEW n \in read'[h] PROVE n \in read[h] \/ Accounted(h, n)'
  <2>1. CASE SelectOk(g) /\ h = g
    <3>1. n \in FixRead(read[g], GroupLo[g], GroupHi[g])
      BY <1>1, <2>1 DEF SelectOk, IInv, TypeOK
    <3>2. n \in read[h] \/ n \in 1 .. GroupLo[g] - 1
      BY <1>1, <2>1, <3>1, FixReadEffect, RoutineTypes
    <3>3. n \in 1 .. GroupLo[g] - 1 => n < GroupLo[g]
      BY <1>1, RoutineTypes
    <3> QED
      BY <2>1, <3>2, <3>3 DEF Accounted
  <2>2. CASE ~(SelectOk(g) /\ h = g)
    BY <1>1, <2>2 DEF RoutineNext, RoutineBegin, SelectOk, SelectFail, LoopExit, RoutineEnd,
      LoopBody, Pick, TakeAsync, TakeNone, newsVars, IInv, TypeOK
  <2> QED
    BY <2>1, <2>2
<1>8. MarkedOwed'
  BY <1>1, <1>6, <1>7, MarkedOwedKept DEF LossInv
<1>9. SavedOwed'
  BY <1>1, <1>5, SavedOwedKept DEF LossInv
<1> QED
  BY <1>2, <1>3, <1>8, <1>9, RoutinePended, RoutineSound
-----------------------------------------------------------------------------
(* The workers.                                                              *)

\* What a worker leaves as it is.
LEMMA WorkerQuiet ==
  ASSUME LossInv, NEW s \in Slots, WorkerNext(s)
  PROVE  /\ IInv /\ UNCHANGED <<mainPc, disc, rpc, loc, saved, areasOpen>>
         /\ written \subseteq written' /\ (Enough => Enough') /\ (Frozen => Frozen')
         /\ \A t \in Slots : t # s => job'[t] = job[t] /\ nntp'[t] = nntp[t] /\ nntpS'[t] = nntpS[t]
         /\ nntp'[s].selGroup = nntp[s].selGroup /\ nntp'[s].selArticle = nntp[s].selArticle
         /\ job[s] # "none" /\ (Fetching(s)' => Fetching(s))
<1>1. IInv /\ JobsKept /\ UNCHANGED <<mainPc, disc, rpc, loc, saved, areasOpen>>
      /\ written \subseteq written'
  BY WorkerFrame, WorkerKeeps DEF LossInv, QuietInv, mainVars, endVars
<1> USE <1>1 DEF IInv, TypeOK, SlotType
<1>2. Enough => Enough'
  <2>1. CASE BodyOk(s)
    BY <2>1, ConstantsOK DEF BodyOk, Enough
  <2>2. CASE ~BodyOk(s)
    BY <2>2 DEF WorkerNext, ConnBegin, ConnOk, ConnFail, NgStart, NgList, XhStart, XhBegin, XhRefused,
      XhLine, XhEnd, ArtStart, HeadOk, HeadNotAvail, HeadFail, LinesOk, LinesCut, BodyFail,
      ArtWrite, ArtMark, ArtMissing, ArtNext, ArtFail, newsVars, Enough
  <2> QED
    BY <2>1, <2>2
<1>3. Frozen => Frozen'
  BY <1>2 DEF Frozen, NoMore
<1>4. job[s] # "none" /\ \A t \in Slots : t # s => nntpS'[t] = nntpS[t]
  BY DEF WorkerNext, ConnBegin, ConnOk, ConnFail, NgStart, NgList, XhStart, XhBegin, XhRefused,
    XhLine, XhEnd, ArtStart, HeadOk, HeadNotAvail, HeadFail, LinesOk, LinesCut, BodyOk, BodyFail,
    ArtWrite, ArtMark, ArtMissing, ArtNext, ArtFail, Finished, SetS, JobGoto
<1>5. nntp'[s].selGroup = nntp[s].selGroup /\ nntp'[s].selArticle = nntp[s].selArticle
  <2>1. CASE HeadOk(s)
    BY <2>1 DEF HeadOk
  <2>2. CASE HeadNotAvail(s)
    BY <2>2 DEF HeadNotAvail
  <2>3. CASE HeadFail(s)
    BY <2>3 DEF HeadFail
  <2>4. CASE ArtMark(s)
    BY <2>4 DEF ArtMark
  <2>5. CASE ArtMissing(s)
    BY <2>5 DEF ArtMissing
  <2>6. CASE ArtNext(s)
    BY <2>6 DEF ArtNext
  <2>7. CASE ConnOk(s)
    BY <2>7 DEF ConnOk
  <2>8. CASE ~(HeadOk(s) \/ HeadNotAvail(s) \/ HeadFail(s) \/ ArtMark(s) \/ ArtMissing(s)
               \/ ArtNext(s) \/ ConnOk(s))
    BY <2>8 DEF WorkerNext, ConnBegin, ConnFail, NgStart, NgList, XhStart, XhBegin, XhRefused, XhLine,
      XhEnd, ArtStart, LinesOk, LinesCut, BodyOk, BodyFail, ArtWrite, ArtFail
  <2> QED
    BY <2>1, <2>2, <2>3, <2>4, <2>5, <2>6, <2>7, <2>8
<1> QED
  BY <1>2, <1>3, <1>4, <1>5, WorkerFrame DEF JobsKept

LEMMA WorkerFrozen ==
  ASSUME LossInv, NEW s \in Slots, WorkerNext(s)
  PROVE  StaysFrozen
<1>1. \A t \in Slots : Art(t)' = Art(t)
  <2> SUFFICES ASSUME NEW t \in Slots PROVE Art(t)' = Art(t)
    OBVIOUS
  <2>1. CASE t = s
    BY <2>1, WorkerQuiet DEF Art
  <2>2. CASE t # s
    BY <2>2, WorkerQuiet DEF Art
  <2> QED
    BY <2>1, <2>2
<1> QED
  BY <1>1, WorkerQuiet DEF StaysFrozen

\* Behind the last article there are no holes.
LEMMA NoHoles ==
  ASSUME IInv, NotAvail = {}, NEW g \in Group, NEW k \in Int, NEW seen,
         seen = {} \/ seen = {a \in Avail(g) : a > k}
  PROVE  NextHoles(g, GroupHi[g] + 1, seen) = {}
<1> DEFINE lo == GroupLo[g]
           hi == GroupHi[g]
           from == IF seen = {} THEN hi + 1 ELSE SetMin(seen)
           to   == IF seen = {} THEN hi + 1 ELSE SetMax(seen)
<1>1. /\ lo \in Nat /\ hi \in Nat /\ Avail(g) = lo .. hi
  BY RoutineTypes DEF Avail
<1> HIDE DEF lo, hi
<1>2. seen \subseteq Nat /\ \A a \in seen : a <= hi /\ a >= lo
  BY <1>1
<1>3. {a \in seen : a > hi + 1} = {}
  <2>1. ASSUME NEW a \in seen PROVE ~(a > hi + 1)
    <3>1. a \in Nat /\ a <= hi
      BY <1>2
    <3> QED
      BY <1>1, <3>1
  <2> QED
    BY <2>1
<1>4. NextHoles(g, hi + 1, seen) = (from + 1 .. to - 1) \ seen
  BY <1>3 DEF NextHoles, hi
<1>5. CASE seen = {}
  <2>1. from = hi + 1 /\ to = hi + 1
    BY <1>5
  <2>2. (from + 1 .. to - 1) = {}
    BY <1>1, <2>1
  <2> QED
    BY <1>4, <2>2 DEF hi
<1>6. CASE seen # {}
  <2>1. /\ seen = {a \in Avail(g) : a > k} /\ SetMin(seen) \in seen /\ SetMax(seen) \in seen
    <3>1. SetMin(seen) \in seen
      BY <1>2, <1>6, SetMinInSet
    <3>2. SetMax(seen) \in seen
      <4>1. hi \in Int /\ seen \subseteq Int /\ \A x \in seen : x <= hi
        BY <1>1, <1>2
      <4> QED
        BY <1>6, <4>1, SetMaxInSet
    <3> QED
      BY <1>6, <3>1, <3>2
  <2>2. from = SetMin(seen) /\ to = SetMax(seen)
    BY <1>6
  <2> HIDE DEF from, to
  <2>3. from \in Nat /\ to \in Nat /\ from > k /\ from >= lo /\ to <= hi
    BY <1>1, <1>2, <2>1, <2>2
  <2>4. \A a \in from + 1 .. to - 1 : a \in lo .. hi /\ a > k
    BY <1>1, <2>3
  <2>5. \A a \in from + 1 .. to - 1 : a \in seen
    BY <1>1, <2>1, <2>4
  <2> QED
    BY <1>4, <2>5 DEF hi
<1> QED
  BY <1>5, <1>6

LEMMA WorkerSound ==
  ASSUME LossInv, LossAssumed, IInv', NEW s \in Slots, WorkerNext(s), NEW t \in Slots
  PROVE  Sound(t)'
<1>1. /\ IInv /\ Sound(s) /\ Sound(t) /\ StaysFrozen
      /\ written \subseteq written' /\ areasOpen' = areasOpen
  BY WorkerQuiet, WorkerFrozen DEF LossInv
<1>2. CASE t # s
  <2>1. Untouched(t)
    BY <1>1, <1>2, OthersUntouched DEF Sound
  <2>2. job'[t] = job[t] /\ Art(t)' = Art(t)
    BY <1>2, WorkerQuiet DEF Art
  <2> QED
    BY <1>1, <2>1, <2>2, SoundKept
<1>3. CASE t = s
  <2>1. /\ nntp'[s].selGroup = nntp[s].selGroup /\ nntp'[s].selArticle = nntp[s].selArticle
        /\ Fetching(s)' => Fetching(s)
    BY WorkerQuiet
  <2>2. Overview(s)'
    <3>1. CASE job'[s] \in Other
      BY <3>1 DEF Overview, Other
    <3>2. CASE job'[s] \notin Other /\ (XhStart(s) \/ XhBegin(s) \/ XhLine(s))
      BY <1>1, <3>2, OverviewXhdr DEF Sound
    <3>3. CASE ~(XhStart(s) \/ XhBegin(s) \/ XhLine(s))
      <4>1. job'[s] \notin {"xhStart", "xhBegin", "xhLines"}
        BY <1>1, <3>3 DEF WorkerNext, ConnBegin, ConnOk, ConnFail, NgStart, NgList, XhRefused,
          XhEnd, ArtStart, HeadOk, HeadNotAvail, HeadFail, LinesOk, LinesCut, BodyOk, BodyFail,
          ArtWrite, ArtMark, ArtMissing, ArtNext, ArtFail, Finished, JobGoto, IInv, TypeOK
      <4> QED
        BY <4>1 DEF Overview
    <3> QED
      BY <3>1, <3>2, <3>3
  <2>3. Reached(s)'
    <3>1. Fetching(s)' => InRange(s)' \/ (Behind(s)' /\ Frozen')
      BY <1>1, <2>1 DEF Sound, Reached, InRange, Behind, StaysFrozen
    <3>2. ASSUME job'[s] \in {"artMissing", "artNext"} PROVE Behind(s)
      <4>1. CASE HeadNotAvail(s)
        <5>1. Fetching(s) /\ ~CanGet(s)
          BY <4>1 DEF HeadNotAvail, JobGoto, Fetching, ArticleJobs
        <5>2. ~InRange(s)
          BY <5>1 DEF InRange, CanGet, Avail, Art, LossAssumed
        <5> QED
          BY <1>1, <5>1, <5>2 DEF Sound, Reached
      <4>2. CASE ArtMissing(s)
        BY <1>1, <4>2 DEF ArtMissing, Sound, Reached
      <4>3. CASE ~(HeadNotAvail(s) \/ ArtMissing(s))
        BY <1>1, <3>2, <4>3 DEF WorkerNext, ConnBegin, ConnOk, ConnFail, NgStart, NgList, XhStart,
          XhBegin, XhRefused, XhLine, XhEnd, ArtStart, HeadOk, HeadFail, LinesOk, LinesCut, BodyOk,
          BodyFail, ArtWrite, ArtMark, ArtNext, ArtFail, Finished, JobGoto, IInv, TypeOK
      <4> QED
        BY <4>1, <4>2, <4>3
    <3> QED
      BY <2>1, <3>1, <3>2 DEF Reached, Behind
  <2>4. StoredOrShut(s)'
    <3> SUFFICES ASSUME job'[s] = "artMark" PROVE Art(s) \in written' \cup Kill \/ ~areasOpen
      BY <1>1, <2>1 DEF StoredOrShut, Art
    <3>1. CASE ArtWrite(s)
      BY <3>1 DEF ArtWrite, LossAssumed
    <3>2. CASE LinesOk(s) \/ LinesCut(s)
      BY <1>1, <3>2 DEF LinesOk, LinesCut, JobGoto, LossAssumed, ScoresFinal, IInv, TypeOK
    <3>3. CASE ~(ArtWrite(s) \/ LinesOk(s) \/ LinesCut(s))
      BY <1>1, <3>3 DEF WorkerNext, ConnBegin, ConnOk, ConnFail, NgStart, NgList, XhStart,
          XhBegin, XhRefused, XhLine, XhEnd, ArtStart, HeadOk, HeadNotAvail, HeadFail, BodyOk,
          BodyFail, ArtMark, ArtMissing, ArtNext, ArtFail, Finished, JobGoto, IInv, TypeOK
    <3> QED
      BY <3>1, <3>2, <3>3
  <2> QED
    BY <1>3, <2>2, <2>3, <2>4 DEF Sound
<1> QED
  BY <1>2, <1>3

\* An article is not available only behind the last of its group.
LEMMA MissingBehind ==
  ASSUME LossInv, NEW s \in Slots, job[s] \in {"artMissing", "artNext"}
  PROVE  Behind(s) /\ Frozen /\ nntp[s].selGroup \in Group
<1>1. Fetching(s) /\ Reached(s) /\ IInv
  BY DEF LossInv, Sound, QuietInv, Fetching, ArticleJobs
<1>2. nntp[s].selGroup \in Group /\ Behind(s)
  BY <1>1 DEF IInv, GroupKnown, Fetching, Reached
<1>3. GroupHi[nntp[s].selGroup] \in Nat
  BY <1>1, <1>2, RoutineTypes
<1>4. ~InRange(s)
  BY <1>1, <1>2, <1>3 DEF Behind, InRange
<1> QED
  BY <1>1, <1>2, <1>4 DEF Reached

LEMMA WorkerOwed ==
  ASSUME LossInv, NEW s \in Slots, WorkerNext(s), NEW t \in Slots
  PROVE  OwedKept(t)
<1>1. /\ IInv /\ StaysFrozen /\ Art(t)' = Art(t)
      /\ written \subseteq written' /\ Sound(s) /\ job[s] # "none"
      /\ t # s => job'[t] = job[t] /\ nntpS'[t] = nntpS[t]
  <2>1. Art(t)' = Art(t)
    BY WorkerQuiet DEF Art
  <2> QED
    BY <2>1, WorkerQuiet, WorkerFrozen DEF LossInv
<1>2. CASE Frozen
  BY <1>1, <1>2 DEF OwedKept, Owed, StaysFrozen
<1>3. CASE ~Frozen /\ t # s
  BY <1>1, <1>3 DEF OwedKept, Owed, Fetching
<1>4. CASE ~Frozen /\ t = s
  <2> SUFFICES ASSUME Fetching(s), ~Fetching(s)'
               PROVE  (job'[s] = "none" /\ nntpS'[s] = "failed") \/ Art(s) \in written' \cup Kill
    BY <1>1, <1>4 DEF OwedKept, Owed
  <2>1. ArtMark(s) \/ ArtMissing(s) \/ ArtNext(s) \/ ArtFail(s)
    BY <1>1 DEF WorkerNext, ConnBegin, ConnOk, ConnFail, NgStart, NgList, XhStart, XhBegin,
      XhRefused, XhLine, XhEnd, ArtStart, HeadOk, HeadNotAvail, HeadFail, LinesOk, LinesCut,
      BodyOk, BodyFail, ArtWrite, JobGoto, Fetching, ArticleJobs, IInv, TypeOK
  <2>2. CASE ArtMark(s)
    <3>1. areasOpen
      BY <1>4 DEF LossInv, Shut, Frozen
    <3> QED
      BY <1>1, <2>2, <3>1 DEF ArtMark, Sound, StoredOrShut
  <2>3. CASE ArtMissing(s) \/ ArtNext(s)
    BY <1>4, <2>3, MissingBehind DEF ArtMissing, ArtNext
  <2>4. CASE ArtFail(s)
    BY <1>1, <2>4 DEF ArtFail, Finished, SetS, IInv, TypeOK
  <2> QED
    BY <2>1, <2>2, <2>3, <2>4
<1> QED
  BY <1>2, <1>3, <1>4

\* What a worker marks it owes, or it has stored it.
LEMMA WorkerMarksOwed ==
  ASSUME LossInv, LossAssumed, NEW s \in Slots, WorkerNext(s), NEW h \in Group, NEW n \in read'[h]
  PROVE  n \in read[h] \/ Accounted(h, n)' \/ (Owed(s)' /\ NameOf(s, h, n)')
<1>1. /\ IInv /\ TypeOK /\ StaysFrozen /\ Sound(s) /\ written \subseteq written'
      /\ Art(s)' = Art(s) /\ nntp \in [Slots -> SlotType]
  <2>1. Art(s)' = Art(s)
    BY WorkerQuiet DEF Art
  <2> QED
    BY <2>1, WorkerQuiet, WorkerFrozen DEF LossInv, IInv, TypeOK
<1>2. ASSUME NEW P, Mark(P), \A p \in P : p = <<p[1], p[2]>>
      PROVE  n \in read[h] \/ <<h, n>> \in P
  BY <1>1, <1>2, MarkMember
<1>3. <<h, n>> \in {Art(s)} => NameOf(s, h, n)'
  <2>1. <<h, n>> = Art(s) => NameOf(s, h, n)
    BY DEF NameOf, XrefPairs, Art
  <2> QED
    BY <1>1, <2>1 DEF NameOf
<1>4. \A p \in {Art(s)} : p = <<p[1], p[2]>>
  BY DEF Art
<1>5. CASE LinesOk(s) \/ LinesCut(s)
  <2>1. Fetching(s)'
    BY <1>1, <1>5 DEF LinesOk, LinesCut, JobGoto, Fetching, ArticleJobs, IInv, TypeOK
  <2>2. Mark(XrefMarks(s)) \/ Mark({})
    BY <1>5 DEF LinesOk, LinesCut
  <2>3. n \in read[h] \/ <<h, n>> \in XrefMarks(s)
    <3>1. \A p \in XrefMarks(s) : p = <<p[1], p[2]>>
      BY XrefTuples DEF XrefMarks
    <3>2. CASE Mark({})
      BY <1>2, <3>2
    <3>3. CASE Mark(XrefMarks(s))
      BY <1>2, <3>1, <3>3
    <3> QED
      BY <2>2, <3>2, <3>3
  <2>4. <<h, n>> \in XrefMarks(s) => NameOf(s, h, n)'
    <3>1. <<h, n>> \in XrefMarks(s) => NameOf(s, h, n)
      BY DEF XrefMarks, NameOf
    <3> QED
      BY <1>1, <3>1 DEF NameOf
  <2> QED
    BY <2>1, <2>3, <2>4 DEF Owed
<1>6. CASE XhLine(s)
  <2> DEFINE g == nntp[s].actGroup
             S == XhComing(s)
             e == xhdr.expNum
  <2>1. /\ g \in Group /\ e >= GroupLo[g] /\ e \in Int /\ xhdr.groupName = g /\ S # {}
        /\ GroupLo[g] \in Nat
    BY <1>1, <1>6, RoutineTypes DEF XhLine, IInv, GroupKnown, TypeOK, Sound, Overview
  <2>2. \A k \in e .. SetMin(S) - 1 : k \in GroupLo[g] .. GroupHi[g] \ Avail(g)
    BY <2>1, XhLineEffect DEF XhComing
  <2>3. Mark({g} \X (e .. SetMin(S) - 1))
    BY <1>6, <2>1 DEF XhLine
  <2> HIDE DEF g, S, e
  <2>4. n \in read[h] \/ <<h, n>> \in {g} \X (e .. SetMin(S) - 1)
    BY <1>2, <2>3
  <2>5. n \in GroupLo[h] .. GroupHi[h] \ Avail(h) => Accounted(h, n)'
    BY DEF Accounted
  <2> QED
    BY <2>2, <2>4, <2>5
<1>7. CASE ArtMark(s)
  <2>1. n \in read[h] \/ <<h, n>> \in {Art(s)}
    BY <1>2, <1>4, <1>7 DEF ArtMark
  <2>2. CASE Art(s) \in written \cup Kill
    <3>1. <<h, n>> \in XrefPairs(h, n)
      BY DEF XrefPairs
    <3> QED
      BY <1>1, <2>1, <2>2, <3>1 DEF Accounted
  <2>3. CASE ~areasOpen
    <3>1. Frozen
      BY <2>3 DEF LossInv, Shut, Frozen
    <3> QED
      BY <1>1, <1>3, <2>1, <3>1 DEF StaysFrozen, Owed
  <2> QED
    BY <1>1, <1>7, <2>2, <2>3 DEF Sound, StoredOrShut, ArtMark
<1>8. CASE ArtMissing(s)
  <2>1. n \in read[h] \/ <<h, n>> \in {Art(s)}
    <3>1. PICK P \in SUBSET {Art(s)} : Mark(P)
      BY <1>8 DEF ArtMissing
    <3> QED
      BY <1>2, <1>4, <3>1
  <2>2. Owed(s)'
    BY <1>1, <1>8, MissingBehind DEF ArtMissing, Owed, StaysFrozen
  <2> QED
    BY <1>3, <2>1, <2>2
<1>9. CASE ArtNext(s)
  <2> DEFINE g == nntp[s].selGroup
             m == nntp[s].selNntpArticle
             after == {a \in Avail(g) : a > m}
             seen == IF Answers(s) THEN after ELSE {}
  <2>1. g \in Group /\ nntp[s].selArticle = GroupHi[g] + 1 /\ m \in Int
    BY <1>1, <1>9, MissingBehind DEF ArtNext, Behind, SlotType
  <2>2. Mark({g} \X NextHoles(g, GroupHi[g] + 1, seen))
    BY <1>9, <2>1 DEF ArtNext, Art
  <2>3. NextHoles(g, GroupHi[g] + 1, seen) = {}
    <3>1. seen = {} \/ seen = {a \in Avail(g) : a > m}
      OBVIOUS
    <3> HIDE DEF seen, m, g
    <3> QED
      BY <1>1, <2>1, <3>1, NoHoles DEF LossAssumed
  <2> HIDE DEF g, seen
  <2>4. n \in read[h] \/ <<h, n>> \in {g} \X NextHoles(g, GroupHi[g] + 1, seen)
    BY <1>2, <2>2
  <2> QED
    BY <2>3, <2>4
<1>10. CASE ~(LinesOk(s) \/ LinesCut(s) \/ XhLine(s) \/ ArtMark(s) \/ ArtMissing(s) \/ ArtNext(s))
  BY <1>10 DEF WorkerNext, ConnBegin, ConnOk, ConnFail, NgStart, NgList, XhStart, XhBegin, XhRefused,
    XhEnd, ArtStart, HeadOk, HeadNotAvail, HeadFail, BodyOk, BodyFail, ArtWrite, ArtFail, newsVars
<1> QED
  BY <1>5, <1>6, <1>7, <1>8, <1>9, <1>10

LEMMA WorkerLoss ==
  ASSUME LossInv, LossAssumed, IInv', NEW s \in Slots, WorkerNext(s)
  PROVE  /\ Inline' /\ Shut' /\ Pended' /\ MarkedOwed' /\ SavedOwed'
         /\ \A t \in Slots : Sound(t)'
<1>1. /\ UNCHANGED <<mainPc, disc, rpc, loc, saved, areasOpen>>
      /\ written \subseteq written' /\ (Enough => Enough') /\ StaysFrozen
  BY WorkerQuiet, WorkerFrozen
<1>2. Inline' /\ Shut' /\ Pended'
  BY <1>1 DEF LossInv, Inline, Shut, Pended
<1>3. MarkedOwed'
  BY <1>1, WorkerOwed, WorkerMarksOwed, MarkedOwedKept DEF LossInv
<1>4. SavedOwed'
  BY <1>1, SavedOwedKept DEF LossInv
<1> QED
  BY <1>2, <1>3, <1>4, WorkerSound
-----------------------------------------------------------------------------
(* The main thread, and the others.                                          *)

\* The main thread leaves the workers alone.
LEMMA MainSlots ==
  ASSUME LossInv, Strategy # 2, MainNext, NEW t \in Slots
  PROVE  /\ Untouched(t)
         /\ job'[t] \notin Other => job'[t] = job[t] /\ Art(t)' = Art(t)
         /\ job[t] = "none" /\ nntpS[t] = "failed" =>
              job'[t] = "none" /\ nntpS'[t] = "failed" /\ Art(t)' = Art(t)
<1>1. IInv /\ NoSync
  BY DEF LossInv, QuietInv
<1> USE <1>1 DEF IInv, TypeOK, SlotType, MainGoto
<1>2. CASE StartConnect
  <2>1. nntp' = nntp /\ xhdr' = xhdr /\ job'[t] = "connBegin" /\ nntpS[t] = "init"
    BY <1>2 DEF StartConnect, SlotInv, NothingYet
  <2> QED
    BY <2>1 DEF Untouched, Other, Art
<1>3. CASE StartNewGroups
  <2>1. nntp' = nntp /\ xhdr' = xhdr
    BY <1>3 DEF StartNewGroups
  <2>2. \/ job'[t] = job[t] /\ nntpS'[t] = nntpS[t]
        \/ job'[t] = "ngStart" /\ nntpS[t] = "waiting"
    BY <1>3, FirstWaitingOk DEF StartNewGroups
  <2> QED
    BY <2>1, <2>2 DEF Untouched, Other, Art
<1>4. CASE GetSlot
  <2>1. nntp' = nntp /\ xhdr' = xhdr /\ job' = job
    BY <1>4 DEF GetSlot
  <2>2. nntpS'[t] = nntpS[t] \/ nntpS[t] = "waiting"
    BY <1>4, FirstWaitingOk DEF GetSlot
  <2> QED
    BY <2>1, <2>2 DEF Untouched, Art
<1>5. CASE StartGroup
  <2>1. t = mainSlot => job[t] = "none" /\ nntpS[t] # "failed"
    BY ConstantsOK DEF SlotInv, MainHas, Slots, NoSlot, NoSync
  <2>2. /\ t # mainSlot => nntp'[t] = nntp[t]
        /\ nntp'[t].actGroup = nntp[t].actGroup
        /\ nntp'[t].selNntpArticle = nntp[t].selNntpArticle
    BY <1>5 DEF StartGroup, Select
  <2>3. job' = job /\ nntpS' = nntpS /\ xhdr' = xhdr
    BY <1>5 DEF StartGroup
  <2> QED
    BY <2>1, <2>2, <2>3 DEF Untouched, Other, Art
<1>6. CASE ~(StartConnect \/ StartNewGroups \/ GetSlot \/ StartGroup)
  <2>1. UNCHANGED <<nntp, nntpS, job, xhdr>>
    BY <1>6 DEF MainNext, WaitConnect, WaitOne, GroupReturned, Drain, NextGroup, Settle, Scan, ChkActive,
      Save, WaitDisc, slotVars
  <2> QED
    BY <2>1 DEF Untouched, Art
<1> QED
  BY <1>2, <1>3, <1>4, <1>5, <1>6

LEMMA MainFrozen ==
  ASSUME LossInv, Strategy # 2, MainNext
  PROVE  StaysFrozen /\ UNCHANGED <<read, written, bytes, areasOpen>>
<1>1. IInv /\ Still
  BY DEF LossInv, QuietInv
<1>2. UNCHANGED <<read, written, bytes, areasOpen>> /\ mainPc \notin Handler \cup {"exited"}
  BY DEF MainNext, StartConnect, WaitConnect, StartNewGroups, WaitOne, GetSlot, StartGroup, GroupReturned,
    Drain, NextGroup, Settle, Scan, ChkActive, Save, WaitDisc, newsVars, endVars, MainGoto, Handler
<1>3. StartGroup => disc = NoSlot
  BY <1>1 DEF StartGroup, MainGoto, Still, Before
<1>4. Frozen => ~StartGroup \/ Enough
  BY <1>2, <1>3 DEF Frozen, NoMore
<1>5. StartGroup /\ Enough => UNCHANGED <<rpc, loc, nntp, disc>>
  BY DEF StartGroup
<1>6. ~StartGroup => UNCHANGED <<rpc, loc, nntp>> /\ (disc # NoSlot => disc' # NoSlot)
  <2>1. ~StartGroup => UNCHANGED <<rpc, loc, nntp>>
    BY DEF MainNext, StartConnect, WaitConnect, StartNewGroups, WaitOne, GetSlot, GroupReturned,
      Drain, NextGroup, Settle, Scan, ChkActive, Save, WaitDisc, slotVars, groupVars
  <2>2. disc' = disc \/ disc' = 0
    BY DEF MainNext, StartConnect, WaitConnect, StartNewGroups, WaitOne, GetSlot, StartGroup,
      GroupReturned, Drain, NextGroup, Settle, Scan, ChkActive, Save, WaitDisc
  <2>3. NoSlot # 0
    BY DEF NoSlot
  <2> QED
    BY <2>1, <2>2, <2>3
<1>7. Frozen => UNCHANGED <<rpc, loc, nntp>> /\ (disc # NoSlot => disc' # NoSlot)
  BY <1>4, <1>5, <1>6
<1>8. Frozen => Frozen'
  BY <1>2, <1>7 DEF Frozen, NoMore, Enough
<1> QED
  BY <1>2, <1>7, <1>8 DEF StaysFrozen, Art

LEMMA MainLoss ==
  ASSUME LossInv, LossAssumed, MainNext
  PROVE  /\ Inline' /\ Shut' /\ Pended' /\ MarkedOwed' /\ SavedOwed'
         /\ \A t \in Slots : Sound(t)'
<1>1. /\ IInv /\ StaysFrozen /\ UNCHANGED <<read, written, bytes, areasOpen>> /\ Strategy # 2
  BY MainFrozen DEF LossInv, QuietInv, LossAssumed
<1>2. Shut'
  <2> USE <1>1 DEF LossInv, Shut, MainGoto, Handler
  <2>1. CASE ChkActive
    BY <2>1 DEF ChkActive, NoSlot
  <2>2. CASE Save \/ WaitDisc
    BY <2>2 DEF Save, WaitDisc
  <2>3. CASE ~(ChkActive \/ Save \/ WaitDisc)
    BY <2>3 DEF MainNext, StartConnect, WaitConnect, StartNewGroups, WaitOne, GetSlot, StartGroup,
      GroupReturned, Drain, NextGroup, Settle, Scan
  <2> QED
    BY <2>1, <2>2, <2>3
<1>3. Inline' /\ Pended'
  <2>1. \A g \in Group : \/ rpc'[g] = rpc[g] /\ loc'[g] = loc[g]
                         \/ rpc'[g] = "begun"
    <3>1. CASE StartGroup
      BY <1>1, <3>1 DEF StartGroup, IInv, TypeOK
    <3>2. CASE ~StartGroup
      BY <1>1, <3>2, MainKeeps
    <3> QED
      BY <3>1, <3>2
  <2> QED
    BY <1>1, <2>1 DEF LossInv, Inline, Pended, Enough
<1>4. ASSUME NEW t \in Slots PROVE OwedKept(t)
  <2>1. CASE Frozen
    BY <1>1, <2>1 DEF OwedKept, Owed, StaysFrozen
  <2>2. CASE Fetching(t)
    <3>1. job'[t] = job[t] /\ Art(t)' = Art(t)
      BY <1>1, <2>2, MainJobs
    <3> QED
      BY <2>2, <3>1 DEF OwedKept, Owed, Fetching
  <2>3. CASE job[t] = "none" /\ nntpS[t] = "failed"
    BY <1>1, <2>3, MainSlots DEF OwedKept, Owed
  <2> QED
    BY <2>1, <2>2, <2>3 DEF OwedKept, Owed
<1>5. MarkedOwed'
  BY <1>1, <1>4, MarkedOwedKept DEF LossInv
<1>6. SavedOwed'
  <2>1. CASE saved' = saved
    BY <1>1, <2>1, SavedOwedKept DEF LossInv
  <2>2. CASE saved' # saved
    <3>1. Save /\ saved' = read
      BY <2>2 DEF MainNext, StartConnect, WaitConnect, StartNewGroups, WaitOne, GetSlot, StartGroup,
        GroupReturned, Drain, NextGroup, Settle, Scan, ChkActive, Save, WaitDisc, endVars
    <3>2. Frozen
      BY <3>1 DEF Save, MainGoto, LossInv, Shut, Frozen
    <3>3. Frozen' /\ \A t \in Slots : Art(t)' = Art(t)
      BY <1>1, <3>2 DEF StaysFrozen
    <3>4. \A g \in Group : \A n \in read[g] : Accounted(g, n) \/ \E t \in Slots : NameOf(t, g, n)
      BY DEF LossInv, MarkedOwed
    <3> QED
      BY <1>1, <3>1, <3>3, <3>4 DEF SavedOwed, Accounted, NameOf
  <2> QED
    BY <2>1, <2>2
<1>7. ASSUME NEW t \in Slots PROVE Sound(t)'
  <2>1. CASE job'[t] \in Other
    BY <2>1 DEF Sound, Overview, Reached, StoredOrShut, Fetching, ArticleJobs, Other
  <2>2. CASE job'[t] \notin Other
    <3>1. Untouched(t) /\ job'[t] = job[t] /\ Art(t)' = Art(t)
      BY <1>1, <2>2, MainSlots
    <3> QED
      BY <1>1, <3>1, SoundKept DEF LossInv
  <2> QED
    BY <2>1, <2>2
<1> QED
  BY <1>2, <1>3, <1>5, <1>6, <1>7

LEMMA OthersLoss ==
  ASSUME LossInv, LossAssumed,
         \/ UserInterrupt \/ CheckTransfer \/ SigClose \/ SigSave \/ Disconnect
         \/ \E s \in Slots : LinkBreak(s)
         \/ UNCHANGED vars
  PROVE  /\ Inline' /\ Shut' /\ Pended' /\ MarkedOwed' /\ SavedOwed'
         /\ \A t \in Slots : Sound(t)'
<1>1. /\ IInv /\ UNCHANGED <<rpc, loc, read, written, bytes, job, xhdr>>
      /\ \A t \in Slots : Art(t)' = Art(t) /\ Untouched(t)
  <2>1. IInv
    BY DEF LossInv, QuietInv
  <2>2. CASE UserInterrupt \/ CheckTransfer \/ SigClose \/ SigSave \/ UNCHANGED vars
    <3>1. UNCHANGED <<rpc, loc, read, written, bytes, job, xhdr, nntp>>
      BY <2>2 DEF UserInterrupt, CheckTransfer, Sigint, SigClose, SigSave, vars, groupVars, newsVars, slotVars
    <3> QED
      BY <2>1, <3>1 DEF Art, Untouched
  <2>3. CASE Disconnect \/ \E s \in Slots : LinkBreak(s)
    <3>1. UNCHANGED <<rpc, loc, read, written, bytes, job, xhdr>>
      BY <2>3 DEF Disconnect, LinkBreak, groupVars, newsVars
    <3>2. \A t \in Slots : /\ nntp'[t].actGroup = nntp[t].actGroup
                           /\ nntp'[t].selNntpArticle = nntp[t].selNntpArticle
                           /\ nntp'[t].selGroup = nntp[t].selGroup
                           /\ nntp'[t].selArticle = nntp[t].selArticle
      <4>1. CASE Disconnect
        BY <2>1, <4>1 DEF Disconnect, IInv, TypeOK, SlotType
      <4>2. CASE \E s \in Slots : LinkBreak(s)
        BY <2>1, <4>2 DEF LinkBreak, IInv, TypeOK, SlotType
      <4> QED
        BY <2>3, <4>1, <4>2
    <3> QED
      BY <2>1, <3>1, <3>2 DEF Art, Untouched
  <2> QED
    BY <2>2, <2>3
<1>2. /\ disc # NoSlot => disc' # NoSlot
      /\ mainPc' = mainPc \/ mainPc' \in Handler \cup {"exited"}
      /\ mainPc \in Handler \cup {"exited"} => mainPc' \in Handler \cup {"exited"}
      /\ ~areasOpen => ~areasOpen'
      /\ ~areasOpen' => ~areasOpen \/ mainPc' \in Handler
  <2>1. CASE UserInterrupt \/ CheckTransfer \/ SigClose \/ SigSave \/ UNCHANGED vars
    BY <2>1 DEF UserInterrupt, CheckTransfer, Sigint, SigClose, SigSave, MainGoto, Handler, vars, mainVars,
      endVars
  <2>2. CASE Disconnect \/ \E s \in Slots : LinkBreak(s)
    BY <2>2, ConstantsOK DEF Disconnect, LinkBreak, mainVars, endVars, Slots, NoSlot
  <2> QED
    BY <2>1, <2>2
<1>3. StaysFrozen
  <2>1. Frozen => Frozen'
    BY <1>1, <1>2 DEF Frozen, NoMore, Enough
  <2> QED
    BY <1>1, <2>1 DEF StaysFrozen
<1>4. Inline' /\ Pended'
  BY <1>1 DEF LossInv, Inline, Pended, Enough
<1>5. Shut'
  BY <1>2 DEF LossInv, Shut, Handler
<1>6. \A t \in Slots : Sound(t)'
  BY <1>1, <1>2, <1>3, SoundKept DEF LossInv
<1>7. ASSUME NEW t \in Slots PROVE OwedKept(t)
  <2>1. CASE Frozen
    BY <1>3, <2>1 DEF OwedKept, Owed, StaysFrozen
  <2>2. CASE ~Frozen
    <3>1. nntpS' = nntpS
      <4>1. ~Disconnect
        BY <2>2, ConstantsOK DEF Disconnect, Frozen, Slots, NoSlot
      <4> QED
        BY <4>1 DEF UserInterrupt, CheckTransfer, Sigint, SigClose, SigSave, LinkBreak, vars, slotVars
    <3> QED
      BY <1>1, <2>2, <3>1 DEF OwedKept, Owed, Fetching
  <2> QED
    BY <2>1, <2>2
<1>8. MarkedOwed'
  BY <1>1, <1>7, MarkedOwedKept DEF LossInv
<1>9. SavedOwed'
  <2>1. CASE saved' = saved
    BY <1>1, <1>3, <2>1, SavedOwedKept DEF LossInv
  <2>2. CASE saved' # saved
    <3>1. SigSave /\ saved' = read
      BY <2>2 DEF UserInterrupt, CheckTransfer, Sigint, SigClose, SigSave, Disconnect, LinkBreak, vars, endVars
    <3>2. Frozen
      BY <3>1 DEF SigSave, MainGoto, Handler, Frozen
    <3>3. Frozen' /\ \A t \in Slots : Art(t)' = Art(t)
      BY <1>3, <3>2 DEF StaysFrozen
    <3>4. \A g \in Group : \A n \in read[g] : Accounted(g, n) \/ \E t \in Slots : NameOf(t, g, n)
      BY DEF LossInv, MarkedOwed
    <3> QED
      BY <1>1, <3>1, <3>3, <3>4 DEF SavedOwed, Accounted, NameOf
  <2> QED
    BY <2>1, <2>2
<1> QED
  BY <1>4, <1>5, <1>6, <1>8, <1>9

LEMMA LossInit == Init => LossInv
<1> SUFFICES ASSUME Init PROVE LossInv
  OBVIOUS
<1>1. QuietInv /\ NoSync /\ RequestInv
  BY QuietInit, NoSyncInit, RequestInit
<1>2. Inline /\ Shut /\ Pended
  BY DEF Init, Inline, Shut, Pended
<1>3. \A s \in Slots : Sound(s)
  BY DEF Init, Sound, Overview, Reached, StoredOrShut, Fetching, ArticleJobs
<1>4. MarkedOwed /\ SavedOwed
  BY DEF Init, MarkedOwed, SavedOwed, Accounted
<1> QED
  BY <1>1, <1>2, <1>3, <1>4 DEF LossInv

LEMMA LossNext == ASSUME LossAssumed PROVE LossInv /\ [Next]_vars => LossInv'
<1> SUFFICES ASSUME LossInv, [Next]_vars PROVE LossInv'
  OBVIOUS
<1>1. QuietInv' /\ NoSync' /\ RequestInv' /\ IInv' /\ Strategy # 2
  <2>1. QuietInv' /\ NoSync' /\ RequestInv'
    BY QuietNext, NoSyncNext, RequestNext DEF LossInv, QuietInv
  <2> QED
    BY <2>1 DEF QuietInv, LossAssumed
<1>2. CASE MainNext
  BY <1>1, <1>2, MainLoss DEF LossInv
<1>3. ASSUME NEW g \in Group, RoutineNext(g) PROVE LossInv'
  BY <1>1, <1>3, RoutineLoss DEF LossInv
<1>4. ASSUME NEW s \in Slots, WorkerNext(s) PROVE LossInv'
  BY <1>1, <1>4, WorkerLoss DEF LossInv
<1>5. CASE \/ UserInterrupt \/ CheckTransfer \/ SigClose \/ SigSave \/ Disconnect
           \/ \E s \in Slots : LinkBreak(s)
           \/ UNCHANGED vars
  BY <1>1, <1>5, OthersLoss DEF LossInv
<1> QED
  BY <1>2, <1>3, <1>4, <1>5 DEF Next, GroupNext, SlotNext

\* ^C, a failing connection or the byte limit at any moment cost no more articles than
\* there are connections (nntpcl.cc 584-637, news.cc 444-465, main.cc 523-568): every mark that
\* is saved is accounted for, or names the article one of the connections was at when
\* the session was stopped.
THEOREM LossBounded == ASSUME LossAssumed, OneName PROVE Spec => []AbortLossBounded
<1>1. LossInv => AbortLossBounded
  BY LossCounted
<1> QED
  BY LossInit, LossNext, <1>1, PTL DEF Spec
=============================================================================
