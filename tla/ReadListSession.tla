--------------------------- MODULE ReadListSession ---------------------------
(***************************************************************************)
(* The read list of one group through its life: read from a line of the    *)
(* newsrc, then fixed, caught up and marked in any order.  Beside the list *)
(* goes the set of numbers that should be in it.                           *)
(***************************************************************************)
EXTENDS ReadList

CONSTANTS
  Lines,    \* lines of a newsrc, their tokens ascending
  MaxArt    \* article numbers are 1 .. MaxArt

ASSUME LinesOK ==
  /\ MaxArt \in Nat
  /\ \A line \in Lines : line \in Seq(LineToken) /\ Ascending(Readable(line))

VARIABLES
  readList, \* the list
  ref,      \* reference: the set of numbers read
  isFixed   \* the group's first article, once the list has been fixed to it

vars == <<readList, ref, isFixed>>

\* Reference definitions on sets.
LineSet(line) == (UNION {Covered(t) : t \in ToSet(Readable(line))}) \ {0}
FixSet(S, lo, hi) ==
  (IF \E n \in S : n > hi + (IF hi > ResetAbove THEN ResetSlack ELSE 0) THEN {} ELSE S)
    \cup (1 .. lo - 1)

Init == \E line \in Lines :
  readList = GetReadList(line) /\ ref = LineSet(line) /\ isFixed = 0

Marked(n) ==
  /\ readList' = IF ArtIsRead(readList, n) THEN readList ELSE MarkRead(readList, n)
  /\ ref' = ref \cup {n}
  /\ UNCHANGED isFixed

Fixed(lo, hi) ==
  /\ readList' = FixReadList(readList, lo, hi)
  /\ ref' = FixSet(ref, lo, hi)
  /\ isFixed' = lo

CaughtUp(hi, keep) == Fixed(CatchupLo(1, hi, keep), hi)

Next ==
  \/ \E n \in 1 .. MaxArt : Marked(n)
  \/ \E lo \in 1 .. MaxArt : \E hi \in lo - 1 .. MaxArt : Fixed(lo, hi)
  \/ \E hi, keep \in 0 .. MaxArt : CaughtUp(hi, keep)

Spec == Init /\ [][Next]_vars
-----------------------------------------------------------------------------
\* The list stands for exactly the numbers read, in normal form, whatever the
\* order in which they came: no article is fetched again, none passed over.
ListIsSet == NormalForm(readList) /\ Elems(readList) = ref

\* artIsRead() decides membership, though it stops at the first range above n.  Once the
\* list is fixed, the first article mtGetGroup() asks for is the least one of the group not
\* yet read, though grpFirstUnread() looks at one range only.
QueriesAreSet ==
  /\ \A n \in 0 .. MaxArt + 2 : ArtIsRead(readList, n) <=> n \in ref \cup {0}
  /\ isFixed > 0 => LET first == FirstUnread(readList, isFixed) IN
       /\ first >= isFixed /\ first \notin ref
       /\ isFixed .. first - 1 \subseteq ref

\* What putReadList() writes, getReadList() reads back.
RoundTrip == GetReadList(PutReadList(readList)) = readList
=============================================================================
