------------------------------ MODULE ReadSets ------------------------------
(***************************************************************************)
(* What the newsrc in memory promises to the news session: for each group  *)
(* a set of article numbers, to which a number is added or which is fitted *)
(* to the numbers the server has, each in one step whatever the threads do.*)
(***************************************************************************)
EXTENDS Integers

CONSTANTS
  Name,        \* newsgroups
  Marks,       \* article numbers that may be marked
  GroupLo,     \* first and last article number the server reports
  GroupHi,
  CatchupKeep, \* numbers of articles a catchup may leave unread
  ResetAbove, ResetSlack

VARIABLE read

\* The group was reset if a mark lies too far above its last article.
Fixed(S, lo, hi) ==
  (IF \E n \in S : n > hi + (IF hi > ResetAbove THEN ResetSlack ELSE 0) THEN {} ELSE S)
    \cup (1 .. lo - 1)

Init == read \in [Name -> SUBSET Nat]

MarkRead(g, n)    == read' = [read EXCEPT ![g] = @ \cup {n}]
FixReadList(g)    == read' = [read EXCEPT ![g] = Fixed(@, GroupLo[g], GroupHi[g])]
Catchup(g, keep)  ==
  LET lo == IF GroupHi[g] - keep + 1 < 1 THEN 1 ELSE GroupHi[g] - keep + 1
  IN read' = [read EXCEPT ![g] = Fixed(@, lo, GroupHi[g])]

Next == \E g \in Name :
  \/ \E n \in Marks : MarkRead(g, n)
  \/ FixReadList(g)
  \/ \E keep \in CatchupKeep : Catchup(g, keep)

Spec == Init /\ [][Next]_read
=============================================================================
