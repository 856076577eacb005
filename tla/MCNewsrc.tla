------------------------------ MODULE MCNewsrc ------------------------------
(***************************************************************************)
(* Small instances of Newsrc: one or two groups in the file, one new group.*)
(***************************************************************************)
EXTENDS Newsrc

CONSTANTS a, b, c

LineOf(name, sub, ranges) == [name |-> name, subscribed |-> sub, ranges |-> ranges]

\* Group a, whose server has the articles 2 to 4: lists below, across and above
\* its first article, and one of before the group was reset.
Ranges == {<<Num(0)>>, <<Num(1), Num(3)>>, <<Num(2)>>, <<Dash(1, 2), Num(5)>>, <<Num(6)>>}
OneGroup  == {<<LineOf(a, TRUE, r)>> : r \in Ranges}
LoOf == (a :> 2 @@ b :> 1 @@ c :> 1)
\* The workers are interchangeable.
WorkerSymmetry == Permutations(Worker)
HiOf == (a :> 4 @@ b :> 2 @@ c :> 2)
=============================================================================
