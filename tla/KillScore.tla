----------------------------- MODULE KillScore -----------------------------
(***************************************************************************)
(* The score file (class TKillFile of kill.cc).  It is a list of sections, *)
(* each for the groups its pattern matches.  The sections of the group     *)
(* that was asked for last are kept in a list that all threads use and     *)
(* that buildActGroupList writes over: nodes are used again, and the one   *)
(* behind the last section gets no rules and so ends the list.             *)
(*                                                                         *)
(* A section is a record: the groups it matches and the points of the      *)
(* header lines its rules match.                                           *)
(***************************************************************************)
EXTENDS Integers, Sequences, FiniteSetsExt

CONSTANTS
  Sections,       \* groupKillList
  Threshold,      \* killThreshold
  NoGroup

ASSUME SectionsOK ==
  /\ Len(Sections) \in Nat
  /\ \A s \in 1 .. Len(Sections) :
       \A line \in DOMAIN Sections[s].points : Sections[s].points[line] \in Int

VARIABLES
  actGroup,       \* actGroupName
  actList         \* actGroupList: the sections, 0 for none

killVars == <<actGroup, actList>>

KillType(groups) ==
  /\ actGroup \in groups \union {NoGroup}
  /\ actList \in Seq(0 .. Len(Sections))

KillInit == actGroup = NoGroup /\ actList = << >>

\* The sections for a group, in the order of the file.
Matching(group) ==
  LET new[s \in 0 .. Len(Sections)] ==
        IF s = 0 THEN << >>
        ELSE IF group \in Sections[s].groups THEN Append(new[s - 1], s) ELSE new[s - 1]
  IN  new[Len(Sections)]

\* The old nodes behind the new end stay.
Rebuilt(group) ==
  LET new == Matching(group) IN
  [i \in 1 .. Max({Len(new), Len(actList)}) |->
     IF i <= Len(new) THEN new[i] ELSE IF i = Len(new) + 1 THEN 0 ELSE actList[i]]

\* Mutant: the list is built once.
BuildOnce(group) ==
  IF actGroup = NoGroup THEN actGroup' = group /\ actList' = Rebuilt(group) ELSE UNCHANGED killVars

BuildActGroupList(group) ==
  IF group = actGroup THEN UNCHANGED killVars
                      ELSE actGroup' = group /\ actList' = Rebuilt(group)

HasRules(node) == node # 0 /\ DOMAIN Sections[node].points # {}

PointsOf(section, line) == IF line \in DOMAIN section.points THEN section.points[line] ELSE 0

\* f[1] + ... + f[n]
SumTo(f, n) ==
  LET sum[i \in 0 .. n] == IF i = 0 THEN 0 ELSE sum[i - 1] + f[i]
  IN  sum[n]

\* matchLine adds up the points of a line, to the first node without rules.
Points(list, line) ==
  LET used == {i \in 1 .. Len(list) : \A j \in 1 .. i : HasRules(list[j])}
  IN  SumTo([i \in 1 .. Len(list) |-> IF i \in used THEN PointsOf(Sections[list[i]], line) ELSE 0],
            Len(list))

\* doKillQ looks at the first node.
FirstHasRules(list) == list # << >> /\ HasRules(list[1])

----------------------------------------------------------------------------
\* What the manual says: the points of all rules for a group and a line, ...
LineTotal(group, line) ==
  SumTo([s \in 1 .. Len(Sections) |->
           IF group \in Sections[s].groups THEN PointsOf(Sections[s], line) ELSE 0],
        Len(Sections))

\* ... and for all of these lines.
Total(group, lines) ==
  SumTo([l \in 1 .. Len(lines) |-> LineTotal(group, lines[l])], Len(lines))
=============================================================================
