-------------------------- MODULE MCReadListSession --------------------------
(***************************************************************************)
(* ReadListSession over short lines and few articles.                      *)
(***************************************************************************)
EXTENDS ReadListSession

Numbers == 0 .. MaxArt
Tokens  == {Num(n) : n \in Numbers} \cup {Dash(a, b) : a, b \in Numbers \ {0}} \cup {Junk}
First(t) == IF t = Junk THEN MaxArt ELSE Min({t.lo, t.hi})

\* Lines of at most three tokens, the numbers they begin with ascending; ranges
\* may overlap and may be written backwards.
SortedLines ==
  {<<>>} \cup {<<t>> : t \in Tokens}
    \cup {<<p[1], p[2]>> : p \in {q \in Tokens \X Tokens : First(q[1]) <= First(q[2])}}
    \cup {<<p[1], p[2], p[3]>> : p \in {q \in Tokens \X Tokens \X {Num(n) : n \in Numbers} :
             First(q[1]) <= First(q[2]) /\ First(q[2]) <= First(q[3])}}
=============================================================================
