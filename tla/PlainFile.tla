----------------------------- MODULE PlainFile -----------------------------
(***************************************************************************)
(* What a temporary file promises: one sequence of bytes and one position, *)
(* whatever part of it is kept where.  A file is a function from its       *)
(* positions, which start at zero, to bytes; call is the last call with    *)
(* its arguments (calls take turns, so that a repeated one is told from    *)
(* none), and got what the last call that reads has returned, with n = 0   *)
(* at the end of the file.                                                 *)
(***************************************************************************)
EXTENDS Integers

CONSTANTS Bytes, MaxLen     \* MaxLen bounds the blocks that are read and written

VARIABLES content, len, pos, call, got

plainVars == <<content, len, pos, call, got>>

Smaller(a, b) == IF a < b THEN a ELSE b
Larger(a, b)  == IF a < b THEN b ELSE a

Empty         == [i \in {} |-> 0]
Part(f, at, n) == [i \in 0 .. n - 1 |-> f[at + i]]

\* The first n bytes of s are written to the place at of a file f with size bytes.
Put(f, size, at, s, n) ==
  [i \in 0 .. Larger(size, at + n) - 1 |-> IF i \in at .. at + n - 1 THEN s[i - at] ELSE f[i]]

Init ==
  /\ content = Empty /\ len = 0 /\ pos = 0
  /\ call = [turn |-> FALSE, what |-> [op |-> "open"]] /\ got = [n |-> 0, data |-> Empty]

Asked(what) == call' = [turn |-> ~call.turn, what |-> what]

Take(n) ==
  LET k == Smaller(n, len - pos) IN
  /\ got' = [n |-> k, data |-> Part(content, pos, k)]
  /\ pos' = pos + k
  /\ UNCHANGED <<content, len>>

Read(n) == Take(n) /\ Asked([op |-> "read", n |-> n])
Getcc   == Take(1) /\ Asked([op |-> "getcc"])

Write(s, n) ==
  /\ Asked([op |-> "write", n |-> n, data |-> s])
  /\ content' = Put(content, len, pos, s, n)
  /\ len' = Larger(len, pos + n)
  /\ pos' = pos + n
  /\ UNCHANGED got

Origin(from) == IF from = "set" THEN 0 ELSE IF from = "cur" THEN pos ELSE len

\* Never to a place outside of the file.
Seek(offset, from) ==
  LET to == Origin(from) + offset IN
  /\ Asked([op |-> "seek", offset |-> offset, from |-> from])
  /\ pos' = IF to < 0 THEN 0 ELSE Smaller(to, len)
  /\ UNCHANGED <<content, len, got>>

\* "filePos is undefined after truncate()"
Truncate(n) ==
  /\ Asked([op |-> "truncate", n |-> n])
  /\ len' = Smaller(n, len)
  /\ content' = Part(content, 0, len')
  /\ pos' \in 0 .. len'
  /\ UNCHANGED got

Renew ==
  /\ Asked([op |-> "open"])
  /\ content' = Empty /\ len' = 0 /\ pos' = 0 /\ UNCHANGED got

Next ==
  \/ \E n \in 0 .. MaxLen : Read(n) \/ Truncate(n) \/ \E s \in [0 .. n - 1 -> Bytes] : Write(s, n)
  \/ Getcc
  \/ \E offset \in - MaxLen .. MaxLen, from \in {"set", "cur", "end"} : Seek(offset, from)
  \/ Renew

Spec == Init /\ [][Next]_plainVars

=============================================================================
