----------------------------- MODULE ReplyQueue -----------------------------
(***************************************************************************)
(* What the reply packet promises, without files, lines and locks: it is a *)
(* set of messages that are sent at least once.  A message is put into it; *)
(* at some time its sender is told so; from then on it may leave the set   *)
(* only after a server has accepted it.                                    *)
(***************************************************************************)
EXTENDS Integers

CONSTANTS Messages, MaxCopies

VARIABLES
  waiting,      \* the messages in the packet
  promised,     \* those whose sender was told that they are
  copies        \* how often the servers have accepted each

vars == <<waiting, promised, copies>>

Init ==
  /\ waiting \subseteq Messages /\ promised = waiting
  /\ copies = [m \in Messages |-> 0]

Put(m) ==
  /\ waiting' = waiting \union {m}
  /\ UNCHANGED <<promised, copies>>

Promise(m) ==
  /\ m \in waiting \/ copies[m] > 0
  /\ promised' = promised \union {m}
  /\ UNCHANGED <<waiting, copies>>

Accept(m) ==
  /\ m \in waiting
  /\ copies' = [copies EXCEPT ![m] = IF @ < MaxCopies THEN @ + 1 ELSE @]
  /\ UNCHANGED <<waiting, promised>>

Forget ==
  /\ waiting' \subseteq waiting
  /\ \A m \in (waiting \ waiting') \intersect promised : copies[m] > 0
  /\ UNCHANGED <<promised, copies>>

Next ==
  \/ \E m \in Messages : Put(m) \/ Promise(m) \/ Accept(m)
  \/ Forget

Spec == Init /\ [][Next]_vars

=============================================================================
