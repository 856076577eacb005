------------------------------- MODULE Outbox -------------------------------
(***************************************************************************)
(* The reply packet between its users.                                     *)
(*                                                                         *)
(* At rest the packet is reply.zip.  QSoup (qsoup.cc), one process for     *)
(* each message queued, unpacks it, appends its message to a fitting file  *)
(* and packs it again.  The SEND part of YarnIo (yarnio.cmd) unpacks it,   *)
(* runs vsoup -s (ReplySend), deletes the zip and packs what vsoup has     *)
(* left.  QSoup works only while it has locked history.pag, and only if    *)
(* there is no unpacked REPLIES.                                           *)
(*                                                                         *)
(* SEND locks nothing that QSoup looks at.  With Overlap = FALSE it is     *)
(* assumed that SEND does not begin while a QSoup works, and that no QSoup *)
(* finds REPLIES missing while SEND is active.  A crash ends one of the    *)
(* programs between two of its steps, and counts as a fault.               *)
(***************************************************************************)
EXTENDS ReplySend

CONSTANTS
  Queued,        \* the messages that are queued by QSoup
  Packets0,      \* packets written by the newsreader
  Overlap

NoOne == "nobody"

ASSUME OutboxAssumption ==
  /\ Queued \subseteq Mails \union Articles
  /\ NoOne \notin Queued
  /\ Packets0 \subseteq Packets
  /\ \A p \in Packets0 : InPacket(p) \intersect Queued = {} /\ InPacket(p) \ Others \subseteq Held(p)
  /\ Overlap \in BOOLEAN

VARIABLES
  zip,         \* reply.zip, Nothing if it is not there
  spc,         \* where SEND is
  qpc,         \* where each QSoup is
  qname,       \* fitFile of each QSoup
  lock,        \* who has history.pag open
  promised     \* the messages whose sender was told that they are queued

packetVars == <<zip, spc, qpc, qname, lock, promised>>
vars       == <<replyVars, packetVars>>

SendPcs == {"idle", "unzip", "check", "vsoup", "delete", "again", "zip", "clear"}
QPcs    == {"check", "lock", "recheck", "unzip", "entry", "append", "zip", "clear",
            "done", "failed"}

TypeOK ==
  /\ ReplyType
  /\ zip \in Packets
  /\ spc \in SendPcs
  /\ qpc \in [Queued -> QPcs] /\ qname \in [Queued -> Names]
  /\ lock \in Queued \union {NoOne}
  /\ promised \subseteq Messages

Init ==
  /\ ReplyInit
  /\ zip \in Packets0
  /\ spc = "idle"
  /\ qpc = [q \in Queued |-> "check"]
  /\ qname = [q \in Queued |-> [base |-> "mail", nr |-> 0]]
  /\ lock = NoOne
  /\ promised = InPacket(zip)

\* unzip -o and zip: the files of the second packet replace those of the first.
Overlay(under, over) ==
  [replies |-> IF over.replies = NoFile THEN under.replies ELSE over.replies,
   files   |-> [f \in Names |-> IF over.files[f] = NoFile THEN under.files[f] ELSE over.files[f]]]

Unpacked == dir.replies # NoFile

----------------------------------------------------------------------------
(* QSoup *)

Works(q) == qpc[q] \in {"unzip", "entry", "append", "zip", "clear"}

QGoes(q, from, to) == qpc[q] = from /\ qpc' = [qpc EXCEPT ![q] = to]

QCheck(q) ==
  /\ ~Unpacked
  /\ QGoes(q, "check", "lock")
  /\ UNCHANGED <<replyVars, zip, spc, qname, lock, promised>>

\* Mutant: the lock is not asked for.
QLockShared(q) ==
  /\ QGoes(q, "lock", "recheck")
  /\ lock' = q
  /\ UNCHANGED <<replyVars, zip, spc, qname, promised>>

QLock(q) ==
  /\ \/ lock = NoOne /\ lock' = q /\ QGoes(q, "lock", "recheck")
     \/ lock # NoOne /\ QGoes(q, "lock", "check") /\ UNCHANGED lock
  /\ UNCHANGED <<replyVars, zip, spc, qname, promised>>

QRecheck(q) ==
  /\ \/ Unpacked /\ QGoes(q, "recheck", "check") /\ lock' = NoOne
     \/ ~Unpacked /\ (Overlap \/ spc = "idle") /\ QGoes(q, "recheck", "unzip") /\ UNCHANGED lock
  /\ UNCHANGED <<replyVars, zip, spc, qname, promised>>

\* unzip is tried until it works; it cannot overwrite files that vsoup reads.
QUnzip(q) ==
  /\ QGoes(q, "unzip", "entry")
  /\ ~RepliesOpen
  /\ dir' = Overlay(dir, zip)
  /\ UNCHANGED <<readOnly, bare, vpc, line, pos, errorVars, smtp, serverVars, faults>>
  /\ UNCHANGED <<zip, spc, qname, lock, promised>>

KindIs(q)   == IF q \in Articles THEN "news" ELSE "mail"
Fitting(q)  == {i \in DOMAIN dir.replies : dir.replies[i].kind = KindIs(q)}
Default(q)  == [base |-> KindIs(q), nr |-> 0]
FitNames(q) == {dir.replies[i].name : i \in Fitting(q)}
First(S)    == {i \in S : \A j \in S : i <= j}

\* Mutant: the default name is taken although there is a file of that name.
FreeAny(q) == {Default(q)}

\* The first name of the kind without a file; MaxSuffix bounds the search.
FirstFree(q) ==
  {f \in Names : /\ f.base = KindIs(q) /\ dir.files[f] = NoFile
                 /\ \A n \in 0 .. f.nr - 1 : dir.files[[base |-> f.base, nr |-> n]] # NoFile}

\* Mutant: the number is counted up once more.
FreeNext(q) == {[f EXCEPT !.nr = @ + 1] : f \in FirstFree(q)}

Free(q) == FirstFree(q)

\* The line that fits best: the default name before others, the first of those.
Best(q) ==
  IF Default(q) \in FitNames(q) THEN {Default(q)}
  ELSE {dir.replies[i].name : i \in First(Fitting(q))}

QFit(q) ==
  /\ \E f \in Best(q) : qname' = [qname EXCEPT ![q] = f]
  /\ QGoes(q, "entry", "append")
  /\ UNCHANGED <<replyVars, zip, spc, lock, promised>>

\* Without one a line is appended to REPLIES, or QSoup fails if it is in use.
QEntry(q) ==
  /\ Fitting(q) = {}
  /\ \E f \in Free(q) :
       IF RepliesOpen
         THEN QGoes(q, "entry", "failed") /\ lock' = NoOne /\ UNCHANGED <<dir, qname>>
         ELSE /\ QGoes(q, "entry", "append")
              /\ dir' = [dir EXCEPT !.replies = Append(@, [name |-> f, kind |-> KindIs(q)])]
              /\ qname' = [qname EXCEPT ![q] = f]
              /\ UNCHANGED lock
  /\ UNCHANGED <<readOnly, bare, vpc, line, pos, errorVars, smtp, serverVars, faults>>
  /\ UNCHANGED <<zip, spc, promised>>

QAppend(q) ==
  /\ IF FileOpen(qname[q])
       THEN QGoes(q, "append", "failed") /\ lock' = NoOne /\ UNCHANGED dir
       ELSE /\ QGoes(q, "append", "zip")
            /\ dir' = [dir EXCEPT !.files[qname[q]] = Append(@, q)]
            /\ UNCHANGED lock
  /\ UNCHANGED <<readOnly, bare, vpc, line, pos, errorVars, smtp, serverVars, faults>>
  /\ UNCHANGED <<zip, spc, qname, promised>>

\* The program ends with success, and the lock is given up.
QReturn(q, from) ==
  /\ QGoes(q, from, "done")
  /\ lock' = NoOne
  /\ promised' = promised \union {q}

\* zip -m: first the archive is written.  "REPLIES does not exist, nothing zipped & nothing
\* done" is a success as well.
QZip(q) ==
  /\ IF Unpacked
       THEN QGoes(q, "zip", "clear") /\ zip' = Overlay(zip, dir) /\ UNCHANGED <<lock, promised>>
       ELSE QReturn(q, "zip") /\ UNCHANGED zip
  /\ UNCHANGED <<replyVars, spc, qname>>

\* Then the files are deleted, again and again while vsoup reads them.
QClear(q) ==
  /\ ~RepliesOpen
  /\ QReturn(q, "clear")
  /\ dir' = Nothing
  /\ UNCHANGED <<readOnly, bare, vpc, line, pos, errorVars, smtp, serverVars, faults>>
  /\ UNCHANGED <<zip, spc, qname>>

QCrash(q) ==
  /\ Works(q)
  /\ Fault
  /\ QGoes(q, qpc[q], "failed")
  /\ lock' = NoOne
  /\ UNCHANGED <<readOnly, bare, dir, vpc, line, pos, errorVars, smtp, serverVars>>
  /\ UNCHANGED <<zip, spc, qname, promised>>

QStep(q) ==
  \/ QCheck(q) \/ QLock(q) \/ QRecheck(q) \/ QUnzip(q)
  \/ QFit(q) \/ QEntry(q) \/ QAppend(q)
  \/ QZip(q) \/ QClear(q)

----------------------------------------------------------------------------
(* The SEND part of YarnIo *)

SGoes(from, to) == spc = from /\ spc' = to

\* There is one SEND at a time (semLocal).
SStart ==
  /\ Overlap \/ \A q \in Queued : ~Works(q)
  /\ SGoes("idle", "unzip")
  /\ UNCHANGED <<replyVars, zip, qpc, qname, lock, promised>>

SUnzip ==
  /\ SGoes("unzip", "check")
  /\ dir' = Overlay(dir, zip)
  /\ UNCHANGED <<readOnly, bare, vpc, line, pos, errorVars, smtp, serverVars, faults>>
  /\ UNCHANGED <<zip, qpc, qname, lock, promised>>

SCheck ==
  /\ SGoes("check", IF Unpacked THEN "vsoup" ELSE "idle")
  /\ UNCHANGED <<replyVars, zip, qpc, qname, lock, promised>>

SVsoup ==
  /\ spc = "vsoup"
  /\ Begin \/ ReplyStep
  /\ UNCHANGED packetVars

\* vsoup has returned, and its status mail is imported.
SReturned ==
  /\ vpc = "done" /\ vpc' = "idle"
  /\ SGoes("vsoup", "delete")
  /\ UNCHANGED <<readOnly, bare, dir, line, pos, errorVars, smtp, serverVars, faults>>
  /\ UNCHANGED <<zip, qpc, qname, lock, promised>>

SDelete ==
  /\ SGoes("delete", "again")
  /\ zip' = Nothing
  /\ UNCHANGED <<replyVars, qpc, qname, lock, promised>>

SAgain ==
  /\ SGoes("again", IF Unpacked THEN "zip" ELSE "idle")
  /\ UNCHANGED <<replyVars, zip, qpc, qname, lock, promised>>

SZip ==
  /\ SGoes("zip", "clear")
  /\ zip' = Overlay(zip, dir)
  /\ UNCHANGED <<replyVars, qpc, qname, lock, promised>>

SClear ==
  /\ SGoes("clear", "idle")
  /\ dir' = Nothing
  /\ UNCHANGED <<readOnly, bare, vpc, line, pos, errorVars, smtp, serverVars, faults>>
  /\ UNCHANGED <<zip, qpc, qname, lock, promised>>

SCrash ==
  /\ spc # "idle"
  /\ Fault
  /\ Exit("idle") /\ UNCHANGED dir
  /\ spc' = "idle"
  /\ UNCHANGED <<zip, qpc, qname, lock, promised>>

SendStep ==
  \/ SStart \/ SUnzip \/ SCheck \/ SVsoup \/ SReturned
  \/ SDelete \/ SAgain \/ SZip \/ SClear

Next ==
  \/ SendStep \/ SCrash
  \/ \E q \in Queued : QStep(q) \/ QCrash(q)

Spec == Init /\ [][Next]_vars

\* The programs run; the user starts SEND again and again.
FairSpec == Spec /\ WF_vars(SendStep) /\ \A q \in Queued : WF_vars(QStep(q))

----------------------------------------------------------------------------
(* Properties *)

Packed == (InPacket(zip) \union InPacket(dir)) \ Others

\* Once its sender was told that a message is queued, it is in a file that REPLIES
\* lists, packed or unpacked, until a server has accepted it, whatever fails or crashes
\* in between.
NoReplyLost == \A m \in promised \ Others : copies[m] > 0 \/ m \in Packed

\* A mail arrives again only if something has failed: an answer was lost, a later
\* mail of its file was refused, or one of the programs was stopped.
CopiesBounded ==
  ~readOnly => \A m \in Mails : copies[m] <= 1 + faults

\* A mail whose text is transmitted goes to all of its recipients, and to no others
\* that an earlier mail has left behind.
EnvelopeWhole == vpc = "text" => envelope = <<Message, Recipients[Message]>>

\* A file contains only messages of the kind of its line: what vsoup has left of a line
\* it does not support is not sent when QSoup looks for a name.
KindsMatch(p) ==
  \A i \in DOMAIN p.replies :
    p.replies[i].kind # "bad" =>
      \A m \in InFile(p.files[p.replies[i].name]) : KindOf(m) = p.replies[i].kind

KindsApart == KindsMatch(zip) /\ KindsMatch(dir)

\* While vsoup -s is active, no QSoup works with the packet (the manual says so of both).
ExclusiveAccess == spc = "vsoup" => \A q \in Queued : ~Works(q)

Blocked == \E p \in {zip, dir} : \E i \in DOMAIN p.replies : p.replies[i].kind = "bad"

\* Each message queued is sent in the end, if every message ends with a newline and no
\* line of REPLIES is malformed.
EventuallySent ==
  (bare = {} /\ ~Blocked) ~> (\A m \in promised \ Others : copies[m] > 0)

Queue == INSTANCE ReplyQueue WITH waiting <- Packed, promised <- promised \ Others

ImplementsQueue == Queue!Spec

=============================================================================
