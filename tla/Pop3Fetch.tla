----------------------------- MODULE Pop3Fetch -----------------------------
(***************************************************************************)
(* The reception of mail (getMail of pop3.cc) into the message file of     *)
(* class TAreas, up to the end of the program (main.cc): its regular end   *)
(* or the one of the signal handler, which interrupts the main thread      *)
(* anywhere.  The program may be started again, and mail may arrive at     *)
(* any time.                                                               *)
(*                                                                         *)
(* The POP3 server is not part of the repository.  It is what pop3.cc      *)
(* relies on: it numbers the mails that are in the mailbox at login, and   *)
(* removes those marked by DELE when it gets QUIT; a session that ends in  *)
(* any other way removes nothing.                                          *)
(*                                                                         *)
(* A fault is a command whose connection is lost, a login that fails or a  *)
(* command the server refuses.  MaxFaults, MaxAborts, MaxWriteErrors,      *)
(* MaxLate and MaxRuns only bound how often the environment acts.          *)
(***************************************************************************)
EXTENDS Areas, FiniteSets

CONSTANTS
  NumMails,          \* the mails in the mailbox at the beginning
  EmptyMails,        \* the mails without a single line
  AbortInStart,      \* a signal may arrive between the two steps of msgStart
  MaxFaults, MaxAborts, MaxWriteErrors, MaxLate, MaxRuns

ASSUME Pop3Assumption ==
  /\ {NumMails, MaxFaults, MaxAborts, MaxWriteErrors, MaxLate, MaxRuns} \subseteq Nat
  /\ AbortInStart \in BOOLEAN

Mails == 1 .. NumMails + MaxLate

VARIABLES
  readOnly,          \* option -r
  forceMailDelete,   \* option -D
  pc,                \* where getMail is, or "ended"
  msgTotal, count, msgNumber,   \* the locals of getMail
  retcode,           \* what getMail returned
  mailbox,           \* server: the mails in the mailbox
  view,              \* server: the mails as numbered at login, << >> without a session
  dele,              \* server: the numbers marked by DELE
  wanted,            \* history: the mails that were there at the first login of this run
  quitLost,          \* history: a QUIT of this run did not reach the server
  writeFailed,       \* history: a write of this run failed
  imported,          \* history: the copies the reader got from earlier runs
  arrived,           \* the number of mails that have arrived so far
  faults, aborts, writeErrors, runs

serverVars == <<mailbox, view, dele>>
localVars  == <<msgTotal, count, msgNumber, retcode>>
options    == <<readOnly, forceMailDelete>>
historyVars == <<wanted, quitLost, writeFailed, imported>>
bounds     == <<faults, aborts, writeErrors, runs>>
vars == <<areasVars, options, pc, localVars, serverVars, historyVars, arrived, bounds>>

Pcs == {"connect", "loop", "read", "start", "head", "write", "stop", "stopped",
        "dele", "next", "quit", "reconnect", "lastquit", "finish", "ended"}

\* The copies of mails that are whole in the message file, each with its run and
\* its place there, and all copies the user gets.
NewCopies == {<<runs, i, msgFile[i].msg>> : i \in {k \in DOMAIN msgFile : IsWhole(msgFile[k])}}
Received  == imported \union NewCopies

MailsOf(copies) == {copy[3] : copy \in copies}

Init ==
  /\ AreasInit
  /\ readOnly \in BOOLEAN /\ forceMailDelete \in BOOLEAN
  /\ pc = "connect"
  /\ msgTotal = 0 /\ count = 1 /\ msgNumber = 1 /\ retcode = 0
  /\ mailbox = 1 .. NumMails /\ view = << >> /\ dele = {}
  /\ wanted = {} /\ quitLost = FALSE /\ writeFailed = FALSE /\ imported = {}
  /\ arrived = NumMails
  /\ faults = 0 /\ aborts = 0 /\ writeErrors = 0 /\ runs = 1

----------------------------------------------------------------------------
(* The connection *)

Fault == faults < MaxFaults /\ faults' = faults + 1

\* A mail's number is its place in the mailbox, the oldest mail first.
Numberings(S) ==
  {v \in [1 .. Cardinality(S) -> S] : \A i, j \in DOMAIN v : i < j => v[i] < v[j]}

Login == view' \in Numberings(mailbox) /\ dele' = {} /\ UNCHANGED mailbox

\* The session ends without a QUIT that arrives.
Drop == view' = << >> /\ dele' = {} /\ UNCHANGED mailbox

\* The server gets the QUIT; whether its answer arrives makes no difference.
Expunge ==
  /\ mailbox' = mailbox \ {view[n] : n \in dele}
  /\ view' = << >>
  /\ dele' = {}

\* POP3_sendQuit and the close: nobody looks at the result.
SendQuit ==
  \/ Expunge /\ UNCHANGED <<faults, quitLost>>
  \/ Drop /\ Fault /\ quitLost' = TRUE

Return(res) == retcode' = res /\ pc' = "finish"

\* A command lost its connection: pop3Cleanup(ps_socket) and return 0.
LostIn(at) ==
  /\ pc = at
  /\ Fault
  /\ Drop
  /\ Return(0)
  /\ UNCHANGED <<areasVars, msgTotal, count, msgNumber, historyVars>>

\* The server refused a command: pop3Cleanup sends QUIT, and return 0.
RefusedIn(at) ==
  /\ pc = at
  /\ faults < MaxFaults
  /\ \/ Expunge /\ faults' = faults + 1 /\ UNCHANGED quitLost
     \/ Drop /\ faults' = faults + 1 /\ quitLost' = TRUE
  /\ Return(0)
  /\ UNCHANGED <<areasVars, msgTotal, count, msgNumber, wanted, writeFailed, imported>>

----------------------------------------------------------------------------
(* getMail *)

\* pop3Connect: open, greeting, USER, PASS and STAT.
Connect ==
  /\ pc = "connect"
  /\ Login
  /\ msgTotal' = Cardinality(mailbox)
  /\ wanted' = mailbox
  /\ pc' = "loop"
  /\ UNCHANGED <<areasVars, count, msgNumber, retcode, quitLost, writeFailed,
                 imported, faults>>

Retr ==
  /\ pc = "loop"
  /\ count <= msgTotal
  /\ pc' = "read"
  /\ UNCHANGED <<areasVars, localVars, serverVars, historyVars, faults>>

\* Mutant: the loop stops before the last mail.
LoopEndEarly ==
  /\ pc = "loop"
  /\ count >= msgTotal
  /\ pc' = "lastquit"
  /\ UNCHANGED <<areasVars, localVars, serverVars, historyVars, faults>>

LoopEnd ==
  /\ pc = "loop"
  /\ count > msgTotal
  /\ pc' = "lastquit"
  /\ UNCHANGED <<areasVars, localVars, serverVars, historyVars, faults>>

ReadMsg ==
  /\ pc = "read"
  /\ view[msgNumber] \notin EmptyMails
  /\ pc' = "start"
  /\ UNCHANGED <<areasVars, localVars, serverVars, historyVars, faults>>

\* pop3Cleanup(ps_success) only closes the socket: the server gets no QUIT.
CopyFails ==
  /\ Drop
  /\ Return(0)
  /\ UNCHANGED <<msgTotal, count, msgNumber, historyVars, faults>>

\* Mutant: a mail without content is skipped, but not counted.
EmptyMailSkipped ==
  /\ pc = "read"
  /\ view[msgNumber] \in EmptyMails
  /\ pc' = "loop"
  /\ UNCHANGED <<areasVars, localVars, serverVars, historyVars, faults>>

\* pop3WriteMail returns 0 for a mail without content.
EmptyMail ==
  /\ pc = "read"
  /\ view[msgNumber] \in EmptyMails
  /\ CopyFails
  /\ UNCHANGED areasVars

MsgStart ==
  /\ pc = "start"
  /\ StartBegin
  /\ pc' = "head"
  /\ UNCHANGED <<localVars, serverVars, historyVars, faults>>

MsgHead ==
  /\ pc = "head"
  /\ StartHead(view[msgNumber])
  /\ pc' = "write"
  /\ UNCHANGED <<localVars, serverVars, historyVars, faults>>

BodyWritten == msgFile[Len(msgFile)].body = Chunks

WriteMail ==
  /\ pc = "write"
  /\ ~ BodyWritten
  /\ MsgWrite
  /\ UNCHANGED <<pc, localVars, serverVars, historyVars, faults>>

WriteEnd ==
  /\ pc = "write"
  /\ BodyWritten
  /\ pc' = "stop"
  /\ UNCHANGED <<areasVars, localVars, serverVars, historyVars, faults>>

\* The disk is full: the copy loop ends, and the mail is stopped as it is.
WriteError ==
  /\ pc = "write"
  /\ ~ BodyWritten
  /\ writeErrors < MaxWriteErrors
  /\ writeErrors' = writeErrors + 1
  /\ writeFailed' = TRUE
  /\ pc' = "stop"
  /\ UNCHANGED <<areasVars, options, localVars, serverVars, wanted, quitLost,
                 imported, arrived, faults, aborts, runs>>

MsgStop ==
  /\ pc = "stop"
  /\ StopLength
  /\ pc' = "stopped"
  /\ UNCHANGED <<localVars, serverVars, historyVars, faults>>

MailCopied ==
  /\ pc = "stopped"
  /\ BodyWritten
  /\ StopEnd
  /\ pc' = IF readOnly THEN "next" ELSE "dele"
  /\ UNCHANGED <<localVars, serverVars, historyVars, faults>>

\* Mutant: the result of pop3WriteMail is ignored.
MailNotCopiedIgnored ==
  /\ pc = "stopped"
  /\ ~ BodyWritten
  /\ StopEnd
  /\ pc' = IF readOnly THEN "next" ELSE "dele"
  /\ UNCHANGED <<localVars, serverVars, historyVars, faults>>

MailNotCopied ==
  /\ pc = "stopped"
  /\ ~ BodyWritten
  /\ StopEnd
  /\ CopyFails

Dele ==
  /\ pc = "dele"
  /\ dele' = dele \union {msgNumber}
  /\ pc' = "next"
  /\ UNCHANGED <<areasVars, localVars, mailbox, view, historyVars, faults>>

MustRelogin == forceMailDelete /\ count < msgTotal

NextMail ==
  /\ pc = "next"
  /\ ~ MustRelogin
  /\ count' = count + 1
  /\ msgNumber' = msgNumber + 1
  /\ pc' = "loop"
  /\ UNCHANGED <<areasVars, msgTotal, retcode, serverVars, historyVars, faults>>

\* Mutant: -D closes the connection without QUIT.
ForceQuitCloses ==
  /\ pc = "next"
  /\ MustRelogin
  /\ Drop
  /\ pc' = "reconnect"
  /\ UNCHANGED <<areasVars, localVars, historyVars, faults>>

ForceQuit ==
  /\ pc = "next"
  /\ MustRelogin
  /\ SendQuit
  /\ pc' = "reconnect"
  /\ UNCHANGED <<areasVars, localVars, wanted, writeFailed, imported>>

\* Mutant: the mails of the new session are not counted from 1 again.
ReconnectGoesOn ==
  /\ pc = "reconnect"
  /\ Login
  /\ msgTotal' = IF mailbox = {} THEN 0 ELSE msgTotal
  /\ msgNumber' = msgNumber + 1
  /\ count' = count + 1
  /\ pc' = "loop"
  /\ UNCHANGED <<areasVars, retcode, historyVars, faults>>

\* The mails are counted from 1 again; none at all ends the loop.
Reconnect ==
  /\ pc = "reconnect"
  /\ Login
  /\ msgTotal' = IF mailbox = {} THEN 0 ELSE msgTotal
  /\ msgNumber' = 1
  /\ count' = count + 1
  /\ pc' = "loop"
  /\ UNCHANGED <<areasVars, retcode, historyVars, faults>>

LastQuit ==
  /\ pc = "lastquit"
  /\ SendQuit
  /\ Return(1)
  /\ UNCHANGED <<areasVars, msgTotal, count, msgNumber, wanted, writeFailed, imported>>

\* The end of main.
Finish ==
  /\ pc = "finish"
  /\ CloseAll
  /\ pc' = "ended"
  /\ UNCHANGED <<localVars, serverVars, historyVars, faults>>

Lost    == \E at \in {"connect", "loop", "read", "dele", "reconnect"} : LostIn(at)
Refused == \E at \in {"loop", "dele"} : RefusedIn(at)

Proceed ==
  \/ Connect \/ Retr \/ LoopEnd \/ ReadMsg \/ EmptyMail \/ MsgStart \/ MsgHead
  \/ WriteMail \/ WriteEnd \/ MsgStop \/ MailCopied \/ MailNotCopied \/ Dele
  \/ NextMail \/ ForceQuit \/ Reconnect \/ LastQuit \/ Finish

MainNext ==
  \/ /\ Proceed \/ Lost \/ Refused
     /\ UNCHANGED <<options, arrived, aborts, writeErrors, runs>>
  \/ WriteError

----------------------------------------------------------------------------
(* Signals, the user and the sender of mail *)

\* The handler runs on the main thread, closes the sockets and the files, and exits.
SignalHandler ==
  /\ pc # "ended"
  /\ pc = "head" => AbortInStart
  /\ aborts < MaxAborts
  /\ aborts' = aborts + 1
  /\ Drop
  /\ CloseAll
  /\ retcode' = 0
  /\ pc' = "ended"
  /\ UNCHANGED <<options, msgTotal, count, msgNumber, historyVars, arrived, faults,
                 writeErrors, runs>>

\* The reader takes the files over, and VSoup is started again.
Rerun ==
  /\ pc = "ended"
  /\ runs < MaxRuns
  /\ runs' = runs + 1
  /\ imported' = Received
  /\ msgFile' = << >> /\ msgStarted' = FALSE /\ msgLenPos' = -1
  /\ msgTotal' = 0 /\ count' = 1 /\ msgNumber' = 1 /\ retcode' = 0
  /\ wanted' = {} /\ quitLost' = FALSE /\ writeFailed' = FALSE
  /\ pc' = "connect"
  /\ UNCHANGED <<options, serverVars, arrived, faults, aborts, writeErrors>>

MailArrives ==
  /\ arrived < NumMails + MaxLate
  /\ arrived' = arrived + 1
  /\ mailbox' = mailbox \union {arrived'}
  /\ UNCHANGED <<areasVars, options, pc, localVars, view, dele, historyVars, bounds>>

Next == MainNext \/ SignalHandler \/ Rerun \/ MailArrives

Spec == Init /\ [][Next]_vars

\* Every command is answered or its connection lost: the program goes on.
FairSpec == Spec /\ WF_vars(MainNext)

----------------------------------------------------------------------------
(* Properties *)

\* Type correctness: between login and QUIT the program asks for a mail the
\* server has numbered (pop3.cc 514-555).
TypeOK ==
  /\ AreasType(Mails)
  /\ readOnly \in BOOLEAN /\ forceMailDelete \in BOOLEAN
  /\ pc \in Pcs
  /\ msgTotal \in 0 .. NumMails + MaxLate
  /\ count \in 1 .. NumMails + MaxLate + 1
  /\ msgNumber \in 1 .. count
  /\ retcode \in {0, 1}
  /\ mailbox \subseteq 1 .. arrived /\ view \in Seq(Mails)
  /\ dele \subseteq DOMAIN view
  /\ pc \in {"read", "start", "head", "write", "dele"} => msgNumber \in DOMAIN view
  /\ wanted \subseteq Mails
  /\ quitLost \in BOOLEAN /\ writeFailed \in BOOLEAN
  /\ MailsOf(imported) \subseteq Mails
  /\ arrived \in NumMails .. NumMails + MaxLate
  /\ runs \in Nat

\* No mail gets lost, whatever fails and however often VSoup is started again:
\* each is still in the mailbox, or the user has it as a whole (pop3.cc 518-558:
\* RETR, copy, DELE, QUIT in this order, and no later step after a failed one).
MailNotLost == 1 .. arrived \subseteq mailbox \union MailsOf(Received)

\* What -D is for (pop3.cc 542-555): a lost connection, a refused command or an
\* abort costs at most one mail that is received twice, not all those of the session.
OneCopyPerFault ==
  forceMailDelete /\ ~ readOnly =>
    Cardinality(Received) - Cardinality(MailsOf(Received)) <= faults + aborts

\* getMail returns 1 only if it has received all the mails that were there at
\* login and has removed them from the server (pop3.cc 514-560), a QUIT that
\* did not arrive and -r together with -D aside.
CompleteOnSuccess ==
  pc = "finish" /\ retcode = 1 /\ ~ quitLost /\ ~ (readOnly /\ forceMailDelete) =>
    /\ wanted \subseteq MailsOf(NewCopies)
    /\ ~ readOnly => wanted \intersect mailbox = {}

\* The file the reader gets holds whole mails only, but for the last one if
\* a write failed (areas.cc 80-84, pop3.cc 449-466).
FramesWhole ==
  pc = "ended" =>
    \A i \in DOMAIN msgFile :
      IsWhole(msgFile[i]) \/ (writeFailed /\ i = Len(msgFile))

\* The messages in the file that have been stopped.
Completed ==
  IF pc \in {"write", "stop", "stopped"} THEN Len(msgFile) - 1 ELSE Len(msgFile)

\* closeAll "if message was not completed then delete it" (areas.cc 80): a message
\* that was stopped stays as it is until the reader takes the file over.
CompletedStay ==
  runs' = runs => /\ Completed <= Len(msgFile')
                  /\ \A i \in 1 .. Completed : msgFile'[i] = msgFile[i]
FinishedStay == [][CompletedStay]_vars

\* Every session ends, mails without content included (pop3.cc 514-556).
Termination == (pc # "ended") ~> (pc = "ended")

=============================================================================
