----------------------------- MODULE ReplySend -----------------------------
(***************************************************************************)
(* The transmission of replies: vsoup -s (sendReply of reply.cc), with the *)
(* SMTP dialog of smtp.cc and postArticle of nntpcl.cc.                    *)
(*                                                                         *)
(* The packet is unpacked in a directory: REPLIES names files of messages, *)
(* each with its kind.  A file is sent message by message and removed when *)
(* all of them were accepted; after the first failure no further mail (or  *)
(* article) is sent in this run.  REPLIES goes last, if nothing failed.    *)
(*                                                                         *)
(* The servers are external: the mail server takes a mail for the          *)
(* recipients it was told since MAIL FROM, the news server answers 435 to  *)
(* an article it has.  A fault is a connection that fails or an answer     *)
(* that is a refusal or lost, or ^C; MaxFaults bounds how many happen.     *)
(***************************************************************************)
EXTENDS Integers, Sequences, FiniteSets

CONSTANTS
  Mails, Articles,   \* the messages
  Others,            \* messages in files of a kind sendReply does not know
  Recipients,        \* of each message, how many, should it be sent as a mail
  Unterminated,      \* messages whose last line may be without newline
  MaxSuffix,         \* file names are MAIL, MAIL1, .., MAIL<MaxSuffix>
  MaxFaults,
  MaxCopies          \* the servers stop counting there

Messages == Mails \union Articles \union Others

ASSUME ReplyAssumption ==
  /\ Mails \intersect Articles = {}
  /\ Others \intersect (Mails \union Articles) = {}
  /\ Recipients \in [Messages -> Nat \ {0}]
  /\ Unterminated \subseteq Messages
  /\ {MaxSuffix, MaxFaults} \subseteq Nat
  /\ MaxCopies \in Nat \ {0}

\* The kind of a line of REPLIES: type 'b' or a type 'u' of mail, the same for
\* news, a type or kind that is not supported, and a line that is no such line.
Kinds == {"mail", "news", "other", "bad"}
Names == [base : {"mail", "news"}, nr : 0 .. MaxSuffix]
Lines == [name : Names, kind : Kinds]

KindOf(m) == IF m \in Mails THEN "mail" ELSE IF m \in Articles THEN "news" ELSE "other"

\* A packet: the lines of REPLIES and the message files, << >> for a file that
\* is not there.
Packets == [replies : Seq(Lines), files : [Names -> Seq(Messages)]]
NoFile  == << >>
Nothing == [replies |-> NoFile, files |-> [f \in Names |-> NoFile]]

InFile(s)   == {s[i] : i \in DOMAIN s}
Listed(p)   == {p.replies[i].name : i \in DOMAIN p.replies}
InPacket(p) == UNION {InFile(p.files[f]) : f \in Listed(p)}

\* The messages in files that are listed with another kind than one not supported.
Held(p) ==
  UNION {InFile(p.files[p.replies[i].name]) :
           i \in {j \in DOMAIN p.replies : p.replies[j].kind # "other"}}

VARIABLES
  readOnly,              \* option -r
  bare,                  \* the messages whose last line has no newline
  dir,                   \* the unpacked packet
  vpc,                   \* where sendReply is
  line, pos,             \* the line of REPLIES, the message of the file
  mailError, nntpError,
  smtp,                  \* the connection to the mail server is open
  envelope,              \* mail server: the mail and how many recipients it was told
  copies,                \* servers: how often a message was accepted
  damaged,               \* servers: messages accepted with more text than their own
  faults

serverVars == <<envelope, copies, damaged>>
errorVars  == <<mailError, nntpError>>
replyVars  == <<readOnly, bare, dir, vpc, line, pos, errorVars, smtp, serverVars, faults>>

NoEnvelope == << >>
Envelopes  == {NoEnvelope} \union (Messages \X Nat)

Pcs == {"idle", "line", "open", "next", "from", "rcpt", "data", "text",
        "post", "body", "hang", "remove", "close", "done"}

ReplyType ==
  /\ readOnly \in BOOLEAN /\ bare \subseteq Unterminated
  /\ dir \in Packets
  /\ vpc \in Pcs
  /\ line \in Nat /\ pos \in Nat
  /\ mailError \in BOOLEAN /\ nntpError \in BOOLEAN /\ smtp \in BOOLEAN
  /\ envelope \in Envelopes
  /\ copies \in [Messages -> 0 .. MaxCopies]
  /\ damaged \subseteq Messages
  /\ faults \in 0 .. MaxFaults

ReplyInit ==
  /\ readOnly \in BOOLEAN /\ bare \in SUBSET Unterminated
  /\ dir = Nothing
  /\ vpc = "idle" /\ line = 1 /\ pos = 1
  /\ mailError = FALSE /\ nntpError = FALSE
  /\ smtp = FALSE /\ envelope = NoEnvelope
  /\ copies = [m \in Messages |-> 0] /\ damaged = {}
  /\ faults = 0

Entry   == dir.replies[line]
File    == dir.files[Entry.name]
Message == File[pos]
IsLast  == pos = Len(File)

\* The states in which the program has REPLIES, and the file of its line, open;
\* nobody else may write them then (SH_DENYWR).
RepliesOpen == vpc \notin {"idle", "done"}
FileOpen(f) ==
  /\ vpc \in {"next", "from", "rcpt", "data", "text", "post", "body", "hang"}
  /\ f = Entry.name

Fault == faults < MaxFaults /\ faults' = faults + 1

\* The program ends: connections and files are closed, the variables are gone.
Exit(to) ==
  /\ vpc' = to
  /\ line' = 1 /\ pos' = 1
  /\ mailError' = FALSE /\ nntpError' = FALSE
  /\ smtp' = FALSE /\ envelope' = NoEnvelope
  /\ UNCHANGED <<readOnly, bare, copies, damaged>>

----------------------------------------------------------------------------
(* The lines of REPLIES *)

\* Without REPLIES there is nothing to do.
Begin ==
  /\ vpc = "idle"
  /\ line' = 1
  /\ mailError' = FALSE /\ nntpError' = FALSE
  /\ vpc' = IF dir.replies = NoFile THEN "done" ELSE "line"
  /\ UNCHANGED <<readOnly, bare, dir, pos, smtp, serverVars, faults>>

NextLine == line' = line + 1 /\ vpc' = "line"

AtLine(kind) == vpc = "line" /\ line \in DOMAIN dir.replies /\ Entry.kind = kind

\* A line that does not have three words: return at once.
Malformed ==
  /\ AtLine("bad")
  /\ Exit("done")
  /\ UNCHANGED <<dir, faults>>

\* A kind that is not known, or one that failed before: continue.
SkipLine ==
  /\ \/ AtLine("other")
     \/ AtLine("mail") /\ mailError
     \/ AtLine("news") /\ nntpError
  /\ NextLine
  /\ UNCHANGED <<readOnly, bare, dir, pos, errorVars, smtp, serverVars, faults>>

\* smtpConnect, unless there is a connection: open, greeting and HELO.
ConnectMail ==
  /\ AtLine("mail") /\ ~mailError
  /\ \/ smtp' = TRUE /\ vpc' = "open" /\ UNCHANGED <<line, mailError, faults>>
     \/ ~smtp /\ Fault /\ mailError' = TRUE /\ NextLine /\ UNCHANGED smtp
  /\ UNCHANGED <<readOnly, bare, dir, pos, nntpError, serverVars>>

\* The news connection is opened anew for each file.
ConnectNews ==
  /\ AtLine("news") /\ ~nntpError
  /\ \/ vpc' = "open" /\ UNCHANGED <<line, nntpError, faults>>
     \/ Fault /\ nntpError' = TRUE /\ NextLine
  /\ UNCHANGED <<readOnly, bare, dir, pos, mailError, smtp, serverVars>>

\* A file that is not there has been sent before.
OpenFile ==
  /\ vpc = "open"
  /\ pos' = 1
  /\ vpc' = IF File = NoFile THEN "remove" ELSE "next"
  /\ UNCHANGED <<readOnly, bare, dir, line, errorVars, smtp, serverVars, faults>>

NextMessage ==
  /\ vpc = "next"
  /\ vpc' = IF pos > Len(File) THEN "remove"
            ELSE IF Entry.kind = "mail" THEN "from" ELSE "post"
  /\ UNCHANGED <<readOnly, bare, dir, line, pos, errorVars, smtp, serverVars, faults>>

\* Mutant: the file goes although one of its messages has failed.
RemoveOnFailure(kind) ==
  /\ mailError' = (mailError \/ kind = "mail")
  /\ nntpError' = (nntpError \/ kind = "news")
  /\ vpc' = "remove"
  /\ UNCHANGED line

\* A message failed: no further message of this kind, and the file stays.
Fail(kind) ==
  /\ mailError' = (mailError \/ kind = "mail")
  /\ nntpError' = (nntpError \/ kind = "news")
  /\ NextLine

\* A command that is answered by a refusal, or by nothing.
Refused(at, kind) ==
  /\ vpc = at
  /\ Fault
  /\ Fail(kind)
  /\ UNCHANGED <<readOnly, bare, dir, pos, smtp, serverVars>>

----------------------------------------------------------------------------
(* smtpMail *)

MailFrom ==
  /\ vpc = "from"
  /\ envelope' = <<Message, 0>>
  /\ vpc' = "rcpt"
  /\ UNCHANGED <<readOnly, bare, dir, line, pos, errorVars, smtp, copies, damaged, faults>>

\* Mutant: only the first address is sent.
RcptFirst ==
  /\ vpc = "rcpt"
  /\ envelope' = [envelope EXCEPT ![2] = @ + 1]
  /\ vpc' = "data"
  /\ UNCHANGED <<readOnly, bare, dir, line, pos, errorVars, smtp, copies, damaged, faults>>

\* putAddresses: a RCPT command for each address.
RcptTo ==
  /\ vpc = "rcpt"
  /\ envelope' = [envelope EXCEPT ![2] = @ + 1]
  /\ vpc' = IF envelope[2] + 1 < Recipients[Message] THEN "rcpt" ELSE "data"
  /\ UNCHANGED <<readOnly, bare, dir, line, pos, errorVars, smtp, copies, damaged, faults>>

Data ==
  /\ vpc = "data"
  /\ vpc' = "text"
  /\ UNCHANGED <<readOnly, bare, dir, line, pos, errorVars, smtp, serverVars, faults>>

\* The text is read line by line until the size is used up.  A last line without
\* newline takes the beginning of the next message with it; the size is unsigned,
\* gets huge, and the loop ends at the end of the file only.
Transmit ==
  /\ copies' = [copies EXCEPT ![Message] = IF @ < MaxCopies THEN @ + 1 ELSE @]
  /\ damaged' = IF Message \in bare THEN damaged \union {Message} ELSE damaged

\* Behind the last message there is no newline, so that the dot that should end
\* the text is in its last line, and the server waits for more.
Unheard(at) ==
  /\ vpc = at
  /\ Message \in bare /\ IsLast
  /\ vpc' = "hang"
  /\ UNCHANGED <<readOnly, bare, dir, line, pos, errorVars, smtp, serverVars, faults>>

Heard(at) == vpc = at /\ ~(Message \in bare /\ IsLast)

\* The final dot is answered by 250.
Accepted ==
  /\ Heard("text")
  /\ envelope' = NoEnvelope
  /\ Transmit
  /\ pos' = pos + 1 /\ vpc' = "next"
  /\ UNCHANGED <<readOnly, bare, dir, line, errorVars, smtp, faults>>

\* The server has the mail, and its answer is lost.
AnswerLost ==
  /\ Heard("text")
  /\ Fault
  /\ envelope' = NoEnvelope
  /\ Transmit
  /\ Fail("mail")
  /\ UNCHANGED <<readOnly, bare, dir, pos, smtp>>

----------------------------------------------------------------------------
(* postArticle *)

Post ==
  /\ vpc = "post"
  /\ vpc' = "body"
  /\ UNCHANGED <<readOnly, bare, dir, line, pos, errorVars, smtp, serverVars, faults>>

\* Mutant: an answer 435 is a failure like any other.
PostedOnce ==
  /\ Heard("body")
  /\ IF copies[Message] = 0
       THEN Transmit /\ pos' = pos + 1 /\ vpc' = "next" /\ UNCHANGED <<line, errorVars>>
       ELSE Fail("news") /\ UNCHANGED <<pos, copies, damaged>>
  /\ UNCHANGED <<readOnly, bare, dir, smtp, envelope, faults>>

\* The server stores a new article; "435 got it" and "437 rejected" count as ok.
Posted ==
  /\ Heard("body")
  /\ IF copies[Message] = 0 THEN Transmit ELSE UNCHANGED <<copies, damaged>>
  /\ pos' = pos + 1 /\ vpc' = "next"
  /\ UNCHANGED <<readOnly, bare, dir, line, errorVars, smtp, envelope, faults>>

PostLost ==
  /\ Heard("body")
  /\ Fault
  /\ IF copies[Message] = 0 THEN Transmit ELSE UNCHANGED <<copies, damaged>>
  /\ Fail("news")
  /\ UNCHANGED <<readOnly, bare, dir, pos, smtp, envelope>>

----------------------------------------------------------------------------
(* The end of a file and of the run *)

\* Mutant: the file stays when it is sent.
RemoveNever ==
  /\ vpc = "remove"
  /\ NextLine
  /\ UNCHANGED <<readOnly, bare, dir, pos, errorVars, smtp, serverVars, faults>>

RemoveFile ==
  /\ vpc = "remove"
  /\ dir' = IF readOnly THEN dir ELSE [dir EXCEPT !.files[Entry.name] = NoFile]
  /\ NextLine
  /\ UNCHANGED <<readOnly, bare, pos, errorVars, smtp, serverVars, faults>>

LinesDone ==
  /\ vpc = "line" /\ line > Len(dir.replies)
  /\ vpc' = "close"
  /\ UNCHANGED <<readOnly, bare, dir, line, pos, errorVars, smtp, serverVars, faults>>

\* QUIT to both servers; REPLIES is removed only if all went well.
Close ==
  /\ vpc = "close"
  /\ Exit("done")
  /\ dir' = IF readOnly \/ mailError \/ nntpError THEN dir
            ELSE [dir EXCEPT !.replies = NoFile]
  /\ UNCHANGED faults

\* ^C, or checkTransfer when nothing is transferred any more.
Abort ==
  /\ RepliesOpen
  /\ \/ vpc = "hang" /\ UNCHANGED faults
     \/ vpc # "hang" /\ Fault
  /\ Exit("done")
  /\ UNCHANGED dir

SmtpStep ==
  \/ MailFrom \/ RcptTo \/ Data \/ Unheard("text") \/ Accepted \/ AnswerLost
  \/ \E at \in {"from", "rcpt", "data", "text"} : Refused(at, "mail")

NewsStep ==
  \/ Post \/ Unheard("body") \/ Posted \/ PostLost
  \/ \E at \in {"post", "body"} : Refused(at, "news")

ReplyStep ==
  \/ Malformed \/ SkipLine \/ ConnectMail \/ ConnectNews \/ OpenFile \/ NextMessage
  \/ SmtpStep \/ NewsStep
  \/ RemoveFile \/ LinesDone \/ Close \/ Abort

=============================================================================
