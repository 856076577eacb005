---------------------------- MODULE OutboxProofs ----------------------------
(***************************************************************************)
(* Theorems about Outbox, for any messages, packets, faults and number of  *)
(* QSoups: its types, that a mail goes to all of its recipients, and, if   *)
(* SEND and QSoup do not overlap, that no reply is lost.                   *)
(*                                                                         *)
(* On the same terms Outbox implements ReplyQueue: whatever is unpacked,   *)
(* packed and deleted, messages come into the packet one by one, those who *)
(* sent them are told when they are in it, and only messages of the packet *)
(* are sent.  The files of the packet stay sorted by the kind of their     *)
(* messages, and each copy too many of a mail has a fault of its own.      *)
(***************************************************************************)
EXTENDS Outbox, TLAPS, SequenceTheorems

AtMessage == {"from", "rcpt", "data", "text", "post", "body", "hang"}
Sending   == AtMessage \union {"open", "next", "remove"}

\* Only SEND runs vsoup.
VsoupRuns == spc # "vsoup" => vpc = "idle"

\* Nobody changes REPLIES, nor the file that is open, while vsoup sends.
Place ==
  /\ vpc \in Sending => line \in DOMAIN dir.replies /\ Entry.kind \in {"mail", "news"}
  /\ vpc \in AtMessage => pos \in DOMAIN File
  /\ vpc = "next" => pos \in 1 .. Len(File) + 1

\* The recipients the mail server was told are those of the mail being sent.
Told ==
  /\ vpc = "rcpt" => \E k \in 0 .. Recipients[Message] - 1 : envelope = <<Message, k>>
  /\ vpc \in {"data", "text"} => envelope = <<Message, Recipients[Message]>>

TypeInv == TypeOK /\ VsoupRuns /\ Place /\ Told

Sent(m) == copies[m] > 0

\* QSoup works alone.
Alone ==
  /\ \A q \in Queued : Works(q) \/ qpc[q] = "recheck" => lock = q
  /\ spc # "idle" => \A q \in Queued : ~Works(q)

\* What vsoup has read of the open file is sent.
FileSent ==
  /\ vpc \in AtMessage \union {"next"} => \A i \in DOMAIN File : i < pos => Sent(File[i])
  /\ vpc = "remove" => \A i \in DOMAIN File : Sent(File[i])

\* Unless something has failed, the files of the lines vsoup has read are gone.
LinesSent ==
  /\ RepliesOpen /\ ~readOnly /\ ~mailError /\ ~nntpError =>
       \A i \in DOMAIN dir.replies :
         i < line => /\ dir.replies[i].kind # "bad"
                     /\ dir.replies[i].kind # "other" => dir.files[dir.replies[i].name] = NoFile
  /\ vpc = "close" => line > Len(dir.replies)

\* The archive has all that is promised and not sent, or there is none.
Kept == \A m \in promised \ Others : Sent(m) \/ m \in Held(zip) \/ (zip = Nothing /\ m \in Held(dir))

\* While SEND may delete the archive the directory has it all; what is packed then is packed
\* alone.
SendHas ==
  /\ spc \in {"check", "vsoup", "delete"} => \A m \in promised \ Others : Sent(m) \/ m \in Held(dir)
  /\ spc \in {"again", "zip"} => zip = Nothing
  /\ spc = "zip" => Unpacked
  /\ spc = "clear" => zip.replies # NoFile

\* The second packet has all that the first has.
Covered(p, q) ==
  /\ \A f \in Names : InFile(p.files[f]) \subseteq InFile(q.files[f])
  /\ \A i \in DOMAIN p.replies : i \in DOMAIN q.replies /\ q.replies[i] = p.replies[i]

\* What QSoup has unpacked, and added.
QSoupHas ==
  \A q \in Queued :
    /\ qpc[q] \in {"entry", "append", "zip"} => Covered(zip, dir)
    /\ qpc[q] = "append" => \E i \in DOMAIN dir.replies : dir.replies[i] = [name |-> qname[q], kind |-> KindIs(q)]
    /\ qpc[q] = "zip" => q \in Held(dir)
    /\ qpc[q] = "clear" => q \in Held(zip)

ReplyInv == TypeInv /\ Alone /\ FileSent /\ LinesSent /\ Kept /\ SendHas /\ QSoupHas
-----------------------------------------------------------------------------
(* Packets.                                                                  *)

LEMMA NothingIsPacket == Nothing \in Packets
  BY EmptySeq DEF Nothing, NoFile, Packets

LEMMA OverlayIsPacket ==
  ASSUME NEW p \in Packets, NEW q \in Packets
  PROVE  Overlay(p, q) \in Packets
  BY DEF Overlay, Packets, NoFile

\* What can be read of a packet.
LEMMA PacketParts ==
  ASSUME NEW p \in Packets
  PROVE  /\ p.replies \in Seq(Lines) /\ DOMAIN p.replies = 1 .. Len(p.replies)
         /\ Len(p.replies) \in Nat
         /\ \A i \in DOMAIN p.replies : p.replies[i] \in Lines /\ p.replies[i].name \in Names
         /\ \A f \in Names : /\ p.files[f] \in Seq(Messages) /\ Len(p.files[f]) \in Nat
                             /\ DOMAIN p.files[f] = 1 .. Len(p.files[f])
                             /\ \A i \in DOMAIN p.files[f] : p.files[f][i] \in Messages
<1>1. p.replies \in Seq(Lines) /\ p.files \in [Names -> Seq(Messages)]
  BY DEF Packets
<1>2. \A i \in DOMAIN p.replies : p.replies[i] \in Lines
  BY <1>1, ElementOfSeq, LenProperties
<1>3. \A f \in Names : \A i \in DOMAIN p.files[f] : p.files[f][i] \in Messages
  BY <1>1, ElementOfSeq, LenProperties
<1> QED
  BY <1>1, <1>2, <1>3, LenProperties DEF Lines

\* What vsoup reads of the packet.
LEMMA Reading ==
  ASSUME TypeOK, line \in DOMAIN dir.replies
  PROVE  /\ Entry \in Lines /\ Entry.name \in Names /\ Entry.kind \in Kinds
         /\ File \in Seq(Messages) /\ Len(File) \in Nat /\ DOMAIN File = 1 .. Len(File)
         /\ pos \in DOMAIN File => Message \in Messages
<1>1. dir \in Packets
  BY DEF TypeOK, ReplyType
<1> QED
  BY <1>1, PacketParts DEF Entry, File, Message, Lines

-----------------------------------------------------------------------------
(* Types, and the place where vsoup is.                                      *)

LEMMA Constants ==
  /\ MaxFaults \in Nat /\ MaxCopies \in Nat \ {0} /\ MaxSuffix \in Nat
  /\ Recipients \in [Messages -> Nat \ {0}]
  /\ Queued \subseteq Messages /\ Packets0 \subseteq Packets
  BY ReplyAssumption, OutboxAssumption DEF Messages

LEMMA InitTypeInv == Init => TypeInv
<1> SUFFICES ASSUME Init PROVE TypeInv
  OBVIOUS
<1>1. \A i \in DOMAIN zip.replies : zip.replies[i].name \in Names
  BY Constants, PacketParts DEF Init
<1>2. promised \subseteq Messages
  BY <1>1, Constants, PacketParts DEF Init, InPacket, Listed, InFile
<1>3. [base |-> "mail", nr |-> 0] \in Names
  BY Constants DEF Names
<1>4. ReplyType
  <2>1. readOnly \in BOOLEAN /\ mailError \in BOOLEAN /\ nntpError \in BOOLEAN /\ smtp \in BOOLEAN
    BY Zenon DEF Init, ReplyInit
  <2>2. copies \in [Messages -> 0 .. MaxCopies]
    BY Constants DEF Init, ReplyInit
  <2>3. dir \in Packets /\ vpc \in Pcs /\ line \in Nat /\ pos \in Nat /\ faults \in 0 .. MaxFaults
    BY Constants, NothingIsPacket DEF Init, ReplyInit, Pcs
  <2>4. envelope \in Envelopes /\ bare \subseteq Unterminated /\ damaged \subseteq Messages
    BY DEF Init, ReplyInit, Envelopes
  <2> QED
    BY <2>1, <2>2, <2>3, <2>4 DEF ReplyType
<1>5. TypeOK
  BY <1>2, <1>3, <1>4, Constants DEF Init, TypeOK, SendPcs, QPcs
<1> QED
  BY <1>5 DEF Init, ReplyInit, TypeInv, Told, VsoupRuns, Place, Sending, AtMessage

\* The error variables remain truth values.
LEMMA Flags ==
  ASSUME TypeOK, Begin \/ ReplyStep
  PROVE  /\ readOnly' \in BOOLEAN /\ mailError' \in BOOLEAN
         /\ nntpError' \in BOOLEAN /\ smtp' \in BOOLEAN
<1> USE DEF TypeOK, ReplyType, errorVars, Exit, Fail
<1>1. CASE Begin \/ Malformed \/ SkipLine \/ OpenFile \/ NextMessage
  BY <1>1 DEF Begin, Malformed, SkipLine, OpenFile, NextMessage
<1>2. CASE ConnectMail \/ ConnectNews
  BY <1>2 DEF ConnectMail, ConnectNews
<1>3. CASE SmtpStep
  BY <1>3 DEF SmtpStep, MailFrom, RcptTo, Data, Unheard, Accepted, AnswerLost, Refused
<1>4. CASE NewsStep
  BY <1>4 DEF NewsStep, Post, Unheard, Posted, PostLost, Refused
<1>5. CASE RemoveFile \/ LinesDone \/ Close \/ Abort
  BY <1>5 DEF RemoveFile, LinesDone, Close, Abort
<1> QED
  BY <1>1, <1>2, <1>3, <1>4, <1>5 DEF ReplyStep

\* What the servers have counted.
LEMMA Transmitted ==
  ASSUME TypeOK, Message \in Messages, Transmit
  PROVE  copies' \in [Messages -> 0 .. MaxCopies] /\ damaged' \subseteq Messages
  BY Constants DEF TypeOK, ReplyType, Transmit

\* The steps of vsoup that leave the packet alone, and neither send a message nor end the run.
Steps == SkipLine \/ ConnectMail \/ ConnectNews \/ OpenFile \/ NextMessage \/ MailFrom \/ RcptTo
         \/ Data \/ Unheard("text") \/ Post \/ Unheard("body") \/ LinesDone
         \/ (\E at \in {"from", "rcpt", "data", "text"} : Refused(at, "mail"))
         \/ (\E at \in {"post", "body"} : Refused(at, "news"))
Sends == Accepted \/ AnswerLost \/ Posted \/ PostLost
Ends  == Malformed \/ Close \/ Abort

LEMMA ReplyCases == ReplyStep <=> Steps \/ Sends \/ Ends \/ RemoveFile
  BY DEF ReplyStep, Steps, Sends, Ends, SmtpStep, NewsStep

LEMMA StepsType ==
  ASSUME TypeInv, Steps
  PROVE  /\ ReplyType' /\ Place' /\ Told'
         /\ UNCHANGED <<readOnly, bare, dir, copies, damaged>>
         /\ vpc \notin {"idle", "done"} /\ vpc' \notin {"idle", "done"}
<1> USE DEF TypeInv, TypeOK, ReplyType, Place, Told, Sending, AtMessage, Pcs, AtLine, serverVars,
            errorVars, NextLine, Fault, Fail
<1>1. /\ readOnly' \in BOOLEAN /\ mailError' \in BOOLEAN /\ nntpError' \in BOOLEAN
      /\ smtp' \in BOOLEAN
  BY Flags, ReplyCases
<1>2. line \in DOMAIN dir.replies => Entry \in Lines /\ Entry.name \in Names /\ Entry.kind \in Kinds
                                     /\ Len(File) \in Nat /\ DOMAIN File = 1 .. Len(File)
                                     /\ (pos \in DOMAIN File => Message \in Messages)
  BY Reading
<1>3. Len(dir.replies) \in Nat /\ DOMAIN dir.replies = 1 .. Len(dir.replies)
  BY PacketParts
<1>4. CASE SkipLine \/ LinesDone
  BY <1>1, <1>2, <1>3, <1>4, Constants DEF SkipLine, LinesDone, Entry
<1>5. CASE ConnectMail \/ ConnectNews
  <2>1. /\ line' \in Nat /\ vpc' \in {"line", "open"} /\ faults' \in 0 .. MaxFaults
        /\ UNCHANGED <<readOnly, bare, dir, pos, envelope, copies, damaged>>
    BY <1>5, Constants DEF ConnectMail, ConnectNews
  <2>2. Place'
    BY <1>5, <1>2, <2>1 DEF ConnectMail, ConnectNews, Entry
  <2> QED
    BY <1>1, <1>5, <2>1, <2>2 DEF ConnectMail, ConnectNews
<1>6. CASE OpenFile
  BY <1>1, <1>2, <1>3, <1>6, Constants DEF OpenFile, Entry, File
<1>7. CASE NextMessage
  BY <1>1, <1>2, <1>3, <1>7, Constants DEF NextMessage, Entry, File
<1>8. CASE MailFrom
  <2>1. Recipients[Message] \in Nat \ {0}
    BY <1>2, <1>8, Constants DEF MailFrom
  <2>2. UNCHANGED <<Entry, File, Message>>
    BY <1>8 DEF MailFrom, Entry, File, Message
  <2> QED
    BY <1>1, <1>2, <1>3, <1>8, <2>1, <2>2, Constants DEF MailFrom, Envelopes
<1>9. CASE RcptTo
  <2>1. PICK k \in 0 .. Recipients[Message] - 1 : envelope = <<Message, k>>
    BY <1>9 DEF RcptTo
  <2>2. UNCHANGED <<Entry, File, Message>>
    BY <1>9 DEF RcptTo, Entry, File, Message
  <2>3. Recipients[Message] \in Nat \ {0} /\ Message \in Messages
    BY <1>2, <1>9, Constants DEF RcptTo
  <2>4. envelope' = <<Message, k + 1>>
    BY <1>9, <2>1 DEF RcptTo
  <2>5. Told'
    BY <1>9, <2>1, <2>2, <2>3, <2>4 DEF RcptTo
  <2> QED
    BY <1>1, <1>2, <1>3, <1>9, <2>1, <2>2, <2>3, <2>4, <2>5, Constants DEF RcptTo, Envelopes
<1>10. CASE Data \/ Unheard("text")
  BY <1>1, <1>2, <1>3, <1>10 DEF Data, Unheard, Entry, File, Message
<1>11. CASE Post \/ Unheard("body")
  BY <1>1, <1>2, <1>3, <1>11, Constants DEF Post, Unheard, Entry, File
<1>12. CASE \/ \E at \in {"from", "rcpt", "data", "text"} : Refused(at, "mail")
           \/ \E at \in {"post", "body"} : Refused(at, "news")
  <2>1. /\ vpc \in AtMessage /\ vpc' = "line" /\ line' = line + 1 /\ faults < MaxFaults
        /\ faults' = faults + 1
        /\ UNCHANGED <<readOnly, bare, dir, pos, envelope, copies, damaged>>
    BY <1>12 DEF Refused
  <2> QED
    BY <1>1, <2>1, Constants
<1> QED
  BY <1>4, <1>5, <1>6, <1>7, <1>8, <1>9, <1>10, <1>11, <1>12 DEF Steps

LEMMA SendsType ==
  ASSUME TypeInv, Sends
  PROVE  /\ ReplyType' /\ Place' /\ Told'
         /\ UNCHANGED <<readOnly, bare, dir>>
         /\ vpc \in {"text", "body"} /\ vpc' \in {"line", "next"}
         /\ pos \in DOMAIN File /\ Message \in Messages
<1> USE DEF TypeInv, TypeOK, ReplyType, Place, Sending, AtMessage, Pcs, Heard, Fault, Fail,
            NextLine, errorVars, serverVars
<1>1. /\ vpc \in {"text", "body"} /\ vpc' \in {"line", "next"}
      /\ UNCHANGED <<readOnly, bare, dir>>
  BY DEF Sends, Accepted, AnswerLost, Posted, PostLost
<1>2. /\ mailError' \in BOOLEAN /\ nntpError' \in BOOLEAN /\ smtp' \in BOOLEAN
  BY Flags, ReplyCases
<1>3. /\ Entry.kind \in {"mail", "news"} /\ line \in DOMAIN dir.replies
      /\ Len(File) \in Nat /\ DOMAIN File = 1 .. Len(File) /\ pos \in 1 .. Len(File)
      /\ Message \in Messages
  BY <1>1, Reading
<1>4. copies' \in [Messages -> 0 .. MaxCopies] /\ damaged' \subseteq Messages
  BY <1>3, Transmitted DEF Sends, Accepted, AnswerLost, Posted, PostLost
<1>5. envelope' \in Envelopes
  BY DEF Sends, Accepted, AnswerLost, Posted, PostLost, Envelopes
<1>6. line' \in Nat /\ pos' \in Nat /\ faults' \in 0 .. MaxFaults
  BY <1>3, Constants DEF Sends, Accepted, AnswerLost, Posted, PostLost
<1>7. vpc' = "next" => line' = line /\ pos' = pos + 1
  BY DEF Sends, Accepted, AnswerLost, Posted, PostLost
<1>8. Place' /\ Told'
  BY <1>1, <1>3, <1>7 DEF Entry, File, Told
<1> QED
  BY <1>1, <1>2, <1>3, <1>4, <1>5, <1>6, <1>8

\* Files are taken out of the packet only.
LEMMA EndsType ==
  ASSUME TypeInv, Ends \/ RemoveFile
  PROVE  /\ ReplyType' /\ Place' /\ Told' /\ vpc' \in {"line", "done"}
         /\ UNCHANGED <<readOnly, bare, copies, damaged>>
<1> USE DEF TypeInv, TypeOK, ReplyType, Place, Told, Sending, AtMessage, Pcs, NextLine, Fault,
            Exit, errorVars, serverVars
<1>1. /\ mailError' \in BOOLEAN /\ nntpError' \in BOOLEAN /\ smtp' \in BOOLEAN
  BY Flags, ReplyCases
<1>2. /\ vpc' \in {"line", "done"} /\ line' \in Nat /\ pos' \in Nat /\ faults' \in 0 .. MaxFaults
      /\ envelope' \in Envelopes /\ UNCHANGED <<readOnly, bare, copies, damaged>>
  BY Constants DEF Ends, Malformed, Close, Abort, RemoveFile, Envelopes
<1>3. dir' \in Packets
  <2>1. CASE dir' = dir
    BY <2>1
  <2>2. CASE dir' = [dir EXCEPT !.replies = NoFile]
    BY <2>2, EmptySeq DEF Packets, NoFile
  <2>3. CASE RemoveFile /\ dir' # dir
    BY <2>3, Reading, EmptySeq DEF RemoveFile, Packets, NoFile
  <2> QED
    BY <2>1, <2>2, <2>3 DEF Ends, Malformed, Close, Abort
<1> QED
  BY <1>1, <1>2, <1>3

LEMMA ReplyTypeStep ==
  ASSUME TypeInv, SVsoup
  PROVE  TypeInv'
<1>1. UNCHANGED packetVars /\ spc = "vsoup" /\ (Begin \/ Steps \/ Sends \/ Ends \/ RemoveFile)
  BY ReplyCases DEF SVsoup
<1>2. VsoupRuns'
  BY <1>1 DEF VsoupRuns, packetVars
<1>3. ReplyType' /\ Place' /\ Told'
  <2>1. CASE Begin
    <3>1. ReplyType'
      BY <2>1, Flags DEF Begin, TypeInv, TypeOK, ReplyType, Pcs, serverVars
    <3> QED
      BY <2>1, <3>1 DEF Begin, Place, Told, Sending, AtMessage
  <2> QED
    BY <1>1, <2>1, StepsType, SendsType, EndsType
<1> QED
  BY <1>1, <1>2, <1>3 DEF TypeInv, TypeOK, packetVars

\* What the steps of QSoup and of SEND leave alone of vsoup, save for dir.
Apart == UNCHANGED <<readOnly, bare, vpc, line, pos, errorVars, smtp, serverVars>>

\* The names that QSoup finds.
LEMMA FitNamesAre ==
  ASSUME TypeOK, NEW q \in Queued, NEW f \in Best(q) \union Free(q)
  PROVE  f \in Names
<1>1. Default(q) \in Names
  BY Constants DEF Default, KindIs, Names
<1>2. \A i \in DOMAIN dir.replies : dir.replies[i].name \in Names
  BY PacketParts DEF TypeOK, ReplyType
<1> QED
  BY <1>1, <1>2 DEF Best, Free, FirstFree, First, Fitting

LEMMA QSoupPacket ==
  ASSUME TypeOK, NEW q \in Queued, QStep(q) \/ QCrash(q)
  PROVE  dir' \in Packets /\ zip' \in Packets /\ qname' \in [Queued -> Names]
<1> USE DEF TypeOK, ReplyType
<1>1. zip' \in Packets
  BY OverlayIsPacket
     DEF QStep, QCheck, QLock, QRecheck, QUnzip, QFit, QEntry, QAppend, QZip, QClear, QCrash
<1>2. CASE QUnzip(q) \/ QClear(q)
  BY <1>1, <1>2, OverlayIsPacket, NothingIsPacket DEF QUnzip, QClear
<1>3. CASE QEntry(q)
  <2>1. PICK f \in Free(q) :
          IF RepliesOpen
            THEN UNCHANGED <<dir, qname>>
            ELSE /\ dir' = [dir EXCEPT !.replies = Append(@, [name |-> f, kind |-> KindIs(q)])]
                 /\ qname' = [qname EXCEPT ![q] = f]
    BY <1>3, Zenon DEF QEntry
  <2>2. f \in Names
    BY FitNamesAre
  <2>3. [name |-> f, kind |-> KindIs(q)] \in Lines
    BY <2>2 DEF Lines, Kinds, KindIs
  <2>4. Append(dir.replies, [name |-> f, kind |-> KindIs(q)]) \in Seq(Lines)
    BY <2>3, AppendProperties DEF Packets
  <2> QED
    BY <1>1, <2>1, <2>2, <2>4 DEF Packets
<1>4. CASE QAppend(q)
  <2>1. q \in Messages /\ qname[q] \in Names
    BY Constants
  <2>2. Append(dir.files[qname[q]], q) \in Seq(Messages)
    BY <2>1, AppendProperties DEF Packets
  <2>3. qname' = qname
    BY <1>4 DEF QAppend
  <2>4. CASE dir' = dir
    BY <1>1, <2>3, <2>4
  <2>5. CASE dir' = [dir EXCEPT !.files[qname[q]] = Append(@, q)]
    <3>1. [dir.files EXCEPT ![qname[q]] = Append(@, q)] \in [Names -> Seq(Messages)]
      BY <2>2 DEF Packets
    <3> QED
      BY <1>1, <2>3, <2>5, <3>1 DEF Packets
  <2> QED
    BY <1>4, <2>4, <2>5 DEF QAppend
<1>5. CASE QFit(q)
  BY <1>1, <1>5, FitNamesAre DEF QFit, replyVars
<1>6. CASE QCheck(q) \/ QLock(q) \/ QRecheck(q) \/ QZip(q) \/ QCrash(q)
  BY <1>1, <1>6 DEF QCheck, QLock, QRecheck, QZip, QCrash, replyVars
<1> QED
  BY <1>2, <1>3, <1>4, <1>5, <1>6 DEF QStep

\* A QSoup does not touch what vsoup has open.
LEMMA QSoupApart ==
  ASSUME TypeOK, NEW q \in Queued, QStep(q) \/ QCrash(q)
  PROVE  /\ Apart /\ spc' = spc
         /\ RepliesOpen => dir'.replies = dir.replies
         /\ \A f \in Names : FileOpen(f) => dir'.files[f] = dir.files[f]
<1> USE DEF replyVars, Apart
<1>1. Apart /\ spc' = spc
  BY DEF QStep, QCheck, QLock, QRecheck, QUnzip, QFit, QEntry, QAppend, QZip, QClear,
         QCrash
<1>2. CASE dir' = dir
  BY <1>1, <1>2
<1>3. CASE ~RepliesOpen
  BY <1>1, <1>3 DEF RepliesOpen, FileOpen
<1>4. CASE QAppend(q) /\ ~FileOpen(qname[q])
  <2>1. /\ dir'.replies = dir.replies
        /\ \A f \in Names : f # qname[q] => dir'.files[f] = dir.files[f]
    BY <1>4 DEF QAppend, TypeOK, ReplyType, Packets
  <2> QED
    BY <1>1, <1>4, <2>1
<1> QED
  BY <1>2, <1>3, <1>4
     DEF QStep, QCheck, QLock, QRecheck, QUnzip, QFit, QEntry, QAppend, QZip, QClear,
         QCrash

LEMMA QSoupTypeStep ==
  ASSUME TypeInv, NEW q \in Queued, QStep(q) \/ QCrash(q)
  PROVE  TypeInv'
<1> USE DEF TypeInv
<1>1. Apart /\ spc' = spc
  BY QSoupApart
<1>2. lock' \in Queued \union {NoOne} /\ promised' \subseteq Messages /\ faults' \in 0 .. MaxFaults
  <2>1. q \in Messages
    BY Constants
  <2>2. CASE QStep(q)
    BY <2>1, <2>2
       DEF TypeOK, ReplyType, replyVars, QReturn, QStep, QCheck, QLock, QRecheck, QUnzip, QFit,
           QEntry, QAppend, QZip, QClear
  <2>3. CASE QCrash(q)
    BY <2>3, Constants DEF TypeOK, ReplyType, Fault, QCrash
  <2> QED
    BY <2>2, <2>3
<1>3. qpc' \in [Queued -> QPcs]
  BY DEF TypeOK, QPcs, QGoes, QReturn,
         QStep, QCheck, QLock, QRecheck, QUnzip, QFit, QEntry, QAppend, QZip, QClear, QCrash
<1>4. TypeOK'
  BY <1>1, <1>2, <1>3, QSoupPacket DEF TypeOK, ReplyType, Apart, errorVars, serverVars
<1>5. VsoupRuns'
  BY <1>1 DEF VsoupRuns, Apart
<1>6. vpc \in Sending => Entry' = Entry
  BY <1>1, QSoupApart DEF Sending, AtMessage, RepliesOpen, Entry, Apart
<1>7. vpc \in AtMessage \union {"next"} => File' = File
  <2> SUFFICES ASSUME vpc \in AtMessage \union {"next"} PROVE File' = File
    OBVIOUS
  <2>1. line \in DOMAIN dir.replies /\ FileOpen(Entry.name)
    BY DEF Place, Sending, AtMessage, FileOpen
  <2>2. dir'.files[Entry.name] = dir.files[Entry.name]
    BY <2>1, QSoupApart, Reading
  <2> QED
    BY <1>6, <2>2 DEF Sending, File
<1>8. Place' /\ Told'
  BY <1>1, <1>6, <1>7, QSoupApart
     DEF Place, Told, Sending, AtMessage, RepliesOpen, Apart, Message, serverVars
<1> QED
  BY <1>4, <1>5, <1>8

SendOwn == SStart \/ SUnzip \/ SCheck \/ SReturned \/ SDelete \/ SAgain \/ SZip \/ SClear \/ SCrash

LEMMA SendTypeStep ==
  ASSUME TypeInv, SendOwn
  PROVE  TypeInv'
<1> USE DEF TypeInv
<1>1. dir' \in Packets /\ zip' \in Packets
  BY OverlayIsPacket, NothingIsPacket
     DEF TypeOK, ReplyType, replyVars, SendOwn, SStart, SUnzip, SCheck, SReturned, SDelete, SAgain,
         SZip, SClear, SCrash
<1>2. \/ vpc' = "idle"
      \/ SStart /\ vpc = "idle"
      \/ SCheck /\ vpc = "idle"
  BY DEF VsoupRuns, replyVars, SGoes, SendOwn, SStart, SUnzip, SCheck, SReturned, SDelete, SAgain,
         SZip, SClear, SCrash, Exit
<1>3. vpc' = "idle"
  BY <1>2 DEF SStart, SCheck, replyVars
<1>4. /\ mailError' \in BOOLEAN /\ nntpError' \in BOOLEAN /\ smtp' \in BOOLEAN
      /\ readOnly' \in BOOLEAN
  BY DEF TypeOK, ReplyType, replyVars, errorVars, SendOwn, SStart, SUnzip, SCheck, SReturned,
         SDelete, SAgain, SZip, SClear, SCrash, Exit
<1>5. /\ UNCHANGED <<bare, copies, damaged, qpc, qname, lock, promised>>
      /\ faults' \in 0 .. MaxFaults /\ line' \in Nat /\ pos' \in Nat /\ envelope' \in Envelopes
  BY Constants
     DEF TypeOK, ReplyType, replyVars, serverVars, SendOwn, SStart, SUnzip, SCheck, SReturned,
         SDelete, SAgain, SZip, SClear, SCrash, Exit, Envelopes, Fault
<1>6. spc' \in SendPcs
  BY DEF TypeOK, SendPcs, SGoes, SendOwn, SStart, SUnzip, SCheck, SReturned, SDelete, SAgain,
         SZip, SClear, SCrash
<1>7. TypeOK'
  BY <1>1, <1>3, <1>4, <1>5, <1>6 DEF TypeOK, ReplyType, Pcs
<1> QED
  BY <1>3, <1>7 DEF VsoupRuns, Place, Told, Sending, AtMessage

LEMMA NextCases ==
  ASSUME Next
  PROVE  \/ SVsoup \/ SendOwn
         \/ \E q \in Queued : QStep(q) \/ QCrash(q)
  BY DEF Next, SendStep, SendOwn

LEMMA StutterTypeInv ==
  ASSUME TypeInv, UNCHANGED vars
  PROVE  TypeInv'
  BY DEF TypeInv, TypeOK, ReplyType, VsoupRuns, Place, Told, vars, replyVars, packetVars, errorVars,
         serverVars, Entry, File, Message

LEMMA TypeInvNext == TypeInv /\ [Next]_vars => TypeInv'
  BY NextCases, StutterTypeInv, ReplyTypeStep, SendTypeStep, QSoupTypeStep

\* The variables of the programs, of the servers and of the files keep their types, whoever
\* runs when.
THEOREM TypeCorrect == Spec => []TypeOK
<1>1. TypeInv => TypeOK
  BY DEF TypeInv
<1> QED
  BY <1>1, InitTypeInv, TypeInvNext, PTL DEF Spec

\* A mail whose text is transmitted goes to all of its recipients and to no others, also if
\* QSoup or a second program interferes (smtpMail, putAddresses).
THEOREM EnvelopesWhole == Spec => []EnvelopeWhole
<1>1. TypeInv => EnvelopeWhole
  BY DEF TypeInv, Told, EnvelopeWhole
<1> QED
  BY <1>1, InitTypeInv, TypeInvNext, PTL DEF Spec

-----------------------------------------------------------------------------
(* What a packet holds.                                                      *)

LEMMA HeldIs ==
  ASSUME NEW p, NEW m
  PROVE  m \in Held(p) <=> \E i \in DOMAIN p.replies : /\ p.replies[i].kind # "other"
                                                       /\ m \in InFile(p.files[p.replies[i].name])
  BY DEF Held

LEMMA HeldInPacket == \A p : Held(p) \subseteq InPacket(p)
  BY DEF Held, InPacket, Listed

LEMMA NothingHeld == Held(Nothing) = {}
<1>1. DOMAIN Nothing.replies = {}
  BY DEF Nothing, NoFile
<1> QED
  BY <1>1, HeldIs

LEMMA CoveredHeld ==
  ASSUME NEW p \in Packets, NEW q \in Packets, Covered(p, q)
  PROVE  Held(p) \subseteq Held(q)
<1> SUFFICES ASSUME NEW m \in Held(p) PROVE m \in Held(q)
  OBVIOUS
<1>1. PICK i \in DOMAIN p.replies : /\ p.replies[i].kind # "other"
                                    /\ m \in InFile(p.files[p.replies[i].name])
  BY HeldIs
<1>2. p.replies[i].name \in Names
  BY PacketParts
<1>3. i \in DOMAIN q.replies /\ q.replies[i] = p.replies[i]
  BY DEF Covered
<1>4. m \in InFile(q.files[q.replies[i].name])
  BY <1>1, <1>2, <1>3 DEF Covered
<1> QED
  BY <1>1, <1>3, <1>4, HeldIs

LEMMA CoveredTrans ==
  ASSUME NEW p, NEW q, NEW r, Covered(p, q), Covered(q, r)
  PROVE  Covered(p, r)
  BY DEF Covered

LEMMA OverlayCovers ==
  ASSUME NEW p \in Packets, NEW q \in Packets
  PROVE  Covered(q, Overlay(p, q))
<1>1. \A f \in Names : q.files[f] = NoFile => InFile(q.files[f]) = {}
  BY DEF NoFile, InFile
<1>2. q.replies = NoFile => DOMAIN q.replies = {}
  BY DEF NoFile
<1> QED
  BY <1>1, <1>2 DEF Covered, Overlay

LEMMA OverlayNothing ==
  ASSUME NEW p \in Packets
  PROVE  Overlay(p, Nothing) = p
  BY DEF Overlay, Nothing, Packets, NoFile

LEMMA AppendLine ==
  ASSUME NEW p \in Packets, NEW l \in Lines
  PROVE  /\ Covered(p, [p EXCEPT !.replies = Append(@, l)])
         /\ \E i \in DOMAIN Append(p.replies, l) : Append(p.replies, l)[i] = l
<1>1. p.replies \in Seq(Lines) /\ Len(p.replies) \in Nat /\ DOMAIN p.replies = 1 .. Len(p.replies)
  BY PacketParts
<1>2. /\ DOMAIN Append(p.replies, l) = 1 .. Len(p.replies) + 1
      /\ \A i \in DOMAIN p.replies : Append(p.replies, l)[i] = p.replies[i]
      /\ Append(p.replies, l)[Len(p.replies) + 1] = l
  BY <1>1, AppendProperties, LenProperties
<1>3. /\ [p EXCEPT !.replies = Append(@, l)].replies = Append(p.replies, l)
      /\ [p EXCEPT !.replies = Append(@, l)].files = p.files
  BY DEF Packets
<1> QED
  BY <1>1, <1>2, <1>3 DEF Covered

LEMMA AppendMessage ==
  ASSUME NEW p \in Packets, NEW f \in Names, NEW m \in Messages
  PROVE  /\ Covered(p, [p EXCEPT !.files[f] = Append(@, m)])
         /\ m \in InFile(Append(p.files[f], m))
<1>1. p.files[f] \in Seq(Messages) /\ p.files \in [Names -> Seq(Messages)]
  BY DEF Packets
<1>2. /\ InFile(p.files[f]) \subseteq InFile(Append(p.files[f], m))
      /\ m \in InFile(Append(p.files[f], m))
  BY <1>1, AppendProperties, LenProperties DEF InFile
<1> QED
  BY <1>1, <1>2 DEF Covered, Packets

-----------------------------------------------------------------------------
(* No reply is lost: the steps of vsoup.                                     *)

LEMMA VsoupDisjuncts ==
  ASSUME SVsoup
  PROVE  UNCHANGED packetVars /\ spc = "vsoup" /\ (Begin \/ Steps \/ Sends \/ Ends \/ RemoveFile)
  BY ReplyCases DEF SVsoup

LEMMA SentStays ==
  ASSUME TypeInv, SVsoup, NEW m \in Messages, Sent(m)
  PROVE  Sent(m)'
<1>1. CASE Sends
  <2>1. CASE copies' = copies
    BY <2>1 DEF Sent
  <2>2. CASE Transmit
    BY <2>2, Constants DEF Sent, Transmit, TypeInv, TypeOK, ReplyType
  <2> QED
    BY <1>1, <2>1, <2>2 DEF Sends, Accepted, AnswerLost, Posted, PostLost
<1>2. CASE Begin \/ Steps \/ Ends \/ RemoveFile
  BY <1>2, StepsType, EndsType DEF Sent, Begin, serverVars
<1> QED
  BY <1>1, <1>2, VsoupDisjuncts

\* A file goes when its messages are sent, REPLIES when all files it lists have gone.
LEMMA VsoupDir ==
  ASSUME TypeInv, FileSent, LinesSent, SVsoup, NEW m \in Held(dir)
  PROVE  m \in Held(dir') \/ Sent(m)
<1> USE DEF TypeInv
<1>0. dir \in Packets
  BY DEF TypeOK, ReplyType
<1>1. PICK i \in DOMAIN dir.replies : /\ dir.replies[i].kind # "other"
                                      /\ m \in InFile(dir.files[dir.replies[i].name])
  BY HeldIs
<1>2. CASE dir' = dir
  BY <1>2
<1>3. CASE RemoveFile /\ dir' = [dir EXCEPT !.files[Entry.name] = NoFile]
  <2>1. /\ line \in DOMAIN dir.replies /\ Entry.name \in Names
        /\ \A k \in DOMAIN File : Sent(File[k])
    BY <1>3, Reading DEF Place, Sending, FileSent, RemoveFile
  <2>2. CASE dir.replies[i].name = Entry.name
    BY <1>1, <2>1, <2>2 DEF File, InFile
  <2>3. CASE dir.replies[i].name # Entry.name
    <3>1. dir'.replies = dir.replies
      BY <1>0, <1>3 DEF Packets
    <3>2. dir'.files[dir.replies[i].name] = dir.files[dir.replies[i].name]
      BY <1>0, <1>3, <2>1, <2>3, PacketParts DEF Packets
    <3> QED
      BY <1>1, <3>1, <3>2, HeldIs
  <2> QED
    BY <2>2, <2>3
<1>4. CASE Close /\ ~readOnly /\ ~mailError /\ ~nntpError
  <2>1. i < line
    BY <1>0, <1>4, PacketParts DEF LinesSent, Close, TypeOK, ReplyType
  <2>2. dir.files[dir.replies[i].name] = NoFile
    BY <1>1, <1>4, <2>1 DEF LinesSent, Close, RepliesOpen
  <2> QED
    BY <1>1, <2>2 DEF InFile, NoFile
<1> QED
  BY <1>2, <1>3, <1>4, VsoupDisjuncts, StepsType, SendsType
     DEF Begin, Ends, Malformed, Close, Abort, RemoveFile

LEMMA VsoupFileSent ==
  ASSUME TypeInv, FileSent, SVsoup
  PROVE  FileSent'
<1> USE DEF TypeInv
<1>1. CASE Sends
  <2>1. /\ vpc \in {"text", "body"} /\ vpc' \in {"line", "next"} /\ pos \in DOMAIN File
        /\ Message \in Messages /\ dir' = dir
    BY <1>1, SendsType
  <2>2. CASE vpc' = "next"
    <3>1. UNCHANGED <<line, File>> /\ pos' = pos + 1
      BY <1>1, <2>1, <2>2
         DEF Sends, Accepted, AnswerLost, Posted, PostLost, Fail, NextLine, File, Entry
    <3>2. copies'[Message] > 0
      <4>1. Transmit => copies'[Message] > 0
        BY <2>1, Constants DEF Transmit, TypeOK, ReplyType
      <4>2. copies[Message] = 0 \/ copies[Message] > 0
        BY <2>1 DEF TypeOK, ReplyType
      <4> QED
        BY <1>1, <4>1, <4>2
           DEF Sends, Accepted, AnswerLost, Posted, PostLost, Fail, NextLine, serverVars
    <3>3. line \in DOMAIN dir.replies /\ pos \in Nat
      BY <2>1 DEF Place, Sending, AtMessage, TypeOK, ReplyType
    <3>4. \A i \in DOMAIN File : i < pos => copies'[File[i]] > 0
      <4> SUFFICES ASSUME NEW i \in DOMAIN File, i < pos PROVE copies'[File[i]] > 0
        OBVIOUS
      <4>1. File[i] \in Messages
        BY <3>3, Reading, ElementOfSeq
      <4>2. Sent(File[i])
        BY <2>1 DEF FileSent, AtMessage
      <4>3. \A m \in Messages : copies[m] > 0 => copies'[m] > 0
        BY SentStays DEF Sent
      <4> QED
        BY <4>1, <4>2, <4>3 DEF Sent
    <3>5. \A i \in DOMAIN File : i < pos + 1 => copies'[File[i]] > 0
      BY <3>2, <3>3, <3>4, Reading DEF Message
    <3> QED
      BY <2>2, <3>1, <3>5 DEF FileSent, AtMessage, Sent
  <2> QED
    BY <2>1, <2>2 DEF FileSent, AtMessage
<1>2. CASE Steps
  <2>1. UNCHANGED <<dir, copies>>
    BY <1>2, StepsType
  <2>2. CASE vpc' \in AtMessage \union {"next", "remove"} /\ vpc \in AtMessage
    <3>1. UNCHANGED <<line, pos>> /\ vpc' # "remove"
      BY <1>2, <2>2
         DEF Steps, SkipLine, ConnectMail, ConnectNews, OpenFile, NextMessage, MailFrom, RcptTo,
             Data, Unheard, Post, LinesDone, Refused, Fail, NextLine, AtLine, AtMessage
    <3> QED
      BY <2>1, <2>2, <3>1 DEF FileSent, File, Entry, Sent, AtMessage
  <2>3. CASE OpenFile
    BY <2>1, <2>3, Reading DEF OpenFile, FileSent, File, Entry, Sent, AtMessage, Place, Sending, NoFile
  <2>4. CASE NextMessage
    BY <2>1, <2>4, Reading DEF NextMessage, FileSent, File, Entry, Sent, AtMessage, Place, Sending
  <2>5. CASE vpc' \notin AtMessage \union {"next", "remove"}
    BY <2>5 DEF FileSent, AtMessage
  <2> QED
    BY <1>2, <2>2, <2>3, <2>4, <2>5
       DEF Steps, SkipLine, ConnectMail, ConnectNews, MailFrom, RcptTo, Data, Unheard, Post,
           LinesDone, Refused, Fail, NextLine, AtMessage
<1>3. CASE Begin \/ Ends \/ RemoveFile
  BY <1>3, EndsType DEF Begin, FileSent, AtMessage
<1> QED
  BY <1>1, <1>2, <1>3, VsoupDisjuncts

\* The line is left because its kind is unknown, after an error, or because its file is gone.
LEMMA VsoupLine ==
  ASSUME TypeInv, Steps \/ Sends
  PROVE  \/ line' = line /\ vpc' # "close"
         \/ line' = line + 1 /\ vpc' = "line" /\ (AtLine("other") \/ mailError' \/ nntpError')
         \/ line' = line /\ line > Len(dir.replies)
<1>1. CASE SkipLine
  BY <1>1 DEF SkipLine, NextLine, AtLine, errorVars
<1>2. CASE Steps /\ ~SkipLine
  BY <1>2
     DEF Steps, ConnectMail, ConnectNews, OpenFile, NextMessage, MailFrom, RcptTo, Data, Unheard,
         Post, LinesDone, Refused, Fail, NextLine, AtLine
<1>3. CASE Sends
  BY <1>3 DEF Sends, Accepted, AnswerLost, Posted, PostLost, Fail, NextLine
<1> QED
  BY <1>1, <1>2, <1>3

\* An error stays until the run ends.
LEMMA ErrorsKept ==
  ASSUME TypeInv, Steps \/ Sends \/ RemoveFile
  PROVE  (mailError => mailError') /\ (nntpError => nntpError') /\ readOnly' = readOnly
<1>1. CASE SkipLine \/ ConnectMail \/ ConnectNews \/ OpenFile \/ NextMessage \/ LinesDone
           \/ RemoveFile
  BY <1>1 DEF SkipLine, ConnectMail, ConnectNews, OpenFile, NextMessage, LinesDone, RemoveFile,
              errorVars
<1>2. CASE MailFrom \/ RcptTo \/ Data \/ Unheard("text") \/ Post \/ Unheard("body")
  BY <1>2 DEF MailFrom, RcptTo, Data, Unheard, Post, errorVars
<1>3. CASE \/ \E at \in {"from", "rcpt", "data", "text"} : Refused(at, "mail")
           \/ \E at \in {"post", "body"} : Refused(at, "news")
  BY <1>3 DEF Refused, Fail
<1>4. CASE Accepted \/ Posted
  BY <1>4 DEF Accepted, Posted, errorVars
<1>5. CASE AnswerLost \/ PostLost
  BY <1>5 DEF AnswerLost, PostLost, Fail
<1> QED
  BY <1>1, <1>2, <1>3, <1>4, <1>5 DEF Steps, Sends

LEMMA VsoupLinesSent ==
  ASSUME TypeInv, LinesSent, SVsoup
  PROVE  LinesSent'
<1> USE DEF TypeInv
<1>0. dir \in Packets /\ Len(dir.replies) \in Nat /\ line \in Nat
      /\ DOMAIN dir.replies = 1 .. Len(dir.replies)
  BY PacketParts DEF TypeOK, ReplyType
<1>1. CASE Begin
  <2>1. line' = 1 /\ dir' = dir /\ vpc' # "close"
    BY <1>1 DEF Begin
  <2>2. \A i \in DOMAIN dir'.replies : ~ i < line'
    BY <1>0, <2>1
  <2> QED
    BY <2>1, <2>2 DEF LinesSent
<1>2. CASE Ends
  BY <1>2 DEF Ends, Malformed, Close, Abort, Exit, LinesSent, RepliesOpen
<1>3. CASE Steps \/ Sends
  <2>1. dir' = dir /\ RepliesOpen
    BY <1>3, StepsType, SendsType DEF RepliesOpen
  <2>2. AtLine("other") => dir.replies[line].kind = "other"
    BY DEF AtLine, Entry
  <2>3. vpc' = "close" => line' > Len(dir'.replies)
    BY <1>3, <2>1, VsoupLine
  <2>4. SUFFICES ASSUME ~readOnly', ~mailError', ~nntpError', NEW i \in DOMAIN dir.replies, i < line'
                 PROVE  /\ dir.replies[i].kind # "bad"
                        /\ dir.replies[i].kind # "other" => dir.files[dir.replies[i].name] = NoFile
    BY <2>1, <2>3, Zenon DEF LinesSent
  <2>5. ~readOnly /\ ~mailError /\ ~nntpError
    BY <1>3, <2>4, ErrorsKept
  <2>6. i < line \/ (i = line /\ AtLine("other"))
    BY <1>0, <1>3, <2>4, VsoupLine
  <2> QED
    BY <2>1, <2>2, <2>5, <2>6 DEF LinesSent
<1>4. CASE RemoveFile
  <2>1. /\ line \in DOMAIN dir.replies /\ Entry.name \in Names /\ vpc' = "line" /\ line' = line + 1
        /\ Entry.kind \in {"mail", "news"} /\ RepliesOpen
    BY <1>4, Reading DEF Place, Sending, RemoveFile, NextLine, RepliesOpen
  <2>2. dir'.replies = dir.replies
    BY <1>0, <1>4 DEF RemoveFile, Packets
  <2>3. SUFFICES ASSUME ~readOnly', ~mailError', ~nntpError', NEW i \in DOMAIN dir.replies, i < line + 1
                 PROVE  /\ dir.replies[i].kind # "bad"
                        /\ dir.replies[i].kind # "other" => dir'.files[dir.replies[i].name] = NoFile
    BY <2>1, <2>2, Zenon DEF LinesSent
  <2>4. ~readOnly /\ ~mailError /\ ~nntpError
    BY <1>4, <2>3, ErrorsKept
  <2>5. /\ dir'.files[Entry.name] = NoFile
        /\ \A f \in Names : dir.files[f] = NoFile => dir'.files[f] = NoFile
    BY <1>0, <1>4, <2>1, <2>4 DEF RemoveFile, Packets
  <2>6. CASE i = line
    BY <2>1, <2>5, <2>6 DEF Entry
  <2>7. CASE i < line
    BY <1>0, <2>1, <2>4, <2>5, <2>7, PacketParts DEF LinesSent
  <2> QED
    BY <1>0, <2>3, <2>6, <2>7
<1> QED
  BY <1>1, <1>2, <1>3, <1>4, VsoupDisjuncts

LEMMA VsoupReplyStep ==
  ASSUME ReplyInv, SVsoup
  PROVE  ReplyInv'
<1>1. TypeInv'
  BY ReplyTypeStep DEF ReplyInv
<1>2. UNCHANGED packetVars /\ spc = "vsoup"
  BY VsoupDisjuncts
<1>3. Alone' /\ QSoupHas'
  BY <1>2 DEF ReplyInv, Alone, QSoupHas, Works, packetVars
<1>4. \A m \in Messages : Sent(m) => Sent(m)'
  BY SentStays DEF ReplyInv
<1>5. \A m \in Held(dir) : m \in Held(dir') \/ Sent(m)
  BY VsoupDir DEF ReplyInv
<1>6. promised \subseteq Messages
  BY DEF ReplyInv, TypeInv, TypeOK
<1>7. Kept' /\ SendHas'
  BY <1>2, <1>4, <1>5, <1>6 DEF ReplyInv, Kept, SendHas, packetVars
<1> QED
  BY <1>1, <1>3, <1>7, VsoupFileSent, VsoupLinesSent DEF ReplyInv

-----------------------------------------------------------------------------
(* No reply is lost: the steps of SEND.                                      *)

LEMMA SendReplyStep ==
  ASSUME ReplyInv, ~Overlap, SendOwn
  PROVE  ReplyInv'
<1> USE DEF ReplyInv
<1>0. dir \in Packets /\ zip \in Packets /\ promised \subseteq Messages
  BY DEF TypeInv, TypeOK, ReplyType
<1>1. TypeInv' /\ vpc' = "idle"
  BY SendTypeStep DEF TypeInv, VsoupRuns, replyVars, SGoes, SendOwn, SStart, SUnzip, SCheck,
     SReturned, SDelete, SAgain, SZip, SClear, SCrash, Exit
<1>2. UNCHANGED <<qpc, qname, lock, promised, copies>>
  BY DEF replyVars, serverVars, SendOwn, SStart, SUnzip, SCheck, SReturned, SDelete, SAgain, SZip,
         SClear, SCrash, Exit
<1>3. \A q \in Queued : ~Works(q)
  BY DEF Alone, SGoes, SendOwn, SStart, SUnzip, SCheck, SReturned, SDelete, SAgain, SZip, SClear,
         SCrash
<1>4. Alone' /\ QSoupHas'
  BY <1>2, <1>3 DEF Alone, QSoupHas, Works
<1>5. FileSent' /\ LinesSent'
  BY <1>1 DEF FileSent, LinesSent, RepliesOpen, AtMessage
<1>6. CASE SStart \/ SCheck \/ SReturned \/ SAgain \/ SCrash
  <2>1. UNCHANGED <<dir, zip>>
    BY <1>6 DEF replyVars, SStart, SCheck, SReturned, SAgain, SCrash
  <2>2. Kept'
    BY <1>2, <2>1 DEF Kept, Sent
  <2>3. SendHas'
    BY <1>2, <1>6, <2>1 DEF SendHas, Sent, Unpacked, SGoes, SStart, SCheck, SReturned, SAgain, SCrash
  <2> QED
    BY <1>1, <1>4, <1>5, <2>2, <2>3
<1>7. CASE SUnzip
  <2>1. dir' = Overlay(dir, zip) /\ zip' = zip /\ spc' = "check"
    BY <1>7 DEF SUnzip, SGoes
  <2>2. Held(zip) \subseteq Held(dir') /\ (zip = Nothing => dir' = dir)
    BY <1>0, <2>1, OverlayIsPacket, OverlayCovers, CoveredHeld, OverlayNothing
  <2>3. Kept' /\ SendHas'
    BY <1>2, <2>1, <2>2 DEF Kept, SendHas, Sent
  <2> QED
    BY <1>1, <1>4, <1>5, <2>3
<1>8. CASE SDelete
  <2>1. dir' = dir /\ zip' = Nothing /\ spc = "delete" /\ spc' = "again"
    BY <1>8 DEF SDelete, SGoes, replyVars
  <2>2. Kept' /\ SendHas'
    BY <1>2, <2>1 DEF Kept, SendHas, Sent
  <2> QED
    BY <1>1, <1>4, <1>5, <2>2
<1>9. CASE SZip
  <2>1. dir' = dir /\ zip = Nothing /\ zip' = Overlay(zip, dir) /\ Unpacked /\ spc' = "clear"
    BY <1>9 DEF SZip, SGoes, replyVars, SendHas
  <2>2. Held(dir) \subseteq Held(zip') /\ zip'.replies # NoFile
    BY <1>0, <2>1, OverlayIsPacket, OverlayCovers, CoveredHeld DEF Overlay, Unpacked
  <2>3. Kept' /\ SendHas'
    BY <1>2, <2>1, <2>2, NothingHeld DEF Kept, SendHas, Sent
  <2> QED
    BY <1>1, <1>4, <1>5, <2>3
<1>10. CASE SClear
  <2>1. zip' = zip /\ zip.replies # NoFile /\ spc' = "idle"
    BY <1>10 DEF SClear, SGoes, SendHas
  <2>2. zip # Nothing
    BY <2>1 DEF Nothing
  <2>3. Kept' /\ SendHas'
    BY <1>2, <2>1, <2>2 DEF Kept, SendHas, Sent
  <2> QED
    BY <1>1, <1>4, <1>5, <2>3
<1> QED
  BY <1>6, <1>7, <1>8, <1>9, <1>10 DEF SendOwn

-----------------------------------------------------------------------------
(* No reply is lost: the steps of QSoup.                                     *)

\* Before it has the packet for itself QSoup changes no files.
LEMMA QSoupWaits ==
  ASSUME ReplyInv, ~Overlap, NEW q \in Queued, QCheck(q) \/ QLock(q) \/ QRecheck(q)
  PROVE  ReplyInv'
<1> USE DEF ReplyInv
<1>1. UNCHANGED <<replyVars, zip, spc, qname, promised>>
  BY DEF QCheck, QLock, QRecheck
<1>2. TypeInv'
  BY QSoupTypeStep DEF QStep
<1>3. Kept' /\ SendHas' /\ FileSent' /\ LinesSent'
  BY <1>1 DEF replyVars, errorVars, serverVars, Kept, SendHas, FileSent, LinesSent, Sent, Unpacked,
              File, Entry, RepliesOpen
<1>4. /\ \A r \in Queued \ {q} : qpc'[r] = qpc[r]
      /\ qpc'[q] \in {"check", "lock", "recheck", "unzip"}
  BY DEF QCheck, QLock, QRecheck, QGoes, TypeInv, TypeOK
<1>5. Alone'
  <2>1. CASE QCheck(q)
    BY <1>1, <1>4, <2>1 DEF QCheck, QGoes, Alone, Works, TypeInv, TypeOK
  <2>2. CASE QLock(q)
    BY <1>1, <1>4, <2>2, OutboxAssumption DEF QLock, QGoes, Alone, Works, TypeInv, TypeOK
  <2>3. CASE QRecheck(q)
    BY <1>1, <1>4, <2>3 DEF QRecheck, QGoes, Alone, Works, TypeInv, TypeOK
  <2> QED
    BY <2>1, <2>2, <2>3
<1>6. QSoupHas'
  BY <1>1, <1>4 DEF QSoupHas, replyVars, KindIs
<1> QED
  BY <1>2, <1>3, <1>5, <1>6

\* The one that works has the packet for itself.
LEMMA QSoupOwns ==
  ASSUME ReplyInv, NEW q \in Queued, Works(q), QStep(q) \/ QCrash(q)
  PROVE  /\ spc = "idle" /\ spc' = "idle" /\ vpc = "idle" /\ vpc' = "idle" /\ ~RepliesOpen
         /\ lock = q /\ copies' = copies
         /\ \A r \in Queued \ {q} : ~Works(r) /\ qpc[r] # "recheck" /\ qpc'[r] = qpc[r]
         /\ TypeInv' /\ FileSent' /\ LinesSent' /\ SendHas'
         /\ (\A r \in Queued \ {q} : ~Works(r)')
<1> USE DEF ReplyInv
<1>1. spc = "idle" /\ lock = q /\ \A r \in Queued \ {q} : ~Works(r) /\ qpc[r] # "recheck"
  BY DEF Alone
<1>2. vpc = "idle" /\ ~RepliesOpen
  BY <1>1 DEF TypeInv, VsoupRuns, RepliesOpen
<1>3. spc' = "idle" /\ vpc' = "idle" /\ copies' = copies
  BY <1>1, <1>2, QSoupApart DEF TypeInv, Apart, serverVars
<1>4. \A r \in Queued \ {q} : qpc'[r] = qpc[r]
  BY DEF QStep, QCheck, QLock, QRecheck, QUnzip, QFit, QEntry, QAppend, QZip, QClear, QCrash,
         QGoes, QReturn, TypeInv, TypeOK
<1>5. TypeInv' /\ FileSent' /\ LinesSent' /\ SendHas'
  BY <1>3, QSoupTypeStep DEF FileSent, LinesSent, SendHas, RepliesOpen, AtMessage
<1> QED
  BY <1>1, <1>2, <1>3, <1>4, <1>5 DEF Works

\* The step of the one that works: it gives up the lock when it ends.
LEMMA QSoupAlone ==
  ASSUME ReplyInv, NEW q \in Queued, Works(q), QStep(q) \/ QCrash(q)
  PROVE  Alone'
<1>1. Works(q)' => lock' = q
  <2>1. lock = q /\ ~RepliesOpen /\ qpc \in [Queued -> QPcs]
    BY QSoupOwns DEF ReplyInv, TypeInv, TypeOK
  <2>2. lock' = lock \/ qpc'[q] \in {"failed", "done"}
    BY <2>1
       DEF Works, QGoes, QReturn, QStep, QCheck, QLock, QRecheck, QUnzip, QFit, QEntry, QAppend,
           QZip, QClear, QCrash
  <2> QED
    BY <2>1, <2>2 DEF Works
<1>2. qpc'[q] # "recheck"
  BY DEF ReplyInv, TypeInv, TypeOK, Works, QGoes, QReturn, QStep, QCheck, QLock, QRecheck, QUnzip,
         QFit, QEntry, QAppend, QZip, QClear, QCrash
<1> QED
  BY <1>1, <1>2, QSoupOwns DEF Alone, Works

\* The name that fits is that of a line of the right kind.
LEMMA BestIs ==
  ASSUME TypeOK, NEW q \in Queued, NEW f \in Best(q)
  PROVE  \E i \in DOMAIN dir.replies : dir.replies[i] = [name |-> f, kind |-> KindIs(q)]
<1>0. f \in FitNames(q)
  <2>1. First(Fitting(q)) \subseteq Fitting(q)
    BY DEF First
  <2> QED
    BY <2>1 DEF Best, FitNames
<1>1. PICK i \in Fitting(q) : dir.replies[i].name = f
  BY <1>0 DEF FitNames
<1>2. i \in DOMAIN dir.replies /\ dir.replies[i].kind = KindIs(q) /\ dir.replies[i] \in Lines
  BY <1>1, PacketParts DEF Fitting, TypeOK, ReplyType
<1> QED
  BY <1>1, <1>2 DEF Lines

LEMMA QSoupWorks ==
  ASSUME ReplyInv, NEW q \in Queued, Works(q), QStep(q) \/ QCrash(q)
  PROVE  Kept' /\ QSoupHas'
<1> USE DEF ReplyInv
<1> DEFINE Msgs == promised \ Others
<1>0. /\ dir \in Packets /\ zip \in Packets /\ dir' \in Packets /\ zip' \in Packets
      /\ promised \subseteq Messages /\ q \in Messages /\ qpc \in [Queued -> QPcs]
      /\ qname \in [Queued -> Names] /\ Held(Nothing) = {}
  BY QSoupPacket, NothingHeld, Constants DEF TypeInv, TypeOK, ReplyType
<1>1. copies' = copies /\ \A r \in Queued \ {q} : ~Works(r) /\ ~Works(r)'
  BY QSoupOwns
<1>2. SUFFICES
        /\ \A m \in promised' \ Others : Sent(m) \/ m \in Held(zip') \/ (zip' = Nothing /\ m \in Held(dir'))
        /\ qpc'[q] \in {"entry", "append", "zip"} => Covered(zip', dir')
        /\ qpc'[q] = "append" =>
             \E i \in DOMAIN dir'.replies : dir'.replies[i] = [name |-> qname'[q], kind |-> KindIs(q)]
        /\ qpc'[q] = "zip" => q \in Held(dir')
        /\ qpc'[q] = "clear" => q \in Held(zip')
  <2>1. \A r \in Queued \ {q} : qpc'[r] \notin {"entry", "append", "zip", "clear"}
    BY <1>1 DEF Works
  <2> QED
    BY <1>1, <1>2, <2>1 DEF Kept, QSoupHas, Sent, KindIs
<1>3. /\ \A m \in Msgs : Sent(m) \/ m \in Held(zip) \/ (zip = Nothing /\ m \in Held(dir))
      /\ qpc[q] \in {"entry", "append", "zip"} => Covered(zip, dir)
      /\ qpc[q] = "append" =>
           \E i \in DOMAIN dir.replies : dir.replies[i] = [name |-> qname[q], kind |-> KindIs(q)]
      /\ qpc[q] = "zip" => q \in Held(dir)
      /\ qpc[q] = "clear" => q \in Held(zip)
  BY DEF Kept, QSoupHas
<1>4. CASE QUnzip(q)
  <2>1. zip' = zip /\ promised' = promised /\ dir' = Overlay(dir, zip) /\ qpc'[q] = "entry"
    BY <1>0, <1>4 DEF QUnzip, QGoes
  <2>2. Covered(zip, dir') /\ (zip = Nothing => dir' = dir)
    BY <1>0, <2>1, OverlayCovers, OverlayNothing
  <2> QED
    BY <1>3, <2>1, <2>2
<1>5. CASE QFit(q)
  <2>1. PICK f \in Best(q) : qname' = [qname EXCEPT ![q] = f]
    BY <1>5 DEF QFit
  <2>2. /\ zip' = zip /\ promised' = promised /\ dir' = dir /\ qpc[q] = "entry"
        /\ qpc'[q] = "append" /\ qname'[q] = f
    BY <1>0, <1>5, <2>1 DEF QFit, QGoes, replyVars
  <2>3. \E i \in DOMAIN dir.replies : dir.replies[i] = [name |-> f, kind |-> KindIs(q)]
    BY BestIs DEF TypeInv
  <2> QED
    BY <1>3, <2>2, <2>3
<1>6. CASE QEntry(q)
  <2>1. ~RepliesOpen
    BY QSoupOwns
  <2>2. PICK f \in Free(q) :
          /\ QGoes(q, "entry", "append")
          /\ dir' = [dir EXCEPT !.replies = Append(@, [name |-> f, kind |-> KindIs(q)])]
          /\ qname' = [qname EXCEPT ![q] = f]
    BY <1>6, <2>1, Zenon DEF QEntry
  <2>3. /\ zip' = zip /\ promised' = promised /\ qpc[q] = "entry" /\ qpc'[q] = "append"
        /\ qname'[q] = f
    BY <1>0, <1>6, <2>2 DEF QEntry, QGoes
  <2>4. [name |-> f, kind |-> KindIs(q)] \in Lines
    BY FitNamesAre DEF Lines, Kinds, KindIs, TypeInv
  <2>5. /\ Covered(dir, dir')
        /\ \E i \in DOMAIN Append(dir.replies, [name |-> f, kind |-> KindIs(q)]) :
             Append(dir.replies, [name |-> f, kind |-> KindIs(q)])[i] = [name |-> f, kind |-> KindIs(q)]
    BY <1>0, <2>2, <2>4, AppendLine
  <2>6. dir'.replies = Append(dir.replies, [name |-> f, kind |-> KindIs(q)])
    BY <1>0, <2>2 DEF Packets
  <2>7. Held(dir) \subseteq Held(dir') /\ Covered(zip, dir')
    BY <1>0, <1>3, <2>3, <2>5, CoveredHeld, CoveredTrans
  <2> QED
    BY <1>3, <2>3, <2>5, <2>6, <2>7
<1>7. CASE QAppend(q)
  <2>1. ~FileOpen(qname[q])
    BY QSoupOwns DEF FileOpen
  <2>2. /\ dir' = [dir EXCEPT !.files[qname[q]] = Append(@, q)]
        /\ zip' = zip /\ promised' = promised /\ qpc[q] = "append" /\ qpc'[q] = "zip"
    BY <1>0, <1>7, <2>1 DEF QAppend, QGoes
  <2>3. Covered(dir, dir') /\ q \in InFile(Append(dir.files[qname[q]], q))
    BY <1>0, <2>2, AppendMessage
  <2>4. dir'.replies = dir.replies /\ dir'.files[qname[q]] = Append(dir.files[qname[q]], q)
    BY <1>0, <2>2 DEF Packets
  <2>5. PICK i \in DOMAIN dir.replies : dir.replies[i] = [name |-> qname[q], kind |-> KindIs(q)]
    BY <1>3, <2>2
  <2>6. q \in Held(dir')
    <3>1. dir'.replies[i].kind # "other" /\ dir'.replies[i].name = qname[q]
      BY <2>4, <2>5 DEF KindIs
    <3>2. q \in InFile(dir'.files[dir'.replies[i].name]) /\ i \in DOMAIN dir'.replies
      BY <2>3, <2>4, <2>5, <3>1
    <3> QED
      BY <3>1, <3>2, HeldIs
  <2>7. Held(dir) \subseteq Held(dir') /\ Covered(zip, dir')
    BY <1>0, <1>3, <2>2, <2>3, CoveredHeld, CoveredTrans
  <2> QED
    BY <1>3, <2>2, <2>6, <2>7
<1>8. CASE QZip(q) /\ Unpacked
  <2>1. /\ dir' = dir /\ zip' = Overlay(zip, dir) /\ promised' = promised
        /\ qpc[q] = "zip" /\ qpc'[q] = "clear"
    BY <1>0, <1>8 DEF QZip, QGoes, replyVars
  <2>2. Covered(dir, zip') /\ Covered(zip, dir)
    BY <1>0, <1>3, <2>1, OverlayCovers
  <2>3. Held(zip) \subseteq Held(dir) /\ Held(dir) \subseteq Held(zip')
    BY <1>0, <2>2, CoveredHeld
  <2> QED
    BY <1>3, <2>1, <2>3
<1>9. CASE QClear(q)
  <2>1. /\ zip' = zip /\ promised' = promised \union {q} /\ qpc[q] = "clear" /\ qpc'[q] = "done"
    BY <1>0, <1>9 DEF QClear, QReturn, QGoes
  <2>2. q \in Held(zip) /\ zip # Nothing
    BY <1>0, <1>3, <2>1
  <2> QED
    BY <1>3, <2>1, <2>2
<1>10. CASE QZip(q) /\ ~Unpacked
  <2>1. qpc[q] = "zip" /\ dir.replies = NoFile
    BY <1>10 DEF QZip, QReturn, QGoes, Unpacked
  <2>2. Held(dir) = {}
    BY <2>1, HeldIs DEF NoFile
  <2> QED
    BY <1>3, <2>1, <2>2
<1>11. CASE QCrash(q)
  <2>1. dir' = dir /\ zip' = zip /\ promised' = promised /\ qpc'[q] = "failed"
    BY <1>0, <1>11 DEF QCrash, QGoes
  <2> QED
    BY <1>3, <2>1
<1>12. CASE QCheck(q) \/ QLock(q) \/ QRecheck(q)
  BY <1>12 DEF QCheck, QLock, QRecheck, QGoes, Works
<1> QED
  BY <1>4, <1>5, <1>6, <1>7, <1>8, <1>9, <1>10, <1>11, <1>12 DEF QStep

-----------------------------------------------------------------------------
(* No reply is lost.                                                         *)

LEMMA InitReplyInv == Init => ReplyInv
<1> SUFFICES ASSUME Init PROVE ReplyInv
  OBVIOUS
<1>1. /\ vpc = "idle" /\ spc = "idle" /\ \A q \in Queued : qpc[q] = "check"
      /\ zip \in Packets0 /\ promised = InPacket(zip)
  BY DEF Init, ReplyInit
<1>2. Alone /\ FileSent /\ LinesSent /\ SendHas /\ QSoupHas
  BY <1>1 DEF Alone, Works, FileSent, LinesSent, RepliesOpen, SendHas, QSoupHas, AtMessage
<1>3. Kept
  BY <1>1, OutboxAssumption DEF Kept
<1> QED
  BY <1>2, <1>3, InitTypeInv DEF ReplyInv

LEMMA StutterReplyInv ==
  ASSUME ReplyInv, UNCHANGED vars
  PROVE  ReplyInv'
<1>1. TypeInv'
  BY StutterTypeInv DEF ReplyInv
<1>2. /\ UNCHANGED <<readOnly, bare, dir, vpc, line, pos, mailError, nntpError, smtp, envelope, copies>>
      /\ UNCHANGED <<zip, spc, qpc, qname, lock, promised>>
  BY DEF vars, replyVars, packetVars, errorVars, serverVars
<1> QED
  BY <1>1, <1>2
     DEF ReplyInv, Alone, Works, FileSent, LinesSent, RepliesOpen, Kept, SendHas, QSoupHas, Sent,
         File, Entry, Unpacked, KindIs

LEMMA ReplyInvNext == ~Overlap /\ ReplyInv /\ [Next]_vars => ReplyInv'
<1>1. ASSUME ~Overlap, ReplyInv, NEW q \in Queued, QStep(q) \/ QCrash(q)
      PROVE  ReplyInv'
  <2>1. CASE Works(q)
    BY <1>1, <2>1, QSoupWorks, QSoupOwns, QSoupAlone DEF ReplyInv
  <2>2. CASE ~Works(q)
    <3>1. QCheck(q) \/ QLock(q) \/ QRecheck(q)
      BY <1>1, <2>2
         DEF Works, QStep, QCrash, QUnzip, QFit, QEntry, QAppend, QZip, QClear, QGoes,
             QReturn
    <3> QED
      BY <1>1, <3>1, QSoupWaits
  <2> QED
    BY <2>1, <2>2
<1> QED
  BY <1>1, NextCases, StutterReplyInv, VsoupReplyStep, SendReplyStep

LEMMA ReplyInvKeeps == ReplyInv => NoReplyLost
<1> SUFFICES ASSUME ReplyInv, NEW m \in promised \ Others PROVE copies[m] > 0 \/ m \in Packed
  BY DEF NoReplyLost
<1>1. Sent(m) \/ m \in Held(zip) \/ m \in Held(dir)
  BY DEF ReplyInv, Kept
<1> QED
  BY <1>1, HeldInPacket DEF Packed, Sent

\* No reply is lost, for any messages, packets, faults and number of QSoups, as long as SEND
\* and QSoup do not work at the same time: vsoup removes only what is sent, QSoup and SEND
\* delete a packet only when the other copy has all of it (sendReply; QSoup main; yarnio.cmd).
THEOREM RepliesKept == ASSUME ~Overlap PROVE Spec => []NoReplyLost
  BY ReplyInvNext, ReplyInvKeeps, InitReplyInv, PTL DEF Spec

-----------------------------------------------------------------------------
(* Outbox implements ReplyQueue.                                            *)

\* A file listed as mail or news has no message of an unknown kind, a file listed
\* with an unknown kind no other.
Sorted(p, q) ==
  \A i \in DOMAIN p.replies :
    /\ p.replies[i].kind \in {"mail", "news"} => InFile(q.files[p.replies[i].name]) \intersect Others = {}
    /\ p.replies[i].kind = "other" => InFile(q.files[p.replies[i].name]) \subseteq Others

\* The files of an unknown kind, which nobody removes, are there.
Present(p) ==
  \A i \in DOMAIN p.replies : p.replies[i].kind = "other" => p.files[p.replies[i].name] # NoFile

\* What a packet of the newsreader is like.
InOrder(p) == Sorted(p, p) /\ Present(p)

Either(p, q) == (InPacket(p) \union InPacket(q)) \ Others

\* Whatever of one copy is laid over the other, no message appears that neither lists.
Within(p, q, S) == \A f \in Listed(p) : InFile(q.files[f]) \ Others \subseteq S

Fits(p, q) ==
  /\ Sorted(p, q) /\ Sorted(q, p) /\ InOrder(p) /\ InOrder(q)
  /\ Within(p, q, Either(p, q)) /\ Within(q, p, Either(p, q))

\* Without lines the archive has no files the directory lists.
Unlisted == zip.replies = NoFile => \A f \in Listed(dir) : zip.files[f] = NoFile

\* SEND reads the lines of the archive.
SameLines ==
  spc \in {"check", "vsoup"} =>
    \/ zip.replies = NoFile
    \/ dir.replies \in {NoFile, zip.replies}

\* QSoup deletes only what it has packed.
Repacked == \A q \in Queued : qpc[q] = "clear" => Covered(dir, zip)

QueueInv == ReplyInv /\ Fits(dir, zip) /\ Unlisted /\ SameLines /\ Repacked
-----------------------------------------------------------------------------
(* Two copies of a packet.                                                   *)

LEMMA FitsSym == \A p, q : Fits(p, q) <=> Fits(q, p)
<1> SUFFICES ASSUME NEW p, NEW q PROVE Fits(p, q) => Fits(q, p)
  OBVIOUS
<1>1. Either(p, q) = Either(q, p)
  BY DEF Either
<1> QED
  BY <1>1 DEF Fits

LEMMA InPacketIs ==
  ASSUME NEW p, NEW m
  PROVE  m \in InPacket(p) <=> \E f \in Listed(p) : m \in InFile(p.files[f])
  BY DEF InPacket

LEMMA ListedNames == \A p \in Packets : Listed(p) \subseteq Names
  BY PacketParts DEF Listed

LEMMA NothingIn ==
  /\ Listed(Nothing) = {} /\ InPacket(Nothing) = {} /\ InOrder(Nothing)
  /\ \A f \in Names : Nothing.files[f] = NoFile /\ InFile(Nothing.files[f]) = {}
<1>1. DOMAIN Nothing.replies = {} /\ \A f \in Names : Nothing.files[f] = NoFile
  BY DEF Nothing, NoFile
<1>2. Listed(Nothing) = {}
  BY <1>1 DEF Listed
<1> QED
  BY <1>1, <1>2 DEF InPacket, InOrder, Sorted, Present, InFile, NoFile

LEMMA CoveredIn ==
  ASSUME NEW p \in Packets, NEW q \in Packets, Covered(p, q)
  PROVE  InPacket(p) \subseteq InPacket(q)
<1> SUFFICES ASSUME NEW f \in Listed(p), NEW m \in InFile(p.files[f]) PROVE m \in InPacket(q)
  BY InPacketIs
<1>1. f \in Names /\ f \in Listed(q)
  BY ListedNames DEF Covered, Listed
<1> QED
  BY <1>1, InPacketIs DEF Covered

\* A file that is there has a message.
LEMMA FileThere ==
  ASSUME NEW s \in Seq(Messages), s # NoFile
  PROVE  InFile(s) # {}
<1>1. Len(s) \in Nat /\ DOMAIN s = 1 .. Len(s)
  BY LenProperties
<1>2. Len(s) # 0
  BY EmptySeq DEF NoFile
<1>3. 1 \in DOMAIN s
  BY <1>1, <1>2
<1> QED
  BY <1>3 DEF InFile

\* One copy goes.
LEMMA FitsNothing ==
  ASSUME NEW p \in Packets, NEW q \in Packets, Fits(p, q)
  PROVE  Fits(p, Nothing) /\ Either(p, Nothing) = InPacket(p) \ Others
<1>1. Either(p, Nothing) = InPacket(p) \ Others
  BY NothingIn DEF Either
<1>2. Sorted(p, Nothing) /\ Sorted(Nothing, p)
  <2>1. DOMAIN Nothing.replies = {}
    BY DEF Nothing, NoFile
  <2>2. \A i \in DOMAIN p.replies : InFile(Nothing.files[p.replies[i].name]) = {}
    BY NothingIn, PacketParts
  <2> QED
    BY <2>1, <2>2 DEF Sorted
<1>3. \A S : Within(p, Nothing, S) /\ Within(Nothing, p, S)
  BY NothingIn, ListedNames DEF Within
<1> QED
  BY <1>1, <1>2, <1>3, NothingIn DEF Fits

\* The second copy is laid over the first.
LEMMA FitsOverlay ==
  ASSUME NEW p \in Packets, NEW q \in Packets, Fits(p, q), NEW r, r = Overlay(p, q)
  PROVE  Fits(r, q) /\ Either(r, q) \subseteq Either(p, q)
<1>1. /\ r \in Packets
      /\ r.replies = IF q.replies = NoFile THEN p.replies ELSE q.replies
      /\ Listed(r) = IF q.replies = NoFile THEN Listed(p) ELSE Listed(q)
      /\ \A f \in Names : r.files[f] = IF q.files[f] = NoFile THEN p.files[f] ELSE q.files[f]
  <2>1. r \in Packets
    BY OverlayIsPacket
  <2> QED
    BY <2>1 DEF Overlay, Listed
<1>2. /\ \A i \in DOMAIN p.replies : p.replies[i].name \in Names
      /\ \A i \in DOMAIN q.replies : q.replies[i].name \in Names
      /\ Listed(p) \subseteq Names /\ Listed(q) \subseteq Names
  BY PacketParts, ListedNames
<1>3. Sorted(r, q) /\ Sorted(q, r) /\ Sorted(r, r)
  BY <1>1, <1>2 DEF Fits, InOrder, Sorted
<1>4. Present(r)
  BY <1>1, <1>2 DEF Fits, InOrder, Present
<1>5. Either(r, q) \subseteq Either(p, q)
  <2> SUFFICES ASSUME NEW f \in Listed(r), NEW m \in InFile(r.files[f]) \ Others
               PROVE  m \in Either(p, q)
    BY InPacketIs DEF Either
  <2>1. \/ f \in Listed(p) /\ m \in InFile(p.files[f])
        \/ f \in Listed(q) /\ m \in InFile(q.files[f])
        \/ f \in Listed(p) /\ m \in InFile(q.files[f])
        \/ f \in Listed(q) /\ m \in InFile(p.files[f])
    BY <1>1, <1>2
  <2> QED
    BY <2>1, InPacketIs DEF Fits, Within, Either
<1>6. Within(r, q, Either(r, q))
  <2> SUFFICES ASSUME NEW f \in Listed(r), NEW m \in InFile(q.files[f]) \ Others
               PROVE  m \in Either(r, q)
    BY DEF Within
  <2>1. f \in Names /\ q.files[f] # NoFile
    BY <1>1, <1>2 DEF InFile, NoFile
  <2>2. r.files[f] = q.files[f]
    BY <1>1, <2>1
  <2> QED
    BY <2>2, InPacketIs DEF Either
<1>7. Within(q, r, Either(r, q))
  <2> SUFFICES ASSUME NEW f \in Listed(q), NEW m \in InFile(r.files[f]) \ Others
               PROVE  m \in Either(r, q)
    BY DEF Within
  <2>1. f \in Listed(r)
    <3>1. q.replies = NoFile => Listed(q) = {}
      BY DEF Listed, NoFile
    <3> QED
      BY <1>1, <3>1
  <2> QED
    BY <2>1, InPacketIs DEF Either
<1> QED
  BY <1>3, <1>4, <1>5, <1>6, <1>7 DEF Fits, InOrder

\* A line is added whose name neither copy has a file of.
LEMMA FitsEntry ==
  ASSUME NEW p \in Packets, NEW q \in Packets, Fits(p, q),
         NEW l \in Lines, l.kind \in {"mail", "news"},
         p.files[l.name] = NoFile, q.files[l.name] = NoFile,
         NEW r, r = [p EXCEPT !.replies = Append(@, l)]
  PROVE  Fits(r, q) /\ Either(r, q) = Either(p, q)
<1>1. /\ p.replies \in Seq(Lines) /\ Len(p.replies) \in Nat /\ DOMAIN p.replies = 1 .. Len(p.replies)
      /\ r.replies = Append(p.replies, l) /\ r.files = p.files
  BY PacketParts DEF Packets
<1>2. /\ DOMAIN r.replies = DOMAIN p.replies \union {Len(p.replies) + 1}
      /\ \A i \in DOMAIN p.replies : r.replies[i] = p.replies[i]
      /\ r.replies[Len(p.replies) + 1] = l
  BY <1>1, AppendProperties, LenProperties
<1>3. Listed(r) = Listed(p) \union {l.name}
  BY <1>2 DEF Listed
<1>4. InFile(p.files[l.name]) = {} /\ InFile(q.files[l.name]) = {}
  BY DEF InFile, NoFile
<1>5. InPacket(r) = InPacket(p)
  BY <1>1, <1>3, <1>4 DEF InPacket
<1>6. Either(r, q) = Either(p, q)
  BY <1>5 DEF Either
<1>7. Sorted(r, q) /\ Sorted(q, r) /\ Sorted(r, r)
  BY <1>1, <1>2, <1>4 DEF Fits, InOrder, Sorted
<1>8. Present(r)
  BY <1>1, <1>2 DEF Fits, InOrder, Present
<1>9. Within(r, q, Either(r, q)) /\ Within(q, r, Either(r, q))
  BY <1>1, <1>3, <1>4, <1>6 DEF Fits, Within
<1> QED
  BY <1>6, <1>7, <1>8, <1>9 DEF Fits, InOrder

\* A message is appended to a file that is listed with its kind.
LEMMA FitsAppend ==
  ASSUME NEW p \in Packets, NEW q \in Packets, Fits(p, q), Covered(q, p),
         NEW i \in DOMAIN p.replies, p.replies[i].kind \in {"mail", "news"},
         NEW f \in Names, f = p.replies[i].name,
         NEW m \in Messages \ Others,
         NEW r, r = [p EXCEPT !.files[f] = Append(@, m)]
  PROVE  Fits(r, q) /\ Either(r, q) = Either(p, q) \union {m}
<1>1. /\ r.replies = p.replies /\ \A g \in Names \ {f} : r.files[g] = p.files[g]
      /\ r.files[f] = Append(p.files[f], m) /\ p.files[f] \in Seq(Messages)
  BY DEF Packets
<1>2. InFile(r.files[f]) = InFile(p.files[f]) \union {m} /\ r.files[f] # NoFile
  BY <1>1, AppendProperties, LenProperties DEF InFile, NoFile
<1>3. /\ \A k \in DOMAIN p.replies : p.replies[k].name \in Names
      /\ \A k \in DOMAIN q.replies : q.replies[k].name \in Names
      /\ Listed(p) \subseteq Names /\ Listed(q) \subseteq Names
  BY PacketParts, ListedNames
<1>4. f \in Listed(p) /\ Listed(r) = Listed(p)
  BY <1>1 DEF Listed
<1>5. InPacket(r) = InPacket(p) \union {m}
  <2>1. ASSUME NEW g \in Listed(p), NEW n \in InFile(r.files[g]) PROVE n \in InPacket(p) \union {m}
    <3>1. CASE g = f
      BY <1>2, <1>4, <2>1, <3>1, InPacketIs
    <3>2. CASE g # f
      BY <1>1, <1>3, <2>1, <3>2, InPacketIs
    <3> QED
      BY <3>1, <3>2
  <2>2. ASSUME NEW g \in Listed(p), NEW n \in InFile(p.files[g]) PROVE n \in InPacket(r)
    <3>1. CASE g = f
      BY <1>2, <1>4, <2>2, <3>1, InPacketIs
    <3>2. CASE g # f
      BY <1>1, <1>3, <1>4, <2>2, <3>2, InPacketIs
    <3> QED
      BY <3>1, <3>2
  <2>3. m \in InPacket(r)
    BY <1>2, <1>4, InPacketIs
  <2> QED
    BY <1>4, <2>1, <2>2, <2>3, InPacketIs
<1>6. Either(r, q) = Either(p, q) \union {m}
  BY <1>5 DEF Either
<1>7. \A k \in DOMAIN p.replies : p.replies[k].kind = "other" => p.replies[k].name # f
  <2> SUFFICES ASSUME NEW k \in DOMAIN p.replies, p.replies[k].kind = "other", p.replies[k].name = f
               PROVE  FALSE
    OBVIOUS
  <2>1. InFile(p.files[f]) = {}
    <3>1. InFile(p.files[p.replies[i].name]) \intersect Others = {}
      BY DEF Fits, InOrder, Sorted
    <3>2. InFile(p.files[p.replies[k].name]) \subseteq Others
      BY DEF Fits, InOrder, Sorted
    <3> QED
      BY <3>1, <3>2
  <2>2. p.files[p.replies[k].name] # NoFile
    BY DEF Fits, InOrder, Present
  <2>3. InFile(p.files[f]) # {}
    BY <1>1, <2>2, FileThere
  <2> QED
    BY <2>1, <2>3
<1>8. \A k \in DOMAIN q.replies : q.replies[k].kind = "other" => q.replies[k].name # f
  BY <1>7 DEF Covered
<1>9. Sorted(r, q) /\ Sorted(q, r) /\ Sorted(r, r)
  BY <1>1, <1>2, <1>3, <1>7, <1>8 DEF Fits, InOrder, Sorted
<1>10. Present(r)
  BY <1>1, <1>2, <1>3 DEF Fits, InOrder, Present
<1>11. Within(r, q, Either(r, q)) /\ Within(q, r, Either(r, q))
  BY <1>1, <1>2, <1>3, <1>4, <1>6 DEF Fits, Within
<1> QED
  BY <1>6, <1>9, <1>10, <1>11 DEF Fits, InOrder

\* Fewer messages do not disturb the kinds.
LEMMA SortedLess ==
  ASSUME NEW p, NEW q, NEW r, Sorted(p, q), \A i \in DOMAIN p.replies : p.replies[i].name \in Names,
         \A f \in Names : InFile(r.files[f]) \subseteq InFile(q.files[f])
  PROVE  Sorted(p, r)
<1> SUFFICES ASSUME NEW i \in DOMAIN p.replies
             PROVE  /\ p.replies[i].kind \in {"mail", "news"} =>
                         InFile(r.files[p.replies[i].name]) \intersect Others = {}
                    /\ p.replies[i].kind = "other" => InFile(r.files[p.replies[i].name]) \subseteq Others
  BY DEF Sorted
<1>1. InFile(r.files[p.replies[i].name]) \subseteq InFile(q.files[p.replies[i].name])
  OBVIOUS
<1> QED
  BY <1>1 DEF Sorted

\* A file goes, while both copies have the same lines.
LEMMA FitsRemove ==
  ASSUME NEW p \in Packets, NEW q \in Packets, Fits(p, q),
         Listed(q) \subseteq Listed(p), \A g \in Listed(p) : g \in Listed(q) \/ q.files[g] = NoFile,
         NEW i \in DOMAIN p.replies, p.replies[i].kind \in {"mail", "news"},
         NEW f \in Names, f = p.replies[i].name,
         NEW r, r = [p EXCEPT !.files[f] = NoFile]
  PROVE  Fits(r, q) /\ Either(r, q) \subseteq Either(p, q) /\ r.replies = p.replies
<1>1. /\ r.replies = p.replies /\ \A g \in Names \ {f} : r.files[g] = p.files[g]
      /\ r.files[f] = NoFile /\ p.files[f] \in Seq(Messages)
  BY DEF Packets
<1>2. InFile(r.files[f]) = {}
  BY <1>1 DEF InFile, NoFile
<1>3. /\ \A k \in DOMAIN p.replies : p.replies[k].name \in Names
      /\ \A k \in DOMAIN q.replies : q.replies[k].name \in Names
      /\ Listed(p) \subseteq Names /\ Listed(q) \subseteq Names
  BY PacketParts, ListedNames
<1>4. Listed(r) = Listed(p)
  BY <1>1 DEF Listed
<1>5. \A g \in Names : InFile(r.files[g]) \subseteq InFile(p.files[g])
  <2> SUFFICES ASSUME NEW g \in Names PROVE InFile(r.files[g]) \subseteq InFile(p.files[g])
    OBVIOUS
  <2>1. CASE g = f
    BY <1>2, <2>1
  <2>2. CASE g # f
    BY <1>1, <2>2
  <2> QED
    BY <2>1, <2>2
<1>6. Either(r, q) \subseteq Either(p, q)
  <2>1. InPacket(r) \subseteq InPacket(p)
    BY <1>3, <1>4, <1>5, InPacketIs
  <2> QED
    BY <2>1 DEF Either
<1>7. \A k \in DOMAIN p.replies : p.replies[k].kind = "other" => p.replies[k].name # f
  <2> SUFFICES ASSUME NEW k \in DOMAIN p.replies, p.replies[k].kind = "other", p.replies[k].name = f
               PROVE  FALSE
    OBVIOUS
  <2>1. InFile(p.files[f]) = {}
    <3>1. InFile(p.files[p.replies[i].name]) \intersect Others = {}
      BY DEF Fits, InOrder, Sorted
    <3>2. InFile(p.files[p.replies[k].name]) \subseteq Others
      BY DEF Fits, InOrder, Sorted
    <3> QED
      BY <3>1, <3>2
  <2>2. p.files[p.replies[k].name] # NoFile
    BY DEF Fits, InOrder, Present
  <2>3. InFile(p.files[f]) # {}
    BY <1>1, <2>2, FileThere
  <2> QED
    BY <2>1, <2>3
<1>8. Sorted(r, q) /\ Sorted(q, r) /\ Sorted(r, r)
  <2>1. Sorted(r, q) /\ Sorted(r, p)
    BY <1>1 DEF Fits, InOrder, Sorted
  <2>2. Sorted(q, p)
    BY DEF Fits
  <2> QED
    BY <1>1, <1>3, <1>5, <2>1, <2>2, SortedLess
<1>9. Present(r)
  BY <1>1, <1>3, <1>7 DEF Fits, InOrder, Present
<1>10. Within(r, q, Either(r, q))
  <2> SUFFICES ASSUME NEW g \in Listed(r), NEW m \in InFile(q.files[g]) \ Others
               PROVE  m \in Either(r, q)
    BY DEF Within
  <2>1. q.files[g] # NoFile
    BY DEF InFile, NoFile
  <2> QED
    BY <1>4, <2>1, InPacketIs DEF Either
<1>11. Within(q, r, Either(r, q))
  BY <1>4, InPacketIs DEF Within, Either
<1> QED
  BY <1>1, <1>6, <1>8, <1>9, <1>10, <1>11 DEF Fits, InOrder

\* The lines go, when the files of the archive's lines have gone.
LEMMA FitsLines ==
  ASSUME NEW p \in Packets, NEW q \in Packets, Fits(p, q),
         \A g \in Listed(q) : InFile(p.files[g]) \subseteq Others,
         NEW r, r = [p EXCEPT !.replies = NoFile]
  PROVE  Fits(r, q) /\ Either(r, q) \subseteq Either(p, q) /\ r.replies = NoFile
<1>1. r.replies = NoFile /\ r.files = p.files
  BY DEF Packets
<1>2. DOMAIN r.replies = {} /\ Listed(r) = {}
  BY <1>1 DEF Listed, NoFile
<1>3. InPacket(r) = {}
  BY <1>2, InPacketIs
<1>4. Sorted(r, q) /\ Sorted(q, r) /\ Sorted(r, r) /\ Present(r)
  BY <1>1, <1>2 DEF Fits, InOrder, Sorted, Present
<1>5. Within(r, q, Either(r, q)) /\ Within(q, r, Either(r, q))
  BY <1>1, <1>2 DEF Within
<1> QED
  BY <1>1, <1>3, <1>4, <1>5 DEF Fits, InOrder, Either
-----------------------------------------------------------------------------
(* What a step does to the queue.                                            *)

Leaves   == Packed' \subseteq Packed /\ UNCHANGED <<promised, copies>>
Enters   == \E m \in Messages : Packed' = Packed \union {m} /\ UNCHANGED <<promised, copies>>
Promises == \E m \in Packed : promised' = promised \union {m} /\ UNCHANGED <<Packed, copies>>
Accepts  ==
  \E m \in Packed : /\ copies' = [copies EXCEPT ![m] = IF @ < MaxCopies THEN @ + 1 ELSE @]
                    /\ UNCHANGED <<Packed, promised>>

Moves == Leaves \/ Enters \/ Promises \/ Accepts

Rest == Fits(dir, zip) /\ Unlisted /\ SameLines /\ Repacked

LEMMA PackedIs == Packed = Either(dir, zip)
  BY DEF Packed, Either

\* A message that is being sent is in the packet, and of a kind that is known.
LEMMA MessagePacked ==
  ASSUME QueueInv, vpc \in {"text", "body"}
  PROVE  Message \in Packed
<1>1. /\ line \in DOMAIN dir.replies /\ Entry.kind \in {"mail", "news"} /\ pos \in DOMAIN File
      /\ dir \in Packets
  BY DEF QueueInv, ReplyInv, TypeInv, Place, Sending, AtMessage, TypeOK, ReplyType
<1>2. Message \in InFile(dir.files[Entry.name]) /\ Entry.name \in Listed(dir)
  BY <1>1 DEF Message, File, InFile, Listed, Entry
<1>3. Message \notin Others
  BY <1>1, <1>2 DEF QueueInv, Fits, InOrder, Sorted, Entry
<1>4. Message \in InPacket(dir)
  BY <1>2, InPacketIs
<1> QED
  BY <1>3, <1>4 DEF Packed

LEMMA VsoupMoves ==
  ASSUME QueueInv, SVsoup
  PROVE  Rest' /\ Moves
<1> USE DEF QueueInv, ReplyInv
<1>1. /\ UNCHANGED <<zip, spc, qpc, qname, lock, promised>> /\ spc = "vsoup"
      /\ Begin \/ Steps \/ Sends \/ Ends \/ RemoveFile
      /\ dir \in Packets /\ zip \in Packets
  BY VsoupDisjuncts DEF packetVars, TypeInv, TypeOK, ReplyType
<1>2. Repacked'
  BY <1>1 DEF Repacked, Alone, Works
<1>3. CASE dir' = dir /\ copies' = copies
  <2>1. UNCHANGED Packed
    BY <1>1, <1>3 DEF Packed
  <2> QED
    BY <1>1, <1>2, <1>3, <2>1 DEF Rest, Unlisted, SameLines, Moves, Leaves
<1>4. CASE Sends /\ copies' # copies
  <2>1. dir' = dir /\ vpc \in {"text", "body"}
    BY <1>4, SendsType
  <2>2. Message \in Packed
    BY <2>1, MessagePacked
  <2>3. Transmit
    BY <1>4 DEF Sends, Accepted, AnswerLost, Posted, PostLost
  <2>4. UNCHANGED Packed
    BY <1>1, <2>1 DEF Packed
  <2> QED
    BY <1>1, <1>2, <2>1, <2>2, <2>3, <2>4
       DEF Rest, Unlisted, SameLines, Moves, Accepts, Transmit
<1>5. CASE RemoveFile /\ dir' # dir
  <2>1. /\ line \in DOMAIN dir.replies /\ Entry.kind \in {"mail", "news"} /\ Entry.name \in Names
        /\ dir' = [dir EXCEPT !.files[Entry.name] = NoFile] /\ copies' = copies
    BY <1>5, Reading DEF Place, Sending, RemoveFile, TypeInv, serverVars
  <2>2. dir.replies # NoFile
    BY <2>1 DEF NoFile
  <2>3. zip.replies = NoFile \/ zip.replies = dir.replies
    BY <1>1, <2>2 DEF SameLines
  <2>4. /\ Listed(zip) \subseteq Listed(dir)
        /\ \A g \in Listed(dir) : g \in Listed(zip) \/ zip.files[g] = NoFile
    <3>1. CASE zip.replies = NoFile
      BY <3>1 DEF Unlisted, Listed, NoFile
    <3>2. CASE zip.replies = dir.replies
      BY <3>2 DEF Listed
    <3> QED
      BY <2>3, <3>1, <3>2
  <2>5. Fits(dir', zip) /\ Either(dir', zip) \subseteq Either(dir, zip) /\ dir'.replies = dir.replies
    BY <1>1, <2>1, <2>4, FitsRemove DEF Entry
  <2>6. Packed' \subseteq Packed
    BY <1>1, <2>5 DEF Packed, Either
  <2> QED
    BY <1>1, <1>2, <2>1, <2>5, <2>6 DEF Rest, Unlisted, SameLines, Listed, Moves, Leaves
<1>6. CASE Close /\ dir' # dir
  <2>1. /\ dir' = [dir EXCEPT !.replies = NoFile] /\ copies' = copies
        /\ vpc = "close" /\ ~readOnly /\ ~mailError /\ ~nntpError
    BY <1>6 DEF Close, Exit, serverVars
  <2>2. dir.replies # NoFile
    BY <1>1, <1>6, <2>1 DEF Packets
  <2>3. zip.replies = NoFile \/ zip.replies = dir.replies
    BY <1>1, <2>2 DEF SameLines
  <2>4. \A g \in Listed(zip) : InFile(dir.files[g]) \subseteq Others
    <3> SUFFICES ASSUME NEW i \in DOMAIN zip.replies
                 PROVE  InFile(dir.files[zip.replies[i].name]) \subseteq Others
      BY DEF Listed
    <3>1. zip.replies = dir.replies /\ i \in DOMAIN dir.replies
      BY <2>3 DEF NoFile
    <3>2. i < line
      BY <1>1, <2>1, <3>1, PacketParts DEF LinesSent, TypeInv, TypeOK, ReplyType
    <3>3. CASE dir.replies[i].kind = "other"
      BY <3>1, <3>3 DEF Fits, InOrder, Sorted
    <3>4. CASE dir.replies[i].kind # "other"
      <4>1. dir.files[dir.replies[i].name] = NoFile
        BY <2>1, <3>1, <3>2, <3>4 DEF LinesSent, RepliesOpen
      <4> QED
        BY <3>1, <4>1 DEF InFile, NoFile
    <3> QED
      BY <3>3, <3>4
  <2>5. Fits(dir', zip) /\ Either(dir', zip) \subseteq Either(dir, zip) /\ dir'.replies = NoFile
    BY <1>1, <2>1, <2>4, FitsLines
  <2>6. Packed' \subseteq Packed
    BY <1>1, <2>5 DEF Packed, Either
  <2> QED
    BY <1>1, <1>2, <2>1, <2>5, <2>6 DEF Rest, Unlisted, SameLines, Listed, NoFile, Moves, Leaves
<1>7. Begin \/ Steps \/ Malformed \/ Abort => UNCHANGED <<dir, copies>>
  BY StepsType DEF Begin, Malformed, Abort, Exit, serverVars
<1>8. Close \/ RemoveFile => copies' = copies
  BY DEF Close, RemoveFile, Exit, serverVars
<1>9. Sends => dir' = dir
  BY SendsType
<1> QED
  BY <1>1, <1>3, <1>4, <1>5, <1>6, <1>7, <1>8, <1>9 DEF Ends

LEMMA SendMoves ==
  ASSUME QueueInv, ~Overlap, SendOwn
  PROVE  Rest' /\ Moves
<1> USE DEF QueueInv, ReplyInv
<1>1. /\ UNCHANGED <<qpc, promised, copies>> /\ dir \in Packets /\ zip \in Packets
      /\ \A q \in Queued : ~Works(q)
  BY DEF TypeInv, TypeOK, ReplyType, Alone, SGoes, replyVars, serverVars, SendOwn, SStart, SUnzip,
         SCheck, SReturned, SDelete, SAgain, SZip, SClear, SCrash, Exit
<1>2. Repacked'
  BY <1>1 DEF Repacked, Works
<1>3. CASE SStart \/ SCheck \/ SReturned \/ SAgain \/ SCrash
  <2>1. UNCHANGED <<dir, zip>>
    BY <1>3 DEF replyVars, SStart, SCheck, SReturned, SAgain, SCrash
  <2>2. SameLines'
    BY <1>3, <2>1 DEF SameLines, SGoes, SStart, SCheck, SReturned, SAgain, SCrash
  <2> QED
    BY <1>1, <1>2, <2>1, <2>2 DEF Rest, Unlisted, Moves, Leaves, Packed
<1>4. CASE SUnzip
  <2>1. dir' = Overlay(dir, zip) /\ zip' = zip
    BY <1>4 DEF SUnzip
  <2>2. Fits(dir', zip) /\ Either(dir', zip) \subseteq Either(dir, zip)
    BY <1>1, <2>1, FitsOverlay
  <2>3. Packed' \subseteq Packed
    BY <2>1, <2>2 DEF Packed, Either
  <2>4. Unlisted' /\ SameLines'
    BY <2>1 DEF Unlisted, SameLines, Overlay, Listed
  <2> QED
    BY <1>1, <1>2, <2>1, <2>2, <2>3, <2>4 DEF Rest, Moves, Leaves
<1>5. CASE SZip
  <2>1. zip' = Overlay(zip, dir) /\ dir' = dir /\ Unpacked /\ spc' = "clear"
    BY <1>5 DEF SZip, SGoes, SendHas, replyVars
  <2>2. Fits(dir, zip') /\ Either(zip', dir) \subseteq Either(zip, dir)
    BY <1>1, <2>1, FitsOverlay, FitsSym
  <2>3. Packed' \subseteq Packed
    BY <2>1, <2>2 DEF Packed, Either
  <2>4. Unlisted' /\ SameLines'
    BY <2>1 DEF Unlisted, SameLines, Overlay, Unpacked
  <2> QED
    BY <1>1, <1>2, <2>1, <2>2, <2>3, <2>4 DEF Rest, Moves, Leaves
<1>6. CASE SDelete
  <2>1. zip' = Nothing /\ dir' = dir /\ spc' = "again"
    BY <1>6 DEF SDelete, SGoes, replyVars
  <2>2. Fits(dir, Nothing) /\ Either(dir, Nothing) = InPacket(dir) \ Others
    BY <1>1, FitsNothing
  <2>3. Packed' \subseteq Packed
    BY <2>1, <2>2 DEF Packed, Either
  <2>4. Unlisted' /\ SameLines'
    BY <1>1, <2>1, NothingIn, ListedNames DEF Unlisted, SameLines
  <2> QED
    BY <1>1, <1>2, <2>1, <2>2, <2>3, <2>4 DEF Rest, Moves, Leaves
<1>7. CASE SClear
  <2>1. zip' = zip /\ dir' = Nothing /\ spc' = "idle"
    BY <1>7 DEF SClear, SGoes
  <2>2. Fits(Nothing, zip) /\ Either(zip, Nothing) = InPacket(zip) \ Others
    BY <1>1, FitsNothing, FitsSym
  <2>3. Packed' \subseteq Packed
    BY <2>1, <2>2 DEF Packed, Either
  <2>4. Unlisted' /\ SameLines'
    BY <2>1, NothingIn DEF Unlisted, SameLines
  <2> QED
    BY <1>1, <1>2, <2>1, <2>2, <2>3, <2>4 DEF Rest, Moves, Leaves
<1> QED
  BY <1>3, <1>4, <1>5, <1>6, <1>7 DEF SendOwn

LEMMA QSoupMoves ==
  ASSUME QueueInv, ~Overlap, NEW q \in Queued, QStep(q) \/ QCrash(q)
  PROVE  Rest' /\ Moves
<1> USE DEF QueueInv
<1>0. /\ dir \in Packets /\ zip \in Packets /\ q \in Messages \ Others
      /\ qpc \in [Queued -> QPcs] /\ qname \in [Queued -> Names]
  BY Constants, OutboxAssumption, ReplyAssumption DEF ReplyInv, TypeInv, TypeOK, ReplyType
<1>1. CASE QCheck(q) \/ QLock(q) \/ QRecheck(q) \/ QFit(q) \/ QCrash(q)
  <2>1. /\ UNCHANGED <<dir, zip, spc, promised, copies>>
        /\ \A r \in Queued : qpc'[r] = "clear" => qpc[r] = "clear"
    BY <1>0, <1>1 DEF QCheck, QLock, QRecheck, QFit, QCrash, QGoes, replyVars, serverVars
  <2> QED
    BY <2>1 DEF Rest, Unlisted, SameLines, Repacked, Moves, Leaves, Packed
<1>2. CASE Works(q) /\ ~QFit(q) /\ ~QCrash(q)
  <2>1. /\ spc' = "idle" /\ copies' = copies /\ ~RepliesOpen
        /\ \A r \in Queued \ {q} : ~Works(r)' /\ qpc'[r] # "clear"
    BY <1>2, QSoupOwns DEF Works
  <2>2. SameLines'
    BY <2>1 DEF SameLines
  <2>3. qpc[q] \in {"entry", "append", "zip"} => Covered(zip, dir)
    BY DEF ReplyInv, QSoupHas
  <2>4. CASE QUnzip(q)
    <3>1. dir' = Overlay(dir, zip) /\ zip' = zip /\ promised' = promised /\ qpc'[q] = "entry"
      BY <1>0, <2>4 DEF QUnzip, QGoes
    <3>2. Fits(dir', zip) /\ Either(dir', zip) \subseteq Either(dir, zip)
      BY <1>0, <3>1, FitsOverlay
    <3>3. Packed' \subseteq Packed
      BY <3>1, <3>2 DEF Packed, Either
    <3>4. Unlisted'
      BY <3>1 DEF Unlisted, Overlay, Listed
    <3> QED
      BY <2>1, <2>2, <3>1, <3>2, <3>3, <3>4 DEF Rest, Repacked, Moves, Leaves
  <2>5. CASE QEntry(q)
    <3> DEFINE l(f) == [name |-> f, kind |-> KindIs(q)]
    <3>1. PICK f \in Free(q) :
            /\ QGoes(q, "entry", "append")
            /\ dir' = [dir EXCEPT !.replies = Append(@, l(f))]
      BY <2>1, <2>5, Zenon DEF QEntry
    <3>2. /\ zip' = zip /\ promised' = promised /\ qpc[q] = "entry" /\ qpc'[q] = "append"
      BY <1>0, <2>5, <3>1 DEF QEntry, QGoes
    <3>3. f \in Names /\ dir.files[f] = NoFile
      BY DEF Free, FirstFree
    <3>4. zip.files[f] = NoFile
      <4>1. InFile(zip.files[f]) \subseteq InFile(dir.files[f]) /\ zip.files[f] \in Seq(Messages)
        BY <1>0, <2>3, <3>2, <3>3 DEF Covered, Packets
      <4>2. InFile(dir.files[f]) = {}
        BY <3>3 DEF InFile, NoFile
      <4> QED
        BY <4>1, <4>2, FileThere
    <3>5. l(f) \in Lines /\ l(f).kind \in {"mail", "news"} /\ l(f).name = f
      BY <3>3 DEF Lines, Kinds, KindIs
    <3>6. Fits(dir', zip) /\ Either(dir', zip) = Either(dir, zip)
      <4> HIDE DEF l
      <4> QED
        BY <1>0, <3>1, <3>3, <3>4, <3>5, FitsEntry
    <3>7. Packed' = Packed
      BY <3>2, <3>6 DEF Packed, Either
    <3>8. Unlisted'
      <4>1. dir'.replies = Append(dir.replies, l(f)) /\ dir.replies \in Seq(Lines)
        BY <1>0, <3>1 DEF Packets
      <4>2. Listed(dir') = Listed(dir) \union {f}
        BY <3>5, <4>1, AppendProperties, LenProperties DEF Listed
      <4> QED
        BY <3>2, <3>4, <4>2 DEF Unlisted
    <3> QED
      BY <2>1, <2>2, <3>2, <3>6, <3>7, <3>8 DEF Rest, Repacked, Moves, Leaves
  <2>6. CASE QAppend(q)
    <3>1. /\ dir' = [dir EXCEPT !.files[qname[q]] = Append(@, q)]
          /\ zip' = zip /\ promised' = promised /\ qpc[q] = "append" /\ qpc'[q] = "zip"
      BY <1>0, <2>1, <2>6 DEF QAppend, QGoes, FileOpen, RepliesOpen
    <3>2. PICK i \in DOMAIN dir.replies : dir.replies[i] = [name |-> qname[q], kind |-> KindIs(q)]
      BY <3>1 DEF ReplyInv, QSoupHas
    <3>3. dir.replies[i].name = qname[q] /\ dir.replies[i].kind \in {"mail", "news"}
      BY <3>2 DEF KindIs
    <3>4. Fits(dir', zip) /\ Either(dir', zip) = Either(dir, zip) \union {q}
      <4>1. qname[q] \in Names /\ Covered(zip, dir) /\ Fits(dir, zip)
        BY <1>0, <2>3, <3>1
      <4>2. dir.replies[i].kind \in {"mail", "news"} /\ qname[q] = dir.replies[i].name
        BY <3>3
      <4>3. dir' = [dir EXCEPT !.files[qname[q]] = Append(@, q)]
        BY <3>1
      <4> HIDE DEF QueueInv
      <4> QED
        BY <1>0, <4>1, <4>2, <4>3, FitsAppend, SMTT(60)
    <3>5. Packed' = Packed \union {q}
      BY <3>1, <3>4 DEF Packed, Either
    <3>6. Unlisted'
      <4>1. dir'.replies = dir.replies
        BY <1>0, <3>1 DEF Packets
      <4> QED
        BY <3>1, <4>1 DEF Unlisted, Listed
    <3> QED
      BY <1>0, <2>1, <2>2, <3>1, <3>4, <3>5, <3>6 DEF Rest, Repacked, Moves, Enters
  <2>7. CASE QZip(q) /\ Unpacked
    <3>1. /\ dir' = dir /\ zip' = Overlay(zip, dir) /\ promised' = promised
          /\ qpc[q] = "zip" /\ qpc'[q] = "clear"
      BY <1>0, <2>7 DEF QZip, QGoes, replyVars
    <3>2. Fits(dir, zip') /\ Either(zip', dir) \subseteq Either(zip, dir)
      BY <1>0, <3>1, FitsOverlay, FitsSym
    <3>3. Packed' \subseteq Packed
      BY <3>1, <3>2 DEF Packed, Either
    <3>4. Unlisted'
      BY <2>7, <3>1 DEF Unlisted, Overlay, Unpacked
    <3>5. Covered(dir', zip')
      BY <1>0, <3>1, OverlayCovers
    <3> QED
      BY <2>1, <2>2, <3>1, <3>2, <3>3, <3>4, <3>5 DEF Rest, Repacked, Moves, Leaves
  <2>8. CASE QZip(q) /\ ~Unpacked
    <3>1. qpc[q] = "zip" /\ dir.replies = NoFile
      BY <2>8 DEF QZip, QReturn, QGoes, Unpacked
    <3>2. Held(dir) = {}
      BY <3>1, HeldIs DEF NoFile
    <3> QED
      BY <3>1, <3>2 DEF ReplyInv, QSoupHas
  <2>9. CASE QClear(q)
    <3>1. /\ zip' = zip /\ dir' = Nothing /\ promised' = promised \union {q}
          /\ qpc[q] = "clear" /\ qpc'[q] = "done"
      BY <1>0, <2>9 DEF QClear, QReturn, QGoes
    <3>2. Fits(Nothing, zip) /\ Either(zip, Nothing) = InPacket(zip) \ Others
      BY <1>0, FitsNothing, FitsSym
    <3>3. InPacket(dir) \subseteq InPacket(zip)
      BY <1>0, <3>1, CoveredIn DEF Repacked
    <3>4. Packed' = Packed
      BY <3>1, <3>2, <3>3, NothingIn DEF Packed
    <3>5. q \in Packed
      BY <1>0, <3>1, HeldInPacket DEF ReplyInv, QSoupHas, Packed
    <3>6. Unlisted'
      BY <3>1, NothingIn DEF Unlisted
    <3> QED
      BY <2>1, <2>2, <3>1, <3>2, <3>4, <3>5, <3>6 DEF Rest, Repacked, Moves, Promises
  <2> QED
    BY <1>2, <2>4, <2>5, <2>6, <2>7, <2>8, <2>9 DEF QStep, QCheck, QLock, QRecheck, QGoes, Works
<1>3. ~Works(q) => QCheck(q) \/ QLock(q) \/ QRecheck(q)
  BY DEF QStep, QCrash, QUnzip, QFit, QEntry, QAppend, QZip, QClear, QGoes, QReturn, Works
<1> QED
  BY <1>1, <1>2, <1>3

LEMMA QueueInvNext == ~Overlap /\ QueueInv /\ [Next]_vars => QueueInv' /\ Moves
<1> SUFFICES ASSUME ~Overlap, QueueInv, [Next]_vars PROVE QueueInv' /\ Moves
  OBVIOUS
<1>1. ReplyInv'
  BY ReplyInvNext DEF QueueInv
<1>2. CASE UNCHANGED vars
  <2>1. UNCHANGED <<dir, copies, zip, spc, qpc, promised>>
    BY <1>2 DEF vars, replyVars, packetVars, serverVars
  <2> QED
    BY <1>1, <2>1 DEF QueueInv, Unlisted, SameLines, Repacked, Moves, Leaves, Packed
<1> QED
  BY <1>1, <1>2, NextCases, VsoupMoves, SendMoves, QSoupMoves DEF QueueInv, Rest

LEMMA QueueInvInit == Init /\ (\A p \in Packets0 : InOrder(p)) => QueueInv
<1> SUFFICES ASSUME Init, \A p \in Packets0 : InOrder(p) PROVE QueueInv
  OBVIOUS
<1>1. /\ zip \in Packets0 /\ zip \in Packets /\ dir = Nothing /\ spc = "idle"
      /\ \A q \in Queued : qpc[q] = "check"
  BY Constants DEF Init, ReplyInit
<1>2. Fits(zip, zip)
  <2>1. Within(zip, zip, Either(zip, zip))
    BY InPacketIs DEF Within, Either
  <2> QED
    BY <1>1, <2>1 DEF Fits, InOrder
<1>3. Fits(dir, zip)
  BY <1>1, <1>2, FitsNothing, FitsSym
<1>4. Unlisted /\ SameLines /\ Repacked
  BY <1>1, NothingIn DEF Unlisted, SameLines, Repacked
<1> QED
  BY <1>3, <1>4, InitReplyInv DEF QueueInv
-----------------------------------------------------------------------------
(* The packet implements the queue.                                          *)

LEMMA QueueInit == Init => Queue!Init
<1> SUFFICES ASSUME Init PROVE Queue!Init
  OBVIOUS
<1>1. TypeOK /\ dir = Nothing /\ promised = InPacket(zip) /\ copies = [m \in Messages |-> 0]
  BY InitTypeInv DEF TypeInv, Init, ReplyInit
<1>2. Packed = promised \ Others
  BY <1>1, NothingIn DEF Packed
<1> QED
  BY <1>1, <1>2 DEF Queue!Init, TypeOK

LEMMA QueueStep ==
  ASSUME QueueInv, NoReplyLost', Moves
  PROVE  [Queue!Next]_(Queue!vars)
<1>1. Packed \subseteq Messages
  <2>1. dir \in Packets /\ zip \in Packets
    BY DEF QueueInv, ReplyInv, TypeInv, TypeOK, ReplyType
  <2>2. ASSUME NEW p \in Packets PROVE InPacket(p) \subseteq Messages
    BY ListedNames, PacketParts DEF InPacket, InFile
  <2> QED
    BY <2>1, <2>2 DEF Packed
<1>2. CASE Leaves
  <2>1. Queue!Forget
    BY <1>2 DEF Leaves, NoReplyLost, Queue!Forget
  <2> QED
    BY <2>1 DEF Queue!Next
<1>3. CASE Enters
  BY <1>3 DEF Enters, Queue!Next, Queue!Put
<1>4. CASE Promises
  <2>1. PICK m \in Packed : promised' = promised \union {m} /\ UNCHANGED <<Packed, copies>>
    BY <1>4 DEF Promises
  <2>2. m \notin Others
    BY DEF Packed
  <2>3. promised' \ Others = (promised \ Others) \union {m}
    BY <2>1, <2>2
  <2> QED
    BY <1>1, <2>1, <2>3 DEF Queue!Next, Queue!Promise
<1>5. CASE Accepts
  BY <1>1, <1>5 DEF Accepts, Queue!Next, Queue!Accept
<1> QED
  BY <1>2, <1>3, <1>4, <1>5 DEF Moves

\* The packet of replies is a queue that sends each message at least once, for any
\* messages, packets, faults, crashes and number of QSoups: whichever copy is laid over
\* the other, messages come in one by one, each is in the packet when its sender is told
\* so and when it is sent, and none promised leaves it unsent (qsoup.cc 405-570, yarnio.cmd 334-370, reply.cc 268-412).
THEOREM OutboxIsQueue ==
  ASSUME ~Overlap, \A p \in Packets0 : InOrder(p)
  PROVE  Spec => ImplementsQueue
<1>1. Init => QueueInv
  BY QueueInvInit
<1>2. QueueInv /\ [Next]_vars => QueueInv'
  BY QueueInvNext
<1>3. QueueInv => NoReplyLost
  BY ReplyInvKeeps DEF QueueInv
<1>4. QueueInv /\ [Next]_vars /\ NoReplyLost' => [Queue!Next]_(Queue!vars)
  BY QueueInvNext, QueueStep
<1> QED
  BY <1>1, <1>2, <1>3, <1>4, QueueInit, PTL DEF Spec, ImplementsQueue, Queue!Spec
-----------------------------------------------------------------------------
(* What a step does to the two copies of the packet.                         *)

\* Lines and files come from the same place of one of the copies, or go.
Mixed ==
  /\ {dir'.replies, zip'.replies} \subseteq {dir.replies, zip.replies, NoFile}
  /\ \A f \in Names : {dir'.files[f], zip'.files[f]} \subseteq {dir.files[f], zip.files[f], NoFile}

\* QSoup adds a line for a name of its kind that neither copy has a file of.
AddsLine(q) ==
  \E f \in Names :
    /\ f.base = KindIs(q) /\ dir.files[f] = NoFile /\ zip.files[f] = NoFile
    /\ dir' = [dir EXCEPT !.replies = Append(@, [name |-> f, kind |-> KindIs(q)])]

\* QSoup appends its message to a file that is listed with its kind.
AddsMessage(q) ==
  /\ qpc[q] = "append" /\ qpc' = [qpc EXCEPT ![q] = "zip"]
  /\ dir' = [dir EXCEPT !.files[qname[q]] = Append(@, q)]
  /\ \E i \in DOMAIN dir.replies : dir.replies[i] = [name |-> qname[q], kind |-> KindIs(q)]

LEMMA InFileAppend ==
  ASSUME NEW s \in Seq(Messages), NEW m \in Messages
  PROVE  /\ InFile(Append(s, m)) = InFile(s) \union {m}
         /\ DOMAIN Append(s, m) = DOMAIN s \union {Len(s) + 1} /\ Len(s) + 1 \notin DOMAIN s
         /\ Append(s, m)[Len(s) + 1] = m /\ \A i \in DOMAIN s : Append(s, m)[i] = s[i]
<1>1. /\ DOMAIN s = 1 .. Len(s) /\ Len(s) \in Nat /\ DOMAIN Append(s, m) = 1 .. Len(s) + 1
      /\ Append(s, m)[Len(s) + 1] = m /\ \A i \in DOMAIN s : Append(s, m)[i] = s[i]
  BY AppendProperties, LenProperties
<1>2. DOMAIN Append(s, m) = DOMAIN s \union {Len(s) + 1} /\ Len(s) + 1 \notin DOMAIN s
  BY <1>1
<1> QED
  BY <1>1, <1>2 DEF InFile

LEMMA MixedSame == UNCHANGED <<dir, zip>> => Mixed
  BY DEF Mixed

LEMMA OverlayIs ==
  ASSUME NEW p, NEW q
  PROVE  /\ Overlay(p, q).replies \in {p.replies, q.replies}
         /\ \A f \in Names : Overlay(p, q).files[f] \in {p.files[f], q.files[f]}
  BY DEF Overlay

LEMMA NothingIs == Nothing.replies = NoFile /\ \A f \in Names : Nothing.files[f] = NoFile
  BY DEF Nothing

LEMMA PacketsAre == QueueInv => dir \in Packets /\ zip \in Packets
  BY DEF QueueInv, ReplyInv, TypeInv, TypeOK, ReplyType

LEMMA VsoupMixes ==
  ASSUME QueueInv, SVsoup
  PROVE  Mixed
<1>0. dir \in Packets /\ zip \in Packets /\ TypeInv
  BY PacketsAre DEF QueueInv, ReplyInv
<1>1. zip' = zip /\ (Begin \/ Steps \/ Sends \/ Ends \/ RemoveFile)
  BY VsoupDisjuncts DEF packetVars
<1>2. \/ dir' = dir
      \/ dir' = [dir EXCEPT !.replies = NoFile]
      \/ dir' = [dir EXCEPT !.files[Entry.name] = NoFile]
  BY <1>0, <1>1, StepsType, SendsType DEF Begin, Ends, Malformed, Close, Abort, RemoveFile
<1>3. CASE dir' = dir
  BY <1>1, <1>3, MixedSame
<1>4. CASE dir' = [dir EXCEPT !.replies = NoFile]
  BY <1>0, <1>1, <1>4 DEF Mixed, Packets
<1>5. CASE dir' = [dir EXCEPT !.files[Entry.name] = NoFile]
  BY <1>0, <1>1, <1>5 DEF Mixed, Packets
<1> QED
  BY <1>2, <1>3, <1>4, <1>5

LEMMA SendMixes ==
  ASSUME QueueInv, SendOwn
  PROVE  Mixed
<1>1. CASE SStart \/ SCheck \/ SReturned \/ SAgain \/ SCrash
  BY <1>1, MixedSame DEF replyVars, SStart, SCheck, SReturned, SAgain, SCrash
<1>2. CASE SUnzip
  BY <1>2, OverlayIs DEF SUnzip, Mixed
<1>3. CASE SZip
  BY <1>3, OverlayIs DEF SZip, Mixed, replyVars
<1>4. CASE SDelete
  BY <1>4, NothingIs DEF SDelete, Mixed, replyVars
<1>5. CASE SClear
  BY <1>5, NothingIs DEF SClear, Mixed
<1> QED
  BY <1>1, <1>2, <1>3, <1>4, <1>5 DEF SendOwn

LEMMA QSoupMixes ==
  ASSUME QueueInv, NEW q \in Queued, QStep(q) \/ QCrash(q)
  PROVE  Mixed \/ (zip' = zip /\ (AddsLine(q) \/ AddsMessage(q)))
<1>0. dir \in Packets /\ zip \in Packets /\ qname \in [Queued -> Names]
  BY DEF QueueInv, ReplyInv, TypeInv, TypeOK, ReplyType
<1>1. CASE QCheck(q) \/ QLock(q) \/ QRecheck(q) \/ QFit(q) \/ QCrash(q)
  BY <1>1, MixedSame DEF QCheck, QLock, QRecheck, QFit, QCrash, replyVars
<1>2. CASE QUnzip(q)
  BY <1>2, OverlayIs DEF QUnzip, Mixed
<1>3. CASE QEntry(q)
  <2>1. CASE dir' = dir
    BY <1>3, <2>1, MixedSame DEF QEntry
  <2>2. CASE dir' # dir
    <3>1. PICK f \in Free(q) : dir' = [dir EXCEPT !.replies = Append(@, [name |-> f, kind |-> KindIs(q)])]
      BY <1>3, <2>2, Zenon DEF QEntry
    <3>2. f \in Names /\ f.base = KindIs(q) /\ dir.files[f] = NoFile
      BY DEF Free, FirstFree
    <3>3. Covered(zip, dir)
      BY <1>3 DEF QueueInv, ReplyInv, QSoupHas, QEntry, QGoes
    <3>4. zip.files[f] = NoFile
      <4>1. InFile(zip.files[f]) \subseteq InFile(dir.files[f]) /\ zip.files[f] \in Seq(Messages)
        BY <1>0, <3>2, <3>3 DEF Covered, Packets
      <4>2. InFile(dir.files[f]) = {}
        BY <3>2 DEF InFile, NoFile
      <4> QED
        BY <4>1, <4>2, FileThere
    <3>5. zip' = zip
      BY <1>3 DEF QEntry
    <3> QED
      BY <3>1, <3>2, <3>4, <3>5 DEF AddsLine
  <2> QED
    BY <2>1, <2>2
<1>4. CASE QAppend(q)
  <2>1. CASE dir' = dir
    BY <1>4, <2>1, MixedSame DEF QAppend
  <2>2. CASE dir' # dir
    BY <1>4, <2>2 DEF QAppend, QGoes, AddsMessage, QueueInv, ReplyInv, QSoupHas
  <2> QED
    BY <2>1, <2>2
<1>5. CASE QZip(q)
  BY <1>5, OverlayIs, MixedSame DEF QZip, Mixed, replyVars
<1>6. CASE QClear(q)
  BY <1>6, NothingIs DEF QClear, Mixed
<1> QED
  BY <1>1, <1>2, <1>3, <1>4, <1>5, <1>6 DEF QStep

-----------------------------------------------------------------------------
(* Mails and articles in files of their own.                                 *)

\* The files the first copy lists as mail or news are named so, and the second copy
\* has only messages of that kind in them.
Typed(p, q) ==
  \A i \in DOMAIN p.replies :
    p.replies[i].kind \in {"mail", "news"} =>
      /\ p.replies[i].name.base = p.replies[i].kind
      /\ \A m \in InFile(q.files[p.replies[i].name]) : KindOf(m) = p.replies[i].kind

KindInv == Typed(dir, dir) /\ Typed(dir, zip) /\ Typed(zip, dir) /\ Typed(zip, zip)

LEMMA TypedParts ==
  ASSUME NEW p, NEW q, NEW r, NEW s, NEW p1, NEW q1,
         Typed(p, r), Typed(p, s), Typed(q, r), Typed(q, s),
         p \in Packets, q \in Packets,
         p1.replies \in {p.replies, q.replies, NoFile},
         \A f \in Names : q1.files[f] \in {r.files[f], s.files[f], NoFile}
  PROVE  Typed(p1, q1)
<1> SUFFICES ASSUME NEW i \in DOMAIN p1.replies, p1.replies[i].kind \in {"mail", "news"}
             PROVE  /\ p1.replies[i].name.base = p1.replies[i].kind
                    /\ \A m \in InFile(q1.files[p1.replies[i].name]) : KindOf(m) = p1.replies[i].kind
  BY DEF Typed
<1>1. p1.replies # NoFile
  BY DEF NoFile
<1>2. p1.replies[i].name \in Names
  BY <1>1, PacketParts
<1>3. q1.files[p1.replies[i].name] \in {r.files[p1.replies[i].name], s.files[p1.replies[i].name], NoFile}
  BY <1>2
<1>4. InFile(NoFile) = {}
  BY DEF InFile, NoFile
<1>5. /\ p1.replies[i].name.base = p1.replies[i].kind
      /\ \A m \in InFile(r.files[p1.replies[i].name]) \union InFile(s.files[p1.replies[i].name]) :
           KindOf(m) = p1.replies[i].kind
  BY <1>1 DEF Typed
<1> QED
  BY <1>3, <1>4, <1>5

LEMMA KindMixed ==
  ASSUME QueueInv, KindInv, Mixed
  PROVE  KindInv'
<1>1. dir \in Packets /\ zip \in Packets
  BY PacketsAre
<1>2. Typed(dir', dir')
  BY <1>1, TypedParts DEF KindInv, Mixed
<1>3. Typed(dir', zip')
  BY <1>1, TypedParts DEF KindInv, Mixed
<1>4. Typed(zip', dir')
  BY <1>1, TypedParts DEF KindInv, Mixed
<1>5. Typed(zip', zip')
  BY <1>1, TypedParts DEF KindInv, Mixed
<1> QED
  BY <1>2, <1>3, <1>4, <1>5 DEF KindInv

LEMMA KindLine ==
  ASSUME QueueInv, KindInv, NEW q \in Queued, AddsLine(q), zip' = zip
  PROVE  KindInv'
<1>1. PICK f \in Names :
        /\ f.base = KindIs(q) /\ dir.files[f] = NoFile /\ zip.files[f] = NoFile
        /\ dir' = [dir EXCEPT !.replies = Append(@, [name |-> f, kind |-> KindIs(q)])]
  BY Zenon DEF AddsLine
<1> DEFINE l == [name |-> f, kind |-> KindIs(q)]
<1>2. /\ dir.replies \in Seq(Lines) /\ Len(dir.replies) \in Nat /\ DOMAIN dir.replies = 1 .. Len(dir.replies)
      /\ dir'.replies = Append(dir.replies, l) /\ dir'.files = dir.files
  BY <1>1, PacketsAre, PacketParts DEF Packets
<1>3. /\ DOMAIN dir'.replies = DOMAIN dir.replies \union {Len(dir.replies) + 1}
      /\ \A i \in DOMAIN dir.replies : dir'.replies[i] = dir.replies[i]
      /\ dir'.replies[Len(dir.replies) + 1] = l
  BY <1>2, AppendProperties, LenProperties
<1>4. l.name = f /\ l.kind = f.base /\ InFile(dir.files[f]) = {} /\ InFile(zip.files[f]) = {}
  BY <1>1 DEF InFile, NoFile
<1>5. Typed(dir', dir') /\ Typed(dir', zip)
  <2> HIDE DEF l
  <2> QED
    BY <1>2, <1>3, <1>4 DEF KindInv, Typed
<1>6. Typed(zip, dir')
  BY <1>2 DEF KindInv, Typed
<1> QED
  BY <1>5, <1>6 DEF KindInv

LEMMA KindMessage ==
  ASSUME QueueInv, KindInv, NEW q \in Queued, AddsMessage(q), zip' = zip
  PROVE  KindInv'
<1>1. /\ dir' = [dir EXCEPT !.files[qname[q]] = Append(@, q)]
      /\ qname[q] \in Names /\ dir \in Packets /\ zip \in Packets
  BY PacketsAre DEF AddsMessage, QueueInv, ReplyInv, TypeInv, TypeOK
<1>2. /\ dir'.replies = dir.replies /\ dir.files[qname[q]] \in Seq(Messages)
      /\ dir'.files[qname[q]] = Append(dir.files[qname[q]], q)
      /\ \A f \in Names \ {qname[q]} : dir'.files[f] = dir.files[f]
  BY <1>1 DEF Packets
<1>3. InFile(dir'.files[qname[q]]) = InFile(dir.files[qname[q]]) \union {q}
  BY <1>2, InFileAppend, Constants
<1>4. KindOf(q) = KindIs(q) /\ KindIs(q) = qname[q].base
  <2>1. PICK i \in DOMAIN dir.replies : dir.replies[i] = [name |-> qname[q], kind |-> KindIs(q)]
    BY DEF AddsMessage
  <2>2. dir.replies[i].kind = KindIs(q) /\ dir.replies[i].name = qname[q] /\ KindIs(q) \in {"mail", "news"}
    BY <2>1 DEF KindIs
  <2>3. KindIs(q) = qname[q].base
    BY <2>2 DEF KindInv, Typed
  <2> QED
    BY <2>3, OutboxAssumption, ReplyAssumption DEF KindOf, KindIs
<1>5. ASSUME NEW p \in Packets, Typed(p, dir) PROVE Typed(p, dir')
  <2> SUFFICES ASSUME NEW i \in DOMAIN p.replies, p.replies[i].kind \in {"mail", "news"}
               PROVE  /\ p.replies[i].name.base = p.replies[i].kind
                      /\ \A m \in InFile(dir'.files[p.replies[i].name]) : KindOf(m) = p.replies[i].kind
    BY DEF Typed
  <2>1. /\ p.replies[i].name.base = p.replies[i].kind /\ p.replies[i].name \in Names
        /\ \A m \in InFile(dir.files[p.replies[i].name]) : KindOf(m) = p.replies[i].kind
    BY <1>5, PacketParts DEF Typed
  <2>2. CASE p.replies[i].name = qname[q]
    BY <1>3, <1>4, <2>1, <2>2
  <2>3. CASE p.replies[i].name # qname[q]
    BY <1>2, <2>1, <2>3
  <2> QED
    BY <2>2, <2>3
<1>6. Typed(dir', dir') /\ Typed(dir', zip)
  <2>1. Typed(dir, dir') /\ Typed(dir, zip)
    BY <1>1, <1>5 DEF KindInv
  <2> QED
    BY <1>2, <2>1 DEF Typed
<1>7. Typed(zip, dir')
  BY <1>1, <1>5 DEF KindInv
<1> QED
  BY <1>6, <1>7 DEF KindInv

LEMMA KindInvNext == QueueInv /\ KindInv /\ [Next]_vars => KindInv'
<1> SUFFICES ASSUME QueueInv, KindInv, [Next]_vars PROVE KindInv'
  OBVIOUS
<1>1. CASE UNCHANGED vars
  BY <1>1, MixedSame, KindMixed DEF vars, replyVars, packetVars
<1>2. CASE SVsoup \/ SendOwn
  BY <1>2, VsoupMixes, SendMixes, KindMixed
<1>3. ASSUME NEW q \in Queued, QStep(q) \/ QCrash(q) PROVE KindInv'
  BY <1>3, QSoupMixes, KindMixed, KindLine, KindMessage
<1> QED
  BY <1>1, <1>2, <1>3, NextCases

LEMMA KindInvInit == Init /\ (\A p \in Packets0 : Typed(p, p)) => KindInv
<1> SUFFICES ASSUME Init, \A p \in Packets0 : Typed(p, p) PROVE KindInv
  OBVIOUS
<1>1. zip \in Packets0 /\ zip \in Packets /\ dir = Nothing
  BY Constants DEF Init, ReplyInit
<1>2. Nothing \in Packets /\ DOMAIN Nothing.replies = {}
  BY NothingIsPacket DEF Nothing, NoFile
<1>3. Typed(zip, Nothing)
  BY <1>1, NothingIs, TypedParts
<1> QED
  BY <1>1, <1>2, <1>3 DEF KindInv, Typed

LEMMA KindsApartHere == QueueInv /\ KindInv => KindsApart
<1> SUFFICES ASSUME QueueInv, KindInv, NEW p \in {zip, dir}, NEW i \in DOMAIN p.replies,
                    p.replies[i].kind # "bad", NEW m \in InFile(p.files[p.replies[i].name])
             PROVE  KindOf(m) = p.replies[i].kind
  BY DEF KindsApart, KindsMatch
<1>1. p \in Packets /\ Typed(p, p) /\ Sorted(p, p)
  BY PacketsAre DEF KindInv, QueueInv, Fits, InOrder
<1>2. p.replies[i].kind \in Kinds
  BY <1>1, PacketParts DEF Lines
<1>3. CASE p.replies[i].kind \in {"mail", "news"}
  BY <1>1, <1>3 DEF Typed
<1>4. CASE p.replies[i].kind = "other"
  BY <1>1, <1>4, ReplyAssumption DEF Sorted, KindOf
<1> QED
  BY <1>2, <1>3, <1>4 DEF Kinds

\* A file has only messages of the kind REPLIES lists it with, packed or unpacked and
\* however the copies were laid over one another, for any messages, faults and number of
\* QSoups: what vsoup has left of a kind it does not send is never taken for a mail
\* (qsoup.cc 436-547: the name that fits, or the first that is free).  The packets of the
\* newsreader have to name their files by the kind, as QSoup does.
THEOREM FilesSorted ==
  ASSUME ~Overlap, \A p \in Packets0 : InOrder(p) /\ Typed(p, p)
  PROVE  Spec => []KindsApart
<1>1. Init => QueueInv /\ KindInv
  BY QueueInvInit, KindInvInit
<1>2. QueueInv /\ KindInv /\ [Next]_vars => QueueInv' /\ KindInv'
  BY QueueInvNext, KindInvNext
<1> QED
  BY <1>1, <1>2, KindsApartHere, PTL DEF Spec
-----------------------------------------------------------------------------
(* How often a mail is sent.                                                 *)

\* A file has a mail once, and only one name has it.
Once(p) ==
  \A f \in Names : \A i, j \in DOMAIN p.files[f] :
    p.files[f][i] \in Mails /\ p.files[f][i] = p.files[f][j] => i = j

OnePlace(p, q) ==
  \A f, g \in Names : f # g => InFile(p.files[f]) \intersect InFile(q.files[g]) \intersect Mails = {}

Single == Once(dir) /\ Once(zip) /\ OnePlace(dir, dir) /\ OnePlace(dir, zip) /\ OnePlace(zip, zip)

Has(p, m) == \E f \in Names : m \in InFile(p.files[f])

Early == {"check", "lock", "recheck", "unzip", "entry", "append"}

\* A message comes into the packet when QSoup appends it, and only then.
Fresh == \A q \in Queued : qpc[q] \in Early => copies[q] = 0 /\ ~Has(dir, q) /\ ~Has(zip, q)

\* vsoup goes through the file of its line, and is going to remove it.
Reads == spc = "vsoup" /\ vpc \in AtMessage \union {"next", "remove"}

\* The mails that will be sent once if nothing fails from now on: those vsoup has not
\* come to yet, and all of the archive unless it is going to be deleted.
ToSend(m) ==
  \E f \in Names : \E i \in DOMAIN dir.files[f] :
    dir.files[f][i] = m /\ (Reads /\ f = Entry.name => i >= pos)

Waits(m) == ToSend(m) \/ (spc \notin {"check", "vsoup", "delete"} /\ Has(zip, m))

\* The connection hangs at a message without newline only.
HangBare == vpc = "hang" => Message \in bare

\* What SEND has unpacked covers the archive.
Under == spc = "check" => \A f \in Names : InFile(zip.files[f]) \subseteq InFile(dir.files[f])

Counted(m) == copies[m] + (IF Waits(m) THEN 1 ELSE 0) <= 1 + faults

CopyInv == Single /\ Fresh /\ HangBare /\ Under /\ (~readOnly => \A m \in Mails : Counted(m))

LEMMA OnceParts ==
  ASSUME NEW p, NEW q, NEW r, Once(p), Once(q),
         \A f \in Names : r.files[f] \in {p.files[f], q.files[f], NoFile}
  PROVE  Once(r)
<1> SUFFICES ASSUME NEW f \in Names, NEW i \in DOMAIN r.files[f], NEW j \in DOMAIN r.files[f],
                    r.files[f][i] \in Mails, r.files[f][i] = r.files[f][j]
             PROVE  i = j
  BY DEF Once
<1>1. r.files[f] \in {p.files[f], q.files[f]}
  BY DEF NoFile
<1> QED
  BY <1>1 DEF Once

LEMMA PlaceParts ==
  ASSUME NEW p, NEW q, NEW r, NEW s, OnePlace(p, p), OnePlace(p, q), OnePlace(q, q),
         \A f \in Names : r.files[f] \in {p.files[f], q.files[f], NoFile},
         \A f \in Names : s.files[f] \in {p.files[f], q.files[f], NoFile}
  PROVE  OnePlace(r, s)
<1> SUFFICES ASSUME NEW f \in Names, NEW g \in Names, f # g, NEW m \in Mails,
                    m \in InFile(r.files[f]), m \in InFile(s.files[g])
             PROVE  FALSE
  BY DEF OnePlace
<1>1. InFile(NoFile) = {}
  BY DEF InFile, NoFile
<1>2. /\ m \in InFile(p.files[f]) \/ m \in InFile(q.files[f])
      /\ m \in InFile(p.files[g]) \/ m \in InFile(q.files[g])
  BY <1>1
<1> QED
  BY <1>2 DEF OnePlace

LEMMA MixedSingle ==
  ASSUME Single, Mixed
  PROVE  Single'
<1>1. /\ \A f \in Names : dir'.files[f] \in {dir.files[f], zip.files[f], NoFile}
      /\ \A f \in Names : zip'.files[f] \in {dir.files[f], zip.files[f], NoFile}
  BY DEF Mixed
<1>2. Once(dir') /\ Once(zip')
  BY <1>1, OnceParts DEF Single
<1>3. OnePlace(dir', dir')
  BY <1>1, PlaceParts DEF Single
<1>4. OnePlace(dir', zip')
  BY <1>1, PlaceParts DEF Single
<1>5. OnePlace(zip', zip')
  BY <1>1, PlaceParts DEF Single
<1> QED
  BY <1>2, <1>3, <1>4, <1>5 DEF Single

LEMMA MixedHas ==
  ASSUME Mixed, NEW m, Has(dir', m) \/ Has(zip', m)
  PROVE  Has(dir, m) \/ Has(zip, m)
<1>1. PICK f \in Names : m \in InFile(dir'.files[f]) \/ m \in InFile(zip'.files[f])
  BY DEF Has
<1>2. InFile(NoFile) = {}
  BY DEF InFile, NoFile
<1>3. m \in InFile(dir.files[f]) \/ m \in InFile(zip.files[f])
  BY <1>1, <1>2 DEF Mixed
<1> QED
  BY <1>3 DEF Has

LEMMA LineFiles ==
  ASSUME QueueInv, NEW q, AddsLine(q)
  PROVE  dir'.files = dir.files
  BY PacketsAre DEF AddsLine, Packets

\* What is in the files after a message was appended.
LEMMA MessageFiles ==
  ASSUME QueueInv, NEW q \in Queued, AddsMessage(q)
  PROVE  /\ qname[q] \in Names /\ \A f \in Names \ {qname[q]} : dir'.files[f] = dir.files[f]
         /\ dir.files[qname[q]] \in Seq(Messages)
         /\ dir'.files[qname[q]] = Append(dir.files[qname[q]], q)
         /\ InFile(dir'.files[qname[q]]) = InFile(dir.files[qname[q]]) \union {q}
<1>1. /\ dir' = [dir EXCEPT !.files[qname[q]] = Append(@, q)]
      /\ qname[q] \in Names /\ dir \in Packets
  BY PacketsAre DEF AddsMessage, QueueInv, ReplyInv, TypeInv, TypeOK
<1>2. /\ dir.files[qname[q]] \in Seq(Messages)
      /\ dir'.files[qname[q]] = Append(dir.files[qname[q]], q)
      /\ \A f \in Names \ {qname[q]} : dir'.files[f] = dir.files[f]
  BY <1>1 DEF Packets
<1> QED
  BY <1>1, <1>2, InFileAppend, Constants

LEMMA MessageSingle ==
  ASSUME QueueInv, Single, NEW q \in Queued, AddsMessage(q), zip' = zip,
         ~Has(dir, q), ~Has(zip, q)
  PROVE  Single'
<1> DEFINE g == qname[q]
<1>1. /\ g \in Names /\ \A f \in Names \ {g} : dir'.files[f] = dir.files[f]
      /\ dir.files[g] \in Seq(Messages) /\ dir'.files[g] = Append(dir.files[g], q)
      /\ InFile(dir'.files[g]) = InFile(dir.files[g]) \union {q}
  BY MessageFiles
<1>2. \A f \in Names : q \notin InFile(dir.files[f]) /\ q \notin InFile(zip.files[f])
  BY DEF Has
<1> HIDE DEF g
<1>3. Once(dir')
  <2> SUFFICES ASSUME NEW f \in Names, NEW i \in DOMAIN dir'.files[f], NEW j \in DOMAIN dir'.files[f],
                      dir'.files[f][i] \in Mails, dir'.files[f][i] = dir'.files[f][j]
               PROVE  i = j
    BY DEF Once
  <2>1. CASE f # g
    BY <1>1, <2>1 DEF Single, Once
  <2>2. CASE f = g
    <3>1. /\ DOMAIN dir'.files[g] = DOMAIN dir.files[g] \union {Len(dir.files[g]) + 1}
          /\ dir'.files[g][Len(dir.files[g]) + 1] = q
          /\ \A k \in DOMAIN dir.files[g] : dir'.files[g][k] = dir.files[g][k]
      BY <1>1, InFileAppend, Constants
    <3>2. \A k \in DOMAIN dir.files[g] : dir.files[g][k] # q
      BY <1>1, <1>2 DEF InFile
    <3> QED
      BY <1>1, <2>2, <3>1, <3>2 DEF Single, Once
  <2> QED
    BY <2>1, <2>2
<1>4. \A f \in Names : InFile(dir'.files[f]) \subseteq InFile(dir.files[f]) \union (IF f = g THEN {q} ELSE {})
  BY <1>1
<1>5. OnePlace(dir', dir')
  <2> SUFFICES ASSUME NEW f \in Names, NEW h \in Names, f # h, NEW m \in Mails,
                      m \in InFile(dir'.files[f]), m \in InFile(dir'.files[h])
               PROVE  FALSE
    BY DEF OnePlace
  <2>1. m \in InFile(dir.files[f]) \/ (m = q /\ f = g)
    BY <1>4
  <2>2. m \in InFile(dir.files[h]) \/ (m = q /\ h = g)
    BY <1>4
  <2> QED
    BY <1>2, <2>1, <2>2 DEF Single, OnePlace
<1>6. OnePlace(dir', zip)
  <2> SUFFICES ASSUME NEW f \in Names, NEW h \in Names, f # h, NEW m \in Mails,
                      m \in InFile(dir'.files[f]), m \in InFile(zip.files[h])
               PROVE  FALSE
    BY DEF OnePlace
  <2>1. m \in InFile(dir.files[f]) \/ m = q
    BY <1>4
  <2> QED
    BY <1>2, <2>1 DEF Single, OnePlace
<1> QED
  BY <1>3, <1>5, <1>6 DEF Single

\* The message that is accepted is one that was waited for.
LEMMA MessageWaits ==
  ASSUME QueueInv, vpc \in {"text", "body"}
  PROVE  /\ Message \in Messages /\ ToSend(Message) /\ Has(dir, Message)
         /\ spc = "vsoup" /\ Entry.name \in Names /\ pos \in DOMAIN File /\ pos \in Nat
<1>1. /\ line \in DOMAIN dir.replies /\ pos \in DOMAIN File /\ pos \in Nat /\ TypeOK /\ spc = "vsoup"
  BY DEF QueueInv, ReplyInv, TypeInv, TypeOK, ReplyType, Place, Sending, AtMessage, VsoupRuns
<1>2. Entry.name \in Names /\ Message \in Messages
  BY <1>1, Reading
<1>3. Message = dir.files[Entry.name][pos] /\ pos \in DOMAIN dir.files[Entry.name]
  BY <1>1 DEF Message, File
<1> QED
  BY <1>1, <1>2, <1>3 DEF ToSend, Has, InFile

\* Its kind is that of its line, and that of the others of the file.
LEMMA HangsAtArticle ==
  ASSUME QueueInv, KindInv, HangBare, Unterminated \intersect Mails = {}, vpc = "hang",
         NEW m \in InFile(File)
  PROVE  m \notin Mails
<1>1. /\ line \in DOMAIN dir.replies /\ Entry.kind \in {"mail", "news"} /\ pos \in DOMAIN File
      /\ bare \subseteq Unterminated
  BY DEF QueueInv, ReplyInv, TypeInv, TypeOK, ReplyType, Place, Sending, AtMessage
<1>2. \A n \in InFile(File) : KindOf(n) = Entry.kind
  BY <1>1 DEF KindInv, Typed, Entry, File
<1>3. Message \in InFile(File) /\ Message \notin Mails
  BY <1>1 DEF Message, InFile, HangBare
<1>4. KindOf(Message) # "mail"
  BY <1>3 DEF KindOf
<1> QED
  BY <1>2, <1>3, <1>4 DEF KindOf

\* Unless something fails, vsoup makes nobody wait again.
LEMMA VsoupWaits ==
  ASSUME QueueInv, KindInv, HangBare, Unterminated \intersect Mails = {}, ~readOnly,
         SVsoup, faults' = faults, NEW m \in Mails, Waits(m)'
  PROVE  Waits(m)
<1>1. /\ UNCHANGED <<zip, spc>> /\ spc = "vsoup" /\ dir \in Packets
      /\ Begin \/ Steps \/ Sends \/ Ends \/ RemoveFile
  BY VsoupDisjuncts, PacketsAre DEF packetVars
<1>2. PICK f \in Names : \E i \in DOMAIN dir'.files[f] :
        dir'.files[f][i] = m /\ (Reads' /\ f = Entry'.name => i >= pos')
  BY <1>1 DEF Waits, ToSend
<1>3. PICK i \in DOMAIN dir'.files[f] :
        dir'.files[f][i] = m /\ (Reads' /\ f = Entry'.name => i >= pos')
  BY <1>2
<1>4. dir'.files[f] = dir.files[f] /\ (RemoveFile => f # Entry.name)
  <2>1. \/ dir' = dir
        \/ dir' = [dir EXCEPT !.replies = NoFile]
        \/ RemoveFile /\ dir' = [dir EXCEPT !.files[Entry.name] = NoFile]
    BY <1>1, StepsType, SendsType
       DEF QueueInv, ReplyInv, Begin, Ends, Malformed, Close, Abort, RemoveFile
  <2>2. dir'.files[f] # NoFile
    BY <1>3 DEF NoFile
  <2>3. RemoveFile => dir' = [dir EXCEPT !.files[Entry.name] = NoFile]
    BY DEF RemoveFile
  <2> QED
    BY <1>1, <2>1, <2>2, <2>3 DEF Packets
<1>5. i \in Nat /\ pos \in Nat
  BY <1>1, <1>4, PacketParts DEF QueueInv, ReplyInv, TypeInv, TypeOK, ReplyType
<1>6. CASE ~Reads
  BY <1>3, <1>4, <1>6 DEF Waits, ToSend
<1>7. CASE Reads /\ f # Entry.name
  BY <1>3, <1>4, <1>7 DEF Waits, ToSend
<1>8. CASE Reads /\ f = Entry.name
  <2> USE DEF Reads, AtMessage
  <2>1. ~RemoveFile
    BY <1>4, <1>8
  <2>2. CASE Abort
    <3>1. vpc = "hang"
      <4>1. \A n \in Nat : n + 1 # n
        OBVIOUS
      <4> QED
        BY <2>2, <4>1, Constants DEF Abort, Fault, QueueInv, ReplyInv, TypeInv, TypeOK, ReplyType
    <3>2. m \in InFile(File)
      BY <1>3, <1>4, <1>8 DEF InFile, File
    <3> QED
      BY <3>1, <3>2, HangsAtArticle
  <2>3. CASE Sends
    <3>1. faults + 1 # faults
      BY DEF QueueInv, ReplyInv, TypeInv, TypeOK, ReplyType
    <3>2. vpc' = "next" /\ pos' = pos + 1 /\ UNCHANGED <<dir, line>>
      BY <2>3, <3>1 DEF Sends, Accepted, AnswerLost, Posted, PostLost, Fault
    <3>3. i >= pos
      BY <1>1, <1>3, <1>5, <1>8, <3>2 DEF Entry
    <3> QED
      BY <1>3, <1>4, <3>3 DEF Waits, ToSend
  <2>4. CASE Steps
    <3>1. faults + 1 # faults
      BY DEF QueueInv, ReplyInv, TypeInv, TypeOK, ReplyType
    <3>2. NextMessage \/ MailFrom \/ RcptTo \/ Data \/ Unheard("text") \/ Post \/ Unheard("body")
      BY <1>8, <2>4, <3>1
         DEF Steps, SkipLine, ConnectMail, ConnectNews, OpenFile, LinesDone, Refused, AtLine, Fault
    <3>3. /\ UNCHANGED <<dir, line, pos>>
          /\ vpc' \in AtMessage \union {"remove"}
      BY <3>2 DEF NextMessage, MailFrom, RcptTo, Data, Unheard, Post
    <3>4. i >= pos
      BY <1>1, <1>3, <1>8, <3>3 DEF Entry
    <3> QED
      BY <1>3, <1>4, <3>4 DEF Waits, ToSend
  <2> QED
    BY <1>1, <1>8, <2>1, <2>2, <2>3, <2>4 DEF Begin, Ends, Malformed, Close, AtLine
<1> QED
  BY <1>6, <1>7, <1>8

LEMMA IdleWaits ==
  ASSUME NEW m, ~Reads
  PROVE  Waits(m) <=> Has(dir, m) \/ (spc \notin {"check", "vsoup", "delete"} /\ Has(zip, m))
  BY DEF Waits, ToSend, Has, InFile

LEMMA SendWaits ==
  ASSUME QueueInv, Under, SendOwn, faults' = faults, NEW m \in Mails, Waits(m)'
  PROVE  Waits(m)
<1>0. ~SCrash
  BY DEF SCrash, Fault, QueueInv, ReplyInv, TypeInv, TypeOK, ReplyType
<1>1. ~Reads /\ ~Reads'
  BY <1>0 DEF QueueInv, ReplyInv, TypeInv, VsoupRuns, Reads, AtMessage, SGoes, replyVars, SendOwn,
              SStart, SUnzip, SCheck, SReturned, SDelete, SAgain, SZip, SClear
<1>2. Waits(m) <=> Has(dir, m) \/ (spc \notin {"check", "vsoup", "delete"} /\ Has(zip, m))
  BY <1>1, IdleWaits
<1>3. Has(dir', m) \/ (spc' \notin {"check", "vsoup", "delete"} /\ Has(zip', m))
  BY <1>1 DEF Waits, ToSend, Has, InFile
<1>4. CASE spc \notin {"check", "vsoup", "delete"}
  BY <1>2, <1>3, <1>4, SendMixes, MixedHas
<1>5. CASE SCheck
  <2>1. UNCHANGED <<dir, zip>> /\ spc = "check"
    BY <1>5 DEF SCheck, SGoes, replyVars
  <2> QED
    BY <1>2, <1>3, <2>1 DEF Under, Has
<1>6. CASE SReturned
  BY <1>2, <1>3, <1>6 DEF SReturned, SGoes
<1>7. CASE SDelete
  <2>1. dir' = dir /\ zip' = Nothing
    BY <1>7 DEF SDelete, replyVars
  <2>2. ~Has(zip', m)
    BY <2>1, NothingIs DEF Has, InFile, NoFile
  <2> QED
    BY <1>2, <1>3, <2>1, <2>2
<1> QED
  BY <1>0, <1>4, <1>5, <1>6, <1>7 DEF SendOwn, SStart, SUnzip, SAgain, SZip, SClear, SGoes

LEMMA QSoupWaitsOn ==
  ASSUME QueueInv, ~Overlap, NEW q \in Queued, QStep(q) \/ QCrash(q), faults' = faults,
         NEW m \in Mails, Waits(m)', ~(m \in Queued /\ AddsMessage(m))
  PROVE  Waits(m)
<1>1. CASE QCheck(q) \/ QLock(q) \/ QRecheck(q)
  <2>1. UNCHANGED <<dir, zip, spc, vpc, line, pos>>
    BY <1>1 DEF QCheck, QLock, QRecheck, replyVars
  <2> QED
    BY <2>1 DEF Waits, ToSend, Reads, Has, Entry
<1>2. CASE Works(q)
  <2>1. spc = "idle" /\ spc' = "idle" /\ ~Reads /\ ~Reads'
    BY <1>2, QSoupOwns DEF QueueInv, Reads
  <2>2. Has(dir', m) \/ Has(zip', m)
    BY <2>1 DEF Waits, ToSend, Has, InFile
  <2>3. Has(dir, m) \/ Has(zip, m)
    <3>1. CASE Mixed
      BY <2>2, <3>1, MixedHas
    <3>2. CASE zip' = zip /\ AddsLine(q)
      BY <2>2, <3>2, LineFiles DEF Has
    <3>3. CASE zip' = zip /\ AddsMessage(q)
      BY <2>2, <3>3, MessageFiles DEF Has
    <3> QED
      BY <3>1, <3>2, <3>3, QSoupMixes
  <2> QED
    BY <2>1, <2>3, IdleWaits
<1> QED
  BY <1>1, <1>2 DEF QStep, QCrash, QUnzip, QFit, QEntry, QAppend, QZip, QClear, QGoes, QReturn, Works

\* After its acceptance nobody waits for the message.
LEMMA AcceptedWaitsNot ==
  ASSUME QueueInv, Single, SVsoup, Sends, faults' = faults,
         NEW m \in Mails, m = Message
  PROVE  ~Waits(m)'
<1>1. /\ UNCHANGED <<zip, spc, dir, line>> /\ spc = "vsoup" /\ vpc' = "next" /\ pos' = pos + 1
  <2>1. faults + 1 # faults
    BY DEF QueueInv, ReplyInv, TypeInv, TypeOK, ReplyType
  <2> QED
    BY <2>1, VsoupDisjuncts DEF packetVars, Sends, Accepted, AnswerLost, Posted, PostLost, Fault
<1>2. vpc \in {"text", "body"}
  BY SendsType DEF QueueInv, ReplyInv
<1>3. /\ Entry.name \in Names /\ pos \in DOMAIN File /\ pos \in Nat /\ Message = File[pos]
  BY <1>2, MessageWaits DEF Message
<1>4. \A f \in Names : \A i \in DOMAIN dir.files[f] : dir.files[f][i] = Message => f = Entry.name /\ i = pos
  <2> SUFFICES ASSUME NEW f \in Names, NEW i \in DOMAIN dir.files[f], dir.files[f][i] = Message
               PROVE  f = Entry.name /\ i = pos
    OBVIOUS
  <2>1. Message \in InFile(dir.files[f]) /\ Message \in InFile(dir.files[Entry.name])
    BY <1>3 DEF InFile, File
  <2>2. f = Entry.name
    BY <1>3, <2>1 DEF Single, OnePlace
  <2> QED
    BY <1>3, <2>2 DEF Single, Once, File
<1>5. Reads' /\ Entry' = Entry
  BY <1>1 DEF Reads, Entry
<1>6. \A f \in Names : \A i \in DOMAIN dir'.files[f] :
        ~(dir'.files[f][i] = m /\ (Reads' /\ f = Entry'.name => i >= pos'))
  BY <1>1, <1>3, <1>4, <1>5
<1> QED
  BY <1>1, <1>6 DEF Waits, ToSend

\* What a step does to the count of a mail.
LEMMA CopiesStep ==
  ASSUME QueueInv, ~Overlap, Next
  PROVE  \/ copies' = copies
         \/ /\ SVsoup /\ Sends
            /\ copies' = [copies EXCEPT ![Message] = IF @ < MaxCopies THEN @ + 1 ELSE @]
<1>1. CASE SVsoup
  <2>1. Begin \/ Steps \/ Sends \/ Ends \/ RemoveFile
    BY <1>1, VsoupDisjuncts
  <2>2. CASE Begin \/ Steps \/ Ends \/ RemoveFile
    BY <2>2, StepsType, EndsType DEF QueueInv, ReplyInv, Begin, serverVars
  <2>3. CASE Sends
    BY <1>1, <2>3 DEF Sends, Accepted, AnswerLost, Posted, PostLost, Transmit, Fail
  <2> QED
    BY <2>1, <2>2, <2>3
<1>2. CASE SendOwn
  BY <1>2 DEF replyVars, serverVars, SendOwn, SStart, SUnzip, SCheck, SReturned, SDelete, SAgain,
              SZip, SClear, SCrash, Exit
<1>3. ASSUME NEW q \in Queued, QStep(q) \/ QCrash(q) PROVE copies' = copies
  BY <1>3 DEF replyVars, serverVars, QStep, QCrash, QCheck, QLock, QRecheck, QUnzip, QFit, QEntry, QAppend,
              QZip, QClear
<1> QED
  BY <1>1, <1>2, <1>3, NextCases

LEMMA FaultsStep ==
  ASSUME QueueInv, Next
  PROVE  faults' = faults \/ faults' = faults + 1
<1>1. CASE SVsoup
  BY <1>1, VsoupDisjuncts
     DEF Begin, Steps, SkipLine, ConnectMail, ConnectNews, OpenFile, NextMessage, MailFrom, RcptTo, Data,
         Unheard, Post, LinesDone, Refused, Sends, Accepted, AnswerLost, Posted, PostLost, Ends,
         Malformed, Close, Abort, RemoveFile, Fault
<1>2. CASE SendOwn
  BY <1>2 DEF replyVars, SendOwn, SStart, SUnzip, SCheck, SReturned, SDelete, SAgain, SZip, SClear,
              SCrash, Fault
<1>3. ASSUME NEW q \in Queued, QStep(q) \/ QCrash(q) PROVE faults' = faults \/ faults' = faults + 1
  BY <1>3 DEF replyVars, Fault, QStep, QCrash, QCheck, QLock, QRecheck, QUnzip, QFit, QEntry, QAppend,
              QZip, QClear
<1> QED
  BY <1>1, <1>2, <1>3, NextCases

\* When QSoup appends a message nobody was sent it.
LEMMA AppendedFresh ==
  ASSUME QueueInv, Fresh, NEW q \in Queued, AddsMessage(q)
  PROVE  copies[q] = 0 /\ ~Has(dir, q) /\ ~Has(zip, q)
  BY DEF Fresh, AddsMessage, Early

LEMMA CountedNext ==
  ASSUME QueueInv, KindInv, ~Overlap, Unterminated \intersect Mails = {}, Next,
         Single, Fresh, HangBare, Under, ~readOnly,
         NEW m \in Mails, Counted(m)
  PROVE  Counted(m)'
<1>0. /\ copies[m] \in Nat /\ faults \in Nat /\ copies \in [Messages -> 0 .. MaxCopies]
      /\ m \in Messages /\ copies'[m] \in Nat
  <2>1. TypeInv /\ TypeInv'
    BY TypeInvNext DEF QueueInv, ReplyInv
  <2> QED
    BY <2>1, Constants DEF TypeInv, TypeOK, ReplyType, Messages
<1>1. copies'[m] = copies[m] \/ (SVsoup /\ Sends /\ m = Message /\ Waits(m) /\ copies'[m] <= copies[m] + 1)
  <2>1. CASE copies' = copies
    BY <2>1
  <2>2. CASE SVsoup /\ Sends /\ copies' = [copies EXCEPT ![Message] = IF @ < MaxCopies THEN @ + 1 ELSE @]
    <3>1. vpc \in {"text", "body"}
      BY <2>2, SendsType DEF QueueInv, ReplyInv
    <3>2. Message \in Messages /\ Waits(Message)
      BY <3>1, MessageWaits DEF Waits
    <3> QED
      BY <1>0, <2>2, <3>2
  <2> QED
    BY <2>1, <2>2, CopiesStep
<1>2. CASE faults' = faults + 1
  <2>1. copies'[m] <= 1 + faults
    BY <1>0, <1>1 DEF Counted
  <2> QED
    BY <1>0, <1>2, <2>1 DEF Counted
<1>3. CASE faults' = faults /\ copies'[m] # copies[m]
  <2>1. ~Waits(m)'
    BY <1>1, <1>3, AcceptedWaitsNot
  <2> QED
    BY <1>0, <1>1, <1>3, <2>1 DEF Counted
<1>4. CASE faults' = faults /\ copies'[m] = copies[m] /\ m \in Queued /\ AddsMessage(m)
  <2>1. copies[m] = 0
    BY <1>4, AppendedFresh
  <2> QED
    BY <1>0, <1>4, <2>1 DEF Counted
<1>5. CASE faults' = faults /\ copies'[m] = copies[m] /\ ~(m \in Queued /\ AddsMessage(m))
  <2>1. Waits(m)' => Waits(m)
    BY <1>5, VsoupWaits, SendWaits, QSoupWaitsOn, NextCases
  <2> QED
    BY <1>0, <1>5, <2>1 DEF Counted
<1> QED
  BY <1>2, <1>3, <1>4, <1>5, FaultsStep

LEMMA FreshNext ==
  ASSUME QueueInv, ~Overlap, Next, Fresh
  PROVE  Fresh'
<1> SUFFICES ASSUME NEW q \in Queued, qpc'[q] \in Early
             PROVE  copies'[q] = 0 /\ ~Has(dir', q) /\ ~Has(zip', q)
  BY DEF Fresh, Has
<1>0. qpc \in [Queued -> QPcs] /\ q \in Messages /\ copies \in [Messages -> 0 .. MaxCopies]
  BY Constants DEF QueueInv, ReplyInv, TypeInv, TypeOK, ReplyType
<1>1. qpc[q] \in Early
  <2>1. CASE SVsoup \/ SendOwn
    BY <2>1, VsoupDisjuncts DEF packetVars, SendOwn, SStart, SUnzip, SCheck, SReturned, SDelete, SAgain,
                                SZip, SClear, SCrash
  <2>2. ASSUME NEW r \in Queued, QStep(r) \/ QCrash(r), r # q PROVE qpc'[q] = qpc[q]
    BY <1>0, <2>2 DEF QGoes, QReturn, QStep, QCrash, QCheck, QLock, QRecheck, QUnzip, QFit, QEntry, QAppend,
                      QZip, QClear
  <2>3. CASE QStep(q) \/ QCrash(q)
    BY <1>0, <2>3 DEF Early, QGoes, QReturn, QStep, QCrash, QCheck, QLock, QRecheck, QUnzip, QFit, QEntry,
                      QAppend, QZip, QClear
  <2> QED
    BY <2>1, <2>2, <2>3, NextCases
<1>2. copies[q] = 0 /\ ~Has(dir, q) /\ ~Has(zip, q)
  BY <1>1 DEF Fresh
<1>3. copies'[q] = 0
  <2>1. CASE SVsoup /\ Sends
    <3>1. vpc \in {"text", "body"}
      BY <2>1, SendsType DEF QueueInv, ReplyInv
    <3>2. Message # q
      BY <1>2, <3>1, MessageWaits
    <3> QED
      BY <1>0, <1>2, <3>2, CopiesStep
  <2> QED
    BY <1>2, <2>1, CopiesStep
<1>4. Mixed \/ \E r \in Queued : zip' = zip /\ (AddsLine(r) \/ AddsMessage(r))
  BY VsoupMixes, SendMixes, QSoupMixes, NextCases
<1>5. CASE Mixed
  BY <1>2, <1>3, <1>5, MixedHas
<1>6. ASSUME NEW r \in Queued, zip' = zip, AddsLine(r) PROVE ~Has(dir', q) /\ ~Has(zip', q)
  BY <1>2, <1>6, LineFiles DEF Has
<1>7. ASSUME NEW r \in Queued, zip' = zip, AddsMessage(r) PROVE ~Has(dir', q) /\ ~Has(zip', q)
  <2>1. r # q
    BY <1>0, <1>7 DEF AddsMessage, Early
  <2>2. \A f \in Names : q \notin InFile(dir'.files[f])
    <3> SUFFICES ASSUME NEW f \in Names PROVE q \notin InFile(dir'.files[f])
      OBVIOUS
    <3>1. CASE f = qname[r]
      BY <1>2, <1>7, <2>1, <3>1, MessageFiles DEF Has
    <3>2. CASE f # qname[r]
      BY <1>2, <1>7, <3>2, MessageFiles DEF Has
    <3> QED
      BY <3>1, <3>2
  <2> QED
    BY <1>2, <1>7, <2>2 DEF Has
<1> QED
  BY <1>3, <1>4, <1>5, <1>6, <1>7

LEMMA SingleNext ==
  ASSUME QueueInv, ~Overlap, Next, Single, Fresh
  PROVE  Single'
<1>1. Mixed \/ \E q \in Queued : zip' = zip /\ (AddsLine(q) \/ AddsMessage(q))
  BY VsoupMixes, SendMixes, QSoupMixes, NextCases
<1>2. CASE Mixed
  BY <1>2, MixedSingle
<1>3. ASSUME NEW q \in Queued, zip' = zip, AddsLine(q) PROVE Single'
  BY <1>3, LineFiles DEF Single, Once, OnePlace
<1>4. ASSUME NEW q \in Queued, zip' = zip, AddsMessage(q) PROVE Single'
  BY <1>4, MessageSingle, AppendedFresh
<1> QED
  BY <1>1, <1>2, <1>3, <1>4

LEMMA HangNext ==
  ASSUME QueueInv, ~Overlap, Next, HangBare
  PROVE  HangBare'
<1>1. CASE SVsoup
  <2>1. \A at : Unheard(at) => Message \in bare /\ UNCHANGED <<bare, dir, line, pos>>
    BY DEF Unheard
  <2>2. (\E at : Unheard(at)) \/ vpc' # "hang"
    BY <1>1, VsoupDisjuncts
       DEF Begin, Steps, SkipLine, ConnectMail, ConnectNews, OpenFile, NextMessage, MailFrom, RcptTo, Data,
           Post, LinesDone, Refused, Sends, Accepted, AnswerLost, Posted, PostLost, Ends, Malformed, Close,
           Abort, RemoveFile, Exit, NextLine, Fail
  <2> QED
    BY <2>1, <2>2 DEF HangBare, Message, File, Entry
<1>2. CASE SendOwn
  <2>1. vpc' # "hang"
    BY <1>2 DEF QueueInv, ReplyInv, TypeInv, VsoupRuns, replyVars, SGoes, Exit, SendOwn, SStart, SUnzip,
                SCheck, SReturned, SDelete, SAgain, SZip, SClear, SCrash
  <2> QED
    BY <2>1 DEF HangBare
<1>3. ASSUME NEW q \in Queued, QStep(q) \/ QCrash(q) PROVE HangBare'
  <2>1. CASE Works(q)
    BY <1>3, <2>1, QSoupOwns DEF QueueInv, HangBare
  <2>2. CASE QCheck(q) \/ QLock(q) \/ QRecheck(q)
    <3>1. UNCHANGED <<vpc, bare, dir, line, pos>>
      BY <2>2 DEF QCheck, QLock, QRecheck, replyVars
    <3> QED
      BY <3>1 DEF HangBare, Message, File, Entry
  <2> QED
    BY <1>3, <2>1, <2>2
       DEF QStep, QCrash, QUnzip, QFit, QEntry, QAppend, QZip, QClear, QGoes, QReturn, Works
<1> QED
  BY <1>1, <1>2, <1>3, NextCases

LEMMA UnderNext ==
  ASSUME QueueInv, ~Overlap, Next, Under
  PROVE  Under'
<1>1. CASE SVsoup
  BY <1>1, VsoupDisjuncts DEF packetVars, Under
<1>2. CASE SendOwn
  <2>1. CASE SUnzip
    <3>1. Covered(zip, Overlay(dir, zip))
      BY PacketsAre, OverlayCovers
    <3> QED
      BY <2>1, <3>1 DEF SUnzip, Covered, Under
  <2> QED
    BY <1>2, <2>1 DEF Under, SGoes, SendOwn, SStart, SCheck, SReturned, SDelete, SAgain, SZip, SClear, SCrash
<1>3. ASSUME NEW q \in Queued, QStep(q) \/ QCrash(q) PROVE Under'
  <2>1. CASE Works(q)
    BY <1>3, <2>1, QSoupOwns DEF QueueInv, Under
  <2>2. CASE QCheck(q) \/ QLock(q) \/ QRecheck(q)
    BY <2>2 DEF QCheck, QLock, QRecheck, replyVars, Under
  <2> QED
    BY <1>3, <2>1, <2>2
       DEF QStep, QCrash, QUnzip, QFit, QEntry, QAppend, QZip, QClear, QGoes, QReturn, Works
<1> QED
  BY <1>1, <1>2, <1>3, NextCases

LEMMA CopyInvNext ==
  ~Overlap /\ Unterminated \intersect Mails = {} /\ QueueInv /\ KindInv /\ CopyInv /\ [Next]_vars => CopyInv'
<1> SUFFICES ASSUME ~Overlap, Unterminated \intersect Mails = {}, QueueInv, KindInv, CopyInv, [Next]_vars
             PROVE  CopyInv'
  OBVIOUS
<1>1. CASE Next
  <2>1. Single' /\ Fresh' /\ HangBare' /\ Under'
    BY <1>1, SingleNext, FreshNext, HangNext, UnderNext DEF CopyInv
  <2>2. readOnly' = readOnly
    <3>1. CASE SVsoup
      BY <3>1, VsoupDisjuncts, StepsType, SendsType, EndsType DEF QueueInv, ReplyInv, Begin
    <3>2. CASE SendOwn
      BY <3>2 DEF replyVars, Exit, SendOwn, SStart, SUnzip, SCheck, SReturned, SDelete, SAgain, SZip, SClear,
                  SCrash
    <3>3. ASSUME NEW q \in Queued, QStep(q) \/ QCrash(q) PROVE readOnly' = readOnly
      BY <3>3 DEF replyVars, QStep, QCrash, QCheck, QLock, QRecheck, QUnzip, QFit, QEntry, QAppend, QZip, QClear
    <3> QED
      BY <1>1, <3>1, <3>2, <3>3, NextCases
  <2>3. ASSUME ~readOnly, NEW m \in Mails PROVE Counted(m)'
    BY <1>1, <2>3, CountedNext DEF CopyInv
  <2> QED
    BY <2>1, <2>2, <2>3 DEF CopyInv
<1>2. CASE UNCHANGED vars
  BY <1>2 DEF vars, replyVars, packetVars, serverVars, CopyInv, Single, Once, OnePlace, Fresh, Has,
              HangBare, Under, Counted, Waits, ToSend, Reads, Message, File, Entry
<1> QED
  BY <1>1, <1>2

\* A packet of the newsreader has a mail once, and none that QSoup is going to queue.
OneEach(p) == Once(p) /\ OnePlace(p, p) /\ \A q \in Queued : ~Has(p, q)

LEMMA CopyInvInit == Init /\ (\A p \in Packets0 : OneEach(p)) => CopyInv
<1> SUFFICES ASSUME Init, \A p \in Packets0 : OneEach(p) PROVE CopyInv
  OBVIOUS
<1>1. /\ zip \in Packets0 /\ dir = Nothing /\ spc = "idle" /\ vpc = "idle" /\ faults = 0
      /\ \A m \in Messages : copies[m] = 0
  BY DEF Init, ReplyInit
<1>2. \A f \in Names : dir.files[f] = NoFile /\ InFile(dir.files[f]) = {}
  BY <1>1, NothingIs DEF InFile, NoFile
<1>3. Single
  <2>1. DOMAIN NoFile = {}
    BY DEF NoFile
  <2>2. Once(dir)
    BY <1>2, <2>1 DEF Once
  <2>3. OnePlace(dir, dir) /\ OnePlace(dir, zip)
    BY <1>2 DEF OnePlace
  <2> QED
    BY <1>1, <2>2, <2>3 DEF OneEach, Single
<1>4. Fresh
  BY <1>1, <1>2, Constants DEF OneEach, Fresh, Has
<1>5. \A m \in Mails : Counted(m)
  BY <1>1 DEF Counted, Messages
<1> QED
  BY <1>1, <1>3, <1>4, <1>5 DEF CopyInv, HangBare, Under

\* A mail arrives once, and again only as often as something fails, for any messages,
\* packets, crashes and number of QSoups: what vsoup has sent it does not find again,
\* neither in the file, nor in the archive, nor when the packet is laid over what was left
\* (reply.cc 268-412, yarnio.cmd 334-370, qsoup.cc 405-570).  The mails have to end with
\* a newline, since one that does not stops vsoup without any failure.
THEOREM MailsSentOnce ==
  ASSUME ~Overlap, Unterminated \intersect Mails = {},
         \A p \in Packets0 : InOrder(p) /\ Typed(p, p) /\ OneEach(p)
  PROVE  Spec => []CopiesBounded
<1>1. Init => QueueInv /\ KindInv /\ CopyInv
  BY QueueInvInit, KindInvInit, CopyInvInit
<1>2. QueueInv /\ KindInv /\ CopyInv /\ [Next]_vars => QueueInv' /\ KindInv' /\ CopyInv'
  BY QueueInvNext, KindInvNext, CopyInvNext
<1>3. QueueInv /\ CopyInv => CopiesBounded
  <2> SUFFICES ASSUME QueueInv, CopyInv, ~readOnly, NEW m \in Mails PROVE copies[m] <= 1 + faults
    BY DEF CopiesBounded
  <2>1. copies[m] \in Nat /\ faults \in Nat
    BY DEF QueueInv, ReplyInv, TypeInv, TypeOK, ReplyType, Messages
  <2> QED
    BY <2>1 DEF CopyInv, Counted
<1> QED
  BY <1>1, <1>2, <1>3, PTL DEF Spec
=============================================================================
