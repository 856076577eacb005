-------------------------- MODULE Pop3FetchProofs --------------------------
(***************************************************************************)
(* Theorems about Pop3Fetch, for any number of mails, pieces of a mail,    *)
(* faults, aborts and runs: its types, that no mail is lost, that finished *)
(* messages stay, what the success of getMail means, and how often a mail  *)
(* is received with -D.  All but the first hold as long as no signal       *)
(* arrives between the two steps of msgStart.                              *)
(***************************************************************************)
EXTENDS Pop3Fetch, TLAPS, FiniteSetTheorems, SequenceTheorems

MailFrame == Frame(Mails)
Last      == Len(msgFile)
Copying   == {"write", "stop", "stopped"}
AtMail    == {"read", "start", "head", "dele", "next"} \union Copying

\* The counters of getMail and the numbers of the server fit together: with -D
\* the loop is always at the first mail of the present session.
Numbers ==
  /\ pc = "connect" => count = 1 /\ msgNumber = 1
  /\ pc \in AtMail => count <= msgTotal
  /\ pc \in AtMail \union {"loop"} /\ count <= msgTotal =>
       IF forceMailDelete THEN msgNumber = 1 /\ 1 \in DOMAIN view
       ELSE msgNumber = count /\ 1 .. msgTotal \subseteq DOMAIN view
  /\ pc = "reconnect" => forceMailDelete /\ count < msgTotal

\* The message being copied is the last one in the file, and msgLenPos points at it.
Framing ==
  /\ msgStarted <=> pc \in Copying \union {"head"}
  /\ pc \in Copying => Last > 0 /\ msgLenPos = Last - 1

IInv == TypeOK /\ Numbers /\ Framing

\* The mails whole in the part of the file that is complete.
InFile == {msgFile[i].msg : i \in {k \in 1 .. Completed : IsWhole(msgFile[k])}}

\* The mail being copied is the one that will be marked by DELE.
Copied ==
  /\ pc \in Copying => msgFile[Last].msg = view[msgNumber]
  /\ pc = "stopped" => msgFile[Last].len = msgFile[Last].body
  /\ pc \in {"dele", "next"} => view[msgNumber] \in InFile

\* A mail is marked by DELE only when it is whole in the file.
Marked ==
  /\ \A n \in dele : view[n] \in InFile
  /\ pc \in {"connect", "reconnect", "finish", "ended"} => dele = {}

NothingLost == 1 .. arrived \subseteq mailbox \union MailsOf(imported) \union InFile

MailInv == IInv /\ Copied /\ Marked /\ NothingLost
-----------------------------------------------------------------------------
(* The numbers of the server and the frames of the file.                     *)

LEMMA Constants == NumMails \in Nat /\ MaxLate \in Nat /\ Chunks \in Nat \ {0}
  BY Pop3Assumption, ChunksAssumption

\* After a login the mails have the numbers from 1 to the size of the mailbox.
LEMMA LoginEffect ==
  ASSUME TypeOK, Login
  PROVE  /\ Cardinality(mailbox) \in 0 .. NumMails + MaxLate
         /\ mailbox # {} => Cardinality(mailbox) > 0
         /\ view' \in Seq(Mails) /\ DOMAIN view' = 1 .. Cardinality(mailbox)
         /\ \A n \in DOMAIN view' : view'[n] \in mailbox
<1>1. /\ NumMails + MaxLate \in Nat /\ IsFiniteSet(1 .. NumMails + MaxLate)
      /\ Cardinality(1 .. NumMails + MaxLate) = NumMails + MaxLate
  BY Constants, FS_Interval
<1>2. mailbox \in SUBSET Mails
  BY Constants DEF TypeOK, Mails
<1>3. /\ Cardinality(mailbox) \in Nat
      /\ Cardinality(mailbox) <= NumMails + MaxLate
      /\ mailbox # {} => Cardinality(mailbox) # 0
  <2>1. IsFiniteSet(mailbox) /\ Cardinality(mailbox) <= Cardinality(Mails)
    BY <1>1, <1>2, FS_Subset DEF Mails
  <2> QED
    BY <1>1, <2>1, FS_CardinalityType, FS_EmptySet DEF Mails
<1>4. view' \in [1 .. Cardinality(mailbox) -> mailbox]
  BY DEF Login, Numberings
<1>5. view' \in Seq(mailbox)
  BY <1>3, <1>4
<1> QED
  BY <1>1, <1>2, <1>3, <1>4, <1>5, SeqMonotonic

LEMMA ViewEffect ==
  ASSUME TypeOK
  PROVE  /\ Len(view) \in Nat /\ DOMAIN view = 1 .. Len(view)
         /\ \A n \in DOMAIN view : view[n] \in Mails
  BY LenProperties, ElementOfSeq DEF TypeOK

\* What the steps of msgStart, msgWrite and msgStop do to the file.
LEMMA FileType ==
  ASSUME AreasType(Mails)
  PROVE  /\ Last \in Nat /\ DOMAIN msgFile = 1 .. Last
         /\ \A i \in 1 .. Last : msgFile[i] \in MailFrame
         /\ msgStarted \in BOOLEAN /\ msgLenPos \in -1 .. Last
  BY LenProperties, ElementOfSeq DEF AreasType, Last, MailFrame

LEMMA StartHeadEffect ==
  ASSUME AreasType(Mails), NEW m \in Mails, StartHead(m)
  PROVE  /\ AreasType(Mails)'
         /\ Last' = Last + 1 /\ msgLenPos' = Last /\ UNCHANGED msgStarted
         /\ \A i \in 1 .. Last : msgFile'[i] = msgFile[i]
         /\ msgFile'[Last + 1] = [msg |-> m, body |-> 0, len |-> 0]
<1> DEFINE f == [msg |-> m, body |-> 0, len |-> 0]
<1>1. f \in MailFrame
  BY Constants DEF MailFrame, Frame
<1>2. msgFile \in Seq(MailFrame)
  BY DEF AreasType, MailFrame
<1>3. /\ Append(msgFile, f) \in Seq(MailFrame)
      /\ Len(Append(msgFile, f)) = Last + 1
      /\ \A i \in 1 .. Last : Append(msgFile, f)[i] = msgFile[i]
      /\ Append(msgFile, f)[Last + 1] = f
  BY <1>1, <1>2, AppendProperties DEF Last
<1>4. msgFile' = Append(msgFile, f) /\ msgLenPos' = Last /\ UNCHANGED msgStarted
  BY DEF StartHead, Last
<1> HIDE DEF f
<1>5. msgLenPos' \in -1 .. Last'
  BY <1>3, <1>4, FileType DEF Last
<1>6. Last' = Last + 1
  BY <1>3, <1>4 DEF Last
<1>7. AreasType(Mails)'
  BY <1>3, <1>4, <1>5, FileType DEF AreasType, MailFrame, Last
<1> QED
  BY <1>3, <1>4, <1>6, <1>7 DEF f

\* A change to the last frame leaves the others alone.
LEMMA ChangeLast ==
  ASSUME AreasType(Mails), Last > 0, NEW f \in MailFrame,
         msgFile' = [msgFile EXCEPT ![Last] = f], UNCHANGED <<msgStarted, msgLenPos>>
  PROVE  /\ AreasType(Mails)' /\ Last' = Last
         /\ \A i \in 1 .. Last - 1 : msgFile'[i] = msgFile[i]
         /\ msgFile'[Last] = f
<1>1. msgFile \in Seq(MailFrame) /\ Last \in 1 .. Len(msgFile)
  BY FileType DEF AreasType, MailFrame, Last
<1>2. /\ msgFile' \in Seq(MailFrame) /\ Len(msgFile') = Last
      /\ \A i \in 1 .. Last : msgFile'[i] = IF i = Last THEN f ELSE msgFile[i]
  BY <1>1, ExceptSeq DEF Last
<1>3. AreasType(Mails)'
  BY <1>2, FileType DEF AreasType, MailFrame, Last
<1>4. Last' = Last
  BY <1>2 DEF Last
<1>5. Last \in Int
  BY FileType
<1> QED
  BY <1>2, <1>3, <1>4, <1>5

LEMMA MsgWriteEffect ==
  ASSUME AreasType(Mails), Last > 0, ~ BodyWritten, MsgWrite
  PROVE  /\ AreasType(Mails)' /\ Last' = Last /\ UNCHANGED <<msgStarted, msgLenPos>>
         /\ \A i \in 1 .. Last - 1 : msgFile'[i] = msgFile[i]
         /\ msgFile'[Last].msg = msgFile[Last].msg
<1> DEFINE f == [msgFile[Last] EXCEPT !.body = @ + 1]
<1>1. msgFile[Last] \in MailFrame
  BY FileType
<1>2. msgFile[Last].body < Chunks
  BY <1>1, Constants DEF BodyWritten, MailFrame, Frame, Last
<1>3. f \in MailFrame /\ f.msg = msgFile[Last].msg
  BY <1>1, <1>2, Constants DEF MailFrame, Frame
<1>4. msgFile' = [msgFile EXCEPT ![Last] = f] /\ UNCHANGED <<msgStarted, msgLenPos>>
  BY DEF MsgWrite, Last
<1> HIDE DEF f
<1> QED
  BY <1>3, <1>4, ChangeLast

LEMMA StopLengthEffect ==
  ASSUME AreasType(Mails), Last > 0, msgLenPos = Last - 1, StopLength
  PROVE  /\ AreasType(Mails)' /\ Last' = Last /\ UNCHANGED <<msgStarted, msgLenPos>>
         /\ \A i \in 1 .. Last - 1 : msgFile'[i] = msgFile[i]
         /\ msgFile'[Last].msg = msgFile[Last].msg
         /\ msgFile'[Last].body = msgFile[Last].body
         /\ msgFile'[Last].len = msgFile[Last].body
<1> DEFINE f == [msgFile[Last] EXCEPT !.len = msgFile[Last].body]
<1>1. msgFile[Last] \in MailFrame /\ msgLenPos + 1 = Last
  BY FileType
<1>2. /\ f \in MailFrame /\ f.msg = msgFile[Last].msg
      /\ f.body = msgFile[Last].body /\ f.len = msgFile[Last].body
  BY <1>1, Constants DEF MailFrame, Frame
<1>3. msgFile' = [msgFile EXCEPT ![Last] = f] /\ UNCHANGED <<msgStarted, msgLenPos>>
  BY <1>1 DEF StopLength
<1> HIDE DEF f
<1> QED
  BY <1>2, <1>3, ChangeLast

\* closeAll keeps the messages before msgLenPos, or all of them.
LEMMA CloseAllEffect ==
  ASSUME AreasType(Mails), CloseAll
  PROVE  /\ AreasType(Mails)' /\ ~ msgStarted'
         /\ msgStarted /\ msgLenPos >= 0 =>
              /\ Last' = msgLenPos
              /\ \A i \in 1 .. msgLenPos : msgFile'[i] = msgFile[i]
         /\ ~ (msgStarted /\ msgLenPos >= 0) => UNCHANGED msgFile
<1>1. UNCHANGED msgLenPos /\ msgStarted' = FALSE
  BY DEF CloseAll
<1>2. CASE msgStarted /\ msgLenPos >= 0
  <2>1. msgFile' = SubSeq(msgFile, 1, msgLenPos)
    BY <1>2 DEF CloseAll
  <2>2. /\ msgLenPos \in Int /\ 1 \in Int
        /\ \A i \in 1 .. msgLenPos : msgFile[i] \in MailFrame
    BY FileType
  <2>3. /\ msgFile' \in Seq(MailFrame)
        /\ Len(msgFile') = IF 1 <= msgLenPos THEN msgLenPos - 1 + 1 ELSE 0
        /\ \A i \in 1 .. msgLenPos - 1 + 1 : msgFile'[i] = msgFile[1 + i - 1]
    BY <2>1, <2>2, SubSeqProperties
  <2>4. /\ Last' = msgLenPos
        /\ \A i \in 1 .. msgLenPos : msgFile'[i] = msgFile[i]
    BY <1>2, <2>2, <2>3 DEF Last
  <2>5. AreasType(Mails)'
    <3>1. msgFile' \in Seq(Frame(Mails))
      BY <2>3 DEF MailFrame
    <3>2. msgLenPos' \in -1 .. Len(msgFile')
      BY <1>1, <1>2, <2>2, <2>4 DEF Last
    <3> QED
      BY <1>1, <3>1, <3>2 DEF AreasType
  <2> QED
    BY <1>1, <1>2, <2>4, <2>5
<1>3. CASE ~ (msgStarted /\ msgLenPos >= 0)
  BY <1>1, <1>3 DEF CloseAll, AreasType
<1> QED
  BY <1>2, <1>3
-----------------------------------------------------------------------------
(* The types, the counters and the frames.                                   *)

LEMMA InvInit == Init => IInv
<1> SUFFICES ASSUME Init PROVE IInv
  OBVIOUS
<1>1. AreasType(Mails) /\ ~ msgStarted
  <2>1. msgStarted = FALSE /\ msgLenPos = -1
    BY DEF Init, AreasInit
  <2>2. msgFile \in Seq(Frame(Mails)) /\ Len(msgFile) = 0
    BY EmptySeq DEF Init, AreasInit
  <2>3. msgLenPos \in -1 .. Len(msgFile)
    BY <2>1, <2>2
  <2>4. AreasType(Mails)
    BY <2>1, <2>2, <2>3 DEF AreasType
  <2> QED
    BY <2>1, <2>4
<1>2. /\ view \in Seq(Mails) /\ dele \subseteq DOMAIN view
      /\ MailsOf(imported) \subseteq Mails
  BY EmptySeq DEF Init, MailsOf
<1>3. TypeOK
  <2>1. /\ msgTotal \in 0 .. NumMails + MaxLate /\ count \in 1 .. NumMails + MaxLate + 1
        /\ msgNumber \in 1 .. count /\ arrived \in NumMails .. NumMails + MaxLate
    BY Constants DEF Init
  <2> QED
    BY <1>1, <1>2, <2>1 DEF Init, TypeOK, Pcs
<1>4. Numbers /\ Framing
  BY <1>1 DEF Init, Numbers, Framing, AtMail, Copying
<1> QED
  BY <1>3, <1>4 DEF IInv

LEMMA AreasStay ==
  ASSUME AreasType(Mails), UNCHANGED areasVars
  PROVE  AreasType(Mails)'
  BY DEF AreasType, areasVars

\* The server's answers to QUIT and to a lost connection.
LEMMA SessionEnd ==
  ASSUME TypeOK, Expunge \/ Drop
  PROVE  mailbox' \subseteq mailbox /\ view' = << >> /\ view' \in Seq(Mails) /\ dele' = {}
<1>1. view' = << >> /\ dele' = {} /\ mailbox' \subseteq mailbox
  BY DEF Expunge, Drop
<1> QED
  BY <1>1, EmptySeq

\* The main steps leave these alone.
Others == <<options, arrived, aborts, writeErrors, runs>>

LEMMA InvProceed ==
  ASSUME IInv, Proceed, UNCHANGED Others
  PROVE  IInv'
<1>1. UNCHANGED <<options, arrived, runs>> /\ TypeOK /\ Numbers /\ Framing
  BY DEF Others, IInv
<1> USE <1>1 DEF options, localVars, serverVars, historyVars
<1>2. CASE Retr
  BY <1>2 DEF IInv, Retr, TypeOK, AreasType, areasVars, Numbers, Framing, Pcs, AtMail,
    Copying, Last
<1>3. CASE LoopEnd
  BY <1>3 DEF IInv, LoopEnd, TypeOK, AreasType, areasVars, Numbers, Framing, Pcs, AtMail,
    Copying, Last
<1>4. CASE ReadMsg
  BY <1>4 DEF IInv, ReadMsg, TypeOK, AreasType, areasVars, Numbers, Framing, Pcs, AtMail,
    Copying, Last
<1>5. CASE WriteEnd
  BY <1>5 DEF IInv, WriteEnd, TypeOK, AreasType, areasVars, Numbers, Framing, Pcs, AtMail,
    Copying, Last
<1>6. CASE Dele
  <2>1. UNCHANGED areasVars
    BY <1>6 DEF Dele
  <2>2. AreasType(Mails)'
    BY <2>1, AreasStay DEF TypeOK
  <2>3. TypeOK'
    BY <1>6, <2>2 DEF Dele, TypeOK, Pcs, Numbers, AtMail, Copying
  <2>4. Numbers'
    BY <1>6 DEF Dele, TypeOK, Numbers, AtMail, Copying
  <2>5. Framing'
    BY <1>6, <2>1 DEF Dele, areasVars, Framing, Copying, Last
  <2> QED
    BY <2>3, <2>4, <2>5 DEF IInv
<1>7. CASE NextMail
  <2>1. UNCHANGED areasVars
    BY <1>7 DEF NextMail, MustRelogin
  <2>2. AreasType(Mails)'
    BY <2>1, AreasStay DEF TypeOK
  <2>3. TypeOK'
    BY <1>7, <2>2, Constants DEF NextMail, TypeOK, Pcs, Numbers, AtMail, Copying, MustRelogin
  <2>4. Numbers'
    BY <1>7, Constants DEF NextMail, TypeOK, Numbers, AtMail, Copying, MustRelogin
  <2>5. Framing'
    BY <1>7, <2>1 DEF NextMail, areasVars, Framing, Copying, Last, MustRelogin
  <2> QED
    BY <2>3, <2>4, <2>5 DEF IInv
<1>8. CASE Connect
  <2>1. UNCHANGED areasVars /\ AreasType(Mails)'
    BY <1>8, AreasStay DEF Connect, TypeOK
  <2>2. Login /\ UNCHANGED mailbox /\ dele' = {} /\ pc' = "loop"
    BY <1>8 DEF Connect, Login
  <2>3. /\ msgTotal' \in 0 .. NumMails + MaxLate
        /\ count' \in 1 .. NumMails + MaxLate + 1
        /\ msgNumber' \in 1 .. count' /\ wanted' \subseteq Mails
    BY <1>8, <2>2, LoginEffect, Constants DEF Connect, TypeOK, Numbers, Mails
  <2>4. TypeOK'
    BY <1>8, <2>1, <2>2, <2>3, LoginEffect DEF Connect, TypeOK, Pcs
  <2>5. Numbers'
    BY <1>8, <2>2, LoginEffect DEF Connect, TypeOK, Numbers, AtMail, Copying
  <2>6. Framing'
    BY <1>8, <2>1 DEF Connect, areasVars, Framing, Copying, Last
  <2> QED
    BY <2>4, <2>5, <2>6 DEF IInv
<1>9. CASE Reconnect
  <2>1. UNCHANGED areasVars /\ AreasType(Mails)'
    BY <1>9, AreasStay DEF Reconnect, TypeOK
  <2>2. Login /\ UNCHANGED mailbox /\ dele' = {} /\ pc' = "loop"
    BY <1>9 DEF Reconnect, Login
  <2>3. /\ msgTotal' \in 0 .. NumMails + MaxLate
        /\ count' \in 1 .. NumMails + MaxLate + 1
        /\ msgNumber' \in 1 .. count' /\ wanted' \subseteq Mails
    BY <1>9, <2>2, LoginEffect, Constants DEF Reconnect, TypeOK, Numbers, Mails
  <2>4. TypeOK'
    BY <1>9, <2>1, <2>2, <2>3, LoginEffect DEF Reconnect, TypeOK, Pcs
  <2>5. Numbers'
    BY <1>9, <2>2, LoginEffect DEF Reconnect, TypeOK, Numbers, AtMail, Copying
  <2>6. Framing'
    BY <1>9, <2>1 DEF Reconnect, areasVars, Framing, Copying, Last
  <2> QED
    BY <2>4, <2>5, <2>6 DEF IInv
<1>10. CASE EmptyMail
  <2>1. UNCHANGED areasVars /\ AreasType(Mails)'
    BY <1>10, AreasStay DEF EmptyMail, CopyFails, Return, SendQuit, MustRelogin, TypeOK
  <2>2. Expunge \/ Drop
    BY <1>10 DEF EmptyMail, CopyFails, Return, SendQuit, MustRelogin
  <2>3. TypeOK'
    BY <1>10, <2>1, <2>2, SessionEnd DEF EmptyMail, CopyFails, Return, SendQuit, MustRelogin, TypeOK, Pcs, Numbers
  <2>4. Numbers' /\ Framing'
    BY <1>10, <2>1 DEF EmptyMail, CopyFails, Return, SendQuit, MustRelogin, TypeOK, areasVars, Numbers, Framing, AtMail, Copying, Last
  <2> QED
    BY <2>3, <2>4 DEF IInv
<1>11. CASE ForceQuit
  <2>1. UNCHANGED areasVars /\ AreasType(Mails)'
    BY <1>11, AreasStay DEF ForceQuit, SendQuit, MustRelogin, TypeOK
  <2>2. Expunge \/ Drop
    BY <1>11 DEF ForceQuit, SendQuit, MustRelogin
  <2>3. TypeOK'
    BY <1>11, <2>1, <2>2, SessionEnd DEF ForceQuit, SendQuit, MustRelogin, TypeOK, Pcs, Numbers
  <2>4. Numbers' /\ Framing'
    BY <1>11, <2>1 DEF ForceQuit, SendQuit, MustRelogin, TypeOK, areasVars, Numbers, Framing, AtMail, Copying, Last
  <2> QED
    BY <2>3, <2>4 DEF IInv
<1>12. CASE LastQuit
  <2>1. UNCHANGED areasVars /\ AreasType(Mails)'
    BY <1>12, AreasStay DEF LastQuit, SendQuit, Return, TypeOK
  <2>2. Expunge \/ Drop
    BY <1>12 DEF LastQuit, SendQuit, Return
  <2>3. TypeOK'
    BY <1>12, <2>1, <2>2, SessionEnd DEF LastQuit, SendQuit, Return, TypeOK, Pcs, Numbers
  <2>4. Numbers' /\ Framing'
    BY <1>12, <2>1 DEF LastQuit, SendQuit, Return, TypeOK, areasVars, Numbers, Framing, AtMail, Copying, Last
  <2> QED
    BY <2>3, <2>4 DEF IInv
<1>13. CASE MsgStart
  <2>1. AreasType(Mails)'
    BY <1>13 DEF MsgStart, StartBegin, TypeOK, AreasType
  <2>2. TypeOK' /\ Numbers'
    BY <1>13, <2>1 DEF MsgStart, TypeOK, Pcs, Numbers, AtMail, Copying
  <2>3. Framing'
    BY <1>13 DEF MsgStart, StartBegin, Framing, Copying
  <2> QED
    BY <2>2, <2>3 DEF IInv
<1>14. CASE MsgHead
  <2>1. view[msgNumber] \in Mails /\ StartHead(view[msgNumber])
    BY <1>14, ViewEffect DEF MsgHead, TypeOK
  <2>2. AreasType(Mails)' /\ Last' = Last + 1 /\ msgLenPos' = Last /\ UNCHANGED msgStarted
    BY <2>1, StartHeadEffect DEF TypeOK
  <2>3. TypeOK' /\ Numbers'
    BY <1>14, <2>2 DEF MsgHead, TypeOK, Pcs, Numbers, AtMail, Copying
  <2>4. Framing'
    BY <1>14, <2>2, FileType DEF MsgHead, TypeOK, Framing, Copying
  <2> QED
    BY <2>3, <2>4 DEF IInv
<1>15. CASE WriteMail
  <2>1. Last > 0 /\ ~ BodyWritten /\ MsgWrite
    BY <1>15 DEF WriteMail, Framing, Copying
  <2>2. AreasType(Mails)' /\ Last' = Last /\ UNCHANGED <<msgStarted, msgLenPos>>
    BY <2>1, MsgWriteEffect DEF TypeOK
  <2>3. TypeOK' /\ Numbers'
    BY <1>15, <2>2 DEF WriteMail, TypeOK, Pcs, Numbers, AtMail, Copying
  <2>4. Framing'
    BY <1>15, <2>2 DEF WriteMail, Framing, Copying
  <2> QED
    BY <2>3, <2>4 DEF IInv
<1>16. CASE MsgStop
  <2>1. Last > 0 /\ msgLenPos = Last - 1 /\ StopLength
    BY <1>16 DEF MsgStop, Framing, Copying
  <2>2. AreasType(Mails)' /\ Last' = Last /\ UNCHANGED <<msgStarted, msgLenPos>>
    BY <2>1, StopLengthEffect DEF TypeOK
  <2>3. TypeOK' /\ Numbers'
    BY <1>16, <2>2 DEF MsgStop, TypeOK, Pcs, Numbers, AtMail, Copying
  <2>4. Framing'
    BY <1>16, <2>2 DEF MsgStop, Framing, Copying
  <2> QED
    BY <2>3, <2>4 DEF IInv
<1>17. CASE MailCopied
  <2>1. AreasType(Mails)'
    BY <1>17 DEF MailCopied, StopEnd, TypeOK, AreasType
  <2>2. pc = "stopped" /\ pc' \in {"next", "dele"} /\ UNCHANGED msgFile /\ ~ msgStarted'
    BY <1>17 DEF MailCopied, StopEnd
  <2>3. msgNumber \in DOMAIN view
    BY <2>2, ViewEffect DEF TypeOK, Numbers, AtMail, Copying
  <2>4. TypeOK'
    BY <1>17, <2>1, <2>2, <2>3 DEF MailCopied, TypeOK, Pcs
  <2>5. Numbers' /\ Framing'
    BY <1>17, <2>2 DEF MailCopied, Numbers, Framing, AtMail, Copying
  <2> QED
    BY <2>4, <2>5 DEF IInv
<1>18. CASE MailNotCopied
  <2>1. AreasType(Mails)' /\ ~ msgStarted'
    BY <1>18 DEF MailNotCopied, StopEnd, TypeOK, AreasType
  <2>2. Drop /\ pc' = "finish"
    BY <1>18 DEF MailNotCopied, CopyFails, Return
  <2>3. TypeOK'
    BY <1>18, <2>1, <2>2, SessionEnd DEF MailNotCopied, CopyFails, Return, TypeOK, Pcs
  <2>4. Numbers' /\ Framing'
    BY <2>1, <2>2 DEF Numbers, Framing, AtMail, Copying
  <2> QED
    BY <2>3, <2>4 DEF IInv
<1>19. CASE Finish
  <2>1. AreasType(Mails)' /\ ~ msgStarted'
    BY <1>19, CloseAllEffect DEF Finish, TypeOK
  <2>2. TypeOK'
    BY <1>19, <2>1 DEF Finish, TypeOK, Pcs
  <2>3. Numbers' /\ Framing'
    BY <1>19, <2>1 DEF Finish, Numbers, Framing, AtMail, Copying
  <2> QED
    BY <2>2, <2>3 DEF IInv
<1> QED
  BY <1>2, <1>3, <1>4, <1>5, <1>6, <1>7, <1>8, <1>9, <1>10, <1>11, <1>12, <1>13, <1>14, <1>15, <1>16, <1>17, <1>18, <1>19 DEF Proceed

\* Lost connections, refused commands and a full disk.
LEMMA InvFaults ==
  ASSUME IInv, Lost \/ Refused, UNCHANGED Others
  PROVE  IInv'
<1>1. /\ UNCHANGED <<options, arrived, runs, areasVars, msgTotal, count, msgNumber>>
      /\ UNCHANGED <<wanted, writeFailed, imported>>
      /\ TypeOK /\ Numbers /\ Framing
  BY DEF Others, IInv, Lost, Refused, LostIn, RefusedIn, historyVars
<1>2. /\ Expunge \/ Drop
      /\ pc \in {"connect", "loop", "read", "dele", "reconnect"} /\ pc' = "finish"
      /\ retcode' = 0 /\ quitLost' \in BOOLEAN
  BY <1>1 DEF Lost, Refused, LostIn, RefusedIn, Return, historyVars, TypeOK
<1>3. AreasType(Mails)'
  BY <1>1, AreasStay DEF TypeOK
<1>4. TypeOK'
  BY <1>1, <1>2, <1>3, SessionEnd DEF TypeOK, options, Pcs
<1>5. Numbers' /\ Framing'
  BY <1>1, <1>2 DEF areasVars, Numbers, Framing, AtMail, Copying
<1> QED
  BY <1>4, <1>5 DEF IInv

LEMMA InvWriteError == IInv /\ WriteError => IInv'
<1> SUFFICES ASSUME IInv, WriteError PROVE IInv'
  OBVIOUS
<1>1. /\ UNCHANGED <<areasVars, options, localVars, serverVars, wanted, quitLost, imported,
                     arrived, runs>>
      /\ pc = "write" /\ pc' = "stop" /\ writeFailed' = TRUE
  BY DEF WriteError
<1>2. AreasType(Mails)'
  BY <1>1, AreasStay DEF IInv, TypeOK
<1>3. TypeOK'
  BY <1>1, <1>2 DEF IInv, TypeOK, options, localVars, serverVars, Pcs
<1>4. Numbers' /\ Framing'
  BY <1>1 DEF IInv, options, localVars, serverVars, areasVars, Numbers, Framing, AtMail,
    Copying, Last
<1> QED
  BY <1>3, <1>4 DEF IInv

LEMMA InvAbort == IInv /\ SignalHandler => IInv'
<1> SUFFICES ASSUME IInv, SignalHandler PROVE IInv'
  OBVIOUS
<1>1. /\ UNCHANGED <<options, msgTotal, count, msgNumber, historyVars, arrived, runs>>
      /\ Drop /\ CloseAll /\ pc' = "ended" /\ retcode' = 0
  BY DEF SignalHandler
<1>2. AreasType(Mails)' /\ ~ msgStarted'
  BY <1>1, CloseAllEffect DEF IInv, TypeOK
<1>3. TypeOK'
  BY <1>1, <1>2, SessionEnd DEF IInv, TypeOK, options, historyVars, Pcs
<1>4. Numbers' /\ Framing'
  BY <1>1, <1>2 DEF Numbers, Framing, AtMail, Copying
<1> QED
  BY <1>3, <1>4 DEF IInv

\* The copies in the file are of mails.
LEMMA CopiesType == TypeOK => MailsOf(Received) \subseteq Mails
<1> SUFFICES ASSUME TypeOK PROVE MailsOf(NewCopies) \subseteq Mails
  BY DEF TypeOK, Received, MailsOf
<1>1. \A i \in DOMAIN msgFile : msgFile[i].msg \in Mails
  BY FileType DEF TypeOK, MailFrame, Frame
<1> QED
  BY <1>1 DEF NewCopies, MailsOf

LEMMA InvRerun == IInv /\ Rerun => IInv'
<1> SUFFICES ASSUME IInv, Rerun PROVE IInv'
  OBVIOUS
<1>1. AreasType(Mails)'
  <2>1. msgStarted' = FALSE /\ msgLenPos' = -1
    BY DEF Rerun
  <2>2. msgFile' \in Seq(Frame(Mails)) /\ Len(msgFile') = 0
    BY EmptySeq DEF Rerun
  <2>3. msgLenPos' \in -1 .. Len(msgFile')
    BY <2>1, <2>2
  <2> QED
    BY <2>1, <2>2, <2>3 DEF AreasType
<1>2. MailsOf(imported') \subseteq Mails
  BY CopiesType DEF Rerun, IInv
<1>3. /\ msgTotal' \in 0 .. NumMails + MaxLate /\ count' \in 1 .. NumMails + MaxLate + 1
      /\ msgNumber' \in 1 .. count' /\ runs' \in Nat
  BY Constants DEF Rerun, IInv, TypeOK
<1>4. /\ UNCHANGED <<readOnly, forceMailDelete, mailbox, view, dele, arrived>>
      /\ pc' = "connect" /\ retcode' = 0 /\ wanted' = {}
      /\ quitLost' = FALSE /\ writeFailed' = FALSE
  BY DEF Rerun, options, serverVars
<1>5. TypeOK'
  BY <1>1, <1>2, <1>3, <1>4 DEF IInv, TypeOK, Pcs
<1>6. Numbers' /\ Framing'
  BY DEF Rerun, Numbers, Framing, AtMail, Copying
<1> QED
  BY <1>5, <1>6 DEF IInv

LEMMA InvArrival == IInv /\ MailArrives => IInv'
<1> SUFFICES ASSUME IInv, MailArrives PROVE IInv'
  OBVIOUS
<1>1. /\ UNCHANGED <<areasVars, options, pc, localVars, view, dele, historyVars, runs>>
      /\ arrived' = arrived + 1 /\ arrived < NumMails + MaxLate
      /\ mailbox' = mailbox \union {arrived'}
  BY DEF MailArrives, bounds
<1>2. AreasType(Mails)'
  BY <1>1, AreasStay DEF IInv, TypeOK
<1>3. arrived' \in NumMails .. NumMails + MaxLate /\ mailbox' \subseteq 1 .. arrived'
  BY <1>1, Constants DEF IInv, TypeOK
<1>4. TypeOK'
  BY <1>1, <1>2, <1>3 DEF IInv, TypeOK, options, localVars, historyVars
<1>5. Numbers' /\ Framing'
  BY <1>1 DEF IInv, options, localVars, areasVars, Numbers, Framing, Last
<1> QED
  BY <1>4, <1>5 DEF IInv

LEMMA InvStutter == IInv /\ UNCHANGED vars => IInv'
<1> SUFFICES ASSUME IInv, UNCHANGED vars PROVE IInv'
  OBVIOUS
<1>1. AreasType(Mails)'
  BY AreasStay DEF IInv, TypeOK, vars
<1> QED
  BY <1>1 DEF IInv, TypeOK, Numbers, Framing, vars, areasVars, options, localVars, serverVars,
    historyVars, bounds, Last

LEMMA InvNext == IInv /\ [Next]_vars => IInv'
<1> SUFFICES ASSUME IInv, [Next]_vars PROVE IInv'
  OBVIOUS
<1>1. CASE MainNext
  BY <1>1, InvProceed, InvFaults, InvWriteError DEF MainNext, Others
<1>2. CASE SignalHandler \/ Rerun \/ MailArrives
  BY <1>2, InvAbort, InvRerun, InvArrival
<1> QED
  BY <1>1, <1>2, InvStutter DEF Next

\* Every variable has its type, and between login and QUIT the program asks for
\* mails the server has numbered, whatever the options (pop3.cc 514-555).
THEOREM TypeCorrect == Spec => []TypeOK
<1>1. IInv => TypeOK
  BY DEF IInv
<1> QED
  BY InvInit, InvNext, <1>1, PTL DEF Spec
-----------------------------------------------------------------------------
(* Finished messages stay, unless a signal arrives inside msgStart.          *)

\* The complete part of the file is not shortened and not changed.
Grows ==
  /\ Completed <= Completed' /\ Completed' <= Last'
  /\ \A i \in 1 .. Completed : msgFile'[i] = msgFile[i]

LEMMA CompletedInt ==
  ASSUME AreasType(Mails)
  PROVE  Last \in Nat /\ Completed \in Int /\ Completed <= Last
  BY FileType DEF Completed, Last

\* Most steps leave the file alone, and do not begin a message.
LEMMA UnchangedGrows ==
  ASSUME IInv, UNCHANGED msgFile, pc' \in Copying => pc \in Copying
  PROVE  Grows
<1>1. Last' = Last /\ Last \in Nat
  BY CompletedInt DEF IInv, TypeOK, Last
<1> QED
  BY <1>1 DEF Grows, Completed, Copying, Last

LEMMA ProceedGrows == ASSUME IInv, Proceed PROVE Grows
<1>1. CASE MsgHead
  <2>1. StartHead(view[msgNumber]) /\ view[msgNumber] \in Mails
    BY <1>1, ViewEffect DEF IInv, TypeOK, MsgHead
  <2>2. /\ Last' = Last + 1 /\ \A i \in 1 .. Last : msgFile'[i] = msgFile[i]
    BY <2>1, StartHeadEffect DEF IInv, TypeOK
  <2> QED
    BY <1>1, <2>2, CompletedInt DEF IInv, TypeOK, MsgHead, Grows, Completed, Last
<1>2. CASE WriteMail
  <2>1. Last > 0 /\ ~ BodyWritten /\ MsgWrite /\ pc = "write" /\ pc' = "write"
    BY <1>2 DEF IInv, WriteMail, Framing, Copying
  <2>2. Last' = Last /\ \A i \in 1 .. Last - 1 : msgFile'[i] = msgFile[i]
    BY <2>1, MsgWriteEffect DEF IInv, TypeOK
  <2> QED
    BY <2>1, <2>2, CompletedInt DEF IInv, TypeOK, Grows, Completed, Last
<1>3. CASE MsgStop
  <2>1. Last > 0 /\ msgLenPos = Last - 1 /\ StopLength /\ pc = "stop" /\ pc' = "stopped"
    BY <1>3 DEF IInv, MsgStop, Framing, Copying
  <2>2. Last' = Last /\ \A i \in 1 .. Last - 1 : msgFile'[i] = msgFile[i]
    BY <2>1, StopLengthEffect DEF IInv, TypeOK
  <2> QED
    BY <2>1, <2>2, CompletedInt DEF IInv, TypeOK, Grows, Completed, Last
<1>4. CASE Finish
  <2>1. ~ msgStarted /\ CloseAll /\ pc' = "ended"
    BY <1>4 DEF Finish, IInv, Framing, Copying
  <2>2. UNCHANGED msgFile
    BY <2>1 DEF CloseAll
  <2> QED
    BY <2>1, <2>2, UnchangedGrows DEF Copying
<1>5. CASE ~ (MsgHead \/ WriteMail \/ MsgStop \/ Finish)
  <2>1. UNCHANGED msgFile
    BY <1>5 DEF Proceed, Connect, Retr, LoopEnd, ReadMsg, EmptyMail, MsgStart, StartBegin,
      WriteEnd, MailCopied, MailNotCopied, StopEnd, Dele, NextMail, ForceQuit, Reconnect,
      LastQuit, areasVars
  <2>2. pc' \in Copying => pc \in Copying
    BY <1>5 DEF Copying, Proceed, Connect, Retr, LoopEnd, ReadMsg, EmptyMail, CopyFails,
      MsgStart, WriteEnd, MailCopied, MailNotCopied, Dele, NextMail, ForceQuit, Reconnect,
      LastQuit, Return
  <2> QED
    BY <2>1, <2>2, UnchangedGrows
<1> QED
  BY <1>1, <1>2, <1>3, <1>4, <1>5

LEMMA AbortGrows == ASSUME IInv, SignalHandler, ~ AbortInStart PROVE Grows
<1>1. pc # "head" /\ CloseAll /\ pc' = "ended"
  BY DEF SignalHandler
<1>2. CASE pc \in Copying
  <2>1. msgStarted /\ msgLenPos = Last - 1 /\ Last > 0
    BY <1>2 DEF IInv, Framing
  <2>2. msgLenPos >= 0 /\ Completed = Last - 1
    BY <1>2, <2>1, CompletedInt DEF IInv, TypeOK, Completed, Copying, Last
  <2>3. Last' = msgLenPos /\ \A i \in 1 .. msgLenPos : msgFile'[i] = msgFile[i]
    BY <1>1, <2>1, <2>2, CloseAllEffect DEF IInv, TypeOK
  <2>4. Completed' = Last'
    BY <1>1 DEF Completed, Last
  <2> QED
    BY <2>1, <2>2, <2>3, <2>4, CompletedInt DEF IInv, TypeOK, Grows
<1>3. CASE pc \notin Copying
  <2>1. ~ msgStarted
    BY <1>1, <1>3 DEF IInv, Framing
  <2>2. UNCHANGED msgFile
    BY <1>1, <2>1 DEF CloseAll
  <2> QED
    BY <1>1, <2>2, UnchangedGrows DEF Copying
<1> QED
  BY <1>2, <1>3

LEMMA StepGrows ==
  ASSUME IInv, [Next]_vars, ~ Rerun, ~ AbortInStart
  PROVE  Grows
<1>1. CASE Proceed
  BY <1>1, ProceedGrows
<1>2. CASE SignalHandler
  BY <1>2, AbortGrows
<1>3. CASE Lost \/ Refused \/ WriteError \/ MailArrives \/ UNCHANGED vars
  <2>1. UNCHANGED msgFile
    BY <1>3 DEF Lost, Refused, LostIn, RefusedIn, WriteError, MailArrives, vars, areasVars
  <2>2. pc' \in Copying => pc \in Copying
    BY <1>3 DEF Lost, Refused, LostIn, RefusedIn, WriteError, MailArrives, vars, Return, Copying
  <2> QED
    BY <2>1, <2>2, UnchangedGrows
<1> QED
  BY <1>1, <1>2, <1>3 DEF Next, MainNext

\* A message that msgStop has completed stays in the file as it is until the
\* reader takes the file over (areas.cc 73-88, 219-243), if no signal arrives
\* between the two steps of msgStart.
THEOREM FinishedKept == ASSUME ~ AbortInStart PROVE Spec => FinishedStay
<1>1. IInv /\ [Next]_vars => CompletedStay
  <2> SUFFICES ASSUME IInv, [Next]_vars, runs' = runs PROVE CompletedStay
    BY DEF CompletedStay
  <2>1. ~ Rerun
    BY DEF Rerun, IInv, TypeOK
  <2>2. Grows /\ Completed \in Int /\ Completed' \in Int /\ Last' \in Int
    BY <2>1, StepGrows, CompletedInt, InvNext DEF IInv, TypeOK, Completed, Last
  <2> QED
    BY <2>2 DEF Grows, CompletedStay, Last
<1>2. IInv /\ [Next]_vars => [CompletedStay]_vars
  BY <1>1
<1> QED
  BY InvInit, InvNext, <1>2, PTL DEF Spec, FinishedStay
-----------------------------------------------------------------------------
(* No mail is lost.                                                          *)

LEMMA InFileGrows ==
  ASSUME IInv, Grows, AreasType(Mails)'
  PROVE  InFile \subseteq InFile'
<1>1. Completed \in Int /\ Completed' \in Int /\ Completed <= Completed'
  BY CompletedInt DEF IInv, TypeOK, Grows, Completed, Last
<1>2. SUFFICES ASSUME NEW i \in 1 .. Completed, IsWhole(msgFile[i])
               PROVE  msgFile[i].msg \in InFile'
  BY DEF InFile
<1>3. i \in 1 .. Completed' /\ msgFile'[i] = msgFile[i]
  BY <1>1 DEF Grows
<1>4. IsWhole(msgFile'[i])
  BY <1>2, <1>3 DEF IsWhole
<1> QED
  BY <1>3, <1>4 DEF InFile, IsWhole

\* A mail leaves the mailbox only if it is in the file.
LEMMA KeepNothingLost ==
  ASSUME NothingLost, InFile \subseteq InFile', mailbox \subseteq mailbox' \union InFile,
         imported' = imported, arrived' = arrived
  PROVE  NothingLost'
<1>1. MailsOf(imported') = MailsOf(imported)
  OBVIOUS
<1> QED
  BY <1>1 DEF NothingLost

\* The marks of DELE are dropped, or neither they nor the numbers change.
LEMMA KeepMarked ==
  ASSUME Marked, InFile \subseteq InFile',
         \/ dele' = {}
         \/ /\ UNCHANGED <<dele, view>>
            /\ pc' \in {"connect", "reconnect", "finish", "ended"} =>
                 pc \in {"connect", "reconnect", "finish", "ended"}
  PROVE  Marked'
  BY DEF Marked

\* A session that ends or begins.
LEMMA ServerStep ==
  ASSUME MailInv,
         \/ Connect \/ Reconnect \/ EmptyMail \/ ForceQuit \/ LastQuit \/ Lost \/ Refused
         \/ MailNotCopied \/ SignalHandler
  PROVE  /\ dele' = {} /\ mailbox \subseteq mailbox' \union InFile
         /\ imported' = imported /\ pc' \notin Copying \union {"dele", "next"}
<1>1. Login \/ Drop \/ Expunge
  BY DEF Connect, Reconnect, EmptyMail, CopyFails, ForceQuit, LastQuit, SendQuit, Lost, Refused,
    LostIn, RefusedIn, MailNotCopied, SignalHandler
<1>2. imported' = imported
  BY DEF Connect, Reconnect, EmptyMail, CopyFails, ForceQuit, LastQuit, SendQuit, Lost, Refused,
    LostIn, RefusedIn, MailNotCopied, SignalHandler, historyVars
<1>3. pc' \notin Copying \union {"dele", "next"}
  BY DEF Connect, Reconnect, EmptyMail, CopyFails, ForceQuit, LastQuit, Return, Lost, Refused,
    LostIn, RefusedIn, MailNotCopied, SignalHandler, Copying
<1>4. \A n \in dele : view[n] \in InFile
  BY DEF MailInv, Marked
<1>5. dele' = {} /\ mailbox \subseteq mailbox' \union InFile
  BY <1>1, <1>4 DEF Login, Drop, Expunge
<1> QED
  BY <1>2, <1>3, <1>5

LEMMA MailServerStep ==
  ASSUME MailInv, IInv', Grows, UNCHANGED arrived,
         \/ Connect \/ Reconnect \/ EmptyMail \/ ForceQuit \/ LastQuit \/ Lost \/ Refused
         \/ MailNotCopied \/ SignalHandler
  PROVE  MailInv'
<1>1. InFile \subseteq InFile'
  BY InFileGrows DEF MailInv, IInv, TypeOK
<1>2. NothingLost'
  BY <1>1, ServerStep, KeepNothingLost DEF MailInv
<1>3. Marked'
  BY <1>1, ServerStep, KeepMarked DEF MailInv
<1>4. Copied'
  BY ServerStep DEF Copied, Copying
<1> QED
  BY <1>2, <1>3, <1>4 DEF MailInv

\* The steps of getMail inside a session.
LEMMA MailSessionStep ==
  ASSUME MailInv, IInv', Grows, UNCHANGED arrived,
         \/ Retr \/ LoopEnd \/ ReadMsg \/ MsgStart \/ MsgHead \/ WriteMail \/ WriteEnd
         \/ WriteError \/ MsgStop \/ MailCopied \/ NextMail \/ Finish
  PROVE  MailInv'
<1>1. InFile \subseteq InFile'
  BY InFileGrows DEF MailInv, IInv, TypeOK
<1>2. /\ UNCHANGED <<mailbox, view, dele, imported>>
      /\ pc' \in {"connect", "reconnect", "finish", "ended"} => pc = "finish"
  BY DEF Retr, LoopEnd, ReadMsg, MsgStart, MsgHead, WriteMail, WriteEnd, WriteError, MsgStop,
    MailCopied, NextMail, Finish, serverVars, historyVars
<1>3. NothingLost'
  BY <1>1, <1>2, KeepNothingLost DEF MailInv
<1>4. Marked'
  BY <1>1, <1>2, KeepMarked DEF MailInv
<1>5. Copied'
  <2>1. CASE Retr \/ LoopEnd \/ ReadMsg \/ MsgStart \/ NextMail \/ Finish
    BY <2>1 DEF Retr, LoopEnd, ReadMsg, MsgStart, NextMail, Finish, Copied, Copying
  <2>2. CASE MsgHead
    <3>1. StartHead(view[msgNumber]) /\ view[msgNumber] \in Mails
      BY <2>2, ViewEffect DEF MailInv, IInv, TypeOK, MsgHead
    <3>2. /\ Last' = Last + 1
          /\ msgFile'[Last + 1] = [msg |-> view[msgNumber], body |-> 0, len |-> 0]
      BY <3>1, StartHeadEffect DEF MailInv, IInv, TypeOK
    <3>3. msgFile'[Last'].msg = view[msgNumber]
      BY <3>2
    <3> QED
      BY <2>2, <3>3 DEF MsgHead, Copied, localVars, serverVars
  <2>3. CASE WriteMail
    <3>1. Last > 0 /\ ~ BodyWritten /\ MsgWrite /\ pc = "write" /\ pc' = "write"
      BY <2>3 DEF MailInv, IInv, WriteMail, Framing, Copying
    <3>2. Last' = Last /\ msgFile'[Last].msg = msgFile[Last].msg
      BY <3>1, MsgWriteEffect DEF MailInv, IInv, TypeOK
    <3> QED
      BY <2>3, <3>1, <3>2 DEF MailInv, WriteMail, Copied, Copying, localVars, serverVars
  <2>4. CASE WriteEnd \/ WriteError
    <3>1. /\ UNCHANGED <<msgFile, msgNumber, view>> /\ pc \in Copying /\ pc' = "stop"
      BY <2>4 DEF WriteEnd, WriteError, areasVars, localVars, serverVars, Copying
    <3> QED
      BY <3>1 DEF MailInv, Copied, Copying, Last
  <2>5. CASE MsgStop
    <3>1. Last > 0 /\ msgLenPos = Last - 1 /\ StopLength /\ pc = "stop" /\ pc' = "stopped"
      BY <2>5 DEF MailInv, IInv, MsgStop, Framing, Copying
    <3>2. /\ Last' = Last /\ msgFile'[Last].msg = msgFile[Last].msg
          /\ msgFile'[Last].len = msgFile'[Last].body
      BY <3>1, StopLengthEffect DEF MailInv, IInv, TypeOK
    <3> QED
      BY <2>5, <3>1, <3>2 DEF MailInv, MsgStop, Copied, Copying, localVars, serverVars
  <2>6. CASE MailCopied
    <3>1. /\ pc = "stopped" /\ pc' \in {"next", "dele"} /\ BodyWritten
          /\ UNCHANGED <<msgFile, msgNumber, view>>
      BY <2>6 DEF MailCopied, StopEnd, localVars, serverVars
    <3>2. Last > 0 /\ Last \in Nat /\ msgFile[Last].msg = view[msgNumber]
      BY <3>1, CompletedInt DEF MailInv, IInv, TypeOK, Framing, Copied, Copying
    <3>3. IsWhole(msgFile[Last])
      BY <3>1 DEF MailInv, Copied, BodyWritten, IsWhole, Last
    <3>4. Last \in 1 .. Completed'
      BY <3>1, <3>2 DEF Completed, Last
    <3>5. view[msgNumber] \in InFile'
      BY <3>1, <3>2, <3>3, <3>4 DEF InFile, IsWhole
    <3> QED
      BY <3>1, <3>5 DEF Copied, Copying
  <2> QED
    BY <2>1, <2>2, <2>3, <2>4, <2>5, <2>6
<1> QED
  BY <1>3, <1>4, <1>5 DEF MailInv

LEMMA MailDele == ASSUME MailInv, IInv', Grows, UNCHANGED arrived, Dele PROVE MailInv'
<1>1. InFile \subseteq InFile'
  BY InFileGrows DEF MailInv, IInv, TypeOK
<1>2. /\ UNCHANGED <<mailbox, view, imported, msgNumber>>
      /\ dele' = dele \union {msgNumber} /\ pc = "dele" /\ pc' = "next"
  BY DEF Dele, historyVars, localVars
<1>3. NothingLost'
  BY <1>1, <1>2, KeepNothingLost DEF MailInv
<1>4. Marked' /\ Copied'
  BY <1>1, <1>2 DEF MailInv, Marked, Copied, Copying
<1> QED
  BY <1>3, <1>4 DEF MailInv

LEMMA MailRerun == ASSUME MailInv, IInv', Rerun PROVE MailInv'
<1>1. /\ UNCHANGED <<mailbox, view, dele, arrived>> /\ imported' = Received
      /\ pc = "ended" /\ pc' = "connect"
  BY DEF Rerun, serverVars
<1>2. InFile \subseteq MailsOf(NewCopies)
  <2>1. \A i \in 1 .. Completed : i \in DOMAIN msgFile
    BY FileType, CompletedInt DEF MailInv, IInv, TypeOK
  <2>2. SUFFICES ASSUME NEW i \in 1 .. Completed, IsWhole(msgFile[i])
                 PROVE  msgFile[i].msg \in MailsOf(NewCopies)
    BY DEF InFile
  <2>3. <<runs, i, msgFile[i].msg>> \in NewCopies
    BY <2>1, <2>2 DEF NewCopies
  <2> QED
    BY <2>3 DEF MailsOf
<1>3. MailsOf(imported) \union InFile \subseteq MailsOf(imported')
  BY <1>1, <1>2 DEF Received, MailsOf
<1>4. NothingLost'
  BY <1>1, <1>3 DEF MailInv, NothingLost
<1>5. Marked' /\ Copied'
  BY <1>1 DEF MailInv, Marked, Copied, Copying
<1> QED
  BY <1>4, <1>5 DEF MailInv

\* New mail and steps of nobody.
LEMMA MailOutside ==
  ASSUME MailInv, IInv', MailArrives \/ UNCHANGED vars
  PROVE  MailInv'
<1>1. /\ UNCHANGED <<msgFile, pc, msgNumber, view, dele, imported>>
      /\ mailbox \subseteq mailbox'
      /\ arrived' = arrived \/ (arrived' = arrived + 1 /\ arrived' \in mailbox')
  BY DEF MailArrives, vars, areasVars, localVars, serverVars, historyVars
<1>2. Completed' = Completed /\ Last' = Last
  BY <1>1 DEF Completed, Last
<1>3. InFile' = InFile
  BY <1>1, <1>2 DEF InFile, IsWhole
<1>4. Copied' /\ Marked'
  BY <1>1, <1>2, <1>3 DEF MailInv, Copied, Marked
<1>5. NothingLost'
  <2>1. arrived \in Int
    BY Constants DEF MailInv, IInv, TypeOK
  <2>2. 1 .. arrived' \subseteq (1 .. arrived) \union mailbox'
    BY <1>1, <2>1
  <2>3. MailsOf(imported') = MailsOf(imported)
    BY <1>1
  <2> QED
    BY <1>1, <1>3, <2>2, <2>3 DEF MailInv, NothingLost
<1> QED
  BY <1>4, <1>5 DEF MailInv

LEMMA MailInit == Init => MailInv
<1> SUFFICES ASSUME Init PROVE MailInv
  OBVIOUS
<1>1. NothingLost
  BY DEF Init, NothingLost
<1>2. Copied /\ Marked
  BY DEF Init, Copied, Marked, Copying
<1> QED
  BY <1>1, <1>2, InvInit DEF MailInv

LEMMA MailNext == ASSUME ~ AbortInStart PROVE MailInv /\ [Next]_vars => MailInv'
<1> SUFFICES ASSUME MailInv, [Next]_vars PROVE MailInv'
  OBVIOUS
<1>1. IInv /\ IInv'
  BY InvNext DEF MailInv
<1>2. CASE Rerun
  BY <1>1, <1>2, MailRerun
<1>3. CASE MailArrives \/ UNCHANGED vars
  BY <1>1, <1>3, MailOutside
<1>4. CASE ~ Rerun /\ (MainNext \/ SignalHandler)
  <2>1. Grows
    BY <1>1, <1>4, StepGrows
  <2>2. UNCHANGED arrived
    BY <1>4 DEF MainNext, WriteError, SignalHandler
  <2>3. CASE Dele
    BY <1>1, <2>1, <2>2, <2>3, MailDele
  <2>4. CASE \/ Connect \/ Reconnect \/ EmptyMail \/ ForceQuit \/ LastQuit \/ Lost \/ Refused
             \/ MailNotCopied \/ SignalHandler
    BY <1>1, <2>1, <2>2, <2>4, MailServerStep
  <2>5. CASE \/ Retr \/ LoopEnd \/ ReadMsg \/ MsgStart \/ MsgHead \/ WriteMail \/ WriteEnd
             \/ WriteError \/ MsgStop \/ MailCopied \/ NextMail \/ Finish
    BY <1>1, <2>1, <2>2, <2>5, MailSessionStep
  <2> QED
    BY <1>4, <2>3, <2>4, <2>5 DEF MainNext, Proceed
<1> QED
  BY <1>2, <1>3, <1>4 DEF Next

\* No mail is lost (pop3.cc 518-558): whatever connection, command or write fails,
\* whenever the program is aborted and however often it runs, each mail is in the
\* mailbox or whole in a message file, if no signal arrives between the two steps
\* of msgStart.
THEOREM NoMailLost == ASSUME ~ AbortInStart PROVE Spec => []MailNotLost
<1>1. MailInv => MailNotLost
  <2> SUFFICES ASSUME MailInv PROVE MailNotLost
    OBVIOUS
  <2>1. \A i \in 1 .. Completed : i \in DOMAIN msgFile
    BY FileType, CompletedInt DEF MailInv, IInv, TypeOK
  <2>2. InFile \subseteq MailsOf(Received)
    <3>1. SUFFICES ASSUME NEW i \in 1 .. Completed, IsWhole(msgFile[i])
                   PROVE  msgFile[i].msg \in MailsOf(Received)
      BY DEF InFile
    <3>2. <<runs, i, msgFile[i].msg>> \in Received
      BY <2>1, <3>1 DEF NewCopies, Received
    <3> QED
      BY <3>2 DEF MailsOf
  <2>3. MailsOf(imported) \subseteq MailsOf(Received)
    BY DEF Received, MailsOf
  <2> QED
    BY <2>2, <2>3 DEF MailInv, NothingLost, MailNotLost
<1> QED
  BY MailInit, MailNext, <1>1, PTL DEF Spec
-----------------------------------------------------------------------------
(* The file the reader gets holds whole mails.                               *)

\* All messages that are complete are whole, but for the last one behind a write
\* that failed; after it getMail goes nowhere but to its end.
Frames ==
  /\ \A i \in 1 .. Completed : IsWhole(msgFile[i]) \/ (writeFailed /\ i = Last)
  /\ writeFailed => pc \in {"stop", "stopped", "finish", "ended"}
  /\ pc \in {"stop", "stopped"} => (BodyWritten <=> ~ writeFailed)

FrameInv == MailInv /\ Frames

\* The complete part of the file stays, and no message joins it.
LEMMA KeepFrames ==
  ASSUME FrameInv, Grows, Completed' = Completed,
         writeFailed => Last' = Last \/ pc \in {"stop", "stopped"},
         writeFailed => writeFailed'
  PROVE  \A i \in 1 .. Completed' : IsWhole(msgFile'[i]) \/ (writeFailed' /\ i = Last')
<1>1. Completed \in Int /\ Last \in Nat
  BY CompletedInt DEF FrameInv, MailInv, IInv, TypeOK
<1> TAKE i \in 1 .. Completed'
<1>2. i \in 1 .. Completed /\ msgFile'[i] = msgFile[i]
  BY DEF Grows
<1>3. CASE IsWhole(msgFile[i])
  BY <1>2, <1>3 DEF IsWhole
<1>4. CASE writeFailed /\ i = Last
  <2>1. pc \notin {"stop", "stopped"}
    BY <1>1, <1>2, <1>4 DEF Completed, Last
  <2> QED
    BY <1>4, <2>1
<1> QED
  BY <1>2, <1>3, <1>4 DEF FrameInv, Frames

\* The steps that complete no message and do not write.
LEMMA FramesQuiet ==
  ASSUME FrameInv, Grows, UNCHANGED <<msgFile, writeFailed>>,
         \/ pc' = pc
         \/ /\ pc \notin Copying /\ pc' \notin Copying
            /\ pc = "ended" => pc' = "ended"
            /\ writeFailed => pc' \in {"finish", "ended"}
  PROVE  Frames'
<1>1. Last' = Last /\ Completed' = Completed
  BY DEF Last, Completed, Copying
<1>2. \A i \in 1 .. Completed' : IsWhole(msgFile'[i]) \/ (writeFailed' /\ i = Last')
  BY <1>1, KeepFrames
<1>3. BodyWritten' = BodyWritten
  BY DEF BodyWritten
<1>4. pc' \in {"stop", "stopped"} => pc' = pc
  BY DEF Copying
<1> QED
  BY <1>2, <1>3, <1>4 DEF FrameInv, Frames

\* The steps of copying a mail.
LEMMA FramesCopy ==
  ASSUME FrameInv, IInv', Grows, MsgHead \/ WriteMail \/ WriteEnd \/ WriteError \/ MsgStop
  PROVE  Frames'
<1>1. /\ AreasType(Mails) /\ Framing /\ IInv
      /\ Completed \in Int /\ Last \in Nat
  BY CompletedInt DEF FrameInv, MailInv, IInv, TypeOK
<1>2. CASE MsgHead
  <2>1. StartHead(view[msgNumber]) /\ view[msgNumber] \in Mails
    BY <1>2, ViewEffect DEF FrameInv, MailInv, IInv, TypeOK, MsgHead
  <2>2. Last' = Last + 1
    BY <1>1, <2>1, StartHeadEffect
  <2>3. /\ pc = "head" /\ pc' = "write" /\ writeFailed' = writeFailed
    BY <1>2 DEF MsgHead, historyVars
  <2>4. ~ writeFailed /\ Completed' = Completed
    BY <1>1, <2>2, <2>3 DEF FrameInv, Frames, Completed, Last
  <2>5. \A i \in 1 .. Completed' : IsWhole(msgFile'[i]) \/ (writeFailed' /\ i = Last')
    BY <2>4, KeepFrames
  <2> QED
    BY <2>3, <2>4, <2>5 DEF Frames
<1>3. CASE WriteMail
  <2>1. Last > 0 /\ ~ BodyWritten /\ MsgWrite /\ pc = "write" /\ pc' = "write"
        /\ writeFailed' = writeFailed
    BY <1>1, <1>3 DEF WriteMail, Framing, Copying, historyVars
  <2>2. Last' = Last
    BY <1>1, <2>1, MsgWriteEffect
  <2>3. ~ writeFailed /\ Completed' = Completed
    BY <2>1, <2>2 DEF FrameInv, Frames, Completed, Last
  <2>4. \A i \in 1 .. Completed' : IsWhole(msgFile'[i]) \/ (writeFailed' /\ i = Last')
    BY <2>3, KeepFrames
  <2> QED
    BY <2>1, <2>3, <2>4 DEF Frames
<1>4. CASE WriteEnd \/ WriteError
  <2>1. /\ pc = "write" /\ pc' = "stop" /\ UNCHANGED msgFile
        /\ IF BodyWritten THEN writeFailed' = writeFailed ELSE writeFailed' = TRUE
    BY <1>4 DEF WriteEnd, WriteError, areasVars, historyVars
  <2>2. ~ writeFailed /\ Completed' = Completed /\ BodyWritten' = BodyWritten
    BY <2>1 DEF FrameInv, Frames, Completed, BodyWritten
  <2>3. \A i \in 1 .. Completed' : IsWhole(msgFile'[i]) \/ (writeFailed' /\ i = Last')
    BY <2>2, KeepFrames
  <2> QED
    BY <2>1, <2>2, <2>3 DEF Frames
<1>5. CASE MsgStop
  <2>1. Last > 0 /\ msgLenPos = Last - 1 /\ StopLength /\ pc = "stop" /\ pc' = "stopped"
        /\ writeFailed' = writeFailed
    BY <1>1, <1>5 DEF MsgStop, Framing, Copying, historyVars
  <2>2. Last' = Last /\ msgFile'[Last].body = msgFile[Last].body
    BY <1>1, <2>1, StopLengthEffect
  <2>3. Completed' = Completed /\ BodyWritten' = BodyWritten
    BY <2>1, <2>2 DEF Completed, BodyWritten, Last
  <2>4. \A i \in 1 .. Completed' : IsWhole(msgFile'[i]) \/ (writeFailed' /\ i = Last')
    BY <2>1, <2>3, KeepFrames
  <2> QED
    BY <2>1, <2>3, <2>4 DEF FrameInv, Frames
<1> QED
  BY <1>2, <1>3, <1>4, <1>5

\* msgStop ends: the message joins the complete ones.
LEMMA FramesStop ==
  ASSUME FrameInv, MailCopied \/ MailNotCopied
  PROVE  Frames'
<1>1. /\ pc = "stopped" /\ UNCHANGED <<msgFile, writeFailed>>
      /\ pc' \in {"next", "dele", "finish"}
      /\ IF BodyWritten THEN TRUE ELSE pc' = "finish"
  BY DEF MailCopied, MailNotCopied, StopEnd, CopyFails, Return, historyVars
<1>2. Completed = Last - 1 /\ Completed' = Last /\ Last' = Last /\ Last \in Nat
  BY <1>1, CompletedInt DEF FrameInv, MailInv, IInv, TypeOK, Completed, Last
<1>3. msgFile[Last].len = msgFile[Last].body /\ (BodyWritten <=> ~ writeFailed)
  BY <1>1 DEF FrameInv, MailInv, Copied, Frames
<1>4. IsWhole(msgFile[Last]) \/ writeFailed
  BY <1>3 DEF IsWhole, BodyWritten, Last
<1>5. \A i \in 1 .. Last - 1 : IsWhole(msgFile[i])
  BY <1>2 DEF FrameInv, Frames
<1>6. \A i \in 1 .. Completed' : IsWhole(msgFile'[i]) \/ (writeFailed' /\ i = Last')
  <2> TAKE i \in 1 .. Completed'
  <2>1. i \in 1 .. Last - 1 \/ i = Last
    BY <1>2
  <2> QED
    BY <1>1, <1>2, <1>4, <1>5, <2>1 DEF IsWhole
<1> QED
  BY <1>1, <1>3, <1>6 DEF Frames

\* closeAll leaves exactly the complete messages.
LEMMA FramesClose ==
  ASSUME FrameInv, Grows, Finish \/ SignalHandler, ~ AbortInStart
  PROVE  Frames'
<1>1. /\ CloseAll /\ pc' = "ended" /\ writeFailed' = writeFailed /\ pc # "head"
      /\ AreasType(Mails) /\ Framing /\ Completed \in Int /\ Last \in Nat
  BY CompletedInt DEF Finish, SignalHandler, historyVars, FrameInv, MailInv, IInv, TypeOK
<1>2. Completed' = Last'
  BY <1>1 DEF Completed, Last
<1>3. CASE pc \in Copying
  <2>1. msgStarted /\ msgLenPos >= 0 /\ msgLenPos = Last - 1 /\ Completed = Last - 1
    BY <1>1, <1>3 DEF Framing, Completed, Copying, Last
  <2>2. Completed' = Completed
    BY <1>1, <1>2, <2>1, CloseAllEffect
  <2>3. writeFailed => pc \in {"stop", "stopped"}
    BY <1>3 DEF FrameInv, Frames, Copying
  <2> QED
    BY <1>1, <2>2, <2>3, KeepFrames DEF Frames
<1>4. CASE pc \notin Copying
  <2>1. UNCHANGED msgFile
    BY <1>1, <1>4 DEF Framing, CloseAll
  <2>2. Last' = Last /\ Completed' = Completed
    BY <1>2, <1>4, <2>1 DEF Completed, Copying, Last
  <2> QED
    BY <1>1, <2>2, KeepFrames DEF Frames
<1> QED
  BY <1>3, <1>4

LEMMA FramesNext == ASSUME ~ AbortInStart PROVE FrameInv /\ [Next]_vars => FrameInv'
<1> SUFFICES ASSUME FrameInv, [Next]_vars PROVE Frames'
  BY MailNext DEF FrameInv
<1>1. IInv /\ IInv'
  BY InvNext DEF FrameInv, MailInv
<1>2. CASE Rerun
  <2>1. msgFile' = << >> /\ pc' = "connect" /\ writeFailed' = FALSE
    BY <1>2 DEF Rerun
  <2>2. Completed' = 0
    BY <2>1 DEF Completed
  <2> QED
    BY <2>1, <2>2 DEF Frames
<1>3. CASE ~ Rerun
  <2>1. Grows
    BY <1>1, <1>3, StepGrows
  <2>2. CASE MsgHead \/ WriteMail \/ WriteEnd \/ WriteError \/ MsgStop
    BY <1>1, <2>1, <2>2, FramesCopy
  <2>3. CASE MailCopied \/ MailNotCopied
    BY <2>3, FramesStop
  <2>4. CASE Finish \/ SignalHandler
    BY <2>1, <2>4, FramesClose
  <2>5. CASE \/ Connect \/ Retr \/ LoopEnd \/ ReadMsg \/ EmptyMail \/ MsgStart \/ Dele
             \/ NextMail \/ ForceQuit \/ Reconnect \/ LastQuit \/ Lost \/ Refused
             \/ MailArrives \/ UNCHANGED vars
    <3>1. UNCHANGED <<msgFile, writeFailed>>
      BY <2>5 DEF Connect, Retr, LoopEnd, ReadMsg, EmptyMail, CopyFails, MsgStart, StartBegin,
        Dele, NextMail, ForceQuit, Reconnect, LastQuit, Lost, Refused, LostIn, RefusedIn,
        MailArrives, areasVars, historyVars, vars
    <3>2. \/ pc' = pc
          \/ /\ pc \in {"connect", "loop", "read", "start", "dele", "next", "reconnect",
                         "lastquit"}
             /\ pc' \notin Copying
      BY <2>5 DEF Connect, Retr, LoopEnd, ReadMsg, EmptyMail, CopyFails, Return, MsgStart, Dele,
        NextMail, ForceQuit, Reconnect, LastQuit, Lost, Refused, LostIn, RefusedIn,
        MailArrives, vars, Copying
    <3>3. writeFailed => pc' = pc
      BY <3>2 DEF FrameInv, Frames
    <3> QED
      BY <2>1, <3>1, <3>2, <3>3, FramesQuiet DEF Copying
  <2> QED
    BY <1>3, <2>2, <2>3, <2>4, <2>5 DEF Next, MainNext, Proceed
<1> QED
  BY <1>2, <1>3

LEMMA FramesInit == Init => FrameInv
<1> SUFFICES ASSUME Init PROVE Frames
  BY MailInit DEF FrameInv
<1>1. Completed = 0
  BY DEF Init, AreasInit, Completed
<1> QED
  BY <1>1 DEF Init, Frames

\* The file the reader takes over holds whole mails only, but for the last one if
\* a write failed (areas.cc 80-84, pop3.cc 449-466): neither an abort nor a lost
\* connection leaves a part of a mail in it, if no signal arrives inside msgStart.
THEOREM FramesComplete == ASSUME ~ AbortInStart PROVE Spec => []FramesWhole
<1>1. FrameInv => FramesWhole
  <2> SUFFICES ASSUME FrameInv, pc = "ended", NEW i \in DOMAIN msgFile
               PROVE  IsWhole(msgFile[i]) \/ (writeFailed /\ i = Len(msgFile))
    BY DEF FramesWhole
  <2>1. i \in 1 .. Completed
    BY FileType DEF FrameInv, MailInv, IInv, TypeOK, Completed, Last
  <2> QED
    BY <2>1 DEF FrameInv, Frames, Last
<1> QED
  BY FramesInit, FramesNext, <1>1, PTL DEF Spec
-----------------------------------------------------------------------------
(* What the success of getMail means: all mails that were there at login     *)
(* are in the file, and none of them is left in the mailbox.  Without -D     *)
(* the loop takes the mails in the order of their numbers; with -D each      *)
(* session takes the first mail of the mailbox, so that the loop has to be   *)
(* counted against the mails that remain.                                    *)
(*                                                                           *)
(* How often a mail is received with -D: every copy too many has a fault     *)
(* of its own.  The invariant counts, with the copies the user has, those    *)
(* that are still to come: the mails of the mailbox the user already has,    *)
(* but for the one that leaves it with the next QUIT.                        *)

\* The mails of the first login that are still in the mailbox.
Remaining == wanted \intersect mailbox

Marking ==
  /\ wanted \subseteq 1 .. arrived
  /\ pc = "next" => readOnly \/ msgNumber \in dele
  /\ pc = "lastquit" => count > msgTotal

\* Without -D: the mails before the present one are in the file and marked.
InOrder ==
  ~ forceMailDelete /\ pc \in AtMail \union {"loop", "lastquit"} =>
    /\ msgNumber = count
    /\ \A m \in wanted : \E n \in 1 .. msgTotal : view[n] = m
    /\ \A n \in 1 .. count - 1 : view[n] \in InFile /\ (readOnly \/ n \in dele)

\* With -D: what has left the mailbox is in the file, late mail has higher
\* numbers, and the loop has as many turns left as there are mails.
Gone ==
  /\ wanted \ mailbox \subseteq InFile
  /\ \A w \in wanted, m \in mailbox \ wanted : w < m

Turns ==
  /\ Cardinality(Remaining) = msgTotal - count + 1
  /\ view[1] \in Remaining
  /\ dele = IF pc = "next" THEN {1} ELSE {}

AllTaken == \A m \in Remaining : m \in InFile /\ \E n \in dele : view[n] = m

OneByOne ==
  forceMailDelete /\ ~ readOnly /\ ~ quitLost =>
    /\ pc \in AtMail \union {"loop", "lastquit", "reconnect"} => Gone
    /\ pc \in AtMail \union {"loop"} /\ count <= msgTotal => Turns
    /\ pc = "reconnect" => Cardinality(Remaining) = msgTotal - count
    /\ pc \in {"loop", "lastquit"} /\ count > msgTotal => AllTaken

Success ==
  pc = "finish" /\ retcode = 1 /\ ~ quitLost /\ ~ (readOnly /\ forceMailDelete) =>
    /\ wanted \subseteq InFile
    /\ ~ readOnly => Remaining = {}

CompleteInv == MailInv /\ Marking /\ InOrder /\ OneByOne /\ Success
-----------------------------------------------------------------------------
(* The numbers of the server.                                                *)

LEMMA MailboxFinite ==
  ASSUME TypeOK
  PROVE  /\ mailbox \subseteq Mails /\ IsFiniteSet(mailbox) /\ Cardinality(mailbox) \in Nat
         /\ IsFiniteSet(Remaining) /\ Cardinality(Remaining) \in Nat
<1>1. IsFiniteSet(1 .. NumMails + MaxLate)
  BY Constants, FS_Interval
<1>2. mailbox \subseteq Mails
  BY Constants DEF TypeOK, Mails
<1>3. IsFiniteSet(mailbox) /\ IsFiniteSet(Remaining)
  BY <1>1, <1>2, FS_Subset DEF Mails, Remaining
<1> QED
  BY <1>2, <1>3, FS_CardinalityType

\* Every mail has a number at login, and the first one has number 1.
LEMMA NumberingOnto ==
  ASSUME TypeOK, NEW v \in Numberings(mailbox)
  PROVE  /\ DOMAIN v = 1 .. Cardinality(mailbox)
         /\ \A n \in DOMAIN v : v[n] \in mailbox
         /\ \A m \in mailbox : \E n \in 1 .. Cardinality(mailbox) : v[n] = m
         /\ \A i, j \in DOMAIN v : i < j => v[i] < v[j]
<1> DEFINE c == Cardinality(mailbox)
<1>1. /\ v \in [1 .. c -> mailbox]
      /\ \A i, j \in DOMAIN v : i < j => v[i] < v[j]
  BY DEF Numberings
<1>2. c \in Nat /\ mailbox \subseteq Int
  BY MailboxFinite DEF Mails
<1>3. ASSUME NEW m \in mailbox, \A n \in 1 .. c : v[n] # m
      PROVE  FALSE
  <2>1. v \in [1 .. c -> mailbox \ {m}]
    BY <1>1, <1>3
  <2>2. IsFiniteSet(mailbox \ {m}) /\ Cardinality(mailbox \ {m}) = c - 1
    BY MailboxFinite, FS_RemoveElement
  <2>3. IsFiniteSet(1 .. c) /\ Cardinality(1 .. c) = c
    BY <1>2, FS_Interval
  <2>4. Cardinality(mailbox \ {m}) < Cardinality(1 .. c)
    BY <1>2, <2>2, <2>3
  <2>5. PICK i, j \in 1 .. c : i # j /\ v[i] = v[j]
    <3> HIDE DEF c
    <3> QED
      BY <2>1, <2>2, <2>3, <2>4, FS_PigeonHole
  <2>6. i < j \/ j < i
    BY <1>2, <2>5
  <2>7. v[i] \in Int /\ i \in DOMAIN v /\ j \in DOMAIN v
    <3> HIDE DEF c
    <3> QED
      BY <1>1, <1>2
  <2>8. v[i] < v[j] \/ v[j] < v[i]
    <3> HIDE DEF c
    <3> QED
      BY <1>1, <2>6, <2>7
  <2> QED
    BY <2>5, <2>7, <2>8
<1> QED
  BY <1>1, <1>3

\* With -D, the first mail is one of the mails that remain, if there is any.
LEMMA FirstRemains ==
  ASSUME TypeOK, NEW v \in Numberings(mailbox), Remaining # {},
         \A w \in wanted, m \in mailbox \ wanted : w < m
  PROVE  v[1] \in Remaining
<1>1. PICK w : w \in wanted /\ w \in mailbox
  BY DEF Remaining
<1>2. PICK n \in 1 .. Cardinality(mailbox) : v[n] = w
  BY <1>1, NumberingOnto
<1>3. /\ 1 \in DOMAIN v /\ n \in DOMAIN v /\ v[1] \in mailbox /\ n \in Int /\ n >= 1
      /\ mailbox \subseteq Int /\ Cardinality(mailbox) \in Nat
  BY NumberingOnto, MailboxFinite DEF Mails
<1>4. n = 1 \/ v[1] < w
  BY <1>2, <1>3, NumberingOnto
<1>5. v[1] \in wanted
  <2> SUFFICES ASSUME v[1] \notin wanted PROVE FALSE
    OBVIOUS
  <2>1. w < v[1] /\ w \in Int /\ v[1] \in Int
    BY <1>1, <1>3
  <2> QED
    BY <1>1, <1>2, <1>4, <2>1
<1> QED
  BY <1>3, <1>5 DEF Remaining

\* One mail leaves the mailbox.
LEMMA OneRemoved ==
  ASSUME TypeOK, NEW m \in Remaining, mailbox' = mailbox \ {m}, wanted' = wanted
  PROVE  Remaining' = Remaining \ {m} /\ Cardinality(Remaining') = Cardinality(Remaining) - 1
<1>1. Remaining' = Remaining \ {m}
  BY DEF Remaining
<1> QED
  BY <1>1, MailboxFinite, FS_RemoveElement

LEMMA OnlyOne ==
  ASSUME TypeOK, NEW m \in Remaining, Cardinality(Remaining) = 1
  PROVE  Remaining = {m}
  BY MailboxFinite, FS_Singleton
-----------------------------------------------------------------------------
(* The steps of getMail.                                                     *)

\* Copying a mail changes nothing but the file.
CopySteps == Retr \/ ReadMsg \/ MsgStart \/ MsgHead \/ WriteMail \/ WriteEnd \/ WriteError
               \/ MsgStop \/ MailCopied

LEMMA CompleteCopy ==
  ASSUME CompleteInv, InFile \subseteq InFile', CopySteps, UNCHANGED <<options, arrived>>
  PROVE  Marking' /\ InOrder' /\ OneByOne' /\ Success'
<1>1. UNCHANGED <<readOnly, forceMailDelete, arrived, msgTotal, count, msgNumber, mailbox, view,
                  dele, wanted, quitLost, retcode>>
  BY DEF CopySteps, Retr, ReadMsg, MsgStart, MsgHead, WriteMail, WriteEnd, WriteError, MsgStop,
    MailCopied, options, localVars, serverVars, historyVars
<1>2. /\ pc \in AtMail \union {"loop"} /\ pc # "next" /\ count <= msgTotal
      /\ pc' \in AtMail /\ (pc' = "next" => readOnly)
  BY DEF CopySteps, Retr, ReadMsg, MsgStart, MsgHead, WriteMail, WriteEnd, WriteError, MsgStop,
    MailCopied, CompleteInv, MailInv, IInv, Numbers, AtMail, Copying
<1>3. pc' \notin {"loop", "lastquit", "reconnect", "finish"}
  BY <1>2 DEF AtMail, Copying
<1>4. Remaining' = Remaining
  BY <1>1 DEF Remaining
<1>5. Marking' /\ Success'
  BY <1>1, <1>2, <1>3 DEF CompleteInv, Marking, Success
<1>6. InOrder'
  BY <1>1, <1>2 DEF CompleteInv, InOrder
<1>7. OneByOne'
  <2> SUFFICES ASSUME forceMailDelete, ~ readOnly, ~ quitLost PROVE Gone' /\ Turns'
    BY <1>1, <1>2, <1>3 DEF OneByOne
  <2>1. Gone /\ Turns /\ pc' # "next"
    BY <1>2 DEF CompleteInv, OneByOne
  <2> QED
    BY <1>1, <1>2, <1>4, <2>1 DEF Gone, Turns
<1> QED
  BY <1>5, <1>6, <1>7

\* The mail is marked by DELE.
LEMMA CompleteDele ==
  ASSUME CompleteInv, InFile \subseteq InFile', Dele, UNCHANGED <<options, arrived>>
  PROVE  Marking' /\ InOrder' /\ OneByOne' /\ Success'
<1>1. /\ UNCHANGED <<readOnly, forceMailDelete, arrived, msgTotal, count, msgNumber, mailbox, view,
                     wanted, quitLost>>
      /\ pc = "dele" /\ pc' = "next" /\ dele' = dele \union {msgNumber}
  BY DEF Dele, options, localVars, historyVars
<1>2. Remaining' = Remaining
  BY <1>1 DEF Remaining
<1>3. Marking' /\ InOrder' /\ Success'
  BY <1>1 DEF CompleteInv, Marking, InOrder, Success, AtMail
<1>4. OneByOne'
  <2> SUFFICES ASSUME forceMailDelete, ~ readOnly, ~ quitLost PROVE Gone' /\ Turns'
    BY <1>1 DEF OneByOne
  <2>1. count <= msgTotal /\ msgNumber = 1
    BY <1>1 DEF CompleteInv, MailInv, IInv, Numbers, AtMail
  <2>2. Gone /\ Turns
    BY <1>1, <2>1 DEF CompleteInv, OneByOne, AtMail
  <2> QED
    BY <1>1, <1>2, <2>1, <2>2 DEF Gone, Turns
<1> QED
  BY <1>3, <1>4

\* The loop goes to the next mail of the session.
LEMMA CompleteNext ==
  ASSUME CompleteInv, InFile \subseteq InFile', NextMail, UNCHANGED <<options, arrived>>
  PROVE  Marking' /\ InOrder' /\ OneByOne' /\ Success'
<1>1. /\ UNCHANGED <<readOnly, forceMailDelete, arrived, msgTotal, mailbox, view, dele, wanted,
                     quitLost>>
      /\ pc = "next" /\ pc' = "loop" /\ count' = count + 1 /\ msgNumber' = msgNumber + 1
      /\ ~ (forceMailDelete /\ count < msgTotal)
  BY DEF NextMail, MustRelogin, options, serverVars, historyVars
<1>2. /\ count \in Int /\ msgTotal \in Int /\ count <= msgTotal
      /\ view[msgNumber] \in InFile
  BY <1>1, Constants DEF CompleteInv, MailInv, IInv, TypeOK, Numbers, AtMail, Copied
<1>3. Remaining' = Remaining
  BY <1>1 DEF Remaining
<1>4. Marking' /\ Success'
  BY <1>1 DEF CompleteInv, Marking, Success
<1>5. InOrder'
  <2> SUFFICES ASSUME ~ forceMailDelete
               PROVE  /\ msgNumber' = count'
                      /\ \A m \in wanted : \E n \in 1 .. msgTotal : view[n] = m
                      /\ \A n \in 1 .. count : view[n] \in InFile' /\ (readOnly \/ n \in dele)
    BY <1>1, <1>2 DEF InOrder
  <2>1. /\ msgNumber = count
        /\ \A m \in wanted : \E n \in 1 .. msgTotal : view[n] = m
        /\ \A n \in 1 .. count - 1 : view[n] \in InFile /\ (readOnly \/ n \in dele)
    BY <1>1 DEF CompleteInv, InOrder, AtMail
  <2>2. readOnly \/ count \in dele
    BY <1>1, <2>1 DEF CompleteInv, Marking
  <2>3. ASSUME NEW n \in 1 .. count PROVE n \in 1 .. count - 1 \/ n = count
    BY <1>2
  <2> QED
    BY <1>1, <1>2, <2>1, <2>2, <2>3
<1>6. OneByOne'
  <2> SUFFICES ASSUME forceMailDelete, ~ readOnly, ~ quitLost
               PROVE  Gone' /\ AllTaken' /\ ~ (count' <= msgTotal')
    BY <1>1 DEF OneByOne
  <2>1. count = msgTotal /\ count' = msgTotal + 1
    BY <1>1, <1>2
  <2>2. Gone /\ Turns
    BY <1>1, <1>2 DEF CompleteInv, OneByOne, AtMail
  <2>3. Cardinality(Remaining) = 1 /\ view[1] \in Remaining /\ dele = {1}
    BY <1>1, <1>2, <2>1, <2>2 DEF Turns
  <2>4. Remaining = {view[1]}
    BY <2>3, OnlyOne DEF CompleteInv, MailInv, IInv
  <2>5. msgNumber = 1
    BY <1>1, <1>2 DEF CompleteInv, MailInv, IInv, Numbers, AtMail
  <2>6. AllTaken'
    BY <1>1, <1>2, <1>3, <2>3, <2>4, <2>5 DEF AllTaken
  <2>7. Gone'
    BY <1>1, <2>2 DEF Gone
  <2> QED
    BY <1>1, <1>2, <2>1, <2>6, <2>7
<1> QED
  BY <1>4, <1>5, <1>6

LEMMA CompleteLoopEnd ==
  ASSUME CompleteInv, InFile \subseteq InFile', LoopEnd, UNCHANGED <<options, arrived>>
  PROVE  Marking' /\ InOrder' /\ OneByOne' /\ Success'
<1>1. /\ UNCHANGED <<readOnly, forceMailDelete, arrived, msgTotal, count, msgNumber, mailbox, view,
                     dele, wanted, quitLost>>
      /\ pc = "loop" /\ pc' = "lastquit" /\ count > msgTotal
  BY DEF LoopEnd, options, localVars, serverVars, historyVars
<1>2. Remaining' = Remaining
  BY <1>1 DEF Remaining
<1>3. Marking' /\ InOrder' /\ Success'
  BY <1>1 DEF CompleteInv, Marking, InOrder, Success
<1>4. OneByOne'
  <2> SUFFICES ASSUME forceMailDelete, ~ readOnly, ~ quitLost PROVE Gone' /\ AllTaken'
    BY <1>1 DEF OneByOne, AtMail, Copying
  <2>1. Gone /\ AllTaken
    BY <1>1 DEF CompleteInv, OneByOne
  <2> QED
    BY <1>1, <1>2, <2>1 DEF Gone, AllTaken
<1> QED
  BY <1>3, <1>4

\* The first login: all the mails are wanted, and none of them is taken yet.
LEMMA CompleteConnect ==
  ASSUME CompleteInv, Connect, UNCHANGED <<options, arrived>>
  PROVE  Marking' /\ InOrder' /\ OneByOne' /\ Success'
<1>1. /\ UNCHANGED <<readOnly, forceMailDelete, arrived, count, msgNumber, mailbox>>
      /\ wanted' = mailbox /\ msgTotal' = Cardinality(mailbox) /\ pc' = "loop"
      /\ count = 1 /\ msgNumber = 1 /\ dele' = {} /\ view' \in Numberings(mailbox)
  BY DEF Connect, Login, options, CompleteInv, MailInv, IInv, Numbers
<1>2. TypeOK /\ Cardinality(mailbox) \in Nat
  BY MailboxFinite DEF CompleteInv, MailInv, IInv
<1>3. Remaining' = mailbox
  BY <1>1 DEF Remaining
<1>4. Marking' /\ Success'
  BY <1>1, <1>2 DEF Marking, Success, TypeOK
<1>5. InOrder'
  <2>1. \A m \in mailbox : \E n \in 1 .. Cardinality(mailbox) : view'[n] = m
    BY <1>1, <1>2, NumberingOnto
  <2>2. 1 .. count' - 1 = {}
    BY <1>1
  <2> QED
    BY <1>1, <2>1, <2>2 DEF InOrder
<1>6. OneByOne'
  <2>1. Gone'
    BY <1>1 DEF Gone
  <2>2. ASSUME count' <= msgTotal' PROVE Turns'
    <3>1. Cardinality(mailbox) >= 1 /\ 1 \in 1 .. Cardinality(mailbox)
      BY <1>1, <1>2, <2>2
    <3>2. view'[1] \in mailbox
      BY <1>1, <1>2, <3>1, NumberingOnto
    <3> QED
      BY <1>1, <1>2, <1>3, <3>2 DEF Turns
  <2>3. ASSUME count' > msgTotal' PROVE AllTaken'
    <3>1. mailbox = {}
      BY <1>1, <1>2, <2>3, MailboxFinite, FS_EmptySet
    <3> QED
      BY <1>3, <3>1 DEF AllTaken
  <2> QED
    BY <1>1, <2>1, <2>2, <2>3 DEF OneByOne
<1> QED
  BY <1>4, <1>5, <1>6

\* A login after the QUIT of -D: the next of the mails that remain is the first.
LEMMA CompleteReconnect ==
  ASSUME CompleteInv, InFile \subseteq InFile', Reconnect, UNCHANGED <<options, arrived>>
  PROVE  Marking' /\ InOrder' /\ OneByOne' /\ Success'
<1>1. /\ UNCHANGED <<readOnly, forceMailDelete, arrived, mailbox, wanted, quitLost>>
      /\ pc = "reconnect" /\ pc' = "loop" /\ count' = count + 1 /\ dele' = {}
      /\ msgTotal' = IF mailbox = {} THEN 0 ELSE msgTotal
      /\ view' \in Numberings(mailbox)
      /\ forceMailDelete /\ count < msgTotal
  BY DEF Reconnect, Login, options, historyVars, CompleteInv, MailInv, IInv, Numbers
<1>2. TypeOK /\ count \in Int /\ msgTotal \in Int
  BY Constants DEF CompleteInv, MailInv, IInv, TypeOK
<1>3. Remaining' = Remaining
  BY <1>1 DEF Remaining
<1>4. Marking' /\ Success' /\ InOrder'
  BY <1>1 DEF CompleteInv, Marking, Success, InOrder
<1>5. OneByOne'
  <2> SUFFICES ASSUME ~ readOnly, ~ quitLost
               PROVE  Gone' /\ Turns' /\ ~ (count' > msgTotal')
    BY <1>1 DEF OneByOne
  <2>1. Gone /\ Cardinality(Remaining) = msgTotal - count
    BY <1>1 DEF CompleteInv, OneByOne
  <2>2. Cardinality(Remaining) # 0
    BY <1>1, <1>2, <2>1
  <2>3. Remaining # {}
    BY <2>2, FS_EmptySet
  <2>4. mailbox # {}
    BY <2>3 DEF Remaining
  <2>5. view'[1] \in Remaining
    BY <1>1, <1>2, <2>1, <2>3, FirstRemains DEF Gone
  <2>6. msgTotal' = msgTotal /\ ~ (count' > msgTotal')
    BY <1>1, <1>2, <2>4
  <2>7. Turns'
    BY <1>1, <1>2, <1>3, <2>1, <2>5, <2>6 DEF Turns
  <2>8. Gone'
    BY <1>1, <2>1 DEF Gone
  <2> QED
    BY <2>6, <2>7, <2>8
<1> QED
  BY <1>4, <1>5

\* The QUIT of -D removes the mail that was taken, or does not arrive.
LEMMA CompleteForceQuit ==
  ASSUME CompleteInv, InFile \subseteq InFile', ForceQuit, UNCHANGED <<options, arrived>>
  PROVE  Marking' /\ InOrder' /\ OneByOne' /\ Success'
<1>1. /\ UNCHANGED <<readOnly, forceMailDelete, arrived, msgTotal, count, wanted>>
      /\ pc = "next" /\ pc' = "reconnect" /\ forceMailDelete
      /\ \/ Expunge /\ UNCHANGED quitLost
         \/ quitLost' = TRUE
  BY DEF ForceQuit, MustRelogin, SendQuit, options, localVars
<1>2. Marking' /\ Success' /\ InOrder'
  BY <1>1 DEF CompleteInv, Marking, Success, InOrder
<1>3. OneByOne'
  <2> SUFFICES ASSUME ~ readOnly, ~ quitLost, Expunge
               PROVE  Gone' /\ Cardinality(Remaining') = msgTotal - count
    BY <1>1 DEF OneByOne, AtMail, Copying
  <2>1. /\ count <= msgTotal /\ msgNumber = 1 /\ view[msgNumber] \in InFile
        /\ count \in Int /\ msgTotal \in Int
    BY <1>1, Constants DEF CompleteInv, MailInv, IInv, TypeOK, Numbers, AtMail, Copied
  <2>2. Gone /\ Turns
    BY <1>1, <2>1 DEF CompleteInv, OneByOne, AtMail
  <2>3. mailbox' = mailbox \ {view[1]} /\ view[1] \in Remaining
    BY <1>1, <2>2 DEF Turns, Expunge
  <2>4. Cardinality(Remaining') = Cardinality(Remaining) - 1
    BY <1>1, <2>3, OneRemoved DEF CompleteInv, MailInv, IInv
  <2>5. Cardinality(Remaining') = msgTotal - count
    BY <2>1, <2>2, <2>4 DEF Turns
  <2>6. Gone'
    BY <1>1, <2>1, <2>2, <2>3 DEF Gone
  <2> QED
    BY <2>5, <2>6
<1> QED
  BY <1>2, <1>3

\* The last QUIT removes all that was marked: getMail has succeeded.
LEMMA CompleteLastQuit ==
  ASSUME CompleteInv, InFile \subseteq InFile', LastQuit, UNCHANGED <<options, arrived>>
  PROVE  Marking' /\ InOrder' /\ OneByOne' /\ Success'
<1>1. /\ UNCHANGED <<readOnly, forceMailDelete, arrived, wanted>>
      /\ pc = "lastquit" /\ pc' = "finish"
      /\ \/ Expunge /\ UNCHANGED quitLost
         \/ quitLost' = TRUE
  BY DEF LastQuit, Return, SendQuit, options
<1>2. Marking' /\ InOrder' /\ OneByOne'
  BY <1>1 DEF CompleteInv, Marking, InOrder, OneByOne, AtMail, Copying
<1>3. count > msgTotal /\ count \in Int /\ msgTotal \in Int
  BY <1>1, Constants DEF CompleteInv, Marking, MailInv, IInv, TypeOK
<1>4. Success'
  <2> SUFFICES ASSUME ~ quitLost, Expunge, ~ (readOnly /\ forceMailDelete)
               PROVE  wanted \subseteq InFile /\ (~ readOnly => Remaining' = {})
    BY <1>1 DEF Success
  <2>1. ASSUME NEW m \in wanted, ~ forceMailDelete
        PROVE  m \in InFile /\ (~ readOnly => m \notin mailbox')
    <3>1. /\ \A k \in wanted : \E n \in 1 .. msgTotal : view[n] = k
          /\ \A n \in 1 .. count - 1 : view[n] \in InFile /\ (readOnly \/ n \in dele)
      BY <1>1, <2>1 DEF CompleteInv, InOrder
    <3>2. PICK n \in 1 .. msgTotal : view[n] = m
      BY <3>1
    <3>3. n \in 1 .. count - 1
      BY <1>3
    <3> QED
      BY <3>1, <3>2, <3>3 DEF Expunge
  <2>2. ASSUME NEW m \in wanted, forceMailDelete
        PROVE  m \in InFile /\ m \notin mailbox'
    <3>1. Gone /\ AllTaken
      BY <1>1, <1>3, <2>2 DEF CompleteInv, OneByOne
    <3> QED
      BY <3>1 DEF Gone, AllTaken, Remaining, Expunge
  <2> QED
    BY <1>1, <2>1, <2>2 DEF Remaining
<1> QED
  BY <1>2, <1>4
-----------------------------------------------------------------------------
(* The other steps.                                                          *)

LEMMA CompleteEnd ==
  ASSUME CompleteInv, UNCHANGED <<options, arrived>>,
         EmptyMail \/ MailNotCopied \/ Lost \/ Refused \/ SignalHandler \/ Finish
  PROVE  Marking' /\ InOrder' /\ OneByOne' /\ Success'
<1>1. /\ wanted' = wanted /\ arrived' = arrived
      /\ pc' = "ended" \/ (pc' = "finish" /\ retcode' = 0)
  BY DEF EmptyMail, MailNotCopied, CopyFails, Return, Lost, Refused, LostIn, RefusedIn,
    SignalHandler, Finish, historyVars
<1> QED
  BY <1>1 DEF CompleteInv, Marking, InOrder, OneByOne, Success, AtMail, Copying

LEMMA CompleteRerun == ASSUME Rerun PROVE Marking' /\ InOrder' /\ OneByOne' /\ Success'
  BY DEF Rerun, Marking, InOrder, OneByOne, Success, AtMail, Copying

\* Late mail is none of those wanted, and comes behind them.
LEMMA CompleteArrival ==
  ASSUME CompleteInv, MailArrives
  PROVE  Marking' /\ InOrder' /\ OneByOne' /\ Success'
<1>1. /\ UNCHANGED <<msgFile, pc, readOnly, forceMailDelete, msgTotal, count, msgNumber, retcode,
                     view, dele, wanted, quitLost>>
      /\ arrived' = arrived + 1 /\ mailbox' = mailbox \union {arrived'}
  BY DEF MailArrives, areasVars, options, localVars, historyVars
<1>2. arrived \in Int /\ wanted \subseteq 1 .. arrived
  BY Constants DEF CompleteInv, Marking, MailInv, IInv, TypeOK
<1>3. arrived' \notin wanted /\ \A w \in wanted : w < arrived'
  BY <1>1, <1>2
<1>4. Remaining' = Remaining /\ wanted \ mailbox' = wanted \ mailbox
  BY <1>1, <1>3 DEF Remaining
<1>5. InFile' = InFile
  <2>1. Completed' = Completed
    BY <1>1 DEF Completed
  <2> QED
    BY <1>1, <2>1 DEF InFile, IsWhole
<1>6. wanted \subseteq 1 .. arrived'
  BY <1>1, <1>2
<1>7. Marking' /\ InOrder' /\ Success'
  BY <1>1, <1>4, <1>5, <1>6 DEF CompleteInv, Marking, InOrder, Success
<1>8. Gone => Gone'
  BY <1>1, <1>3, <1>4, <1>5 DEF Gone
<1>9. (Turns => Turns') /\ (AllTaken => AllTaken')
  BY <1>1, <1>4, <1>5 DEF Turns, AllTaken
<1>10. OneByOne'
  BY <1>1, <1>4, <1>8, <1>9 DEF CompleteInv, OneByOne
<1> QED
  BY <1>7, <1>10

LEMMA CompleteStutter ==
  ASSUME CompleteInv, UNCHANGED vars
  PROVE  Marking' /\ InOrder' /\ OneByOne' /\ Success'
<1>1. /\ UNCHANGED <<msgFile, pc, readOnly, forceMailDelete, msgTotal, count, msgNumber, retcode,
                     view, dele, wanted, quitLost, mailbox, arrived>>
  BY DEF vars, areasVars, options, localVars, serverVars, historyVars
<1>2. Remaining' = Remaining /\ InFile' = InFile
  BY <1>1 DEF Remaining, InFile, Completed, IsWhole
<1> QED
  BY <1>1, <1>2 DEF CompleteInv, Marking, InOrder, OneByOne, Gone, Turns, AllTaken, Success

LEMMA CompleteInit == Init => CompleteInv
<1> SUFFICES ASSUME Init PROVE Marking /\ InOrder /\ OneByOne /\ Success
  BY MailInit DEF CompleteInv
<1> QED
  BY DEF Init, Marking, InOrder, OneByOne, Success, AtMail, Copying

LEMMA CompleteStep == ASSUME ~ AbortInStart PROVE CompleteInv /\ [Next]_vars => CompleteInv'
<1> SUFFICES ASSUME CompleteInv, [Next]_vars PROVE Marking' /\ InOrder' /\ OneByOne' /\ Success'
  BY MailNext DEF CompleteInv
<1>1. CASE Rerun
  BY <1>1, CompleteRerun
<1>2. CASE MailArrives \/ UNCHANGED vars
  BY <1>2, CompleteArrival, CompleteStutter
<1>3. CASE ~ Rerun /\ (MainNext \/ SignalHandler)
  <2>1. UNCHANGED <<options, arrived>>
    BY <1>3 DEF MainNext, WriteError, SignalHandler
  <2>2. InFile \subseteq InFile'
    <3>1. IInv /\ IInv'
      BY InvNext DEF CompleteInv, MailInv
    <3> QED
      BY <1>3, <3>1, StepGrows, InFileGrows DEF IInv, TypeOK
  <2>3. CASE CopySteps \/ Dele
    BY <2>1, <2>2, <2>3, CompleteCopy, CompleteDele
  <2>4. CASE NextMail \/ LoopEnd
    BY <2>1, <2>2, <2>4, CompleteNext, CompleteLoopEnd
  <2>5. CASE Connect \/ Reconnect
    BY <2>1, <2>2, <2>5, CompleteConnect, CompleteReconnect
  <2>6. CASE ForceQuit \/ LastQuit
    BY <2>1, <2>2, <2>6, CompleteForceQuit, CompleteLastQuit
  <2>7. CASE EmptyMail \/ MailNotCopied \/ Lost \/ Refused \/ SignalHandler \/ Finish
    BY <2>1, <2>7, CompleteEnd
  <2> QED
    BY <1>3, <2>3, <2>4, <2>5, <2>6, <2>7 DEF MainNext, Proceed, CopySteps
<1> QED
  BY <1>1, <1>2, <1>3 DEF Next

\* If getMail reports success, all mails of the first login are whole in the file,
\* and without -r none of them is left in the mailbox (pop3.cc 514-560), whatever
\* mail arrives meanwhile: with -D the loop, which counts sessions and not mails,
\* ends neither too early nor too late.  A lost QUIT and -r with -D are excepted.
THEOREM SuccessIsComplete == ASSUME ~ AbortInStart PROVE Spec => []CompleteOnSuccess
<1>1. CompleteInv => CompleteOnSuccess
  <2> SUFFICES ASSUME CompleteInv, pc = "finish", retcode = 1, ~ quitLost,
                      ~ (readOnly /\ forceMailDelete)
               PROVE  /\ wanted \subseteq MailsOf(NewCopies)
                      /\ ~ readOnly => wanted \intersect mailbox = {}
    BY DEF CompleteOnSuccess
  <2>1. wanted \subseteq InFile /\ (~ readOnly => Remaining = {})
    BY DEF CompleteInv, Success
  <2>2. ASSUME NEW i \in 1 .. Completed, IsWhole(msgFile[i])
        PROVE  msgFile[i].msg \in MailsOf(NewCopies)
    <3>1. i \in DOMAIN msgFile
      BY FileType, CompletedInt DEF CompleteInv, MailInv, IInv, TypeOK
    <3>2. <<runs, i, msgFile[i].msg>> \in NewCopies
      BY <2>2, <3>1 DEF NewCopies
    <3> QED
      BY <3>2 DEF MailsOf
  <2>3. InFile \subseteq MailsOf(NewCopies)
    BY <2>2 DEF InFile
  <2> QED
    BY <2>1, <2>3 DEF Remaining
<1> QED
  BY CompleteInit, CompleteStep, <1>1, PTL DEF Spec
-----------------------------------------------------------------------------
(* How often a mail is received.                                             *)

\* The copies the user has too many.
Extra == Cardinality(Received) - Cardinality(MailsOf(Received))

\* The mails that leave the mailbox with the QUIT of this session.
InHand ==
  {view[n] : n \in dele}
    \union IF pc = "dele" \/ (pc = "stopped" /\ BodyWritten) THEN {view[msgNumber]} ELSE {}

\* The mails that will be received again, unless the session gets to its QUIT.
Pending == (mailbox \intersect MailsOf(Received)) \ InHand

CopyTypes ==
  /\ faults \in Nat /\ aborts \in Nat
  /\ IsFiniteSet(Received) /\ MailsOf(Received) \subseteq 1 .. arrived
  /\ \A copy \in imported : copy[1] \in Int /\ copy[1] < runs
  /\ \A n \in DOMAIN view : view[n] \in mailbox
  /\ pc \in {"write", "stop"} => msgFile[Last].len = 0

\* With -D a session marks one mail, the first one, and only after its copy.
FirstOnly ==
  forceMailDelete =>
    /\ dele \subseteq {1}
    /\ pc \in {"read", "start", "head", "dele"} \union Copying => dele = {}
    /\ pc = "loop" /\ count <= msgTotal => dele = {}

\* Each copy too many, the present ones and those still to come, has its fault.
Paid == forceMailDelete /\ ~ readOnly => Extra + Cardinality(Pending) <= faults + aborts

CopyInv == MailInv /\ CopyTypes /\ FirstOnly /\ Paid

LEMMA CountsType ==
  ASSUME CopyTypes, TypeOK
  PROVE  /\ IsFiniteSet(MailsOf(Received)) /\ IsFiniteSet(Pending)
         /\ Cardinality(Received) \in Nat /\ Cardinality(MailsOf(Received)) \in Nat
         /\ Cardinality(Pending) \in Nat
<1>1. IsFiniteSet(MailsOf(Received))
  BY Constants, FS_Interval, FS_Subset DEF CopyTypes, TypeOK
<1>2. IsFiniteSet(Pending)
  BY <1>1, FS_Subset DEF Pending
<1> QED
  BY <1>1, <1>2, FS_CardinalityType DEF CopyTypes

\* A step that changes only frames which are not whole before and after it.
LEMMA CopiesSame ==
  ASSUME AreasType(Mails), AreasType(Mails)', UNCHANGED <<runs, imported>>,
         \A i \in (1 .. Last) \union (1 .. Last') :
           \/ i \in (1 .. Last) \intersect (1 .. Last') /\ msgFile'[i] = msgFile[i]
           \/ /\ i \in 1 .. Last => ~ IsWhole(msgFile[i])
              /\ i \in 1 .. Last' => ~ IsWhole(msgFile'[i])
  PROVE  Received' = Received
<1>1. DOMAIN msgFile = 1 .. Last /\ DOMAIN msgFile' = 1 .. Last'
  BY LenProperties DEF AreasType, Last
<1>2. ASSUME NEW i \in DOMAIN msgFile, IsWhole(msgFile[i])
      PROVE  i \in DOMAIN msgFile' /\ msgFile'[i] = msgFile[i]
  BY <1>1, <1>2
<1>3. ASSUME NEW i \in DOMAIN msgFile', IsWhole(msgFile'[i])
      PROVE  i \in DOMAIN msgFile /\ msgFile'[i] = msgFile[i]
  BY <1>1, <1>3
<1>4. NewCopies' = NewCopies
  BY <1>2, <1>3 DEF NewCopies, IsWhole
<1> QED
  BY <1>4 DEF Received

\* A piece that is written leaves the length as it is.
LEMMA MsgWriteLength ==
  ASSUME AreasType(Mails), Last > 0, MsgWrite
  PROVE  msgFile'[Last].len = msgFile[Last].len
<1>1. msgFile[Last] \in MailFrame /\ Last \in DOMAIN msgFile
  BY FileType
<1> QED
  BY <1>1 DEF MsgWrite, Last, MailFrame, Frame

LEMMA CopiesUnchanged ==
  ASSUME UNCHANGED <<runs, imported, msgFile>>
  PROVE  Received' = Received
  BY DEF Received, NewCopies, IsWhole

\* A copy that is new has one mail.
LEMMA CopyAdded ==
  ASSUME CopyTypes, TypeOK, NEW copy, copy \notin Received, NEW copies,
         copies = Received \union {copy}
  PROVE  /\ IsFiniteSet(copies) /\ Cardinality(copies) = Cardinality(Received) + 1
         /\ MailsOf(copies) = MailsOf(Received) \union {copy[3]}
         /\ Cardinality(MailsOf(copies)) =
              IF copy[3] \in MailsOf(Received) THEN Cardinality(MailsOf(Received))
              ELSE Cardinality(MailsOf(Received)) + 1
<1>1. IsFiniteSet(copies) /\ Cardinality(copies) = Cardinality(Received) + 1
  BY FS_AddElement DEF CopyTypes
<1>2. MailsOf(copies) = MailsOf(Received) \union {copy[3]}
  BY DEF MailsOf
<1> QED
  BY <1>1, <1>2, CountsType, FS_AddElement

\* Without one copy there are not more copies too many.
LEMMA CopyRemoved ==
  ASSUME CopyTypes, TypeOK, NEW copy, NEW copies, copies = Received \ {copy}
  PROVE  /\ IsFiniteSet(copies) /\ MailsOf(copies) \subseteq MailsOf(Received)
         /\ Cardinality(copies) - Cardinality(MailsOf(copies)) <= Extra
<1>1. CASE copy \notin Received
  <2>1. copies = Received
    BY <1>1
  <2>2. Cardinality(copies) - Cardinality(MailsOf(copies)) = Extra
    BY <2>1 DEF Extra
  <2>3. Extra \in Int
    BY CountsType DEF Extra
  <2> QED
    BY <2>1, <2>2, <2>3 DEF CopyTypes
<1>2. CASE copy \in Received
  <2>1. IsFiniteSet(copies) /\ Cardinality(copies) = Cardinality(Received) - 1
    BY <1>2, FS_RemoveElement DEF CopyTypes
  <2>2. /\ MailsOf(copies) \subseteq MailsOf(Received)
        /\ MailsOf(Received) \ {copy[3]} \subseteq MailsOf(copies)
    BY DEF MailsOf
  <2>3. MailsOf(copies) = MailsOf(Received) \/ MailsOf(copies) = MailsOf(Received) \ {copy[3]}
    BY <2>2
  <2>4. Cardinality(MailsOf(copies)) >= Cardinality(MailsOf(Received)) - 1
    <3> DEFINE fewer == MailsOf(Received) \ {copy[3]}
    <3>1. Cardinality(fewer) = IF copy[3] \in MailsOf(Received)
                                 THEN Cardinality(MailsOf(Received)) - 1
                                 ELSE Cardinality(MailsOf(Received))
      BY CountsType, FS_RemoveElement
    <3>2. MailsOf(copies) = MailsOf(Received) \/ MailsOf(copies) = fewer
      BY <2>3
    <3> HIDE DEF fewer
    <3> QED
      BY <3>1, <3>2, CountsType
  <2>5. Cardinality(MailsOf(copies)) \in Nat
    BY <2>2, CountsType, FS_Subset, FS_CardinalityType
  <2>6. Cardinality(copies) - Cardinality(MailsOf(copies)) <= Extra
    BY <2>1, <2>4, <2>5, CountsType DEF Extra
  <2> QED
    BY <2>1, <2>2, <2>6
<1> QED
  BY <1>1, <1>2

LEMMA FewerPending ==
  ASSUME CopyTypes, TypeOK, NEW pending, pending \subseteq Pending
  PROVE  Cardinality(pending) \in Nat /\ Cardinality(pending) <= Cardinality(Pending)
  BY CountsType, FS_Subset, FS_CardinalityType

LEMMA OneMorePending ==
  ASSUME CopyTypes, TypeOK, NEW m, NEW pending, pending \subseteq Pending \union {m}
  PROVE  Cardinality(pending) \in Nat /\ Cardinality(pending) <= Cardinality(Pending) + 1
<1> DEFINE all == Pending \union {m}
<1>1. IsFiniteSet(all) /\ Cardinality(all) \in Nat /\ Cardinality(all) <= Cardinality(Pending) + 1
  <2>1. /\ IsFiniteSet(all)
        /\ Cardinality(all) = Cardinality(Pending) \/ Cardinality(all) = Cardinality(Pending) + 1
    BY CountsType, FS_AddElement
  <2> QED
    BY <2>1, CountsType
<1> HIDE DEF all
<1>2. pending \subseteq all
  BY DEF all
<1> QED
  BY <1>1, <1>2, CountsType, FS_Subset, FS_CardinalityType

\* With -D the session holds the first mail at most.
LEMMA FirstInHand ==
  ASSUME CopyInv, forceMailDelete
  PROVE  /\ InHand \subseteq {view[1]}
         /\ pc \in {"connect", "reconnect", "read", "start", "head", "write", "stop"} => InHand = {}
         /\ pc = "stopped" /\ ~ BodyWritten => InHand = {}
<1>1. pc \in {"dele", "stopped"} => msgNumber = 1
  BY DEF CopyInv, MailInv, IInv, Numbers, AtMail, Copying
<1>2. dele \subseteq {1}
  BY DEF CopyInv, FirstOnly
<1>3. pc \in {"read", "start", "head", "write", "stop", "stopped"} => dele = {}
  BY DEF CopyInv, FirstOnly, Copying
<1>4. pc \in {"connect", "reconnect"} => dele = {}
  BY DEF CopyInv, MailInv, Marked
<1> QED
  BY <1>1, <1>2, <1>3, <1>4 DEF InHand
-----------------------------------------------------------------------------
(* What a step does to the copies.                                           *)

LEMMA RunsStay ==
  ASSUME [Next]_vars, ~ Rerun
  PROVE  UNCHANGED <<runs, imported>>
<1>1. UNCHANGED runs
  BY DEF Next, MainNext, WriteError, SignalHandler, MailArrives, vars, bounds
<1>2. CASE Proceed
  BY <1>1, <1>2 DEF Proceed, Connect, Retr, LoopEnd, ReadMsg, EmptyMail, CopyFails, MsgStart,
    MsgHead, WriteMail, WriteEnd, MsgStop, MailCopied, MailNotCopied, Dele, NextMail, ForceQuit,
    Reconnect, LastQuit, Finish, historyVars
<1>3. CASE ~ Proceed
  BY <1>1, <1>3 DEF Next, MainNext, WriteError, SignalHandler, MailArrives, Lost, Refused, LostIn,
    RefusedIn, historyVars, vars
<1> QED
  BY <1>1, <1>2, <1>3

\* Nothing but the end of a copy and an abort changes what the user has.
LEMMA ReceivedSame ==
  ASSUME CopyInv, IInv', [Next]_vars, ~ MsgStop, ~ SignalHandler
  PROVE  Received' = Received
<1>1. AreasType(Mails) /\ AreasType(Mails)' /\ Framing /\ IInv
  BY DEF CopyInv, MailInv, IInv, TypeOK
<1>2. Last \in Nat
  BY <1>1, FileType
<1>3. CASE MsgHead
  <2>1. StartHead(view[msgNumber]) /\ view[msgNumber] \in Mails
    BY <1>1, <1>3, ViewEffect DEF IInv, TypeOK, MsgHead
  <2>2. /\ Last' = Last + 1
        /\ \A i \in 1 .. Last : msgFile'[i] = msgFile[i]
        /\ msgFile'[Last + 1] = [msg |-> view[msgNumber], body |-> 0, len |-> 0]
    BY <1>1, <2>1, StartHeadEffect
  <2>3. ~ IsWhole(msgFile'[Last + 1])
    BY <2>2, Constants DEF IsWhole
  <2>4. UNCHANGED <<runs, imported>>
    BY <1>3, RunsStay DEF MsgHead, Rerun
  <2> QED
    BY <1>1, <1>2, <2>2, <2>3, <2>4, CopiesSame
<1>4. CASE WriteMail
  <2>1. Last > 0 /\ ~ BodyWritten /\ MsgWrite /\ pc = "write" /\ pc' = "write"
    BY <1>1, <1>4 DEF WriteMail, Framing, Copying
  <2>2. Last' = Last /\ \A i \in 1 .. Last - 1 : msgFile'[i] = msgFile[i]
    BY <1>1, <2>1, MsgWriteEffect
  <2>3. ~ IsWhole(msgFile[Last])
    BY <2>1 DEF IsWhole, BodyWritten, Last
  <2>4. ~ IsWhole(msgFile'[Last])
    BY <1>1, <2>1, MsgWriteLength, Constants DEF CopyInv, CopyTypes, IsWhole
  <2>5. UNCHANGED <<runs, imported>>
    BY <1>4, RunsStay DEF WriteMail, Rerun
  <2> QED
    BY <1>1, <1>2, <2>2, <2>3, <2>4, <2>5, CopiesSame
<1>5. CASE Rerun
  <2>1. msgFile' = << >> /\ imported' = Received
    BY <1>5 DEF Rerun
  <2>2. NewCopies' = {}
    BY <2>1 DEF NewCopies
  <2> QED
    BY <2>1, <2>2 DEF Received
<1>6. CASE ~ (MsgHead \/ WriteMail \/ Rerun)
  <2>1. UNCHANGED <<runs, imported>>
    BY <1>6, RunsStay
  <2>2. CASE Finish
    <3>1. ~ msgStarted /\ CloseAll
      BY <1>1, <2>2 DEF Finish, Framing, Copying
    <3>2. UNCHANGED msgFile
      BY <3>1 DEF CloseAll
    <3> QED
      BY <2>1, <3>2, CopiesUnchanged
  <2>3. CASE ~ Finish
    <3>1. UNCHANGED msgFile
      BY <1>6, <2>3 DEF Next, MainNext, Proceed, Connect, Retr, LoopEnd, ReadMsg, EmptyMail,
        MsgStart, StartBegin, WriteEnd, WriteError, MailCopied, MailNotCopied, StopEnd, Dele,
        NextMail, ForceQuit, Reconnect, LastQuit, Lost, Refused, LostIn, RefusedIn,
        MailArrives, vars, areasVars
    <3> QED
      BY <2>1, <3>1, CopiesUnchanged
  <2> QED
    BY <2>2, <2>3
<1> QED
  BY <1>3, <1>4, <1>5, <1>6

\* A message that msgStop completes is a new copy if it is whole.
LEMMA ReceivedStop ==
  ASSUME CopyInv, IInv', MsgStop, UNCHANGED runs, NEW copy, copy = <<runs, Last, view[msgNumber]>>
  PROVE  /\ BodyWritten' = BodyWritten
         /\ BodyWritten => copy \notin Received /\ Received' = Received \union {copy}
         /\ ~ BodyWritten => Received' = Received
<1>1. /\ pc = "stop" /\ StopLength /\ UNCHANGED imported
      /\ AreasType(Mails) /\ AreasType(Mails)' /\ Last > 0 /\ msgLenPos = Last - 1
  BY DEF MsgStop, historyVars, CopyInv, MailInv, IInv, TypeOK, Framing, Copying
<1>2. /\ Last' = Last /\ \A i \in 1 .. Last - 1 : msgFile'[i] = msgFile[i]
      /\ msgFile'[Last].msg = msgFile[Last].msg
      /\ msgFile'[Last].body = msgFile[Last].body
      /\ msgFile'[Last].len = msgFile[Last].body
  BY <1>1, StopLengthEffect
<1>3. Last \in Nat /\ DOMAIN msgFile = 1 .. Last /\ DOMAIN msgFile' = 1 .. Last
  BY <1>1, <1>2, LenProperties DEF AreasType, Last
<1>4. BodyWritten' = BodyWritten /\ (BodyWritten <=> msgFile[Last].body = Chunks)
  BY <1>2 DEF BodyWritten, Last
<1>5. ~ IsWhole(msgFile[Last]) /\ (IsWhole(msgFile'[Last]) <=> BodyWritten)
  BY <1>1, <1>2, <1>4, Constants DEF CopyInv, CopyTypes, IsWhole
<1>6. msgFile'[Last].msg = view[msgNumber]
  BY <1>1, <1>2 DEF CopyInv, MailInv, Copied, Copying
<1>7. CASE BodyWritten
  <2>1. copy \notin imported
    BY DEF CopyInv, CopyTypes
  <2>2. copy \notin NewCopies
    BY <1>5 DEF NewCopies
  <2>3. NewCopies' \subseteq NewCopies \union {copy}
    <3> SUFFICES ASSUME NEW i \in 1 .. Last, IsWhole(msgFile'[i])
                 PROVE  <<runs, i, msgFile'[i].msg>> \in NewCopies \union {copy}
      BY <1>3 DEF NewCopies, IsWhole
    <3>1. CASE i = Last
      BY <1>6, <3>1
    <3>2. CASE i # Last
      <4>1. i \in 1 .. Last - 1 /\ msgFile'[i] = msgFile[i]
        BY <1>2, <1>3, <3>2
      <4> QED
        BY <1>3, <4>1 DEF NewCopies
    <3> QED
      BY <3>1, <3>2
  <2>4. copy \in NewCopies'
    BY <1>1, <1>3, <1>5, <1>6, <1>7 DEF NewCopies, IsWhole
  <2>5. NewCopies \subseteq NewCopies'
    <3> SUFFICES ASSUME NEW i \in 1 .. Last, IsWhole(msgFile[i])
                 PROVE  <<runs, i, msgFile[i].msg>> \in NewCopies'
      BY <1>3 DEF NewCopies
    <3>1. i \in 1 .. Last - 1 /\ msgFile'[i] = msgFile[i]
      BY <1>2, <1>3, <1>5
    <3> QED
      BY <1>3, <3>1 DEF NewCopies, IsWhole
  <2> QED
    BY <1>1, <1>4, <1>7, <2>1, <2>2, <2>3, <2>4, <2>5 DEF Received
<1>8. CASE ~ BodyWritten
  <2>1. Received' = Received
    BY <1>1, <1>2, <1>3, <1>5, <1>8, CopiesSame
  <2> QED
    BY <1>4, <1>8, <2>1
<1> QED
  BY <1>7, <1>8

\* An abort takes at most the copy that was not complete.
LEMMA ReceivedAbort ==
  ASSUME CopyInv, IInv', SignalHandler, ~ AbortInStart, UNCHANGED runs
  PROVE  \E copy : Received' = Received \ {copy}
<1>1. /\ pc # "head" /\ CloseAll /\ UNCHANGED imported
      /\ AreasType(Mails) /\ AreasType(Mails)' /\ Framing
  BY DEF SignalHandler, historyVars, CopyInv, MailInv, IInv, TypeOK
<1>2. CASE pc \in Copying
  <2>1. msgStarted /\ msgLenPos = Last - 1 /\ Last > 0 /\ Last \in Nat
    BY <1>1, <1>2, FileType DEF Framing
  <2>2. Last' = Last - 1 /\ \A i \in 1 .. Last - 1 : msgFile'[i] = msgFile[i]
    BY <1>1, <2>1, CloseAllEffect
  <2>3. DOMAIN msgFile = 1 .. Last /\ DOMAIN msgFile' = 1 .. Last - 1
    BY <1>1, <2>2, LenProperties DEF AreasType, Last
  <2> DEFINE copy == <<runs, Last, msgFile[Last].msg>>
  <2>4. copy \notin imported
    BY DEF CopyInv, CopyTypes
  <2>5. NewCopies' \subseteq NewCopies \ {copy}
    <3> SUFFICES ASSUME NEW i \in 1 .. Last - 1, IsWhole(msgFile'[i])
                 PROVE  <<runs, i, msgFile'[i].msg>> \in NewCopies \ {copy}
      BY <2>3 DEF NewCopies, IsWhole
    <3>1. i \in 1 .. Last /\ i # Last /\ msgFile'[i] = msgFile[i]
      BY <2>1, <2>2
    <3> QED
      BY <2>3, <3>1 DEF NewCopies
  <2>6. NewCopies \ {copy} \subseteq NewCopies'
    <3> SUFFICES ASSUME NEW i \in 1 .. Last, IsWhole(msgFile[i]), i # Last
                 PROVE  <<runs, i, msgFile[i].msg>> \in NewCopies'
      BY <2>3 DEF NewCopies
    <3>1. i \in 1 .. Last - 1 /\ msgFile'[i] = msgFile[i]
      BY <2>1, <2>2
    <3> QED
      BY <2>3, <3>1 DEF NewCopies, IsWhole
  <2> HIDE DEF copy
  <2>7. Received' = Received \ {copy}
    BY <1>1, <2>4, <2>5, <2>6 DEF Received
  <2> QED
    BY <2>7
<1>3. CASE pc \notin Copying
  <2>1. UNCHANGED msgFile
    BY <1>1, <1>3 DEF CloseAll, Framing
  <2>2. Received' = Received
    BY <1>1, <2>1, CopiesUnchanged
  <2>3. <<runs, 0, 0>> \notin Received
    <3>1. <<runs, 0, 0>> \notin imported
      BY DEF CopyInv, CopyTypes
    <3>2. <<runs, 0, 0>> \notin NewCopies
      BY <1>1, FileType DEF NewCopies
    <3> QED
      BY <3>1, <3>2 DEF Received
  <2>4. Received' = Received \ {<<runs, 0, 0>>}
    BY <2>2, <2>3
  <2> QED
    BY <2>4
<1> QED
  BY <1>2, <1>3
-----------------------------------------------------------------------------
(* Each copy too many has its fault.                                         *)

\* A step that leaves the copies and costs nothing leaves no more mails pending.
LEMMA PaidFree ==
  ASSUME CopyInv, UNCHANGED <<readOnly, forceMailDelete, faults, aborts>>, Received' = Received,
         forceMailDelete /\ ~ readOnly => Pending' \subseteq Pending
  PROVE  Paid'
<1> SUFFICES ASSUME forceMailDelete, ~ readOnly
             PROVE  (Extra + Cardinality(Pending) <= faults + aborts)'
  BY DEF Paid
<1>1. Cardinality(Pending') \in Nat /\ Cardinality(Pending') <= Cardinality(Pending)
  BY FewerPending DEF CopyInv, MailInv, IInv
<1>2. Extra' = Extra /\ Extra \in Int
  BY CountsType DEF Extra, CopyInv, MailInv, IInv
<1>3. Extra + Cardinality(Pending) <= faults + aborts /\ Cardinality(Pending) \in Nat
      /\ faults \in Nat /\ aborts \in Nat
  BY CountsType DEF CopyInv, MailInv, IInv, Paid, CopyTypes
<1> QED
  BY <1>1, <1>2, <1>3

\* A fault or an abort: the mail in hand may be received again.
LEMMA PaidFault ==
  ASSUME CopyInv, UNCHANGED <<readOnly, forceMailDelete>>, faults' + aborts' = faults + aborts + 1,
         NEW copy, Received' = Received \ {copy}, mailbox' \subseteq mailbox
  PROVE  Paid'
<1> SUFFICES ASSUME forceMailDelete, ~ readOnly
             PROVE  (Extra + Cardinality(Pending) <= faults + aborts)'
  BY DEF Paid
<1>1. MailsOf(Received') \subseteq MailsOf(Received) /\ Extra' <= Extra
  BY CopyRemoved DEF Extra, CopyInv, MailInv, IInv
<1>2. Pending' \subseteq Pending \union {view[1]}
  BY <1>1, FirstInHand DEF Pending
<1>3. Cardinality(Pending') \in Nat /\ Cardinality(Pending') <= Cardinality(Pending) + 1
  BY <1>2, OneMorePending DEF CopyInv, MailInv, IInv
<1>4. Extra + Cardinality(Pending) <= faults + aborts /\ Cardinality(Pending) \in Nat
      /\ Extra \in Int /\ faults \in Nat /\ aborts \in Nat
  BY CountsType DEF CopyInv, MailInv, IInv, Paid, CopyTypes, Extra
<1>5. Extra' \in Int
  <2>1. IsFiniteSet(Received') /\ IsFiniteSet(MailsOf(Received'))
    BY <1>1, CopyRemoved, CountsType, FS_Subset DEF CopyInv, MailInv, IInv
  <2> QED
    BY <2>1, FS_CardinalityType DEF Extra
<1> QED
  BY <1>1, <1>3, <1>4, <1>5

\* What is in hand stays in hand or leaves the mailbox.
LEMMA PendingStays ==
  ASSUME CopyInv, Received' = Received, mailbox' \intersect MailsOf(Received) \subseteq mailbox,
         \A m \in InHand : m \in mailbox' => m \in InHand'
  PROVE  Pending' \subseteq Pending
  BY DEF Pending

LEMMA PaidServer ==
  ASSUME CopyInv, Received' = Received, UNCHANGED <<readOnly, forceMailDelete, faults, aborts>>,
         Connect \/ Reconnect \/ EmptyMail \/ MailNotCopied \/ ForceQuit \/ LastQuit
  PROVE  Paid'
<1>1. mailbox' \subseteq mailbox
  BY DEF Connect, Reconnect, EmptyMail, MailNotCopied, CopyFails, ForceQuit, LastQuit, SendQuit,
    Login, Drop, Expunge
<1>2. SUFFICES ASSUME forceMailDelete, ~ readOnly, NEW m \in InHand
               PROVE  m \notin mailbox'
  BY <1>1, PendingStays, PaidFree
<1>3. CASE Connect \/ Reconnect \/ EmptyMail \/ MailNotCopied
  BY <1>2, <1>3, FirstInHand DEF Connect, Reconnect, EmptyMail, MailNotCopied
<1>4. CASE ForceQuit \/ LastQuit
  <2>1. Expunge
    BY <1>4 DEF ForceQuit, LastQuit, SendQuit, Fault, CopyInv, CopyTypes
  <2>2. InHand = {view[n] : n \in dele}
    BY <1>4 DEF ForceQuit, LastQuit, InHand
  <2> QED
    BY <1>2, <2>1, <2>2 DEF Expunge
<1> QED
  BY <1>3, <1>4

LEMMA PaidQuiet ==
  ASSUME CopyInv, Received' = Received, UNCHANGED <<readOnly, forceMailDelete, faults, aborts>>,
         UNCHANGED <<view, mailbox>>, dele \subseteq dele',
         \/ pc \notin {"dele", "stopped"}
         \/ pc' = "dele" /\ UNCHANGED msgNumber
         \/ pc = "dele" /\ dele' = dele \union {msgNumber}
         \/ UNCHANGED <<pc, msgNumber, msgFile>>
         \/ readOnly
  PROVE  Paid'
<1> SUFFICES ASSUME forceMailDelete, ~ readOnly
             PROVE  \A m \in InHand : m \in InHand'
  BY PendingStays, PaidFree
<1>1. BodyWritten' = BodyWritten \/ msgFile' # msgFile
  BY DEF BodyWritten
<1> QED
  BY <1>1 DEF InHand

LEMMA PaidArrival ==
  ASSUME CopyInv, Received' = Received, MailArrives
  PROVE  Paid'
<1>1. /\ UNCHANGED <<readOnly, forceMailDelete, pc, msgNumber, msgFile, view, dele, faults, aborts>>
      /\ mailbox' = mailbox \union {arrived'} /\ arrived' = arrived + 1
  BY DEF MailArrives, areasVars, options, localVars, bounds
<1>2. arrived' \notin MailsOf(Received)
  BY <1>1, Constants DEF CopyInv, MailInv, IInv, TypeOK, CopyTypes
<1>3. InHand' = InHand
  BY <1>1 DEF InHand, BodyWritten
<1> QED
  BY <1>1, <1>2, <1>3, PendingStays, PaidFree

\* A copy too many is one of a mail that was pending.
LEMMA PaidStop ==
  ASSUME CopyInv, IInv', MsgStop,
         UNCHANGED <<readOnly, forceMailDelete, faults, aborts, runs>>
  PROVE  Paid'
<1>1. /\ pc = "stop" /\ pc' = "stopped" /\ UNCHANGED <<mailbox, view, dele, msgNumber>>
  BY DEF MsgStop, serverVars, localVars
<1>2. CASE ~ BodyWritten
  BY <1>1, <1>2, ReceivedStop, PaidQuiet
<1>3. CASE BodyWritten
  <2> SUFFICES ASSUME forceMailDelete, ~ readOnly
               PROVE  (Extra + Cardinality(Pending) <= faults + aborts)'
    BY DEF Paid
  <2> DEFINE m    == view[msgNumber]
             copy == <<runs, Last, m>>
  <2>1. /\ copy \notin Received /\ Received' = Received \union {copy} /\ BodyWritten'
    BY <1>3, ReceivedStop
  <2>2. copy[3] = m
    OBVIOUS
  <2>3. InHand = {} /\ InHand' = {m}
    <3>1. dele = {}
      BY <1>1 DEF CopyInv, FirstOnly, Copying
    <3> QED
      BY <1>1, <2>1, <3>1 DEF InHand
  <2>4. m \in mailbox
    <3>1. msgNumber \in DOMAIN view
      BY <1>1 DEF CopyInv, MailInv, IInv, Numbers, AtMail, Copying
    <3> QED
      BY <3>1 DEF CopyInv, CopyTypes
  <2> HIDE DEF m, copy
  <2>5. /\ Cardinality(Received') = Cardinality(Received) + 1
        /\ MailsOf(Received') = MailsOf(Received) \union {m}
        /\ Cardinality(MailsOf(Received')) =
             IF m \in MailsOf(Received) THEN Cardinality(MailsOf(Received))
             ELSE Cardinality(MailsOf(Received)) + 1
    BY <2>1, <2>2, CopyAdded DEF CopyInv, MailInv, IInv
  <2>6. Pending' = Pending \ {m} /\ (m \in Pending <=> m \in MailsOf(Received))
    BY <1>1, <2>3, <2>4, <2>5 DEF Pending
  <2>7. Cardinality(Pending') =
          IF m \in MailsOf(Received) THEN Cardinality(Pending) - 1 ELSE Cardinality(Pending)
    BY <2>6, CountsType, FS_RemoveElement DEF CopyInv, MailInv, IInv
  <2>8. Extra' = IF m \in MailsOf(Received) THEN Extra + 1 ELSE Extra
    BY <2>5, CountsType DEF Extra, CopyInv, MailInv, IInv
  <2>9. Extra + Cardinality(Pending) <= faults + aborts /\ Cardinality(Pending) \in Nat
        /\ Extra \in Int
    BY CountsType DEF CopyInv, MailInv, IInv, Paid, Extra
  <2> QED
    BY <2>7, <2>8, <2>9
<1> QED
  BY <1>2, <1>3

LEMMA PaidStep ==
  ASSUME CopyInv, IInv', [Next]_vars, ~ AbortInStart
  PROVE  Paid'
<1>1. CASE SignalHandler
  <2>1. /\ UNCHANGED <<readOnly, forceMailDelete, runs, mailbox, faults>> /\ aborts' = aborts + 1
    BY <1>1 DEF SignalHandler, options, Drop
  <2>2. faults' + aborts' = faults + aborts + 1
    BY <2>1 DEF CopyInv, CopyTypes
  <2> QED
    BY <1>1, <2>1, <2>2, ReceivedAbort, PaidFault
<1>2. CASE Rerun
  <2>1. /\ UNCHANGED <<readOnly, forceMailDelete, faults, aborts, view, mailbox, dele>>
        /\ pc = "ended"
    BY <1>2 DEF Rerun, options, serverVars
  <2> QED
    BY <1>2, <2>1, ReceivedSame, PaidQuiet DEF MsgStop, SignalHandler
<1>3. CASE MailArrives
  <2>1. ~ MsgStop /\ ~ SignalHandler
    BY <1>3 DEF MailArrives, MsgStop, SignalHandler, bounds, CopyInv, CopyTypes
  <2> QED
    BY <1>3, <2>1, ReceivedSame, PaidArrival
<1>4. CASE UNCHANGED vars
  <2>1. UNCHANGED <<readOnly, forceMailDelete, pc, msgNumber, msgFile, view, dele, mailbox, faults,
                    aborts, runs, imported>>
    BY <1>4 DEF vars, areasVars, options, localVars, serverVars, historyVars, bounds
  <2> QED
    BY <2>1, CopiesUnchanged, PaidQuiet
<1>5. CASE MainNext
  <2>1. UNCHANGED <<readOnly, forceMailDelete, aborts, runs>> /\ ~ SignalHandler
    BY <1>5 DEF MainNext, WriteError, SignalHandler, options, CopyInv, CopyTypes
  <2>2. CASE MsgStop
    <3>1. UNCHANGED faults
      BY <2>2 DEF MsgStop
    <3> QED
      BY <2>1, <2>2, <3>1, PaidStop
  <2>3. CASE ~ MsgStop
    <3>1. Received' = Received /\ Received' = Received \ {<<runs, 0, 0>>}
      <4>1. <<runs, 0, 0>> \notin imported
        BY DEF CopyInv, CopyTypes
      <4>2. <<runs, 0, 0>> \notin NewCopies
        BY FileType DEF NewCopies, CopyInv, MailInv, IInv, TypeOK
      <4> QED
        BY <2>1, <2>3, <4>1, <4>2, ReceivedSame DEF Received
    <3>2. CASE faults' = faults + 1
      <4>1. mailbox' \subseteq mailbox
        BY <1>5 DEF MainNext, Proceed, Connect, Retr, LoopEnd, ReadMsg, EmptyMail, CopyFails,
          MsgStart, MsgHead, WriteMail, WriteEnd, WriteError, MsgStop, MailCopied,
          MailNotCopied, Dele, NextMail, ForceQuit, Reconnect, LastQuit, SendQuit, Finish,
          Lost, Refused, LostIn, RefusedIn, Login, Drop, Expunge, serverVars
      <4>2. faults' + aborts' = faults + aborts + 1
        BY <2>1, <3>2 DEF CopyInv, CopyTypes
      <4> QED
        BY <2>1, <3>1, <4>1, <4>2, PaidFault
    <3>3. CASE faults' # faults + 1
      <4>1. UNCHANGED faults /\ (Proceed \/ WriteError)
        BY <1>5, <3>3 DEF MainNext, Proceed, Connect, Retr, LoopEnd, ReadMsg, EmptyMail,
          CopyFails, MsgStart, MsgHead, WriteMail, WriteEnd, WriteError, MsgStop, MailCopied,
          MailNotCopied, Dele, NextMail, ForceQuit, Reconnect, LastQuit, SendQuit, Finish,
          Lost, Refused, LostIn, RefusedIn, Fault
      <4>2. CASE Connect \/ Reconnect \/ EmptyMail \/ MailNotCopied \/ ForceQuit \/ LastQuit
        BY <2>1, <3>1, <4>1, <4>2, PaidServer
      <4>3. CASE \/ Retr \/ LoopEnd \/ ReadMsg \/ MsgStart \/ MsgHead \/ WriteMail \/ WriteEnd
                 \/ WriteError \/ MailCopied \/ Dele \/ NextMail \/ Finish
        <5>1. UNCHANGED <<view, mailbox>> /\ dele \subseteq dele'
          BY <4>3 DEF Retr, LoopEnd, ReadMsg, MsgStart, MsgHead, WriteMail, WriteEnd,
            WriteError, MailCopied, Dele, NextMail, Finish, serverVars
        <5>2. \/ pc \notin {"dele", "stopped"}
              \/ pc' = "dele" /\ UNCHANGED msgNumber
              \/ pc = "dele" /\ dele' = dele \union {msgNumber}
              \/ readOnly
          BY <4>3 DEF Retr, LoopEnd, ReadMsg, MsgStart, MsgHead, WriteMail, WriteEnd,
            WriteError, MailCopied, Dele, NextMail, Finish, localVars
        <5> QED
          BY <2>1, <3>1, <4>1, <5>1, <5>2, PaidQuiet
      <4> QED
        BY <2>3, <4>1, <4>2, <4>3 DEF Proceed
    <3> QED
      BY <3>2, <3>3
  <2> QED
    BY <2>2, <2>3
<1> QED
  BY <1>1, <1>2, <1>3, <1>4, <1>5 DEF Next
-----------------------------------------------------------------------------
(* The numbers, the marks and the copies.                                    *)

LEMMA FirstOnlyStep ==
  ASSUME CopyInv, [Next]_vars
  PROVE  FirstOnly'
<1>1. UNCHANGED forceMailDelete
  BY DEF Next, MainNext, WriteError, SignalHandler, Rerun, MailArrives, options, vars
<1>2. SUFFICES ASSUME forceMailDelete
               PROVE  /\ dele' \subseteq {1}
                      /\ pc' \in {"read", "start", "head", "dele"} \union Copying => dele' = {}
                      /\ pc' = "loop" /\ count' <= msgTotal' => dele' = {}
  BY <1>1 DEF FirstOnly, Copying
<1>3. /\ dele \subseteq {1}
      /\ pc \in {"read", "start", "head", "dele"} \union Copying => dele = {}
      /\ pc = "loop" /\ count <= msgTotal => dele = {}
  BY <1>2 DEF CopyInv, FirstOnly
<1>4. CASE dele' = {}
  BY <1>4
<1>5. CASE Dele
  <2>1. msgNumber = 1
    BY <1>2, <1>5 DEF CopyInv, MailInv, IInv, Numbers, AtMail, Dele
  <2> QED
    BY <1>3, <1>5, <2>1 DEF Dele, Copying
<1>6. CASE NextMail
  <2>1. count >= msgTotal /\ count' = count + 1 /\ UNCHANGED <<msgTotal, dele>> /\ pc' = "loop"
    BY <1>2, <1>6 DEF NextMail, MustRelogin, serverVars, CopyInv, MailInv, IInv, TypeOK
  <2>2. ~ (count' <= msgTotal')
    BY <2>1, Constants DEF CopyInv, MailInv, IInv, TypeOK
  <2> QED
    BY <1>3, <2>1, <2>2 DEF Copying
<1>7. CASE Rerun
  BY <1>7 DEF Rerun, serverVars, CopyInv, MailInv, Marked
<1>8. CASE ~ (Dele \/ NextMail \/ Rerun) /\ dele' # {}
  <2>1. /\ UNCHANGED <<dele, count, msgTotal>>
        /\ \/ pc' = pc
           \/ pc \in {"read", "start", "head"} \union Copying
           \/ pc = "loop" /\ count <= msgTotal
           \/ pc' \in {"lastquit", "ended"}
    BY <1>8 DEF Next, MainNext, Proceed, Connect, Retr, LoopEnd, ReadMsg, EmptyMail, CopyFails,
      MsgStart, MsgHead, WriteMail, WriteEnd, WriteError, MsgStop, MailCopied, MailNotCopied,
      ForceQuit, Reconnect, LastQuit, SendQuit, Finish, Lost, Refused, LostIn, RefusedIn,
      SignalHandler, MailArrives, Login, Drop, Expunge, serverVars, localVars, vars, Copying
  <2> QED
    BY <1>3, <2>1 DEF Copying
<1> QED
  BY <1>4, <1>5, <1>6, <1>7, <1>8

\* The mails that are numbered are in the mailbox.
LEMMA ViewStep ==
  ASSUME CopyInv, [Next]_vars
  PROVE  \A n \in DOMAIN view' : view'[n] \in mailbox'
<1>1. CASE Login
  BY <1>1, NumberingOnto DEF Login, CopyInv, MailInv, IInv
<1>2. CASE view' = << >>
  BY <1>2
<1>3. CASE view' = view /\ mailbox \subseteq mailbox'
  BY <1>3 DEF CopyInv, CopyTypes
<1>4. Login \/ view' = << >> \/ (view' = view /\ mailbox \subseteq mailbox')
  BY DEF Next, MainNext, Proceed, Connect, Retr, LoopEnd, ReadMsg, EmptyMail, CopyFails,
    MsgStart, MsgHead, WriteMail, WriteEnd, WriteError, MsgStop, MailCopied, MailNotCopied,
    Dele, NextMail, ForceQuit, Reconnect, LastQuit, SendQuit, Finish, Lost, Refused, LostIn,
    RefusedIn, SignalHandler, Rerun, MailArrives, Drop, Expunge, serverVars, vars
<1> QED
  BY <1>1, <1>2, <1>3, <1>4

\* A message has no length until msgStop.
LEMMA LengthStep ==
  ASSUME CopyInv, IInv', [Next]_vars, pc' \in {"write", "stop"}
  PROVE  msgFile'[Last'].len = 0
<1>1. AreasType(Mails) /\ Framing
  BY DEF CopyInv, MailInv, IInv, TypeOK
<1>2. CASE MsgHead
  <2>1. StartHead(view[msgNumber]) /\ view[msgNumber] \in Mails
    BY <1>2, ViewEffect DEF MsgHead, CopyInv, MailInv, IInv, TypeOK
  <2>2. /\ Last' = Last + 1
        /\ msgFile'[Last + 1] = [msg |-> view[msgNumber], body |-> 0, len |-> 0]
    BY <1>1, <2>1, StartHeadEffect
  <2> QED
    BY <2>2
<1>3. CASE WriteMail
  <2>1. Last > 0 /\ ~ BodyWritten /\ MsgWrite /\ pc = "write"
    BY <1>1, <1>3 DEF WriteMail, Framing, Copying
  <2> QED
    BY <1>1, <2>1, MsgWriteEffect, MsgWriteLength DEF CopyInv, CopyTypes
<1>4. CASE ~ (MsgHead \/ WriteMail)
  <2>1. pc \in {"write", "stop"} /\ UNCHANGED msgFile
    BY <1>4 DEF Next, MainNext, Proceed, Connect, Retr, LoopEnd, ReadMsg, EmptyMail, CopyFails,
      Return, MsgStart, WriteEnd, WriteError, MsgStop, MailCopied, MailNotCopied, Dele, NextMail,
      ForceQuit, Reconnect, LastQuit, Finish, Lost, Refused, LostIn, RefusedIn, SignalHandler,
      Rerun, MailArrives, areasVars, vars
  <2> QED
    BY <2>1 DEF CopyInv, CopyTypes, Last
<1> QED
  BY <1>2, <1>3, <1>4

\* There are finitely many copies, and they are of mails that have arrived.
LEMMA ReceivedStep ==
  ASSUME CopyInv, IInv', [Next]_vars, ~ AbortInStart
  PROVE  /\ IsFiniteSet(Received') /\ MailsOf(Received') \subseteq 1 .. arrived'
         /\ \A copy \in imported' : copy[1] \in Int /\ copy[1] < runs'
<1>1. /\ IsFiniteSet(Received) /\ MailsOf(Received) \subseteq 1 .. arrived
      /\ \A copy \in imported : copy[1] \in Int /\ copy[1] < runs
      /\ runs \in Nat /\ arrived \in Int
  BY Constants DEF CopyInv, CopyTypes, MailInv, IInv, TypeOK
<1>2. arrived' \in Int /\ 1 .. arrived \subseteq 1 .. arrived'
  <2>1. arrived' = arrived \/ arrived' = arrived + 1
    BY DEF Next, MainNext, WriteError, SignalHandler, Rerun, MailArrives, vars
  <2> QED
    BY <1>1, <2>1
<1>3. CASE Rerun
  <2>1. Received' = Received
    BY <1>3, ReceivedSame DEF Rerun, MsgStop, SignalHandler
  <2>2. \A copy \in Received : copy[1] \in Int /\ copy[1] < runs + 1
    BY <1>1 DEF Received, NewCopies
  <2> QED
    BY <1>1, <1>2, <1>3, <2>1, <2>2 DEF Rerun
<1>4. CASE ~ Rerun
  <2>1. UNCHANGED <<runs, imported>>
    BY <1>4, RunsStay
  <2>2. CASE MsgStop
    <3>1. view[msgNumber] \in 1 .. arrived
      <4>1. msgNumber \in DOMAIN view
        <5>1. IF forceMailDelete THEN msgNumber = 1 /\ 1 \in DOMAIN view
              ELSE msgNumber = count /\ 1 .. msgTotal \subseteq DOMAIN view /\ count <= msgTotal
          BY <2>2 DEF CopyInv, MailInv, IInv, Numbers, AtMail, Copying, MsgStop
        <5>2. count \in Int /\ count >= 1 /\ msgTotal \in Int
          BY Constants DEF CopyInv, MailInv, IInv, TypeOK
        <5> QED
          BY <5>1, <5>2
      <4> QED
        BY <4>1 DEF CopyInv, CopyTypes, MailInv, IInv, TypeOK
    <3> DEFINE copy == <<runs, Last, view[msgNumber]>>
    <3>2. copy[3] = view[msgNumber]
      OBVIOUS
    <3>3. Received' = Received \/ (copy \notin Received /\ Received' = Received \union {copy})
      BY <2>1, <2>2, ReceivedStop
    <3> HIDE DEF copy
    <3>4. IsFiniteSet(Received') /\ MailsOf(Received') \subseteq MailsOf(Received) \union {copy[3]}
      BY <1>1, <3>3, CopyAdded DEF CopyInv, MailInv, IInv
    <3> QED
      BY <1>1, <1>2, <2>1, <3>1, <3>2, <3>4
  <2>3. CASE SignalHandler
    <3>1. PICK copy : Received' = Received \ {copy}
      BY <2>1, <2>3, ReceivedAbort
    <3>2. IsFiniteSet(Received') /\ MailsOf(Received') \subseteq MailsOf(Received)
      BY <3>1, CopyRemoved DEF CopyInv, MailInv, IInv
    <3> QED
      BY <1>1, <1>2, <2>1, <3>2
  <2>4. CASE ~ MsgStop /\ ~ SignalHandler
    <3>1. Received' = Received
      BY <2>4, ReceivedSame
    <3> QED
      BY <1>1, <1>2, <2>1, <3>1
  <2> QED
    BY <2>2, <2>3, <2>4
<1> QED
  BY <1>3, <1>4

LEMMA CopyNext == ASSUME ~ AbortInStart PROVE CopyInv /\ [Next]_vars => CopyInv'
<1> SUFFICES ASSUME CopyInv, [Next]_vars PROVE CopyInv'
  OBVIOUS
<1>1. MailInv' /\ IInv'
  BY MailNext DEF CopyInv, MailInv
<1>2. faults' \in Nat /\ aborts' \in Nat
  <2>1. faults \in Nat /\ aborts \in Nat
    BY DEF CopyInv, CopyTypes
  <2>2. faults' \in {faults, faults + 1}
    BY DEF Next, MainNext, Proceed, Connect, Retr, LoopEnd, ReadMsg, EmptyMail, CopyFails,
      MsgStart, MsgHead, WriteMail, WriteEnd, WriteError, MsgStop, MailCopied, MailNotCopied,
      Dele, NextMail, ForceQuit, Reconnect, LastQuit, SendQuit, Finish, Lost, Refused, LostIn,
      RefusedIn, SignalHandler, Rerun, MailArrives, Fault, vars, bounds
  <2>3. aborts' \in {aborts, aborts + 1}
    BY DEF Next, MainNext, WriteError, SignalHandler, Rerun, MailArrives, vars, bounds
  <2> QED
    BY <2>1, <2>2, <2>3
<1>3. CopyTypes'
  BY <1>1, <1>2, ReceivedStep, ViewStep, LengthStep DEF CopyTypes
<1> QED
  BY <1>1, <1>3, FirstOnlyStep, PaidStep DEF CopyInv

LEMMA CopyInit == Init => CopyInv
<1> SUFFICES ASSUME Init PROVE CopyTypes /\ FirstOnly /\ Paid
  BY MailInit DEF CopyInv
<1>1. /\ Received = {} /\ dele = {} /\ view = << >> /\ imported = {} /\ faults = 0 /\ aborts = 0
      /\ pc = "connect"
  BY DEF Init, AreasInit, Received, NewCopies
<1>2. MailsOf(Received) = {} /\ Pending = {}
  BY <1>1 DEF MailsOf, Pending
<1>3. IsFiniteSet({}) /\ Cardinality({}) = 0
  BY FS_EmptySet
<1>4. CopyTypes /\ FirstOnly
  BY <1>1, <1>2, <1>3 DEF CopyTypes, FirstOnly
<1>5. Extra = 0 /\ Cardinality(Pending) = 0
  <2>1. /\ Cardinality(Received) = 0 /\ Cardinality(MailsOf(Received)) = 0
        /\ Cardinality(Pending) = 0
    BY <1>1, <1>2, <1>3
  <2> QED
    BY <2>1 DEF Extra
<1>6. Paid
  BY <1>1, <1>5 DEF Paid
<1> QED
  BY <1>4, <1>6

\* What -D is for (pop3.cc 542-555): every mail that the user has twice was paid for
\* by a lost connection, a refused command or an abort of its own, in this run or in
\* an earlier one; if no signal arrives inside msgStart.
THEOREM OneCopyEach == ASSUME ~ AbortInStart PROVE Spec => []OneCopyPerFault
<1>1. CopyInv => OneCopyPerFault
  <2> SUFFICES ASSUME CopyInv, forceMailDelete, ~ readOnly
               PROVE  Cardinality(Received) - Cardinality(MailsOf(Received)) <= faults + aborts
    BY DEF OneCopyPerFault
  <2>1. Extra + Cardinality(Pending) <= faults + aborts /\ Cardinality(Pending) \in Nat
        /\ Extra \in Int /\ faults \in Nat /\ aborts \in Nat
    BY CountsType DEF CopyInv, MailInv, IInv, Paid, CopyTypes, Extra
  <2>2. Extra <= faults + aborts
    BY <2>1
  <2> QED
    BY <2>2 DEF Extra
<1> QED
  BY CopyInit, CopyNext, <1>1, PTL DEF Spec
=============================================================================
