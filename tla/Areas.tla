------------------------------- MODULE Areas -------------------------------
(***************************************************************************)
(* The message file of class TAreas (areas.cc) as long as one area is      *)
(* written: a message is framed by msgStart, which leaves room for its     *)
(* length, and msgStop, which fills the length in.  closeAll, which the    *)
(* end of the program and its signal handler call, cuts off a message that *)
(* was started and not stopped.                                            *)
(*                                                                         *)
(* A file is the sequence of its messages, and a position in it the number *)
(* of messages before that position.  A message is written in Chunks       *)
(* pieces (the copy loop of the callers); body counts those written and    *)
(* len is what the length field says, 0 until msgStop fills it in.         *)
(***************************************************************************)
EXTENDS Integers, Sequences

CONSTANT Chunks

ASSUME ChunksAssumption == Chunks \in Nat \ {0}

VARIABLES
  msgFile,      \* msgF: the messages in the file
  msgStarted,   \* a message was started and not stopped
  msgLenPos     \* where the length of the last message is, -1 if nowhere

areasVars == <<msgFile, msgStarted, msgLenPos>>

Frame(Msgs) == [msg : Msgs, body : 0 .. Chunks, len : 0 .. Chunks]

AreasType(Msgs) ==
  /\ msgFile \in Seq(Frame(Msgs))
  /\ msgStarted \in BOOLEAN
  /\ msgLenPos \in -1 .. Len(msgFile)

IsWhole(frame) == frame.body = Chunks /\ frame.len = Chunks

AreasInit ==
  /\ msgFile = << >>
  /\ msgStarted = FALSE
  /\ msgLenPos = -1

\* msgStart marks the message as started before it knows where it will be.
StartBegin ==
  /\ msgStarted' = TRUE
  /\ UNCHANGED <<msgFile, msgLenPos>>

\* ... and then remembers the end of the file and writes four zero bytes there.
StartHead(m) ==
  /\ msgLenPos' = Len(msgFile)
  /\ msgFile' = Append(msgFile, [msg |-> m, body |-> 0, len |-> 0])
  /\ UNCHANGED msgStarted

MsgWrite ==
  /\ msgFile' = [msgFile EXCEPT ![Len(msgFile)].body = @ + 1]
  /\ UNCHANGED <<msgStarted, msgLenPos>>

\* msgStop writes the length of what is behind msgLenPos ...
StopLength ==
  /\ msgFile' = [msgFile EXCEPT ![msgLenPos + 1].len = msgFile[msgLenPos + 1].body]
  /\ UNCHANGED <<msgStarted, msgLenPos>>

\* ... and only then is the message complete.
StopEnd ==
  /\ msgStarted' = FALSE
  /\ UNCHANGED <<msgFile, msgLenPos>>

\* Mutant: closeAll cuts the file although no message is open.
CloseAllAlways ==
  /\ msgStarted' = FALSE
  /\ msgFile' = IF msgLenPos >= 0 THEN SubSeq(msgFile, 1, msgLenPos) ELSE msgFile
  /\ UNCHANGED msgLenPos

\* Mutant: closeAll leaves the message that is being written in the file.
CloseAllKeeps ==
  /\ msgStarted' = FALSE
  /\ UNCHANGED <<msgFile, msgLenPos>>

\* A truncation to -1 is refused by the system and changes nothing.
CloseAll ==
  /\ msgStarted' = FALSE
  /\ msgFile' = IF msgStarted /\ msgLenPos >= 0
                  THEN SubSeq(msgFile, 1, msgLenPos)
                  ELSE msgFile
  /\ UNCHANGED msgLenPos

=============================================================================
