------------------------------- MODULE Spool -------------------------------
(***************************************************************************)
(* The packet of received messages (class TAreas of areas.cc) with several *)
(* areas: AREAS lists a message file for each of them, and a short list of *)
(* the last areas, written round and round, says which file to open again. *)
(* Only one file is open at a time, msgF.  One thread at a time writes a   *)
(* message, from msgStart to msgStop, which a semaphore sees to.           *)
(*                                                                         *)
(* A file is the sequence of its messages and a position in it the number  *)
(* of messages before; body and len say whether the text and its length    *)
(* have been written.                                                      *)
(***************************************************************************)
EXTENDS Integers, Sequences, FiniteSets

CONSTANTS
  Fifo,           \* AREAS_FIFOSIZE
  Protected,      \* numbers of files that are there and write-protected
  NoArea, NoWriter, NoArticle

VARIABLES
  files,          \* the message files, by their number
  areas,          \* the lines of AREAS
  areasOpen,
  fifo, fifoNext, fifoMsgF,
  msgF,           \* number of the open file, 0 if none
  msgCounter,
  msgStarted, msgLenPos,
  writer          \* who has the semaphore msg

spoolVars == <<files, areas, areasOpen, fifo, fifoNext, fifoMsgF, msgF, msgCounter, msgStarted, msgLenPos, writer>>
fifoVars  == <<fifo, fifoNext, fifoMsgF, msgCounter>>
listVars  == <<areas, areasOpen>>

SpoolType(groups, articles, threads) ==
  /\ files \in Seq(Seq([art : articles \union {NoArticle}, body : BOOLEAN, len : BOOLEAN]))
  /\ areas \in Seq([file : 1 .. Len(files), id : groups])
  /\ areasOpen \in BOOLEAN
  /\ fifo \in [0 .. Fifo - 1 -> [id : groups \union {NoArea}, file : 0 .. Len(files)]]
  /\ fifoNext \in 0 .. Fifo - 1 /\ fifoMsgF \in 0 .. Fifo - 1
  /\ msgF \in 0 .. Len(files) /\ msgCounter = Len(files)
  /\ msgStarted \in BOOLEAN /\ msgLenPos \in Nat \union {-1}
  /\ writer \in threads \union {NoWriter}

SpoolInit ==
  /\ files = << >> /\ areas = << >> /\ areasOpen = TRUE
  /\ fifo = [i \in 0 .. Fifo - 1 |-> [id |-> NoArea, file |-> 0]]
  /\ fifoNext = 0 /\ fifoMsgF = 0
  /\ msgF = 0 /\ msgCounter = 0
  /\ msgStarted = FALSE /\ msgLenPos = -1
  /\ writer = NoWriter

----------------------------------------------------------------------------
(* msgStart *)

\* Mutant: msgStart does not wait for its turn.
StartAtOnce(t) ==
  /\ writer' = t /\ msgStarted' = TRUE
  /\ UNCHANGED <<files, listVars, fifoVars, msgF, msgLenPos>>

StartBegin(t) ==
  /\ writer = NoWriter
  /\ writer' = t /\ msgStarted' = TRUE
  /\ UNCHANGED <<files, listVars, fifoVars, msgF, msgLenPos>>

\* Whether or not it is open: closeAll does not clear the list.
Hit(id) ==
  /\ fifo[fifoMsgF].id = id
  /\ UNCHANGED <<msgF, fifoVars, files, listVars>>

Known(id) == {i \in 0 .. Fifo - 1 : fifo[i].id = id}

Reopen(id) ==
  /\ fifo[fifoMsgF].id # id
  /\ \E i \in Known(id) : /\ \A j \in Known(id) : i <= j
                          /\ msgF' = fifo[i].file /\ fifoMsgF' = i
  /\ UNCHANGED <<fifo, fifoNext, msgCounter, files, listVars>>

\* The next number whose file is not write-protected.
Free(n) ==
  n \notin Protected /\ \A k \in msgCounter + 1 .. n - 1 : k \in Protected

\* Mutant: the current entry of the list stays the one of the file before.
CreateForgets(id) ==
  /\ Known(id) = {}
  /\ msgCounter' \in msgCounter + 1 .. msgCounter + 1 + Cardinality(Protected)
  /\ Free(msgCounter') /\ msgF' = msgCounter'
  /\ files' = [n \in 1 .. msgCounter' |-> IF n \in DOMAIN files THEN files[n] ELSE << >>]
  /\ fifo' = [fifo EXCEPT ![fifoNext] = [id |-> id, file |-> msgCounter']]
  /\ fifoNext' = (fifoNext + 1) % Fifo
  /\ areas' = IF areasOpen THEN Append(areas, [file |-> msgCounter', id |-> id]) ELSE areas
  /\ UNCHANGED <<areasOpen, fifoMsgF>>

\* A new file, listed at once, in the place of the area that came first.
Create(id) ==
  /\ Known(id) = {}
  /\ msgCounter' \in msgCounter + 1 .. msgCounter + 1 + Cardinality(Protected)
  /\ Free(msgCounter') /\ msgF' = msgCounter'
  /\ files' = [n \in 1 .. msgCounter' |-> IF n \in DOMAIN files THEN files[n] ELSE << >>]
  /\ fifo' = [fifo EXCEPT ![fifoNext] = [id |-> id, file |-> msgCounter']]
  /\ fifoNext' = (fifoNext + 1) % Fifo /\ fifoMsgF' = fifoNext
  /\ areas' = IF areasOpen THEN Append(areas, [file |-> msgCounter', id |-> id]) ELSE areas
  /\ UNCHANGED areasOpen

StartFile(id) ==
  /\ Hit(id) \/ Reopen(id) \/ Create(id)
  /\ UNCHANGED <<msgStarted, msgLenPos, writer>>

\* The length is left open.  In a closed file nothing can be written.
StartHead(a) ==
  /\ msgLenPos' = IF msgF = 0 THEN msgLenPos ELSE Len(files[msgF])
  /\ files' = IF msgF = 0 THEN files
                          ELSE [files EXCEPT ![msgF] = Append(@, [art |-> a, body |-> FALSE, len |-> FALSE])]
  /\ UNCHANGED <<listVars, fifoVars, msgF, msgStarted, writer>>

----------------------------------------------------------------------------
(* msgWrite, msgStop and closeAll *)

MsgWrite ==
  /\ files' = IF msgF = 0 THEN files ELSE [files EXCEPT ![msgF][Len(files[msgF])].body = TRUE]
  /\ UNCHANGED <<listVars, fifoVars, msgF, msgStarted, msgLenPos, writer>>

StopLength ==
  /\ files' = IF msgF = 0 THEN files ELSE [files EXCEPT ![msgF][msgLenPos + 1].len = TRUE]
  /\ UNCHANGED <<listVars, fifoVars, msgF, msgStarted, msgLenPos, writer>>

StopEnd ==
  /\ msgStarted' = FALSE /\ writer' = NoWriter
  /\ UNCHANGED <<files, listVars, fifoVars, msgF, msgLenPos>>

\* A file that is cut behind its end gets longer.
Cut(f, pos) ==
  [i \in 1 .. pos |-> IF i <= Len(f) THEN f[i] ELSE [art |-> NoArticle, body |-> FALSE, len |-> FALSE]]

CloseAll ==
  /\ files' = IF msgStarted /\ msgF # 0 /\ msgLenPos >= 0
                THEN [files EXCEPT ![msgF] = Cut(@, msgLenPos)]
                ELSE files
  /\ msgStarted' = FALSE /\ msgF' = 0 /\ areasOpen' = FALSE
  /\ UNCHANGED <<areas, fifoVars, msgLenPos, writer>>

Whole(frame) == frame.body /\ frame.len
=============================================================================
