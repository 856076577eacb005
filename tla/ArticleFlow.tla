---------------------------- MODULE ArticleFlow ----------------------------
(***************************************************************************)
(* The way of articles from the server into the packet: the routine of     *)
(* each group asks the score file whether its articles need a score, the   *)
(* article threads (mtGetArticle, getArticle) read the headers, score      *)
(* them line by line, read the bodies, and write the articles one after    *)
(* the other into the message files.  All of them share the list of        *)
(* sections of the last group and the open message file.  The signal       *)
(* handler closes the packet under their hands.                            *)
(*                                                                         *)
(* How articles and connections are chosen is NewsFetch; here any article  *)
(* may be next, but each is fetched once.                                  *)
(***************************************************************************)
EXTENDS KillScore, Spool, TLC

CONSTANTS
  Threads,        \* the threads that get articles
  Groups,
  Articles,
  GroupOf,        \* the group of an article
  Header,         \* and its header lines
  MaxBreaks,      \* bound on broken connections
  UserAbort,      \* a signal may arrive
  AbortInStart    \* closeAll may run while a thread is inside msgStart

ASSUME ArticleFlowAssumption ==
  /\ GroupOf \in [Articles -> Groups]
  /\ Header \in [Articles -> Seq(STRING)]
  /\ NoArea \notin Groups /\ NoGroup \notin Groups
  /\ NoWriter \notin Threads /\ NoArticle \notin Articles
  /\ Threshold \in Int /\ Fifo \in Nat \ {0} /\ MaxBreaks \in Nat
  /\ UserAbort \in BOOLEAN /\ AbortInStart \in BOOLEAN

VARIABLES
  killQ,          \* per group what doKillQ has said
  thread,         \* per thread its place, its article, the lines read and their score
  fate,           \* per article what has become of it
  lines,          \* per article the header lines that were read
  breaks,
  handler,        \* the signal handler
  cutOff          \* the articles under way when closeAll ran

flowVars == <<killQ, thread, fate, lines, breaks, handler, cutOff>>
vars == <<killVars, spoolVars, flowVars>>

Places == {"idle", "head", "body", "start", "file", "room", "write", "length", "stop", "mark"}
Fates  == {"open", "taken", "stored", "killed", "failed"}

TypeOK ==
  /\ KillType(Groups) /\ SpoolType(Groups, Articles, Threads)
  /\ killQ \in [Groups -> {"unknown", "built", "yes", "no"}]
  /\ \A t \in Threads :
       /\ thread[t].at \in Places /\ thread[t].score \in Int
       /\ thread[t].at # "idle" => thread[t].art \in Articles /\ fate[thread[t].art] = "taken"
  /\ \A t, u \in Threads : t # u /\ thread[t].at # "idle" => thread[t].art # thread[u].art
  /\ fate \in [Articles -> Fates]
  /\ \A a \in Articles : lines[a] \in 0 .. Len(Header[a])
  /\ breaks \in 0 .. MaxBreaks
  /\ handler \in {"no", "signal", "closed", "exit"}
  /\ cutOff \subseteq Articles

Idle == [at |-> "idle", art |-> NoArticle, score |-> 0]

Init ==
  /\ KillInit /\ SpoolInit
  /\ killQ = [g \in Groups |-> "unknown"]
  /\ thread = [t \in Threads |-> Idle]
  /\ fate = [a \in Articles |-> "open"]
  /\ lines = [a \in Articles |-> 0]
  /\ breaks = 0 /\ handler = "no" /\ cutOff = {}

----------------------------------------------------------------------------
(* doKillQ, called by the group routines *)

\* The list is built under the semaphore ...
KillQBuild(g) ==
  /\ killQ[g] = "unknown" /\ handler # "exit"
  /\ BuildActGroupList(g)
  /\ killQ' = [killQ EXCEPT ![g] = IF actList' = << >> THEN "no" ELSE "built"]
  /\ UNCHANGED <<spoolVars, thread, fate, lines, breaks, handler, cutOff>>

\* ... and its first node looked at without it.
KillQLook(g) ==
  /\ killQ[g] = "built" /\ handler # "exit"
  /\ killQ' = [killQ EXCEPT ![g] = IF FirstHasRules(actList) THEN "yes" ELSE "no"]
  /\ UNCHANGED <<killVars, spoolVars, thread, fate, lines, breaks, handler, cutOff>>

----------------------------------------------------------------------------
(* getArticle.  After the signal no thread sends or receives any more, but what its
   socket has buffered it still processes. *)

Enabled(a) == killQ[GroupOf[a]] = "yes"
Online     == handler = "no"
Running    == handler # "exit"

\* Thread t is at a place with an article a and goes on to the next one.
At(t, place, a) == thread[t].at = place /\ thread[t].art = a
Goto(t, place) == thread' = [thread EXCEPT ![t].at = place]
Ends(t, a, what) ==
  /\ thread' = [thread EXCEPT ![t] = Idle]
  /\ fate' = [fate EXCEPT ![a] = what]

\* Mutant: an article is handed out again before its thread has done with it.
TakeAny(t, a) ==
  /\ Online /\ thread[t].at = "idle" /\ fate[a] \in {"open", "taken"}
  /\ killQ[GroupOf[a]] \in {"yes", "no"}
  /\ thread' = [thread EXCEPT ![t] = [at |-> "head", art |-> a, score |-> 0]]
  /\ fate' = [fate EXCEPT ![a] = "taken"]
  /\ UNCHANGED <<killVars, spoolVars, killQ, lines, breaks, handler, cutOff>>

Take(t, a) ==
  /\ Online /\ thread[t].at = "idle" /\ fate[a] = "open"
  /\ killQ[GroupOf[a]] \in {"yes", "no"}
  /\ thread' = [thread EXCEPT ![t] = [at |-> "head", art |-> a, score |-> 0]]
  /\ fate' = [fate EXCEPT ![a] = "taken"]
  /\ UNCHANGED <<killVars, spoolVars, killQ, lines, breaks, handler, cutOff>>

HeadLine(t, a) ==
  /\ Running /\ At(t, "head", a) /\ lines[a] < Len(Header[a])
  /\ lines' = [lines EXCEPT ![a] = @ + 1]
  /\ IF Enabled(a)
       THEN /\ BuildActGroupList(GroupOf[a])
            /\ thread' = [thread EXCEPT ![t].score = @ + Points(actList', Header[a][lines'[a]])]
       ELSE UNCHANGED <<killVars, thread>>
  /\ UNCHANGED <<spoolVars, killQ, fate, breaks, handler, cutOff>>

\* killThreshold is 0 for an article that needs no score, and so is its score.
Killed(t, a) == Enabled(a) /\ thread[t].score < Threshold

HeadKilled(t, a) ==
  /\ Running /\ At(t, "head", a) /\ lines[a] = Len(Header[a]) /\ Killed(t, a)
  /\ Ends(t, a, "killed")
  /\ UNCHANGED <<killVars, spoolVars, killQ, lines, breaks, handler, cutOff>>

\* With a score the body is to be asked for, without one it comes with the header.
HeadOk(t, a) ==
  /\ Online \/ (Running /\ ~Enabled(a))
  /\ At(t, "head", a) /\ lines[a] = Len(Header[a]) /\ ~Killed(t, a)
  /\ Goto(t, "body")
  /\ UNCHANGED <<killVars, spoolVars, killQ, fate, lines, breaks, handler, cutOff>>

Breaks == Online /\ breaks < MaxBreaks /\ breaks' = breaks + 1

\* The score of a header that was cut off counts as well.
HeadBroken(t, a) ==
  /\ Breaks /\ At(t, "head", a)
  /\ Ends(t, a, IF Killed(t, a) THEN "killed" ELSE "failed")
  /\ UNCHANGED <<killVars, spoolVars, killQ, lines, handler, cutOff>>

BodyOk(t, a) ==
  /\ Running /\ At(t, "body", a)
  /\ Goto(t, "start")
  /\ UNCHANGED <<killVars, spoolVars, killQ, fate, lines, breaks, handler, cutOff>>

BodyBroken(t, a) ==
  /\ Breaks /\ At(t, "body", a)
  /\ Ends(t, a, "failed")
  /\ UNCHANGED <<killVars, spoolVars, killQ, lines, handler, cutOff>>

----------------------------------------------------------------------------
(* writeArticle, whose result nobody looks at, and artMarkRead *)

Step(t, a, from, to) ==
  /\ Running /\ At(t, from, a) /\ Goto(t, to)
  /\ UNCHANGED <<killVars, killQ, fate, lines, breaks, handler, cutOff>>

Begin(t, a)  == Step(t, a, "start", "file")   /\ StartBegin(t)
File(t, a)   == Step(t, a, "file", "room")    /\ StartFile(GroupOf[a])
Room(t, a)   == Step(t, a, "room", "write")   /\ StartHead(a)
Copy(t, a)   == Step(t, a, "write", "length") /\ MsgWrite
Length(t, a) == Step(t, a, "length", "stop")  /\ StopLength
Stop(t, a)   == Step(t, a, "stop", "mark")    /\ StopEnd

Mark(t, a) ==
  /\ Running /\ At(t, "mark", a)
  /\ Ends(t, a, "stored")
  /\ UNCHANGED <<killVars, spoolVars, killQ, lines, breaks, handler, cutOff>>

ArticleStep(t, a) ==
  \/ Take(t, a) \/ HeadLine(t, a) \/ HeadKilled(t, a) \/ HeadOk(t, a) \/ HeadBroken(t, a)
  \/ BodyOk(t, a) \/ BodyBroken(t, a)
  \/ Begin(t, a) \/ File(t, a) \/ Room(t, a) \/ Copy(t, a) \/ Length(t, a) \/ Stop(t, a) \/ Mark(t, a)

----------------------------------------------------------------------------
(* The main thread: the end of main, or the handler at any time *)

Signal ==
  /\ UserAbort /\ handler = "no"
  /\ handler' = "signal"
  /\ UNCHANGED <<killVars, spoolVars, killQ, thread, fate, lines, breaks, cutOff>>

InStart == \E t \in Threads : thread[t].at \in {"file", "room"}

HandlerClose ==
  /\ handler = "signal" /\ (AbortInStart \/ ~InStart)
  /\ handler' = "closed"
  /\ CloseAll
  /\ cutOff' = {a \in Articles : fate[a] = "taken"}
  /\ UNCHANGED <<killVars, killQ, thread, fate, lines, breaks>>

\* writeFile saves the marks, then the program ends.
HandlerExit ==
  /\ handler = "closed"
  /\ handler' = "exit"
  /\ UNCHANGED <<killVars, spoolVars, killQ, thread, fate, lines, breaks, cutOff>>

Decided == \A a \in Articles : fate[a] \notin {"open", "taken"}

Finish ==
  /\ handler = "no" /\ Decided
  /\ handler' = "exit"
  /\ CloseAll
  /\ UNCHANGED <<killVars, killQ, thread, fate, lines, breaks, cutOff>>

Next ==
  \/ \E g \in Groups : KillQBuild(g) \/ KillQLook(g)
  \/ \E t \in Threads, a \in Articles : ArticleStep(t, a)
  \/ Signal \/ HandlerClose \/ HandlerExit \/ Finish

Spec == Init /\ [][Next]_vars

----------------------------------------------------------------------------
(* Properties *)

\* An article is killed only if the rules for its own group give the lines that were read
\* less than the threshold, whatever other threads do to the list of sections.  (doKillQ may
\* see the list of another group.  With a threshold up to 0 that keeps articles too many;
\* with a higher one a group without rules, whose articles all score 0, loses them all.)
KillsAreDue ==
  \A a \in Articles :
    fate[a] = "killed" => Total(GroupOf[a], SubSeq(Header[a], 1, lines[a])) < Threshold

\* ... and, as the manual says, the whole header.
KillsOverHeader ==
  \A a \in Articles : fate[a] = "killed" => Total(GroupOf[a], Header[a]) < Threshold

Listed(n) == {areas[l].id : l \in {k \in DOMAIN areas : areas[k].file = n}}

Copies(a) == {n \in DOMAIN files : \E i \in DOMAIN files[n] : files[n][i].art = a}

\* An article that counts as stored is whole in exactly one message file, which AREAS lists
\* for its group, also after a crash, an abort or the replacement of an area in the list;
\* only articles under way when the handler closes the packet may get lost.
Filed ==
  \A a \in Articles :
    fate[a] = "stored" /\ a \notin cutOff =>
      \E n \in DOMAIN files :
        /\ Copies(a) = {n} /\ Listed(n) = {GroupOf[a]}
        /\ \A i \in DOMAIN files[n] : files[n][i].art = a => Whole(files[n][i])

\* Until the packet is closed nothing but the message being written is incomplete: the
\* messages of several threads are never mixed up in a file.
Apart ==
  areasOpen =>
    \A n \in DOMAIN files : \A i \in DOMAIN files[n] :
      Whole(files[n][i]) \/ (msgStarted /\ n = msgF /\ i = Len(files[n]))

\* Every message of a packet is whole, also that of a session which was aborted.
PacketWhole ==
  handler = "exit" => \A l \in DOMAIN areas : \A i \in DOMAIN files[areas[l].file] : Whole(files[areas[l].file][i])
=============================================================================
