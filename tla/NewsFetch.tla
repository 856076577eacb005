----------------------------- MODULE NewsFetch -----------------------------
(***************************************************************************)
(* One news reception session of VSoup: getNews() of news.cc with the      *)
(* threads it starts.  A pool of NNTP connections (slots) is shared by     *)
(*   - the main thread, which walks over the subscribed groups,            *)
(*   - the group routines mtGetGroup(), run inline by the main thread      *)
(*     (strategies 0 and 1) or as threads of their own (strategy 2),       *)
(*   - the worker threads _nntpMtConnect(), mtGetNewGroups(), mtGetXhdr()  *)
(*     and mtGetArticle(), one per slot at a time,                         *)
(*   - the disconnect thread and the handler of SIGINT.                    *)
(* The range lists of the newsrc are abstracted to the sets of read        *)
(* article numbers (module ReadList has the lists), the message files to   *)
(* the set of articles completely stored in them.                          *)
(***************************************************************************)
EXTENDS Integers, FiniteSets

CONSTANTS
  MaxNntpThreads,  \* number of connections, option -t
  NumGroups,       \* number of subscribed groups, in newsrc order
  GroupLo,         \* first and last article number the server reports
  GroupHi,         \*   for each group
  NotAvail,        \* <<group, number>> pairs the server does not have
  Kill,            \* articles the score file kills
  KillCut,         \* articles it would kill after some beginning of their header
  CrossPost,       \* sets of <<group, number>> naming one and the same article
  BadGroups,       \* groups the server refuses to select
  ReadBefore,      \* articles marked read in the newsrc before the session
  Strategy,        \* option -S: 0, 1 or 2
  DoXref,          \* FALSE with option -x
  DoNewGroups,     \* option -a
  ReadOnly,        \* option -r
  MaxBytes,        \* option -k in units of one article body, 0: no limit
  ThroughputCheck, \* FALSE with option -T-1
  UserAbort,       \* the user may hit ^C
  DiskFull,        \* writing a message file may fail
  FaultKinds,      \* how an established connection may die: {"down", "stuck"}
  MaxFaults,       \* bound on connection faults
  ConnectTries,    \* attempts per connection (3 in the code)
  ResetAbove,      \* in groups with more than so many articles (100 in the code)
  ResetSlack,      \* a mark may be so far above the last article (4 in the code)
  NotAvailMax,     \* misses in a row before NEXT is used (10 in the code)
  XhdrGap          \* least number of articles worth an XHDR (20 in the code)

Slots   == 0 .. MaxNntpThreads - 1
Group   == 1 .. NumGroups
NoSlot  == -1
NoGroup == 0

ASSUME ConstantsOK ==
  /\ MaxNntpThreads \in Nat \ {0}
  /\ NumGroups \in Nat
  /\ GroupLo \in [Group -> Nat \ {0}]
  /\ GroupHi \in [Group -> Nat]
  /\ ReadBefore \in [Group -> SUBSET Nat]
  /\ CrossPost \subseteq SUBSET (Group \X Nat)
  /\ Kill \subseteq KillCut
  /\ ResetAbove \in Nat /\ ResetSlack \in Nat
  /\ Strategy \in 0 .. 2
  /\ MaxBytes \in Nat
  /\ MaxFaults \in Nat
  /\ ConnectTries \in Nat \ {0}
  /\ NotAvailMax \in Nat \ {0}
  /\ FaultKinds \subseteq {"down", "stuck"}
  /\ {DoXref, DoNewGroups, ReadOnly, ThroughputCheck, UserAbort, DiskFull}
       \subseteq BOOLEAN
-----------------------------------------------------------------------------
VARIABLES
  mainPc,          \* control point of the main thread
  curGroup,        \* groupName of getNews()
  mainSlot,        \* the slot getNews() holds for the next group
  disc,            \* next slot the disconnect thread closes, NoSlot: not started
  nntpS,           \* state of each slot
  nntpSyncCall,    \* per slot: mtGetArticle() is called synchronously
  nntp,            \* per slot: the TNntp object
  job,             \* per slot: control point of the worker thread on it
  attempts,        \* per slot: connection attempts left
  rpc,             \* per group: control point of its mtGetGroup()
  loc,             \* per group: local variables of its mtGetGroup()
  activeRoutines,  \* number of mtGetGroup() at work
  syncTransSema,   \* the group whose routine owns syncTransSema
  xhdr,            \* xhdrSema and the static variables it protects
  read,            \* newsrc in memory: read articles of each group
  saved,           \* newsrc on disk
  written,         \* articles completely stored in the message files
  areasOpen,       \* FALSE after areas.closeAll()
  bytes,           \* TSocket::getBytesRcvd(), in article bodies
  stopOperation,
  doAbortProgram,
  faults           \* connection faults so far

mainVars  == <<mainPc, curGroup, mainSlot, disc>>
slotVars  == <<nntpS, nntpSyncCall, nntp, job, attempts>>
groupVars == <<rpc, loc, activeRoutines, syncTransSema>>
newsVars  == <<read, written, bytes>>
endVars   == <<saved, areasOpen, doAbortProgram>>
vars == <<mainVars, slotVars, groupVars, xhdr, newsVars, endVars,
          stopOperation, faults>>

NntpStates == {"init", "connecting", "failed", "waiting", "starting",
               "running", "runningspecial", "aborted"}
ArticleJobs == {"artStart", "artHead", "artLines", "artBody", "artWrite", "artMark",
                "artMissing", "artNext", "artFail"}
Jobs == ArticleJobs \cup {"none", "connBegin", "connOpen", "ngStart", "ngList",
                          "xhStart", "xhBegin", "xhLines"}
RoutinePcs == {"none", "begun", "select", "loop", "pick", "take", "inArticle",
               "ending", "done"}
Handler == {"sigClose", "sigSave"}
Final   == {"gaveUp", "timedOut", "end", "exited"}
MainPcs == {"connect", "waitConnect", "newGroups", "waitOne", "getSlot",
            "gotSlot", "inGroup", "drain", "afterGroup", "settle", "scan",
            "chkActive", "save", "waitDisc"} \cup Handler \cup Final

Avail(g) == {n \in GroupLo[g] .. GroupHi[g] : <<g, n>> \notin NotAvail}

SetMin(S) == CHOOSE m \in S : \A n \in S : m <= n
SetMax(S) == CHOOSE m \in S : \A n \in S : n <= m
-----------------------------------------------------------------------------
(* The newsrc operations the session uses, on sets of article numbers.     *)

\* mutants of FixRead: the first article counts as read, lo and hi swapped
FixReadFirst(S, lo, hi) == S \cup (1 .. lo)
FixReadSwapped(S, lo, hi) == S \cup (1 .. hi)

\* grpFixReadList(): a mark above the last article, or a little higher in a large
\* group, means a reset group; all numbers below the first article count as read.
FixRead(S, lo, hi) ==
  LET last == hi + (IF hi > ResetAbove THEN ResetSlack ELSE 0)
  IN (IF \E n \in S : n > last THEN {} ELSE S \ (1 .. lo - 1)) \cup (1 .. lo - 1)

\* The first number of lo .. hi not in S, hi + 1 if there is none.
NextUnread(S, lo, hi) ==
  IF \E n \in lo .. hi : n \notin S
  THEN SetMin({n \in lo .. hi : n \notin S})
  ELSE IF lo > hi THEN lo ELSE hi + 1

\* artMarkRead() for a set of pairs
Mark(pairs) ==
  read' = [g \in Group |-> read[g] \cup {p[2] : p \in {q \in pairs : q[1] = g}}]

\* processXref(): the Xref line lists every group the article was posted to
XrefPairs(g, n) == {<<g, n>>} \cup UNION {x \in CrossPost : <<g, n>> \in x}

Enough == MaxBytes > 0 /\ bytes >= MaxBytes
-----------------------------------------------------------------------------
(* The slots.                                                              *)

\* mutants of WaitingSlots: a slot on its way, or a dead one, is handed out
WaitingOrStarting == {s \in Slots : nntpS[s] \in {"waiting", "starting"}}
WaitingOrFailed   == {s \in Slots : nntpS[s] \in {"waiting", "failed"}}

WaitingSlots == {s \in Slots : nntpS[s] = "waiting"}
FirstWaiting == SetMin(WaitingSlots)

\* mutants of AnyRunning: a state is forgotten
AnyRunningNotStarting(checkSpecial) ==
  \E s \in Slots : \/ nntpS[s] = "running"
                   \/ checkSpecial /\ nntpS[s] = "runningspecial"
AnyRunningNotSpecial(checkSpecial) ==
  \E s \in Slots : nntpS[s] \in {"starting", "running"}

\* nntpMtAnyRunning(checkSpecial)
AnyRunning(checkSpecial) ==
  \E s \in Slots : \/ nntpS[s] \in {"starting", "running"}
                   \/ checkSpecial /\ nntpS[s] = "runningspecial"

\* The server answers on slot s, or the socket reports the connection dead.  (Lines
\* buffered when the signal arrives count as processed before it.)
Answers(s) == ~doAbortProgram /\ nntp[s].link = "up"
Breaks(s)  == ~doAbortProgram /\ nntp[s].link \in {"down", "closed"}

\* mutant of Transferring: a busy slot counts, its connection dead or not
TransferringBusy(s) == job[s] # "none"

\* Bytes may arrive on slot s.
Transferring(s) ==
  \/ job[s] \in {"connBegin", "connOpen"}
  \/ /\ nntp[s].link = "up"
     /\ \/ job[s] \in {"ngList", "xhBegin", "xhLines", "artHead", "artLines", "artBody"}
        \/ \E g \in Group : rpc[g] = "select" /\ loc[g].thread = s

\* selectArticle()
Select(s, g, n) ==
  nntp' = [nntp EXCEPT ![s].selGroup = g, ![s].selArticle = n]
-----------------------------------------------------------------------------
Init ==
  /\ mainPc = "connect" /\ curGroup = 1 /\ mainSlot = NoSlot /\ disc = NoSlot
  /\ nntpS = [s \in Slots |-> "init"]
  /\ nntpSyncCall = [s \in Slots |-> FALSE]
  /\ nntp = [s \in Slots |-> [link |-> "closed", actGroup |-> NoGroup,
                              selGroup |-> NoGroup, selArticle |-> -1,
                              selNntpArticle |-> -1, artNotAvail |-> 0]]
  /\ job = [s \in Slots |-> "none"]
  /\ attempts = [s \in Slots |-> ConnectTries]
  /\ rpc = [g \in Group |-> "none"]
  /\ loc = [g \in Group |-> [thread |-> NoSlot, artNum |-> 0,
                             artRequested |-> TRUE, syncCall |-> FALSE]]
  /\ activeRoutines = 0
  /\ syncTransSema = NoGroup
  /\ xhdr = [owner |-> NoSlot, expNum |-> 0, groupName |-> NoGroup]
  /\ read = ReadBefore /\ saved = ReadBefore
  /\ written = {} /\ areasOpen = TRUE /\ bytes = 0
  /\ stopOperation = FALSE /\ doAbortProgram = FALSE /\ faults = 0
-----------------------------------------------------------------------------
(* getNews(), the main thread.                                             *)

MainGoto(from, to) == mainPc = from /\ mainPc' = to

\* nntpConnect(): one thread per slot
StartConnect ==
  /\ MainGoto("connect", "waitConnect")
  /\ job' = [s \in Slots |-> "connBegin"]
  /\ UNCHANGED <<curGroup, mainSlot, disc, nntpS, nntpSyncCall, nntp, attempts,
                 groupVars, xhdr, newsVars, endVars, stopOperation, faults>>

\* nntpMtWaitConnect(): one slot connected, all failed, or TIMEOUT seconds gone
WaitConnect ==
  /\ LET up   == \E s \in Slots : nntpS[s] \in {"running", "runningspecial",
                                                "starting", "waiting"}
         none == \A s \in Slots : nntpS[s] \in {"aborted", "failed"}
     IN \/ up /\ MainGoto("waitConnect", "newGroups")
        \/ none /\ MainGoto("waitConnect", "gaveUp")
        \/ ~up /\ ~none /\ MainGoto("waitConnect", "timedOut")
  /\ UNCHANGED <<curGroup, mainSlot, disc, slotVars, groupVars, xhdr, newsVars,
                 endVars, stopOperation, faults>>

\* With -a, mtGetNewGroups() is started on the first waiting slot.
StartNewGroups ==
  /\ MainGoto("newGroups", "waitOne")
  /\ IF DoNewGroups
     THEN /\ WaitingSlots # {}
          /\ nntpS' = [nntpS EXCEPT ![FirstWaiting] = "starting"]
          /\ job' = [job EXCEPT ![FirstWaiting] = "ngStart"]
     ELSE UNCHANGED <<nntpS, job>>
  /\ UNCHANGED <<curGroup, mainSlot, disc, nntpSyncCall, nntp, attempts,
                 groupVars, xhdr, newsVars, endVars, stopOperation, faults>>

WaitOne ==
  /\ WaitingSlots # {}
  /\ MainGoto("waitOne", "getSlot")
  /\ UNCHANGED <<curGroup, mainSlot, disc, slotVars, groupVars, xhdr, newsVars,
                 endVars, stopOperation, faults>>

\* thread = nntpMtGetWaiting(1, starting) for the next group, if there is one
GetSlot ==
  /\ \/ /\ curGroup \in Group /\ WaitingSlots # {}
        /\ MainGoto("getSlot", "gotSlot")
        /\ mainSlot' = FirstWaiting
        /\ nntpS' = [nntpS EXCEPT ![FirstWaiting] = "starting"]
     \/ /\ curGroup \notin Group
        /\ MainGoto("getSlot", "settle")
        /\ UNCHANGED <<mainSlot, nntpS>>
  /\ UNCHANGED <<curGroup, disc, nntpSyncCall, nntp, job, attempts, groupVars,
                 xhdr, newsVars, endVars, stopOperation, faults>>

\* The loop is left when enough has been received; otherwise mtGetGroup() is
\* called, or started as a thread with strategy 2.
StartGroup ==
  /\ IF Enough
     THEN /\ MainGoto("gotSlot", "settle")
          /\ UNCHANGED <<mainSlot, nntpSyncCall, nntp, rpc, loc>>
     ELSE /\ MainGoto("gotSlot", IF Strategy = 2 THEN "afterGroup" ELSE "inGroup")
          /\ Select(mainSlot, curGroup, -1)
          /\ nntpSyncCall' = [nntpSyncCall EXCEPT ![mainSlot] = (Strategy = 2)]
          /\ rpc' = [rpc EXCEPT ![curGroup] = "begun"]
          /\ loc' = [loc EXCEPT ![curGroup].thread = mainSlot,
                                ![curGroup].syncCall = (Strategy = 2)]
          /\ mainSlot' = NoSlot
  /\ UNCHANGED <<curGroup, disc, nntpS, job, attempts, activeRoutines,
                 syncTransSema, xhdr, newsVars, endVars, stopOperation, faults>>

\* An inline mtGetGroup() has returned.
GroupReturned ==
  /\ MainGoto("inGroup", IF Strategy = 0 THEN "drain" ELSE "afterGroup")
  /\ rpc[curGroup] = "done"
  /\ UNCHANGED <<curGroup, mainSlot, disc, slotVars, groupVars, xhdr, newsVars,
                 endVars, stopOperation, faults>>

\* Strategy 0 waits for the articles of a group before it turns to the next.
Drain ==
  /\ ~AnyRunning(FALSE)
  /\ MainGoto("drain", "afterGroup")
  /\ UNCHANGED <<curGroup, mainSlot, disc, slotVars, groupVars, xhdr, newsVars,
                 endVars, stopOperation, faults>>

NextGroup ==
  /\ MainGoto("afterGroup", IF Enough THEN "settle" ELSE "getSlot")
  /\ curGroup' = IF Enough THEN curGroup ELSE curGroup + 1
  /\ UNCHANGED <<mainSlot, disc, slotVars, groupVars, xhdr, newsVars, endVars,
                 stopOperation, faults>>

\* nntpWaitFinished(): stop, then poll the slots and the routines in turn.
Settle ==
  /\ MainGoto("settle", "scan")
  /\ stopOperation' = TRUE
  /\ UNCHANGED <<curGroup, mainSlot, disc, slotVars, groupVars, xhdr, newsVars,
                 endVars, faults>>

Scan ==
  /\ ~AnyRunning(TRUE)
  /\ MainGoto("scan", "chkActive")
  /\ UNCHANGED <<curGroup, mainSlot, disc, slotVars, groupVars, xhdr, newsVars,
                 endVars, stopOperation, faults>>

\* mutant of ChkActive: a look at the slots is enough
ChkActiveNever ==
  /\ MainGoto("chkActive", "save") /\ disc' = 0
  /\ UNCHANGED <<curGroup, mainSlot, slotVars, groupVars, xhdr, newsVars,
                 endVars, stopOperation, faults>>

\* All quiet: the disconnect thread is started.
ChkActive ==
  /\ IF activeRoutines = 0
     THEN MainGoto("chkActive", "save") /\ disc' = 0
     ELSE MainGoto("chkActive", "scan") /\ UNCHANGED disc
  /\ UNCHANGED <<curGroup, mainSlot, slotVars, groupVars, xhdr, newsVars,
                 endVars, stopOperation, faults>>

\* newsrc.writeFile()
Save ==
  /\ MainGoto("save", "waitDisc")
  /\ saved' = IF ReadOnly THEN saved ELSE read
  /\ UNCHANGED <<curGroup, mainSlot, disc, slotVars, groupVars, xhdr, newsVars,
                 areasOpen, doAbortProgram, stopOperation, faults>>

\* disconnectDone.Wait(5000): the wait ends with the thread or without it
WaitDisc ==
  /\ MainGoto("waitDisc", "end")
  /\ UNCHANGED <<curGroup, mainSlot, disc, slotVars, groupVars, xhdr, newsVars,
                 endVars, stopOperation, faults>>

MainNext ==
  \/ StartConnect \/ WaitConnect \/ StartNewGroups \/ WaitOne \/ GetSlot
  \/ StartGroup \/ GroupReturned \/ Drain \/ NextGroup \/ Settle \/ Scan
  \/ ChkActive \/ Save \/ WaitDisc
-----------------------------------------------------------------------------
\* mutant of Disconnect: the loop runs one slot too far
DisconnectTooFar ==
  /\ disc \in 0 .. MaxNntpThreads /\ ~doAbortProgram
  /\ nntp' = [s \in Slots |-> [nntp[s] EXCEPT !.link = IF s = disc THEN "closed" ELSE @]]
  /\ nntpS' = [s \in Slots |-> IF s = disc THEN "init" ELSE nntpS[s]]
  /\ disc' = disc + 1
  /\ UNCHANGED <<mainPc, curGroup, mainSlot, nntpSyncCall, job, attempts,
                 groupVars, xhdr, newsVars, endVars, stopOperation, faults>>

(* nntpMtDisconnect(), a thread of its own.                                *)
Disconnect ==
  /\ disc \in Slots /\ ~doAbortProgram
  /\ nntp' = IF nntpS[disc] \in {"failed", "aborted"} THEN nntp
             ELSE [nntp EXCEPT ![disc].link = "closed"]
  /\ nntpS' = [nntpS EXCEPT ![disc] = "init"]
  /\ disc' = disc + 1
  /\ UNCHANGED <<mainPc, curGroup, mainSlot, nntpSyncCall, job, attempts,
                 groupVars, xhdr, newsVars, endVars, stopOperation, faults>>
-----------------------------------------------------------------------------
(* mtGetGroup(g).  With strategies 0 and 1 it runs in the main thread.     *)

MayRun(g)     == Strategy = 2 \/ (mainPc = "inGroup" /\ curGroup = g)
RGoto(g, to)  == rpc' = [rpc EXCEPT ![g] = to]
Thread(g)     == loc[g].thread
EnoughArt(g, n) == IF Enough THEN GroupHi[g] + 1 ELSE n

RoutineBegin(g) ==
  /\ rpc[g] = "begun"
  /\ RGoto(g, "select")
  /\ activeRoutines' = activeRoutines + 1
  /\ UNCHANGED <<mainVars, slotVars, loc, syncTransSema, xhdr, newsVars,
                 endVars, stopOperation, faults>>

\* GROUP succeeds: the read list is fixed, the first unread article looked up,
\* and an asynchronous routine hands its slot to mtGetXhdr().
SelectOk(g) ==
  LET s == Thread(g)
      S == FixRead(read[g], GroupLo[g], GroupHi[g])
  IN /\ rpc[g] = "select" /\ Answers(s) /\ g \notin BadGroups
     /\ RGoto(g, "loop")
     /\ read' = [read EXCEPT ![g] = S]
     /\ loc' = [loc EXCEPT ![g].artNum = NextUnread(S, GroupLo[g], GroupHi[g]),
                           ![g].artRequested = TRUE]
     /\ IF loc[g].syncCall
        THEN /\ nntp' = [nntp EXCEPT ![s].actGroup = g, ![s].selNntpArticle = -1]
             /\ UNCHANGED job
        ELSE /\ nntp' = [nntp EXCEPT ![s].actGroup = g, ![s].selNntpArticle = -1,
                           ![s].selGroup = g,
                           ![s].selArticle = NextUnread(S, GroupLo[g], GroupHi[g])]
             /\ job' = [job EXCEPT ![s] = "xhStart"]
     /\ UNCHANGED <<mainVars, nntpS, nntpSyncCall, attempts, activeRoutines,
                    syncTransSema, xhdr, written, bytes, endVars, stopOperation,
                    faults>>

\* GROUP fails, on a dead connection or an unknown group: the slot is given back.
SelectFail(g) ==
  LET s == Thread(g) IN
  /\ rpc[g] = "select"
  /\ Breaks(s) \/ (Answers(s) /\ g \in BadGroups)
  /\ RGoto(g, "done")
  /\ nntp' = [nntp EXCEPT ![s].actGroup = NoGroup, ![s].selNntpArticle = -1]
  /\ nntpS' = [nntpS EXCEPT ![s] = "waiting"]
  /\ activeRoutines' = activeRoutines - 1
  /\ UNCHANGED <<mainVars, nntpSyncCall, job, attempts, loc, syncTransSema, xhdr,
                 newsVars, endVars, stopOperation, faults>>

\* mutant of LoopEnds: >= for >
LoopEndsEarly(g) == loc[g].artNum >= GroupHi[g] /\ WaitingSlots # {}

\* The loop ends with every article requested and, in an asynchronous routine,
\* a slot waiting for the next group.
LoopEnds(g) ==
  /\ loc[g].artNum > GroupHi[g]
  /\ loc[g].artRequested
  /\ WaitingSlots # {} \/ loc[g].syncCall

LoopExit(g) ==
  /\ rpc[g] = "loop" /\ LoopEnds(g)
  /\ RGoto(g, "ending")
  /\ nntpS' = IF loc[g].syncCall THEN [nntpS EXCEPT ![Thread(g)] = "waiting"]
              ELSE nntpS
  /\ syncTransSema' = IF syncTransSema = g THEN NoGroup ELSE syncTransSema
  /\ UNCHANGED <<mainVars, nntpSyncCall, nntp, job, attempts, loc,
                 activeRoutines, xhdr, newsVars, endVars, stopOperation, faults>>

RoutineEnd(g) ==
  /\ rpc[g] = "ending"
  /\ RGoto(g, "done")
  /\ activeRoutines' = activeRoutines - 1
  /\ UNCHANGED <<mainVars, slotVars, loc, syncTransSema, xhdr, newsVars, endVars,
                 stopOperation, faults>>

\* mutant of MayTransit: the semaphore is not asked
MayTransitAlways(g) == stopOperation /\ loc[g].syncCall

\* Once the main thread has no more groups, one synchronous routine may give its
\* own slot up and use all the slots that are waiting.
MayTransit(g) == stopOperation /\ loc[g].syncCall /\ syncTransSema = NoGroup

LoopTransit(g) ==
  /\ rpc[g] = "loop" /\ ~LoopEnds(g) /\ MayTransit(g)
  /\ RGoto(g, "pick")
  /\ syncTransSema' = g
  /\ loc' = [loc EXCEPT ![g].syncCall = FALSE]
  /\ nntpS' = [nntpS EXCEPT ![Thread(g)] = "waiting"]
  /\ UNCHANGED <<mainVars, nntpSyncCall, nntp, job, attempts, activeRoutines,
                 xhdr, newsVars, endVars, stopOperation, faults>>

LoopBody(g) ==
  /\ rpc[g] = "loop" /\ ~LoopEnds(g) /\ ~MayTransit(g)
  /\ RGoto(g, "pick")
  /\ UNCHANGED <<mainVars, slotVars, loc, activeRoutines, syncTransSema, xhdr,
                 newsVars, endVars, stopOperation, faults>>

\* mutant of Pick: the search starts at the first article each time
PickFromFirst(g) ==
  /\ rpc[g] = "pick"
  /\ RGoto(g, "take")
  /\ LET n == NextUnread(read[g], GroupLo[g], GroupHi[g]) IN
     loc' = IF loc[g].artRequested
            THEN [loc EXCEPT ![g].artNum = n,
                             ![g].artRequested = (n > GroupHi[g])]
            ELSE loc
  /\ UNCHANGED <<mainVars, slotVars, activeRoutines, syncTransSema, xhdr,
                 newsVars, endVars, stopOperation, faults>>

\* The next unread article is looked up, unless one is pending already.
Pick(g) ==
  /\ rpc[g] = "pick"
  /\ RGoto(g, "take")
  /\ LET n == NextUnread(read[g], loc[g].artNum, GroupHi[g]) IN
     loc' = IF loc[g].artRequested
            THEN [loc EXCEPT ![g].artNum = n,
                             ![g].artRequested = (n > GroupHi[g])]
            ELSE loc
  /\ UNCHANGED <<mainVars, slotVars, activeRoutines, syncTransSema, xhdr,
                 newsVars, endVars, stopOperation, faults>>

\* An asynchronous routine starts mtGetArticle() on the first waiting slot.
TakeAsync(g) ==
  /\ rpc[g] = "take" /\ ~loc[g].artRequested /\ ~loc[g].syncCall
  /\ WaitingSlots # {}
  /\ LET s == FirstWaiting IN
     /\ nntpS' = [nntpS EXCEPT ![s] = "starting"]
     /\ nntpSyncCall' = [nntpSyncCall EXCEPT ![s] = FALSE]
     /\ Select(s, g, loc[g].artNum)
     /\ job' = [job EXCEPT ![s] = "artStart"]
     /\ loc' = [loc EXCEPT ![g].thread = s, ![g].artRequested = TRUE,
                           ![g].artNum = EnoughArt(g, loc[g].artNum + 1)]
  /\ RGoto(g, "loop")
  /\ UNCHANGED <<mainVars, attempts, activeRoutines, syncTransSema, xhdr,
                 newsVars, endVars, stopOperation, faults>>

\* A synchronous routine calls mtGetArticle() on its own slot.  The test for
\* failed or aborted behind the assignment of starting can never succeed.
TakeSync(g) ==
  /\ rpc[g] = "take" /\ ~loc[g].artRequested /\ loc[g].syncCall
  /\ nntpS' = [nntpS EXCEPT ![Thread(g)] = "starting"]
  /\ nntpSyncCall' = [nntpSyncCall EXCEPT ![Thread(g)] = TRUE]
  /\ Select(Thread(g), g, loc[g].artNum)
  /\ job' = [job EXCEPT ![Thread(g)] = "artStart"]
  /\ RGoto(g, "inArticle")
  /\ UNCHANGED <<mainVars, attempts, loc, activeRoutines, syncTransSema, xhdr,
                 newsVars, endVars, stopOperation, faults>>

ArticleDone(g) ==
  /\ rpc[g] = "inArticle" /\ job[Thread(g)] = "none"
  /\ RGoto(g, "loop")
  /\ loc' = [loc EXCEPT ![g].artRequested = TRUE,
                        ![g].artNum = EnoughArt(g, loc[g].artNum + 1)]
  /\ UNCHANGED <<mainVars, slotVars, activeRoutines, syncTransSema, xhdr,
                 newsVars, endVars, stopOperation, faults>>

\* Nothing to request, or no slot to request it with: wait a little.  The byte
\* limit moves artNum behind the last article even if one is pending.
TakeNone(g) ==
  /\ rpc[g] = "take"
  /\ loc[g].artRequested \/ (~loc[g].syncCall /\ WaitingSlots = {})
  /\ RGoto(g, "loop")
  /\ loc' = [loc EXCEPT ![g].artNum = EnoughArt(g, loc[g].artNum)]
  /\ UNCHANGED <<mainVars, slotVars, activeRoutines, syncTransSema, xhdr,
                 newsVars, endVars, stopOperation, faults>>

RoutineNext(g) ==
  /\ MayRun(g)
  /\ \/ RoutineBegin(g) \/ SelectOk(g) \/ SelectFail(g) \/ LoopExit(g)
     \/ RoutineEnd(g) \/ LoopTransit(g) \/ LoopBody(g) \/ Pick(g)
     \/ TakeAsync(g) \/ TakeSync(g) \/ ArticleDone(g) \/ TakeNone(g)
-----------------------------------------------------------------------------
(* The workers on slot s: control moves from job to job, the slot changes    *)
(* its state at the beginning and at the end.                                *)

JobGoto(s, from, to) == job[s] = from /\ job' = [job EXCEPT ![s] = to]
SetS(s, state)       == nntpS' = [nntpS EXCEPT ![s] = state]

\* _nntpMtConnect(): the slot shows failed between two attempts.
ConnBegin(s) ==
  /\ JobGoto(s, "connBegin", IF doAbortProgram THEN "none" ELSE "connOpen")
  /\ SetS(s, "connecting")
  /\ UNCHANGED <<mainVars, nntpSyncCall, nntp, attempts, groupVars, xhdr,
                 newsVars, endVars, stopOperation, faults>>

ConnOk(s) ==
  /\ JobGoto(s, "connOpen", "none") /\ ~doAbortProgram
  /\ SetS(s, "waiting")
  /\ nntp' = [nntp EXCEPT ![s].link = "up"]
  /\ UNCHANGED <<mainVars, nntpSyncCall, attempts, groupVars, xhdr, newsVars,
                 endVars, stopOperation, faults>>

ConnFail(s) ==
  /\ faults < MaxFaults /\ faults' = faults + 1
  /\ JobGoto(s, "connOpen", IF attempts[s] > 1 THEN "connBegin" ELSE "none")
  /\ ~doAbortProgram
  /\ SetS(s, "failed")
  /\ attempts' = [attempts EXCEPT ![s] = @ - 1]
  /\ UNCHANGED <<mainVars, nntpSyncCall, nntp, groupVars, xhdr, newsVars,
                 endVars, stopOperation>>

\* mtGetNewGroups(): new groups enter the newsrc unsubscribed, so the session
\* does not see them; the slot is handed back whatever the result.
NgStart(s) ==
  /\ JobGoto(s, "ngStart", "ngList")
  /\ SetS(s, "runningspecial")
  /\ UNCHANGED <<mainVars, nntpSyncCall, nntp, attempts, groupVars, xhdr,
                 newsVars, endVars, stopOperation, faults>>

NgList(s) ==
  /\ JobGoto(s, "ngList", "none") /\ (Answers(s) \/ Breaks(s))
  /\ SetS(s, "waiting")
  /\ UNCHANGED <<mainVars, nntpSyncCall, nntp, attempts, groupVars, xhdr,
                 newsVars, endVars, stopOperation, faults>>

\* mtGetXhdr(), serialised by xhdrSema; few articles are not worth the command.
XhStart(s) ==
  LET worth == GroupHi[nntp[s].actGroup] - nntp[s].selArticle > XhdrGap IN
  /\ xhdr.owner = NoSlot
  /\ JobGoto(s, "xhStart", IF worth THEN "xhBegin" ELSE "none")
  /\ SetS(s, IF worth THEN "runningspecial" ELSE "waiting")
  /\ xhdr' = [xhdr EXCEPT !.owner = IF worth THEN s ELSE NoSlot]
  /\ UNCHANGED <<mainVars, nntpSyncCall, nntp, attempts, groupVars, newsVars,
                 endVars, stopOperation, faults>>

\* The answer begins: the callback is told the first number and the group.
XhBegin(s) ==
  /\ JobGoto(s, "xhBegin", "xhLines") /\ Answers(s)
  /\ xhdr' = [xhdr EXCEPT !.expNum = nntp[s].selArticle,
                          !.groupName = nntp[s].actGroup]
  /\ UNCHANGED <<mainVars, nntpS, nntpSyncCall, nntp, attempts, groupVars,
                 newsVars, endVars, stopOperation, faults>>

\* XHDR is not understood or not answered: getXhdr() returns ok all the same.
XhRefused(s) ==
  /\ JobGoto(s, "xhBegin", "none") /\ (Answers(s) \/ Breaks(s))
  /\ SetS(s, "waiting")
  /\ xhdr' = [xhdr EXCEPT !.owner = NoSlot]
  /\ UNCHANGED <<mainVars, nntpSyncCall, nntp, attempts, groupVars, newsVars,
                 endVars, stopOperation, faults>>

XhComing(s) == {n \in Avail(nntp[s].actGroup) : n >= xhdr.expNum}

\* One line: the numbers skipped since the line before are marked read.
XhLine(s) ==
  /\ job[s] = "xhLines" /\ Answers(s) /\ XhComing(s) # {}
  /\ LET cur == SetMin(XhComing(s)) IN
     /\ Mark({xhdr.groupName} \X (xhdr.expNum .. cur - 1))
     /\ xhdr' = [xhdr EXCEPT !.expNum = cur + 1,
                             !.owner = IF stopOperation THEN NoSlot ELSE s]
  /\ job' = [job EXCEPT ![s] = IF stopOperation THEN "none" ELSE "xhLines"]
  /\ nntpS' = [nntpS EXCEPT ![s] = IF stopOperation THEN "aborted"
                                   ELSE "runningspecial"]
  /\ UNCHANGED <<mainVars, nntpSyncCall, nntp, attempts, groupVars, written,
                 bytes, endVars, stopOperation, faults>>

XhEnd(s) ==
  /\ JobGoto(s, "xhLines", "none")
  /\ \/ Answers(s) /\ XhComing(s) = {} /\ SetS(s, "waiting")
     \/ Breaks(s) /\ SetS(s, "aborted")
  /\ xhdr' = [xhdr EXCEPT !.owner = NoSlot]
  /\ UNCHANGED <<mainVars, nntpSyncCall, nntp, attempts, groupVars, newsVars,
                 endVars, stopOperation, faults>>

(* mtGetArticle() with TNntp::getArticle().                                  *)

Art(s) == <<nntp[s].selGroup, nntp[s].selArticle>>
CanGet(s) == Art(s)[2] \in Avail(Art(s)[1])
MustSelect(s) == nntp[s].actGroup # nntp[s].selGroup

\* The end of mtGetArticle(): the worker is gone.
Finished(s, connectionOk) ==
  /\ job' = [job EXCEPT ![s] = "none"]
  /\ SetS(s, IF ~connectionOk THEN "failed"
             ELSE IF nntpSyncCall[s] THEN "runningspecial" ELSE "waiting")

ArtStart(s) ==
  /\ JobGoto(s, "artStart", "artHead")
  /\ SetS(s, "running")
  /\ UNCHANGED <<mainVars, nntpSyncCall, nntp, attempts, groupVars, xhdr,
                 newsVars, endVars, stopOperation, faults>>

\* _getHead(), after GROUP if another group is selected
HeadOk(s) ==
  /\ JobGoto(s, "artHead", "artLines") /\ Answers(s) /\ CanGet(s)
  /\ nntp' = [nntp EXCEPT ![s].actGroup = nntp[s].selGroup,
                          ![s].selNntpArticle = nntp[s].selArticle]
  /\ UNCHANGED <<mainVars, nntpS, nntpSyncCall, attempts, groupVars, xhdr,
                 newsVars, endVars, stopOperation, faults>>

\* nextArticle() is ruled out until an article of the group has been read.
HeadNotAvail(s) ==
  /\ JobGoto(s, "artHead", "artMissing") /\ Answers(s) /\ ~CanGet(s)
  /\ nntp' = [nntp EXCEPT ![s].actGroup = nntp[s].selGroup,
                          ![s].selNntpArticle = IF MustSelect(s) THEN -1 ELSE @]
  /\ UNCHANGED <<mainVars, nntpS, nntpSyncCall, attempts, groupVars, xhdr,
                 newsVars, endVars, stopOperation, faults>>

\* The connection dies, before or after the GROUP command has been answered.
HeadFail(s) ==
  /\ JobGoto(s, "artHead", "artFail") /\ Breaks(s)
  /\ \E selected \in {TRUE, ~MustSelect(s)} :
       nntp' = IF ~MustSelect(s) THEN nntp
               ELSE [nntp EXCEPT ![s].selNntpArticle = -1,
                       ![s].actGroup = IF selected THEN nntp[s].selGroup ELSE NoGroup]
  /\ UNCHANGED <<mainVars, nntpS, nntpSyncCall, attempts, groupVars, xhdr,
                 newsVars, endVars, stopOperation, faults>>

\* The lines of the header: every Xref entry is marked read as its line arrives,
\* then the score decides.
XrefMarks(s) == IF DoXref THEN XrefPairs(Art(s)[1], Art(s)[2]) ELSE {}

LinesOk(s) ==
  /\ JobGoto(s, "artLines", IF Art(s) \in Kill THEN "artMark" ELSE "artBody")
  /\ Answers(s)
  /\ Mark(XrefMarks(s))
  /\ UNCHANGED <<mainVars, nntpS, nntpSyncCall, nntp, attempts, groupVars, xhdr,
                 written, bytes, endVars, stopOperation, faults>>

\* The header is cut off: the score reached by then decides, whatever the lines
\* that did not arrive would have added.
LinesCut(s) ==
  /\ Breaks(s)
  /\ \/ JobGoto(s, "artLines", "artFail")
     \/ Art(s) \in KillCut /\ JobGoto(s, "artLines", "artMark")
  /\ Mark(XrefMarks(s)) \/ Mark({})
  /\ UNCHANGED <<mainVars, nntpS, nntpSyncCall, nntp, attempts, groupVars, xhdr,
                 written, bytes, endVars, stopOperation, faults>>

\* _getBody()
BodyOk(s) ==
  /\ JobGoto(s, "artBody", "artWrite") /\ Answers(s)
  /\ bytes' = IF bytes < MaxBytes THEN bytes + 1 ELSE bytes
  /\ UNCHANGED <<mainVars, nntpS, nntpSyncCall, nntp, attempts, groupVars, xhdr,
                 read, written, endVars, stopOperation, faults>>

\* mutant of BodyFail: a broken article counts as received
BodyFailIgnored(s) ==
  /\ JobGoto(s, "artBody", "artMark") /\ Breaks(s)
  /\ UNCHANGED <<mainVars, nntpS, nntpSyncCall, nntp, attempts, groupVars, xhdr,
                 newsVars, endVars, stopOperation, faults>>

BodyFail(s) ==
  /\ JobGoto(s, "artBody", "artFail") /\ Breaks(s)
  /\ UNCHANGED <<mainVars, nntpS, nntpSyncCall, nntp, attempts, groupVars, xhdr,
                 newsVars, endVars, stopOperation, faults>>

\* writeArticle(), whose result mtGetArticle() does not look at
ArtWrite(s) ==
  /\ JobGoto(s, "artWrite", "artMark")
  /\ \/ areasOpen /\ written' = written \cup {Art(s)}
     \/ (DiskFull \/ ~areasOpen) /\ UNCHANGED written
  /\ UNCHANGED <<mainVars, nntpS, nntpSyncCall, nntp, attempts, groupVars, xhdr,
                 read, bytes, endVars, stopOperation, faults>>

\* Written or killed: marked read.
ArtMark(s) ==
  /\ job[s] = "artMark"
  /\ Mark({Art(s)})
  /\ nntp' = [nntp EXCEPT ![s].artNotAvail = 0]
  /\ Finished(s, TRUE)
  /\ UNCHANGED <<mainVars, nntpSyncCall, attempts, groupVars, xhdr, written,
                 bytes, endVars, stopOperation, faults>>

\* Not available: marked read; NotAvailMax misses in a row switch to NEXT.
ArtMissing(s) ==
  LET cnt    == nntp[s].artNotAvail + 1
      many   == cnt >= NotAvailMax
      unread == Art(s)[2] \notin read[Art(s)[1]]
  IN /\ job[s] = "artMissing"
     /\ Mark(IF ~many \/ unread THEN {Art(s)} ELSE {})
     /\ nntp' = [nntp EXCEPT ![s].artNotAvail =
                   IF ~many THEN cnt ELSE IF unread THEN 0 ELSE NotAvailMax]
     /\ IF many /\ unread /\ nntp[s].selNntpArticle >= 0
        THEN job' = [job EXCEPT ![s] = "artNext"] /\ UNCHANGED nntpS
        ELSE Finished(s, TRUE)
     /\ UNCHANGED <<mainVars, nntpSyncCall, attempts, groupVars, xhdr, written,
                    bytes, endVars, stopOperation, faults>>

\* mutant of NextHoles: the begin of the hole is included
NextHolesFrom(g, n, after) ==
  {k \in n .. GroupHi[g] : \A a \in after : a > n => k <= a}

\* The numbers the NEXT loop marks read.  NEXT returns the articles After the
\* connection's current one in turn; the loop marks the holes between those up
\* to n, and the hole from the last of those (or n) to the first one Beyond n.
NextHoles(g, n, after) ==
  LET beyond == {k \in after : k > n}
      upto   == after \ beyond
      from   == IF upto = {} THEN n ELSE SetMin(upto)
      to     == IF beyond # {} THEN SetMin(beyond)
                ELSE IF upto = {} THEN GroupHi[g] + 1 ELSE SetMax(upto)
  IN (from + 1 .. to - 1) \ upto

\* A failing NEXT means there are no more articles, a dead connection included.
ArtNext(s) ==
  LET g     == Art(s)[1]
      after == {k \in Avail(g) : k > nntp[s].selNntpArticle}
      seen  == IF Answers(s) THEN after ELSE {}
      beyond == {k \in seen : k > Art(s)[2]}
  IN /\ job[s] = "artNext" /\ (Answers(s) \/ Breaks(s))
     /\ Mark({g} \X NextHoles(g, Art(s)[2], seen))
     /\ nntp' = [nntp EXCEPT ![s].selNntpArticle =
                   IF beyond = {} THEN GroupHi[g] ELSE SetMin(beyond)]
     /\ Finished(s, TRUE)
     /\ UNCHANGED <<mainVars, nntpSyncCall, attempts, groupVars, xhdr, written,
                    bytes, endVars, stopOperation, faults>>

\* Any other error: the connection is to die.
ArtFail(s) ==
  /\ job[s] = "artFail"
  /\ Finished(s, FALSE)
  /\ UNCHANGED <<mainVars, nntpSyncCall, nntp, attempts, groupVars, xhdr,
                 newsVars, endVars, stopOperation, faults>>

\* An article of a synchronous call runs in its routine, so it needs MayRun;
\* that is strategy 2, where a routine always may run.
WorkerNext(s) ==
  \/ ConnBegin(s) \/ ConnOk(s) \/ ConnFail(s) \/ NgStart(s) \/ NgList(s)
  \/ XhStart(s) \/ XhBegin(s) \/ XhRefused(s) \/ XhLine(s) \/ XhEnd(s)
  \/ ArtStart(s) \/ HeadOk(s) \/ HeadNotAvail(s) \/ HeadFail(s) \/ LinesOk(s)
  \/ LinesCut(s) \/ BodyOk(s)
  \/ BodyFail(s) \/ ArtWrite(s) \/ ArtMark(s) \/ ArtMissing(s) \/ ArtNext(s)
  \/ ArtFail(s)
-----------------------------------------------------------------------------
(* The environment, and the end.                                             *)

\* An established connection is closed by the server, or hangs for ever.
LinkBreak(s) ==
  /\ nntp[s].link = "up" /\ faults < MaxFaults
  /\ faults' = faults + 1
  /\ \E kind \in FaultKinds : nntp' = [nntp EXCEPT ![s].link = kind]
  /\ UNCHANGED <<mainVars, nntpS, nntpSyncCall, job, attempts, groupVars, xhdr,
                 newsVars, endVars, stopOperation>>

\* SIGINT: the handler runs in the main thread, which never gets back to its work.
Sigint ==
  /\ mainPc \notin Handler \cup Final
  /\ mainPc' = "sigClose"
  /\ doAbortProgram' = TRUE
  /\ UNCHANGED <<curGroup, mainSlot, disc, slotVars, groupVars, xhdr, newsVars,
                 saved, areasOpen, stopOperation, faults>>

UserInterrupt == UserAbort /\ Sigint

\* checkTransfer() sends the signal when nothing has been transferred for a minute.
CheckTransfer == ThroughputCheck /\ (\A s \in Slots : ~Transferring(s)) /\ Sigint

\* signalHandler(): areas.closeAll(), ...
SigClose ==
  /\ MainGoto("sigClose", "sigSave")
  /\ areasOpen' = FALSE
  /\ UNCHANGED <<curGroup, mainSlot, disc, slotVars, groupVars, xhdr, newsVars,
                 saved, doAbortProgram, stopOperation, faults>>

\* ... newsrc.writeFile() and exit()
SigSave ==
  /\ MainGoto("sigSave", "exited")
  /\ saved' = IF ReadOnly THEN saved ELSE read
  /\ UNCHANGED <<curGroup, mainSlot, disc, slotVars, groupVars, xhdr, newsVars,
                 areasOpen, doAbortProgram, stopOperation, faults>>

\* The process lives until its main thread ends.
Alive == mainPc \notin Final

SlotNext(s)  == Alive /\ WorkerNext(s)
GroupNext(g) == Alive /\ RoutineNext(g)

Next ==
  \/ MainNext
  \/ UserInterrupt \/ CheckTransfer \/ SigClose \/ SigSave
  \/ \E g \in Group : GroupNext(g)
  \/ \E s \in Slots : SlotNext(s)
  \/ Alive /\ Disconnect
  \/ \E s \in Slots : Alive /\ LinkBreak(s)

Spec == Init /\ [][Next]_vars

\* Every thread that can go on does; checkTransfer() fires when it should.
Fairness ==
  /\ WF_vars(MainNext) /\ WF_vars(SigClose \/ SigSave)
  /\ \A g \in Group : WF_vars(GroupNext(g))
  /\ \A s \in Slots : WF_vars(SlotNext(s))
  /\ WF_vars(Alive /\ Disconnect)
  /\ ThroughputCheck => WF_vars(CheckTransfer)

FairSpec == Spec /\ Fairness
-----------------------------------------------------------------------------
(* Properties.                                                               *)

SlotType == [link : {"closed", "up", "down", "stuck"}, actGroup : Int,
             selGroup : Int, selArticle : Int, selNntpArticle : Int,
             artNotAvail : Int]

LocalsType == [thread : Slots \cup {NoSlot}, artNum : Nat,
               artRequested : BOOLEAN, syncCall : BOOLEAN]

\* Type invariant: every variable has the type the declarations of news.cc,
\* nntpcl.hh and areas.hh give it.
TypeOK ==
  /\ mainPc \in MainPcs /\ curGroup \in Nat
  /\ mainSlot \in Slots \cup {NoSlot}
  /\ disc \in Slots \cup {NoSlot, MaxNntpThreads}
  /\ nntpS \in [Slots -> NntpStates] /\ nntpSyncCall \in [Slots -> BOOLEAN]
  /\ nntp \in [Slots -> SlotType]
  /\ job \in [Slots -> Jobs] /\ attempts \in [Slots -> Int]
  /\ rpc \in [Group -> RoutinePcs]
  /\ loc \in [Group -> LocalsType]
  /\ activeRoutines \in Int /\ syncTransSema \in Group \cup {NoGroup}
  /\ xhdr \in [owner : Slots \cup {NoSlot}, expNum : Int, groupName : Int]
  /\ read \in [Group -> SUBSET Int] /\ saved \in [Group -> SUBSET Int]
  /\ bytes \in Nat /\ faults \in Nat
  /\ areasOpen \in BOOLEAN /\ stopOperation \in BOOLEAN
  /\ doAbortProgram \in BOOLEAN

\* Routine g works on its slot: before the group is selected, and for as long
\* as it calls mtGetArticle() synchronously.
Holds(g, s) ==
  /\ Thread(g) = s
  /\ \/ rpc[g] \in {"begun", "select"}
     \/ loc[g].syncCall /\ rpc[g] \in {"loop", "pick", "take", "inArticle"}

\* Who is using slot s: getNews(), a group routine, or a worker thread (a
\* synchronous mtGetArticle() is part of its routine).
Users(s) ==
  {u \in {<<"main", 0>>} : mainSlot = s}
    \cup {u \in {"routine"} \X Group : Holds(u[2], s)}
    \cup {u \in {<<"worker", 0>>} :
            /\ job[s] # "none"
            /\ ~\E g \in Group : Holds(g, s) /\ rpc[g] = "inArticle"}

\* A connection serves one thread at a time, and none while it counts as
\* waiting: nntpMtGetWaiting() hands a slot out under blockThread(), every other
\* assignment to nntpS[] is made without a lock by the thread that has the slot.
SlotExclusive ==
  \A s \in Slots :
    /\ nntpS[s] = "waiting" => Users(s) = {}
    /\ \A u, v \in Users(s) : u = v

\* No article is fetched by two connections at once: the routine of a group
\* requests each number once, though the number is marked read only after the
\* article has arrived.
NoDuplicateFetch ==
  \A s, t \in Slots :
    (job[s] \in ArticleJobs /\ job[t] \in ArticleJobs /\ s # t)
      => Art(s) # Art(t)

\* Strategy 0 fetches "one group after the other without intersection".
OneGroupAtATime ==
  Strategy = 0 => \A s, t \in Slots :
    (job[s] \in ArticleJobs /\ job[t] \in ArticleJobs)
      => nntp[s].selGroup = nntp[t].selGroup

\* An article marked read in the saved newsrc has been dealt with: stored in the
\* message files, killed, not on the server, or stored or killed under another
\* of its group names.
Accounted(g, n) ==
  \/ n < GroupLo[g] \/ n \in ReadBefore[g] \/ n \in GroupLo[g] .. GroupHi[g] \ Avail(g)
  \/ \E q \in XrefPairs(g, n) : q \in written \cup Kill

SavedIsDelivered == \A g \in Group : \A n \in saved[g] : Accounted(g, n)

\* The articles (each counted once, whatever its names) marked read in the saved
\* newsrc that the user will never see.
Lost == {XrefPairs(p[1], p[2]) : p \in {q \in Group \X UNION {saved[g] : g \in Group} :
                                         q[2] \in saved[q[1]] /\ ~Accounted(q[1], q[2])}}

\* ^C at any moment costs no more articles than there are connections: what is
\* marked before it is stored is at most the article under way on each.
AbortLossBounded == Cardinality(Lost) <= MaxNntpThreads

\* SavedIsDelivered for the newsrc in memory, once no article worker is at work; and
\* the session marks no number behind those the server has announced.
ReadIsDelivered ==
  /\ (\A s \in Slots : job[s] \notin ArticleJobs)
       => \A g \in Group : \A n \in read[g] : Accounted(g, n)
  /\ \A g \in Group : \A n \in read[g] \ ReadBefore[g] : n <= GroupHi[g]

\* A session that runs to its end with sound connections leaves nothing behind:
\* each article of each group is marked read in the saved newsrc.
CompleteAtEnd ==
  (mainPc = "end" /\ faults = 0 /\ ~Enough /\ ~ReadOnly)
    => \A g \in Group \ BadGroups : Avail(g) \subseteq saved[g]

\* With strategy 2 the two looks of nntpWaitFinished() may miss a worker that is
\* about to start, and the session ends too early.  What it leaves unread then is
\* no more than the article each connection was asked for last.
LeftAtEnd ==
  (mainPc = "end" /\ faults = 0 /\ ~Enough /\ ~ReadOnly)
    => \A g \in Group \ BadGroups : \A n \in Avail(g) \ saved[g] :
         \E s \in Slots : Art(s) = <<g, n>>

\* The connections are closed under no thread that still uses one:
\* nntpWaitFinished() is to "wait until every operation has stopped".
QuietAtDisconnect ==
  disc # NoSlot =>
    /\ \A s \in Slots : job[s] \in {"none", "connBegin", "connOpen"}
    /\ \A g \in Group : rpc[g] \in {"none", "done"}

\* With strategy 2 at most one routine requests articles asynchronously: the
\* owner of syncTransSema.
OneTransition ==
  Strategy = 2 => \A g \in Group :
    (rpc[g] \in {"loop", "pick", "take"} /\ ~loc[g].syncCall) => syncTransSema = g

\* A connection that has failed while in use is never used again.
FailedStaysFailed ==
  [][\A s \in Slots : (nntpS[s] = "failed" /\ job[s] = "none")
                        => nntpS'[s] \in {"failed", "init"}]_vars

\* The session ends.
Termination == <>(mainPc \in Final)
=============================================================================
