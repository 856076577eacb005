# A formal model of VSoup

VSoup transfers mail and news between Internet servers and an offline reader: it
receives news over several NNTP connections at once and mail over POP3, stores
both as a SOUP packet, and sends the replies in such a packet. It is a threaded
C++ program for OS/2 with little locking; its state (the read articles in
`newsrc`, the mails still on the server, the message files) survives lost
connections, full disks and ^C only if the steps of many threads come in the right
order. This directory holds TLA+ models of that state and its steps, TLC
configurations that check them on small instances, and theorems that TLAPS proves
for every size. Beside the reception they cover the way back: QSoup queues replies
in a packet that YarnIo unpacks, `vsoup -s` sends and YarnIo packs again.

    tlc -workers 2 -config MCNewsFetch_Faults.cfg MCNewsFetch     # one run
    tlapm NewsFetchProofs.tla                                     # the theorems of one module

`PROJECT.json` lists the runs, says which lines of the source each definition
stands for, gives for each property a mutation of the model that breaks it, and
lists the hazards of the code, each at its line.

## 1. The system

| Component | Source | State it keeps | Operations |
|---|---|---|---|
| News reception | `news.cc` | `nntp[]` with `nntpS[]` (a slot per connection), `activeRoutines`, `syncTransSema`, `xhdrSema` and its statics | `getNews`, `mtGetGroup`, `mtGetArticle`, `mtGetXhdr`, `mtGetNewGroups`, `_nntpMtConnect`, `nntpMtDisconnect`, `sumNews`, `catchupNews` |
| NNTP client | `nntpcl.cc` | socket, current group, selected article, count of misses | `nntpOpen`, `setActGroup`, `getArticle`, `nextArticle`, `getXhdr`, `getNewGroups`, `postArticle` |
| Newsrc | `newsrc.cc` | list of groups with a list of ranges each, the cached entry, `fileChanged`; `NEWSRC`, `NEWSRC.old` | `readFile`, `writeFile`, `artMarkRead`, `artIsRead`, `grpFixReadList`, `grpCatchup`, `grpFirstUnread`, `grpAdd`, ... |
| Mail reception | `pop3.cc` | locals of `getMail`; on the server the mailbox and the DELE marks | `getMail`, `pop3Connect`, `pop3WriteMail`, `pop3Cleanup` |
| Message files | `areas.cc` | open areas, `AREAS`, message file, `msgStarted`, `msgLenPos` | `msgStart`, `msgWrite`, `msgStop`, `closeAll`, status mail |
| Program | `main.cc` | `mode`, options, `doAbortProgram` | option parsing, `signalHandler`, `checkTransfer`, the calls of all others |
| Replies | `reply.cc`, `smtp.cc` | position in the packet, SMTP session, pipes | `sendReply`, `smtpMail`, `postArticle` |
| Score file | `kill.cc`, `rgx*` | sections of rules, the list of those for the current group | `readFile`, `doKillQ`, `matchLine` |
| Sockets | `socket.cc` | handles, byte counters, abort flag | `open`, `nextLine`, `printf`, `close`, `abortAll` |
| Temporary files, C library | `mts.cc` | `TFileTmp`: the start in memory, the rest on disk, a buffer for characters | `read`, `write`, `getcc`, `seek`, `truncate`, locked library calls |
| QSoup | `qsoup.cc` | the lock on `history.pag`; the packet `reply.zip` and what is unpacked of it | wait, unpack, append, pack |
| YarnIo | `yarnio.cmd` | flag files, the packet directory | `SEND`, receptions, import |
| ConvSoup, OwnSoup | `convsoup`, `ownsoup` | | filtering packets |

**Interaction.** `main` reads the newsrc and calls `getNews`, `getMail` or
`sendReply`. `getNews` starts a connect thread per slot, then walks over the
subscribed groups: a group routine fixes the group's read list, asks for overview
lines with XHDR, and requests unread articles from article threads on the other
slots. These call the newsrc (`artMarkRead`), the score file (`matchLine` for each
header line), temporary files for what they receive, and the message files (`msgStart` .. `msgStop`). At the end `main` writes the newsrc and
closes the message files. The signal handler does the same (`socket abortAll`,
`areas.closeAll`, `newsrc.writeFile`, exit) on the main thread while all the others
go on, and `checkTransfer`, a thread of its own, raises that signal when nothing has
been transferred for about a minute. Programs meet in files: the reader imports
message files while nothing is received, and the packet of replies passes from QSoup (one
process per message) to SEND and back.

**What is hard.** Slots change hands by plain assignments to `nntpS[]`; only
`nntpMtGetWaiting` takes a lock. Articles are marked read when they arrive, crossposts
already when their header arrives, and a NEXT loop marks numbers nobody has fetched;
all of this races with ^C. A connection may die in any call or hang. A byte limit may
end the session at any point. POP3 removes mail at QUIT only, option `-D` changes that
and renumbers the mailbox. A handler may come between any two statements of the main
thread, `writeFile` and `msgStart` included, since an OS/2 mutex lets the thread that
holds it in again.

**What makes each component correct.**
- News: each connection has one user; each article is asked for once; what the saved
  newsrc calls read was stored, killed or does not exist; a session without faults
  leaves nothing unread; the session ends; ^C loses a bounded number of articles.
- Range lists: they always stand for exactly the set of numbers marked, in normal form.
- Newsrc: all threads together work as if each mark were one step on sets; the file
  on disk has the marks of memory; one complete file survives every crash.
- Mail: no mail is ever lost; `-D` limits the duplicates to one per fault; success is
  reported only if all mails have been received and removed.
- Message files: complete messages stay; incomplete ones are removed.
- Several areas: messages of several threads are never mixed, and each stored article
  is in one file that `AREAS` lists for its group.
- Score file: only the rules for the group of an article decide about it, although all
  threads share one list.
- Replies: once its sender was told that a message is queued, it stays in the packet until
  a server has it, and it is sent in the end; a mail goes to all of its recipients and to
  no others.
- Temporary files: memory, disk and buffer together are one file.

## 2. Modules

| Module | Models | Relation |
|---|---|---|
| `NewsFetch` | `getNews` with all its threads, the article transfer of `nntpcl.cc`, `checkTransfer`, ^C | newsrc as sets of numbers, message files as a set of stored articles |
| `MCNewsFetch` | constants of its runs | |
| `NewsFetchProofs` | theorems about `NewsFetch`: types, slots, requests, strategies, disconnect; what marks mean, complete sessions, losses at ^C | EXTENDS it and TLAPS |
| `ReadList` | the algorithms on one list of ranges: parse, write, look up, mark, fix, catch up | operators only |
| `ReadListProofs` | theorems about these algorithms, for lists of any length | EXTENDS `ReadList` and TLAPS |
| `ReadListSession`, `MCReadListSession` | one list beside a reference set of numbers | EXTENDS `ReadList` |
| `ReadListSessionProofs` | theorems: the list stays the set | EXTENDS `ReadListSession`, `ReadListProofs` |
| `ReadSets` | what the newsrc promises: atomic marks and fixes on sets | abstract specification |
| `Newsrc`, `MCNewsrc` | the shared object, its critical sections, `writeFile`, handler | EXTENDS `ReadList`, implements `ReadSets` |
| `NewsrcProofs` | theorems about `Newsrc`: types, names, its refinement, the files | EXTENDS `Newsrc`, `ReadListProofs` |
| `Areas` | framing of messages in one file | operators and variables |
| `Pop3Fetch`, `MCPop3Fetch` | `getMail` over several runs of the program | EXTENDS `Areas` |
| `Pop3FetchProofs` | theorems about `Pop3Fetch`: types, no mail lost, whole files, what success means, how many copies | EXTENDS it and TLAPS |
| `ReplySend` | `vsoup -s`: `sendReply` with the SMTP dialog and `postArticle` | actions, used by `Outbox` |
| `Outbox`, `MCOutbox` | several QSoups and the SEND part of YarnIo around it | EXTENDS `ReplySend`, implements `ReplyQueue` |
| `ReplyQueue` | what a packet of replies promises: messages are sent at least once | abstract specification |
| `OutboxProofs` | theorems about `Outbox`: types, envelopes, no reply lost, that it implements `ReplyQueue`, kinds, how many copies | EXTENDS it and TLAPS |
| `TmpFile`, `MCTmpFile` | `TFileTmp` over `TFile` | implements `PlainFile` |
| `PlainFile` | one sequence of bytes and a position | abstract specification |
| `TmpFileProofs` | theorems about `TmpFile`, its refinement among them | EXTENDS it and TLAPS |
| `KillScore` | the list of sections all threads share | operators and actions, used by `ArticleFlow` |
| `Spool` | `TAreas` with several areas, files and threads | actions, used by `ArticleFlow` |
| `ArticleFlow`, `MCArticleFlow` | the way of articles through score file and message files | EXTENDS `KillScore` and `Spool` |
| `ArticleFlowProofs` | theorems about `ArticleFlow`: its types, message files and scores | EXTENDS it and TLAPS |

The detail of the newsrc is in one module and its effect in another: `Newsrc` shows
with `INSTANCE ReadSets WITH read <- ...` that the concurrent newsrc behaves as sets,
changed atomically, and `NewsFetch` uses just that.

### NewsFetch

A slot is in one of the states of `nntpS[]`; `job[s]` is the control point of the
worker thread on it, `nntp[s]` the fields of its `TNntp` object, with `link` for the
socket: up, closed, down (the next call fails) or stuck (calls hang until
`checkTransfer` or `abortAll`). `rpc[g]` and `loc[g]` are the control point and the
locals of `mtGetGroup` for group `g`, called by the main thread (strategies 0 and 1) or
as a thread (strategy 2). `mainPc` walks through `getNews`, the end of `main` and the
handler. One action is one stretch of code between two points where another thread
can make a difference:

- *Slots.* `nntpMtGetWaiting` is one action (it is under `blockThread`); each unlocked
  assignment to `nntpS[]` is an action, or part of the one it belongs to.
- *Main thread.* `WaitConnect` takes one look at all slots and may time out at any
  look, as the code counts seconds. The two looks of `nntpWaitFinished`, at the slots and
  at the routines, are two actions (`Scan`, `ChkActive`).
- *Articles.* The steps of `getArticle`: group, HEAD, header lines with the
  score file and the Xref marks, BODY, the write, the mark. Each may find the
  connection dead. The score of a header that is cut off counts as it is then, and may kill an
  article that a later line would have rescued: `Kill` has the articles whose whole header
  scores too little, `KillCut` those with a beginning that does. Missing articles are counted, and after `NotAvailMax` in a row the
  routine goes on with NEXT, which marks the holes.
- *XHDR.* One range at a time with the static variables of its callback, under
  `xhdrSema`.
- *End.* `areas.closeAll` and `writeFile` are separate steps of the handler, so that
  article threads run in between; writes after `closeAll` fail. Lines a socket has
  buffered are processed after the signal, too (`socket.cc:381-404` looks for the abort only when
  the buffer is empty). In `NewsFetch` they come before the signal: the step of a worker that takes them
  touches nothing the handler's start does, so what is saved is the same. In `ArticleFlow` they may
  come after it.

The server has a fixed set of articles. It refuses missing articles with a 4xx reply and
bad groups; other server errors and articles that expire during a session are left out.
`AnyRunning` scans the slots in use (the code may go on reading behind them,
`news.cc:970-975`). `checkTransfer` is idealised to its purpose: it ends the
program when no connection can transfer anything. Its timer, and a second signal
during the handler, are not modelled.

### ReadList, ReadSets and Newsrc

`ReadList` has the ranges as the code builds them; a line is a sequence of tokens
(number, range, junk). The code expects ascending lines (`vsoup.txt:1410`), and so do
the instances; ranges in them may overlap or run backwards. The one token left out is
`0-0`, which `newsrc.cc:128` turns into the empty range 1-0; the code itself never writes it. The
assumptions `LinesOK` and `NewsrcOK` say so. Reading a line is a recursive function over its tokens.
In `Newsrc` each critical section of `TNewsrc::sema` is an action, so
`artMarkRead` is three: look up (and set the cache), test, mark. The main thread's
sections are cut where the handler may interrupt them. Group names are
model values. `writeFile` is its five steps; the handler may be on top of it
(`InterruptWrite`).

### Areas and Pop3Fetch

A message file is a sequence of messages, each with the number of chunks written and
the length in its frame; a file position is the number of messages before it. What the
user gets is the set of copies, each with its run and its place in the file, so that a mail received twice
counts twice.
`Pop3Fetch` has an action for each command of `getMail` with its outcomes: answered,
refused (then `pop3Cleanup` sends QUIT), connection lost (then it does not). The server
is external: it numbers the mails at login and removes those marked by DELE at QUIT.
The options `-r` and `-D` are variables chosen in `Init`, so one run has all four
combinations. Between two runs of the program the reader imports the message file
(YarnIo) and mail may arrive at any time. The message files are closed to other
programs while open (`mts.cc:153`), so nobody else writes them.

`Areas` is one file in detail (chunks that may fail to be written), `Spool` all files with
whole messages.

### ReplySend and Outbox

A packet is the lines of `REPLIES`, each with a name and a kind, and the files of these
names, sequences of messages. It exists twice, as `zip` (`reply.zip`) and as `dir`
(unpacked). `ReplySend` has an action for each command of `smtpMail` and `postArticle`
with its outcomes: answered, refused or not answered (both end in `Fail`), or carried out with the
answer lost. The servers count what they have accepted (`copies`) and for whom
(`envelope`). A file is removed when its last message has been accepted, and `REPLIES` at the
end if nothing failed.

`Outbox` runs SEND again and again, and each QSoup once: it polls until it has the
lock and `REPLIES` is not unpacked, takes the line that fits best or appends one with a new
name, appends the message, and packs with `zip -m`, which writes the archive first and
deletes the files afterwards. `Overlay` is what both `unzip -o` and `zip` do with a second
packet. Any program may stop between two steps (`QCrash`, `SCrash`, `Abort`); `MaxFaults`
bounds these together with refusals and lost connections.

SEND knows nothing of the lock. With `Overlap = FALSE` the model assumes that both are not
active at the same time; `outbox_race` shows that nothing in the code sees to it.

### TmpFile

A file is its part in memory, its part on disk with the physical pointer, the position and
the buffer of `getcc`. The bytes behind the end of memory (heap) are any bytes, and what is behind the end
on disk is `NoByte`, which `TypeOK` allows nowhere. One action is one call of
`TFile`; `fgets`, `fputs` and `printf` are sequences of them. Both `TmpFile` and `PlainFile` note
each call with its arguments in `call`, and in turn, so that a call repeated is told from none:
`INSTANCE PlainFile` then says that the same call with the same arguments on one sequence
returns the same and leaves the same. `Mixed` allows what no caller does: to read a block
after single characters without a seek in between, where the pointer on disk is ahead.

### KillScore, Spool and ArticleFlow

The score file is a constant sequence of sections, each with the groups its pattern matches
and the points of each header line. `actList` is the list `buildActGroupList` writes over:
its old nodes stay, behind one without rules which ends the list. In `Spool` a file is a
sequence of messages with their article and whether text and length are there; `fifo` is the list of
the last areas with `fifoNext` and `fifoMsgF`, and `msgF` the file that is open, 0 after
`closeAll`. `ArticleFlow` puts both under the article threads: one action for each header line
(scored under the semaphore of `TKillFile`) and for each call of `TAreas`; `doKillQ` is two
actions, as it looks at the list after releasing the semaphore. A thread that sends or waits for the server ends
with the signal (`CHECKABORTANDKILL`, `socket.cc:43`); one that writes, or has lines buffered, may go on. Which
article comes next, and over which connection, is `NewsFetch`; here any may be next.

## 3. Runs

| Run | Instance | Shows | Distinct states |
|---|---|---|---|
| `news_strategy0` | 2 connections; a group of 6 numbers with holes at 2, 3, 5, and a group of 1; NEXT after 2 misses; XHDR; a crosspost; one killed; `-a`; 4 and a cancelled 7 read before, the other group reset | with sound connections everything is fetched, nothing is marked that does not exist or was not delivered, one group at a time, and the disconnect finds all at rest | 20 thousand |
| `news_faults` | 2 connections, 2 groups of 2, one article killed, two connections lost or stuck, XHDR always, `-a` | exclusive slots, no mark without an article, dead connections stay dead, wherever the faults come | 653 thousand |
| `news_abort` | groups of 3 and 2, one of them refused; a crosspost; an article a cut header may kill; byte limit of 2; one fault; throughput check; ^C anywhere | ^C costs at most the crossposts of the articles under way; every session ends | 162 thousand |
| `news_strategy2` | 3 connections, groups of 3 and 2, routines as threads | when routines run side by side no article is fetched twice, only the owner of `syncTransSema` requests asynchronously, and a session that ends too early leaves no more unread than the last article of each connection | 1.6 million |
| `read_list` | numbers 0 .. 7, lines of up to 3 tokens, then any sequence of marks, fixes and catchups | every list stands for exactly the right set; lookups, first unread and the text form agree with it | 383 |
| `newsrc_session` | 2 workers, 3 groups, marks 2 and 5, reception and catchup, ^C | no interleaving disturbs a list, the file has what memory has, one newsrc survives | 1.2 million |
| `mail_session` | 3 mails and an empty one that comes late, 2 chunks, 2 faults, 1 abort, 1 write error, 2 runs of the program | no mail lost; duplicates bounded with `-D`; success means complete; whole frames; the end | 47 thousand |
| `outbox_session` | a mail and an article queued by two QSoups, four packets of the newsreader (none; two mails and an article; a file of an unknown kind; a malformed line), 2 faults, `-r` or not | nothing that was promised is lost; a mail comes twice only after a fault; the right recipients; the packet is an at-least-once queue; everything is sent in the end | 726 thousand |
| `tmp_file` | 2 bytes in memory, a buffer of 3, files of up to 4 bytes | the three parts are one file, call by call | 103 thousand |
| `article_flow` | 2 threads; 4 articles of 3 groups, one without rules; 2 sections that overlap; a list of 2 areas; file 2 write-protected; a broken connection; ^C | kills are due; stored articles are whole and filed once; messages are not mixed | 1.6 million |

The instances are the least ones in which the interesting cases meet: two connections let
one fail while the other works, and a third lets one routine fetch synchronously
beside one in transition; two groups exercise the change of group, the crosspost and the choice
of the next slot; a group of six with holes before, between and behind makes the NEXT loop start,
go on and end. The thresholds 10 (misses), 20 (XHDR) and 100/4 (reset of a
group) are constants, set low so that both of their sides are reached. Two
faults allow a fault during the handling of another one. In `newsrc_session` marks
below, inside and above the group's numbers (2 .. 4) meet lists of each kind, and the two
workers are symmetric, which is sound: the run checks safety only, and neither a
property nor the constants name a worker. `read_list`
has room for three ranges, so there is an inner one to join on both sides. In
`outbox_session` the packets and the two kinds of messages make QSoup find a fitting line, append
one, or step aside from the file of an unknown kind; two faults let SEND or QSoup stop a second
time while the traces of the first crash are there. In `tmp_file` each border (of
memory, buffer and file) is met at its begin, in its middle and at its end. In
`article_flow` three groups compete for a list of two areas, so that an area is replaced, comes
back, and gets a second file; the threads are symmetric. Bounds of
the environment (`MaxFaults`, `MaxRuns`, ...) appear in guards of the environment's actions only.
All runs but `read_list` end in states where the program has finished, so
they do not look for deadlocks; `Termination` does it.

Two runs show the code doing what the manual says it does not (section 6 has more, with
the constants that show them):

- `news_abort_xref` (`SavedIsDelivered`): crossposts are marked when the Xref line
  arrives; after ^C the saved newsrc calls an article read that was never stored,
  while `vsoup.txt:2529` calls ^C safe. `AbortLossBounded` in `news_abort` says how much
  can go missing.
- `outbox_race` (`ExclusiveAccess`): QSoup looks for an unpacked `REPLIES`, then unpacks;
  SEND, which asks for no lock, may start in between. `vsoup.txt:1306-1310` says an active
  `vsoup -s` blocks QSoup. `NoReplyLost` and `ImplementsQueue` are violated by the
  same constants: SEND deletes the archive with the message of the other.

## 4. Fairness

`FairSpec` of `NewsFetch` asks for weak fairness of the main thread, the
handler, each group routine, each slot's worker and the disconnect thread: they are OS
threads that run when they can. The waits of the code are polls (`Wait(500)` and a new
look), hence no strong fairness. `CheckTransfer` is fair only if the
check is switched on; it is compiled into builds with `NDEBUG` only. Nothing makes the user
press ^C, a connection break or the server refuse. A worker on a stuck connection has no
step, so the session may well hang, and without the throughput check it does.
`FairSpec` of `Pop3Fetch` says that each command is answered or its connection
is lost, which the timeout of the throughput check provides.
`FairSpec` of `Outbox` asks that SEND and each QSoup take their next step when they can: they are
processes that run, QSoup polls its lock every few seconds, and for SEND it means that the
user (or the loop of YarnIo) starts it again. A hanging mail server is left by `Abort`, which the
throughput check provides. Nothing forces a fault. `TmpFile` and `ArticleFlow` state safety
only.

## 5. Proofs

`NewsFetchProofs` proves, for any number of connections, groups and articles, any
strategy and options, from `ConstantsOK` alone:

- `TypeCorrect`: `Spec => []TypeOK`,
- `SlotsExclusive`: `Spec => []SlotExclusive`, at any point of any session a
  connection has one user and a waiting one has none,
- `FailedStays`: with strategies 0 and 1, `Spec => FailedStaysFailed`. For strategy
  2 it is false (section 6), and the theorem assumes `Strategy # 2`.

`SlotExclusive` is not inductive: it speaks about users, and the steps that hand a
slot over rely on what the state `nntpS[s]` tells its user. The inductive invariant is

    IInv == TypeOK /\ GroupKnown /\ SlotInv

`GroupKnown` says that an article job has a group selected, and an XHDR job a current
group (otherwise their marks would go outside the domain of `read`). `SlotInv` says why no
slot has two users: `NothingYet` (at the start of `getNews` no slot is in use),
`MainHas` (on the slot `getNews` holds nothing runs and it is not waiting), `RoutineHas` (a
slot held by a group routine is held by no other one, nor by `getNews`, and the only worker on it
is the `mtGetArticle` the routine has called itself) and `WorkerHas` (a slot with a worker is not
waiting). The proof has a lemma for each kind of step (`SlotMain`, `SlotRoutine`,
`SlotWorker`, `SlotOthers`), and in each a step per action. `FailedStays` needs `NoSync` as well:
without strategy 2 no routine fetches articles synchronously, and a slot that `getNews` or
a routine holds has not failed since it was handed out, so nobody overwrites
the state `failed`.

From `IInv` it goes on to the requests, for the same constants:

- `OneAtTransition`: `Spec => []OneTransition`,
- `NothingTwice`: `Spec => []NoDuplicateFetch`,
- `OneByOne`: `Spec => []OneGroupAtATime`,
- `QuietWhenClosed`: `Spec => []QuietAtDisconnect`, assuming `Strategy # 2` (with strategy 2 it is
  false, section 6).

`NoDuplicateFetch` is the one that is hard to see in the code: the number goes into the read list only when the
article has arrived, and the routine looks for the next unread number meanwhile. `RequestInv`
gives the reason. `Requests`: for each article under way the routine of its group has passed its
number, or waits for that very worker, or is at the end of the group and has nothing left to
request; `Pending`: the position is inside the group, or one behind it, as long as its
article is still to be requested (at the byte limit it is set there on purpose); `Fresh`: the
routine of a group the main thread has not come to has not run, so each group has one.
A new request is at the position of its routine, and so different from all others.
`OneByOne` adds `PresentGroup`: every article under way is of the present group and its slot counts for
`nntpMtAnyRunning`, so that the main thread goes to the next group only when there is none.
`QuietWhenClosed` needs two parts: `Visible` (whoever works on a slot counts for
`nntpMtAnyRunning`, and a routine that has not selected its group has a slot that is starting) and
`Still` (only the routine of the present group is at work, and behind the last poll nothing is).
Strategy 2 breaks `Still`: routines go on behind the main thread.

The marks need more. Which number is marked when is spread over `getArticle`, the NEXT loop,
XHDR with its static variables, the Xref lines and `grpFixReadList`; four theorems say what it
comes to:

- `SavedDelivered`: `Spec => []SavedIsDelivered`, assuming `GoesWell`,
- `ReadDelivered`: `Spec => []ReadIsDelivered`, assuming `GoesWell` and `NumbersKnown`,
- `SessionComplete`: `Spec => []CompleteAtEnd`, assuming `Strategy # 2`,
- `LossBounded`: `Spec => []AbortLossBounded`, assuming `LossAssumed` and `OneName`.

Without assumptions the first two are false (section 6). `GoesWell` is `Undisturbed` (no
^C, no throughput check, the disk takes all, no byte limit) together with one of two: `NoFaults` (no
connection fails, not strategy 2; the NEXT loop, XHDR and Xref may do their guessing), which
is `news_strategy0`, or `NoGuesses` (no Xref marks, no numbers missing, and no header that scores less when it is
cut off than it does as a whole, `ScoresFinal`; connections fail as they
like, in any strategy), which is `news_faults`. `NumbersKnown` says that the
server's numbers fit together: a group's first number is at most one behind its last, and an Xref line has no number
above the last of its group. `DeliveryInv` is `RequestInv` and
`QuietInv` (the invariants above) with `Ranged` (a routine asks for numbers of its group
only), `Linked` (without faults whoever uses a connection has one) and, for
each connection, `Good`: an XHDR worker owns the static variables it uses (`Overview`); what the
worker calls missing does not exist (`Missing`); at the mark the article is stored or killed
(`Stored`); and NEXT, called at a missing number, does not jump over an article (`NextOk`).
The last is the hard one: where the server's pointer stands depends on the last command on *this*
connection, while the numbers between are handed out to several. `Beside` says what is needed: the pointer is not
behind the number asked for, or nothing lies between; `NextSafe` demands it of each number still to be
requested, unless it has been read meanwhile. `Marked` then is: each mark is accounted for, or its
article is `UnderWay`, marked by its Xref line before its body has come.

`CompleteAtEnd` is the other direction: with no fault, no ^C and the limit not reached, all of the
groups are in the newsrc that is saved. `CompleteInv` has `Covered` (no article behind the position of its
routine is left: it is read, or a worker pursues it), `RunOut` (a routine ends behind its last
number), `Walked` and `Given` (`getNews` passes no group over, and a routine has its connection when it selects),
`MarkedFirst`, `Inline` and `Reliable` (nothing fails by itself); `SavedAll` is what remains of it after
the save.

`AbortLossBounded` counts: after ^C the saved newsrc lacks no more articles than there are connections.
`LossInv` names them instead of counting: each saved mark is accounted for, or it
is a name of the last article of a connection that owes it (`Owed`: is fetching it, has failed with it and
waits, or `Frozen`: no connection will be given another one). `Sound` is the weaker
form of `Good` that survives faults and the closing of all files, `Pended` covers the
number behind the group requested at the byte limit, `Shut` orders the handler's two steps. The count
follows from an injection of articles into connections; `OneName` (two crossposts are the same or have no
name in common) makes one connection stand for one article. `LossAssumed` excludes
strategy 2, a full disk, missing numbers (with those NEXT on a broken connection marks the
rest of a group, section 6, and no bound holds) and, for the sake of the proof, headers that score less
when they are cut off; `news_abort` has one of those, and the bound holds there. TLC has checked `LossInv` on the instance of
`news_abort`, and on one with strategy 0.

`ReadListProofs` proves what the algorithms of `ReadList` do to lists in normal form of any length:

- `MarkReadOk`: `artMarkRead` leaves the normal form of the set with the number added; `ArtIsReadOk`: the scan,
  which ends at the first range above the number, decides membership; `FirstUnreadOk`: once the list has been fixed, the
  answer is the least number not read; `FixReadListOk`: `grpFixReadList` resets, and adds
  just the numbers below the first article,
- `GetReadListOk`: any line with ascending tokens, ranges overlapping or written backwards, junk behind, is read as the
  normal form of its numbers; `PutGetOk`: what `putReadList` writes is read back as the same list.

These are inductions over lists. They are made with the least counterexample: if a property fails for some
position, there is a least one (`WFMin` of `WellFoundedInduction`), and the step from its predecessor
contradicts it. Reading is a recursive function for this reason, of which the library gives the equation.

`ReadListSessionProofs` carries them through the life of one list, for all lines, numbers and
sequences of operations: `ListStaysSet`, `QueriesStaySet` and `RoundTripAlways` are the three
invariants of `read_list`. The invariant adds `FixedRead`: the numbers below the article the list was last fixed to are read,
without which `grpFirstUnread`, which looks at one range only, would be wrong.

`NewsrcProofs` does so for the shared object, any number of workers, groups and lines:

- `TypesAlways`: `Spec => []TypeOK`, which has all lists in normal form, in the handler's view of a fix that was
  interrupted, too,
- `NeverTwice`: `Spec => [](NameInv /\ NoGroupTwice)`,
- `RefinesSets`: `Spec => ImplementsSets`, the refinement of `ReadSets`,
- `OneAlwaysWhole`: `Spec => []OneWhole`,
- `ReadBack`: a file written from lists in normal form is read as the same groups,
- `MarksAlwaysSaved`: `Spec => []MarksSaved`.

`TypesAlways` needs no assumption: `CallOk` says that a worker in the middle of `artMarkRead` has an entry of its
own group, which holds since entries are only appended, and `MainOk` that the entry being fixed stays the one in the cache.
`NeverTwice`, `RefinesSets` and `MarksAlwaysSaved` assume that new groups and those of COMMANDS have
different names (`NewNames \cap Sendme = {}`), without which a group is entered twice (section 6); then the name
about to be entered is in no entry (`NameInv`), and it makes the map from groups to sets a function. The last two about files assume
`~InterruptWrite`, since ^C inside `writeFile` does lose it (section 6), and `OneAlwaysWhole` that all old
newsrcs name the same groups (a run of the program has one of them). `FileInv` says
at each step of `writeFile` how far the two files are, `LockInv` that from its test on `sema` is held, so that what
is being written does not change, and `FlagInv` why it may be skipped: while `fileChanged` is FALSE, and no catchup is between the
list and the flag, the file says of each group of memory what memory says (`Fits`).

`Pop3FetchProofs` proves, for any number of mails, pieces per mail, faults, aborts, write
errors and runs, and all options, from `Pop3Assumption` and `ChunksAssumption`:

- `TypeCorrect`: `Spec => []TypeOK`, which says among others that `getMail` asks
  only for mails the server has numbered, `-D` and its new logins included,
- `FinishedKept`: `Spec => FinishedStay`,
- `NoMailLost`: `Spec => []MailNotLost`,
- `FramesComplete`: `Spec => []FramesWhole`.

The last three assume `~AbortInStart`, that is no signal between the two steps of
`msgStart`. With one there, TLC finds a counterexample (section 6).

The types rest on `IInv == TypeOK /\ Numbers /\ Framing`: `Numbers` ties the
counters of the loop to the numbering of the session (without `-D` the mail number is the
count; with `-D` it is 1 as long as there is something left), and `Framing` says that
`msgStarted` is set in just the steps from `msgStart` to `msgStop` and that `msgLenPos` is then
the start of the last message. From it follows for each step but the import by the
reader that the complete part of the file grows (`Grows`), which is
`FinishedStay`. `MailNotLost` is not inductive, as it does not say why a mail that is
removed at QUIT is in the file. The invariant `MailInv` adds three parts: `Copied` (the
message being copied is the mail that will be marked, and it is whole when DELE is
sent), `Marked` (a mail with a DELE mark is whole in the complete part of the file) and
`NothingLost` (each mail is in the mailbox, imported, or in that part; a message still
being copied does not count, as an abort cuts it off). `FramesWhole` adds `Frames`: each complete message is
whole but for the last one after a write error, behind which no other is written.

From it follows, with the same assumption:

- `SuccessIsComplete`: `Spec => []CompleteOnSuccess`.

Without -D it is `InOrder`: the loop counts the mails of one session, and those before the
present one are in the file and marked. With -D each mail has a session of its own, in which
it is number 1, the loop still counts to the total of the first login, and new mail may have come
in between. `OneByOne` says that the turns left are as many as the mails of the first login
still in the mailbox (`Turns`), that those which have left it are in the file, and that late mail comes
behind them (`Gone`), so that number 1 is always one of the first login. The counting
rests on two lemmas about numberings: one that increases and has as many numbers as there are
mails reaches each of them (`NumberingOnto`), so its first is one of the first login as long
as there is any (`FirstRemains`). TLC has checked
`IInv`, `MailInv` and `CompleteInv` on the instance of `mail_session`.

- `OneCopyEach`: `Spec => []OneCopyPerFault`, with the same assumption: with `-D` the copies too many
  are at most as many as the faults and aborts.

The bound is not inductive either: a fault does no harm when it happens, but when the mail comes
again. `CopyInv` pays in advance: `Paid` counts, with the copies there are too many, those that will be (`Pending`:
mails received and still in the mailbox, other than the one a QUIT is going to remove), and
`FirstOnly` says that a session has at most one of these, as it marks one mail.

`OutboxProofs` proves, for any messages, packets, faults and number of QSoups, from
`ReplyAssumption` and `OutboxAssumption`:

- `TypeCorrect`: `Spec => []TypeOK`,
- `EnvelopesWhole`: `Spec => []EnvelopeWhole`; both hold also if SEND and QSoup overlap,
- `RepliesKept`: `Spec => []NoReplyLost`, assuming `~Overlap`.

The first two rest on `TypeInv`: to the types it adds that only SEND runs vsoup
(`VsoupRuns`), that line and message of `sendReply` stay where they are while others write, since
`REPLIES` and the open file are denied to them (`Place`), and what the mail server was told
at each step (`Told`). `NoReplyLost` does not say which of the two copies of the packet is the
good one. The invariant `ReplyInv` does: `Alone` (a QSoup that works has the lock, and SEND is
idle), `Kept` (a promised message is sent, or in the archive, or there is no archive and it is
in the directory), `SendHas` (while SEND may delete the archive the directory has everything),
`QSoupHas` (what QSoup has unpacked covers the archive it will replace, with its own message in a
listed file), `FileSent` and `LinesSent` (what is behind the position of `sendReply` is sent, so
the removal of a file, or of `REPLIES`, loses nothing).

It also implements the abstract queue:

- `OutboxIsQueue`: `Spec => ImplementsQueue`, assuming `~Overlap` and that the packets of the
  newsreader are in order (`InOrder`): a file listed with an unknown kind is there and has no mail
  and no article, one listed as mail or news has nothing else.

`NoReplyLost` says that nothing promised leaves the packet before it is sent, which makes each loss of a
file or an archive a step `Forget` of the queue. The refinement says more: messages come in one by one, and
only a message of the packet is sent or promised. `unzip -o` and
`zip` lay one copy of the packet over another, and could list several files again that are still
there from before. `Fits` excludes that: every message in a file of one copy that the other one
lists is listed already (`Within`). It survives each overlay, in either direction (`FitsOverlay`).
`vsoup` takes files and lines away, for which `SameLines` (it reads the lines of the archive) and `Unlisted` (without
lines the archive has no file the directory lists) are needed; that REPLIES may be removed
rests on `LinesSent`. `Repacked` (QSoup deletes what it has packed) makes the end of QSoup a step
`Promise`. TLC has checked `QueueInv` on the instance of `outbox_session`.

Two bounds follow from it:

- `FilesSorted`: `Spec => []KindsApart`, assuming that the packets are also `Typed` (the file of a line for mail
  or news is named so and has just such messages),
- `MailsSentOnce`: `Spec => []CopiesBounded`, assuming further that a mail's text ends with a newline, and
  `OneEach` (a packet has each mail once, and none that QSoup is going to queue).

`KindInv` demands `Typed` of each copy against the other, as either may be laid over the other. For the copies
`CopyInv` counts: copies accepted, and one more as long as the mail waits to be sent (`Counted`), are
at most one more than the faults. A mail waits in one place only (`Single`: once in a file, in one file,
whichever copy of the packet is looked at), and a mail not yet appended is nowhere (`Fresh`). `Waits` counts a mail
of the archive as well as of the directory, since what SEND has unpacked is all of the
archive (`Under`) until it deletes it. TLC agrees on the packets of `outbox_session`, which satisfy all of these
assumptions.

`TmpFileProofs` proves, for any sizes of memory, buffer and file, assuming `~Mixed`:

- `TypeCorrect`: `Spec => []TypeOK`,
- `TmpFileIsFile`: `Spec => ImplementsFile`, the refinement of `PlainFile`.

The invariant `FileInv` relates the three parts: what is not on disk is in memory (`Sizes`), the
pointer on disk is behind what the buffer holds (`Pointer`), the buffer holds the bytes that
follow the position (`Buffered`), and the end is noted only at the end (`Ended`). Each call
then maps to the same call of `PlainFile`. `Buffered` with `Pointer` is what a block read after
single characters breaks, hence `~Mixed`.

`ArticleFlowProofs` proves, for any number of threads, articles, groups and entries of the list
of areas, whatever the score file says, from `ArticleFlowAssumption` and `~AbortInStart`:

- `MessagesApart`: `Spec => []Apart`,
- `ArticlesFiled`: `Spec => []Filed`.

Neither is inductive. The invariant `FlowInv` says why: `Writing` (the thread between
`msgStart` and `msgStop` is the one that has the semaphore), `Listing` (an entry of the list of
areas names a file that `AREAS` lists for just that area, and the current entry names the open
file: the reason why an area may be replaced and come back), `Current` (the writer's message is
the last one of the open file, `msgLenPos` is its start, and it is the article's only copy),
`Fresh` (an article not yet written is in no file), `Partial` (`Apart`, with the place of the writer)
and `Done` (`Filed`, from `msgStop` on). `Closing` ties the handler to the packet and says
which articles `closeAll` cuts off; their files are listed but may lack the message. The
proof has a lemma for each way a file changes (`AppendFrame`, `ChangeFrame`, `CutFrame`, `CreateFound`)
and one for each action.

It also proves

- `FlowTypes`: `Spec => []TypeOK`, with the same assumption,
- `KillsDue`: `Spec => []KillsAreDue`, assuming `RulesGiven` (each section has a rule; section 6), with `AbortInStart`
  or without.

The list of sections is shared, and rebuilt by whichever thread comes next. `KillInv` says what it is at any time: the
sections for the group asked for last, in the order of the file, and behind them a node without rules (`ListOf`);
the nodes behind that are old ones and do not count. `ReadInv` says that no line is scored before
`doKillQ` has answered for its group, and `ScoreInv` that the score of a thread is the total the file gives for its group over the lines read so far,
although the list may have belonged to other groups in between. The score of the list and that of the file are
sums over different index sets, compared by induction on the last section.

Only model-checked: liveness (`Termination` of `NewsFetch` and `Pop3Fetch`, `EventuallySent` of `Outbox`), as the prover
knows neither fairness nor ENABLED, and `LeftAtEnd`, which is about strategy 2 (with the others it follows
from `SessionComplete`). Every other invariant and every action property of the passing runs is also
proved, under the assumptions named here; the constants of the run satisfy them, as TLC has
confirmed. The assumptions exclude cases in which a property is false; section 6 has
them, with the constants that show it. For `AbortLossBounded` and strategy 2 it is
not known: TLC finds it true with the constants of `news_abort` and `Strategy = 2`.

## 6. Further disagreements, not kept as runs

Each of these can be reproduced with the modules by changing a constant.

In `NewsFetch`:

- *A broken connection in the NEXT loop* (`nntpcl.cc:510`, `news.cc:509-529`):
  `nextArticle` reports a lost connection as "no next article", and the rest of the group
  is marked read. `news_strategy0` with `NotAvailMax = 2`, `MaxFaults = 1` and `FaultKinds = {"down"}` violates
  `SavedIsDelivered`.
- *A connection that fails behind the Xref line* (`nntpcl.cc:616`): the other names of the article are
  marked, it is not stored, and under its own name it comes again. `news_faults` with `DoXref = TRUE` and
  `CrossPost <- Crossposted` violates `SavedIsDelivered`; `AbortLossBounded` bounds the number.
- *A header that is cut off* (`nntpcl.cc:625`, `news.cc:456`): its score counts, so an article that a later
  line would have rescued is killed and marked read. `news_faults` with `Kill <- None` and
  `KillCut <- KillOne` violates `SavedIsDelivered`.
- *A write that fails* (`news.cc:448`): the result of `writeArticle` is ignored.
  `DiskFull = TRUE` violates `ReadIsDelivered`; the same happens to articles written
  after the handler's `closeAll`.
- *Marks behind the group* (`news.cc:1273`): at the byte limit `artNum` is set to
  `grpHi + 1` while an article is pending, and that number may be marked: `news_faults` with
  `MaxBytes = 1` violates `ReadIsDelivered` and `SavedIsDelivered`.
- *A failed connection used again* (`news.cc:1251-1255`): with strategy 2 a routine that fetches
  articles itself sets its slot back, failed or not. `news_strategy2` with `MaxNntpThreads = 2`,
  `FaultKinds = {"down"}`, `MaxFaults = 1` violates `FailedStaysFailed`.
- *The byte limit and a hanging session* (`news.cc:1565`): at the limit the loop over the groups is left
  with a slot still handed out, and `nntpMtDisconnect`, which is to "wait until every operation has
  stopped" (`news.cc:988`), waits for it for ever. `news_abort` with `MaxBytes = 3` and without crossposts, refused
  groups, faults, throughput check and ^C violates `Termination`.
- *Disconnect under a routine* (`news.cc:991-1005`): with strategy 2 the final wait looks at
  slots and routines one after the other ("not clean") and may miss one:
  `QuietAtDisconnect` is violated with `Strategy = 2`. An article requested just before the routine ended is then
  neither fetched nor marked: with the constants of `news_strategy0` and `Strategy = 2`
  `CompleteAtEnd` is violated without any fault. The next session fetches it. `LeftAtEnd` says that each
  connection leaves at most the article it was asked for last.
- *Giving up too early* (`news.cc:802`): between two attempts a slot is `failed`, so a
  look at the wrong time sees all slots failed although attempts are left.
- *Killed articles and Xref* (`nntpcl.cc:616`): the crossposts of an article are marked
  whether or not it is killed, under the score of one group only; `Accounted` grants this.
- *Temporary refusals* (`nntpcl.cc:571`): every 4xx answer to HEAD means "not available", "400
  service discontinued" too; the article is marked read. The server of the model gives 4xx only
  for articles it does not have.

In `Newsrc`:

- *^C inside `writeFile`* (`newsrc.cc:283-298`, `main.cc:565`): the handler starts
  `writeFile` over again while the first one holds the file. `InterruptWrite = TRUE`
  violates `MarksSaved`. A catchup interrupted by ^C is not saved; `MarksSaved` leaves it out.
- *A group twice* (`newsrc.cc:724-725`, `news.cc:603-606`, `news.cc:1350-1351`): `grpAdd` does not look
  whether the group is there, its callers look before, in different threads. With `Sendme` and `NewNames`
  naming the same group the newsrc gets it twice (`NoGroupTwice`); `NeverTwice` proves that
  there is no other way within a session.

In `Pop3Fetch`:

- *`-r` with `-D`* (`pop3.cc:542-555`): without DELE the mailbox is not renumbered as the
  loop expects, and the first mail is received as often as there are mails. The
  properties leave this combination out.
- *A mail without content* (`pop3.cc:440`): "Skip empty messages", but `getMail` returns
  at it without QUIT, so it and all mails behind it block until it is removed by
  other means. No mail is lost.
- *QUIT is not looked at* (`pop3.cc:558`): `getMail` returns 1 although the mails may
  still be there; `CompleteOnSuccess` grants this.
- *A signal inside `msgStart`* (`areas.cc:124`, `areas.cc:80`): `msgStarted` is set before
  `msgLenPos` belongs to the message, so `closeAll` cuts off complete messages.
  `AbortInStart = TRUE` violates `FinishedStay` in `mail_session`, and `Filed` in `article_flow`.

In `ArticleFlow` and `Spool`:

- *A header that was cut off is scored* (`nntpcl.cc:625`): an article is killed for the lines
  that came before the connection broke, while `vsoup.txt:1476-1480` has the points of all lines added.
  `KillsOverHeader` is violated in `article_flow`.
- *A thread goes on after `closeAll`* (`areas.cc:80`): it writes on, into a listed file it opens again,
  and the program ends in the middle. `PacketWhole` is violated in `article_flow`.
- *`doKillQ` looks at another group's list* (`kill.cc:481`): after the semaphore is released, so a
  group may be scored that has no rules, or not scored although it has some. With a threshold up to 0 this only
  keeps articles that should be killed. With a higher one a group without rules, none of whose articles
  would be scored, loses all of them: each scores 0. `KillsAreDue` holds in both cases, as it asks for the
  total by the rules of the group, and the total of no rules is 0.
- *A section without rules* (`kill.cc`) ends the list of sections, those behind it do not count. The
  sections of the instance have rules, and `KillsDue` assumes it (`RulesGiven`).

In `ReplySend` and `Outbox`:

- *A mail the server refuses* blocks all mails of the packet behind it, in each run again, and a
  line of `REPLIES` that is malformed all lines behind it. `EventuallySent` leaves the latter out;
  refusals are faults and come to an end.
- *Files of a kind that is not supported* stay, while `REPLIES`, which lists them, is removed.
- *A last line without newline* (`smtp.cc:240-262`): the count of bytes left wraps, the beginning of
  the next message is sent with this one, or, at the end of the file, the final dot is not alone in its line and the server
  waits (`hang`).
- *`-r`* sends the same packet again in each run, as the manual says; `CopiesBounded` leaves it out.

In `TmpFile`:

- *A block read behind single characters* without a seek: `Mixed = TRUE` violates
  `ImplementsFile`. No caller does it.
- `iwrite` does not look whether the disk took the bytes; a full disk for temporary files is not modelled.

## 7. Not modelled

- `sumNews` and `catchupNews` of `news.cc` (walks over all groups with one connection each; the
  effect of a catchup on the newsrc is in `Newsrc`), the file COMMANDS (its operations on the newsrc
  are), `getNewGroups` with the newstime file, `getOverview`, authentication, reply codes
  other than success, "not there" and a dead connection.
- The status mail (`TAreasMail`), written by the routines `Areas` models.
- The pipes to an external mailer or poster (`sendPipe`), which return a status like the servers.
- `socket.cc` below what a call returns: whether `abortAll` may close a handle that another thread has
  closed and a third has got again depends on how the TCP/IP stack numbers handles.
- The wrappers of `mts.cc` around library calls (one semaphore each), `scanf` on a temporary file,
  full disks for temporary files.
- The parser of the score file and regular expressions (`rgx*`, a library): a section is what they
  yield for the lines of the instance.
- YarnIo's parallel receptions and their flag files, login and logout: only SEND meets the
  packet of replies; the import is a step of `Pop3Fetch`.
- ConvSoup and OwnSoup, which filter files without keeping state; option parsing, formatting,
  help texts.

## 8. Plan

Most important first. Done, with the proofs of section 5:

1. `NewsFetch` with its runs; theorems on types, slots, failed connections, requests, the
   disconnect, the meaning of marks, complete sessions and the loss at ^C.
2. `ReadList`, `ReadSets`, `Newsrc`: the lists, their refinement, the files, checked and proved.
3. `Areas`, `Pop3Fetch`: mail without loss, what success means, and the number of copies.
4. `ReplySend`, `Outbox`, `ReplyQueue`: the way back, with QSoup and SEND around one packet;
   theorems on types, envelopes, replies kept, the refinement, kinds and copies.
5. `TmpFile`, `PlainFile`: the refinement, checked and proved.
6. `KillScore`, `Spool`, `ArticleFlow`: score file and message files under several
   threads; theorems on types, messages, articles and scores.

Left, in this order:

7. Proofs: weaker assumptions. `AbortLossBounded` for strategy 2; the marks with a byte limit and
   without faults, other than the one behind the group.
8. `getNewGroups` with the newstime file and the groups it adds, `catchupNews` and `sumNews`, COMMANDS.
9. The handles of `socket.cc` under `abortAll`; YarnIo's receptions with their flag files.
