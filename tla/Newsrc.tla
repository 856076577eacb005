------------------------------- MODULE Newsrc -------------------------------
(***************************************************************************)
(* The newsrc of a session: the object TNewsrc shared by all threads, and  *)
(* the files NEWSRC and NEWSRC.old it is written to.                       *)
(*   - Workers (article and XHDR threads, the group threads of strategy 2, *)
(*     the catchup threads) mark articles and fix lists.                   *)
(*   - The thread of mtGetNewGroups() adds the groups that are new.        *)
(*   - The main thread fixes lists, adds the groups COMMANDS names, writes *)
(*     the file at the end; the handler of SIGINT, which interrupts it,    *)
(*     writes the file and exits.                                          *)
(* Each critical section of TNewsrc::sema is one step, but for those of    *)
(* the main thread, which the handler may cut in two.                      *)
(***************************************************************************)
EXTENDS ReadList

CONSTANTS
  Worker, Name,
  OldNewsrc,      \* the newsrc files the session may begin with
  GroupLo,        \* first and last article number the server reports
  GroupHi,
  Marks,          \* article numbers that may be marked (Xref: above GroupHi too)
  NewNames,       \* groups the server reports as new, option -a
  Sendme,         \* groups named in the file COMMANDS
  Modes,          \* what the session is for: "RECEIVE", "CATCHUP"
  CatchupKeep,    \* numbers of articles a catchup may leave unread
  UserAbort,      \* the user may hit ^C
  InterruptWrite, \* ... even while the newsrc is being written
  NoName          \* a name that is none, model value

File(lines) == [exists |-> TRUE, lines |-> lines]
Missing     == [exists |-> FALSE, lines |-> <<>>]

\* A line of a newsrc; File stands for one that exists.
LineType == [name : Name, subscribed : BOOLEAN,
             ranges : {r \in Seq(LineToken) : Ascending(Readable(r))}]

ASSUME NewsrcOK ==
  /\ OldNewsrc \subseteq Seq(LineType)
  /\ NewNames \subseteq Name /\ Sendme \subseteq Name /\ NoName \notin Name
  /\ GroupLo \in [Name -> Int] /\ GroupHi \in [Name -> Int]
  /\ Marks \subseteq Nat \ {0} /\ CatchupKeep \subseteq Nat

VARIABLES
  mode,        \* mode of main.cc
  groups,      \* the entries, in the order of the file
  cache,       \* index of the entry getGroupP() found last, 0: none
  fileChanged,
  locked,      \* the main thread is inside a critical section of sema
  worker,      \* per worker: its control point and arguments
  adder,       \* mtGetNewGroups(): the name found missing, or NoName
  mainPc,      \* control point of the main thread
  mainName,    \* the group it works on
  handler,     \* the handler of SIGINT has been entered
  write,       \* control point of writeFile()
  held,        \* the interrupted writeFile() has NEWSRC open
  cur, old     \* contents of NEWSRC and NEWSRC.old, or Missing

fileVars == <<write, held, cur, old>>
mainVars == <<mode, mainPc, mainName, handler>>
vars == <<groups, cache, fileChanged, locked, worker, adder, mainVars, fileVars>>

Idle == [pc |-> "idle", name |-> NoName, entry |-> 0, num |-> 0]
Finished == write = "done"

\* readFile(): of two lines for one group the second is removed.
ReadLine(gs, l) ==
  IF \E i \in DOMAIN gs : gs[i].name = l.name THEN gs
  ELSE Append(gs, [name |-> l.name, subscribed |-> l.subscribed,
                   readList |-> GetReadList(l.ranges)])

ReadFile(lines) ==
  LET entries[i \in 0 .. Len(lines)] ==
        IF i = 0 THEN <<>> ELSE ReadLine(entries[i - 1], lines[i])
  IN entries[Len(lines)]

Line(e) == [name |-> e.name, subscribed |-> e.subscribed,
            ranges |-> PutReadList(e.readList)]

Entries(name) == {i \in DOMAIN groups : groups[i].name = name}

\* mutant of GetGroupP: the cache is trusted whatever the name
GetGroupPCached(name) ==
  IF cache # 0 THEN cache ELSE IF Entries(name) = {} THEN 0 ELSE Max(Entries(name))

\* getGroupP(): the cached entry if it fits; entries are hashed newest first.
GetGroupP(name) ==
  IF cache # 0 /\ cache \in Entries(name) THEN cache
  ELSE IF Entries(name) = {} THEN 0 ELSE Max(Entries(name))
LookUp(name) == ~locked /\ cache' = GetGroupP(name)

SetList(i, R) == groups' = [groups EXCEPT ![i].readList = R]

\* grpAdd()
GrpAdd(name, subscribe) ==
  /\ ~locked
  /\ groups' = Append(groups, [name |-> name, subscribed |-> subscribe,
                               readList |-> <<>>])
  /\ fileChanged' = TRUE

Init ==
  /\ mode \in Modes
  /\ cur \in {File(lines) : lines \in OldNewsrc} /\ old = Missing
  /\ groups = ReadFile(cur.lines) /\ cache = 0 /\ fileChanged = FALSE
  /\ locked = FALSE
  /\ worker = [w \in Worker |-> Idle] /\ adder = NoName
  /\ mainPc = "idle" /\ mainName = NoName /\ handler = FALSE
  /\ write = "none" /\ held = FALSE
-----------------------------------------------------------------------------
(* The workers.                                                            *)

Goto(w, state) == worker' = [worker EXCEPT ![w] = state]

\* Once the main thread writes the file, there are no other threads left.
InSession == mainPc # "write"
Receiving == InSession /\ mode = "RECEIVE"

\* artMarkRead(): the group must be known and subscribed, ...
MarkCall(w, name, n) ==
  /\ Receiving /\ worker[w] = Idle
  /\ LookUp(name)
  /\ LET i == GetGroupP(name) IN
     /\ i # 0
     /\ groups[i].subscribed
     /\ Goto(w, [pc |-> "check", name |-> name, entry |-> i, num |-> n])
  /\ UNCHANGED <<groups, fileChanged, locked, adder, mainVars, fileVars>>

\* mutant of MarkCheck: a mark does not count as a change
MarkCheckSilent(w) ==
  LET call == worker[w] IN
  /\ call.pc = "check"
  /\ LookUp(call.name)
  /\ Goto(w, IF ArtIsRead(groups[GetGroupP(call.name)].readList, call.num) THEN Idle
             ELSE [call EXCEPT !.pc = "mark"])
  /\ UNCHANGED <<groups, fileChanged, locked, adder, mainVars, fileVars>>

\* ... the article unread; the file counts as changed before the list is.
MarkCheck(w) ==
  LET call == worker[w]
      isRead == ArtIsRead(groups[GetGroupP(call.name)].readList, call.num)
  IN /\ call.pc = "check"
     /\ LookUp(call.name)
     /\ Goto(w, IF isRead THEN Idle ELSE [call EXCEPT !.pc = "mark"])
     /\ fileChanged' = (fileChanged \/ ~isRead)
     /\ UNCHANGED <<groups, locked, adder, mainVars, fileVars>>

\* The list may have changed since, so it is searched anew.
MarkStore(w) ==
  LET call == worker[w] IN
  /\ call.pc = "mark" /\ ~locked
  /\ SetList(call.entry, MarkRead(groups[call.entry].readList, call.num))
  /\ Goto(w, Idle)
  /\ UNCHANGED <<cache, fileChanged, locked, adder, mainVars, fileVars>>

\* grpFixReadList() in a group thread
WorkerFix(w, name) ==
  /\ Receiving /\ worker[w] = Idle
  /\ LookUp(name)
  /\ LET i == GetGroupP(name) IN
     /\ i # 0 /\ groups[i].subscribed
     /\ SetList(i, FixReadList(groups[i].readList, GroupLo[name], GroupHi[name]))
  /\ UNCHANGED <<fileChanged, locked, worker, adder, mainVars, fileVars>>

\* grpCatchup() in a catchup thread: first the list, ...
WorkerCatchup(w, name, keep) ==
  /\ InSession /\ mode = "CATCHUP" /\ worker[w] = Idle
  /\ LookUp(name)
  /\ LET i == GetGroupP(name) IN
     /\ i # 0 /\ groups[i].subscribed
     /\ SetList(i, FixReadList(groups[i].readList,
                               CatchupLo(1, GroupHi[name], keep), GroupHi[name]))
  /\ Goto(w, [Idle EXCEPT !.pc = "changed"])
  /\ UNCHANGED <<fileChanged, locked, adder, mainVars, fileVars>>

\* ... then, without sema, the flag.
CatchupChanged(w) ==
  /\ worker[w].pc = "changed"
  /\ fileChanged' = TRUE
  /\ Goto(w, Idle)
  /\ UNCHANGED <<groups, cache, locked, adder, mainVars, fileVars>>

WorkerNext(w) ==
  \/ \E name \in Name : \/ \E n \in Marks : MarkCall(w, name, n)
                        \/ WorkerFix(w, name)
                        \/ \E keep \in CatchupKeep : WorkerCatchup(w, name, keep)
  \/ MarkCheck(w) \/ MarkStore(w) \/ CatchupChanged(w)
-----------------------------------------------------------------------------
(* mtGetNewGroups(): grpExists(), then grpAdd() unsubscribed.               *)

NewGroupMissing(name) ==
  /\ Receiving /\ adder = NoName
  /\ LookUp(name) /\ GetGroupP(name) = 0
  /\ adder' = name
  /\ UNCHANGED <<groups, fileChanged, locked, worker, mainVars, fileVars>>

NewGroupAdd ==
  /\ adder # NoName
  /\ GrpAdd(adder, FALSE)
  /\ adder' = NoName
  /\ UNCHANGED <<cache, locked, worker, mainVars, fileVars>>
-----------------------------------------------------------------------------
(* The main thread, unless the handler has interrupted it.                  *)

MainAt(pc, to) == ~handler /\ mainPc = pc /\ mainPc' = to

\* getNews() turns to a subscribed group.
MainGroup(name) ==
  /\ MainAt("idle", "fix") /\ mode = "RECEIVE"
  /\ \E i \in Entries(name) : groups[i].subscribed
  /\ mainName' = name
  /\ UNCHANGED <<groups, cache, fileChanged, locked, worker, adder, mode, handler, fileVars>>

\* processSendme(): grpExists(), then grpAdd() subscribed, then the fix.
SendmeKnown(name) ==
  /\ mode = "RECEIVE"
  /\ LookUp(name)
  /\ MainAt("idle", IF GetGroupP(name) = 0 THEN "add" ELSE "fix")
  /\ mainName' = name
  /\ UNCHANGED <<groups, fileChanged, locked, worker, adder, mode, handler, fileVars>>

SendmeAdd ==
  /\ MainAt("add", "fix")
  /\ GrpAdd(mainName, TRUE)
  /\ UNCHANGED <<cache, locked, worker, adder, mode, mainName, handler, fileVars>>

\* grpFixReadList() in the main thread: the assignments to the list, one by one
FixBegin ==
  /\ MainAt("fix", "fixDrop")
  /\ LookUp(mainName)
  /\ locked' = TRUE
  /\ LET i == GetGroupP(mainName)
     IN SetList(i, FixReset(groups[i].readList, GroupHi[mainName]))
  /\ UNCHANGED <<fileChanged, worker, adder, mode, mainName, handler, fileVars>>

MainList == groups[cache].readList

\* mutant of DropsFirst: >= for >
DropsFirstEqual == MainList # <<>> /\ GroupLo[mainName] >= MainList[1].hi

DropsFirst == MainList # <<>> /\ GroupLo[mainName] > MainList[1].hi

FixDropFirst ==
  /\ MainAt("fixDrop", "fixDrop") /\ DropsFirst
  /\ SetList(cache, Tail(MainList))
  /\ UNCHANGED <<cache, fileChanged, locked, worker, adder, mode, mainName, handler, fileVars>>

FixEnd ==
  /\ MainAt("fixDrop", "idle") /\ ~DropsFirst
  /\ SetList(cache, FixFirst(MainList, GroupLo[mainName]))
  /\ locked' = FALSE /\ mainName' = NoName
  /\ UNCHANGED <<cache, fileChanged, worker, adder, mode, handler, fileVars>>

\* All threads have ended: writeFile() is called.
MainWrite ==
  /\ MainAt("idle", "write")
  /\ \A w \in Worker : worker[w] = Idle
  /\ adder = NoName
  /\ write' = "test"
  /\ UNCHANGED <<groups, cache, fileChanged, locked, worker, adder, mode, mainName, handler,
                 held, cur, old>>

\* SIGINT: whatever the main thread was doing is not resumed.
Interrupt ==
  /\ UserAbort /\ ~handler
  /\ write # "none" => InterruptWrite
  /\ handler' = TRUE /\ write' = "test" /\ held' = (write = "put")
  /\ UNCHANGED <<groups, cache, fileChanged, locked, worker, adder, mode, mainPc, mainName,
                 cur, old>>

MainNext ==
  \/ \E name \in Name : MainGroup(name)
  \/ \E name \in Sendme : SendmeKnown(name)
  \/ SendmeAdd \/ FixBegin \/ FixDropFirst \/ FixEnd \/ MainWrite \/ Interrupt
-----------------------------------------------------------------------------
(* writeFile(), in the main thread, its handler included: sema, a mutex of   *)
(* OS/2, lets the thread that owns it in again.                              *)

WriteStep(from, to) == write = from /\ write' = to
RestUnchanged == UNCHANGED <<groups, cache, fileChanged, worker, adder, mainVars, held>>

WriteTest ==
  /\ WriteStep("test", IF groups = <<>> \/ ~fileChanged THEN "done" ELSE "remove")
  /\ locked' = (locked \/ (groups # <<>> /\ fileChanged))
  /\ UNCHANGED <<cur, old>> /\ RestUnchanged

WriteRemove ==
  /\ WriteStep("remove", "rename")
  /\ old' = Missing
  /\ UNCHANGED <<cur, locked>> /\ RestUnchanged

\* mutant of WriteRename: the backup is not made
WriteNoRename ==
  /\ WriteStep("rename", "open")
  /\ UNCHANGED <<cur, old, locked>> /\ RestUnchanged

\* The system may refuse to rename a file that is open.
WriteRename ==
  /\ WriteStep("rename", "open")
  /\ \/ cur.exists /\ old' = cur /\ cur' = Missing
     \/ (~cur.exists \/ held) /\ UNCHANGED <<cur, old>>
  /\ UNCHANGED locked /\ RestUnchanged

\* openT() denies shared write access.
WriteOpen ==
  /\ IF held /\ cur.exists
     THEN WriteStep("open", "done") /\ locked' = FALSE /\ UNCHANGED cur
     ELSE WriteStep("open", "put") /\ cur' = File(<<>>) /\ UNCHANGED locked
  /\ UNCHANGED old /\ RestUnchanged

WritePut ==
  /\ write = "put"
  /\ cur' = [cur EXCEPT !.lines = Append(@, Line(groups[Len(@) + 1]))]
  /\ IF Len(cur'.lines) = Len(groups) THEN WriteStep("put", "done") /\ locked' = FALSE
                                ELSE WriteStep("put", "put") /\ UNCHANGED locked
  /\ UNCHANGED old /\ RestUnchanged

WriteNext == WriteTest \/ WriteRemove \/ WriteRename \/ WriteOpen \/ WritePut
-----------------------------------------------------------------------------
Alive == ~Finished

Next ==
  \/ \E w \in Worker : Alive /\ WorkerNext(w)
  \/ \E name \in NewNames : Alive /\ NewGroupMissing(name)
  \/ Alive /\ NewGroupAdd
  \/ Alive /\ MainNext
  \/ WriteNext

Spec == Init /\ [][Next]_vars
-----------------------------------------------------------------------------
WorkerPcs == {"idle", "check", "mark", "changed"}
EntryType == [name : Name, subscribed : BOOLEAN, readList : Seq(ArtRange)]

\* In every state, the handler's view in the middle of a fix included, each list
\* is in normal form: the searches of newsrc.cc rely on it.
ListsNormal == \A i \in DOMAIN groups : NormalForm(groups[i].readList)

\* Type invariant; the entries found keep pointing at their group.
TypeOK ==
  /\ ListsNormal
  /\ mode \in Modes /\ groups \in Seq(EntryType) /\ cache \in 0 .. Len(groups)
  /\ fileChanged \in BOOLEAN /\ locked \in BOOLEAN /\ handler \in BOOLEAN
  /\ \A w \in Worker : /\ worker[w].pc \in WorkerPcs
                       /\ worker[w].pc \in {"check", "mark"} =>
                            worker[w].entry \in Entries(worker[w].name)
  /\ adder \in Name \cup {NoName} /\ mainName \in Name \cup {NoName}
  /\ mainPc \in {"idle", "add", "fix", "fixDrop", "write"}
  /\ write \in {"none", "test", "remove", "rename", "open", "put", "done"}

\* The set of numbers read in a group, a fix under way counted as done.
ReadSet(name) ==
  IF Entries(name) = {} THEN {}
  ELSE LET R == groups[Max(Entries(name))].readList
       IN Elems(IF mainPc = "fixDrop" /\ mainName = name
                THEN FixFirst(FixDrop(R, GroupLo[name]), GroupLo[name]) ELSE R)

Sets == INSTANCE ReadSets WITH read <- [name \in Name |-> ReadSet(name)]

\* All the threads together behave as if each mark and each fix were one step on
\* a set of numbers.
ImplementsSets == Sets!Spec

\* The file as the next session would read it.
SavedSet(name) ==
  LET gs == ReadFile(cur.lines)
      is == {i \in DOMAIN gs : gs[i].name = name}
  IN IF is = {} THEN {} ELSE Elems(gs[Max(is)].readList)

\* When the program ends, by itself or in a reception by ^C at any time, the newsrc
\* on disk says of each article the server has what the newsrc in memory says; only
\* if nothing was marked may it be the one of the last session.
MarksSaved ==
  (Finished /\ (mode = "CATCHUP" => ~handler)) => \A name \in {groups[i].name : i \in DOMAIN groups} :
    LET above(S) == {n \in S : n >= GroupLo[name]}
    IN /\ above(ReadSet(name)) \subseteq SavedSet(name)
       /\ fileChanged => above(SavedSet(name)) \subseteq ReadSet(name)

\* Wherever the machine may stop, NEWSRC or NEWSRC.old has a line for each group
\* NEWSRC had before.
Whole(file, names) ==
  names \subseteq {file.lines[i].name : i \in DOMAIN file.lines}
OneWhole ==
  LET names == {groups[i].name : i \in DOMAIN groups}
      before == {n \in names : \E f \in OldNewsrc : \E i \in DOMAIN f : f[i].name = n}
  IN Whole(cur, before) \/ Whole(old, before)

\* No group is entered twice: grpAdd() is to be preceded by grpExists().
NoGroupTwice ==
  \A i, j \in DOMAIN groups : groups[i].name = groups[j].name => i = j
=============================================================================
