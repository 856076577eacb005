---------------------------- MODULE NewsrcProofs ----------------------------
(***************************************************************************)
(* Theorems about Newsrc, for any groups, lists, workers and lines of the  *)
(* file: the threads change the lists as if each mark and each fix were    *)
(* one step on a set of numbers, and what is written at the end, by the    *)
(* program or by the handler of SIGINT, is what was in memory.             *)
(***************************************************************************)
EXTENDS Newsrc, ReadListProofs

\* The entries: well typed, their lists in normal form.
GroupsOk == groups \in Seq(EntryType) /\ ListsNormal

CallType == [pc : WorkerPcs, name : Name \cup {NoName}, entry : Nat, num : Marks \cup {0}]

\* The entries of a group.
At(gs, name) == {i \in DOMAIN gs : gs[i].name = name}

LEMMA EntriesAt == \A name : Entries(name) = At(groups, name)
  BY DEF Entries, At

\* A worker inside artMarkRead() has an entry of its group.
CallOk ==
  \A w \in Worker : worker[w].pc \in {"check", "mark"} =>
    worker[w].entry \in At(groups, worker[w].name) /\ worker[w].num \in Marks

\* The main thread has a group to work on; while it fixes the list, nobody else may
\* look up a group, so the cached entry stays the one it works on.
MainOk ==
  /\ mainPc \in {"add", "fix", "fixDrop"} => mainName \in Name
  /\ mainPc = "fix" => At(groups, mainName) # {}
  /\ mainPc = "fixDrop" /\ write # "done" => locked /\ cache \in At(groups, mainName)

VarsOk ==
  /\ mode \in Modes /\ cache \in 0 .. Len(groups)
  /\ fileChanged \in BOOLEAN /\ locked \in BOOLEAN /\ handler \in BOOLEAN
  /\ worker \in [Worker -> CallType]
  /\ adder \in Name \cup {NoName} /\ mainName \in Name \cup {NoName}
  /\ mainPc \in {"idle", "add", "fix", "fixDrop", "write"}
  /\ write \in {"none", "test", "remove", "rename", "open", "put", "done"}

TypeInv == GroupsOk /\ VarsOk /\ CallOk /\ MainOk
-----------------------------------------------------------------------------
(* Looking up a group.                                                       *)

LEMMA MaxOk ==
  ASSUME NEW n \in Nat, NEW S, S \subseteq 1 .. n, S # {}
  PROVE  Max(S) \in S /\ \A s \in S : s <= Max(S)
<1> DEFINE T == {n - s : s \in S}
<1>1. T \subseteq Nat /\ T # {}
  <2>1. \A s \in S : s \in Nat /\ s <= n /\ n - s \in Nat
    OBVIOUS
  <2>2. T \subseteq Nat
    BY <2>1
  <2>3. PICK s \in S : TRUE
    OBVIOUS
  <2>4. n - s \in T
    BY <2>3
  <2> QED
    BY <2>2, <2>4
<1>2. Min(T) \in T /\ \A t \in T : Min(T) <= t
  <2> HIDE DEF T
  <2> QED
    BY <1>1, MinOk
<1>3. PICK x \in S : Min(T) = n - x
  BY <1>2
<1>4. ASSUME NEW s \in S PROVE x >= s
  <2>1. n - s \in T
    OBVIOUS
  <2>2. n - x <= n - s
    BY <1>2, <1>3, <2>1
  <2> QED
    BY <2>2
<1>5. \E y \in S : \A s \in S : y >= s
  BY <1>4
<1>6. Max(S) \in S /\ \A s \in S : Max(S) >= s
  BY <1>5 DEF Max
<1> QED
  BY <1>6

LEMMA GroupsDomain ==
  ASSUME GroupsOk
  PROVE  /\ groups \in Seq(EntryType) /\ Len(groups) \in Nat /\ DOMAIN groups = 1 .. Len(groups)
         /\ \A i \in DOMAIN groups : /\ groups[i] \in EntryType /\ groups[i].name \in Name
                                     /\ groups[i].subscribed \in BOOLEAN
                                     /\ NormalForm(groups[i].readList)
<1>1. groups \in Seq(EntryType) /\ Len(groups) \in Nat /\ DOMAIN groups = 1 .. Len(groups)
  BY LenProperties DEF GroupsOk
<1>2. \A i \in DOMAIN groups : groups[i] \in EntryType
  BY <1>1, ElementOfSeq
<1> QED
  BY <1>1, <1>2 DEF GroupsOk, ListsNormal, EntryType

LEMMA EntriesOk ==
  ASSUME GroupsOk, NEW name
  PROVE  /\ At(groups, name) \subseteq 1 .. Len(groups)
         /\ At(groups, name) # {} => /\ Max(At(groups, name)) \in At(groups, name)
                                  /\ \A i \in At(groups, name) : i <= Max(At(groups, name))
<1>1. At(groups, name) \subseteq 1 .. Len(groups) /\ Len(groups) \in Nat
  BY GroupsDomain DEF At
<1> QED
  BY <1>1, MaxOk

\* getGroupP() finds an entry of the group if there is one.
LEMMA GetGroupPOk ==
  ASSUME GroupsOk, VarsOk, NEW name
  PROVE  /\ GetGroupP(name) \in 0 .. Len(groups)
         /\ GetGroupP(name) = 0 <=> At(groups, name) = {}
         /\ GetGroupP(name) # 0 => /\ GetGroupP(name) \in At(groups, name)
                                   /\ GetGroupP(name) \in DOMAIN groups
<1>1. Len(groups) \in Nat /\ DOMAIN groups = 1 .. Len(groups) /\ cache \in 0 .. Len(groups)
  BY GroupsDomain DEF VarsOk
<1>2. At(groups, name) \subseteq 1 .. Len(groups)
  BY EntriesOk
<1>3. CASE cache # 0 /\ cache \in At(groups, name)
  BY <1>1, <1>2, <1>3 DEF GetGroupP, Entries, At
<1>4. CASE ~(cache # 0 /\ cache \in At(groups, name)) /\ At(groups, name) = {}
  <2>1. GetGroupP(name) = 0
    BY <1>4 DEF GetGroupP, Entries, At
  <2> QED
    BY <1>1, <1>4, <2>1
<1>5. CASE ~(cache # 0 /\ cache \in At(groups, name)) /\ At(groups, name) # {}
  <2>1. GetGroupP(name) = Max(At(groups, name))
    BY <1>5 DEF GetGroupP, Entries, At
  <2>2. Max(At(groups, name)) \in At(groups, name)
    BY <1>5, EntriesOk
  <2> QED
    BY <1>1, <1>2, <1>5, <2>1, <2>2
<1> QED
  BY <1>3, <1>4, <1>5
-----------------------------------------------------------------------------
(* Changing the entries.                                                     *)

\* Only the list of entry i changes.
Relisted(i, R) ==
  /\ GroupsOk' /\ Len(groups') = Len(groups) /\ DOMAIN groups' = DOMAIN groups
  /\ groups'[i].readList = R
  /\ \A j \in DOMAIN groups : groups'[j].name = groups[j].name
  /\ \A j \in DOMAIN groups : j # i => groups'[j] = groups[j]
  /\ \A name : At(groups', name) = At(groups, name)

LEMMA SetListOk ==
  ASSUME GroupsOk, NEW i \in DOMAIN groups, NEW R, NormalForm(R), SetList(i, R)
  PROVE  Relisted(i, R)
<1>1. groups \in Seq(EntryType) /\ Len(groups) \in Nat /\ DOMAIN groups = 1 .. Len(groups)
  BY GroupsDomain
<1>2. groups' = [groups EXCEPT ![i].readList = R]
  BY DEF SetList
<1>3. R \in Seq(ArtRange)
  BY DEF NormalForm
<1>4. groups[i] \in EntryType
  BY GroupsDomain
<1> DEFINE e == [groups[i] EXCEPT !.readList = R]
<1>5. e \in EntryType /\ e.readList = R /\ e.name = groups[i].name
  BY <1>3, <1>4 DEF EntryType
<1>6. groups \in [1 .. Len(groups) -> EntryType]
  BY <1>1
<1>7. groups' = [groups EXCEPT ![i] = e]
  BY <1>2
<1> HIDE DEF e
<1>8. groups' \in [1 .. Len(groups) -> EntryType] /\ groups'[i] = e
      /\ \A j \in DOMAIN groups : j # i => groups'[j] = groups[j]
  BY <1>1, <1>5, <1>6, <1>7
<1>9. groups' \in Seq(EntryType) /\ Len(groups') = Len(groups) /\ DOMAIN groups' = DOMAIN groups
  BY <1>1, <1>8
<1>10. \A j \in DOMAIN groups : groups'[j].name = groups[j].name
  BY <1>5, <1>8
<1>11. ListsNormal'
  <2>1. \A j \in DOMAIN groups : NormalForm(groups'[j].readList)
    BY <1>5, <1>8, GroupsDomain
  <2> QED
    BY <1>9, <2>1 DEF ListsNormal
<1>12. \A name : At(groups', name) = At(groups, name)
  BY <1>9, <1>10 DEF At
<1> QED
  BY <1>5, <1>8, <1>9, <1>10, <1>11, <1>12 DEF Relisted, GroupsOk

\* An entry with an empty list is added behind the others.
Entered(name) ==
  /\ GroupsOk' /\ Len(groups') = Len(groups) + 1 /\ DOMAIN groups' = DOMAIN groups \cup {Len(groups) + 1}
  /\ groups'[Len(groups) + 1].name = name
  /\ groups'[Len(groups) + 1].readList = <<>>
  /\ \A j \in DOMAIN groups : groups'[j] = groups[j]
  /\ \A n : At(groups', n) = IF n = name THEN At(groups, n) \cup {Len(groups) + 1} ELSE At(groups, n)

LEMMA GrpAddOk ==
  ASSUME GroupsOk, NEW name \in Name, NEW subscribe \in BOOLEAN, GrpAdd(name, subscribe)
  PROVE  Entered(name)
<1> DEFINE e == [name |-> name, subscribed |-> subscribe, readList |-> <<>>]
           l == Len(groups) + 1
<1>1. groups \in Seq(EntryType) /\ Len(groups) \in Nat /\ DOMAIN groups = 1 .. Len(groups)
  BY GroupsDomain
<1>2. groups' = Append(groups, e)
  BY DEF GrpAdd
<1>3. e \in EntryType /\ e.name = name /\ e.readList = <<>>
  BY EmptySeq DEF EntryType
<1> HIDE DEF e
<1>4. /\ groups' \in Seq(EntryType) /\ Len(groups') = l
      /\ \A j \in 1 .. Len(groups) : groups'[j] = groups[j]
      /\ groups'[l] = e
  BY <1>1, <1>2, <1>3, AppendProperties
<1>5. DOMAIN groups' = 1 .. l
  BY <1>4, LenProperties
<1>6. 1 .. l = DOMAIN groups \cup {l} /\ l \notin DOMAIN groups
  BY <1>1
<1> HIDE DEF l
<1>7. ListsNormal'
  <2>1. ASSUME NEW j \in DOMAIN groups' PROVE NormalForm(groups'[j].readList)
    <3>1. CASE j \in DOMAIN groups
      BY <3>1, <1>1, <1>4, GroupsDomain
    <3>2. CASE j = l
      BY <3>2, <1>3, <1>4, EmptyOk
    <3> QED
      BY <3>1, <3>2, <1>5, <1>6
  <2> QED
    BY <2>1 DEF ListsNormal
<1>8. ASSUME NEW n
      PROVE  At(groups', n) = IF n = name THEN At(groups, n) \cup {l} ELSE At(groups, n)
  <2>1. \A j : j \in At(groups', n) <=> j \in DOMAIN groups' /\ groups'[j].name = n
    BY DEF At
  <2>2. \A j : j \in At(groups, n) <=> j \in DOMAIN groups /\ groups[j].name = n
    BY DEF At
  <2>3. \A j : j \in DOMAIN groups' <=> j \in DOMAIN groups \/ j = l
    BY <1>5, <1>6
  <2>4. \A j \in DOMAIN groups : groups'[j].name = groups[j].name
    BY <1>1, <1>4
  <2>5. groups'[l].name = name
    BY <1>3, <1>4
  <2> QED
    BY <2>1, <2>2, <2>3, <2>4, <2>5, <1>6
<1>9. GroupsOk' /\ Len(groups') = l /\ DOMAIN groups' = DOMAIN groups \cup {l}
  BY <1>4, <1>5, <1>6, <1>7 DEF GroupsOk
<1>10. groups'[l].name = name /\ groups'[l].readList = <<>>
  BY <1>3, <1>4
<1>11. \A j \in DOMAIN groups : groups'[j] = groups[j]
  BY <1>1, <1>4
<1> QED
  BY <1>8, <1>9, <1>10, <1>11 DEF Entered, l
-----------------------------------------------------------------------------
(* Types.                                                                    *)

\* No entry goes, and each keeps its group.
Grown ==
  /\ GroupsOk' /\ Len(groups') >= Len(groups) /\ Len(groups') \in Nat /\ Len(groups) \in Nat
  /\ \A n : At(groups, n) \subseteq At(groups', n)

LEMMA SameGrown ==
  ASSUME GroupsOk, UNCHANGED groups
  PROVE  Grown
  BY GroupsDomain DEF Grown, GroupsOk, ListsNormal, At

LEMMA RelistedGrown ==
  ASSUME GroupsOk, NEW i, NEW R, Relisted(i, R)
  PROVE  Grown
  BY GroupsDomain DEF Grown, Relisted

LEMMA EnteredGrown ==
  ASSUME GroupsOk, NEW name, Entered(name)
  PROVE  Grown
<1>1. Len(groups) \in Nat
  BY GroupsDomain
<1>2. GroupsOk' /\ Len(groups') = Len(groups) + 1
      /\ \A n : At(groups', n) = IF n = name THEN At(groups, n) \cup {Len(groups) + 1} ELSE At(groups, n)
  BY DEF Entered
<1>3. \A n : At(groups, n) \subseteq At(groups', n)
  BY <1>2
<1> QED
  BY <1>1, <1>2, <1>3 DEF Grown

\* What a step of a worker leaves as it is.
WorkerKeeps == UNCHANGED <<locked, adder, mainVars, fileVars>>

\* A step of a worker is well typed if its new state is and the cache is.
LEMMA WorkerTypes ==
  ASSUME TypeInv, Alive, NEW w \in Worker, NEW call \in CallType, Grown, Goto(w, call), WorkerKeeps,
         call.pc \in {"check", "mark"} => call.entry \in At(groups', call.name) /\ call.num \in Marks,
         cache' = cache \/ (~locked /\ cache' \in 0 .. Len(groups)),
         fileChanged' \in BOOLEAN
  PROVE  TypeInv'
<1>1. GroupsOk' /\ Len(groups') >= Len(groups) /\ Len(groups') \in Nat /\ Len(groups) \in Nat
      /\ \A n : At(groups, n) \subseteq At(groups', n)
  BY DEF Grown
<1>2. worker' = [worker EXCEPT ![w] = call] /\ worker \in [Worker -> CallType]
  BY DEF Goto, TypeInv, VarsOk
<1>3. worker' \in [Worker -> CallType]
  BY <1>2
<1>4. cache' \in 0 .. Len(groups')
  BY <1>1 DEF TypeInv, VarsOk
<1>5. VarsOk'
  BY <1>3, <1>4 DEF VarsOk, TypeInv, WorkerKeeps, mainVars, fileVars
<1>6. CallOk'
  <2>1. ASSUME NEW v \in Worker, worker'[v].pc \in {"check", "mark"}
        PROVE  worker'[v].entry \in At(groups', worker'[v].name) /\ worker'[v].num \in Marks
    <3>1. CASE v = w
      <4>1. worker'[v] = call
        BY <3>1, <1>2
      <4> QED
        BY <4>1, <2>1
    <3>2. CASE v # w
      <4>1. worker'[v] = worker[v]
        BY <3>2, <1>2
      <4> QED
        BY <4>1, <2>1, <1>1 DEF TypeInv, CallOk
    <3> QED
      BY <3>1, <3>2
  <2> QED
    BY <2>1 DEF CallOk
<1>7. MainOk'
  <2>1. mainPc' = mainPc /\ mainName' = mainName /\ write' = write /\ locked' = locked
    BY DEF WorkerKeeps, mainVars, fileVars
  <2>2. mainPc = "fix" => At(groups', mainName) # {}
    BY <1>1 DEF TypeInv, MainOk
  <2>3. mainPc = "fixDrop" /\ write # "done" => locked /\ cache' \in At(groups', mainName)
    BY <1>1 DEF TypeInv, MainOk
  <2> QED
    BY <2>1, <2>2, <2>3 DEF TypeInv, MainOk
<1> QED
  BY <1>1, <1>5, <1>6, <1>7 DEF TypeInv

LEMMA CallFields ==
  ASSUME TypeInv, NEW w \in Worker
  PROVE  /\ worker[w] \in CallType /\ worker[w].name \in Name \cup {NoName}
         /\ worker[w].entry \in Nat /\ worker[w].num \in Marks \cup {0}
         /\ worker[w].pc \in WorkerPcs
<1>1. worker[w] \in CallType
  BY DEF TypeInv, VarsOk
<1> QED
  BY <1>1 DEF CallType

LEMMA IdleOk == Idle \in CallType /\ Idle.pc = "idle"
  BY DEF Idle, CallType, WorkerPcs

LEMMA MarkCallTypes ==
  ASSUME TypeInv, Alive, NEW w \in Worker, NEW name \in Name, NEW n \in Marks, MarkCall(w, name, n)
  PROVE  TypeInv'
<1> DEFINE i == GetGroupP(name)
           call == [pc |-> "check", name |-> name, entry |-> i, num |-> n]
<1>1. ~locked /\ cache' = i /\ i # 0 /\ Goto(w, call) /\ UNCHANGED groups
      /\ UNCHANGED fileChanged /\ WorkerKeeps
  BY DEF MarkCall, LookUp, WorkerKeeps
<1>2. i \in 0 .. Len(groups) /\ i \in At(groups, name)
  BY <1>1, GetGroupPOk DEF TypeInv
<1> HIDE DEF i
<1>3. Len(groups) \in Nat
  BY GroupsDomain DEF TypeInv
<1>4. call \in CallType /\ call.name = name /\ call.entry = i /\ call.num = n
  BY <1>2, <1>3 DEF CallType, WorkerPcs
<1> HIDE DEF call
<1>5. Grown
  BY <1>1, SameGrown DEF TypeInv
<1>6. call.entry \in At(groups', call.name) /\ call.num \in Marks
  BY <1>2, <1>4, <1>5 DEF Grown
<1>7. fileChanged' \in BOOLEAN
  BY <1>1 DEF TypeInv, VarsOk
<1> QED
  BY <1>1, <1>2, <1>4, <1>5, <1>6, <1>7, WorkerTypes

LEMMA MarkCheckTypes ==
  ASSUME TypeInv, Alive, NEW w \in Worker, MarkCheck(w)
  PROVE  TypeInv'
<1> DEFINE isRead == ArtIsRead(groups[GetGroupP(worker[w].name)].readList, worker[w].num)
           call == IF isRead THEN Idle ELSE [worker[w] EXCEPT !.pc = "mark"]
<1>1. /\ worker[w].pc = "check" /\ ~locked /\ cache' = GetGroupP(worker[w].name)
      /\ Goto(w, call) /\ fileChanged' = (fileChanged \/ ~isRead) /\ UNCHANGED groups /\ WorkerKeeps
  BY DEF MarkCheck, LookUp, WorkerKeeps
<1>2. /\ worker[w] \in CallType /\ worker[w].entry \in At(groups, worker[w].name)
      /\ worker[w].num \in Marks
  BY <1>1, CallFields DEF TypeInv, CallOk
<1>3. /\ [worker[w] EXCEPT !.pc = "mark"] \in CallType
      /\ [worker[w] EXCEPT !.pc = "mark"].entry = worker[w].entry
      /\ [worker[w] EXCEPT !.pc = "mark"].name = worker[w].name
      /\ [worker[w] EXCEPT !.pc = "mark"].num = worker[w].num
  BY <1>2 DEF CallType, WorkerPcs
<1> HIDE DEF isRead
<1>4. Grown
  BY <1>1, SameGrown DEF TypeInv
<1>5. call \in CallType
  BY <1>3, IdleOk
<1>6. call.pc \in {"check", "mark"} => call.entry \in At(groups', call.name) /\ call.num \in Marks
  BY <1>2, <1>3, <1>4, IdleOk DEF Grown
<1> HIDE DEF call
<1>7. fileChanged' \in BOOLEAN /\ cache' \in 0 .. Len(groups)
  BY <1>1, GetGroupPOk DEF TypeInv, VarsOk
<1> QED
  BY <1>1, <1>4, <1>5, <1>6, <1>7, WorkerTypes

\* What a step makes of the list of a group, as a set: with one more number; fitted to the
\* articles from lo to hi; any way.
ListMarked(name, n) == \E i \in At(groups, name) : \E R :
  Relisted(i, R) /\ Elems(R) = Elems(groups[i].readList) \cup {n}
ListFixed(name, lo, hi) == \E i \in At(groups, name) : \E R :
  Relisted(i, R) /\ Elems(R) = Reset(Elems(groups[i].readList), hi) \cup (1 .. lo - 1)

LEMMA MarkStoreList ==
  ASSUME TypeInv, NEW w \in Worker, MarkStore(w)
  PROVE  worker[w].num \in Marks /\ ListMarked(worker[w].name, worker[w].num)
<1> DEFINE i == worker[w].entry
           n == worker[w].num
           R == MarkRead(groups[i].readList, n)
<1>1. worker[w].pc = "mark" /\ SetList(i, R)
  BY DEF MarkStore
<1>2. i \in At(groups, worker[w].name) /\ n \in Marks
  BY <1>1 DEF TypeInv, CallOk
<1>3. i \in DOMAIN groups
  BY <1>2 DEF At
<1>4. n \in Nat \ {0}
  BY <1>2, NewsrcOK
<1>5. NormalForm(groups[i].readList)
  BY <1>3, GroupsDomain DEF TypeInv
<1>6. NormalForm(R) /\ Elems(R) = Elems(groups[i].readList) \cup {n}
  BY <1>4, <1>5, MarkReadOk
<1> HIDE DEF R
<1>7. Relisted(i, R)
  BY <1>1, <1>3, <1>6, SetListOk DEF TypeInv
<1> QED
  BY <1>2, <1>6, <1>7 DEF ListMarked

LEMMA MarkStoreTypes ==
  ASSUME TypeInv, Alive, NEW w \in Worker, MarkStore(w)
  PROVE  TypeInv'
<1>1. PICK i, R : Relisted(i, R)
  BY MarkStoreList DEF ListMarked
<1>2. Grown
  BY <1>1, RelistedGrown DEF TypeInv
<1>3. Goto(w, Idle) /\ cache' = cache /\ fileChanged' = fileChanged /\ WorkerKeeps
  BY DEF MarkStore, WorkerKeeps
<1>4. fileChanged' \in BOOLEAN
  BY <1>3 DEF TypeInv, VarsOk
<1> QED
  BY <1>2, <1>3, <1>4, IdleOk, WorkerTypes

\* grpFixReadList(), as one step, for a group that has an entry.
LEMMA SetFixed ==
  ASSUME TypeInv, NEW name, NEW i \in At(groups, name), NEW lo \in Int, NEW hi \in Int,
         SetList(i, FixReadList(groups[i].readList, lo, hi))
  PROVE  ListFixed(name, lo, hi)
<1> DEFINE R == FixReadList(groups[i].readList, lo, hi)
<1>1. i \in DOMAIN groups
  BY DEF At
<1>2. NormalForm(groups[i].readList)
  BY <1>1, GroupsDomain DEF TypeInv
<1>3. /\ NormalForm(R)
      /\ Elems(R) = Reset(Elems(groups[i].readList), hi) \cup (1 .. lo - 1)
  BY <1>2, FixReadListOk
<1>4. SetList(i, R)
  OBVIOUS
<1> HIDE DEF R
<1>5. Relisted(i, R)
  BY <1>1, <1>3, <1>4, SetListOk DEF TypeInv
<1> QED
  BY <1>3, <1>5 DEF ListFixed

LEMMA WorkerFixList ==
  ASSUME TypeInv, NEW w, NEW name \in Name, WorkerFix(w, name)
  PROVE  ListFixed(name, GroupLo[name], GroupHi[name])
<1> DEFINE i == GetGroupP(name)
<1>1. i # 0 /\ SetList(i, FixReadList(groups[i].readList, GroupLo[name], GroupHi[name]))
  BY DEF WorkerFix
<1>2. i \in At(groups, name)
  BY <1>1, GetGroupPOk DEF TypeInv
<1>3. GroupLo[name] \in Int /\ GroupHi[name] \in Int
  BY NewsrcOK
<1> HIDE DEF i
<1> QED
  BY <1>1, <1>2, <1>3, SetFixed

LEMMA WorkerFixTypes ==
  ASSUME TypeInv, Alive, NEW w \in Worker, NEW name \in Name, WorkerFix(w, name)
  PROVE  TypeInv'
<1>1. PICK i, R : Relisted(i, R)
  BY WorkerFixList DEF ListFixed
<1>2. Grown
  BY <1>1, RelistedGrown DEF TypeInv
<1>3. ~locked /\ cache' = GetGroupP(name) /\ fileChanged' = fileChanged /\ WorkerKeeps
      /\ worker' = worker
  BY DEF WorkerFix, LookUp, WorkerKeeps
<1>4. worker[w] \in CallType /\ Goto(w, worker[w])
  BY <1>3, CallFields DEF Goto, TypeInv, VarsOk
<1>5. worker[w].pc \in {"check", "mark"} =>
        worker[w].entry \in At(groups', worker[w].name) /\ worker[w].num \in Marks
  BY <1>2 DEF TypeInv, CallOk, Grown
<1>6. cache' \in 0 .. Len(groups) /\ fileChanged' \in BOOLEAN
  BY <1>3, GetGroupPOk DEF TypeInv, VarsOk
<1> QED
  BY <1>2, <1>3, <1>4, <1>5, <1>6, WorkerTypes

LEMMA WorkerCatchupList ==
  ASSUME TypeInv, NEW w, NEW name \in Name, NEW keep \in CatchupKeep,
         WorkerCatchup(w, name, keep)
  PROVE  ListFixed(name, CatchupLo(1, GroupHi[name], keep), GroupHi[name])
<1> DEFINE i == GetGroupP(name)
           lo == CatchupLo(1, GroupHi[name], keep)
<1>1. i # 0 /\ SetList(i, FixReadList(groups[i].readList, lo, GroupHi[name]))
  BY DEF WorkerCatchup
<1>2. i \in At(groups, name)
  BY <1>1, GetGroupPOk DEF TypeInv
<1>3. 1 \in Int /\ GroupHi[name] \in Int /\ keep \in Int
  BY NewsrcOK
<1>4. lo \in {GroupHi[name] - keep + 1, 1, 1}
  BY <1>3, CatchupLoOk
<1> HIDE DEF i, lo
<1>5. lo \in Int
  BY <1>3, <1>4
<1>6. ListFixed(name, lo, GroupHi[name])
  BY <1>1, <1>2, <1>3, <1>5, SetFixed
<1> QED
  BY <1>6 DEF lo

LEMMA WorkerCatchupTypes ==
  ASSUME TypeInv, Alive, NEW w \in Worker, NEW name \in Name, NEW keep \in CatchupKeep,
         WorkerCatchup(w, name, keep)
  PROVE  TypeInv'
<1> DEFINE call == [Idle EXCEPT !.pc = "changed"]
<1>1. PICK i, R : Relisted(i, R)
  BY WorkerCatchupList DEF ListFixed
<1>2. Grown
  BY <1>1, RelistedGrown DEF TypeInv
<1>3. ~locked /\ cache' = GetGroupP(name) /\ fileChanged' = fileChanged /\ WorkerKeeps
      /\ Goto(w, call)
  BY DEF WorkerCatchup, LookUp, WorkerKeeps
<1>4. call \in CallType /\ call.pc = "changed"
  BY DEF Idle, CallType, WorkerPcs
<1> HIDE DEF call
<1>5. cache' \in 0 .. Len(groups) /\ fileChanged' \in BOOLEAN
  BY <1>3, GetGroupPOk DEF TypeInv, VarsOk
<1> QED
  BY <1>2, <1>3, <1>4, <1>5, WorkerTypes

LEMMA CatchupChangedTypes ==
  ASSUME TypeInv, Alive, NEW w \in Worker, CatchupChanged(w)
  PROVE  TypeInv'
<1>1. Goto(w, Idle) /\ cache' = cache /\ fileChanged' = TRUE /\ UNCHANGED groups /\ WorkerKeeps
  BY DEF CatchupChanged, WorkerKeeps
<1>2. Grown
  BY <1>1, SameGrown DEF TypeInv
<1> QED
  BY <1>1, <1>2, IdleOk, WorkerTypes

LEMMA WorkerNextTypes ==
  ASSUME TypeInv, Alive, NEW w \in Worker, WorkerNext(w)
  PROVE  TypeInv'
  BY MarkCallTypes, MarkCheckTypes, MarkStoreTypes, WorkerFixTypes, WorkerCatchupTypes,
     CatchupChangedTypes DEF WorkerNext
-----------------------------------------------------------------------------
(* The other threads.                                                        *)

\* A step of another thread that leaves the workers alone.
LEMMA OtherTypes ==
  ASSUME TypeInv, Grown, UNCHANGED <<worker, mode>>,
         cache' \in 0 .. Len(groups), fileChanged' \in BOOLEAN, locked' \in BOOLEAN,
         handler' \in BOOLEAN, adder' \in Name \cup {NoName}, mainName' \in Name \cup {NoName},
         mainPc' \in {"idle", "add", "fix", "fixDrop", "write"},
         write' \in {"none", "test", "remove", "rename", "open", "put", "done"},
         MainOk'
  PROVE  TypeInv'
<1>1. GroupsOk' /\ Len(groups') >= Len(groups) /\ Len(groups') \in Nat /\ Len(groups) \in Nat
      /\ \A n : At(groups, n) \subseteq At(groups', n)
  BY DEF Grown
<1>2. VarsOk'
  BY <1>1 DEF TypeInv, VarsOk
<1>3. CallOk'
  BY <1>1 DEF TypeInv, CallOk
<1> QED
  BY <1>1, <1>2, <1>3 DEF TypeInv

LEMMA NewGroupMissingTypes ==
  ASSUME TypeInv, Alive, NEW name \in NewNames, NewGroupMissing(name)
  PROVE  TypeInv'
<1>1. /\ ~locked /\ cache' = GetGroupP(name) /\ adder' = name
      /\ UNCHANGED <<groups, fileChanged, locked, worker, mode, mainPc, mainName, handler, write>>
  BY DEF NewGroupMissing, LookUp, mainVars, fileVars
<1>2. Grown
  BY <1>1, SameGrown DEF TypeInv
<1>3. cache' \in 0 .. Len(groups)
  BY <1>1, GetGroupPOk DEF TypeInv
<1>4. MainOk'
  BY <1>1 DEF TypeInv, MainOk, Alive, Finished
<1>5. name \in Name
  BY NewsrcOK
<1> QED
  BY <1>1, <1>2, <1>3, <1>4, <1>5, OtherTypes DEF TypeInv, VarsOk

LEMMA NewGroupAddEntered ==
  ASSUME TypeInv, NewGroupAdd
  PROVE  adder \in Name /\ Entered(adder)
<1>1. adder \in Name /\ GrpAdd(adder, FALSE)
  BY DEF NewGroupAdd, TypeInv, VarsOk
<1> QED
  BY <1>1, GrpAddOk DEF TypeInv

LEMMA NewGroupAddTypes ==
  ASSUME TypeInv, Alive, NewGroupAdd
  PROVE  TypeInv'
<1>1. /\ adder' = NoName /\ fileChanged' = TRUE
      /\ UNCHANGED <<cache, locked, worker, mode, mainPc, mainName, handler, write>>
  BY DEF NewGroupAdd, GrpAdd, mainVars, fileVars
<1>2. Grown
  BY NewGroupAddEntered, EnteredGrown DEF TypeInv
<1>3. MainOk'
  BY <1>1, <1>2 DEF TypeInv, MainOk, Alive, Finished, Grown
<1> QED
  BY <1>1, <1>2, <1>3, OtherTypes DEF TypeInv, VarsOk

LEMMA MainGroupTypes ==
  ASSUME TypeInv, Alive, NEW name \in Name, MainGroup(name)
  PROVE  TypeInv'
<1>1. /\ mainPc = "idle" /\ mainPc' = "fix" /\ mainName' = name
      /\ UNCHANGED <<groups, cache, fileChanged, locked, worker, adder, mode, handler, write>>
  BY DEF MainGroup, MainAt, fileVars
<1>2. Grown
  BY <1>1, SameGrown DEF TypeInv
<1>3. At(groups, name) # {}
  BY EntriesAt DEF MainGroup
<1>4. MainOk'
  BY <1>1, <1>3 DEF MainOk
<1> QED
  BY <1>1, <1>2, <1>4, OtherTypes DEF TypeInv, VarsOk

LEMMA SendmeKnownTypes ==
  ASSUME TypeInv, Alive, NEW name \in Sendme, SendmeKnown(name)
  PROVE  TypeInv'
<1>1. /\ mainPc = "idle" /\ mainPc' = (IF GetGroupP(name) = 0 THEN "add" ELSE "fix")
      /\ mainName' = name /\ cache' = GetGroupP(name)
      /\ UNCHANGED <<groups, fileChanged, locked, worker, adder, mode, handler, write>>
  BY DEF SendmeKnown, LookUp, MainAt, fileVars
<1>2. Grown
  BY <1>1, SameGrown DEF TypeInv
<1>3. cache' \in 0 .. Len(groups) /\ (GetGroupP(name) # 0 => At(groups, name) # {})
  BY <1>1, GetGroupPOk DEF TypeInv
<1>4. name \in Name
  BY NewsrcOK
<1>5. MainOk'
  BY <1>1, <1>3, <1>4 DEF MainOk
<1>6. mainPc' \in {"idle", "add", "fix", "fixDrop", "write"}
  BY <1>1
<1> QED
  BY <1>1, <1>2, <1>3, <1>4, <1>5, <1>6, OtherTypes DEF TypeInv, VarsOk

LEMMA SendmeAddEntered ==
  ASSUME TypeInv, SendmeAdd
  PROVE  mainName \in Name /\ Entered(mainName)
<1>1. mainName \in Name /\ GrpAdd(mainName, TRUE)
  BY DEF SendmeAdd, MainAt, TypeInv, MainOk
<1> QED
  BY <1>1, GrpAddOk DEF TypeInv

LEMMA SendmeAddTypes ==
  ASSUME TypeInv, Alive, SendmeAdd
  PROVE  TypeInv'
<1>1. /\ mainPc = "add" /\ mainPc' = "fix" /\ fileChanged' = TRUE
      /\ UNCHANGED <<cache, locked, worker, adder, mode, mainName, handler, write>>
  BY DEF SendmeAdd, GrpAdd, MainAt, fileVars
<1>2. mainName \in Name /\ Entered(mainName)
  BY SendmeAddEntered
<1>3. Grown
  BY <1>2, EnteredGrown DEF TypeInv
<1>4. At(groups', mainName) # {}
  BY <1>2 DEF Entered
<1>5. MainOk'
  BY <1>1, <1>2, <1>4 DEF MainOk
<1> QED
  BY <1>1, <1>2, <1>3, <1>5, OtherTypes DEF TypeInv, VarsOk
-----------------------------------------------------------------------------
(* grpFixReadList() in the main thread, step by step.                        *)

\* The first range goes: what remains are the numbers above it.
LEMMA TailOk ==
  ASSUME NEW R, NormalForm(R), R # <<>>
  PROVE  /\ NormalForm(Tail(R))
         /\ Elems(R) = Elems(Tail(R)) \cup (R[1].lo .. R[1].hi)
<1>1. R \in Seq(ArtRange) /\ Len(R) \in Nat /\ DOMAIN R = 1 .. Len(R) /\ Len(R) # 0
  BY LenProperties, EmptySeq DEF NormalForm
<1> DEFINE Q == Tail(R)
<1>2. Q \in Seq(ArtRange) /\ Len(Q) = Len(R) - 1 /\ \A i \in 1 .. Len(Q) : Q[i] = R[i + 1]
  BY <1>1, HeadTailProperties
<1>3. DOMAIN Q = 1 .. Len(Q)
  BY <1>2, LenProperties
<1> HIDE DEF Q
<1>4. \A i \in DOMAIN Q : i \in Nat /\ i + 1 \in DOMAIN R /\ Q[i] = R[i + 1]
  BY <1>1, <1>2, <1>3
<1>n. /\ \A j \in DOMAIN R : R[j].lo \in Int /\ R[j].hi \in Int /\ 1 <= R[j].lo /\ R[j].lo <= R[j].hi
      /\ \A j, k \in DOMAIN R : j < k => R[j].hi + 1 < R[k].lo
  BY NormalEntry
<1>5. ASSUME NEW i \in DOMAIN Q
      PROVE  /\ 1 <= Q[i].lo /\ Q[i].lo <= Q[i].hi
             /\ \A j \in DOMAIN Q : i < j => Q[i].hi + 1 < Q[j].lo
  <2>1. ASSUME NEW j \in DOMAIN Q, i < j PROVE Q[i].hi + 1 < Q[j].lo
    <3>1. i + 1 < j + 1
      BY <2>1, <1>4
    <3> QED
      BY <3>1, <1>4, <1>n
  <2> QED
    BY <2>1, <1>4, <1>n
<1>6. NormalForm(Q)
  BY <1>2, <1>5 DEF NormalForm
<1>7. ASSUME NEW n PROVE n \in Elems(R) <=> n \in Elems(Q) \/ n \in R[1].lo .. R[1].hi
  <2>1. 1 \in DOMAIN R
    BY <1>1
  <2>2. ASSUME NEW i \in DOMAIN R, i # 1, n \in R[i].lo .. R[i].hi
        PROVE  \E j \in DOMAIN Q : n \in Q[j].lo .. Q[j].hi
    <3> DEFINE j == i - 1
    <3>1. j \in DOMAIN Q /\ j + 1 = i
      BY <2>2, <1>1, <1>2, <1>3
    <3> HIDE DEF j
    <3> QED
      BY <3>1, <2>2, <1>4
  <2>3. \A j \in DOMAIN Q : n \in Q[j].lo .. Q[j].hi => n \in Elems(R)
    BY <1>4, ElemsMember
  <2> QED
    BY <2>1, <2>2, <2>3, ElemsMember
<1> QED
  BY <1>6, <1>7 DEF Q

\* The steps, on sets: the limit, ranges below the first article go, the rest is filled up.
ListReset(name, hi) == \E i \in At(groups, name) : \E R :
  Relisted(i, R) /\ Elems(R) = Reset(Elems(groups[i].readList), hi)
ListDropped(name, lo) == \E i \in At(groups, name) : \E R :
  Relisted(i, R) /\ Elems(R) \cup (1 .. lo - 1) = Elems(groups[i].readList) \cup (1 .. lo - 1)
ListFilled(name, lo) == \E i \in At(groups, name) : \E R :
  Relisted(i, R) /\ Elems(R) = Elems(groups[i].readList) \cup (1 .. lo - 1)

LEMMA FixBeginList ==
  ASSUME TypeInv, FixBegin
  PROVE  mainName \in Name /\ ListReset(mainName, GroupHi[mainName])
<1> DEFINE i == GetGroupP(mainName)
           R == FixReset(groups[i].readList, GroupHi[mainName])
<1>1. mainPc = "fix" /\ SetList(i, R)
  BY DEF FixBegin, MainAt
<1>2. mainName \in Name /\ At(groups, mainName) # {}
  BY <1>1 DEF TypeInv, MainOk
<1>3. i \in At(groups, mainName) /\ i \in DOMAIN groups
  BY <1>2, GetGroupPOk DEF TypeInv
<1>4. NormalForm(groups[i].readList) /\ GroupHi[mainName] \in Int
  BY <1>2, <1>3, GroupsDomain, NewsrcOK DEF TypeInv
<1> HIDE DEF i
<1>5. NormalForm(R) /\ Elems(R) = Reset(Elems(groups[i].readList), GroupHi[mainName])
  BY <1>4, FixResetOk
<1> HIDE DEF R
<1>6. Relisted(i, R)
  BY <1>1, <1>3, <1>5, SetListOk DEF TypeInv
<1> QED
  BY <1>2, <1>3, <1>5, <1>6 DEF ListReset

LEMMA FixBeginTypes ==
  ASSUME TypeInv, Alive, FixBegin
  PROVE  TypeInv'
<1>1. /\ mainPc = "fix" /\ mainPc' = "fixDrop" /\ locked' = TRUE /\ cache' = GetGroupP(mainName)
      /\ UNCHANGED <<fileChanged, worker, adder, mode, mainName, handler, write>>
  BY DEF FixBegin, LookUp, MainAt, fileVars
<1>2. PICK i \in At(groups, mainName) : \E R : Relisted(i, R)
  BY FixBeginList DEF ListReset
<1>3. Grown
  BY <1>2, RelistedGrown DEF TypeInv
<1>4. /\ cache' \in 0 .. Len(groups) /\ cache' \in At(groups, mainName)
      /\ mainName \in Name
  BY <1>1, GetGroupPOk DEF TypeInv, MainOk
<1>5. MainOk'
  BY <1>1, <1>3, <1>4 DEF MainOk, Grown
<1> QED
  BY <1>1, <1>3, <1>4, <1>5, OtherTypes DEF TypeInv, VarsOk

\* The main thread at work on a list.
LEMMA MainListOk ==
  ASSUME TypeInv, Alive, mainPc = "fixDrop"
  PROVE  /\ locked /\ mainName \in Name /\ cache \in At(groups, mainName) /\ cache \in DOMAIN groups
         /\ MainList = groups[cache].readList /\ NormalForm(MainList) /\ GroupLo[mainName] \in Int
<1>1. locked /\ mainName \in Name /\ cache \in At(groups, mainName)
  BY DEF TypeInv, MainOk, Alive, Finished
<1>2. cache \in DOMAIN groups
  BY <1>1 DEF At
<1> QED
  BY <1>1, <1>2, GroupsDomain, NewsrcOK DEF TypeInv, MainList

LEMMA FixDropFirstList ==
  ASSUME TypeInv, Alive, FixDropFirst
  PROVE  mainPc = "fixDrop" /\ ListDropped(mainName, GroupLo[mainName])
<1> DEFINE R == MainList
           Q == Tail(R)
           lo == GroupLo[mainName]
<1>1. mainPc = "fixDrop" /\ R # <<>> /\ lo > R[1].hi /\ SetList(cache, Q)
  BY DEF FixDropFirst, MainAt, DropsFirst
<1>2. /\ cache \in At(groups, mainName) /\ cache \in DOMAIN groups
      /\ R = groups[cache].readList /\ NormalForm(R) /\ lo \in Int
  BY <1>1, MainListOk
<1> HIDE DEF R, lo
<1>3. NormalForm(Q) /\ Elems(R) = Elems(Q) \cup (R[1].lo .. R[1].hi)
  BY <1>1, <1>2, TailOk
<1>4. R[1].lo \in Int /\ R[1].hi \in Int /\ 1 <= R[1].lo
  <2>1. 1 \in DOMAIN R
    BY <1>1, <1>2, LenProperties, EmptySeq DEF NormalForm
  <2> QED
    BY <2>1, <1>2, NormalEntry
<1>5. R[1].lo .. R[1].hi \subseteq 1 .. lo - 1
  BY <1>1, <1>2, <1>4
<1>6. Elems(Q) \cup (1 .. lo - 1) = Elems(R) \cup (1 .. lo - 1)
  BY <1>3, <1>5
<1> HIDE DEF Q
<1>7. Relisted(cache, Q)
  BY <1>1, <1>2, <1>3, SetListOk DEF TypeInv
<1>8. ListDropped(mainName, lo)
  BY <1>2, <1>6, <1>7 DEF ListDropped
<1> QED
  BY <1>1, <1>8 DEF lo

LEMMA FixDropFirstTypes ==
  ASSUME TypeInv, Alive, FixDropFirst
  PROVE  TypeInv'
<1>1. /\ mainPc = "fixDrop" /\ mainPc' = "fixDrop"
      /\ UNCHANGED <<cache, fileChanged, locked, worker, adder, mode, mainName, handler, write>>
  BY DEF FixDropFirst, MainAt, fileVars
<1>2. PICK i, R : i \in At(groups, mainName) /\ Relisted(i, R)
  BY FixDropFirstList DEF ListDropped
<1>3. Grown
  BY <1>2, RelistedGrown DEF TypeInv
<1>4. MainOk'
  BY <1>1, <1>3 DEF TypeInv, MainOk, Grown
<1> QED
  BY <1>1, <1>3, <1>4, OtherTypes DEF TypeInv, VarsOk

LEMMA FixEndList ==
  ASSUME TypeInv, Alive, FixEnd
  PROVE  mainPc = "fixDrop" /\ ListFilled(mainName, GroupLo[mainName])
<1> DEFINE R == MainList
           lo == GroupLo[mainName]
           Q == FixFirst(R, lo)
<1>1. mainPc = "fixDrop" /\ ~(R # <<>> /\ lo > R[1].hi) /\ SetList(cache, Q)
  BY DEF FixEnd, MainAt, DropsFirst
<1>2. /\ cache \in At(groups, mainName) /\ cache \in DOMAIN groups
      /\ R = groups[cache].readList /\ NormalForm(R) /\ lo \in Int
  BY <1>1, MainListOk
<1> HIDE DEF R, lo
<1>3. R # <<>> => lo <= R[1].hi
  <2>1. R # <<>> => R[1].hi \in Int
    <3>1. R # <<>> => 1 \in DOMAIN R
      BY <1>2, LenProperties, EmptySeq DEF NormalForm
    <3> QED
      BY <3>1, <1>2, NormalEntry
  <2> QED
    BY <2>1, <1>1, <1>2
<1>4. NormalForm(Q) /\ Elems(Q) = Elems(R) \cup (1 .. lo - 1)
  BY <1>2, <1>3, FixFirstOk
<1> HIDE DEF Q
<1>5. Relisted(cache, Q)
  BY <1>1, <1>2, <1>4, SetListOk DEF TypeInv
<1>6. ListFilled(mainName, lo)
  BY <1>2, <1>4, <1>5 DEF ListFilled
<1> QED
  BY <1>1, <1>6 DEF lo

LEMMA FixEndTypes ==
  ASSUME TypeInv, Alive, FixEnd
  PROVE  TypeInv'
<1>1. /\ mainPc' = "idle" /\ locked' = FALSE /\ mainName' = NoName
      /\ UNCHANGED <<cache, fileChanged, worker, adder, mode, handler, write>>
  BY DEF FixEnd, MainAt, fileVars
<1>2. PICK i, R : i \in At(groups, mainName) /\ Relisted(i, R)
  BY FixEndList DEF ListFilled
<1>3. Grown
  BY <1>2, RelistedGrown DEF TypeInv
<1>4. MainOk'
  BY <1>1 DEF MainOk
<1> QED
  BY <1>1, <1>3, <1>4, OtherTypes DEF TypeInv, VarsOk

LEMMA MainNextTypes ==
  ASSUME TypeInv, Alive, MainNext
  PROVE  TypeInv'
<1>1. CASE MainWrite
  <2>1. /\ mainPc = "idle" /\ mainPc' = "write" /\ write' = "test"
        /\ UNCHANGED <<groups, cache, fileChanged, locked, worker, adder, mode, mainName, handler>>
    BY <1>1 DEF MainWrite, MainAt
  <2>2. Grown
    BY <2>1, SameGrown DEF TypeInv
  <2>3. MainOk'
    BY <2>1 DEF MainOk
  <2> QED
    BY <2>1, <2>2, <2>3, OtherTypes DEF TypeInv, VarsOk
<1>2. CASE Interrupt
  <2>1. /\ handler' = TRUE /\ write' = "test"
        /\ UNCHANGED <<groups, cache, fileChanged, locked, worker, adder, mode, mainPc, mainName>>
    BY <1>2 DEF Interrupt
  <2>2. Grown
    BY <2>1, SameGrown DEF TypeInv
  <2>3. MainOk'
    BY <2>1 DEF TypeInv, MainOk, Alive, Finished
  <2> QED
    BY <2>1, <2>2, <2>3, OtherTypes DEF TypeInv, VarsOk
<1> QED
  BY <1>1, <1>2, MainGroupTypes, SendmeKnownTypes, SendmeAddTypes, FixBeginTypes,
     FixDropFirstTypes, FixEndTypes DEF MainNext

\* While the file is written, sema is held, or the writing is over.
LEMMA WriteKeeps ==
  ASSUME TypeInv, WriteNext
  PROVE  /\ UNCHANGED <<groups, cache, fileChanged, worker, adder, mainVars, held>>
         /\ locked' \in BOOLEAN /\ write # "done"
         /\ write' \in {"none", "test", "remove", "rename", "open", "put", "done"}
         /\ locked => locked' \/ write' = "done"
<1>1. locked \in BOOLEAN /\ fileChanged \in BOOLEAN
  BY DEF TypeInv, VarsOk
<1>2. CASE WriteTest
  BY <1>1, <1>2 DEF WriteTest, WriteStep, RestUnchanged
<1>3. CASE WriteRemove
  BY <1>1, <1>3 DEF WriteRemove, WriteStep, RestUnchanged
<1>4. CASE WriteRename
  BY <1>1, <1>4 DEF WriteRename, WriteStep, RestUnchanged
<1>5. CASE WriteOpen
  BY <1>1, <1>5 DEF WriteOpen, WriteStep, RestUnchanged
<1>6. CASE WritePut
  BY <1>1, <1>6 DEF WritePut, WriteStep, RestUnchanged
<1> QED
  BY <1>2, <1>3, <1>4, <1>5, <1>6 DEF WriteNext

LEMMA WriteNextTypes ==
  ASSUME TypeInv, WriteNext
  PROVE  TypeInv'
<1>1. /\ UNCHANGED <<groups, cache, fileChanged, worker, adder, mode, mainPc, mainName, handler>>
      /\ locked' \in BOOLEAN /\ write # "done"
      /\ write' \in {"none", "test", "remove", "rename", "open", "put", "done"}
      /\ locked => locked' \/ write' = "done"
  BY WriteKeeps DEF mainVars
<1>2. Grown
  BY <1>1, SameGrown DEF TypeInv
<1>3. MainOk'
  BY <1>1 DEF TypeInv, MainOk
<1> QED
  BY <1>1, <1>2, <1>3, OtherTypes DEF TypeInv, VarsOk
-----------------------------------------------------------------------------
(* readFile()                                                                *)

\* g[i] holds the entries after i lines.
FileEntries(lines, g) ==
  g = [i \in 0 .. Len(lines) |-> IF i = 0 THEN <<>> ELSE ReadLine(g[i - 1], lines[i])]

LEMMA EntriesExist ==
  ASSUME NEW lines, Len(lines) \in Nat
  PROVE  \E g : FileEntries(lines, g)
<1> DEFINE Upto(k, g) == g = [i \in 0 .. k |->
                                IF i = 0 THEN <<>> ELSE ReadLine(g[i - 1], lines[i])]
           Bad == {k \in Nat : ~ \E g : Upto(k, g)}
<1>1. SUFFICES ASSUME Bad # {} PROVE FALSE
  BY DEF FileEntries
<1>2. PICK k \in Bad : \A m \in Bad : k <= m
  <2>1. Bad \subseteq Nat
    OBVIOUS
  <2> QED
    BY <1>1, <2>1, MinOk
<1>3. CASE k = 0
  <2> DEFINE g == [i \in 0 .. 0 |-> <<>>]
  <2>1. Upto(0, g)
    <3>1. 0 .. 0 = {0}
      OBVIOUS
    <3> QED
      BY <3>1
  <2> QED
    BY <1>2, <1>3, <2>1
<1>4. CASE k # 0
  <2>1. k \in Nat /\ k - 1 \in Nat /\ k - 1 \notin Bad
    BY <1>2, <1>4
  <2>2. PICK g : Upto(k - 1, g)
    BY <2>1
  <2> DEFINE h == [i \in 0 .. k |-> IF i = k THEN ReadLine(g[k - 1], lines[k]) ELSE g[i]]
  <2>3. ASSUME NEW i \in 0 .. k
        PROVE  h[i] = IF i = 0 THEN <<>> ELSE ReadLine(h[i - 1], lines[i])
    <3>1. CASE i = k
      <4>1. h[i] = ReadLine(g[i - 1], lines[i]) /\ i # 0
        BY <1>4, <3>1
      <4>2. i - 1 \in 0 .. k /\ i - 1 # k
        BY <2>1, <3>1
      <4>3. h[i - 1] = g[i - 1]
        BY <4>2
      <4> QED
        BY <4>1, <4>3
    <3>2. CASE i # k
      <4>1. i \in 0 .. k - 1
        BY <2>1, <3>2
      <4>2. h[i] = g[i]
        BY <3>2
      <4>3. g[i] = IF i = 0 THEN <<>> ELSE ReadLine(g[i - 1], lines[i])
        BY <2>2, <4>1
      <4>4. i # 0 => h[i - 1] = g[i - 1]
        <5>1. i # 0 => i - 1 \in 0 .. k /\ i - 1 # k
          BY <2>1, <4>1
        <5> QED
          BY <5>1
      <4> QED
        BY <4>2, <4>3, <4>4
    <3> QED
      BY <3>1, <3>2
  <2>4. Upto(k, h)
    BY <2>3
  <2> QED
    BY <1>2, <2>4
<1> QED
  BY <1>3, <1>4

\* readFile() goes through the lines one by one.
LEMMA ReadFileSteps ==
  ASSUME NEW lines, Len(lines) \in Nat
  PROVE  \E g : /\ ReadFile(lines) = g[Len(lines)]
                /\ g[0] = <<>>
                /\ \A i \in 1 .. Len(lines) : g[i] = ReadLine(g[i - 1], lines[i])
<1> DEFINE g == CHOOSE g : FileEntries(lines, g)
<1>1. FileEntries(lines, g)
  BY EntriesExist
<1>2. ReadFile(lines) = g[Len(lines)]
  BY Zenon DEF ReadFile, FileEntries
<1> HIDE DEF g
<1>3. g = [i \in 0 .. Len(lines) |-> IF i = 0 THEN <<>> ELSE ReadLine(g[i - 1], lines[i])]
  BY <1>1 DEF FileEntries
<1>4. g[0] = <<>>
  <2>1. 0 \in 0 .. Len(lines)
    OBVIOUS
  <2> QED
    BY <1>3, <2>1
<1>5. ASSUME NEW i \in 1 .. Len(lines) PROVE g[i] = ReadLine(g[i - 1], lines[i])
  <2>1. i \in 0 .. Len(lines) /\ i # 0
    OBVIOUS
  <2> QED
    BY <1>3, <2>1
<1> QED
  BY <1>2, <1>4, <1>5

\* The entry of a line.
EntryOf(l) == [name |-> l.name, subscribed |-> l.subscribed, readList |-> GetReadList(l.ranges)]

LEMMA EntryOfOk ==
  ASSUME NEW l \in LineType
  PROVE  /\ EntryOf(l) \in EntryType /\ EntryOf(l).name = l.name /\ l.name \in Name
         /\ NormalForm(EntryOf(l).readList)
<1>1. l.name \in Name /\ l.subscribed \in BOOLEAN /\ l.ranges \in Seq(LineToken)
      /\ Ascending(Readable(l.ranges))
  BY DEF LineType
<1>2. NormalForm(GetReadList(l.ranges))
  BY <1>1, GetReadListOk
<1>3. GetReadList(l.ranges) \in Seq(ArtRange)
  BY <1>2 DEF NormalForm
<1> QED
  BY <1>1, <1>2, <1>3 DEF EntryOf, EntryType

\* Well typed entries, none for the same group as another.
Distinct(gs)  == \A i, j \in DOMAIN gs : gs[i].name = gs[j].name => i = j
Names(gs)     == {gs[i].name : i \in DOMAIN gs}
Proper(gs)    == /\ gs \in Seq(EntryType) /\ Distinct(gs)
                 /\ \A i \in DOMAIN gs : NormalForm(gs[i].readList)

LEMMA ReadLineOk ==
  ASSUME NEW gs, Proper(gs), NEW l \in LineType
  PROVE  /\ Proper(ReadLine(gs, l))
         /\ \A n : n \in Names(ReadLine(gs, l)) <=> n \in Names(gs) \/ n = l.name
<1>1. CASE \E i \in DOMAIN gs : gs[i].name = l.name
  <2>1. ReadLine(gs, l) = gs
    BY <1>1 DEF ReadLine
  <2>2. l.name \in Names(gs)
    BY <1>1 DEF Names
  <2> QED
    BY <2>1, <2>2
<1>2. CASE ~\E i \in DOMAIN gs : gs[i].name = l.name
  <2> DEFINE e == EntryOf(l)
             m == Len(gs) + 1
             Q == Append(gs, e)
  <2>1. ReadLine(gs, l) = Q
    BY <1>2 DEF ReadLine, EntryOf
  <2>2. e \in EntryType /\ e.name = l.name /\ NormalForm(e.readList)
    BY EntryOfOk
  <2> HIDE DEF e
  <2>3. gs \in Seq(EntryType) /\ Len(gs) \in Nat /\ DOMAIN gs = 1 .. Len(gs)
    BY LenProperties DEF Proper
  <2>4. /\ Q \in Seq(EntryType) /\ Len(Q) = m
        /\ \A i \in 1 .. Len(gs) : Q[i] = gs[i]
        /\ Q[m] = e
    BY <2>2, <2>3, AppendProperties
  <2>5. \A i : i \in DOMAIN Q <=> i \in DOMAIN gs \/ i = m
    <3>1. DOMAIN Q = 1 .. m
      BY <2>4, LenProperties
    <3> QED
      BY <3>1, <2>3
  <2>6. \A i \in DOMAIN gs : Q[i] = gs[i]
    BY <2>3, <2>4
  <2>7. Q[m] = e
    BY <2>4
  <2> HIDE DEF m, Q
  <2>8. Distinct(Q)
    BY <1>2, <2>2, <2>5, <2>6, <2>7 DEF Proper, Distinct
  <2>9. \A i \in DOMAIN Q : NormalForm(Q[i].readList)
    BY <2>2, <2>5, <2>6, <2>7 DEF Proper
  <2>10. ASSUME NEW n PROVE n \in Names(Q) <=> n \in Names(gs) \/ n = l.name
    <3>1. \A q : n \in Names(q) <=> \E i \in DOMAIN q : q[i].name = n
      BY DEF Names
    <3> QED
      BY <3>1, <2>2, <2>5, <2>6, <2>7
  <2> QED
    BY <2>1, <2>4, <2>8, <2>9, <2>10 DEF Proper
<1> QED
  BY <1>1, <1>2

\* What is read of a file is well typed and has one entry for each group named in it.
LEMMA ReadFileOk ==
  ASSUME NEW lines \in Seq(LineType)
  PROVE  /\ Proper(ReadFile(lines))
         /\ \A n : n \in Names(ReadFile(lines)) => n \in Names(lines)
<1>1. Len(lines) \in Nat /\ DOMAIN lines = 1 .. Len(lines)
  BY LenProperties
<1>2. PICK g : /\ ReadFile(lines) = g[Len(lines)]
               /\ g[0] = <<>>
               /\ \A i \in 1 .. Len(lines) : g[i] = ReadLine(g[i - 1], lines[i])
  BY <1>1, ReadFileSteps
<1> DEFINE Good(i) == Proper(g[i]) /\ \A n : n \in Names(g[i]) => n \in Names(lines)
           Bad == {i \in 0 .. Len(lines) : ~Good(i)}
<1>3. Bad = {}
  <2>1. SUFFICES ASSUME Bad # {} PROVE FALSE
    OBVIOUS
  <2>2. PICK i \in Bad : \A m \in Bad : i <= m
    <3>1. Bad \subseteq Nat
      BY <1>1
    <3> HIDE DEF Bad
    <3> QED
      BY <2>1, <3>1, MinOk
  <2>3. i \in Nat /\ i <= Len(lines) /\ ~Good(i)
    BY <2>2, <1>1
  <2>4. CASE i = 0
    <3>1. Good(0)
      BY <1>2, EmptySeq DEF Proper, Distinct, Names
    <3> QED
      BY <2>3, <2>4, <3>1
  <2>5. CASE i # 0
    <3> DEFINE p == i - 1
    <3>1. p \in 0 .. Len(lines) /\ ~(i <= p) /\ i \in DOMAIN lines /\ i \in 1 .. Len(lines)
      BY <2>3, <2>5, <1>1
    <3>2. g[i] = ReadLine(g[p], lines[i])
      BY <3>1, <1>2
    <3> HIDE DEF p
    <3>3. Good(p)
      BY <3>1, <2>2
    <3>4. lines[i] \in LineType /\ lines[i].name \in Names(lines)
      BY <3>1, <1>1, ElementOfSeq DEF Names
    <3>5. Proper(g[i]) /\ \A n : n \in Names(g[i]) <=> n \in Names(g[p]) \/ n = lines[i].name
      BY <3>2, <3>3, <3>4, ReadLineOk
    <3>6. Good(i)
      BY <3>3, <3>4, <3>5
    <3> QED
      BY <2>3, <3>6
  <2> QED
    BY <2>4, <2>5
<1>4. Len(lines) \in 0 .. Len(lines)
  BY <1>1
<1>5. Good(Len(lines))
  BY <1>3, <1>4
<1> QED
  BY <1>2, <1>5
-----------------------------------------------------------------------------
LEMMA InitFile ==
  ASSUME Init
  PROVE  \E f \in OldNewsrc : /\ cur = File(f) /\ cur.lines = f /\ groups = ReadFile(f)
                              /\ f \in Seq(LineType) /\ Proper(groups)
<1>1. PICK f \in OldNewsrc : cur = File(f)
  BY DEF Init
<1>2. cur.lines = f
  BY <1>1 DEF File
<1>3. groups = ReadFile(f)
  BY <1>2 DEF Init
<1>4. f \in Seq(LineType)
  BY NewsrcOK
<1> QED
  BY <1>1, <1>2, <1>3, <1>4, ReadFileOk

LEMMA InitTypes == Init => TypeInv
<1> SUFFICES ASSUME Init PROVE TypeInv
  OBVIOUS
<1>1. GroupsOk
  BY InitFile DEF Proper, GroupsOk, ListsNormal
<1>2. worker \in [Worker -> CallType] /\ \A w \in Worker : worker[w].pc = "idle"
  BY IdleOk DEF Init
<1>3. cache \in 0 .. Len(groups)
  BY <1>1, GroupsDomain DEF Init
<1>4. VarsOk
  BY <1>2, <1>3 DEF Init, VarsOk
<1>5. CallOk /\ MainOk
  BY <1>2 DEF Init, CallOk, MainOk
<1> QED
  BY <1>1, <1>4, <1>5 DEF TypeInv

LEMMA StepTypes == TypeInv /\ [Next]_vars => TypeInv'
<1> SUFFICES ASSUME TypeInv, [Next]_vars PROVE TypeInv'
  OBVIOUS
<1>1. CASE UNCHANGED vars
  BY <1>1 DEF vars, mainVars, fileVars, TypeInv, GroupsOk, ListsNormal, VarsOk, CallOk, MainOk
<1>2. CASE WriteNext
  BY <1>2, WriteNextTypes
<1>3. ASSUME NEW w \in Worker, Alive, WorkerNext(w) PROVE TypeInv'
  BY <1>3, WorkerNextTypes
<1>4. ASSUME NEW name \in NewNames, Alive, NewGroupMissing(name) PROVE TypeInv'
  BY <1>4, NewGroupMissingTypes
<1>5. CASE Alive /\ NewGroupAdd
  BY <1>5, NewGroupAddTypes
<1>6. CASE Alive /\ MainNext
  BY <1>6, MainNextTypes
<1> QED
  BY <1>1, <1>2, <1>3, <1>4, <1>5, <1>6 DEF Next

\* The types, with what the proofs need beyond TypeOK: a worker inside artMarkRead() has an
\* entry of its group, and the entry the main thread fixes stays the one in the cache.
THEOREM TypesInvariant == Spec => []TypeInv
  BY InitTypes, StepTypes, PTL DEF Spec

\* In every state, the handler's view in the middle of a fix included, the lists are in
\* normal form, and an entry found by a worker is one of its group.
THEOREM TypesAlways == Spec => []TypeOK
<1>1. TypeInv => TypeOK
  <2> SUFFICES ASSUME TypeInv PROVE TypeOK
    OBVIOUS
  <2>1. \A w \in Worker : worker[w].pc \in WorkerPcs
    BY CallFields
  <2>2. \A w \in Worker : worker[w].pc \in {"check", "mark"} =>
          worker[w].entry \in Entries(worker[w].name)
    BY EntriesAt DEF TypeInv, CallOk
  <2> QED
    BY <2>1, <2>2 DEF TypeInv, GroupsOk, VarsOk, TypeOK
<1> QED
  BY <1>1, TypesInvariant, PTL
-----------------------------------------------------------------------------
(* No group twice, if no new group is also named in the file COMMANDS.       *)

\* What a step of a worker does to the lists; while one changes, sema is free.
WorkerEffect ==
  \/ UNCHANGED groups
  \/ /\ ~locked
     /\ \/ \E name \in Name, n \in Marks : ListMarked(name, n)
        \/ \E name \in Name : ListFixed(name, GroupLo[name], GroupHi[name])
        \/ \E name \in Name, keep \in CatchupKeep :
             ListFixed(name, CatchupLo(1, GroupHi[name], keep), GroupHi[name])

LEMMA WorkerNextEffect ==
  ASSUME TypeInv, NEW w \in Worker, WorkerNext(w)
  PROVE  WorkerKeeps /\ WorkerEffect
<1>1. ASSUME NEW name \in Name, NEW n \in Marks, MarkCall(w, name, n)
      PROVE  WorkerKeeps /\ WorkerEffect
  BY <1>1 DEF MarkCall, WorkerKeeps, WorkerEffect
<1>2. CASE MarkCheck(w)
  BY <1>2 DEF MarkCheck, WorkerKeeps, WorkerEffect
<1>3. CASE MarkStore(w)
  <2>1. worker[w].num \in Marks /\ ListMarked(worker[w].name, worker[w].num)
    BY <1>3, MarkStoreList
  <2>2. worker[w].name \in Name
    <3>1. PICK i \in DOMAIN groups : groups[i].name = worker[w].name
      BY <2>1 DEF ListMarked, At
    <3> QED
      BY <3>1, GroupsDomain DEF TypeInv
  <2>3. ~locked /\ WorkerKeeps
    BY <1>3 DEF MarkStore, WorkerKeeps
  <2> QED
    BY <2>1, <2>2, <2>3 DEF WorkerEffect
<1>4. ASSUME NEW name \in Name, WorkerFix(w, name) PROVE WorkerKeeps /\ WorkerEffect
  <2>1. ~locked /\ WorkerKeeps
    BY <1>4 DEF WorkerFix, LookUp, WorkerKeeps
  <2> QED
    BY <2>1, <1>4, WorkerFixList DEF WorkerEffect
<1>5. ASSUME NEW name \in Name, NEW keep \in CatchupKeep, WorkerCatchup(w, name, keep)
      PROVE  WorkerKeeps /\ WorkerEffect
  <2>1. ~locked /\ WorkerKeeps
    BY <1>5 DEF WorkerCatchup, LookUp, WorkerKeeps
  <2> QED
    BY <2>1, <1>5, WorkerCatchupList DEF WorkerEffect
<1>6. CASE CatchupChanged(w)
  BY <1>6 DEF CatchupChanged, WorkerKeeps, WorkerEffect
<1> QED
  BY <1>1, <1>2, <1>3, <1>4, <1>5, <1>6 DEF WorkerNext

\* The groups that may be entered by two threads have no entry yet while they are.
NameInv ==
  /\ Distinct(groups)
  /\ adder # NoName => adder \in NewNames /\ At(groups, adder) = {}
  /\ mainPc = "add" => mainName \in Sendme /\ At(groups, mainName) = {}

NamesKept == /\ Distinct(groups) => Distinct(groups')
             /\ \A n : At(groups', n) = At(groups, n)

LEMMA SameKept ==
  ASSUME UNCHANGED groups
  PROVE  NamesKept
  BY DEF NamesKept

LEMMA RelistedKept ==
  ASSUME NEW i, NEW R, Relisted(i, R)
  PROVE  NamesKept
  BY DEF Relisted, NamesKept, Distinct

LEMMA WorkerKept ==
  ASSUME WorkerEffect
  PROVE  NamesKept
<1>1. CASE UNCHANGED groups
  BY <1>1, SameKept
<1>2. CASE ~UNCHANGED groups
  <2>1. PICK i, R : Relisted(i, R)
    BY <1>2 DEF WorkerEffect, ListMarked, ListFixed
  <2> QED
    BY <2>1, RelistedKept
<1> QED
  BY <1>1, <1>2

\* An entry for a group that had none.
LEMMA EnteredDistinct ==
  ASSUME NEW name, Entered(name), At(groups, name) = {}, Distinct(groups)
  PROVE  /\ Distinct(groups')
         /\ \A n : n # name => At(groups', n) = At(groups, n)
<1> DEFINE l == Len(groups) + 1
<1>1. /\ DOMAIN groups' = DOMAIN groups \cup {l} /\ groups'[l].name = name
      /\ \A j \in DOMAIN groups : groups'[j] = groups[j]
      /\ \A n : At(groups', n) = IF n = name THEN At(groups, n) \cup {l} ELSE At(groups, n)
  BY DEF Entered
<1> HIDE DEF l
<1>2. \A j \in DOMAIN groups : groups[j].name # name
  BY DEF At
<1> QED
  BY <1>1, <1>2 DEF Distinct

LEMMA InitNames == Init => NameInv
<1> SUFFICES ASSUME Init PROVE NameInv
  OBVIOUS
<1>1. Distinct(groups)
  BY InitFile DEF Proper
<1> QED
  BY <1>1 DEF Init, NameInv

LEMMA StepNames ==
  ASSUME NewNames \cap Sendme = {}, TypeInv, NameInv, [Next]_vars
  PROVE  NameInv'
<1>1. ASSUME NamesKept, UNCHANGED <<adder, mainName>>, mainPc' = "add" => mainPc = "add"
      PROVE  NameInv'
  BY <1>1 DEF NameInv, NamesKept
<1>2. CASE UNCHANGED vars
  BY <1>1, <1>2, SameKept DEF vars, mainVars
<1>3. CASE WriteNext
  BY <1>1, <1>3, WriteKeeps, SameKept DEF mainVars
<1>4. ASSUME NEW w \in Worker, WorkerNext(w) PROVE NameInv'
  BY <1>1, <1>4, WorkerNextEffect, WorkerKept DEF WorkerKeeps, mainVars
<1>5. ASSUME NEW name \in NewNames, NewGroupMissing(name) PROVE NameInv'
  <2>1. GetGroupP(name) = 0 /\ adder' = name /\ UNCHANGED <<groups, mainPc, mainName>>
    BY <1>5 DEF NewGroupMissing, mainVars
  <2>2. At(groups, name) = {}
    BY <2>1, GetGroupPOk DEF TypeInv
  <2> QED
    BY <2>1, <2>2 DEF NameInv
<1>6. CASE NewGroupAdd
  <2>1. adder # NoName /\ adder' = NoName /\ UNCHANGED <<mainPc, mainName>>
    BY <1>6 DEF NewGroupAdd, mainVars
  <2>2. Entered(adder) /\ adder \in NewNames /\ At(groups, adder) = {}
    BY <1>6, <2>1, NewGroupAddEntered DEF NameInv
  <2>3. Distinct(groups') /\ \A n : n # adder => At(groups', n) = At(groups, n)
    BY <2>2, EnteredDistinct DEF NameInv
  <2> QED
    BY <2>1, <2>2, <2>3 DEF NameInv
<1>7. ASSUME NEW name \in Name, MainGroup(name) PROVE NameInv'
  <2>1. mainPc' = "fix" /\ UNCHANGED <<groups, adder>>
    BY <1>7 DEF MainGroup, MainAt
  <2> QED
    BY <2>1 DEF NameInv
<1>8. ASSUME NEW name \in Sendme, SendmeKnown(name) PROVE NameInv'
  <2>1. /\ mainPc' = (IF GetGroupP(name) = 0 THEN "add" ELSE "fix") /\ mainName' = name
        /\ UNCHANGED <<groups, adder>>
    BY <1>8 DEF SendmeKnown, MainAt
  <2>2. GetGroupP(name) = 0 => At(groups, name) = {}
    BY GetGroupPOk DEF TypeInv
  <2> QED
    BY <2>1, <2>2 DEF NameInv
<1>9. CASE SendmeAdd
  <2>1. mainPc = "add" /\ mainPc' = "fix" /\ UNCHANGED adder
    BY <1>9 DEF SendmeAdd, MainAt
  <2>2. Entered(mainName) /\ mainName \in Sendme /\ At(groups, mainName) = {}
    BY <1>9, <2>1, SendmeAddEntered DEF NameInv
  <2>3. Distinct(groups') /\ \A n : n # mainName => At(groups', n) = At(groups, n)
    BY <2>2, EnteredDistinct DEF NameInv
  <2> QED
    BY <2>1, <2>2, <2>3 DEF NameInv
<1>10. CASE FixBegin
  <2>1. mainPc' = "fixDrop" /\ UNCHANGED <<adder, mainName>>
    BY <1>10 DEF FixBegin, MainAt
  <2>2. NamesKept
    BY <1>10, FixBeginList, RelistedKept DEF ListReset
  <2> QED
    BY <1>1, <2>1, <2>2
<1>11. CASE Alive /\ FixDropFirst
  <2>1. mainPc' = "fixDrop" /\ UNCHANGED <<adder, mainName>>
    BY <1>11 DEF FixDropFirst, MainAt
  <2>2. NamesKept
    BY <1>11, FixDropFirstList, RelistedKept DEF ListDropped
  <2> QED
    BY <1>1, <2>1, <2>2
<1>12. CASE Alive /\ FixEnd
  <2>1. mainPc' = "idle" /\ UNCHANGED adder
    BY <1>12 DEF FixEnd, MainAt
  <2>2. NamesKept
    BY <1>12, FixEndList, RelistedKept DEF ListFilled
  <2> QED
    BY <2>1, <2>2 DEF NameInv, NamesKept
<1>13. CASE MainWrite
  <2>1. mainPc' = "write" /\ UNCHANGED <<groups, adder, mainName>>
    BY <1>13 DEF MainWrite, MainAt
  <2> QED
    BY <1>1, <2>1, SameKept
<1>14. CASE Interrupt
  BY <1>1, <1>14, SameKept DEF Interrupt
<1> QED
  BY <1>2, <1>3, <1>4, <1>5, <1>6, <1>7, <1>8, <1>9, <1>10, <1>11, <1>12, <1>13, <1>14
     DEF Next, MainNext

\* No group is entered twice if none of those the server reports as new is also named in
\* the file COMMANDS.
THEOREM NeverTwice ==
  ASSUME NewNames \cap Sendme = {}
  PROVE  Spec => [](NameInv /\ NoGroupTwice)
<1>1. NameInv => NoGroupTwice
  BY DEF NameInv, Distinct, NoGroupTwice
<1>2. TypeInv /\ NameInv /\ [Next]_vars => NameInv'
  BY StepNames
<1> QED
  BY <1>1, <1>2, InitNames, TypesInvariant, PTL DEF Spec
-----------------------------------------------------------------------------
(* Newsrc implements ReadSets.                                               *)

\* ReadSet, in terms of the variables it depends on.
ReadIn(gs, pc, main, name) ==
  IF At(gs, name) = {} THEN {}
  ELSE LET R == gs[Max(At(gs, name))].readList
       IN Elems(IF pc = "fixDrop" /\ main = name
                THEN FixFirst(FixDrop(R, GroupLo[name]), GroupLo[name]) ELSE R)
ReadFn(gs, pc, main) == [name \in Name |-> ReadIn(gs, pc, main, name)]

\* What a fix under way will add to the list of a group.
Pending(pc, main, name) ==
  IF pc = "fixDrop" /\ main = name THEN 1 .. GroupLo[name] - 1 ELSE {}

LEMMA ReadFnOk ==
  /\ \A name : ReadSet(name) = ReadIn(groups, mainPc, mainName, name)
  /\ \A name : ReadSet(name)' = ReadIn(groups', mainPc', mainName', name)
<1>1. ASSUME NEW name PROVE ReadSet(name) = ReadIn(groups, mainPc, mainName, name)
  BY DEF ReadSet, ReadIn, Entries, At
<1>2. ASSUME NEW name PROVE ReadSet(name)' = ReadIn(groups', mainPc', mainName', name)
  BY DEF ReadSet, ReadIn, Entries, At
<1> QED
  BY <1>1, <1>2

LEMMA ProperDomain ==
  ASSUME NEW gs, Proper(gs)
  PROVE  /\ Len(gs) \in Nat /\ DOMAIN gs = 1 .. Len(gs)
         /\ \A i \in DOMAIN gs : /\ gs[i] \in EntryType /\ gs[i].name \in Name
                                 /\ NormalForm(gs[i].readList)
<1>1. Len(gs) \in Nat /\ DOMAIN gs = 1 .. Len(gs) /\ \A i \in DOMAIN gs : gs[i] \in EntryType
  BY LenProperties, ElementOfSeq DEF Proper
<1> QED
  BY <1>1 DEF Proper, EntryType

\* The set of a group is the one of its entry and what is pending.
LEMMA ReadInOk ==
  ASSUME NEW gs, Proper(gs), NEW name \in Name, NEW i \in At(gs, name), NEW pc, NEW main
  PROVE  ReadIn(gs, pc, main, name) = Elems(gs[i].readList) \cup Pending(pc, main, name)
<1> DEFINE S == At(gs, name)
           R == gs[i].readList
           lo == GroupLo[name]
<1>1. Len(gs) \in Nat /\ S \subseteq 1 .. Len(gs) /\ S # {}
  BY ProperDomain DEF At
<1>2. Max(S) \in S
  <2> HIDE DEF S
  <2> QED
    BY <1>1, MaxOk
<1>3. Max(S) = i
  BY <1>2 DEF At, Proper, Distinct
<1>4. NormalForm(R) /\ lo \in Int
  BY ProperDomain, NewsrcOK DEF At
<1>5. ReadIn(gs, pc, main, name) =
        Elems(IF pc = "fixDrop" /\ main = name THEN FixFirst(FixDrop(R, lo), lo) ELSE R)
  BY <1>1, <1>3 DEF ReadIn
<1>6. Pending(pc, main, name) = IF pc = "fixDrop" /\ main = name THEN 1 .. lo - 1 ELSE {}
  BY DEF Pending
<1> HIDE DEF R, lo
<1>7. Elems(FixFirst(FixDrop(R, lo), lo)) = Elems(R) \cup (1 .. lo - 1)
  BY <1>4, FixRestOk
<1>8. ReadIn(gs, pc, main, name) = Elems(R) \cup Pending(pc, main, name)
  BY <1>5, <1>6, <1>7
<1> QED
  BY <1>8 DEF R

\* The sets of the other groups do not change.
Others(name) ==
  \A n \in Name : n # name => ReadIn(groups', mainPc', mainName', n) = ReadIn(groups, mainPc, mainName, n)

\* A group's list changes, and no other group has a fix under way.
LEMMA RelistedRead ==
  ASSUME TypeInv, NameInv, NEW name \in Name, NEW i \in At(groups, name), NEW R, Relisted(i, R),
         \A n : n # name => Pending(mainPc', mainName', n) = Pending(mainPc, mainName, n)
  PROVE  /\ Others(name)
         /\ ReadIn(groups, mainPc, mainName, name)
              = Elems(groups[i].readList) \cup Pending(mainPc, mainName, name)
         /\ ReadIn(groups', mainPc', mainName', name) = Elems(R) \cup Pending(mainPc', mainName', name)
<1>1. /\ groups'[i].readList = R
      /\ \A j \in DOMAIN groups : j # i => groups'[j] = groups[j]
      /\ \A n : At(groups', n) = At(groups, n)
  BY DEF Relisted
<1>2. Proper(groups)
  BY DEF TypeInv, NameInv, GroupsOk, ListsNormal, Proper
<1>3. Proper(groups')
  <2>1. Distinct(groups')
    BY RelistedKept DEF NameInv, NamesKept
  <2> QED
    BY <2>1 DEF Relisted, GroupsOk, ListsNormal, Proper
<1>4. Others(name)
  <2> SUFFICES ASSUME NEW n \in Name, n # name
               PROVE  ReadIn(groups', mainPc', mainName', n) = ReadIn(groups, mainPc, mainName, n)
    BY DEF Others
  <2>1. CASE At(groups, n) = {}
    BY <2>1, <1>1 DEF ReadIn
  <2>2. CASE At(groups, n) # {}
    <3>1. PICK j \in At(groups, n) : TRUE
      BY <2>2
    <3>2. j # i /\ j \in DOMAIN groups /\ j \in At(groups', n)
      BY <3>1, <1>1 DEF At
    <3>3. groups'[j] = groups[j]
      BY <3>2, <1>1
    <3>4. ReadIn(groups, mainPc, mainName, n)
            = Elems(groups[j].readList) \cup Pending(mainPc, mainName, n)
      BY <3>1, <1>2, ReadInOk
    <3>5. ReadIn(groups', mainPc', mainName', n)
            = Elems(groups'[j].readList) \cup Pending(mainPc', mainName', n)
      BY <3>2, <1>3, ReadInOk
    <3> QED
      BY <3>3, <3>4, <3>5
  <2> QED
    BY <2>1, <2>2
<1>5. ReadIn(groups, mainPc, mainName, name)
        = Elems(groups[i].readList) \cup Pending(mainPc, mainName, name)
  BY <1>2, ReadInOk
<1>6. ReadIn(groups', mainPc', mainName', name)
        = Elems(groups'[i].readList) \cup Pending(mainPc', mainName', name)
  <2>1. i \in At(groups', name)
    BY <1>1
  <2> QED
    BY <2>1, <1>3, ReadInOk
<1> QED
  BY <1>1, <1>4, <1>5, <1>6

\* One group's set becomes S.
Becomes(name, S) == ReadFn(groups', mainPc', mainName')
                      = [ReadFn(groups, mainPc, mainName) EXCEPT ![name] = S]

LEMMA BecomesOk ==
  ASSUME NEW name \in Name, NEW S, Others(name), ReadIn(groups', mainPc', mainName', name) = S
  PROVE  Becomes(name, S)
<1> DEFINE F == ReadFn(groups, mainPc, mainName)
           G == ReadFn(groups', mainPc', mainName')
<1>1. \A n \in Name : F[n] = ReadIn(groups, mainPc, mainName, n)
  BY DEF ReadFn
<1>2. \A n \in Name : G[n] = ReadIn(groups', mainPc', mainName', n)
  BY DEF ReadFn
<1>3. F = [n \in Name |-> F[n]] /\ G = [n \in Name |-> G[n]]
  BY DEF ReadFn
<1> HIDE DEF F, G
<1>4. \A n \in Name : G[n] = IF n = name THEN S ELSE F[n]
  BY <1>1, <1>2 DEF Others
<1>5. G = [F EXCEPT ![name] = S]
  BY <1>3, <1>4
<1> QED
  BY <1>5 DEF Becomes, F, G

\* The steps of ReadSets on the sets.
AbstractStep ==
  \/ \E g \in Name, n \in Marks : Becomes(g, ReadFn(groups, mainPc, mainName)[g] \cup {n})
  \/ \E g \in Name :
       Becomes(g, Sets!Fixed(ReadFn(groups, mainPc, mainName)[g], GroupLo[g], GroupHi[g]))
  \/ \E g \in Name, keep \in CatchupKeep :
       Becomes(g, Sets!Fixed(ReadFn(groups, mainPc, mainName)[g],
                             IF GroupHi[g] - keep + 1 < 1 THEN 1 ELSE GroupHi[g] - keep + 1,
                             GroupHi[g]))
  \/ ReadFn(groups', mainPc', mainName') = ReadFn(groups, mainPc, mainName)

LEMMA FixedIsReset ==
  \A S, lo, hi : Sets!Fixed(S, lo, hi) = Reset(S, hi) \cup (1 .. lo - 1)
  BY DEF Sets!Fixed, Reset

\* A fix in one step, while none is under way.
LEMMA ListFixedRead ==
  ASSUME TypeInv, NameInv, NEW name \in Name, NEW lo \in Int, NEW hi \in Int,
         ListFixed(name, lo, hi), mainPc # "fixDrop", mainPc' = mainPc
  PROVE  Becomes(name, Sets!Fixed(ReadFn(groups, mainPc, mainName)[name], lo, hi))
<1>1. PICK i, R :
        /\ i \in At(groups, name)
        /\ Relisted(i, R)
        /\ Elems(R) = Reset(Elems(groups[i].readList), hi) \cup (1 .. lo - 1)
  BY DEF ListFixed
<1>2. \A n : Pending(mainPc', mainName', n) = {} /\ Pending(mainPc, mainName, n) = {}
  BY DEF Pending
<1>3. /\ Others(name)
      /\ ReadIn(groups, mainPc, mainName, name) = Elems(groups[i].readList)
      /\ ReadIn(groups', mainPc', mainName', name) = Elems(R)
  BY <1>1, <1>2, RelistedRead
<1>4. ReadFn(groups, mainPc, mainName)[name] = Elems(groups[i].readList)
  BY <1>3 DEF ReadFn
<1>5. Becomes(name, Elems(R))
  BY <1>3, BecomesOk
<1> QED
  BY <1>1, <1>4, <1>5, FixedIsReset

LEMMA WorkerStep ==
  ASSUME TypeInv, NameInv, Alive, NEW w \in Worker, WorkerNext(w)
  PROVE  AbstractStep
<1>1. WorkerEffect /\ mainPc' = mainPc /\ mainName' = mainName
  BY WorkerNextEffect DEF WorkerKeeps, mainVars
<1>2. CASE UNCHANGED groups
  BY <1>1, <1>2 DEF AbstractStep
<1>3. CASE ~UNCHANGED groups
  <2>1. mainPc # "fixDrop"
    BY <1>1, <1>3 DEF WorkerEffect, TypeInv, MainOk, Alive, Finished
  <2>2. ASSUME NEW name \in Name, NEW n \in Marks, ListMarked(name, n) PROVE AbstractStep
    <3>1. PICK i, R :
            i \in At(groups, name) /\ Relisted(i, R) /\ Elems(R) = Elems(groups[i].readList) \cup {n}
      BY <2>2 DEF ListMarked
    <3>2. \A m : Pending(mainPc', mainName', m) = {} /\ Pending(mainPc, mainName, m) = {}
      BY <1>1, <2>1 DEF Pending
    <3>3. /\ Others(name)
          /\ ReadIn(groups, mainPc, mainName, name) = Elems(groups[i].readList)
          /\ ReadIn(groups', mainPc', mainName', name) = Elems(R)
      BY <3>1, <3>2, RelistedRead
    <3>4. ReadFn(groups, mainPc, mainName)[name] = Elems(groups[i].readList)
      BY <3>3 DEF ReadFn
    <3>5. Becomes(name, Elems(R))
      BY <3>3, BecomesOk
    <3> QED
      BY <3>1, <3>4, <3>5 DEF AbstractStep
  <2>3. ASSUME NEW name \in Name, ListFixed(name, GroupLo[name], GroupHi[name])
        PROVE  AbstractStep
    <3>1. GroupLo[name] \in Int /\ GroupHi[name] \in Int
      BY NewsrcOK
    <3>2. Becomes(name, Sets!Fixed(ReadFn(groups, mainPc, mainName)[name], GroupLo[name],
                                   GroupHi[name]))
      BY <3>1, <2>1, <2>3, <1>1, ListFixedRead
    <3> QED
      BY <3>2 DEF AbstractStep
  <2>4. ASSUME NEW name \in Name, NEW keep \in CatchupKeep,
               ListFixed(name, CatchupLo(1, GroupHi[name], keep), GroupHi[name])
        PROVE  AbstractStep
    <3> DEFINE hi == GroupHi[name]
               lo == CatchupLo(1, hi, keep)
               lim == IF hi - keep + 1 < 1 THEN 1 ELSE hi - keep + 1
    <3>1. 1 \in Int /\ hi \in Int /\ keep \in Int
      BY NewsrcOK
    <3>2. lo \in {hi - keep + 1, 1, 1} /\ lo >= hi - keep + 1 /\ lo >= 1
      BY <3>1, CatchupLoOk
    <3>3. ListFixed(name, lo, hi)
      BY <2>4
    <3> HIDE DEF hi, lo
    <3>4. lo = lim /\ lo \in Int
      BY <3>1, <3>2
    <3> HIDE DEF lim
    <3>5. Becomes(name, Sets!Fixed(ReadFn(groups, mainPc, mainName)[name], lim, hi))
      BY <3>1, <3>3, <3>4, <2>1, <1>1, ListFixedRead
    <3> QED
      BY <3>5 DEF AbstractStep, lim, hi
  <2> QED
    BY <1>1, <1>3, <2>2, <2>3, <2>4 DEF WorkerEffect
<1> QED
  BY <1>2, <1>3

LEMMA SameRead ==
  ASSUME UNCHANGED groups, mainPc' = "fixDrop" <=> mainPc = "fixDrop",
         mainPc = "fixDrop" => mainName' = mainName
  PROVE  AbstractStep
<1>1. \A n : ReadIn(groups', mainPc', mainName', n) = ReadIn(groups, mainPc, mainName, n)
  BY DEF ReadIn
<1> QED
  BY <1>1 DEF AbstractStep, ReadFn

LEMMA EnteredRead ==
  ASSUME TypeInv, NameInv, NEW name \in Name, Entered(name), At(groups, name) = {},
         mainPc # "fixDrop", mainPc' # "fixDrop"
  PROVE  AbstractStep
<1>1. /\ DOMAIN groups' = DOMAIN groups \cup {Len(groups) + 1}
      /\ groups'[Len(groups) + 1].readList = <<>>
      /\ \A j \in DOMAIN groups : groups'[j] = groups[j]
      /\ \A n : At(groups', n) = IF n = name THEN At(groups, n) \cup {Len(groups) + 1} ELSE At(groups, n)
  BY DEF Entered
<1>2. Proper(groups)
  BY DEF TypeInv, NameInv, GroupsOk, ListsNormal, Proper
<1>3. Proper(groups')
  <2>1. Distinct(groups')
    BY EnteredDistinct DEF NameInv
  <2> QED
    BY <2>1 DEF Entered, GroupsOk, ListsNormal, Proper
<1>4. \A n : Pending(mainPc', mainName', n) = {} /\ Pending(mainPc, mainName, n) = {}
  BY DEF Pending
<1>5. ASSUME NEW n \in Name
      PROVE  ReadIn(groups', mainPc', mainName', n) = ReadIn(groups, mainPc, mainName, n)
  <2>1. CASE n = name
    <3>1. ReadIn(groups, mainPc, mainName, n) = {}
      BY <2>1 DEF ReadIn
    <3> DEFINE l == Len(groups) + 1
    <3>2. l \in At(groups', n) /\ groups'[l].readList = <<>>
      BY <2>1, <1>1
    <3> HIDE DEF l
    <3>3. ReadIn(groups', mainPc', mainName', n)
            = Elems(groups'[l].readList) \cup Pending(mainPc', mainName', n)
      BY <3>2, <1>3, ReadInOk
    <3> QED
      BY <3>1, <3>2, <3>3, <1>4, EmptyOk
  <2>2. CASE n # name /\ At(groups, n) = {}
    BY <2>2, <1>1 DEF ReadIn
  <2>3. CASE n # name /\ At(groups, n) # {}
    <3>1. PICK j \in At(groups, n) : TRUE
      BY <2>3
    <3>2. j \in At(groups', n) /\ groups'[j] = groups[j]
      BY <3>1, <2>3, <1>1 DEF At
    <3>3. ReadIn(groups, mainPc, mainName, n)
            = Elems(groups[j].readList) \cup Pending(mainPc, mainName, n)
      BY <3>1, <1>2, ReadInOk
    <3>4. ReadIn(groups', mainPc', mainName', n)
            = Elems(groups'[j].readList) \cup Pending(mainPc', mainName', n)
      BY <3>2, <1>3, ReadInOk
    <3> QED
      BY <3>2, <3>3, <3>4, <1>4
  <2> QED
    BY <2>1, <2>2, <2>3
<1> QED
  BY <1>5 DEF AbstractStep, ReadFn

\* The fix of the main thread takes place, on the sets, when it begins.
LEMMA FixBeginStep ==
  ASSUME TypeInv, NameInv, FixBegin
  PROVE  AbstractStep
<1> DEFINE lo == GroupLo[mainName]
           hi == GroupHi[mainName]
<1>1. /\ mainPc = "fix" /\ mainPc' = "fixDrop" /\ mainName' = mainName
      /\ mainName \in Name /\ ListReset(mainName, hi)
  BY FixBeginList DEF FixBegin, MainAt
<1>2. PICK i, R :
        i \in At(groups, mainName) /\ Relisted(i, R) /\ Elems(R) = Reset(Elems(groups[i].readList), hi)
  BY <1>1 DEF ListReset
<1>3. \A n : n # mainName => Pending(mainPc', mainName', n) = Pending(mainPc, mainName, n)
  BY <1>1 DEF Pending
<1>4. Pending(mainPc', mainName', mainName) = 1 .. lo - 1 /\ Pending(mainPc, mainName, mainName) = {}
  BY <1>1 DEF Pending
<1>5. /\ Others(mainName)
      /\ ReadIn(groups, mainPc, mainName, mainName) = Elems(groups[i].readList)
      /\ ReadIn(groups', mainPc', mainName', mainName) = Elems(R) \cup (1 .. lo - 1)
  BY <1>1, <1>2, <1>3, <1>4, RelistedRead
<1>6. ReadFn(groups, mainPc, mainName)[mainName] = Elems(groups[i].readList)
  BY <1>1, <1>5 DEF ReadFn
<1>7. Becomes(mainName, Elems(R) \cup (1 .. lo - 1))
  BY <1>1, <1>5, BecomesOk
<1>8. Elems(R) \cup (1 .. lo - 1)
        = Sets!Fixed(ReadFn(groups, mainPc, mainName)[mainName], lo, hi)
  BY <1>2, <1>6, FixedIsReset
<1> QED
  BY <1>1, <1>7, <1>8 DEF AbstractStep

\* The rest of it changes nothing on the sets.
LEMMA FixRestStep ==
  ASSUME TypeInv, NameInv, Alive, FixDropFirst \/ FixEnd
  PROVE  AbstractStep
<1> DEFINE lo == GroupLo[mainName]
<1>1. mainPc = "fixDrop" /\ mainName \in Name
  BY MainListOk DEF FixDropFirst, FixEnd, MainAt
<1>2. /\ mainPc' = "fixDrop" => mainName' = mainName
      /\ mainPc' = "idle" \/ mainPc' = "fixDrop"
  BY DEF FixDropFirst, FixEnd, MainAt
<1>3. PICK i, R :
        /\ i \in At(groups, mainName)
        /\ Relisted(i, R)
        /\ Elems(R) \cup (1 .. lo - 1) = Elems(groups[i].readList) \cup (1 .. lo - 1)
        /\ mainPc' = "idle" => Elems(R) = Elems(groups[i].readList) \cup (1 .. lo - 1)
  <2>1. CASE FixDropFirst
    BY <2>1, FixDropFirstList DEF ListDropped, FixDropFirst, MainAt
  <2>2. CASE FixEnd
    <3>1. PICK i, R :
            i \in At(groups, mainName) /\ Relisted(i, R) /\ Elems(R) = Elems(groups[i].readList) \cup (1 .. lo - 1)
      BY <2>2, FixEndList DEF ListFilled
    <3>2. Elems(R) \cup (1 .. lo - 1) = Elems(groups[i].readList) \cup (1 .. lo - 1)
      BY <3>1
    <3> QED
      BY <3>1, <3>2
  <2> QED
    BY <2>1, <2>2
<1>4. \A n : n # mainName => Pending(mainPc', mainName', n) = Pending(mainPc, mainName, n)
  BY <1>1, <1>2 DEF Pending
<1>5. /\ Pending(mainPc, mainName, mainName) = 1 .. lo - 1
      /\ Pending(mainPc', mainName', mainName) = IF mainPc' = "idle" THEN {} ELSE 1 .. lo - 1
  BY <1>1, <1>2 DEF Pending
<1>6. /\ Others(mainName)
      /\ ReadIn(groups, mainPc, mainName, mainName) = Elems(groups[i].readList) \cup (1 .. lo - 1)
      /\ ReadIn(groups', mainPc', mainName', mainName)
           = Elems(R) \cup Pending(mainPc', mainName', mainName)
  BY <1>1, <1>3, <1>4, <1>5, RelistedRead
<1>7. ReadIn(groups', mainPc', mainName', mainName) = ReadIn(groups, mainPc, mainName, mainName)
  <2>1. CASE mainPc' = "idle"
    BY <2>1, <1>3, <1>5, <1>6
  <2>2. CASE mainPc' = "fixDrop"
    BY <2>2, <1>3, <1>5, <1>6
  <2> QED
    BY <2>1, <2>2, <1>2
<1>8. \A n \in Name : ReadIn(groups', mainPc', mainName', n) = ReadIn(groups, mainPc, mainName, n)
  BY <1>6, <1>7 DEF Others
<1> QED
  BY <1>8 DEF AbstractStep, ReadFn

LEMMA MainStep ==
  ASSUME TypeInv, NameInv, Alive, MainNext
  PROVE  AbstractStep
<1>1. ASSUME NEW name, MainGroup(name) PROVE AbstractStep
  BY <1>1, SameRead DEF MainGroup, MainAt
<1>2. ASSUME NEW name, SendmeKnown(name) PROVE AbstractStep
  BY <1>2, SameRead DEF SendmeKnown, MainAt
<1>3. CASE SendmeAdd
  <2>1. mainPc = "add" /\ mainPc' = "fix"
    BY <1>3 DEF SendmeAdd, MainAt
  <2>2. mainName \in Name /\ Entered(mainName) /\ At(groups, mainName) = {}
    BY <1>3, <2>1, SendmeAddEntered DEF NameInv
  <2> QED
    BY <2>1, <2>2, EnteredRead
<1>4. CASE MainWrite
  BY <1>4, SameRead DEF MainWrite, MainAt
<1>5. CASE Interrupt
  BY <1>5, SameRead DEF Interrupt
<1> QED
  BY <1>1, <1>2, <1>3, <1>4, <1>5, FixBeginStep, FixRestStep DEF MainNext

LEMMA NewsrcStep ==
  ASSUME TypeInv, NameInv, [Next]_vars
  PROVE  AbstractStep
<1>1. CASE UNCHANGED vars
  BY <1>1, SameRead DEF vars, mainVars
<1>2. CASE WriteNext
  BY <1>2, WriteKeeps, SameRead DEF mainVars
<1>3. ASSUME NEW w \in Worker, Alive, WorkerNext(w) PROVE AbstractStep
  BY <1>3, WorkerStep
<1>4. ASSUME NEW name, NewGroupMissing(name) PROVE AbstractStep
  BY <1>4, SameRead DEF NewGroupMissing, mainVars
<1>5. CASE Alive /\ NewGroupAdd
  <2>1. adder # NoName /\ ~locked /\ mainPc' = mainPc
    BY <1>5 DEF NewGroupAdd, GrpAdd, mainVars
  <2>2. mainPc # "fixDrop"
    BY <1>5, <2>1 DEF TypeInv, MainOk, Alive, Finished
  <2>3. adder \in Name /\ Entered(adder) /\ At(groups, adder) = {}
    BY <1>5, <2>1, NewGroupAddEntered DEF NameInv
  <2> QED
    BY <2>1, <2>2, <2>3, EnteredRead
<1>6. CASE Alive /\ MainNext
  BY <1>6, MainStep
<1> QED
  BY <1>1, <1>2, <1>3, <1>4, <1>5, <1>6 DEF Next

\* Each of the steps on the sets is one ReadSets allows.
LEMMA AbstractOk == AbstractStep => [Sets!Next]_([name \in Name |-> ReadSet(name)])
<1> SUFFICES ASSUME AbstractStep PROVE [Sets!Next]_([name \in Name |-> ReadSet(name)])
  OBVIOUS
<1> DEFINE F == [name \in Name |-> ReadSet(name)]
<1>1. F = ReadFn(groups, mainPc, mainName)
  BY ReadFnOk DEF ReadFn
<1>2. F' = ReadFn(groups', mainPc', mainName')
  BY ReadFnOk DEF ReadFn
<1>3. ASSUME NEW g \in Name, NEW n \in Marks,
             Becomes(g, ReadFn(groups, mainPc, mainName)[g] \cup {n})
      PROVE  Sets!MarkRead(g, n)
  BY <1>1, <1>2, <1>3 DEF Sets!MarkRead, Becomes
<1>4. ASSUME NEW g \in Name,
             Becomes(g, Sets!Fixed(ReadFn(groups, mainPc, mainName)[g], GroupLo[g], GroupHi[g]))
      PROVE  Sets!FixReadList(g)
  BY <1>1, <1>2, <1>4 DEF Sets!FixReadList, Becomes
<1>5. ASSUME NEW g \in Name, NEW keep \in CatchupKeep,
             Becomes(g, Sets!Fixed(ReadFn(groups, mainPc, mainName)[g],
                                   IF GroupHi[g] - keep + 1 < 1 THEN 1 ELSE GroupHi[g] - keep + 1,
                                   GroupHi[g]))
      PROVE  Sets!Catchup(g, keep)
  BY <1>1, <1>2, <1>5 DEF Sets!Catchup, Becomes
<1>6. ASSUME ReadFn(groups', mainPc', mainName') = ReadFn(groups, mainPc, mainName)
      PROVE  UNCHANGED F
  BY <1>1, <1>2, <1>6
<1> QED
  BY <1>3, <1>4, <1>5, <1>6 DEF AbstractStep, Sets!Next

LEMMA InitSets == Init => Sets!Init
<1> SUFFICES ASSUME Init PROVE Sets!Init
  OBVIOUS
<1>1. Proper(groups) /\ mainPc = "idle"
  BY InitFile DEF Init
<1>2. ASSUME NEW name \in Name PROVE ReadIn(groups, mainPc, mainName, name) \in SUBSET Nat
  <2>1. CASE At(groups, name) = {}
    BY <2>1 DEF ReadIn
  <2>2. CASE At(groups, name) # {}
    <3>1. PICK i \in At(groups, name) : TRUE
      BY <2>2
    <3>2. ReadIn(groups, mainPc, mainName, name)
            = Elems(groups[i].readList) \cup Pending(mainPc, mainName, name)
      BY <3>1, <1>1, ReadInOk
    <3>3. Pending(mainPc, mainName, name) = {}
      BY <1>1 DEF Pending
    <3>4. Elems(groups[i].readList) \subseteq Nat
      BY <3>1, <1>1, ProperDomain, ElemsPositive DEF At
    <3> QED
      BY <3>2, <3>3, <3>4
  <2> QED
    BY <2>1, <2>2
<1>3. [name \in Name |-> ReadSet(name)] \in [Name -> SUBSET Nat]
  BY <1>2, ReadFnOk
<1> QED
  BY <1>3 DEF Sets!Init

\* All the threads together behave as if each mark and each fix were one step on a set of
\* numbers, if no new group is also named in the file COMMANDS.
THEOREM RefinesSets ==
  ASSUME NewNames \cap Sendme = {}
  PROVE  Spec => ImplementsSets
<1>1. TypeInv /\ NameInv /\ [Next]_vars => [Sets!Next]_([name \in Name |-> ReadSet(name)])
  BY NewsrcStep, AbstractOk
<1>2. Spec => []NameInv
  BY NeverTwice, PTL
<1> QED
  BY <1>1, <1>2, InitSets, TypesInvariant, PTL DEF Spec, ImplementsSets, Sets!Spec
-----------------------------------------------------------------------------
(* Writing the file.                                                         *)

OldFiles == {File(f) : f \in OldNewsrc}

\* The lines of the first m entries.
Written(gs, m) == [k \in 1 .. m |-> Line(gs[k])]

\* How far the files are.
FileInv ==
  /\ held = FALSE
  /\ write # "none" => handler \/ mainPc = "write"
  /\ write \in {"none", "test", "remove", "rename"} => cur \in OldFiles
  /\ write \in {"open", "put"} => old \in OldFiles
  /\ write = "put" => \E m \in Nat : m < Len(groups) /\ cur = File(Written(groups, m))
  /\ write = "done" => \/ cur \in OldFiles /\ (groups = <<>> \/ ~fileChanged)
                       \/ old \in OldFiles /\ cur = File(Written(groups, Len(groups)))

\* Beyond the test, sema is held: what is written does not change meanwhile.
LockInv ==
  write \in {"remove", "rename", "open", "put"} => locked /\ fileChanged /\ Len(groups) > 0

\* What a step other than those of writeFile() does to what writeFile() depends on.
Session ==
  /\ write # "done" /\ UNCHANGED <<cur, old>>
  /\ fileChanged \in BOOLEAN /\ (fileChanged => fileChanged')
  /\ Len(groups) \in Nat /\ Len(groups') \in Nat /\ Len(groups') >= Len(groups)
  /\ \/ write = "none" /\ write' = "none" /\ held' = held
     \/ write = "none" /\ write' = "test" /\ held' = FALSE /\ (handler' \/ mainPc' = "write")
     \/ /\ write # "none" /\ UNCHANGED <<write, held>>
        /\ (handler \/ mainPc = "write") => (handler' \/ mainPc' = "write")
        /\ locked => UNCHANGED <<groups, locked>>

LEMMA WorkerSession ==
  ASSUME TypeInv, Alive, NEW w \in Worker, WorkerNext(w)
  PROVE  Session
<1>1. WorkerKeeps /\ WorkerEffect
  BY WorkerNextEffect
<1>2. UNCHANGED <<cur, old, write, held, locked, mainPc, handler>>
  BY <1>1 DEF WorkerKeeps, mainVars, fileVars
<1>3. locked => UNCHANGED groups
  BY <1>1 DEF WorkerEffect
<1>4. Grown
  <2>1. CASE UNCHANGED groups
    BY <2>1, SameGrown DEF TypeInv
  <2>2. CASE ~UNCHANGED groups
    <3>1. PICK i, R : Relisted(i, R)
      BY <1>1, <2>2 DEF WorkerEffect, ListMarked, ListFixed
    <3> QED
      BY <3>1, RelistedGrown DEF TypeInv
  <2> QED
    BY <2>1, <2>2
<1>5. fileChanged \in BOOLEAN /\ (fileChanged => fileChanged')
  <2>1. fileChanged \in BOOLEAN
    BY DEF TypeInv, VarsOk
  <2>2. fileChanged' \in {fileChanged, TRUE} \/ \E b \in BOOLEAN : fileChanged' = (fileChanged \/ b)
    BY DEF WorkerNext, MarkCall, MarkCheck, MarkStore, WorkerFix, WorkerCatchup, CatchupChanged
  <2> QED
    BY <2>1, <2>2
<1>6. write # "done"
  BY DEF Alive, Finished
<1> QED
  BY <1>2, <1>3, <1>4, <1>5, <1>6 DEF Session, Grown

LEMMA OtherSession ==
  ASSUME TypeInv, Alive, (\E name \in NewNames : NewGroupMissing(name)) \/ NewGroupAdd
  PROVE  Session
<1>1. fileChanged \in BOOLEAN /\ write # "done"
  BY DEF TypeInv, VarsOk, Alive, Finished
<1>2. UNCHANGED <<cur, old, write, held, locked, mainPc, handler>>
  BY DEF NewGroupMissing, NewGroupAdd, mainVars, fileVars
<1>3. CASE NewGroupAdd
  <2>1. ~locked /\ fileChanged' = TRUE
    BY <1>3 DEF NewGroupAdd, GrpAdd
  <2>2. Grown
    BY <1>3, NewGroupAddEntered, EnteredGrown DEF TypeInv
  <2> QED
    BY <1>1, <1>2, <2>1, <2>2 DEF Session, Grown
<1>4. CASE \E name \in NewNames : NewGroupMissing(name)
  <2>1. UNCHANGED <<groups, fileChanged>>
    BY <1>4 DEF NewGroupMissing
  <2>2. Grown
    BY <2>1, SameGrown DEF TypeInv
  <2> QED
    BY <1>1, <1>2, <2>1, <2>2 DEF Session, Grown
<1> QED
  BY <1>3, <1>4

\* The main thread is interrupted before it writes, or not at all.
LEMMA MainSession ==
  ASSUME ~InterruptWrite, TypeInv, FileInv, Alive, MainNext
  PROVE  Session
<1>1. fileChanged \in BOOLEAN /\ write # "done"
  BY DEF TypeInv, VarsOk, Alive, Finished
<1>2. held = FALSE /\ (write # "none" => handler \/ mainPc = "write")
  BY DEF FileInv
<1>3. ASSUME Grown, UNCHANGED <<cur, old, write, held>>, fileChanged => fileChanged',
             ~handler, mainPc # "write"
      PROVE  Session
  BY <1>1, <1>2, <1>3 DEF Session, Grown
<1>4. ASSUME UNCHANGED <<groups, fileChanged, cur, old>>, write = "none", write' = "test",
             held' = FALSE, handler' \/ mainPc' = "write"
      PROVE  Session
  <2>1. Grown
    BY <1>4, SameGrown DEF TypeInv
  <2> QED
    BY <1>1, <1>4, <2>1 DEF Session, Grown
<1>5. ASSUME NEW name \in Name, MainGroup(name) PROVE Session
  <2>1. /\ ~handler /\ mainPc = "idle"
        /\ UNCHANGED <<groups, fileChanged, cur, old, write, held>>
    BY <1>5 DEF MainGroup, MainAt, fileVars
  <2> QED
    BY <1>3, <2>1, SameGrown DEF TypeInv
<1>6. ASSUME NEW name \in Sendme, SendmeKnown(name) PROVE Session
  <2>1. /\ ~handler /\ mainPc = "idle"
        /\ UNCHANGED <<groups, fileChanged, cur, old, write, held>>
    BY <1>6 DEF SendmeKnown, MainAt, fileVars
  <2> QED
    BY <1>3, <2>1, SameGrown DEF TypeInv
<1>7. CASE SendmeAdd
  <2>1. ~handler /\ mainPc = "add" /\ fileChanged' = TRUE /\ UNCHANGED <<cur, old, write, held>>
    BY <1>7 DEF SendmeAdd, MainAt, GrpAdd, fileVars
  <2>2. Grown
    BY <1>7, SendmeAddEntered, EnteredGrown DEF TypeInv
  <2> QED
    BY <1>3, <2>1, <2>2
<1>8. CASE FixBegin
  <2>1. ~handler /\ mainPc = "fix" /\ UNCHANGED <<fileChanged, cur, old, write, held>>
    BY <1>8 DEF FixBegin, MainAt, fileVars
  <2>2. Grown
    BY <1>8, FixBeginList, RelistedGrown DEF ListReset, TypeInv
  <2> QED
    BY <1>3, <2>1, <2>2
<1>9. CASE FixDropFirst
  <2>1. ~handler /\ mainPc = "fixDrop" /\ UNCHANGED <<fileChanged, cur, old, write, held>>
    BY <1>9 DEF FixDropFirst, MainAt, fileVars
  <2>2. Grown
    BY <1>9, FixDropFirstList, RelistedGrown DEF ListDropped, TypeInv
  <2> QED
    BY <1>3, <2>1, <2>2
<1>10. CASE FixEnd
  <2>1. ~handler /\ mainPc = "fixDrop" /\ UNCHANGED <<fileChanged, cur, old, write, held>>
    BY <1>10 DEF FixEnd, MainAt, fileVars
  <2>2. Grown
    BY <1>10, FixEndList, RelistedGrown DEF ListFilled, TypeInv
  <2> QED
    BY <1>3, <2>1, <2>2
<1>11. CASE MainWrite
  BY <1>2, <1>4, <1>11 DEF MainWrite, MainAt
<1>12. CASE Interrupt
  <2>1. ~handler /\ write = "none"
    <3>1. ~handler /\ (write # "none" => InterruptWrite)
      BY <1>12 DEF Interrupt
    <3> QED
      BY <3>1
  <2> QED
    BY <1>4, <1>12, <2>1 DEF Interrupt
<1> QED
  BY <1>5, <1>6, <1>7, <1>8, <1>9, <1>10, <1>11, <1>12 DEF MainNext

LEMMA SessionFile ==
  ASSUME FileInv, LockInv, Session
  PROVE  FileInv' /\ LockInv'
<1>1. UNCHANGED <<cur, old>> /\ write # "done" /\ held' = FALSE
  BY DEF Session, FileInv
<1>2. CASE write = "none"
  <2>1. cur \in OldFiles /\ write' \in {"none", "test"}
        /\ (write' # "none" => handler' \/ mainPc' = "write")
    BY <1>2 DEF Session, FileInv
  <2> QED
    BY <1>1, <2>1 DEF FileInv, LockInv
<1>3. CASE write = "test"
  <2>1. cur \in OldFiles /\ write' = "test" /\ (handler' \/ mainPc' = "write")
    BY <1>3 DEF Session, FileInv
  <2> QED
    BY <1>1, <2>1 DEF FileInv, LockInv
<1>4. CASE write \notin {"none", "test"}
  <2>1. write' = write /\ (handler' \/ mainPc' = "write")
    BY <1>4 DEF Session, FileInv
  <2>2. CASE write \in {"remove", "rename", "open", "put"}
    <3>1. UNCHANGED <<groups, locked>> /\ (fileChanged => fileChanged')
      BY <1>4, <2>2 DEF Session, LockInv
    <3>2. locked' /\ fileChanged' /\ Len(groups') > 0
      BY <2>2, <3>1 DEF LockInv
    <3>3. LockInv'
      BY <3>2 DEF LockInv
    <3>4. FileInv'
      BY <1>1, <2>1, <2>2, <3>1 DEF FileInv
    <3> QED
      BY <3>3, <3>4
  <2>3. CASE write \notin {"remove", "rename", "open", "put"}
    BY <1>1, <1>4, <2>1, <2>3 DEF FileInv, LockInv
  <2> QED
    BY <2>2, <2>3
<1> QED
  BY <1>2, <1>3, <1>4

LEMMA WrittenNone == \A gs : Written(gs, 0) = <<>>
  BY DEF Written

LEMMA WrittenLen ==
  ASSUME NEW gs, NEW m \in Nat
  PROVE  /\ Len(Written(gs, m)) = m /\ DOMAIN Written(gs, m) = 1 .. m
         /\ \A k \in 1 .. m : Written(gs, m)[k] = Line(gs[k])
  BY DEF Written

LEMMA WrittenNext ==
  ASSUME NEW gs, NEW m \in Nat
  PROVE  Append(Written(gs, m), Line(gs[m + 1])) = Written(gs, m + 1)
<1> DEFINE W == Written(gs, m)
           p == m + 1
           A == Append(W, Line(gs[p]))
           B == Written(gs, p)
<1>1. Len(W) = m /\ \A k \in 1 .. m : W[k] = Line(gs[k])
  BY WrittenLen
<1> HIDE DEF W
<1>2. A = [k \in 1 .. p |-> IF k = p THEN Line(gs[p]) ELSE W[k]]
  <2>1. A = [k \in 1 .. (Len(W) + 1) |-> IF k = Len(W) + 1 THEN Line(gs[p]) ELSE W[k]]
    OBVIOUS
  <2> QED
    BY <1>1, <2>1
<1>3. \A k \in 1 .. p : k = p \/ k \in 1 .. m
  OBVIOUS
<1>4. B = [k \in 1 .. p |-> Line(gs[k])]
  BY DEF Written
<1> HIDE DEF A, B, p
<1>5. A = B
  BY <1>1, <1>2, <1>3, <1>4
<1> QED
  BY <1>5 DEF A, B, W, p

LEMMA OldFileOk ==
  ASSUME NEW f \in OldFiles
  PROVE  f.exists
  BY DEF OldFiles, File

LEMMA WritePutFile ==
  ASSUME TypeInv, FileInv, LockInv, WritePut
  PROVE  FileInv' /\ LockInv'
<1>1. PICK m \in Nat : m < Len(groups) /\ cur = File(Written(groups, m))
  BY DEF WritePut, FileInv
<1>2. /\ held = FALSE /\ (handler \/ mainPc = "write") /\ old \in OldFiles
      /\ locked /\ fileChanged /\ Len(groups) > 0 /\ Len(groups) \in Nat
  BY GroupsDomain DEF WritePut, FileInv, LockInv, TypeInv
<1>3. UNCHANGED <<old, groups, fileChanged, held, handler, mainPc>>
  BY DEF WritePut, RestUnchanged, mainVars
<1> DEFINE p == m + 1
<1>4. cur' = File(Written(groups, p)) /\ cur'.lines = Written(groups, p)
  <2>1. cur.lines = Written(groups, m)
    BY <1>1 DEF File
  <2>2. Len(cur.lines) = m
    BY <2>1, WrittenLen
  <2>3. cur' = [cur EXCEPT !.lines = Append(cur.lines, Line(groups[Len(cur.lines) + 1]))]
    BY DEF WritePut
  <2>4. Append(cur.lines, Line(groups[Len(cur.lines) + 1])) = Written(groups, p)
    BY <2>1, <2>2, WrittenNext
  <2>5. cur' = [cur EXCEPT !.lines = Written(groups, p)]
    BY <2>3, <2>4
  <2> HIDE DEF p
  <2> QED
    BY <1>1, <2>5 DEF File
<1>5. Len(cur'.lines) = p /\ p \in Nat /\ p <= Len(groups)
  <2>1. p \in Nat /\ p <= Len(groups)
    BY <1>1, <1>2
  <2> HIDE DEF p
  <2>2. Len(Written(groups, p)) = p
    BY <2>1, WrittenLen
  <2> QED
    BY <1>4, <2>1, <2>2
<1> HIDE DEF p
<1>6. CASE p = Len(groups)
  <2>1. write' = "done"
    BY <1>5, <1>6 DEF WritePut, WriteStep
  <2> QED
    BY <1>2, <1>3, <1>4, <1>6, <2>1 DEF FileInv, LockInv
<1>7. CASE p # Len(groups)
  <2>1. write' = "put" /\ UNCHANGED locked
    BY <1>5, <1>7 DEF WritePut, WriteStep
  <2>2. p < Len(groups)
    BY <1>2, <1>5, <1>7
  <2> QED
    BY <1>2, <1>3, <1>4, <1>5, <2>1, <2>2 DEF FileInv, LockInv
<1> QED
  BY <1>6, <1>7

LEMMA WriteFileInv ==
  ASSUME TypeInv, FileInv, LockInv, WriteNext
  PROVE  FileInv' /\ LockInv'
<1>1. /\ held = FALSE /\ UNCHANGED <<groups, fileChanged, held, handler, mainPc>>
      /\ fileChanged \in BOOLEAN
  BY WriteKeeps DEF mainVars, FileInv, TypeInv, VarsOk
<1>2. CASE WriteTest
  <2>1. /\ cur \in OldFiles /\ (handler \/ mainPc = "write") /\ UNCHANGED <<cur, old>>
        /\ write' = IF groups = <<>> \/ ~fileChanged THEN "done" ELSE "remove"
        /\ locked' = (locked \/ (groups # <<>> /\ fileChanged))
    BY <1>2 DEF WriteTest, WriteStep, FileInv
  <2>2. groups # <<>> => Len(groups) > 0
    <3>1. groups \in Seq(EntryType) /\ Len(groups) \in Nat
      BY GroupsDomain DEF TypeInv
    <3> QED
      BY <3>1, EmptySeq
  <2> QED
    BY <1>1, <2>1, <2>2 DEF FileInv, LockInv
<1>3. CASE WriteRemove
  <2>1. /\ cur \in OldFiles /\ (handler \/ mainPc = "write") /\ UNCHANGED <<cur, locked>>
        /\ write = "remove" /\ write' = "rename"
    BY <1>3 DEF WriteRemove, WriteStep, FileInv
  <2> QED
    BY <1>1, <2>1 DEF FileInv, LockInv
<1>4. CASE WriteRename
  <2>1. /\ cur \in OldFiles /\ (handler \/ mainPc = "write") /\ UNCHANGED locked
        /\ write = "rename" /\ write' = "open"
    BY <1>4 DEF WriteRename, WriteStep, FileInv
  <2>2. old' = cur
    BY <1>1, <1>4, <2>1, OldFileOk DEF WriteRename
  <2> QED
    BY <1>1, <2>1, <2>2 DEF FileInv, LockInv
<1>5. CASE WriteOpen
  <2>1. /\ old \in OldFiles /\ (handler \/ mainPc = "write") /\ UNCHANGED old
        /\ write = "open"
    BY <1>5 DEF WriteOpen, WriteStep, FileInv
  <2>2. write' = "put" /\ cur' = File(<<>>) /\ UNCHANGED locked
    BY <1>1, <1>5 DEF WriteOpen, WriteStep
  <2>3. cur' = File(Written(groups, 0)) /\ 0 < Len(groups) /\ 0 \in Nat
    BY <2>1, <2>2, WrittenNone DEF LockInv
  <2> QED
    BY <1>1, <2>1, <2>2, <2>3 DEF FileInv, LockInv
<1>6. CASE WritePut
  BY <1>6, WritePutFile
<1> QED
  BY <1>2, <1>3, <1>4, <1>5, <1>6 DEF WriteNext

LEMMA InitFileInv == Init => FileInv /\ LockInv
  BY DEF Init, FileInv, LockInv, OldFiles

LEMMA StepFileInv ==
  ASSUME ~InterruptWrite, TypeInv, FileInv, LockInv, [Next]_vars
  PROVE  FileInv' /\ LockInv'
<1>1. CASE UNCHANGED vars
  BY <1>1 DEF vars, mainVars, fileVars, FileInv, LockInv
<1>2. CASE WriteNext
  BY <1>2, WriteFileInv
<1>3. ASSUME NEW w \in Worker, Alive, WorkerNext(w) PROVE FileInv' /\ LockInv'
  BY <1>3, WorkerSession, SessionFile
<1>4. CASE Alive /\ ((\E name \in NewNames : NewGroupMissing(name)) \/ NewGroupAdd)
  BY <1>4, OtherSession, SessionFile
<1>5. CASE Alive /\ MainNext
  BY <1>5, MainSession, SessionFile
<1> QED
  BY <1>1, <1>2, <1>3, <1>4, <1>5 DEF Next

\* While the files are written, one of them is a whole file of the session's begin, and the
\* other grows line by line, if ^C does not interrupt the writing.
LEMMA FilesInvariant ==
  ASSUME ~InterruptWrite
  PROVE  Spec => [](FileInv /\ LockInv)
<1>1. TypeInv /\ FileInv /\ LockInv /\ [Next]_vars => FileInv' /\ LockInv'
  BY StepFileInv
<1> QED
  BY <1>1, InitFileInv, TypesInvariant, PTL DEF Spec

\* Wherever the machine may stop, NEWSRC or NEWSRC.old has a line for each group NEWSRC had
\* before, if the user does not interrupt the writing.  OldNewsrc is the set of files a
\* session may begin with: they name the same groups, as OneWhole speaks of those of all.
THEOREM OneAlwaysWhole ==
  ASSUME ~InterruptWrite, \A f, g \in OldNewsrc : Names(f) = Names(g)
  PROVE  Spec => []OneWhole
<1>1. ASSUME FileInv, VarsOk PROVE OneWhole
  <2> DEFINE names == {groups[i].name : i \in DOMAIN groups}
             before == {n \in names : \E f \in OldNewsrc : \E i \in DOMAIN f : f[i].name = n}
  <2>1. ASSUME NEW file \in OldFiles PROVE Whole(file, before)
    <3>1. PICK g \in OldNewsrc : file = File(g)
      BY DEF OldFiles
    <3>2. file.lines = g
      BY <3>1 DEF File
    <3>3. ASSUME NEW n \in before PROVE n \in Names(g)
      <4>1. PICK f \in OldNewsrc : \E i \in DOMAIN f : f[i].name = n
        OBVIOUS
      <4>2. n \in Names(f)
        BY <4>1 DEF Names
      <4> QED
        BY <4>2
    <3> QED
      BY <3>2, <3>3 DEF Whole, Names
  <2>2. cur \in OldFiles \/ old \in OldFiles
    BY <1>1 DEF FileInv, VarsOk
  <2> QED
    BY <2>1, <2>2 DEF OneWhole
<1>2. TypeInv => VarsOk
  BY DEF TypeInv
<1> QED
  BY <1>1, <1>2, FilesInvariant, TypesInvariant, PTL
-----------------------------------------------------------------------------
(* Reading the file back.                                                    *)

\* A line of the file is read as the entry it was written for.
LEMMA LineBack ==
  ASSUME NEW e \in EntryType, NormalForm(e.readList)
  PROVE  EntryOf(Line(e)) = e /\ Line(e).name = e.name
<1>1. e = [name |-> e.name, subscribed |-> e.subscribed, readList |-> e.readList]
  BY DEF EntryType
<1>2. /\ Line(e).name = e.name /\ Line(e).subscribed = e.subscribed
      /\ Line(e).ranges = PutReadList(e.readList)
  BY DEF Line
<1>3. GetReadList(PutReadList(e.readList)) = e.readList
  BY PutGetOk
<1>4. EntryOf(Line(e)) = [name |-> e.name, subscribed |-> e.subscribed, readList |-> e.readList]
  BY <1>2, <1>3 DEF EntryOf
<1> QED
  BY <1>1, <1>2, <1>4

\* What is written is read back, entry by entry.
THEOREM ReadBack ==
  ASSUME NEW gs, Proper(gs)
  PROVE  ReadFile(Written(gs, Len(gs))) = gs
<1> DEFINE n == Len(gs)
           lines == Written(gs, n)
<1>1. n \in Nat /\ DOMAIN gs = 1 .. n /\ gs \in Seq(EntryType)
      /\ \A i \in DOMAIN gs : gs[i] \in EntryType /\ NormalForm(gs[i].readList)
  BY ProperDomain DEF Proper
<1>2. Len(lines) = n /\ \A k \in 1 .. n : lines[k] = Line(gs[k])
  BY <1>1, WrittenLen
<1> HIDE DEF n, lines
<1>3. PICK g : /\ ReadFile(lines) = g[n]
               /\ g[0] = <<>>
               /\ \A i \in 1 .. n : g[i] = ReadLine(g[i - 1], lines[i])
  BY <1>1, <1>2, ReadFileSteps
<1> DEFINE Copied(i) == /\ g[i] \in Seq(EntryType) /\ Len(g[i]) = i
                        /\ \A k \in 1 .. i : g[i][k] = gs[k]
           Bad == {i \in 0 .. n : ~Copied(i)}
<1>4. Bad = {}
  <2>1. SUFFICES ASSUME Bad # {} PROVE FALSE
    OBVIOUS
  <2>2. PICK i \in Bad : \A m \in Bad : i <= m
    <3>1. Bad \subseteq Nat
      BY <1>1
    <3> HIDE DEF Bad
    <3> QED
      BY <2>1, <3>1, MinOk
  <2>3. i \in Nat /\ i <= n /\ ~Copied(i)
    BY <2>2, <1>1
  <2>4. CASE i = 0
    <3>1. Copied(0)
      BY <1>3, EmptySeq
    <3> QED
      BY <2>3, <2>4, <3>1
  <2>5. CASE i # 0
    <3> DEFINE p == i - 1
               q == g[p]
               e == gs[i]
    <3>1. p \in 0 .. n /\ p < i /\ p \in Nat /\ i = p + 1 /\ i \in 1 .. n /\ i \in DOMAIN gs
      BY <1>1, <2>3, <2>5
    <3>2. g[i] = ReadLine(q, Line(e))
      BY <3>1, <1>2, <1>3
    <3>3. Copied(p)
      <4>1. ~(i <= p)
        BY <3>1, <2>3
      <4> HIDE DEF p
      <4> QED
        BY <3>1, <4>1, <2>2
    <3>4. q \in Seq(EntryType) /\ Len(q) = p /\ DOMAIN q = 1 .. p /\ \A k \in 1 .. p : q[k] = gs[k]
      <4>1. q \in Seq(EntryType) /\ Len(q) = p /\ \A k \in 1 .. p : q[k] = gs[k]
        BY <3>3
      <4> HIDE DEF q, p
      <4> QED
        BY <4>1, LenProperties
    <3>5. EntryOf(Line(e)) = e /\ Line(e).name = e.name /\ e \in EntryType
      BY <1>1, <3>1, LineBack
    <3> HIDE DEF p, q
    <3>6. ~\E k \in DOMAIN q : q[k].name = e.name
      <4>1. ASSUME NEW k \in DOMAIN q, q[k].name = e.name PROVE FALSE
        <5>1. k \in DOMAIN gs /\ k # i /\ gs[k].name = gs[i].name
          BY <4>1, <3>1, <3>4, <1>1
        <5> QED
          BY <5>1, <3>1 DEF Proper, Distinct
      <4> QED
        BY <4>1
    <3> HIDE DEF e
    <3>7. g[i] = Append(q, e)
      <4>1. ReadLine(q, Line(e)) = Append(q, EntryOf(Line(e)))
        BY <3>5, <3>6 DEF ReadLine, EntryOf
      <4> QED
        BY <3>2, <3>5, <4>1
    <3>8. /\ g[i] \in Seq(EntryType) /\ Len(g[i]) = p + 1
          /\ \A k \in 1 .. p : g[i][k] = q[k]
          /\ g[i][p + 1] = e
      BY <3>4, <3>5, <3>7, AppendProperties
    <3>9. \A k \in 1 .. i : k \in 1 .. p \/ k = p + 1
      BY <3>1
    <3>10. Copied(i)
      BY <3>1, <3>4, <3>8, <3>9 DEF e
    <3> QED
      BY <2>3, <3>10
  <2> QED
    BY <2>4, <2>5
<1>5. Copied(n)
  BY <1>1, <1>4
<1>6. g[n] = gs
  <2> DEFINE r == g[n]
  <2>1. r \in Seq(EntryType) /\ Len(r) = n /\ \A k \in 1 .. n : r[k] = gs[k]
    BY <1>5
  <2> HIDE DEF r
  <2>2. gs \in Seq(EntryType) /\ Len(gs) = n
    BY <1>1 DEF n
  <2>3. r = gs
    BY <2>1, <2>2, SeqEqual
  <2> QED
    BY <2>3 DEF r
<1> QED
  BY <1>3, <1>6 DEF lines, n
-----------------------------------------------------------------------------
(* What counts as no change.                                                 *)

\* The entries gs say no more of the articles the server has than fs.
Fits(gs, fs) ==
  /\ Len(gs) = Len(fs)
  /\ \A i \in DOMAIN gs :
       /\ fs[i].name = gs[i].name
       /\ \A n \in Elems(gs[i].readList) : n >= GroupLo[gs[i].name] => n \in Elems(fs[i].readList)

\* As long as nothing was changed, the file says what is in memory, unless a catchup is
\* between the list and the flag: then the program is not yet about to end by itself.
FlagInv ==
  /\ mainPc = "write" => \A w \in Worker : worker[w].pc = "idle"
  /\ \A w \in Worker : /\ worker[w].pc = "mark" => fileChanged
                       /\ worker[w].pc = "changed" => mode = "CATCHUP"
  /\ ~fileChanged => \/ \E w \in Worker : worker[w].pc = "changed"
                     \/ cur \in OldFiles /\ Fits(groups, ReadFile(cur.lines))

LEMMA FitsKept ==
  ASSUME NEW name, NEW i \in At(groups, name), NEW R, Relisted(i, R),
         \A n \in Elems(R) : n >= GroupLo[name] => n \in Elems(groups[i].readList)
  PROVE  \A fs : Fits(groups, fs) => Fits(groups', fs)
<1> SUFFICES ASSUME NEW fs, Fits(groups, fs) PROVE Fits(groups', fs)
  OBVIOUS
<1>1. /\ Len(groups') = Len(groups) /\ DOMAIN groups' = DOMAIN groups
      /\ groups'[i].readList = R
      /\ \A j \in DOMAIN groups : groups'[j].name = groups[j].name
      /\ \A j \in DOMAIN groups : j # i => groups'[j] = groups[j]
  BY DEF Relisted
<1>2. i \in DOMAIN groups /\ groups[i].name = name
  BY DEF At
<1> QED
  BY <1>1, <1>2 DEF Fits

\* A fix adds only numbers below the first article.
LEMMA FixedFits ==
  ASSUME TypeInv, NEW name \in Name,
         ListFixed(name, GroupLo[name], GroupHi[name]) \/ ListReset(name, GroupHi[name])
           \/ ListDropped(name, GroupLo[name]) \/ ListFilled(name, GroupLo[name])
  PROVE  \A fs : Fits(groups, fs) => Fits(groups', fs)
<1> DEFINE lo == GroupLo[name]
           hi == GroupHi[name]
<1>1. PICK i, R :
        /\ i \in At(groups, name)
        /\ Relisted(i, R)
        /\ \/ Elems(R) = Reset(Elems(groups[i].readList), hi) \cup (1 .. lo - 1)
           \/ Elems(R) = Reset(Elems(groups[i].readList), hi)
           \/ Elems(R) \cup (1 .. lo - 1) = Elems(groups[i].readList) \cup (1 .. lo - 1)
           \/ Elems(R) = Elems(groups[i].readList) \cup (1 .. lo - 1)
  BY DEF ListFixed, ListReset, ListDropped, ListFilled
<1>2. Reset(Elems(groups[i].readList), hi) \subseteq Elems(groups[i].readList)
  BY DEF Reset
<1>3. Elems(R) \subseteq Elems(groups[i].readList) \cup (1 .. lo - 1)
  BY <1>1, <1>2
<1>4. lo \in Int
  BY NewsrcOK
<1>5. \A n \in Elems(R) : n >= lo => n \in Elems(groups[i].readList)
  BY <1>3, <1>4
<1> HIDE DEF lo, hi
<1> QED
  BY <1>1, <1>5, FitsKept DEF lo

\* A step that leaves the workers alone.
LEMMA FlagKept ==
  ASSUME FlagInv, UNCHANGED <<worker, mode, cur>>, fileChanged => fileChanged',
         fileChanged \in BOOLEAN, fileChanged' \in BOOLEAN,
         mainPc' = "write" => \A w \in Worker : worker[w].pc = "idle",
         ~fileChanged' => \A fs : Fits(groups, fs) => Fits(groups', fs)
  PROVE  FlagInv'
<1>1. \A w \in Worker : /\ worker'[w].pc = "mark" => fileChanged'
                        /\ worker'[w].pc = "changed" => mode' = "CATCHUP"
  BY DEF FlagInv
<1>2. ~fileChanged' => \/ \E w \in Worker : worker'[w].pc = "changed"
                       \/ cur' \in OldFiles /\ Fits(groups', ReadFile(cur'.lines))
  <2>1. SUFFICES ASSUME ~fileChanged'
                 PROVE  \/ \E w \in Worker : worker[w].pc = "changed"
                        \/ cur \in OldFiles /\ Fits(groups', ReadFile(cur.lines))
    OBVIOUS
  <2> QED
    BY <2>1 DEF FlagInv
<1> QED
  BY <1>1, <1>2 DEF FlagInv

\* A step of a worker that goes on.
LEMMA WorkerFlag ==
  ASSUME TypeInv, FlagInv, NEW w \in Worker, NEW c \in CallType, Goto(w, c),
         mainPc # "write", UNCHANGED <<mainPc, mode, cur>>, fileChanged => fileChanged',
         c.pc = "mark" => fileChanged', c.pc = "changed" => mode = "CATCHUP",
         ~fileChanged' => \/ c.pc = "changed"
                          \/ worker[w].pc # "changed" /\ UNCHANGED groups
  PROVE  FlagInv'
<1>1. worker' = [worker EXCEPT ![w] = c] /\ worker \in [Worker -> CallType]
  BY DEF Goto, TypeInv, VarsOk
<1>2. worker'[w] = c /\ \A v \in Worker : v # w => worker'[v] = worker[v]
  BY <1>1
<1>3. \A v \in Worker : /\ worker'[v].pc = "mark" => fileChanged'
                        /\ worker'[v].pc = "changed" => mode' = "CATCHUP"
  BY <1>2 DEF FlagInv
<1>4. ASSUME ~fileChanged'
      PROVE  \/ \E v \in Worker : worker'[v].pc = "changed"
             \/ cur' \in OldFiles /\ Fits(groups', ReadFile(cur'.lines))
  <2>1. CASE c.pc = "changed"
    BY <1>2, <2>1
  <2>2. CASE worker[w].pc # "changed" /\ UNCHANGED groups
    <3>1. CASE \E v \in Worker : worker[v].pc = "changed"
      BY <1>2, <2>2, <3>1
    <3>2. CASE cur \in OldFiles /\ Fits(groups, ReadFile(cur.lines))
      BY <2>2, <3>2
    <3> QED
      BY <1>4, <3>1, <3>2 DEF FlagInv
  <2> QED
    BY <1>4, <2>1, <2>2
<1> QED
  BY <1>3, <1>4 DEF FlagInv

LEMMA WorkerNextFlag ==
  ASSUME TypeInv, FlagInv, NEW w \in Worker, WorkerNext(w)
  PROVE  FlagInv'
<1>0. fileChanged \in BOOLEAN /\ worker[w] \in CallType
  BY DEF TypeInv, VarsOk
<1>i. Idle \in CallType /\ Idle.pc = "idle"
  BY IdleOk
<1>k. mainPc # "write" \/ worker[w].pc = "idle"
  BY DEF FlagInv
<1>1. ASSUME NEW name \in Name, NEW n \in Marks, MarkCall(w, name, n) PROVE FlagInv'
  <2> DEFINE c == [pc |-> "check", name |-> name, entry |-> GetGroupP(name), num |-> n]
  <2>1. /\ Goto(w, c) /\ worker[w] = Idle /\ mainPc # "write"
        /\ UNCHANGED <<mainPc, mode, cur, groups, fileChanged>>
    BY <1>1 DEF MarkCall, Receiving, InSession, mainVars, fileVars
  <2>2. c \in CallType
    <3>1. GetGroupP(name) \in Nat
      BY GetGroupPOk, GroupsDomain DEF TypeInv
    <3> QED
      BY <3>1 DEF CallType, WorkerPcs
  <2>3. c.pc = "check" /\ worker[w].pc = "idle"
    BY <1>i, <2>1
  <2> HIDE DEF c
  <2> QED
    BY <1>0, <2>1, <2>2, <2>3, WorkerFlag
<1>2. CASE MarkCheck(w)
  <2> DEFINE isRead == ArtIsRead(groups[GetGroupP(worker[w].name)].readList, worker[w].num)
             c == IF isRead THEN Idle ELSE [worker[w] EXCEPT !.pc = "mark"]
  <2>1. /\ Goto(w, c) /\ worker[w].pc = "check" /\ fileChanged' = (fileChanged \/ ~isRead)
        /\ UNCHANGED <<mainPc, mode, cur, groups>>
    BY <1>2 DEF MarkCheck, mainVars, fileVars
  <2>2. c \in CallType /\ c.pc = (IF isRead THEN "idle" ELSE "mark")
    BY <1>0, <1>i DEF CallType, WorkerPcs
  <2> HIDE DEF c, isRead
  <2>3. c.pc = "mark" => fileChanged'
    BY <2>1, <2>2
  <2>4. c.pc # "changed" /\ mainPc # "write" /\ worker[w].pc # "changed" /\ (fileChanged => fileChanged')
    BY <1>k, <2>1, <2>2
  <2> QED
    BY <2>1, <2>2, <2>3, <2>4, WorkerFlag
<1>3. CASE MarkStore(w)
  <2>1. /\ Goto(w, Idle) /\ worker[w].pc = "mark" /\ UNCHANGED <<mainPc, mode, cur, fileChanged>>
    BY <1>3 DEF MarkStore, mainVars, fileVars
  <2>2. fileChanged' /\ mainPc # "write"
    BY <1>k, <2>1 DEF FlagInv
  <2> QED
    BY <1>i, <2>1, <2>2, WorkerFlag
<1>4. ASSUME NEW name \in Name, WorkerFix(w, name) PROVE FlagInv'
  <2>1. UNCHANGED <<worker, mainPc, mode, cur, fileChanged>>
    BY <1>4 DEF WorkerFix, mainVars, fileVars
  <2>2. \A fs : Fits(groups, fs) => Fits(groups', fs)
    BY <1>4, WorkerFixList, FixedFits
  <2>3. mainPc' = "write" => \A v \in Worker : worker[v].pc = "idle"
    BY <2>1 DEF FlagInv
  <2> QED
    BY <1>0, <2>1, <2>2, <2>3, FlagKept
<1>5. ASSUME NEW name \in Name, NEW keep \in CatchupKeep, WorkerCatchup(w, name, keep)
      PROVE  FlagInv'
  <2> DEFINE c == [Idle EXCEPT !.pc = "changed"]
  <2>1. /\ Goto(w, c) /\ mode = "CATCHUP" /\ mainPc # "write"
        /\ UNCHANGED <<mainPc, mode, cur, fileChanged>>
    BY <1>5 DEF WorkerCatchup, InSession, mainVars, fileVars
  <2>2. c \in CallType /\ c.pc = "changed"
    BY <1>i DEF CallType, WorkerPcs
  <2> HIDE DEF c
  <2> QED
    BY <1>0, <2>1, <2>2, WorkerFlag
<1>6. CASE CatchupChanged(w)
  <2>1. /\ Goto(w, Idle) /\ worker[w].pc = "changed" /\ UNCHANGED <<mainPc, mode, cur>>
        /\ fileChanged' = TRUE
    BY <1>6 DEF CatchupChanged, mainVars, fileVars
  <2>2. mainPc # "write"
    BY <1>k, <2>1
  <2> QED
    BY <1>i, <2>1, <2>2, WorkerFlag
<1> QED
  BY <1>1, <1>2, <1>3, <1>4, <1>5, <1>6 DEF WorkerNext

LEMMA MainNextFlag ==
  ASSUME TypeInv, FlagInv, Alive, MainNext
  PROVE  FlagInv'
<1>0. fileChanged \in BOOLEAN
  BY DEF TypeInv, VarsOk
<1>1. ASSUME UNCHANGED <<worker, mode, cur, groups, fileChanged>>,
             mainPc' = "write" => \A w \in Worker : worker[w].pc = "idle"
      PROVE  FlagInv'
  BY <1>0, <1>1, FlagKept
<1>2. ASSUME UNCHANGED <<worker, mode, cur, fileChanged>>, mainPc' # "write", NEW name \in Name,
             ListReset(name, GroupHi[name]) \/ ListDropped(name, GroupLo[name])
               \/ ListFilled(name, GroupLo[name])
      PROVE  FlagInv'
  BY <1>0, <1>2, FixedFits, FlagKept
<1>3. ASSUME NEW name \in Name, MainGroup(name) PROVE FlagInv'
  BY <1>1, <1>3 DEF MainGroup, MainAt, fileVars
<1>4. ASSUME NEW name \in Sendme, SendmeKnown(name) PROVE FlagInv'
  <2>1. mainPc' \in {"add", "fix"} /\ UNCHANGED <<worker, mode, cur, groups, fileChanged>>
    BY <1>4 DEF SendmeKnown, MainAt, fileVars
  <2> QED
    BY <1>1, <2>1
<1>5. CASE SendmeAdd
  <2>1. mainPc' = "fix" /\ fileChanged' = TRUE /\ UNCHANGED <<worker, mode, cur>>
    BY <1>5 DEF SendmeAdd, GrpAdd, MainAt, fileVars
  <2> QED
    BY <1>0, <2>1, FlagKept
<1>6. CASE FixBegin
  <2>1. mainPc' = "fixDrop" /\ UNCHANGED <<worker, mode, cur, fileChanged>>
    BY <1>6 DEF FixBegin, MainAt, fileVars
  <2> QED
    BY <1>2, <1>6, <2>1, FixBeginList
<1>7. CASE FixDropFirst
  <2>1. mainPc' = "fixDrop" /\ UNCHANGED <<worker, mode, cur, fileChanged>>
    BY <1>7 DEF FixDropFirst, MainAt, fileVars
  <2>2. mainName \in Name
    BY <1>7, MainListOk DEF FixDropFirst, MainAt
  <2> QED
    BY <1>2, <1>7, <2>1, <2>2, FixDropFirstList
<1>8. CASE FixEnd
  <2>1. mainPc' = "idle" /\ UNCHANGED <<worker, mode, cur, fileChanged>>
    BY <1>8 DEF FixEnd, MainAt, fileVars
  <2>2. mainName \in Name
    BY <1>8, MainListOk DEF FixEnd, MainAt
  <2> QED
    BY <1>2, <1>8, <2>1, <2>2, FixEndList
<1>9. CASE MainWrite
  <2>1. /\ UNCHANGED <<worker, mode, cur, groups, fileChanged>>
        /\ \A w \in Worker : worker[w] = Idle
    BY <1>9 DEF MainWrite, fileVars
  <2> QED
    BY <1>1, <2>1, IdleOk
<1>10. CASE Interrupt
  <2>1. UNCHANGED <<worker, mode, cur, groups, fileChanged, mainPc>>
    BY <1>10 DEF Interrupt
  <2> QED
    BY <1>1, <2>1 DEF FlagInv
<1> QED
  BY <1>3, <1>4, <1>5, <1>6, <1>7, <1>8, <1>9, <1>10 DEF MainNext

LEMMA InitFlag == Init => FlagInv
<1> SUFFICES ASSUME Init PROVE FlagInv
  OBVIOUS
<1>1. \A w \in Worker : worker[w].pc = "idle"
  BY IdleOk DEF Init
<1>2. PICK f \in OldNewsrc : cur = File(f) /\ cur.lines = f /\ groups = ReadFile(f)
  BY InitFile
<1>3. cur \in OldFiles /\ Fits(groups, ReadFile(cur.lines))
  BY <1>2 DEF OldFiles, Fits
<1> QED
  BY <1>1, <1>3 DEF FlagInv

LEMMA StepFlag ==
  ASSUME TypeInv, FileInv, LockInv, FlagInv, [Next]_vars
  PROVE  FlagInv'
<1>0. fileChanged \in BOOLEAN
  BY DEF TypeInv, VarsOk
<1>1. ASSUME UNCHANGED <<worker, mode, groups, mainPc>>, fileChanged => fileChanged',
             fileChanged' \in BOOLEAN, UNCHANGED cur
      PROVE  FlagInv'
  BY <1>0, <1>1, FlagKept DEF FlagInv
<1>2. CASE UNCHANGED vars
  BY <1>0, <1>1, <1>2 DEF vars, mainVars, fileVars
<1>3. CASE WriteNext
  <2>1. UNCHANGED <<groups, fileChanged, worker, mode, mainPc>>
    BY <1>3, WriteKeeps DEF mainVars
  <2>2. CASE WriteTest
    BY <1>0, <1>1, <2>1, <2>2 DEF WriteTest
  <2>3. CASE ~WriteTest
    <3>1. write \in {"remove", "rename", "open", "put"}
      BY <1>3, <2>3
         DEF WriteNext, WriteRemove, WriteRename, WriteOpen, WritePut, WriteStep
    <3>2. fileChanged'
      BY <2>1, <3>1 DEF LockInv
    <3> QED
      BY <2>1, <3>2 DEF FlagInv
  <2> QED
    BY <2>2, <2>3
<1>4. ASSUME NEW w \in Worker, WorkerNext(w) PROVE FlagInv'
  BY <1>4, WorkerNextFlag
<1>5. ASSUME NEW name \in NewNames, NewGroupMissing(name) PROVE FlagInv'
  BY <1>0, <1>1, <1>5 DEF NewGroupMissing, mainVars, fileVars
<1>6. CASE NewGroupAdd
  <2>1. fileChanged' = TRUE /\ UNCHANGED <<worker, mode, cur, mainPc>>
    BY <1>6 DEF NewGroupAdd, GrpAdd, mainVars, fileVars
  <2> QED
    BY <1>0, <2>1, FlagKept DEF FlagInv
<1>7. CASE Alive /\ MainNext
  BY <1>7, MainNextFlag
<1> QED
  BY <1>2, <1>3, <1>4, <1>5, <1>6, <1>7 DEF Next
-----------------------------------------------------------------------------
(* What the next session reads.                                              *)

\* The set read for a group is the list of its one entry.
LEMMA SavedSetOk ==
  ASSUME Proper(ReadFile(cur.lines)), NEW name, NEW i \in At(ReadFile(cur.lines), name)
  PROVE  SavedSet(name) = Elems(ReadFile(cur.lines)[i].readList)
<1> DEFINE gs == ReadFile(cur.lines)
           is == {j \in DOMAIN gs : gs[j].name = name}
<1>1. is = At(gs, name)
  BY DEF At
<1>2. Len(gs) \in Nat /\ is \subseteq 1 .. Len(gs) /\ is # {}
  BY <1>1, ProperDomain DEF At
<1>3. Max(is) \in is
  <2> HIDE DEF is, gs
  <2> QED
    BY <1>2, MaxOk
<1>4. Max(is) = i
  BY <1>3 DEF At, Proper, Distinct
<1>5. SavedSet(name) = Elems(gs[Max(is)].readList)
  BY <1>2 DEF SavedSet
<1> QED
  BY <1>4, <1>5

\* What MarksSaved says of a group.
Saved(name) ==
  /\ \A n \in ReadSet(name) : n >= GroupLo[name] => n \in SavedSet(name)
  /\ fileChanged => \A n \in SavedSet(name) : n >= GroupLo[name] => n \in ReadSet(name)

\* The set of a group, from the first article on, is the list of its entry.
LEMMA AboveOk ==
  ASSUME Proper(groups), NEW name \in Name, NEW i \in At(groups, name)
  PROVE  /\ Elems(groups[i].readList) \subseteq ReadSet(name)
         /\ \A n \in ReadSet(name) : n >= GroupLo[name] => n \in Elems(groups[i].readList)
<1>1. ReadSet(name) = Elems(groups[i].readList) \cup Pending(mainPc, mainName, name)
  BY ReadFnOk, ReadInOk
<1>2. GroupLo[name] \in Int
  BY NewsrcOK
<1>3. \A n \in Pending(mainPc, mainName, name) : ~(n >= GroupLo[name])
  BY <1>2 DEF Pending
<1> QED
  BY <1>1, <1>3

LEMMA SavedAtEnd ==
  ASSUME TypeInv, NameInv, FileInv, LockInv, FlagInv, Finished, mode = "CATCHUP" => ~handler,
         NEW name \in Name, NEW i \in At(groups, name)
  PROVE  Saved(name)
<1>1. Proper(groups)
  BY DEF TypeInv, GroupsOk, ListsNormal, NameInv, Proper
<1>2. /\ Elems(groups[i].readList) \subseteq ReadSet(name)
      /\ \A n \in ReadSet(name) : n >= GroupLo[name] => n \in Elems(groups[i].readList)
  BY <1>1, AboveOk
<1>3. CASE cur = File(Written(groups, Len(groups)))
  <2>1. cur.lines = Written(groups, Len(groups))
    BY <1>3 DEF File
  <2>2. ReadFile(cur.lines) = groups
    BY <1>1, <2>1, ReadBack
  <2>3. SavedSet(name) = Elems(groups[i].readList)
    <3>1. Proper(ReadFile(cur.lines)) /\ i \in At(ReadFile(cur.lines), name)
      BY <1>1, <2>2
    <3>2. SavedSet(name) = Elems(ReadFile(cur.lines)[i].readList)
      BY <3>1, SavedSetOk
    <3> QED
      BY <2>2, <3>2
  <2> QED
    BY <1>2, <2>3 DEF Saved
<1>4. CASE cur \in OldFiles /\ (groups = <<>> \/ ~fileChanged)
  <2>1. i \in DOMAIN groups /\ groups[i].name = name
    BY DEF At
  <2>2. ~fileChanged
    <3>1. groups # <<>>
      BY <2>1
    <3> QED
      BY <1>4, <3>1
  <2>3. ~\E w \in Worker : worker[w].pc = "changed"
    <3>1. ASSUME NEW w \in Worker, worker[w].pc = "changed" PROVE FALSE
      <4>1. mode = "CATCHUP" /\ mainPc # "write"
        BY <3>1 DEF FlagInv
      <4>2. handler
        BY <4>1 DEF FileInv, Finished
      <4> QED
        BY <4>1, <4>2
    <3> QED
      BY <3>1
  <2> DEFINE fs == ReadFile(cur.lines)
  <2>4. Fits(groups, fs)
    BY <2>2, <2>3 DEF FlagInv
  <2>5. Proper(fs)
    <3>1. PICK f \in OldNewsrc : cur = File(f)
      BY <1>4 DEF OldFiles
    <3>2. cur.lines = f /\ f \in Seq(LineType)
      BY <3>1, NewsrcOK DEF File
    <3> QED
      BY <3>2, ReadFileOk
  <2> HIDE DEF fs
  <2>6. /\ i \in DOMAIN fs /\ fs[i].name = name
        /\ \A n \in Elems(groups[i].readList) : n >= GroupLo[name] => n \in Elems(fs[i].readList)
    <3>1. DOMAIN fs = DOMAIN groups
      BY <1>1, <2>4, <2>5, ProperDomain DEF Fits
    <3> QED
      BY <2>1, <2>4, <3>1 DEF Fits
  <2>7. SavedSet(name) = Elems(fs[i].readList)
    <3>1. i \in At(fs, name)
      BY <2>6 DEF At
    <3> QED
      BY <2>5, <3>1, SavedSetOk DEF fs
  <2> QED
    BY <1>2, <2>2, <2>6, <2>7 DEF Saved
<1> QED
  BY <1>3, <1>4 DEF FileInv, Finished

\* When the program ends, by itself or in a reception by ^C, the newsrc on disk says of each
\* article the server has what the newsrc in memory says, if the user does not interrupt the
\* writing and no new group is also named in the file COMMANDS.
THEOREM MarksAlwaysSaved ==
  ASSUME ~InterruptWrite, NewNames \cap Sendme = {}
  PROVE  Spec => []MarksSaved
<1>1. TypeInv /\ NameInv /\ FileInv /\ LockInv /\ FlagInv => MarksSaved
  <2> SUFFICES ASSUME TypeInv, NameInv, FileInv, LockInv, FlagInv,
                      Finished, mode = "CATCHUP" => ~handler,
                      NEW name \in {groups[i].name : i \in DOMAIN groups}
               PROVE  LET above(S) == {n \in S : n >= GroupLo[name]}
                      IN  /\ above(ReadSet(name)) \subseteq SavedSet(name)
                          /\ fileChanged => above(SavedSet(name)) \subseteq ReadSet(name)
    BY DEF MarksSaved
  <2>1. PICK i \in At(groups, name) : name \in Name
    BY GroupsDomain DEF At, TypeInv
  <2>2. Saved(name)
    BY <2>1, SavedAtEnd
  <2> QED
    BY <2>2 DEF Saved
<1>2. TypeInv /\ FileInv /\ LockInv /\ FlagInv /\ [Next]_vars => FlagInv'
  BY StepFlag
<1>3. Spec => []NameInv
  BY NeverTwice, PTL
<1>4. Spec => [](FileInv /\ LockInv)
  BY FilesInvariant
<1> QED
  BY <1>1, <1>2, <1>3, <1>4, InitFlag, TypesInvariant, PTL DEF Spec
=============================================================================
