------------------------- MODULE ArticleFlowProofs -------------------------
(***************************************************************************)
(* Proofs about ArticleFlow: for any number of threads, groups, articles   *)
(* and areas, and whatever the score file says, messages are not mixed up  *)
(* in the files, and a stored article is whole in one file that AREAS      *)
(* lists for its group; and an article is killed only if the rules for its *)
(* own group ask for it, whatever the other threads do to the list of      *)
(* sections.                                                               *)
(***************************************************************************)
EXTENDS ArticleFlow, SequenceTheorems, WellFoundedInduction, TLAPS

Frame == [art : Articles \union {NoArticle}, body : BOOLEAN, len : BOOLEAN]
Area  == [id : Groups \union {NoArea}, file : Nat]

\* The types of the variables the proof is about, the score of a thread left open.
Threaded ==
  /\ thread = [t \in Threads |-> thread[t]]
  /\ \A t \in Threads :
       /\ thread[t] = [at |-> thread[t].at, art |-> thread[t].art, score |-> thread[t].score]
       /\ thread[t].at \in Places
       /\ thread[t].at # "idle" => thread[t].art \in Articles /\ fate[thread[t].art] = "taken"
       /\ thread[t].at = "idle" => thread[t].art = NoArticle
  /\ \A t, u \in Threads : t # u /\ thread[t].at # "idle" => thread[t].art # thread[u].art
  /\ fate \in [Articles -> Fates]

Filing ==
  /\ files \in Seq(Seq(Frame)) /\ msgCounter = Len(files)
  /\ msgF \in 0 .. Len(files) /\ msgLenPos \in Nat \union {-1}
  /\ fifo \in [0 .. Fifo - 1 -> Area] /\ fifoNext \in 0 .. Fifo - 1 /\ fifoMsgF \in 0 .. Fifo - 1
  /\ \A i \in 0 .. Fifo - 1 : fifo[i].id # NoArea => fifo[i].file \in 1 .. Len(files)
  /\ areas \in Seq([file : 1 .. Len(files), id : Groups])
  /\ areasOpen \in BOOLEAN /\ msgStarted \in BOOLEAN

\* The packet is closed once, and what was under way then is known.
Closing ==
  /\ handler \in {"no", "signal", "closed", "exit"}
  /\ areasOpen <=> handler \in {"no", "signal"}
  /\ IF areasOpen THEN cutOff = {} ELSE \A a \in Articles : fate[a] = "taken" => a \in cutOff

InMessage == {"file", "room", "write", "length", "stop"}
HasFrame  == {"write", "length", "stop"}

\* The semaphore: the writer is the thread between msgStart and msgStop.
Writing ==
  /\ \A t \in Threads : thread[t].at \in InMessage <=> writer = t
  /\ msgStarted => writer \in Threads
  /\ areasOpen /\ writer \in Threads => msgStarted

\* What the list of areas says is what AREAS says, while it is written.
Listing ==
  areasOpen =>
    /\ \A i \in 0 .. Fifo - 1 : fifo[i].id # NoArea => Listed(fifo[i].file) = {fifo[i].id}
    /\ fifo[fifoMsgF].id # NoArea => msgF = fifo[fifoMsgF].file

\* The message being written is the last one of the open file.
Own(t) ==
  /\ msgF # 0
  /\ msgLenPos \in Nat /\ Len(files[msgF]) = msgLenPos + 1
  /\ files[msgF][Len(files[msgF])].art = thread[t].art

CurrentOf(t) ==
  /\ thread[t].at \in HasFrame => msgF = 0 \/ Own(t)
  /\ areasOpen /\ thread[t].at \in HasFrame \union {"room"} =>
       msgF # 0 /\ Listed(msgF) = {GroupOf[thread[t].art]}
  /\ areasOpen /\ thread[t].at \in HasFrame =>
       \A n \in DOMAIN files : \A i \in DOMAIN files[n] :
         files[n][i].art = thread[t].art => n = msgF /\ i = Len(files[n])

Current == \A t \in Threads : CurrentOf(t)

Absent(a) == \A n \in DOMAIN files : \A i \in DOMAIN files[n] : files[n][i].art # a

\* An article that has not got that far is in no file.
Early == {"head", "body", "start", "file", "room"}

Fresh ==
  \A a \in Articles :
    fate[a] = "open" \/ (\E t \in Threads : thread[t].at \in Early /\ thread[t].art = a) => Absent(a)

\* Apart, with the threads that write.
Partial ==
  areasOpen =>
    \A n \in DOMAIN files : \A i \in DOMAIN files[n] :
      ~Whole(files[n][i]) =>
        /\ n = msgF /\ i = Len(files[n])
        /\ \E t \in Threads : \/ thread[t].at = "write"
                              \/ thread[t].at = "length" /\ files[n][i].body

InPlace(a) ==
  \E n \in DOMAIN files :
    /\ Copies(a) = {n} /\ Listed(n) = {GroupOf[a]}
    /\ \A i \in DOMAIN files[n] : files[n][i].art = a => Whole(files[n][i])

\* Filed, also of the articles that are about to be marked.
Done ==
  \A a \in Articles \ cutOff :
    fate[a] = "stored" \/ (\E t \in Threads : thread[t].at = "mark" /\ thread[t].art = a) => InPlace(a)

FlowInv ==
  /\ Threaded /\ Filing /\ Closing
  /\ Writing /\ Listing /\ Current /\ Fresh /\ Partial /\ Done

----------------------------------------------------------------------------
(* Steps of the threads *)

LEMMA GotoThread ==
  ASSUME Threaded, NEW t \in Threads, NEW place \in Places \ {"idle"}, Goto(t, place),
         thread[t].at # "idle", fate' = fate
  PROVE  /\ Threaded'
         /\ thread'[t].at = place /\ thread'[t].art = thread[t].art
         /\ \A u \in Threads : u # t => thread'[u] = thread[u]
<1>1. thread'[t] = [thread[t] EXCEPT !.at = place] /\ \A u \in Threads : u # t => thread'[u] = thread[u]
  BY DEF Threaded, Goto
<1>2. thread'[t] = [at |-> place, art |-> thread[t].art, score |-> thread[t].score]
  BY <1>1 DEF Threaded
<1>3. thread' = [u \in Threads |-> thread'[u]]
  BY DEF Threaded, Goto
<1> QED BY <1>1, <1>2, <1>3 DEF Threaded

LEMMA EndsThread ==
  ASSUME Threaded, NEW t \in Threads, NEW a \in Articles, NEW what \in Fates \ {"taken"},
         thread[t].at # "idle", thread[t].art = a, Ends(t, a, what)
  PROVE  /\ Threaded'
         /\ thread'[t].at = "idle"
         /\ \A u \in Threads : u # t => thread'[u] = thread[u]
         /\ fate'[a] = what /\ \A b \in Articles : b # a => fate'[b] = fate[b]
<1>1. thread'[t] = Idle /\ \A u \in Threads : u # t => thread'[u] = thread[u]
  BY DEF Threaded, Ends
<1>2. thread' = [u \in Threads |-> thread'[u]]
  BY DEF Threaded, Ends
<1>3. fate' \in [Articles -> Fates] /\ fate'[a] = what /\ \A b \in Articles : b # a => fate'[b] = fate[b]
  BY DEF Threaded, Ends
<1>4. \A u \in Threads : u # t /\ thread[u].at # "idle" => fate'[thread[u].art] = "taken"
  BY <1>3 DEF Threaded
<1>5. \A u \in Threads :
        /\ thread'[u] = [at |-> thread'[u].at, art |-> thread'[u].art, score |-> thread'[u].score]
        /\ thread'[u].at \in Places
        /\ thread'[u].at # "idle" => thread'[u].art \in Articles /\ fate'[thread'[u].art] = "taken"
        /\ thread'[u].at = "idle" => thread'[u].art = NoArticle
  <2> SUFFICES ASSUME NEW u \in Threads
               PROVE  /\ thread'[u] = [at |-> thread'[u].at, art |-> thread'[u].art, score |-> thread'[u].score]
                      /\ thread'[u].at \in Places
                      /\ thread'[u].at # "idle" => thread'[u].art \in Articles /\ fate'[thread'[u].art] = "taken"
                      /\ thread'[u].at = "idle" => thread'[u].art = NoArticle
    OBVIOUS
  <2>1. CASE u = t
    BY <1>1, <2>1 DEF Idle, Places
  <2>2. CASE u # t
    BY <1>1, <1>4, <2>2 DEF Threaded
  <2> QED BY <2>1, <2>2
<1>6. \A u, v \in Threads : u # v /\ thread'[u].at # "idle" => thread'[u].art # thread'[v].art
  <2> SUFFICES ASSUME NEW u \in Threads, NEW v \in Threads, u # v, thread'[u].at # "idle"
               PROVE  thread'[u].art # thread'[v].art
    OBVIOUS
  <2>0. thread'[t].at = "idle" /\ thread'[t].art = NoArticle
    BY <1>1 DEF Idle
  <2>1. u # t
    BY <2>0
  <2>4. thread'[u].art \in Articles
    BY <1>5
  <2>2. CASE v = t
    BY <2>0, <2>2, <2>4, ArticleFlowAssumption
  <2>3. CASE v # t
    BY <1>1, <2>1, <2>3 DEF Threaded
  <2> QED BY <2>2, <2>3
<1> QED BY <1>1, <1>2, <1>3, <1>5, <1>6 DEF Threaded, Idle

LEMMA TakeThread ==
  ASSUME Threaded, NEW t \in Threads, NEW a \in Articles, Take(t, a)
  PROVE  /\ Threaded'
         /\ thread'[t].at = "head" /\ thread'[t].art = a
         /\ \A u \in Threads : u # t => thread'[u] = thread[u]
         /\ fate'[a] = "taken" /\ \A b \in Articles : b # a => fate'[b] = fate[b]
<1>1. /\ thread'[t] = [at |-> "head", art |-> a, score |-> 0]
      /\ \A u \in Threads : u # t => thread'[u] = thread[u]
      /\ thread' = [u \in Threads |-> thread'[u]]
  BY DEF Threaded, Take
<1>2. fate' \in [Articles -> Fates] /\ fate'[a] = "taken" /\ \A b \in Articles : b # a => fate'[b] = fate[b]
  BY DEF Threaded, Take, Fates
<1>3. fate[a] = "open" /\ thread[t].at = "idle"
  BY DEF Take
<1>4. \A u \in Threads : u # t /\ thread[u].at # "idle" => thread[u].art # a /\ fate'[thread[u].art] = "taken"
  BY <1>2, <1>3 DEF Threaded
<1>5. \A u \in Threads :
        /\ thread'[u] = [at |-> thread'[u].at, art |-> thread'[u].art, score |-> thread'[u].score]
        /\ thread'[u].at \in Places
        /\ thread'[u].at # "idle" => thread'[u].art \in Articles /\ fate'[thread'[u].art] = "taken"
        /\ thread'[u].at = "idle" => thread'[u].art = NoArticle
  <2> SUFFICES ASSUME NEW u \in Threads
               PROVE  /\ thread'[u] = [at |-> thread'[u].at, art |-> thread'[u].art, score |-> thread'[u].score]
                      /\ thread'[u].at \in Places
                      /\ thread'[u].at # "idle" => thread'[u].art \in Articles /\ fate'[thread'[u].art] = "taken"
                      /\ thread'[u].at = "idle" => thread'[u].art = NoArticle
    OBVIOUS
  <2>1. CASE u = t
    BY <1>1, <1>2, <2>1 DEF Places
  <2>2. CASE u # t
    BY <1>1, <1>4, <2>2 DEF Threaded
  <2> QED BY <2>1, <2>2
<1>6. \A u, v \in Threads : u # v /\ thread'[u].at # "idle" => thread'[u].art # thread'[v].art
  <2> SUFFICES ASSUME NEW u \in Threads, NEW v \in Threads, u # v, thread'[u].at # "idle"
               PROVE  thread'[u].art # thread'[v].art
    OBVIOUS
  <2>1. CASE u = t
    <3>1. thread'[u].art = a /\ thread'[v] = thread[v]
      BY <1>1, <2>1
    <3>2. fate[thread[v].art] = "taken" \/ thread[v].art = NoArticle
      BY DEF Threaded
    <3> QED BY <1>3, <3>1, <3>2, ArticleFlowAssumption
  <2>2. CASE v = t
    <3>1. thread'[u] = thread[u] /\ thread'[v].art = a
      BY <1>1, <2>2
    <3> QED BY <1>4, <2>2, <3>1
  <2>3. CASE u # t /\ v # t
    BY <1>1, <2>3 DEF Threaded
  <2> QED BY <2>1, <2>2, <2>3
<1> QED BY <1>1, <1>2, <1>5, <1>6 DEF Threaded

----------------------------------------------------------------------------
(* Frames *)

\* What is filed of an article stays where it is.
Unmoved(a) ==
  /\ DOMAIN files \subseteq DOMAIN files'
  /\ \A n \in DOMAIN files : \A i \in DOMAIN files[n] :
       files[n][i].art = a => i \in DOMAIN files'[n] /\ files'[n][i] = files[n][i]
  /\ \A n \in DOMAIN files' : \A i \in DOMAIN files'[n] :
       files'[n][i].art = a => n \in DOMAIN files /\ i \in DOMAIN files[n] /\ files[n][i] = files'[n][i]

ListsKept == \A n \in DOMAIN files : Listed(n)' = Listed(n)

LEMMA UnmovedCopies ==
  ASSUME NEW a \in Articles, Unmoved(a)
  PROVE  Copies(a)' = Copies(a)
BY DEF Unmoved, Copies

LEMMA UnmovedAbsent ==
  ASSUME NEW a \in Articles, Unmoved(a), Absent(a)
  PROVE  Absent(a)'
BY DEF Unmoved, Absent

LEMMA UnmovedInPlace ==
  ASSUME NEW a \in Articles, Unmoved(a), ListsKept, InPlace(a)
  PROVE  InPlace(a)'
<1>1. PICK n \in DOMAIN files :
        /\ Copies(a) = {n} /\ Listed(n) = {GroupOf[a]}
        /\ \A i \in DOMAIN files[n] : files[n][i].art = a => Whole(files[n][i])
  BY DEF InPlace
<1>2. n \in DOMAIN files' /\ Copies(a)' = {n} /\ Listed(n)' = {GroupOf[a]}
  BY <1>1, UnmovedCopies DEF Unmoved, ListsKept
<1>3. \A i \in DOMAIN files'[n] : files'[n][i].art = a => Whole(files'[n][i])
  BY <1>1, <1>2 DEF Unmoved
<1> QED BY <1>2, <1>3 DEF InPlace

LEMMA FilesSame ==
  ASSUME files' = files, areas' = areas
  PROVE  ListsKept /\ \A a \in Articles : Unmoved(a) /\ (InPlace(a)' <=> InPlace(a))
<1>1. \A n : Listed(n)' = Listed(n)
  BY DEF Listed
<1>2. \A a \in Articles : Copies(a)' = Copies(a)
  BY DEF Copies
<1>3. \A a \in Articles : InPlace(a)' <=> InPlace(a)
  BY <1>1, <1>2 DEF InPlace
<1> QED BY <1>1, <1>3 DEF ListsKept, Unmoved

LEMMA SpoolSame ==
  ASSUME UNCHANGED spoolVars
  PROVE  /\ ListsKept /\ \A a \in Articles : Unmoved(a)
         /\ \A n : Listed(n)' = Listed(n)
         /\ \A a \in Articles : (InPlace(a)' <=> InPlace(a)) /\ (Absent(a)' <=> Absent(a))
<1>1. files' = files /\ areas' = areas
  BY DEF spoolVars, listVars
<1>2. \A n : Listed(n)' = Listed(n)
  BY <1>1 DEF Listed
<1>3. \A a \in Articles : Copies(a)' = Copies(a) /\ (Absent(a)' <=> Absent(a))
  BY <1>1 DEF Copies, Absent
<1>4. \A a \in Articles : InPlace(a)' <=> InPlace(a)
  BY <1>1, <1>2, <1>3 DEF InPlace
<1>5. ListsKept
  BY <1>2 DEF ListsKept
<1>6. \A a \in Articles : Unmoved(a)
  BY <1>1 DEF Unmoved
<1> QED BY <1>2, <1>3, <1>4, <1>5, <1>6

LEMMA ReplaceFile ==
  ASSUME Filing, msgF # 0, NEW s \in Seq(Frame), files' = [files EXCEPT ![msgF] = s]
  PROVE  /\ files' \in Seq(Seq(Frame)) /\ Len(files') = Len(files)
         /\ files'[msgF] = s
         /\ \A n \in DOMAIN files : n # msgF => files'[n] = files[n]
BY DEF Filing

\* A frame behind the last one of the open file.
LEMMA AppendFrame ==
  ASSUME Filing, msgF # 0, NEW fr \in Frame, areas' = areas,
         files' = [files EXCEPT ![msgF] = Append(@, fr)]
  PROVE  /\ files' \in Seq(Seq(Frame)) /\ Len(files') = Len(files)
         /\ Len(files'[msgF]) = Len(files[msgF]) + 1
         /\ files'[msgF][Len(files[msgF]) + 1] = fr
         /\ \A n \in DOMAIN files : \A i \in DOMAIN files[n] : files'[n][i] = files[n][i]
         /\ \A n \in DOMAIN files' : \A i \in DOMAIN files'[n] :
              \/ n \in DOMAIN files /\ i \in DOMAIN files[n]
              \/ n = msgF /\ i = Len(files[msgF]) + 1
         /\ ListsKept
         /\ \A b \in Articles : b # fr.art => Unmoved(b)
<1>1. msgF \in 1 .. Len(files) /\ files[msgF] \in Seq(Frame)
  BY DEF Filing
<1>2. Append(files[msgF], fr) \in Seq(Frame)
  BY <1>1
<1>3. /\ files' \in Seq(Seq(Frame)) /\ Len(files') = Len(files)
      /\ files'[msgF] = Append(files[msgF], fr)
      /\ \A n \in DOMAIN files : n # msgF => files'[n] = files[n]
  BY <1>1, <1>2, ReplaceFile
<1>4. /\ Len(files'[msgF]) = Len(files[msgF]) + 1
      /\ files'[msgF][Len(files[msgF]) + 1] = fr
      /\ \A i \in DOMAIN files[msgF] : files'[msgF][i] = files[msgF][i]
  BY <1>1, <1>3
<1>5. DOMAIN files' = DOMAIN files /\ DOMAIN files'[msgF] = 1 .. Len(files[msgF]) + 1
      /\ DOMAIN files[msgF] = 1 .. Len(files[msgF]) /\ Len(files[msgF]) \in Nat
  BY <1>1, <1>2, <1>3 DEF Filing
<1>6. \A n \in DOMAIN files' : \A i \in DOMAIN files'[n] :
        \/ n \in DOMAIN files /\ i \in DOMAIN files[n]
        \/ n = msgF /\ i = Len(files[msgF]) + 1
  BY <1>3, <1>5
<1>7. \A n \in DOMAIN files : \A i \in DOMAIN files[n] : i \in DOMAIN files'[n] /\ files'[n][i] = files[n][i]
  BY <1>3, <1>4, <1>5
<1>8. ListsKept
  BY DEF ListsKept, Listed
<1>9. \A b \in Articles : b # fr.art => Unmoved(b)
  BY <1>4, <1>5, <1>6, <1>7 DEF Unmoved
<1> QED BY <1>3, <1>4, <1>6, <1>7, <1>8, <1>9

\* One frame of the open file is changed, but not its article.
LEMMA ChangeFrame ==
  ASSUME Filing, msgF # 0, NEW k \in DOMAIN files[msgF], NEW fr \in Frame, areas' = areas,
         fr.art = files[msgF][k].art,
         files' = [files EXCEPT ![msgF] = [@ EXCEPT ![k] = fr]]
  PROVE  /\ files' \in Seq(Seq(Frame)) /\ Len(files') = Len(files)
         /\ \A n \in DOMAIN files : DOMAIN files'[n] = DOMAIN files[n] /\ Len(files'[n]) = Len(files[n])
         /\ files'[msgF][k] = fr
         /\ \A n \in DOMAIN files : \A i \in DOMAIN files[n] :
              n # msgF \/ i # k => files'[n][i] = files[n][i]
         /\ ListsKept
         /\ \A b \in Articles : b # fr.art => Unmoved(b)
<1>1. msgF \in 1 .. Len(files) /\ files[msgF] \in Seq(Frame)
  BY DEF Filing
<1> DEFINE s == [files[msgF] EXCEPT ![k] = fr]
<1>2. s \in Seq(Frame) /\ DOMAIN s = DOMAIN files[msgF] /\ Len(s) = Len(files[msgF])
      /\ s[k] = fr /\ \A i \in DOMAIN files[msgF] : i # k => s[i] = files[msgF][i]
  BY <1>1
<1>3. /\ files' \in Seq(Seq(Frame)) /\ Len(files') = Len(files)
      /\ files'[msgF] = s
      /\ \A n \in DOMAIN files : n # msgF => files'[n] = files[n]
  BY <1>1, <1>2, ReplaceFile
<1> HIDE DEF s
<1>4. DOMAIN files' = DOMAIN files
  BY <1>3 DEF Filing
<1>5. \A n \in DOMAIN files : DOMAIN files'[n] = DOMAIN files[n] /\ Len(files'[n]) = Len(files[n])
  BY <1>2, <1>3
<1>6. \A n \in DOMAIN files : \A i \in DOMAIN files[n] :
        n # msgF \/ i # k => files'[n][i] = files[n][i]
  BY <1>2, <1>3
<1>7. ListsKept
  BY DEF ListsKept, Listed
<1>8. \A b \in Articles : b # fr.art => Unmoved(b)
  BY <1>2, <1>3, <1>4, <1>5, <1>6 DEF Unmoved
<1> QED BY <1>2, <1>3, <1>5, <1>6, <1>7, <1>8

\* The last frame of the open file is cut off.
LEMMA CutFrame ==
  ASSUME Filing, msgF # 0, msgLenPos \in Nat, Len(files[msgF]) = msgLenPos + 1, areas' = areas,
         files' = [files EXCEPT ![msgF] = Cut(@, msgLenPos)]
  PROVE  /\ files' \in Seq(Seq(Frame)) /\ Len(files') = Len(files)
         /\ ListsKept
         /\ \A n \in DOMAIN files' : \A i \in DOMAIN files'[n] :
              n \in DOMAIN files /\ i \in DOMAIN files[n] /\ files'[n][i] = files[n][i]
         /\ \A b \in Articles : b # files[msgF][Len(files[msgF])].art => Unmoved(b)
<1>1. msgF \in 1 .. Len(files) /\ files[msgF] \in Seq(Frame)
  BY DEF Filing
<1> DEFINE s == [i \in 1 .. msgLenPos |-> files[msgF][i]]
<1>2. Cut(files[msgF], msgLenPos) = s
  BY <1>1 DEF Cut
<1>3. s \in Seq(Frame) /\ DOMAIN s = 1 .. msgLenPos /\ DOMAIN files[msgF] = 1 .. msgLenPos + 1
      /\ \A i \in 1 .. msgLenPos : s[i] = files[msgF][i]
  BY <1>1
<1> HIDE DEF s
<1>4. /\ files' \in Seq(Seq(Frame)) /\ Len(files') = Len(files)
      /\ files'[msgF] = s
      /\ \A n \in DOMAIN files : n # msgF => files'[n] = files[n]
  BY <1>1, <1>2, <1>3, ReplaceFile
<1>5. DOMAIN files' = DOMAIN files
  BY <1>4 DEF Filing
<1>6. \A n \in DOMAIN files' : \A i \in DOMAIN files'[n] :
        n \in DOMAIN files /\ i \in DOMAIN files[n] /\ files'[n][i] = files[n][i]
  BY <1>3, <1>4, <1>5
<1>7. ListsKept
  BY DEF ListsKept, Listed
<1>8. \A b \in Articles : b # files[msgF][Len(files[msgF])].art => Unmoved(b)
  <2> SUFFICES ASSUME NEW b \in Articles, b # files[msgF][Len(files[msgF])].art
               PROVE  Unmoved(b)
    OBVIOUS
  <2>1. \A n \in DOMAIN files : \A i \in DOMAIN files[n] :
          files[n][i].art = b => i \in DOMAIN files'[n] /\ files'[n][i] = files[n][i]
    BY <1>3, <1>4
  <2> QED BY <1>5, <1>6, <2>1 DEF Unmoved
<1> QED BY <1>4, <1>6, <1>7, <1>8

----------------------------------------------------------------------------
(* Steps outside of the message files *)

LEMMA Elsewhere ==
  ASSUME FlowInv, UNCHANGED spoolVars, Threaded', Closing',
         \A t \in Threads : thread[t].at \in InMessage \/ thread'[t].at \in InMessage => thread'[t] = thread[t],
         Fresh', Done'
  PROVE  FlowInv'
<1>1. Filing'
  BY DEF FlowInv, Filing, spoolVars, listVars, fifoVars
<1>2. Writing'
  BY DEF FlowInv, Writing, spoolVars, listVars, InMessage
<1>3. \A n : Listed(n)' = Listed(n)
  BY SpoolSame
<1>4. Listing'
  BY <1>3 DEF FlowInv, Listing, spoolVars, listVars, fifoVars
<1>5. \A t \in Threads : thread'[t].at \in InMessage => thread'[t] = thread[t]
  OBVIOUS
<1>6. Current'
  <2> SUFFICES ASSUME NEW t \in Threads, thread'[t].at \in InMessage
               PROVE  CurrentOf(t)'
    BY DEF Current, CurrentOf, HasFrame, InMessage
  <2>1. thread'[t] = thread[t]
    BY <1>5
  <2> QED BY <1>3, <2>1 DEF FlowInv, Current, CurrentOf, Own, spoolVars, listVars
<1>7. Partial'
  BY DEF FlowInv, Partial, spoolVars, listVars, InMessage
<1> QED BY <1>1, <1>2, <1>4, <1>6, <1>7 DEF FlowInv

LEMMA InitFlow == Init => FlowInv
<1> SUFFICES ASSUME Init PROVE FlowInv
  OBVIOUS
<1> USE ArticleFlowAssumption
<1>0. /\ files = << >> /\ areas = << >> /\ areasOpen = TRUE /\ msgF = 0 /\ msgCounter = 0
      /\ fifo = [i \in 0 .. Fifo - 1 |-> [id |-> NoArea, file |-> 0]] /\ fifoNext = 0 /\ fifoMsgF = 0
      /\ msgStarted = FALSE /\ msgLenPos = -1 /\ writer = NoWriter
      /\ thread = [t \in Threads |-> Idle] /\ fate = [a \in Articles |-> "open"]
      /\ handler = "no" /\ cutOff = {}
  BY DEF Init, SpoolInit
<1>1. \A t \in Threads : thread[t] = Idle
  BY <1>0
<1>2. Threaded
  BY <1>0, <1>1 DEF Threaded, Idle, Places, Fates
<1>3. Filing
  <2>1. fifo \in [0 .. Fifo - 1 -> Area] /\ \A i \in 0 .. Fifo - 1 : fifo[i].id = NoArea
    BY <1>0 DEF Area
  <2>2. 0 \in 0 .. Fifo - 1
    OBVIOUS
  <2>3. files \in Seq(Seq(Frame)) /\ Len(files) = 0 /\ areas \in Seq([file : 1 .. Len(files), id : Groups])
    BY <1>0
  <2>4. \A i \in 0 .. Fifo - 1 : fifo[i].id # NoArea => fifo[i].file \in 1 .. Len(files)
    BY <2>1
  <2>5. /\ msgCounter = Len(files) /\ msgF \in 0 .. Len(files) /\ msgLenPos \in Nat \union {-1}
        /\ fifoNext \in 0 .. Fifo - 1 /\ fifoMsgF \in 0 .. Fifo - 1
        /\ areasOpen \in BOOLEAN /\ msgStarted \in BOOLEAN
    <3>1. msgCounter = 0 /\ msgF = 0 /\ msgLenPos = -1 /\ fifoNext = 0 /\ fifoMsgF = 0
      BY <1>0
    <3>2. areasOpen = TRUE /\ msgStarted = FALSE
      BY <1>0
    <3>3. msgCounter = Len(files) /\ msgF \in 0 .. Len(files) /\ msgLenPos \in Nat \union {-1}
      BY <2>3, <3>1
    <3> QED BY <2>2, <3>1, <3>2, <3>3
  <2> QED BY <2>1, <2>3, <2>4, <2>5 DEF Filing
<1>4. Closing
  BY <1>0 DEF Closing
<1>5. \A t \in Threads : thread[t].at = "idle"
  BY <1>1 DEF Idle
<1>6. Writing
  BY <1>0, <1>5 DEF Writing, InMessage
<1>7. Listing
  BY <1>0 DEF Listing
<1>8. Current
  BY <1>5 DEF Current, CurrentOf, HasFrame
<1>9. Fresh /\ Partial
  BY <1>0, <1>5 DEF Fresh, Partial, Absent
<1>10. Done
  BY <1>0, <1>5 DEF Done
<1> QED BY <1>2, <1>3, <1>4, <1>6, <1>7, <1>8, <1>9, <1>10 DEF FlowInv

\* A step that leaves the packet, the threads and the handler alone.
LEMMA KillQStep ==
  ASSUME FlowInv, NEW g \in Groups, KillQBuild(g) \/ KillQLook(g)
  PROVE  FlowInv'
<1>1. UNCHANGED <<spoolVars, thread, fate, handler, cutOff>>
  BY DEF KillQBuild, KillQLook
<1>2. areasOpen' = areasOpen
  BY <1>1 DEF spoolVars, listVars
<1>3. Threaded' /\ Closing'
  BY <1>1, <1>2 DEF FlowInv, Threaded, Closing
<1>4. Fresh' /\ Done'
  BY <1>1, SpoolSame DEF FlowInv, Fresh, Done, Threaded
<1> QED BY <1>1, <1>3, <1>4, Elsewhere

LEMMA SignalStep ==
  ASSUME FlowInv, Signal \/ HandlerExit
  PROVE  FlowInv'
<1>1. UNCHANGED <<spoolVars, thread, fate, cutOff>>
  BY DEF Signal, HandlerExit
<1>2. areasOpen' = areasOpen
  BY <1>1 DEF spoolVars, listVars
<1>3. Threaded' /\ Closing'
  BY <1>1, <1>2 DEF FlowInv, Threaded, Closing, Signal, HandlerExit
<1>4. Fresh' /\ Done'
  BY <1>1, SpoolSame DEF FlowInv, Fresh, Done, Threaded
<1> QED BY <1>1, <1>3, <1>4, Elsewhere

LEMMA TakeStep ==
  ASSUME FlowInv, NEW t \in Threads, NEW a \in Articles, Take(t, a)
  PROVE  FlowInv'
<1>1. UNCHANGED <<spoolVars, handler, cutOff>> /\ handler = "no" /\ thread[t].at = "idle" /\ fate[a] = "open"
  BY DEF Take, Online
<1>2. /\ Threaded'
      /\ thread'[t].at = "head" /\ thread'[t].art = a
      /\ \A u \in Threads : u # t => thread'[u] = thread[u]
      /\ fate'[a] = "taken" /\ \A b \in Articles : b # a => fate'[b] = fate[b]
  BY TakeThread DEF FlowInv
<1>3. Closing'
  BY <1>1 DEF FlowInv, Closing, spoolVars, listVars
<1>4. \A u \in Threads : thread[u].at \in InMessage \/ thread'[u].at \in InMessage => thread'[u] = thread[u]
  BY <1>1, <1>2 DEF InMessage
<1>5. Fresh'
  <2>1. \A b \in Articles : b # a =>
          (fate'[b] = "open" \/ (\E u \in Threads : thread'[u].at \in Early /\ thread'[u].art = b)
           => fate[b] = "open" \/ (\E u \in Threads : thread[u].at \in Early /\ thread[u].art = b))
    BY <1>2
  <2> QED BY <1>1, <2>1, SpoolSame DEF FlowInv, Fresh
<1>6. Done'
  <2>1. \A b \in Articles :
          (fate'[b] = "stored" \/ (\E u \in Threads : thread'[u].at = "mark" /\ thread'[u].art = b)
           => fate[b] = "stored" \/ (\E u \in Threads : thread[u].at = "mark" /\ thread[u].art = b))
    BY <1>2
  <2> QED BY <1>1, <2>1, SpoolSame DEF FlowInv, Done
<1> QED BY <1>1, <1>2, <1>3, <1>4, <1>5, <1>6, Elsewhere

\* An article that is killed or fails, or goes on to the next place, before it is written.
LEMMA EarlyEnd ==
  ASSUME FlowInv, NEW t \in Threads, NEW a \in Articles, NEW what \in Fates \ {"taken", "open"},
         At(t, "head", a) \/ At(t, "body", a) \/ (At(t, "mark", a) /\ what = "stored"),
         what = "stored" => At(t, "mark", a),
         Ends(t, a, what), UNCHANGED <<spoolVars, handler, cutOff>>
  PROVE  FlowInv'
<1>1. /\ thread[t].at \in {"head", "body", "mark"} /\ thread[t].art = a
      /\ what = "stored" => thread[t].at = "mark"
  BY DEF At
<1>2. /\ Threaded'
      /\ thread'[t].at = "idle"
      /\ \A u \in Threads : u # t => thread'[u] = thread[u]
      /\ fate'[a] = what /\ \A b \in Articles : b # a => fate'[b] = fate[b]
  BY <1>1, EndsThread DEF FlowInv
<1>3. Closing'
  BY <1>2 DEF FlowInv, Closing, spoolVars, listVars
<1>4. \A u \in Threads : thread[u].at \in InMessage \/ thread'[u].at \in InMessage => thread'[u] = thread[u]
  BY <1>1, <1>2 DEF InMessage
<1>5. Fresh'
  <2>1. \A b \in Articles :
          (fate'[b] = "open" \/ (\E u \in Threads : thread'[u].at \in Early /\ thread'[u].art = b)
           => fate[b] = "open" \/ (\E u \in Threads : thread[u].at \in Early /\ thread[u].art = b))
    BY <1>1, <1>2 DEF Early
  <2> QED BY <2>1, SpoolSame DEF FlowInv, Fresh
<1>6. Done'
  <2>1. \A b \in Articles :
          (fate'[b] = "stored" \/ (\E u \in Threads : thread'[u].at = "mark" /\ thread'[u].art = b)
           => fate[b] = "stored" \/ (\E u \in Threads : thread[u].at = "mark" /\ thread[u].art = b))
    BY <1>1, <1>2
  <2> QED BY <2>1, SpoolSame DEF FlowInv, Done
<1> QED BY <1>2, <1>3, <1>4, <1>5, <1>6, Elsewhere

LEMMA EarlyGoto ==
  ASSUME FlowInv, NEW t \in Threads, NEW a \in Articles, NEW to \in {"body", "start"},
         At(t, "head", a) \/ At(t, "body", a),
         Goto(t, to), UNCHANGED <<spoolVars, handler, cutOff, fate>>
  PROVE  FlowInv'
<1>1. thread[t].at \in {"head", "body"} /\ thread[t].art = a
  BY DEF At
<1>2. to \in Places \ {"idle"}
  BY DEF Places
<1>3. /\ Threaded'
      /\ thread'[t].at = to /\ thread'[t].art = thread[t].art
      /\ \A u \in Threads : u # t => thread'[u] = thread[u]
  BY <1>1, <1>2, GotoThread DEF FlowInv
<1>4. Closing'
  BY DEF FlowInv, Closing, spoolVars, listVars
<1>5. \A u \in Threads : thread[u].at \in InMessage \/ thread'[u].at \in InMessage => thread'[u] = thread[u]
  BY <1>1, <1>3 DEF InMessage
<1>6. Fresh'
  <2>1. \A b \in Articles :
          ((\E u \in Threads : thread'[u].at \in Early /\ thread'[u].art = b)
           => \E u \in Threads : thread[u].at \in Early /\ thread[u].art = b)
    BY <1>1, <1>3 DEF Early
  <2> QED BY <2>1, SpoolSame DEF FlowInv, Fresh
<1>7. Done'
  <2>1. \A b \in Articles :
          ((\E u \in Threads : thread'[u].at = "mark" /\ thread'[u].art = b)
           => \E u \in Threads : thread[u].at = "mark" /\ thread[u].art = b)
    BY <1>1, <1>3
  <2> QED BY <2>1, SpoolSame DEF FlowInv, Done
<1> QED BY <1>3, <1>4, <1>5, <1>6, <1>7, Elsewhere

\* The score of a line is added up; the place of the thread stays.
LEMMA HeadLineThread ==
  ASSUME Threaded, NEW t \in Threads, NEW a \in Articles, HeadLine(t, a)
  PROVE  /\ Threaded'
         /\ \A u \in Threads : thread'[u].at = thread[u].at /\ thread'[u].art = thread[u].art
         /\ \A u \in Threads : u # t => thread'[u] = thread[u]
<1>1. UNCHANGED fate
  BY DEF HeadLine
<1>2. CASE thread' = thread
  BY <1>1, <1>2 DEF Threaded
<1>3. CASE thread' # thread
  <2> DEFINE score == thread[t].score + Points(actList', Header[a][lines'[a]])
  <2>1. thread' = [thread EXCEPT ![t].score = score]
    BY <1>3 DEF HeadLine, killVars
  <2> HIDE DEF score
  <2>2. thread'[t] = [thread[t] EXCEPT !.score = score] /\ \A u \in Threads : u # t => thread'[u] = thread[u]
    BY <2>1 DEF Threaded
  <2>3. thread'[t] = [at |-> thread[t].at, art |-> thread[t].art, score |-> score]
    BY <2>2 DEF Threaded
  <2>4. thread' = [u \in Threads |-> thread'[u]]
    BY <2>1 DEF Threaded
  <2>5. \A u \in Threads : thread'[u].at = thread[u].at /\ thread'[u].art = thread[u].art
    BY <2>2, <2>3
  <2>6. \A u \in Threads : thread'[u] = [at |-> thread'[u].at, art |-> thread'[u].art, score |-> thread'[u].score]
    BY <2>2, <2>3 DEF Threaded
  <2> QED BY <1>1, <2>2, <2>4, <2>5, <2>6 DEF Threaded
<1> QED BY <1>2, <1>3

LEMMA HeadLineStep ==
  ASSUME FlowInv, NEW t \in Threads, NEW a \in Articles, HeadLine(t, a)
  PROVE  FlowInv'
<1>1. UNCHANGED <<spoolVars, fate, handler, cutOff>> /\ thread[t].at = "head" /\ thread[t].art = a
  BY DEF HeadLine, At
<1>2. /\ Threaded'
      /\ \A u \in Threads : thread'[u].at = thread[u].at /\ thread'[u].art = thread[u].art
      /\ \A u \in Threads : u # t => thread'[u] = thread[u]
  BY HeadLineThread DEF FlowInv
<1>3. Closing'
  BY <1>1 DEF FlowInv, Closing, spoolVars, listVars
<1>4. \A u \in Threads : thread[u].at \in InMessage \/ thread'[u].at \in InMessage => thread'[u] = thread[u]
  BY <1>1, <1>2 DEF InMessage
<1>5. Fresh' /\ Done'
  <2>1. \A b \in Articles :
          /\ (\E u \in Threads : thread'[u].at \in Early /\ thread'[u].art = b)
             => \E u \in Threads : thread[u].at \in Early /\ thread[u].art = b
          /\ (\E u \in Threads : thread'[u].at = "mark" /\ thread'[u].art = b)
             => \E u \in Threads : thread[u].at = "mark" /\ thread[u].art = b
    BY <1>2
  <2> QED BY <1>1, <2>1, SpoolSame DEF FlowInv, Fresh, Done
<1> QED BY <1>1, <1>2, <1>3, <1>4, <1>5, Elsewhere

----------------------------------------------------------------------------
(* Steps of the writer *)

LEMMA OneWriter ==
  ASSUME FlowInv, NEW t \in Threads, thread[t].at \in InMessage
  PROVE  writer = t /\ \A u \in Threads : u # t => thread[u].at \notin InMessage
BY DEF FlowInv, Writing

\* What the steps from msgStart to msgStop have in common: only the writer moves, the
\* articles of the others stay where they are.
Moves(t, a, from, to) ==
  /\ t \in Threads /\ a \in Articles
  /\ thread[t].at = from /\ thread[t].art = a
  /\ thread'[t].at = to /\ thread'[t].art = a
  /\ \A u \in Threads : u # t => thread'[u] = thread[u]
  /\ \A u \in Threads : u # t => thread[u].at \notin InMessage
  /\ \A u \in Threads : u # t => thread[u].art # a
  /\ UNCHANGED <<fate, handler, cutOff>> /\ fate[a] = "taken"

LEMMA StepMoves ==
  ASSUME FlowInv, NEW t \in Threads, NEW a \in Articles,
         NEW from \in InMessage \union {"start"}, NEW to \in Places \ {"idle"}, Step(t, a, from, to),
         from = "start" => writer = NoWriter
  PROVE  Threaded' /\ Moves(t, a, from, to) /\ (from # "start" => writer = t)
<1>1. /\ thread[t].at = from /\ thread[t].art = a /\ Goto(t, to)
      /\ UNCHANGED <<fate, handler, cutOff>> /\ from # "idle"
  BY DEF Step, At, InMessage
<1>2. /\ Threaded'
      /\ thread'[t].at = to /\ thread'[t].art = thread[t].art
      /\ \A u \in Threads : u # t => thread'[u] = thread[u]
  BY <1>1, GotoThread DEF FlowInv
<1>3. \A u \in Threads : u # t => thread[u].at \notin InMessage
  <2>1. CASE from = "start"
    BY <2>1, ArticleFlowAssumption DEF FlowInv, Writing
  <2>2. CASE from # "start"
    BY <1>1, <2>2, OneWriter
  <2> QED BY <2>1, <2>2
<1>4. \A u \in Threads : u # t => thread[u].art # a
  BY <1>1 DEF FlowInv, Threaded
<1>5. fate[a] = "taken"
  BY <1>1 DEF FlowInv, Threaded
<1>6. from # "start" => writer = t
  BY <1>1, OneWriter
<1> QED BY <1>1, <1>2, <1>3, <1>4, <1>5, <1>6 DEF Moves

LEMMA MovesFresh ==
  ASSUME FlowInv, NEW t, NEW a, NEW from, NEW to, Moves(t, a, from, to),
         \A b \in Articles : b # a => Unmoved(b),
         to \in Early => from \in Early /\ Unmoved(a)
  PROVE  Fresh'
<1> SUFFICES ASSUME NEW b \in Articles,
                    fate'[b] = "open" \/ (\E u \in Threads : thread'[u].at \in Early /\ thread'[u].art = b)
             PROVE  Absent(b)'
  BY DEF Fresh
<1>1. CASE b = a
  <2>1. to \in Early
    BY <1>1 DEF Moves
  <2> QED BY <1>1, <2>1, UnmovedAbsent DEF FlowInv, Fresh, Moves
<1>2. CASE b # a
  <2>1. fate[b] = "open" \/ (\E u \in Threads : thread[u].at \in Early /\ thread[u].art = b)
    BY <1>2 DEF Moves
  <2> QED BY <1>2, <2>1, UnmovedAbsent DEF FlowInv, Fresh
<1> QED BY <1>1, <1>2

LEMMA MovesDone ==
  ASSUME FlowInv, NEW t, NEW a, NEW from, NEW to, Moves(t, a, from, to), ListsKept,
         \A b \in Articles : b # a => Unmoved(b),
         to # "mark" \/ a \in cutOff \/ InPlace(a)'
  PROVE  Done'
<1> SUFFICES ASSUME NEW b \in Articles, b \notin cutOff',
                    fate'[b] = "stored" \/ (\E u \in Threads : thread'[u].at = "mark" /\ thread'[u].art = b)
             PROVE  InPlace(b)'
  BY DEF Done
<1>1. CASE b = a
  <2>1. to = "mark" /\ a \notin cutOff
    BY <1>1 DEF Moves
  <2> QED BY <1>1, <2>1
<1>2. CASE b # a
  <2>1. fate[b] = "stored" \/ (\E u \in Threads : thread[u].at = "mark" /\ thread[u].art = b)
    BY <1>2 DEF Moves
  <2> QED BY <1>2, <2>1, UnmovedInPlace DEF FlowInv, Done, Moves
<1> QED BY <1>1, <1>2

LEMMA MovesClosing ==
  ASSUME FlowInv, NEW t, NEW a, NEW from, NEW to, Moves(t, a, from, to), areasOpen' = areasOpen
  PROVE  Closing'
BY DEF FlowInv, Closing, Moves

LEMMA MovesWriting ==
  ASSUME FlowInv, NEW t, NEW a, NEW from, NEW to, Moves(t, a, from, to),
         from \in InMessage, to \in InMessage, writer' = writer, msgStarted' = msgStarted, areasOpen' = areasOpen
  PROVE  Writing'
BY OneWriter DEF FlowInv, Writing, Moves

LEMMA MovesCurrent ==
  ASSUME FlowInv, NEW t, NEW a, NEW from, NEW to, Moves(t, a, from, to), CurrentOf(t)'
  PROVE  Current'
BY DEF Current, CurrentOf, Moves, InMessage, HasFrame

LEMMA BeginStep ==
  ASSUME FlowInv, NEW t \in Threads, NEW a \in Articles, Begin(t, a)
  PROVE  FlowInv'
<1>1. /\ Step(t, a, "start", "file") /\ writer = NoWriter /\ writer' = t /\ msgStarted' = TRUE
      /\ UNCHANGED <<files, areas, areasOpen, fifo, fifoNext, fifoMsgF, msgCounter, msgF, msgLenPos>>
  BY DEF Begin, StartBegin, listVars, fifoVars
<1>2. Threaded' /\ Moves(t, a, "start", "file")
  BY <1>1, StepMoves DEF Places
<1>3. Filing'
  BY <1>1 DEF FlowInv, Filing
<1>4. Closing'
  BY <1>1, <1>2, MovesClosing
<1>5. Writing'
  BY <1>1, <1>2 DEF Writing, Moves, InMessage
<1>6. \A n : Listed(n)' = Listed(n)
  BY <1>1 DEF Listed
<1>7. Listing'
  BY <1>1, <1>6 DEF FlowInv, Listing
<1>8. Current'
  BY <1>2, MovesCurrent DEF CurrentOf, HasFrame, Moves
<1>9. Fresh' /\ Done'
  BY <1>1, <1>2, FilesSame, MovesFresh, MovesDone DEF Early
<1>10. Partial'
  BY <1>1, <1>2 DEF FlowInv, Partial, Moves, InMessage
<1> QED BY <1>2, <1>3, <1>4, <1>5, <1>7, <1>8, <1>9, <1>10 DEF FlowInv

\* What msgStart leaves behind when it has found the file for an area.
Found(id) ==
  /\ Filing' /\ Listing' /\ ListsKept /\ \A b \in Articles : Unmoved(b)
  /\ areasOpen => msgF' # 0 /\ Listed(msgF)' = {id}
  /\ areasOpen' = areasOpen
  /\ \A n \in DOMAIN files' : \A i \in DOMAIN files'[n] :
       n \in DOMAIN files /\ i \in DOMAIN files[n] /\ files'[n][i] = files[n][i]

LEMMA HitFound ==
  ASSUME FlowInv, NEW id \in Groups, Hit(id), UNCHANGED <<msgStarted, msgLenPos>>
  PROVE  Found(id)
<1>1. /\ UNCHANGED <<msgF, fifo, fifoNext, fifoMsgF, msgCounter, files, areas, areasOpen>>
      /\ fifo[fifoMsgF].id = id /\ id # NoArea
  BY ArticleFlowAssumption DEF Hit, fifoVars, listVars
<1>2. \A n : Listed(n)' = Listed(n)
  BY <1>1 DEF Listed
<1>3. Filing' /\ Listing'
  BY <1>1, <1>2 DEF FlowInv, Filing, Listing
<1>4. areasOpen => msgF' # 0 /\ Listed(msgF)' = {id}
  <2>1. fifoMsgF \in 0 .. Fifo - 1 /\ fifo[fifoMsgF].file \in 1 .. Len(files)
    BY <1>1 DEF FlowInv, Filing
  <2>2. areasOpen => msgF = fifo[fifoMsgF].file /\ Listed(fifo[fifoMsgF].file) = {id}
    BY <1>1, <2>1 DEF FlowInv, Listing
  <2>3. Listed(msgF)' = Listed(msgF)
    BY <1>1 DEF Listed
  <2> QED BY <1>1, <2>1, <2>2, <2>3
<1> QED BY <1>1, <1>3, <1>4, FilesSame DEF Found

LEMMA ReopenFound ==
  ASSUME FlowInv, NEW id \in Groups, Reopen(id), UNCHANGED <<msgStarted, msgLenPos>>
  PROVE  Found(id)
<1>1. PICK i \in Known(id) : msgF' = fifo[i].file /\ fifoMsgF' = i
  BY DEF Reopen
<1>2. /\ UNCHANGED <<fifo, fifoNext, msgCounter, files, areas, areasOpen>>
      /\ i \in 0 .. Fifo - 1 /\ fifo[i].id = id /\ id # NoArea
  BY ArticleFlowAssumption DEF Reopen, Known, listVars
<1>3. \A n : Listed(n)' = Listed(n)
  BY <1>2 DEF Listed
<1>4. msgF' \in 1 .. Len(files)
  BY <1>1, <1>2 DEF FlowInv, Filing
<1>5. Filing'
  BY <1>1, <1>2, <1>4 DEF FlowInv, Filing
<1>6. Listing'
  BY <1>1, <1>2, <1>3 DEF FlowInv, Listing
<1>7. areasOpen => msgF' # 0 /\ Listed(msgF)' = {id}
  <2>1. areasOpen => Listed(fifo[i].file) = {id}
    BY <1>2 DEF FlowInv, Listing
  <2>2. Listed(msgF)' = Listed(fifo[i].file)
    BY <1>1, <1>2 DEF Listed
  <2> QED BY <1>4, <2>1, <2>2
<1> QED BY <1>2, <1>5, <1>6, <1>7, FilesSame DEF Found

\* A sequence over a set is one over a larger set.
LEMMA SeqLarger ==
  ASSUME NEW S, NEW T, S \subseteq T, NEW s \in Seq(S)
  PROVE  s \in Seq(T) /\ Len(s) \in Nat /\ \A l \in 1 .. Len(s) : s[l] \in S
<1>1. Len(s) \in Nat /\ DOMAIN s = 1 .. Len(s) /\ \A l \in 1 .. Len(s) : s[l] \in T
  OBVIOUS
<1>2. s \in Seq(T)
  BY <1>1
<1> QED BY <1>1, <1>2

LEMMA CreateFound ==
  ASSUME FlowInv, NEW id \in Groups, Create(id), UNCHANGED <<msgStarted, msgLenPos>>
  PROVE  Found(id)
<1>0. Len(files) \in Nat /\ msgCounter = Len(files) /\ Fifo \in Nat \ {0} /\ id # NoArea
  BY ArticleFlowAssumption DEF FlowInv, Filing
<1>0a. msgCounter' \in Nat /\ msgCounter' > Len(files)
  BY <1>0 DEF Create
<1>0b. PICK new \in Nat : new = msgCounter' /\ new > Len(files)
  BY <1>0a
<1>1. /\ new = msgCounter' /\ new > Len(files) /\ msgF' = new
      /\ files' = [n \in 1 .. new |-> IF n \in DOMAIN files THEN files[n] ELSE << >>]
      /\ fifo' = [fifo EXCEPT ![fifoNext] = [id |-> id, file |-> new]]
      /\ fifoNext' = (fifoNext + 1) % Fifo /\ fifoMsgF' = fifoNext
      /\ areas' = IF areasOpen THEN Append(areas, [file |-> new, id |-> id]) ELSE areas
      /\ areasOpen' = areasOpen
  BY <1>0b DEF Create
<1>2. files' \in Seq(Seq(Frame)) /\ Len(files') = new /\ DOMAIN files = 1 .. Len(files)
      /\ DOMAIN files' = 1 .. new
  <2>1. \A n \in 1 .. new : (IF n \in DOMAIN files THEN files[n] ELSE << >>) \in Seq(Frame)
    BY DEF FlowInv, Filing
  <2>2. files' \in [1 .. new -> Seq(Frame)]
    BY <1>1, <2>1
  <2>3. files' \in Seq(Seq(Frame)) /\ Len(files') = new
    BY <1>0b, <2>2
  <2> QED BY <1>1, <2>3 DEF FlowInv, Filing
<1>3. \A n \in DOMAIN files : files'[n] = files[n]
  BY <1>0, <1>1, <1>2
<1>4. \A n \in DOMAIN files' : n \notin DOMAIN files => files'[n] = << >>
  BY <1>1, <1>2
<1>5. \A n \in DOMAIN files' : \A i \in DOMAIN files'[n] :
        n \in DOMAIN files /\ i \in DOMAIN files[n] /\ files'[n][i] = files[n][i]
  BY <1>3, <1>4
<1>6. \A b \in Articles : Unmoved(b)
  BY <1>0, <1>1, <1>2, <1>3, <1>5 DEF Unmoved
<1>7. /\ fifo' \in [0 .. Fifo - 1 -> Area]
      /\ fifo'[fifoNext] = [id |-> id, file |-> new]
      /\ \A i \in 0 .. Fifo - 1 : i # fifoNext => fifo'[i] = fifo[i]
      /\ fifoNext \in 0 .. Fifo - 1
  BY <1>1 DEF FlowInv, Filing, Area
<1>8. fifoNext' \in 0 .. Fifo - 1
  BY <1>0, <1>1, <1>7
<1>9. /\ areas' \in Seq([file : 1 .. new, id : Groups])
      /\ \A n \in DOMAIN files : Listed(n)' = Listed(n)
      /\ areasOpen => Listed(new)' = {id}
  <2>0. areas \in Seq([file : 1 .. Len(files), id : Groups]) /\ Len(areas) \in Nat /\ DOMAIN areas = 1 .. Len(areas)
    BY DEF FlowInv, Filing
  <2> DEFINE S == [file : 1 .. Len(files), id : Groups]
             T == [file : 1 .. new, id : Groups]
  <2>1. S \subseteq T /\ \A line \in S : line.file \in 1 .. Len(files)
    BY <1>0, <1>1
  <2>5. areas \in Seq(S)
    BY <2>0
  <2>6. areas \in Seq(T) /\ \A l \in 1 .. Len(areas) : areas[l] \in S
    <3> HIDE DEF S, T
    <3> QED BY <2>1, <2>5, SeqLarger
  <2>2. /\ areas \in Seq([file : 1 .. new, id : Groups])
        /\ \A l \in DOMAIN areas : areas[l].file \in 1 .. Len(files)
    BY <2>0, <2>1, <2>6
  <2>3. CASE ~areasOpen
    BY <1>1, <2>2, <2>3 DEF Listed
  <2>4. CASE areasOpen
    <3>1. areas' = Append(areas, [file |-> new, id |-> id]) /\ [file |-> new, id |-> id] \in [file : 1 .. new, id : Groups]
      BY <1>0, <1>1, <2>4
    <3>2. /\ areas' \in Seq([file : 1 .. new, id : Groups]) /\ DOMAIN areas' = 1 .. Len(areas) + 1
          /\ areas'[Len(areas) + 1] = [file |-> new, id |-> id]
          /\ \A l \in DOMAIN areas : areas'[l] = areas[l]
      BY <2>0, <2>2, <3>1
    <3>3. \A n \in DOMAIN files : \A l \in DOMAIN areas' : areas'[l].file = n => l \in DOMAIN areas
      BY <1>0, <1>1, <1>2, <2>0, <3>2
    <3>4. \A n \in DOMAIN files : Listed(n)' = Listed(n)
      <4> SUFFICES ASSUME NEW n \in DOMAIN files
                   PROVE  {l \in DOMAIN areas' : areas'[l].file = n} = {l \in DOMAIN areas : areas[l].file = n}
                          /\ \A l \in DOMAIN areas : areas'[l] = areas[l]
        BY DEF Listed
      <4> QED BY <2>0, <3>2, <3>3
    <3>5. {l \in DOMAIN areas' : areas'[l].file = new} = {Len(areas) + 1}
      <4>1. \A l \in DOMAIN areas : areas'[l].file # new
        BY <1>0, <1>1, <2>2, <3>2
      <4> QED BY <2>0, <3>2, <4>1
    <3>6. Listed(new)' = {id}
      BY <3>2, <3>5 DEF Listed
    <3> QED BY <3>2, <3>4, <3>6
  <2> QED BY <2>3, <2>4
<1>10. \A i \in 0 .. Fifo - 1 : i # fifoNext /\ fifo'[i].id # NoArea => fifo'[i].file \in DOMAIN files
  BY <1>2, <1>7 DEF FlowInv, Filing
<1>11. Filing'
  <2>1. \A i \in 0 .. Fifo - 1 : fifo'[i].id # NoArea => fifo'[i].file \in 1 .. new
    BY <1>0, <1>1, <1>2, <1>7, <1>10
  <2>2. msgF' \in 0 .. new /\ msgLenPos' \in Nat \union {-1} /\ areasOpen' \in BOOLEAN /\ msgStarted' \in BOOLEAN
    BY <1>1 DEF FlowInv, Filing
  <2> QED BY <1>1, <1>2, <1>7, <1>8, <1>9, <2>1, <2>2 DEF Filing
<1>12. Listing'
  <2> SUFFICES ASSUME areasOpen
               PROVE  /\ \A i \in 0 .. Fifo - 1 : fifo'[i].id # NoArea => Listed(fifo[i].file)' = {fifo'[i].id}
                      /\ fifo'[fifoMsgF'].id # NoArea => msgF' = fifo'[fifoMsgF'].file
    BY <1>1 DEF Listing
  <2>1. fifo'[fifoMsgF'].file = msgF'
    BY <1>1, <1>7
  <2>2. \A i \in 0 .. Fifo - 1 : fifo'[i].id # NoArea => Listed(fifo[i].file)' = {fifo'[i].id}
    <3> SUFFICES ASSUME NEW i \in 0 .. Fifo - 1, fifo'[i].id # NoArea
                 PROVE  Listed(fifo[i].file)' = {fifo'[i].id}
      OBVIOUS
    <3>1. CASE i = fifoNext
      BY <1>7, <1>9, <3>1
    <3>2. CASE i # fifoNext
      <4>1. fifo'[i] = fifo[i] /\ fifo[i].file \in DOMAIN files /\ Listed(fifo[i].file) = {fifo[i].id}
        BY <1>7, <1>10, <3>2 DEF FlowInv, Listing
      <4> QED BY <1>9, <4>1
    <3> QED BY <3>1, <3>2
  <2> QED BY <2>1, <2>2
<1>13. areasOpen => msgF' # 0 /\ Listed(msgF)' = {id}
  BY <1>0, <1>1, <1>9
<1> QED BY <1>1, <1>5, <1>6, <1>9, <1>11, <1>12, <1>13 DEF Found, ListsKept

LEMMA FileStep ==
  ASSUME FlowInv, NEW t \in Threads, NEW a \in Articles, File(t, a)
  PROVE  FlowInv'
<1>1. /\ Step(t, a, "file", "room")
      /\ Hit(GroupOf[a]) \/ Reopen(GroupOf[a]) \/ Create(GroupOf[a])
      /\ UNCHANGED <<msgStarted, msgLenPos, writer>>
  BY DEF File, StartFile
<1>2. Threaded' /\ Moves(t, a, "file", "room") /\ writer = t
  <2>1. "file" \in InMessage \union {"start"} /\ "room" \in Places \ {"idle"} /\ "file" # "start"
    BY DEF Places, InMessage
  <2> QED BY <1>1, <2>1, StepMoves
<1>3. GroupOf[a] \in Groups
  BY ArticleFlowAssumption
<1>4. Found(GroupOf[a])
  BY <1>1, <1>3, HitFound, ReopenFound, CreateFound
<1>5. /\ Filing' /\ Listing' /\ areasOpen' = areasOpen /\ ListsKept /\ \A b \in Articles : Unmoved(b)
      /\ areasOpen => msgF' # 0 /\ Listed(msgF)' = {GroupOf[a]}
  BY <1>4 DEF Found
<1>6. Closing' /\ Writing'
  BY <1>1, <1>2, <1>5, MovesClosing, MovesWriting DEF InMessage
<1>7. Current'
  BY <1>2, <1>5, MovesCurrent DEF CurrentOf, HasFrame, Moves
<1>8. Fresh' /\ Done'
  BY <1>2, <1>5, MovesFresh, MovesDone DEF Early
<1>9. Partial'
  <2>1. areasOpen => \A n \in DOMAIN files : \A i \in DOMAIN files[n] : Whole(files[n][i])
    BY <1>2 DEF FlowInv, Partial, Moves, InMessage
  <2> QED BY <1>4, <2>1 DEF Found, Partial, Whole
<1> QED BY <1>2, <1>5, <1>6, <1>7, <1>8, <1>9 DEF FlowInv

\* What the steps that write into the open file have in common.
LEMMA FrameStep ==
  ASSUME FlowInv, NEW t \in Threads, NEW a \in Articles,
         NEW from \in InMessage, NEW to \in HasFrame \union {"stop"}, Step(t, a, from, to),
         UNCHANGED <<areas, areasOpen, fifo, fifoNext, fifoMsgF, msgCounter, msgF, msgStarted, writer>>,
         files' \in Seq(Seq(Frame)), Len(files') = Len(files), msgLenPos' \in Nat \union {-1},
         \A b \in Articles : b # a => Unmoved(b),
         Moves(t, a, from, to) => CurrentOf(t)' /\ Partial'
  PROVE  FlowInv'
<1>1. Threaded' /\ Moves(t, a, from, to)
  BY StepMoves DEF Places, InMessage, HasFrame
<1>2. Filing'
  BY DEF FlowInv, Filing
<1>3. Closing' /\ Writing'
  BY <1>1, MovesClosing, MovesWriting DEF InMessage, HasFrame
<1>4. \A n : Listed(n)' = Listed(n)
  BY DEF Listed
<1>5. Listing'
  BY <1>4 DEF FlowInv, Listing
<1>6. Current'
  BY <1>1, MovesCurrent
<1>7. Fresh' /\ Done'
  BY <1>1, <1>4, MovesFresh, MovesDone DEF ListsKept, Early, HasFrame
<1> QED BY <1>1, <1>2, <1>3, <1>5, <1>6, <1>7 DEF FlowInv

LEMMA ClosedFrames ==
  ASSUME FlowInv, NEW t \in Threads, NEW a \in Articles, NEW from \in HasFrame \union {"room"},
         NEW to \in HasFrame, Moves(t, a, from, to), msgF = 0, UNCHANGED <<msgF, areasOpen>>
  PROVE  CurrentOf(t)' /\ Partial'
<1>1. ~areasOpen
  BY DEF FlowInv, Current, CurrentOf, Moves
<1> QED BY <1>1 DEF CurrentOf, Partial

LEMMA RoomStep ==
  ASSUME FlowInv, NEW t \in Threads, NEW a \in Articles, Room(t, a)
  PROVE  FlowInv'
<1>1. /\ Step(t, a, "room", "write") /\ StartHead(a)
      /\ UNCHANGED <<areas, areasOpen, fifo, fifoNext, fifoMsgF, msgCounter, msgF, msgStarted, writer>>
  BY DEF Room, StartHead, listVars, fifoVars
<1>2. "room" \in InMessage /\ "write" \in HasFrame
  BY DEF InMessage, HasFrame
<1>3. CASE msgF = 0
  <2>1. UNCHANGED <<files, msgLenPos>>
    BY <1>1, <1>3 DEF StartHead
  <2>2. /\ files' \in Seq(Seq(Frame)) /\ Len(files') = Len(files) /\ msgLenPos' \in Nat \union {-1}
    BY <2>1 DEF FlowInv, Filing
  <2>3. Moves(t, a, "room", "write") => CurrentOf(t)' /\ Partial'
    BY <1>1, <1>2, <1>3, ClosedFrames
  <2> QED BY <1>1, <1>2, <2>1, <2>2, <2>3, FilesSame, FrameStep
<1>4. CASE msgF # 0
  <2> DEFINE fr == [art |-> a, body |-> FALSE, len |-> FALSE]
             k == Len(files[msgF]) + 1
  <2>1. files' = [files EXCEPT ![msgF] = Append(@, fr)] /\ msgLenPos' = Len(files[msgF])
    BY <1>1, <1>4 DEF StartHead
  <2>2. fr \in Frame /\ fr.art = a /\ ~fr.body
    BY DEF Frame
  <2>3. Filing /\ Len(files[msgF]) \in Nat /\ msgF \in DOMAIN files
    BY <1>4 DEF FlowInv, Filing
  <2> HIDE DEF fr
  <2>4. /\ files' \in Seq(Seq(Frame)) /\ Len(files') = Len(files)
        /\ Len(files'[msgF]) = k
        /\ files'[msgF][k] = fr
        /\ \A n \in DOMAIN files : \A i \in DOMAIN files[n] : files'[n][i] = files[n][i]
        /\ \A n \in DOMAIN files' : \A i \in DOMAIN files'[n] :
             \/ n \in DOMAIN files /\ i \in DOMAIN files[n]
             \/ n = msgF /\ i = k
        /\ \A b \in Articles : b # a => Unmoved(b)
    BY <1>1, <1>4, <2>1, <2>2, <2>3, AppendFrame
  <2>5. ASSUME Moves(t, a, "room", "write")
        PROVE  CurrentOf(t)' /\ Partial'
    <3>1. thread[t].at = "room" /\ thread[t].art = a /\ thread'[t].at = "write" /\ thread'[t].art = a
          /\ \A u \in Threads : u # t => thread[u].at \notin InMessage
      BY <2>5 DEF Moves
    <3>2. Absent(a)
      BY <3>1 DEF FlowInv, Fresh, Early
    <3>3. Own(t)'
      BY <1>1, <1>4, <2>1, <2>2, <2>3, <2>4, <3>1 DEF Own
    <3>4. areasOpen' => Listed(msgF)' = {GroupOf[a]}
      <4>1. areasOpen => Listed(msgF) = {GroupOf[a]}
        BY <3>1 DEF FlowInv, Current, CurrentOf
      <4>2. Listed(msgF)' = Listed(msgF)
        BY <1>1 DEF Listed
      <4> QED BY <1>1, <4>1, <4>2
    <3>5. \A n \in DOMAIN files' : \A i \in DOMAIN files'[n] :
            files'[n][i].art = a => n = msgF /\ i = k
      BY <2>4, <3>2 DEF Absent
    <3>6. CurrentOf(t)'
      BY <1>1, <1>4, <2>4, <3>1, <3>3, <3>4, <3>5 DEF CurrentOf
    <3>7. areasOpen => \A n \in DOMAIN files : \A i \in DOMAIN files[n] : Whole(files[n][i])
      BY <3>1 DEF FlowInv, Partial, InMessage
    <3>8. areasOpen => \A n \in DOMAIN files' : \A i \in DOMAIN files'[n] :
            ~Whole(files'[n][i]) => n = msgF /\ i = k
      BY <2>4, <3>7 DEF Whole
    <3>9. Partial'
      BY <1>1, <2>4, <3>1, <3>8 DEF Partial, Whole
    <3> QED BY <3>6, <3>9
  <2>6. msgLenPos' \in Nat \union {-1}
    BY <2>1, <2>3
  <2> QED BY <1>1, <1>2, <2>4, <2>5, <2>6, FrameStep
<1> QED BY <1>3, <1>4

\* The writer's frame is the last one of the open file, and the only incomplete one.
LEMMA OwnFrame ==
  ASSUME FlowInv, NEW t \in Threads, NEW a \in Articles, thread[t].at \in HasFrame, thread[t].art = a,
         msgF # 0
  PROVE  /\ msgF \in DOMAIN files /\ files[msgF] \in Seq(Frame)
         /\ msgLenPos + 1 = Len(files[msgF]) /\ Len(files[msgF]) \in DOMAIN files[msgF]
         /\ files[msgF][Len(files[msgF])] \in Frame
         /\ files[msgF][Len(files[msgF])].art = a
         /\ areasOpen => Listed(msgF) = {GroupOf[a]}
         /\ areasOpen => \A n \in DOMAIN files : \A i \in DOMAIN files[n] :
              /\ files[n][i].art = a => n = msgF /\ i = Len(files[n])
              /\ ~Whole(files[n][i]) => /\ n = msgF /\ i = Len(files[n])
                                        /\ thread[t].at = "write" \/ (thread[t].at = "length" /\ files[n][i].body)
<1>1. Own(t)
  BY DEF FlowInv, Current, CurrentOf
<1>2. msgF \in DOMAIN files /\ files[msgF] \in Seq(Frame)
  BY DEF FlowInv, Filing
<1>3. msgLenPos + 1 = Len(files[msgF]) /\ Len(files[msgF]) \in DOMAIN files[msgF]
      /\ files[msgF][Len(files[msgF])] \in Frame /\ files[msgF][Len(files[msgF])].art = a
  BY <1>1, <1>2 DEF Own
<1>4. areasOpen => Listed(msgF) = {GroupOf[a]}
                   /\ \A n \in DOMAIN files : \A i \in DOMAIN files[n] :
                        files[n][i].art = a => n = msgF /\ i = Len(files[n])
  BY DEF FlowInv, Current, CurrentOf
<1>5. \A u \in Threads : u # t => thread[u].at \notin InMessage
  BY OneWriter DEF HasFrame, InMessage
<1>6. areasOpen => \A n \in DOMAIN files : \A i \in DOMAIN files[n] :
         ~Whole(files[n][i]) => /\ n = msgF /\ i = Len(files[n])
                                /\ thread[t].at = "write" \/ (thread[t].at = "length" /\ files[n][i].body)
  BY <1>5 DEF FlowInv, Partial, InMessage
<1> QED BY <1>2, <1>3, <1>4, <1>6

\* The step from one place to the next, which completes a part of that frame.
LEMMA PartStep ==
  ASSUME FlowInv, NEW t \in Threads, NEW a \in Articles,
         NEW from \in {"write", "length"}, NEW to \in {"length", "stop"}, Step(t, a, from, to),
         UNCHANGED <<areas, areasOpen, fifo, fifoNext, fifoMsgF, msgCounter, msgF, msgStarted, msgLenPos, writer>>,
         msgF = 0 => files' = files,
         NEW fr,
         msgF # 0 => /\ fr \in Frame /\ fr.art = files[msgF][Len(files[msgF])].art
                     /\ files' = [files EXCEPT ![msgF] = [@ EXCEPT ![Len(files[msgF])] = fr]]
                     /\ to = "length" => fr.body
                     /\ from = "length" /\ files[msgF][Len(files[msgF])].body => Whole(fr),
         from = "write" <=> to = "length"
  PROVE  FlowInv'
<1>1. from \in InMessage /\ to \in HasFrame /\ from \in HasFrame \union {"room"} /\ to \in HasFrame \union {"stop"}
      /\ from \in HasFrame
  BY DEF InMessage, HasFrame
<1>2. thread[t].at = from /\ thread[t].art = a
  BY DEF Step, At
<1>3. Filing
  BY DEF FlowInv
<1>4. msgLenPos' \in Nat \union {-1}
  BY <1>3 DEF Filing
<1>5. CASE msgF = 0
  <2>1. files' = files /\ files' \in Seq(Seq(Frame)) /\ Len(files') = Len(files)
    BY <1>3, <1>5 DEF Filing
  <2>2. Moves(t, a, from, to) => CurrentOf(t)' /\ Partial'
    BY <1>1, <1>5, ClosedFrames
  <2> QED BY <1>1, <1>4, <2>1, <2>2, FilesSame, FrameStep
<1>6. CASE msgF # 0
  <2> DEFINE k == Len(files[msgF])
  <2>1. /\ msgF \in DOMAIN files /\ files[msgF] \in Seq(Frame)
        /\ k = Len(files[msgF]) /\ msgLenPos + 1 = k /\ k \in DOMAIN files[msgF]
        /\ files[msgF][k].art = a
        /\ areasOpen => Listed(msgF) = {GroupOf[a]}
        /\ areasOpen => \A n \in DOMAIN files : \A i \in DOMAIN files[n] :
              /\ files[n][i].art = a => n = msgF /\ i = Len(files[n])
              /\ ~Whole(files[n][i]) => /\ n = msgF /\ i = Len(files[n])
                                        /\ from = "write" \/ (from = "length" /\ files[n][i].body)
    BY <1>1, <1>2, <1>6, OwnFrame
  <2>2. /\ fr \in Frame /\ fr.art = files[msgF][k].art
        /\ files' = [files EXCEPT ![msgF] = [@ EXCEPT ![k] = fr]]
        /\ to = "length" => fr.body
        /\ from = "length" /\ files[msgF][k].body => Whole(fr)
    BY <1>6
  <2> HIDE DEF k
  <2>3. /\ files' \in Seq(Seq(Frame)) /\ Len(files') = Len(files)
        /\ \A n \in DOMAIN files : DOMAIN files'[n] = DOMAIN files[n] /\ Len(files'[n]) = Len(files[n])
        /\ files'[msgF][k] = fr
        /\ \A n \in DOMAIN files : \A i \in DOMAIN files[n] :
             n # msgF \/ i # k => files'[n][i] = files[n][i]
        /\ \A b \in Articles : b # a => Unmoved(b)
    BY <1>3, <1>6, <2>1, <2>2, ChangeFrame
  <2>4. DOMAIN files' = DOMAIN files
    BY <1>3, <2>3 DEF Filing
  <2>5. ASSUME Moves(t, a, from, to)
        PROVE  CurrentOf(t)' /\ Partial'
    <3>1. thread'[t].at = to /\ thread'[t].art = a
      BY <2>5 DEF Moves
    <3>2. Own(t)'
      <4>1. k \in Nat /\ msgLenPos \in Nat
        BY <1>4, <2>1
      <4> QED BY <1>6, <2>1, <2>2, <2>3, <3>1, <4>1 DEF Own
    <3>3. areasOpen' => Listed(msgF)' = {GroupOf[a]}
      <4>1. Listed(msgF)' = Listed(msgF)
        BY DEF Listed
      <4> QED BY <2>1, <4>1
    <3>4. areasOpen => \A n \in DOMAIN files' : \A i \in DOMAIN files'[n] :
            files'[n][i].art = a => n = msgF /\ i = Len(files'[n])
      BY <2>1, <2>2, <2>3, <2>4
    <3>5. CurrentOf(t)'
      BY <1>6, <3>1, <3>2, <3>3, <3>4 DEF CurrentOf
    <3>6. areasOpen => \A n \in DOMAIN files' : \A i \in DOMAIN files'[n] :
            ~Whole(files'[n][i]) => n = msgF /\ i = Len(files'[n]) /\ i = k
      BY <2>1, <2>2, <2>3, <2>4
    <3>7. areasOpen /\ ~Whole(fr) => to = "length" /\ fr.body
      <4>1. CASE from = "write"
        BY <2>2, <4>1
      <4>2. CASE from = "length"
        <5>1. areasOpen => files[msgF][k].body
          BY <2>1, <4>2 DEF Whole
        <5> QED BY <2>2, <4>2, <5>1
      <4> QED BY <4>1, <4>2
    <3>8. Partial'
      BY <2>3, <3>1, <3>6, <3>7 DEF Partial
    <3> QED BY <3>5, <3>8
  <2> QED BY <1>1, <1>4, <2>3, <2>5, FrameStep
<1> QED BY <1>5, <1>6

LEMMA CopyStep ==
  ASSUME FlowInv, NEW t \in Threads, NEW a \in Articles, Copy(t, a)
  PROVE  FlowInv'
<1> DEFINE old == files[msgF][Len(files[msgF])]
           fr  == [old EXCEPT !.body = TRUE]
<1>1. /\ Step(t, a, "write", "length")
      /\ UNCHANGED <<areas, areasOpen, fifo, fifoNext, fifoMsgF, msgCounter, msgF, msgStarted, msgLenPos, writer>>
      /\ msgF = 0 => files' = files
      /\ msgF # 0 => files' = [files EXCEPT ![msgF] = [@ EXCEPT ![Len(files[msgF])] = fr]]
      /\ thread[t].at = "write" /\ thread[t].art = a
  <2>1. msgF # 0 => Len(files[msgF]) \in DOMAIN files[msgF]
    BY OwnFrame DEF Copy, Step, At, HasFrame
  <2> QED BY <2>1 DEF Copy, MsgWrite, listVars, fifoVars, Step, At
<1>2. msgF # 0 => old \in Frame
  BY <1>1, OwnFrame DEF HasFrame
<1>3. msgF # 0 => fr \in Frame /\ fr.art = old.art /\ fr.body
  BY <1>2 DEF Frame
<1> HIDE DEF fr
<1> QED BY <1>1, <1>3, PartStep

LEMMA LengthStep ==
  ASSUME FlowInv, NEW t \in Threads, NEW a \in Articles, Length(t, a)
  PROVE  FlowInv'
<1> DEFINE old == files[msgF][Len(files[msgF])]
           fr  == [old EXCEPT !.len = TRUE]
<1>1. thread[t].at = "length" /\ thread[t].art = a /\ thread[t].at \in HasFrame
  BY DEF Length, Step, At, HasFrame
<1>2. msgF # 0 => old \in Frame /\ msgLenPos + 1 = Len(files[msgF])
  BY <1>1, OwnFrame
<1>3. /\ Step(t, a, "length", "stop")
      /\ UNCHANGED <<areas, areasOpen, fifo, fifoNext, fifoMsgF, msgCounter, msgF, msgStarted, msgLenPos, writer>>
      /\ msgF = 0 => files' = files
      /\ msgF # 0 => files' = [files EXCEPT ![msgF] = [@ EXCEPT ![Len(files[msgF])] = fr]]
  BY <1>2 DEF Length, StopLength, listVars, fifoVars
<1>4. msgF # 0 => fr \in Frame /\ fr.art = old.art /\ (old.body => Whole(fr))
  BY <1>2 DEF Frame, Whole
<1> HIDE DEF fr
<1> QED BY <1>3, <1>4, PartStep

LEMMA StopStep ==
  ASSUME FlowInv, NEW t \in Threads, NEW a \in Articles, Stop(t, a)
  PROVE  FlowInv'
<1>1. /\ Step(t, a, "stop", "mark") /\ writer' = NoWriter /\ msgStarted' = FALSE
      /\ UNCHANGED <<files, areas, areasOpen, fifo, fifoNext, fifoMsgF, msgCounter, msgF, msgLenPos>>
      /\ thread[t].at = "stop" /\ thread[t].art = a
  BY DEF Stop, StopEnd, listVars, fifoVars, Step, At
<1>2. Threaded' /\ Moves(t, a, "stop", "mark")
  <2>1. "stop" \in InMessage \union {"start"} /\ "mark" \in Places \ {"idle"} /\ "stop" # "start"
    BY DEF Places, InMessage
  <2> QED BY <1>1, <2>1, StepMoves
<1>3. Filing'
  BY <1>1 DEF FlowInv, Filing
<1>4. Closing'
  BY <1>1, <1>2, MovesClosing
<1>5. Writing'
  BY <1>1, <1>2, ArticleFlowAssumption DEF Writing, Moves, InMessage
<1>6. \A n : Listed(n)' = Listed(n)
  BY <1>1 DEF Listed
<1>7. Listing'
  BY <1>1, <1>6 DEF FlowInv, Listing
<1>8. Current'
  BY <1>2, MovesCurrent DEF CurrentOf, HasFrame, Moves
<1>9. a \in cutOff \/ InPlace(a)
  <2>1. CASE ~areasOpen
    BY <1>2, <2>1 DEF FlowInv, Closing, Moves
  <2>2. CASE areasOpen
    <3>1. msgF # 0
      BY <1>1, <2>2 DEF FlowInv, Current, CurrentOf, HasFrame
    <3>2. /\ msgF \in DOMAIN files /\ Len(files[msgF]) \in DOMAIN files[msgF]
          /\ files[msgF][Len(files[msgF])].art = a /\ Listed(msgF) = {GroupOf[a]}
          /\ \A n \in DOMAIN files : \A i \in DOMAIN files[n] :
               /\ files[n][i].art = a => n = msgF
               /\ Whole(files[n][i])
      BY <1>1, <2>2, <3>1, OwnFrame DEF HasFrame
    <3>3. Copies(a) = {msgF}
      BY <3>2 DEF Copies
    <3> QED BY <3>2, <3>3 DEF InPlace
  <2> QED BY <2>1, <2>2
<1>10. Fresh' /\ Done'
  BY <1>1, <1>2, <1>9, FilesSame, MovesFresh, MovesDone DEF Early
<1>11. Partial'
  BY <1>1, <1>2 DEF FlowInv, Partial, Moves, InMessage
<1> QED BY <1>2, <1>3, <1>4, <1>5, <1>7, <1>8, <1>10, <1>11 DEF FlowInv

----------------------------------------------------------------------------
(* The packet is closed *)

\* The frame that is cut off is the writer's; what is stored stays.
LEMMA CloseAllFrames ==
  ASSUME FlowInv, CloseAll, \A t \in Threads : thread[t].at \notin {"file", "room"}
  PROVE  /\ files' \in Seq(Seq(Frame)) /\ Len(files') = Len(files) /\ ListsKept
         /\ \A a \in Articles : Absent(a) => Absent(a)'
         /\ \A a \in Articles : fate[a] # "taken" => Unmoved(a)
<1>1. areas' = areas
  BY DEF CloseAll
<1>2. CASE msgStarted /\ msgF # 0 /\ msgLenPos >= 0
  <2>1. writer \in Threads /\ thread[writer].at \in HasFrame
    BY <1>2 DEF FlowInv, Writing, InMessage, HasFrame
  <2>2. thread[writer].art \in Articles /\ fate[thread[writer].art] = "taken"
    BY <2>1 DEF FlowInv, Threaded, HasFrame
  <2>3. /\ msgLenPos + 1 = Len(files[msgF])
        /\ files[msgF][Len(files[msgF])].art = thread[writer].art
    BY <1>2, <2>1, <2>2, OwnFrame
  <2>4. files' = [files EXCEPT ![msgF] = Cut(@, msgLenPos)]
    BY <1>2 DEF CloseAll
  <2>5. Filing /\ msgLenPos \in Nat
    BY <1>2 DEF FlowInv, Filing
  <2>6. /\ files' \in Seq(Seq(Frame)) /\ Len(files') = Len(files)
        /\ ListsKept
        /\ \A n \in DOMAIN files' : \A i \in DOMAIN files'[n] :
             n \in DOMAIN files /\ i \in DOMAIN files[n] /\ files'[n][i] = files[n][i]
        /\ \A b \in Articles : b # thread[writer].art => Unmoved(b)
    BY <1>1, <1>2, <2>3, <2>4, <2>5, CutFrame
  <2>7. \A a \in Articles : Absent(a) => Absent(a)'
    BY <2>6 DEF Absent
  <2> QED BY <2>2, <2>6, <2>7
<1>3. CASE ~(msgStarted /\ msgF # 0 /\ msgLenPos >= 0)
  <2>1. files' = files
    BY <1>3 DEF CloseAll
  <2>2. files' \in Seq(Seq(Frame)) /\ Len(files') = Len(files) /\ \A a \in Articles : Absent(a) => Absent(a)'
    BY <2>1 DEF FlowInv, Filing, Absent
  <2> QED BY <1>1, <2>1, <2>2, FilesSame
<1> QED BY <1>2, <1>3

LEMMA CloseStep ==
  ASSUME FlowInv, CloseAll, \A t \in Threads : thread[t].at \notin {"file", "room"},
         UNCHANGED <<thread, fate>>, handler' \in {"closed", "exit"},
         \A a \in Articles : fate[a] = "taken" => a \in cutOff',
         \A a \in Articles : a \in cutOff => a \in cutOff'
  PROVE  FlowInv'
<1>1. /\ files' \in Seq(Seq(Frame)) /\ Len(files') = Len(files) /\ ListsKept
      /\ \A a \in Articles : Absent(a) => Absent(a)'
      /\ \A a \in Articles : fate[a] # "taken" => Unmoved(a)
  BY CloseAllFrames
<1>2. /\ msgStarted' = FALSE /\ msgF' = 0 /\ areasOpen' = FALSE
      /\ UNCHANGED <<areas, fifo, fifoNext, fifoMsgF, msgCounter, msgLenPos, writer>>
  BY DEF CloseAll, fifoVars
<1>3. Threaded' /\ Closing' /\ Writing'
  BY <1>2 DEF FlowInv, Threaded, Closing, Writing
<1>4. Filing'
  <2>1. 1 .. Len(files') = 1 .. Len(files)
    BY <1>1
  <2>2. areas' \in Seq([file : 1 .. Len(files'), id : Groups])
    BY <1>2, <2>1 DEF FlowInv, Filing
  <2>3. /\ \A i \in 0 .. Fifo - 1 : fifo'[i].id # NoArea => fifo'[i].file \in 1 .. Len(files')
        /\ fifo' \in [0 .. Fifo - 1 -> Area] /\ fifoNext' \in 0 .. Fifo - 1 /\ fifoMsgF' \in 0 .. Fifo - 1
    BY <1>2, <2>1 DEF FlowInv, Filing
  <2>4. msgCounter' = Len(files') /\ msgF' \in 0 .. Len(files') /\ msgLenPos' \in Nat \union {-1}
    BY <1>1, <1>2 DEF FlowInv, Filing
  <2> QED BY <1>1, <1>2, <2>2, <2>3, <2>4 DEF Filing
<1>5. Listing' /\ Partial' /\ Current'
  BY <1>2 DEF Listing, Partial, Current, CurrentOf
<1>6. Fresh'
  BY <1>1 DEF FlowInv, Fresh
<1>7. Done'
  <2> SUFFICES ASSUME NEW a \in Articles, a \notin cutOff',
                      fate[a] = "stored" \/ (\E t \in Threads : thread[t].at = "mark" /\ thread[t].art = a)
               PROVE  InPlace(a)'
    BY DEF Done
  <2>1. fate[a] # "taken" /\ a \notin cutOff
    OBVIOUS
  <2>2. fate[a] = "stored"
    BY <2>1 DEF FlowInv, Threaded
  <2>3. InPlace(a)
    BY <2>1, <2>2 DEF FlowInv, Done
  <2> QED BY <1>1, <2>1, <2>3, UnmovedInPlace
<1> QED BY <1>3, <1>4, <1>5, <1>6, <1>7 DEF FlowInv

LEMMA HandlerCloseStep ==
  ASSUME FlowInv, ~AbortInStart, HandlerClose
  PROVE  FlowInv'
<1>1. \A t \in Threads : thread[t].at \notin {"file", "room"}
  BY DEF HandlerClose, InStart
<1>2. /\ CloseAll /\ handler' = "closed" /\ cutOff' = {a \in Articles : fate[a] = "taken"}
      /\ UNCHANGED <<thread, fate>>
  BY DEF HandlerClose
<1>3. cutOff = {}
  BY DEF HandlerClose, FlowInv, Closing
<1>4. /\ \A a \in Articles : fate[a] = "taken" => a \in cutOff'
      /\ \A a \in Articles : a \in cutOff => a \in cutOff'
  BY <1>2, <1>3
<1> QED BY <1>1, <1>2, <1>4, CloseStep

LEMMA FinishStep ==
  ASSUME FlowInv, Finish
  PROVE  FlowInv'
<1>1. CloseAll /\ handler' = "exit" /\ UNCHANGED <<thread, fate, cutOff>> /\ \A a \in Articles : fate[a] # "taken"
  BY DEF Finish, Decided
<1>2. \A t \in Threads : thread[t].at = "idle"
  BY <1>1 DEF FlowInv, Threaded
<1> QED BY <1>1, <1>2, CloseStep

----------------------------------------------------------------------------
(* The theorems *)

LEMMA ArticleStepFlow ==
  ASSUME FlowInv, NEW t \in Threads, NEW a \in Articles, ArticleStep(t, a)
  PROVE  FlowInv'
<1> USE DEF Fates
<1>1. CASE Take(t, a)
  BY <1>1, TakeStep
<1>2. CASE HeadLine(t, a)
  BY <1>2, HeadLineStep
<1>3. CASE HeadKilled(t, a)
  BY <1>3, EarlyEnd DEF HeadKilled
<1>4. CASE HeadOk(t, a)
  BY <1>4, EarlyGoto DEF HeadOk
<1>5. CASE HeadBroken(t, a)
  BY <1>5, EarlyEnd DEF HeadBroken
<1>6. CASE BodyOk(t, a)
  BY <1>6, EarlyGoto DEF BodyOk
<1>7. CASE BodyBroken(t, a)
  BY <1>7, EarlyEnd DEF BodyBroken
<1>8. CASE Begin(t, a)
  BY <1>8, BeginStep
<1>9. CASE File(t, a)
  BY <1>9, FileStep
<1>10. CASE Room(t, a)
  BY <1>10, RoomStep
<1>11. CASE Copy(t, a)
  BY <1>11, CopyStep
<1>12. CASE Length(t, a)
  BY <1>12, LengthStep
<1>13. CASE Stop(t, a)
  BY <1>13, StopStep
<1>14. CASE Mark(t, a)
  BY <1>14, EarlyEnd DEF Mark
<1> QED BY <1>1, <1>2, <1>3, <1>4, <1>5, <1>6, <1>7, <1>8, <1>9, <1>10, <1>11, <1>12, <1>13, <1>14 DEF ArticleStep

LEMMA StepFlow ==
  ASSUME FlowInv, ~AbortInStart, [Next]_vars
  PROVE  FlowInv'
<1>1. ASSUME NEW g \in Groups, KillQBuild(g) \/ KillQLook(g)
      PROVE  FlowInv'
  BY <1>1, KillQStep
<1>2. ASSUME NEW t \in Threads, NEW a \in Articles, ArticleStep(t, a)
      PROVE  FlowInv'
  BY <1>2, ArticleStepFlow
<1>3. CASE Signal \/ HandlerExit
  BY <1>3, SignalStep
<1>4. CASE HandlerClose
  BY <1>4, HandlerCloseStep
<1>5. CASE Finish
  BY <1>5, FinishStep
<1>6. CASE UNCHANGED vars
  <2>1. UNCHANGED <<spoolVars, thread, fate, handler, cutOff>> /\ areasOpen' = areasOpen
    BY <1>6 DEF vars, flowVars, spoolVars, listVars
  <2>2. Threaded' /\ Closing'
    BY <2>1 DEF FlowInv, Threaded, Closing
  <2>3. Fresh' /\ Done'
    BY <2>1, SpoolSame DEF FlowInv, Fresh, Done, Threaded
  <2> QED BY <2>1, <2>2, <2>3, Elsewhere
<1> QED BY <1>1, <1>2, <1>3, <1>4, <1>5, <1>6 DEF Next

LEMMA FlowApart ==
  ASSUME FlowInv
  PROVE  Apart
<1> SUFFICES ASSUME areasOpen, NEW n \in DOMAIN files, NEW i \in DOMAIN files[n], ~Whole(files[n][i])
             PROVE  msgStarted /\ n = msgF /\ i = Len(files[n])
  BY DEF Apart
<1>1. PICK t \in Threads : thread[t].at \in {"write", "length"}
  BY DEF FlowInv, Partial
<1>2. writer = t
  BY <1>1, OneWriter DEF InMessage
<1> QED BY <1>2 DEF FlowInv, Partial, Writing

LEMMA FlowFiled ==
  ASSUME FlowInv
  PROVE  Filed
BY DEF FlowInv, Done, InPlace, Filed

\* The invariant of the packet, while no signal falls into msgStart between the choice of
\* the file and the head of the message.
THEOREM FlowInvariant ==
  ASSUME ~AbortInStart
  PROVE  Spec => []FlowInv
<1>1. Init => FlowInv
  BY InitFlow
<1>2. FlowInv /\ [Next]_vars => FlowInv'
  BY StepFlow
<1> QED BY <1>1, <1>2, PTL DEF Spec

\* Until the packet is closed nothing but the message being written is incomplete, however
\* many threads write and however often the list of areas has gone round (msgStart, msgStop).
THEOREM MessagesApart ==
  ASSUME ~AbortInStart
  PROVE  Spec => []Apart
<1>1. Spec => []FlowInv
  BY FlowInvariant
<1>2. FlowInv => Apart
  BY FlowApart
<1> QED BY <1>1, <1>2, PTL

\* A stored article is whole in one message file that AREAS lists for its group, unless it
\* was under way when the handler closed the packet (msgStart, msgStop, closeAll).
THEOREM ArticlesFiled ==
  ASSUME ~AbortInStart
  PROVE  Spec => []Filed
<1>1. Spec => []FlowInv
  BY FlowInvariant
<1>2. FlowInv => Filed
  BY FlowFiled
<1> QED BY <1>1, <1>2, PTL
----------------------------------------------------------------------------
(* Sums *)

\* A set of numbers has a least one: an induction is a proof that the least number at which
\* a statement fails does not exist.
LEMMA Least ==
  ASSUME NEW S, S \subseteq Nat, S # {}
  PROVE  \E k \in S : \A n \in S : k <= n
<1> DEFINE R == {ss \in Nat \X Nat : ss[1] < ss[2]}
<1>1. IsWellFoundedOn(R, Nat)
  BY NatLessThanWellFounded DEF OpToRel
<1> HIDE DEF R
<1>2. PICK x \in S : \A y \in S : ~(<<y, x>> \in R)
  BY <1>1, WFMin
<1>3. ASSUME NEW y \in S PROVE x <= y
  <2>1. x \in Nat /\ y \in Nat
    OBVIOUS
  <2>2. <<y, x>> \notin R
    BY <1>2
  <2>3. ~(y < x)
    BY <2>1, <2>2 DEF R
  <2> QED BY <2>1, <2>3
<1> QED BY <1>3

\* g[i] is the sum of the first i values.
Sums(f, n, g) == g = [i \in 0 .. n |-> IF i = 0 THEN 0 ELSE g[i - 1] + f[i]]

LEMMA SumsExist ==
  ASSUME NEW f, NEW n \in Nat
  PROVE  \E g : Sums(f, n, g)
<1> DEFINE Bad == {k \in Nat : ~ \E g : Sums(f, k, g)}
<1>1. SUFFICES ASSUME Bad # {} PROVE FALSE
  OBVIOUS
<1>2. PICK k \in Bad : \A m \in Bad : k <= m
  <2>1. Bad \subseteq Nat
    OBVIOUS
  <2> HIDE DEF Bad
  <2> QED BY <1>1, <2>1, Least
<1>3. CASE k = 0
  <2> DEFINE g == [i \in 0 .. 0 |-> 0]
  <2>1. Sums(f, 0, g)
    <3>1. 0 .. 0 = {0}
      OBVIOUS
    <3> QED BY <3>1 DEF Sums
  <2> QED BY <1>2, <1>3, <2>1
<1>4. CASE k # 0
  <2> DEFINE p == k - 1
  <2>1. k \in Nat /\ p \in Nat /\ p \notin Bad /\ k = p + 1
    BY <1>2, <1>4
  <2>2. PICK g : Sums(f, p, g)
    BY <2>1
  <2> DEFINE h == [i \in 0 .. k |-> IF i = k THEN g[p] + f[k] ELSE g[i]]
  <2>3. ASSUME NEW i \in 0 .. k
        PROVE  h[i] = IF i = 0 THEN 0 ELSE h[i - 1] + f[i]
    <3>1. CASE i = k
      <4>1. h[k] = g[p] + f[k]
        BY <2>1
      <4>2. p \in 0 .. k /\ p # k /\ k - 1 = p
        BY <2>1
      <4>3. h[p] = g[p]
        BY <4>2
      <4> QED BY <1>4, <3>1, <4>1, <4>2, <4>3
    <3>2. CASE i # k
      <4>1. i \in 0 .. p
        BY <2>1, <3>2
      <4>2. h[i] = g[i]
        BY <3>2
      <4>3. g[i] = IF i = 0 THEN 0 ELSE g[i - 1] + f[i]
        BY <2>2, <4>1 DEF Sums
      <4>4. i # 0 => h[i - 1] = g[i - 1]
        <5>1. i # 0 => i - 1 \in 0 .. k /\ i - 1 # k
          BY <2>1, <4>1
        <5> QED BY <5>1
      <4> QED BY <4>2, <4>3, <4>4
    <3> QED BY <3>1, <3>2
  <2>4. Sums(f, k, h)
    BY <2>3 DEF Sums
  <2> QED BY <1>2, <2>4
<1> QED BY <1>3, <1>4

LEMMA SumTable ==
  ASSUME NEW f, NEW n \in Nat
  PROVE  \E g : /\ SumTo(f, n) = g[n] /\ g[0] = 0
                /\ \A i \in 1 .. n : g[i] = g[i - 1] + f[i]
<1> DEFINE g == CHOOSE g : Sums(f, n, g)
<1>1. Sums(f, n, g)
  BY SumsExist
<1>2. SumTo(f, n) = g[n]
  BY Zenon DEF SumTo, Sums
<1> HIDE DEF g
<1>3. g = [i \in 0 .. n |-> IF i = 0 THEN 0 ELSE g[i - 1] + f[i]]
  BY <1>1 DEF Sums
<1>4. g[0] = 0
  <2>1. 0 \in 0 .. n
    OBVIOUS
  <2> QED BY <1>3, <2>1
<1>5. ASSUME NEW i \in 1 .. n PROVE g[i] = g[i - 1] + f[i]
  <2>1. i \in 0 .. n /\ i # 0
    OBVIOUS
  <2> QED BY <1>3, <2>1
<1> QED BY <1>2, <1>4, <1>5

\* Two sums of the same values are equal, also if one has zeros behind them.
LEMMA SumSame ==
  ASSUME NEW f, NEW h, NEW m \in Nat, NEW n \in Nat, m <= n,
         \A i \in 1 .. m : f[i] = h[i] /\ f[i] \in Int,
         \A i \in 1 .. n : i > m => h[i] = 0
  PROVE  SumTo(f, m) = SumTo(h, n) /\ SumTo(f, m) \in Int
<1>1. PICK g : /\ SumTo(f, m) = g[m] /\ g[0] = 0
               /\ \A i \in 1 .. m : g[i] = g[i - 1] + f[i]
  BY SumTable
<1>2. PICK k : /\ SumTo(h, n) = k[n] /\ k[0] = 0
               /\ \A i \in 1 .. n : k[i] = k[i - 1] + h[i]
  BY SumTable
<1> DEFINE Same(i) == k[i] \in Int /\ k[i] = IF i <= m THEN g[i] ELSE g[m]
           Bad == {i \in 0 .. n : ~Same(i)}
<1>3. Bad = {}
  <2>1. SUFFICES ASSUME Bad # {} PROVE FALSE
    OBVIOUS
  <2>2. PICK i \in Bad : \A j \in Bad : i <= j
    <3>1. Bad \subseteq Nat
      OBVIOUS
    <3> HIDE DEF Bad
    <3> QED BY <2>1, <3>1, Least
  <2>3. CASE i = 0
    BY <1>1, <1>2, <2>2, <2>3
  <2>4. CASE i # 0
    <3> DEFINE p == i - 1
    <3>1. p \in 0 .. n /\ ~(i <= p) /\ i \in 1 .. n /\ p \in Nat /\ i = p + 1
      BY <2>2, <2>4
    <3>2. Same(p)
      BY <2>2, <3>1
    <3>3. k[i] = k[p] + h[i]
      BY <1>2, <3>1
    <3>4. i <= m => g[i] = g[p] + f[i] /\ f[i] = h[i] /\ f[i] \in Int
      BY <1>1, <3>1
    <3>5. i > m => h[i] = 0
      BY <3>1
    <3> HIDE DEF p
    <3>6. Same(i)
      <4>1. CASE i <= m
        BY <3>1, <3>2, <3>3, <3>4, <4>1
      <4>2. CASE i > m
        <5>1. k[i] = k[p] /\ k[p] \in Int
          BY <3>2, <3>3, <3>5, <4>2
        <5>2. k[p] = g[m]
          <6>1. p <= m => p = m
            BY <3>1, <4>2
          <6> QED BY <3>2, <6>1
        <5> QED BY <5>1, <5>2, <4>2
      <4> QED BY <3>1, <4>1, <4>2
    <3> QED BY <2>2, <3>6
  <2> QED BY <2>3, <2>4
<1>4. Same(n) /\ Same(m)
  BY <1>3
<1> QED BY <1>1, <1>2, <1>4

LEMMA SumNone == \A f : SumTo(f, 0) = 0
<1> TAKE f
<1>1. PICK g : SumTo(f, 0) = g[0] /\ g[0] = 0
  BY SumTable
<1> QED BY <1>1

LEMMA SumNext ==
  ASSUME NEW f, NEW n \in Nat, \A i \in 1 .. n : f[i] \in Int
  PROVE  SumTo(f, n + 1) = SumTo(f, n) + f[n + 1]
<1> DEFINE p == n + 1
<1>0. p \in Nat /\ p \in 1 .. p /\ p - 1 = n
  OBVIOUS
<1> HIDE DEF p
<1>1. PICK g : /\ SumTo(f, p) = g[p] /\ g[0] = 0
               /\ \A i \in 1 .. p : g[i] = g[i - 1] + f[i]
  BY <1>0, SumTable
<1>2. PICK k : /\ SumTo(f, n) = k[n] /\ k[0] = 0
               /\ \A i \in 1 .. n : k[i] = k[i - 1] + f[i]
  BY SumTable
<1> DEFINE Bad == {i \in 0 .. n : g[i] # k[i]}
<1>3. Bad = {}
  <2>1. SUFFICES ASSUME Bad # {} PROVE FALSE
    OBVIOUS
  <2>2. PICK i \in Bad : \A j \in Bad : i <= j
    <3>1. Bad \subseteq Nat
      OBVIOUS
    <3> HIDE DEF Bad
    <3> QED BY <2>1, <3>1, Least
  <2>3. CASE i = 0
    BY <1>1, <1>2, <2>2, <2>3
  <2>4. CASE i # 0
    <3> DEFINE q == i - 1
    <3>1. q \in 0 .. n /\ ~(i <= q) /\ i \in 1 .. n /\ i \in 1 .. p
      BY <2>2, <2>4, <1>0
    <3>2. g[q] = k[q]
      BY <2>2, <3>1
    <3>3. g[i] = g[q] + f[i] /\ k[i] = k[q] + f[i]
      BY <1>1, <1>2, <3>1
    <3> QED BY <2>2, <3>2, <3>3
  <2> QED BY <2>3, <2>4
<1>4. g[n] = k[n]
  BY <1>3
<1>5. g[p] = g[n] + f[p]
  BY <1>0, <1>1
<1> QED BY <1>1, <1>2, <1>4, <1>5 DEF p

----------------------------------------------------------------------------
(* The list of sections *)

MatchTo(group, n, g) ==
  g = [s \in 0 .. n |->
         IF s = 0 THEN << >>
         ELSE IF group \in Sections[s].groups THEN Append(g[s - 1], s) ELSE g[s - 1]]

LEMMA MatchExists ==
  ASSUME NEW group, NEW n \in Nat
  PROVE  \E g : MatchTo(group, n, g)
<1> DEFINE Bad == {k \in Nat : ~ \E g : MatchTo(group, k, g)}
<1>1. SUFFICES ASSUME Bad # {} PROVE FALSE
  OBVIOUS
<1>2. PICK k \in Bad : \A m \in Bad : k <= m
  <2>1. Bad \subseteq Nat
    OBVIOUS
  <2> HIDE DEF Bad
  <2> QED BY <1>1, <2>1, Least
<1>3. CASE k = 0
  <2> DEFINE g == [i \in 0 .. 0 |-> << >>]
  <2>1. MatchTo(group, 0, g)
    <3>1. 0 .. 0 = {0}
      OBVIOUS
    <3> QED BY <3>1 DEF MatchTo
  <2> QED BY <1>2, <1>3, <2>1
<1>4. CASE k # 0
  <2> DEFINE p == k - 1
             Entry(q, s) == IF group \in Sections[s].groups THEN Append(q, s) ELSE q
  <2>1. k \in Nat /\ p \in Nat /\ p \notin Bad /\ k = p + 1
    BY <1>2, <1>4
  <2>2. PICK g : MatchTo(group, p, g)
    BY <2>1
  <2> DEFINE h == [i \in 0 .. k |-> IF i = k THEN Entry(g[p], k) ELSE g[i]]
  <2>3. ASSUME NEW i \in 0 .. k
        PROVE  h[i] = IF i = 0 THEN << >> ELSE Entry(h[i - 1], i)
    <3> HIDE DEF Entry
    <3>1. CASE i = k
      <4>1. h[k] = Entry(g[p], k)
        BY <2>1
      <4>2. p \in 0 .. k /\ p # k /\ k - 1 = p
        BY <2>1
      <4>3. h[p] = g[p]
        BY <4>2
      <4> QED BY <1>4, <3>1, <4>1, <4>2, <4>3
    <3>2. CASE i # k
      <4>1. i \in 0 .. p
        BY <2>1, <3>2
      <4>2. h[i] = g[i]
        BY <3>2
      <4>3. g[i] = IF i = 0 THEN << >> ELSE Entry(g[i - 1], i)
        BY <2>2, <4>1 DEF MatchTo, Entry
      <4>4. i # 0 => h[i - 1] = g[i - 1]
        <5>1. i # 0 => i - 1 \in 0 .. k /\ i - 1 # k
          BY <2>1, <4>1
        <5> QED BY <5>1
      <4> QED BY <4>2, <4>3, <4>4
    <3> QED BY <3>1, <3>2
  <2>4. MatchTo(group, k, h)
    BY <2>3 DEF MatchTo
  <2> QED BY <1>2, <2>4
<1> QED BY <1>3, <1>4

LEMMA MatchSteps ==
  ASSUME NEW group
  PROVE  \E g : /\ Matching(group) = g[Len(Sections)] /\ g[0] = << >>
                /\ \A s \in 1 .. Len(Sections) :
                     g[s] = IF group \in Sections[s].groups THEN Append(g[s - 1], s) ELSE g[s - 1]
<1> DEFINE n == Len(Sections)
           g == CHOOSE g : MatchTo(group, n, g)
<1>0. n \in Nat
  BY SectionsOK
<1>1. MatchTo(group, n, g)
  BY <1>0, MatchExists
<1>2. Matching(group) = g[n]
  BY Zenon DEF Matching, MatchTo
<1> HIDE DEF g, n
<1>3. g = [s \in 0 .. n |->
             IF s = 0 THEN << >>
             ELSE IF group \in Sections[s].groups THEN Append(g[s - 1], s) ELSE g[s - 1]]
  BY <1>1 DEF MatchTo
<1>4. g[0] = << >>
  <2>1. 0 \in 0 .. n
    BY <1>0
  <2> QED BY <1>3, <2>1
<1>5. ASSUME NEW s \in 1 .. n
      PROVE  g[s] = IF group \in Sections[s].groups THEN Append(g[s - 1], s) ELSE g[s - 1]
  <2>1. s \in 0 .. n /\ s # 0
    BY <1>0
  <2> QED BY <1>3, <2>1
<1> QED BY <1>2, <1>4, <1>5 DEF n

LEMMA PointsOfInt ==
  ASSUME NEW s \in 1 .. Len(Sections), NEW line
  PROVE  PointsOf(Sections[s], line) \in Int
BY SectionsOK DEF PointsOf

\* The points the sections of a list give a line, and those of the first sections.
Given(list, line) == [i \in 1 .. Len(list) |-> PointsOf(Sections[list[i]], line)]
OfGroup(group, line) ==
  [s \in 1 .. Len(Sections) |-> IF group \in Sections[s].groups THEN PointsOf(Sections[s], line) ELSE 0]

\* The sections that match give a line the points the manual speaks of.
LEMMA MatchingOk ==
  ASSUME NEW group, NEW line
  PROVE  /\ Matching(group) \in Seq(1 .. Len(Sections))
         /\ SumTo(Given(Matching(group), line), Len(Matching(group))) = LineTotal(group, line)
         /\ LineTotal(group, line) \in Int
<1> DEFINE n == Len(Sections)
           F == OfGroup(group, line)
<1>0. n \in Nat
  BY SectionsOK
<1>1. PICK g : /\ Matching(group) = g[n] /\ g[0] = << >>
               /\ \A s \in 1 .. n :
                    g[s] = IF group \in Sections[s].groups THEN Append(g[s - 1], s) ELSE g[s - 1]
  BY MatchSteps
<1>2. \A s \in 1 .. n : F[s] = IF group \in Sections[s].groups THEN PointsOf(Sections[s], line) ELSE 0
  BY DEF OfGroup
<1>3. \A s \in 1 .. n : PointsOf(Sections[s], line) \in Int
  BY PointsOfInt
<1>4. \A s \in 1 .. n : F[s] \in Int
  BY <1>2, <1>3
<1>5. LineTotal(group, line) = SumTo(F, n)
  BY DEF LineTotal, OfGroup
<1> HIDE DEF F
<1> DEFINE Good(s) == /\ g[s] \in Seq(1 .. n)
                      /\ SumTo(Given(g[s], line), Len(g[s])) = SumTo(F, s)
           Bad == {s \in 0 .. n : ~Good(s)}
<1>6. Bad = {}
  <2>1. SUFFICES ASSUME Bad # {} PROVE FALSE
    OBVIOUS
  <2>2. PICK s \in Bad : \A j \in Bad : s <= j
    <3>1. Bad \subseteq Nat
      OBVIOUS
    <3> HIDE DEF Bad
    <3> QED BY <2>1, <3>1, Least
  <2>3. CASE s = 0
    <3>1. g[0] \in Seq(1 .. n) /\ Len(g[0]) = 0
      BY <1>1
    <3>2. SumTo(Given(g[0], line), Len(g[0])) = 0 /\ SumTo(F, 0) = 0
      BY <3>1, SumNone
    <3> QED BY <2>2, <2>3, <3>1, <3>2
  <2>4. CASE s # 0
    <3> DEFINE p == s - 1
               q == g[p]
               m == Len(q)
               a == PointsOf(Sections[s], line)
    <3>1. p \in 0 .. n /\ ~(s <= p) /\ s \in 1 .. n /\ p \in Nat /\ s = p + 1
      BY <1>0, <2>2, <2>4
    <3>2. q \in Seq(1 .. n) /\ SumTo(Given(q, line), m) = SumTo(F, p)
      BY <2>2, <3>1
    <3>3. g[s] = IF group \in Sections[s].groups THEN Append(q, s) ELSE q
      BY <1>1, <3>1
    <3>4. SumTo(F, s) = SumTo(F, p) + F[s]
      <4>1. \A i \in 1 .. p : F[i] \in Int
        BY <1>4, <3>1
      <4>2. SumTo(F, p + 1) = SumTo(F, p) + F[p + 1]
        BY <3>1, <4>1, SumNext
      <4> QED BY <3>1, <4>2
    <3>5. m \in Nat /\ a \in Int /\ F[s] = IF group \in Sections[s].groups THEN a ELSE 0
      BY <1>2, <1>3, <3>1, <3>2, LenProperties
    <3> HIDE DEF p, q, a
    <3>6. \A i \in 1 .. m : q[i] \in 1 .. n
      BY <3>2, ElementOfSeq
    <3>7. CASE group \in Sections[s].groups
      <4> DEFINE r == Append(q, s)
                 l == m + 1
                 G == Given(q, line)
                 H == Given(r, line)
      <4>1. /\ r \in Seq(1 .. n) /\ Len(r) = l /\ r[l] = s
            /\ \A i \in 1 .. m : r[i] = q[i]
        BY <3>1, <3>2, AppendProperties
      <4>2. /\ H[l] = a
            /\ \A i \in 1 .. m : H[i] = PointsOf(Sections[q[i]], line)
        <5> HIDE DEF r, l
        <5>1. l \in 1 .. Len(r) /\ \A i \in 1 .. m : i \in 1 .. Len(r)
          BY <3>5, <4>1 DEF l
        <5> QED BY <4>1, <5>1 DEF Given, a
      <4>3. \A i \in 1 .. m : G[i] = PointsOf(Sections[q[i]], line) /\ G[i] \in Int
        BY <1>3, <3>6 DEF Given
      <4> HIDE DEF G, H, r
      <4>4. SumTo(G, m) = SumTo(H, m) /\ SumTo(G, m) \in Int
        <5>1. \A i \in 1 .. m : G[i] = H[i] /\ G[i] \in Int
          BY <4>2, <4>3
        <5>2. m <= m /\ \A i \in 1 .. m : i > m => H[i] = 0
          BY <3>5
        <5> HIDE DEF m
        <5> QED BY <3>5, <5>1, <5>2, SumSame
      <4>5. SumTo(H, m + 1) = SumTo(H, m) + H[m + 1]
        <5>1. \A i \in 1 .. m : H[i] \in Int
          BY <4>2, <4>3
        <5> QED BY <3>5, <5>1, SumNext
      <4>6. SumTo(H, l) = SumTo(F, s)
        BY <3>2, <3>4, <3>5, <3>7, <4>2, <4>4, <4>5 DEF G
      <4>7. Good(s)
        BY <3>3, <3>7, <4>1, <4>6 DEF H, r
      <4> QED BY <2>2, <4>7
    <3>8. CASE group \notin Sections[s].groups
      <4>1. g[s] = q /\ F[s] = 0
        BY <3>3, <3>5, <3>8
      <4>2. SumTo(F, p) \in Int
        <5>1. \A i \in 1 .. p : F[i] \in Int
          BY <1>4, <3>1
        <5> QED BY <3>1, <5>1, SumSame
      <4>3. Good(s)
        BY <3>2, <3>4, <4>1, <4>2
      <4> QED BY <2>2, <4>3
    <3> QED BY <3>7, <3>8
  <2> QED BY <2>3, <2>4
<1>7. Good(n)
  BY <1>0, <1>6
<1>8. SumTo(F, n) \in Int
  BY <1>0, <1>4, SumSame
<1> QED BY <1>1, <1>5, <1>7, <1>8

\* A list of sections: first those of the group, then, if there are more nodes, one without
\* rules.
ListOf(list, group) ==
  LET new == Matching(group) IN
  /\ list \in Seq(0 .. Len(Sections)) /\ Len(new) <= Len(list)
  /\ \A i \in 1 .. Len(new) : list[i] = new[i]
  /\ Len(new) < Len(list) => list[Len(new) + 1] = 0

\* Each section has a rule: one without would end the list.
RulesGiven == \A s \in 1 .. Len(Sections) : DOMAIN Sections[s].points # {}

LEMMA LargerOk ==
  ASSUME NEW m \in Nat, NEW n \in Nat
  PROVE  Max({m, n}) \in Nat /\ m <= Max({m, n}) /\ n <= Max({m, n}) /\ Max({m, n}) \in {m, n}
<1>1. \E x \in {m, n} : \A y \in {m, n} : x >= y
  <2>1. CASE m >= n
    BY <2>1
  <2>2. CASE n >= m
    BY <2>2
  <2> QED BY <2>1, <2>2
<1> QED BY <1>1 DEF Max

LEMMA RebuiltOk ==
  ASSUME NEW group, actList \in Seq(0 .. Len(Sections))
  PROVE  ListOf(Rebuilt(group), group)
<1> DEFINE new == Matching(group)
           m == Len(new)
           k == Len(actList)
           n == Max({m, k})
           l == Rebuilt(group)
<1>1. new \in Seq(1 .. Len(Sections)) /\ m \in Nat /\ k \in Nat
  BY MatchingOk, LenProperties
<1>2. \A i \in 1 .. m : new[i] \in 1 .. Len(Sections)
  BY <1>1, ElementOfSeq
<1>3. \A i \in 1 .. k : actList[i] \in 0 .. Len(Sections)
  BY ElementOfSeq
<1>4. n \in Nat /\ m <= n /\ k <= n /\ n \in {m, k}
  <2> HIDE DEF m, k
  <2> QED BY <1>1, LargerOk
<1>5. l = [i \in 1 .. n |-> IF i <= m THEN new[i] ELSE IF i = m + 1 THEN 0 ELSE actList[i]]
  BY DEF Rebuilt
<1>6. Len(Sections) \in Nat
  BY SectionsOK
<1> HIDE DEF new, m, k, n, l
<1>7. ASSUME NEW i \in 1 .. n PROVE l[i] \in 0 .. Len(Sections)
  <2>1. CASE i <= m
    BY <1>1, <1>2, <1>4, <1>5, <1>6, <2>1
  <2>2. CASE i = m + 1
    BY <1>1, <1>4, <1>5, <1>6, <2>2
  <2>3. CASE i > m + 1
    <3>1. i \in 1 .. k /\ l[i] = actList[i]
      BY <1>1, <1>4, <1>5, <2>3
    <3> QED BY <1>3, <3>1
  <2> QED BY <1>1, <1>4, <2>1, <2>2, <2>3
<1>8. l \in Seq(0 .. Len(Sections)) /\ Len(l) = n
  BY <1>4, <1>5, <1>7
<1>9. \A i \in 1 .. m : l[i] = new[i]
  BY <1>1, <1>4, <1>5
<1>10. m < n => l[m + 1] = 0
  BY <1>1, <1>4, <1>5
<1> QED BY <1>4, <1>8, <1>9, <1>10 DEF ListOf, l, m, new

LEMMA PointsInt ==
  ASSUME NEW list \in Seq(0 .. Len(Sections)), NEW line
  PROVE  Points(list, line) \in Int
<1> DEFINE n == Len(list)
           used == {i \in 1 .. n : \A j \in 1 .. i : HasRules(list[j])}
           F == [i \in 1 .. n |-> IF i \in used THEN PointsOf(Sections[list[i]], line) ELSE 0]
<1>1. Points(list, line) = SumTo(F, n)
  BY DEF Points
<1>2. n \in Nat /\ \A i \in 1 .. n : list[i] \in 0 .. Len(Sections)
  BY LenProperties, ElementOfSeq
<1>3. ASSUME NEW i \in 1 .. n PROVE F[i] \in Int
  <2>1. CASE i \in used
    <3>1. list[i] # 0
      BY <2>1, <1>2 DEF HasRules
    <3>2. list[i] \in 1 .. Len(Sections)
      BY <1>2, <3>1, SectionsOK
    <3> QED BY <2>1, <3>2, PointsOfInt
  <2> QED BY <2>1
<1> HIDE DEF n, F
<1> QED BY <1>1, <1>2, <1>3, SumSame

\* matchLine gives a line the points of all rules for its group.
LEMMA PointsOk ==
  ASSUME RulesGiven, NEW list, NEW group, ListOf(list, group), NEW line
  PROVE  Points(list, line) = LineTotal(group, line)
<1> DEFINE new == Matching(group)
           m == Len(new)
           n == Len(list)
           used == {i \in 1 .. n : \A j \in 1 .. i : HasRules(list[j])}
           F == [i \in 1 .. n |-> IF i \in used THEN PointsOf(Sections[list[i]], line) ELSE 0]
           G == Given(new, line)
<1>1. Points(list, line) = SumTo(F, n)
  BY DEF Points
<1>2. SumTo(G, m) = LineTotal(group, line) /\ new \in Seq(1 .. Len(Sections))
  BY MatchingOk
<1>3. /\ n \in Nat /\ m \in Nat /\ m <= n /\ list \in Seq(0 .. Len(Sections))
      /\ \A i \in 1 .. m : list[i] = new[i] /\ new[i] \in 1 .. Len(Sections)
      /\ m < n => list[m + 1] = 0
  BY <1>2, LenProperties, ElementOfSeq DEF ListOf
<1>4. \A i \in 1 .. m : HasRules(list[i])
  <2>1. \A s \in 1 .. Len(Sections) : s # 0 /\ HasRules(s)
    BY SectionsOK DEF RulesGiven, HasRules
  <2> QED BY <1>3, <2>1
<1>5. m < n => ~HasRules(list[m + 1])
  BY <1>3 DEF HasRules
<1>6. \A i \in 1 .. n : i \in used <=> i <= m
  <2>1. ASSUME NEW i \in 1 .. n, i <= m PROVE i \in used
    BY <1>3, <1>4, <2>1
  <2>2. ASSUME NEW i \in 1 .. n, i \in used PROVE i <= m
    <3>1. SUFFICES ASSUME i > m PROVE FALSE
      BY <1>3
    <3>2. m + 1 \in 1 .. i /\ m < n
      BY <1>3, <3>1
    <3> QED BY <1>5, <2>2, <3>2
  <2> QED BY <2>1, <2>2
<1>7. \A i \in 1 .. n : F[i] = IF i <= m THEN PointsOf(Sections[list[i]], line) ELSE 0
  BY <1>6
<1>8. \A i \in 1 .. m : G[i] = PointsOf(Sections[new[i]], line) /\ G[i] \in Int
  BY <1>3, PointsOfInt DEF Given
<1> HIDE DEF new, m, n, F, G
<1>9. \A i \in 1 .. m : G[i] = F[i] /\ G[i] \in Int
  BY <1>3, <1>7, <1>8
<1>10. \A i \in 1 .. n : i > m => F[i] = 0
  BY <1>3, <1>7
<1>11. SumTo(G, m) = SumTo(F, n)
  BY <1>3, <1>9, <1>10, SumSame
<1> QED BY <1>1, <1>2, <1>11

\* One more line.
LEMMA TotalNext ==
  ASSUME NEW S, NEW header \in Seq(S), NEW k \in 0 .. Len(header) - 1, NEW group
  PROVE  /\ Total(group, SubSeq(header, 1, 0)) = 0
         /\ Total(group, SubSeq(header, 1, k + 1))
              = Total(group, SubSeq(header, 1, k)) + LineTotal(group, header[k + 1])
         /\ Total(group, SubSeq(header, 1, k)) \in Int
<1> DEFINE Lines(j) == SubSeq(header, 1, j)
           F(j) == [l \in 1 .. Len(Lines(j)) |-> LineTotal(group, Lines(j)[l])]
           p == k + 1
<1>0. Len(header) \in Nat /\ k \in Nat /\ p \in 1 .. Len(header) /\ p \in Nat
  BY LenProperties
<1>1. ASSUME NEW j \in 0 .. Len(header)
      PROVE  /\ Total(group, Lines(j)) = SumTo(F(j), j)
             /\ \A l \in 1 .. j : F(j)[l] = LineTotal(group, header[l])
  <2>1. Len(Lines(j)) = j /\ \A l \in 1 .. j : Lines(j)[l] = header[l]
    BY <1>0
  <2>2. Total(group, Lines(j)) = SumTo(F(j), Len(Lines(j)))
    BY DEF Total
  <2>3. \A l \in 1 .. j : F(j)[l] = LineTotal(group, header[l])
    BY <2>1
  <2> QED BY <2>1, <2>2, <2>3
<1> HIDE DEF F, Lines, p
<1>2. \A l : LineTotal(group, header[l]) \in Int
  BY MatchingOk
<1>3. 0 \in 0 .. Len(header) /\ k \in 0 .. Len(header) /\ p \in 0 .. Len(header)
  BY <1>0
<1>4. Total(group, Lines(0)) = 0
  BY <1>1, <1>3, SumNone
<1>5. \A l \in 1 .. k : F(k)[l] = F(p)[l] /\ F(k)[l] \in Int /\ F(p)[l] \in Int
  <2>1. \A l \in 1 .. k : l \in 1 .. p
    BY <1>0 DEF p
  <2> QED BY <1>1, <1>2, <1>3, <2>1
<1>6. SumTo(F(k), k) = SumTo(F(p), k) /\ SumTo(F(k), k) \in Int
  BY <1>0, <1>5, SumSame
<1>7. SumTo(F(p), k + 1) = SumTo(F(p), k) + F(p)[k + 1]
  BY <1>0, <1>5, SumNext
<1>8. F(p)[p] = LineTotal(group, header[p])
  BY <1>0, <1>1, <1>3
<1>9. Total(group, Lines(p)) = Total(group, Lines(k)) + LineTotal(group, header[p])
  BY <1>1, <1>3, <1>6, <1>7, <1>8 DEF p
<1>10. Total(group, Lines(k)) \in Int
  BY <1>1, <1>3, <1>6
<1> QED BY <1>4, <1>9, <1>10 DEF Lines, p
----------------------------------------------------------------------------
(* Scores *)

\* The list of sections is the one of the group that was asked for last.
KillInv ==
  /\ actGroup \in Groups \union {NoGroup} /\ actList \in Seq(0 .. Len(Sections))
  /\ actGroup \in Groups => ListOf(actList, actGroup)

\* Lines are read of articles that were taken, and for those doKillQ has answered.
ReadInv ==
  /\ KillInv
  /\ killQ \in [Groups -> {"unknown", "built", "yes", "no"}]
  /\ lines \in [Articles -> Nat]
  /\ \A a \in Articles : /\ lines[a] \in 0 .. Len(Header[a])
                         /\ fate[a] = "open" => lines[a] = 0
                         /\ fate[a] # "open" => killQ[GroupOf[a]] \in {"yes", "no"}
  /\ \A t \in Threads : thread[t].score \in Int

\* The score that k lines of an article give.
ScoreTo(answer, a, k) ==
  IF answer = "yes" THEN Total(GroupOf[a], SubSeq(Header[a], 1, k)) ELSE 0

ScoreInv ==
  /\ \A t \in Threads : thread[t].at = "head" =>
       LET a == thread[t].art IN thread[t].score = ScoreTo(killQ[GroupOf[a]], a, lines[a])
  /\ \A a \in Articles : fate[a] = "killed" =>
       Total(GroupOf[a], SubSeq(Header[a], 1, lines[a])) < Threshold

LEMMA BuildKill ==
  ASSUME KillInv, NEW g \in Groups, BuildActGroupList(g)
  PROVE  KillInv' /\ ListOf(actList', g)
<1>1. CASE g = actGroup
  BY <1>1 DEF BuildActGroupList, killVars, KillInv
<1>2. CASE g # actGroup
  <2>1. actGroup' = g /\ actList' = Rebuilt(g)
    BY <1>2 DEF BuildActGroupList
  <2>2. ListOf(actList', g)
    BY <2>1, RebuiltOk DEF KillInv
  <2>3. actList' \in Seq(0 .. Len(Sections))
    BY <2>2 DEF ListOf
  <2> QED BY <2>1, <2>2, <2>3 DEF KillInv
<1> QED BY <1>1, <1>2

\* A step that reads no line: threads go on or end.
LEMMA PlacesScore ==
  ASSUME ReadInv, UNCHANGED <<killVars, killQ, lines>>,
         \A u \in Threads : thread'[u].score \in {thread[u].score, 0},
         \A u \in Threads : thread'[u].at = "head" => thread'[u] = thread[u],
         \A a \in Articles : fate'[a] # fate[a] => fate[a] # "open" /\ fate'[a] # "open",
         \A a \in Articles : fate'[a] = "killed" /\ fate[a] # "killed" =>
           \E t \in Threads : /\ thread[t].at = "head" /\ thread[t].art = a
                              /\ killQ[GroupOf[a]] = "yes" /\ thread[t].score < Threshold
  PROVE  ReadInv' /\ (ScoreInv => ScoreInv')
<1>1. KillInv'
  BY DEF ReadInv, KillInv, killVars
<1>2. \A t \in Threads : thread'[t].score \in Int
  BY DEF ReadInv
<1>3. ReadInv'
  BY <1>1, <1>2 DEF ReadInv
<1>4. ASSUME ScoreInv PROVE ScoreInv'
  <2>1. ASSUME NEW t \in Threads, thread'[t].at = "head"
        PROVE  thread'[t].score = ScoreTo(killQ'[GroupOf[thread'[t].art]], thread'[t].art, lines'[thread'[t].art])
    BY <1>4, <2>1 DEF ScoreInv
  <2>2. ASSUME NEW a \in Articles, fate'[a] = "killed"
        PROVE  Total(GroupOf[a], SubSeq(Header[a], 1, lines'[a])) < Threshold
    <3>1. CASE fate[a] = "killed"
      BY <1>4, <3>1 DEF ScoreInv
    <3>2. CASE fate[a] # "killed"
      <4>1. PICK t \in Threads : /\ thread[t].at = "head" /\ thread[t].art = a
                                 /\ killQ[GroupOf[a]] = "yes" /\ thread[t].score < Threshold
        BY <2>2, <3>2
      <4>2. thread[t].score = ScoreTo("yes", a, lines[a])
        BY <1>4, <4>1 DEF ScoreInv
      <4> QED BY <4>1, <4>2 DEF ScoreTo
    <3> QED BY <3>1, <3>2
  <2> QED BY <2>1, <2>2 DEF ScoreInv
<1> QED BY <1>3, <1>4

LEMMA KillQScore ==
  ASSUME ReadInv, Threaded, NEW g \in Groups, KillQBuild(g) \/ KillQLook(g)
  PROVE  ReadInv' /\ (ScoreInv => ScoreInv')
<1>1. UNCHANGED <<thread, fate, lines>> /\ killQ[g] \in {"unknown", "built"}
  BY DEF KillQBuild, KillQLook
<1>2. KillInv'
  BY BuildKill DEF KillQBuild, KillQLook, ReadInv, KillInv, killVars
<1>3. /\ killQ' \in [Groups -> {"unknown", "built", "yes", "no"}]
      /\ \A h \in Groups : h # g => killQ'[h] = killQ[h]
  BY DEF KillQBuild, KillQLook, ReadInv
<1>4. \A a \in Articles : fate[a] # "open" => killQ'[GroupOf[a]] = killQ[GroupOf[a]]
  BY <1>1, <1>3, ArticleFlowAssumption DEF ReadInv
<1>5. ReadInv'
  BY <1>1, <1>2, <1>3, <1>4 DEF ReadInv
<1>6. ASSUME ScoreInv PROVE ScoreInv'
  <2>1. \A t \in Threads : thread[t].at = "head" => thread[t].art \in Articles /\ fate[thread[t].art] = "taken"
    BY DEF Threaded
  <2> QED BY <1>1, <1>4, <1>6, <2>1 DEF ScoreInv
<1> QED BY <1>5, <1>6

LEMMA TotalNone == \A group, header : Total(group, SubSeq(header, 1, 0)) = 0
<1> TAKE group, header
<1>1. Len(SubSeq(header, 1, 0)) = 0
  OBVIOUS
<1> QED BY <1>1, SumNone DEF Total

LEMMA TakeScore ==
  ASSUME ReadInv, Threaded, NEW t \in Threads, NEW a \in Articles, Take(t, a)
  PROVE  ReadInv' /\ (ScoreInv => ScoreInv')
<1>1. /\ UNCHANGED <<killVars, killQ, lines>> /\ fate[a] = "open" /\ killQ[GroupOf[a]] \in {"yes", "no"}
      /\ thread'[t] = [at |-> "head", art |-> a, score |-> 0]
      /\ \A u \in Threads : u # t => thread'[u] = thread[u]
  BY DEF Take, Threaded
<1>2. fate'[a] = "taken" /\ \A b \in Articles : b # a => fate'[b] = fate[b]
  BY TakeThread
<1>3. KillInv'
  BY <1>1 DEF ReadInv, KillInv, killVars
<1>4. \A u \in Threads : thread'[u].score \in Int
  BY <1>1 DEF ReadInv
<1>5. ReadInv'
  BY <1>1, <1>2, <1>3, <1>4 DEF ReadInv
<1>6. ASSUME ScoreInv PROVE ScoreInv'
  <2>1. ScoreTo(killQ[GroupOf[a]], a, lines[a]) = 0
    BY <1>1, TotalNone DEF ScoreTo, ReadInv
  <2>2. ASSUME NEW u \in Threads, thread'[u].at = "head"
        PROVE  thread'[u].score = ScoreTo(killQ'[GroupOf[thread'[u].art]], thread'[u].art, lines'[thread'[u].art])
    <3>1. CASE u = t
      BY <1>1, <2>1, <3>1
    <3>2. CASE u # t
      BY <1>1, <1>6, <2>2, <3>2 DEF ScoreInv
    <3> QED BY <3>1, <3>2
  <2>3. ASSUME NEW b \in Articles, fate'[b] = "killed"
        PROVE  Total(GroupOf[b], SubSeq(Header[b], 1, lines'[b])) < Threshold
    BY <1>1, <1>2, <1>6, <2>3 DEF ScoreInv
  <2> QED BY <2>2, <2>3 DEF ScoreInv
<1> QED BY <1>5, <1>6

\* A line is read, and if its group has rules they are asked for it.
LEMMA HeadLineReads ==
  ASSUME ReadInv, Threaded, NEW t \in Threads, NEW a \in Articles, HeadLine(t, a)
  PROVE  /\ UNCHANGED <<fate, killQ>> /\ fate[a] = "taken" /\ thread[t].at = "head" /\ thread[t].art = a
         /\ lines[a] \in 0 .. Len(Header[a]) - 1
         /\ lines'[a] = lines[a] + 1 /\ \A b \in Articles : b # a => lines'[b] = lines[b]
         /\ lines' \in [Articles -> Nat]
         /\ killQ[GroupOf[a]] = "yes" =>
              /\ KillInv' /\ ListOf(actList', GroupOf[a])
              /\ thread'[t].score = thread[t].score + Points(actList', Header[a][lines[a] + 1])
         /\ killQ[GroupOf[a]] # "yes" => KillInv' /\ thread'[t].score = thread[t].score
<1>1. /\ UNCHANGED <<fate, killQ>> /\ thread[t].at = "head" /\ thread[t].art = a
      /\ lines[a] < Len(Header[a]) /\ lines' = [lines EXCEPT ![a] = @ + 1]
  BY DEF HeadLine, At
<1>2. fate[a] = "taken"
  BY <1>1 DEF Threaded
<1>3. lines[a] \in Nat /\ Len(Header[a]) \in Nat /\ lines \in [Articles -> Nat]
  BY LenProperties, ArticleFlowAssumption DEF ReadInv
<1>4. /\ lines[a] \in 0 .. Len(Header[a]) - 1
      /\ lines'[a] = lines[a] + 1 /\ \A b \in Articles : b # a => lines'[b] = lines[b]
      /\ lines' \in [Articles -> Nat]
  BY <1>1, <1>3
<1>5. ASSUME killQ[GroupOf[a]] = "yes"
      PROVE  /\ KillInv' /\ ListOf(actList', GroupOf[a])
             /\ thread'[t].score = thread[t].score + Points(actList', Header[a][lines[a] + 1])
  <2>1. BuildActGroupList(GroupOf[a]) /\ GroupOf[a] \in Groups
    BY <1>5, ArticleFlowAssumption DEF HeadLine, Enabled
  <2>2. KillInv' /\ ListOf(actList', GroupOf[a])
    BY <2>1, BuildKill DEF ReadInv
  <2> DEFINE points == Points(actList', Header[a][lines'[a]])
  <2>3. thread' = [thread EXCEPT ![t].score = @ + points]
    BY <1>5 DEF HeadLine, Enabled
  <2> HIDE DEF points
  <2>4. thread'[t] = [thread[t] EXCEPT !.score = @ + points]
    BY <2>3 DEF Threaded
  <2>5. thread'[t].score = thread[t].score + points
    BY <2>4 DEF Threaded
  <2>6. points = Points(actList', Header[a][lines[a] + 1])
    BY <1>4 DEF points
  <2> QED BY <2>2, <2>5, <2>6
<1>6. ASSUME killQ[GroupOf[a]] # "yes" PROVE KillInv' /\ thread'[t].score = thread[t].score
  BY <1>6 DEF HeadLine, Enabled, ReadInv, KillInv, killVars
<1> QED BY <1>1, <1>2, <1>4, <1>5, <1>6

LEMMA HeadLineScore ==
  ASSUME ReadInv, Threaded, NEW t \in Threads, NEW a \in Articles, HeadLine(t, a)
  PROVE  ReadInv' /\ (RulesGiven /\ ScoreInv => ScoreInv')
<1> DEFINE k == lines[a]
           line == Header[a][k + 1]
           g == GroupOf[a]
<1>1. /\ UNCHANGED <<fate, killQ>> /\ fate[a] = "taken" /\ thread[t].at = "head" /\ thread[t].art = a
      /\ k \in 0 .. Len(Header[a]) - 1
      /\ lines'[a] = k + 1 /\ \A b \in Articles : b # a => lines'[b] = lines[b]
      /\ lines' \in [Articles -> Nat]
  BY HeadLineReads
<1>2. killQ[g] = "yes" =>
        KillInv' /\ ListOf(actList', g) /\ thread'[t].score = thread[t].score + Points(actList', line)
  BY HeadLineReads
<1>3. killQ[g] # "yes" => KillInv' /\ thread'[t].score = thread[t].score
  BY HeadLineReads
<1>4. \A u \in Threads : thread'[u].at = thread[u].at /\ thread'[u].art = thread[u].art
  BY HeadLineThread
<1>5. \A u \in Threads : u # t => thread'[u] = thread[u]
  BY HeadLineThread
<1>6. KillInv'
  BY <1>2, <1>3
<1>7. Points(actList', line) \in Int
  BY <1>6, PointsInt DEF KillInv
<1> HIDE DEF line, k, g
<1>8. \A u \in Threads : thread'[u].score \in Int
  <2>1. thread[t].score \in Int
    BY DEF ReadInv
  <2>2. thread'[t].score \in Int
    BY <1>2, <1>3, <1>7, <2>1
  <2> QED BY <1>5, <2>2 DEF ReadInv
<1>9. Len(Header[a]) \in Nat /\ k + 1 \in 0 .. Len(Header[a])
  BY <1>1, LenProperties, ArticleFlowAssumption
<1>10. ReadInv'
  BY <1>1, <1>6, <1>8, <1>9 DEF ReadInv
<1>11. ASSUME RulesGiven, ScoreInv PROVE ScoreInv'
  <2>1. thread[t].score = ScoreTo(killQ[g], a, k)
    BY <1>1, <1>11 DEF ScoreInv, g, k
  <2>2. thread'[t].score = ScoreTo(killQ[g], a, k + 1)
    <3>1. CASE killQ[g] = "yes"
      <4>1. Points(actList', line) = LineTotal(g, line)
        BY <1>2, <1>11, <3>1, PointsOk
      <4>2. Total(g, SubSeq(Header[a], 1, k + 1)) = Total(g, SubSeq(Header[a], 1, k)) + LineTotal(g, line)
        BY <1>1, TotalNext, ArticleFlowAssumption DEF line
      <4> QED BY <1>2, <2>1, <3>1, <4>1, <4>2 DEF ScoreTo, g
    <3>2. CASE killQ[g] # "yes"
      BY <1>3, <2>1, <3>2 DEF ScoreTo
    <3> QED BY <3>1, <3>2
  <2>3. ASSUME NEW u \in Threads, thread'[u].at = "head"
        PROVE  thread'[u].score = ScoreTo(killQ'[GroupOf[thread'[u].art]], thread'[u].art, lines'[thread'[u].art])
    <3>1. CASE u = t
      BY <1>1, <1>4, <2>2, <3>1 DEF g
    <3>2. CASE u # t
      <4>1. thread[u].at = "head" /\ thread[u].art \in Articles /\ thread[u].art # a
        BY <1>1, <1>4, <2>3, <3>2 DEF Threaded
      <4> QED BY <1>1, <1>5, <1>11, <3>2, <4>1 DEF ScoreInv
    <3> QED BY <3>1, <3>2
  <2>4. ASSUME NEW b \in Articles, fate'[b] = "killed"
        PROVE  Total(GroupOf[b], SubSeq(Header[b], 1, lines'[b])) < Threshold
    BY <1>1, <1>11, <2>4 DEF ScoreInv
  <2> QED BY <2>3, <2>4 DEF ScoreInv
<1> QED BY <1>10, <1>11

LEMMA EndsScore ==
  ASSUME ReadInv, Threaded, NEW t \in Threads, NEW a \in Articles, NEW what \in Fates \ {"open", "taken"},
         thread[t].at # "idle", thread[t].art = a, Ends(t, a, what),
         what = "killed" => thread[t].at = "head" /\ Killed(t, a),
         UNCHANGED <<killVars, killQ, lines>>
  PROVE  Threaded' /\ ReadInv' /\ (ScoreInv => ScoreInv')
<1>1. Threaded'
  BY EndsThread
<1>2. /\ thread'[t].at = "idle" /\ \A u \in Threads : u # t => thread'[u] = thread[u]
      /\ fate'[a] = what /\ \A b \in Articles : b # a => fate'[b] = fate[b]
  BY EndsThread
<1>3. thread'[t].score = 0
  BY DEF Ends, Idle, Threaded
<1>4. fate[a] = "taken"
  BY DEF Threaded
<1>5. \A u \in Threads : thread'[u].score \in {thread[u].score, 0}
  BY <1>2, <1>3
<1>6. \A u \in Threads : thread'[u].at = "head" => thread'[u] = thread[u]
  BY <1>2
<1>7. \A b \in Articles : fate'[b] # fate[b] => fate[b] # "open" /\ fate'[b] # "open"
  BY <1>2, <1>4
<1>8. \A b \in Articles : fate'[b] = "killed" /\ fate[b] # "killed" =>
        \E u \in Threads : /\ thread[u].at = "head" /\ thread[u].art = b
                           /\ killQ[GroupOf[b]] = "yes" /\ thread[u].score < Threshold
  BY <1>2 DEF Killed, Enabled
<1> QED BY <1>1, <1>5, <1>6, <1>7, <1>8, PlacesScore

LEMMA GotoScore ==
  ASSUME ReadInv, Threaded, NEW t \in Threads, NEW place \in Places \ {"idle", "head"},
         thread[t].at # "idle", Goto(t, place), UNCHANGED <<killVars, killQ, lines, fate>>
  PROVE  Threaded' /\ ReadInv' /\ (ScoreInv => ScoreInv')
<1>1. Threaded' /\ thread'[t].at = place /\ \A u \in Threads : u # t => thread'[u] = thread[u]
  BY GotoThread
<1>2. thread'[t].score = thread[t].score
  BY DEF Goto, Threaded
<1>3. \A u \in Threads : thread'[u].score \in {thread[u].score, 0}
  BY <1>1, <1>2
<1>4. \A u \in Threads : thread'[u].at = "head" => thread'[u] = thread[u]
  BY <1>1
<1> QED BY <1>1, <1>3, <1>4, PlacesScore

LEMMA QuietScore ==
  ASSUME ReadInv, Threaded, UNCHANGED <<killVars, killQ, lines, thread, fate>>
  PROVE  Threaded' /\ ReadInv' /\ (ScoreInv => ScoreInv')
<1>1. Threaded'
  BY DEF Threaded
<1> QED BY <1>1, PlacesScore

LEMMA ArticleStepScore ==
  ASSUME ReadInv, Threaded, NEW t \in Threads, NEW a \in Articles, ArticleStep(t, a)
  PROVE  Threaded' /\ ReadInv' /\ (RulesGiven /\ ScoreInv => ScoreInv')
<1> USE DEF Fates, Places
<1>1. CASE Take(t, a)
  BY <1>1, TakeScore, TakeThread
<1>2. CASE HeadLine(t, a)
  BY <1>2, HeadLineScore, HeadLineThread
<1>3. CASE HeadKilled(t, a)
  BY <1>3, EndsScore DEF HeadKilled, At
<1>4. CASE HeadOk(t, a)
  BY <1>4, GotoScore DEF HeadOk, At
<1>5. CASE HeadBroken(t, a)
  BY <1>5, EndsScore DEF HeadBroken, At
<1>6. CASE BodyOk(t, a)
  BY <1>6, GotoScore DEF BodyOk, At
<1>7. CASE BodyBroken(t, a)
  BY <1>7, EndsScore DEF BodyBroken, At
<1>8. CASE Mark(t, a)
  BY <1>8, EndsScore DEF Mark, At
<1>9. ASSUME NEW from \in Places \ {"idle"}, NEW to \in Places \ {"idle", "head"}, Step(t, a, from, to)
      PROVE  Threaded' /\ ReadInv' /\ (RulesGiven /\ ScoreInv => ScoreInv')
  BY <1>9, GotoScore DEF Step, At
<1>10. CASE Begin(t, a) \/ File(t, a) \/ Room(t, a) \/ Copy(t, a) \/ Length(t, a) \/ Stop(t, a)
  BY <1>9, <1>10 DEF Begin, File, Room, Copy, Length, Stop
<1> QED BY <1>1, <1>2, <1>3, <1>4, <1>5, <1>6, <1>7, <1>8, <1>10 DEF ArticleStep

LEMMA StepScore ==
  ASSUME ReadInv, Threaded, [Next]_vars
  PROVE  Threaded' /\ ReadInv' /\ (RulesGiven /\ ScoreInv => ScoreInv')
<1>1. ASSUME NEW g \in Groups, KillQBuild(g) \/ KillQLook(g)
      PROVE  Threaded' /\ ReadInv' /\ (ScoreInv => ScoreInv')
  <2>1. UNCHANGED <<thread, fate>>
    BY <1>1 DEF KillQBuild, KillQLook
  <2>2. Threaded'
    BY <2>1 DEF Threaded
  <2> QED BY <1>1, <2>2, KillQScore
<1>2. ASSUME NEW t \in Threads, NEW a \in Articles, ArticleStep(t, a)
      PROVE  Threaded' /\ ReadInv' /\ (RulesGiven /\ ScoreInv => ScoreInv')
  BY <1>2, ArticleStepScore
<1>3. CASE Signal \/ HandlerClose \/ HandlerExit \/ Finish
  BY <1>3, QuietScore DEF Signal, HandlerClose, HandlerExit, Finish
<1>4. CASE UNCHANGED vars
  BY <1>4, QuietScore DEF vars, flowVars
<1> QED BY <1>1, <1>2, <1>3, <1>4 DEF Next

LEMMA InitScore == Init => Threaded /\ ReadInv /\ ScoreInv
<1> SUFFICES ASSUME Init PROVE Threaded /\ ReadInv /\ ScoreInv
  OBVIOUS
<1>1. Threaded
  BY InitFlow DEF FlowInv
<1>2. KillInv
  <2>1. << >> \in Seq(0 .. Len(Sections))
    OBVIOUS
  <2> QED BY <2>1, ArticleFlowAssumption DEF KillInv, Init, KillInit
<1>3. \A a \in Articles : Len(Header[a]) \in Nat
  BY LenProperties, ArticleFlowAssumption
<1>4. ReadInv
  BY <1>2, <1>3 DEF Init, ReadInv, Idle
<1>5. ScoreInv
  BY DEF Init, ScoreInv, Idle
<1> QED BY <1>1, <1>4, <1>5

\* What the scores rest on, also when the handler falls into msgStart: the list of sections
\* is always that of the group asked for last, and a thread's score is that of the lines read.
THEOREM ScoresKept == Spec => [](Threaded /\ ReadInv /\ (RulesGiven => ScoreInv))
<1>1. Init => Threaded /\ ReadInv /\ (RulesGiven => ScoreInv)
  BY InitScore
<1>2. Threaded /\ ReadInv /\ (RulesGiven => ScoreInv) /\ [Next]_vars
        => (Threaded /\ ReadInv /\ (RulesGiven => ScoreInv))'
  BY StepScore
<1> QED BY <1>1, <1>2, PTL DEF Spec

\* An article is killed only if the rules for its own group give the lines that were read
\* less than the threshold, whatever other threads do to the shared list of sections
\* meanwhile (buildActGroupList, matchLine, doKillQ), when each section has a rule.
THEOREM KillsDue ==
  ASSUME RulesGiven
  PROVE  Spec => []KillsAreDue
<1>1. Spec => [](Threaded /\ ReadInv /\ (RulesGiven => ScoreInv))
  BY ScoresKept
<1>2. Threaded /\ ReadInv /\ (RulesGiven => ScoreInv) => KillsAreDue
  BY DEF ScoreInv, KillsAreDue
<1> QED BY <1>1, <1>2, PTL
----------------------------------------------------------------------------
(* Types *)

\* What the other invariants leave open.
TypeRest ==
  /\ breaks \in 0 .. MaxBreaks /\ cutOff \subseteq Articles
  /\ writer \in Threads \union {NoWriter}
  /\ \A i \in 0 .. Fifo - 1 : fifo[i].file <= msgCounter

\* In the list of areas only a new file is entered.
LEMMA StartFileList ==
  ASSUME Filing, TypeRest, NEW id \in Groups, StartFile(id)
  PROVE  \A i \in 0 .. Fifo - 1 : fifo'[i].file <= msgCounter'
<1>1. CASE fifo' = fifo /\ msgCounter' = msgCounter
  BY <1>1 DEF TypeRest
<1>2. CASE Create(id)
  <2>1. msgCounter \in Nat
    BY LenProperties DEF Filing
  <2>2. msgCounter' \in Int /\ msgCounter + 1 <= msgCounter'
    BY <1>2, <2>1 DEF Create
  <2>3. ASSUME NEW i \in 0 .. Fifo - 1 PROVE fifo'[i].file <= msgCounter'
    <3>1. CASE i = fifoNext
      <4>1. fifo'[i] = [id |-> id, file |-> msgCounter']
        BY <1>2, <3>1 DEF Create, Filing
      <4>2. fifo'[i].file = msgCounter'
        BY <4>1
      <4> QED BY <2>2, <4>2
    <3>2. CASE i # fifoNext
      <4>1. fifo'[i] = fifo[i]
        BY <1>2, <3>2 DEF Create, Filing
      <4>2. fifo[i].file \in Nat /\ fifo[i].file <= msgCounter
        BY DEF Filing, Area, TypeRest
      <4> QED BY <2>1, <2>2, <4>1, <4>2
    <3> QED BY <3>1, <3>2
  <2> QED BY <2>3
<1> QED BY <1>1, <1>2 DEF StartFile, Hit, Reopen, fifoVars

LEMMA ArticleStepRest ==
  ASSUME Filing, TypeRest, NEW t \in Threads, NEW a \in Articles, ArticleStep(t, a)
  PROVE  TypeRest'
<1>1. breaks' \in 0 .. MaxBreaks /\ cutOff' = cutOff
  <2>1. breaks' = breaks \/ Breaks
    BY DEF ArticleStep, Take, HeadLine, HeadKilled, HeadOk, HeadBroken, BodyOk, BodyBroken,
           Begin, File, Room, Copy, Length, Stop, Mark, Step
  <2>2. cutOff' = cutOff
    BY DEF ArticleStep, Take, HeadLine, HeadKilled, HeadOk, HeadBroken, BodyOk, BodyBroken,
           Begin, File, Room, Copy, Length, Stop, Mark, Step
  <2> QED BY <2>1, <2>2, ArticleFlowAssumption DEF TypeRest, Breaks
<1>2. CASE UNCHANGED spoolVars
  BY <1>1, <1>2 DEF TypeRest, spoolVars
<1>3. CASE StartBegin(t)
  BY <1>1, <1>3 DEF TypeRest, StartBegin, fifoVars
<1>4. CASE StartFile(GroupOf[a])
  BY <1>1, <1>4, StartFileList, ArticleFlowAssumption DEF TypeRest, StartFile
<1>5. CASE StartHead(a) \/ MsgWrite \/ StopLength \/ StopEnd
  BY <1>1, <1>5 DEF TypeRest, StartHead, MsgWrite, StopLength, StopEnd, fifoVars
<1>6. UNCHANGED spoolVars \/ StartBegin(t) \/ StartFile(GroupOf[a])
        \/ StartHead(a) \/ MsgWrite \/ StopLength \/ StopEnd
  BY DEF ArticleStep, Take, HeadLine, HeadKilled, HeadOk, HeadBroken, BodyOk, BodyBroken,
         Begin, File, Room, Copy, Length, Stop, Mark
<1> QED BY <1>2, <1>3, <1>4, <1>5, <1>6

LEMMA StepRest ==
  ASSUME Filing, TypeRest, [Next]_vars
  PROVE  TypeRest'
<1>1. ASSUME NEW g \in Groups, KillQBuild(g) \/ KillQLook(g)
      PROVE  TypeRest'
  BY <1>1 DEF KillQBuild, KillQLook, TypeRest, spoolVars
<1>2. ASSUME NEW t \in Threads, NEW a \in Articles, ArticleStep(t, a)
      PROVE  TypeRest'
  BY <1>2, ArticleStepRest
<1>3. CASE Signal \/ HandlerExit
  BY <1>3 DEF Signal, HandlerExit, TypeRest, spoolVars
<1>4. CASE HandlerClose \/ Finish
  BY <1>4 DEF HandlerClose, Finish, CloseAll, TypeRest, fifoVars
<1>5. CASE UNCHANGED vars
  BY <1>5 DEF vars, spoolVars, flowVars, TypeRest
<1> QED BY <1>1, <1>2, <1>3, <1>4, <1>5 DEF Next

LEMMA InitRest == Init => TypeRest
<1> SUFFICES ASSUME Init PROVE TypeRest
  OBVIOUS
<1>1. \A i \in 0 .. Fifo - 1 : fifo[i].file = 0
  BY DEF Init, SpoolInit
<1> QED BY <1>1, ArticleFlowAssumption DEF Init, SpoolInit, TypeRest

LEMMA FlowTypeOK ==
  ASSUME FlowInv, ReadInv, TypeRest
  PROVE  TypeOK
<1>1. KillType(Groups)
  BY DEF ReadInv, KillInv, KillType
<1>2. fifo \in [0 .. Fifo - 1 -> [id : Groups \union {NoArea}, file : 0 .. Len(files)]]
  <2>1. \A i \in 0 .. Fifo - 1 : fifo[i].file \in 0 .. Len(files)
    <3>1. \A i \in 0 .. Fifo - 1 : fifo[i].file \in Nat
      BY DEF FlowInv, Filing, Area
    <3>2. Len(files) \in Nat
      BY LenProperties DEF FlowInv, Filing
    <3> QED BY <3>1, <3>2 DEF FlowInv, Filing, TypeRest
  <2>2. \A i \in 0 .. Fifo - 1 : fifo[i] \in [id : Groups \union {NoArea}, file : 0 .. Len(files)]
    BY <2>1 DEF FlowInv, Filing, Area
  <2> QED BY <2>2 DEF FlowInv, Filing
<1>3. SpoolType(Groups, Articles, Threads)
  BY <1>2 DEF FlowInv, Filing, SpoolType, Frame, TypeRest
<1>4. \A t \in Threads :
        /\ thread[t].at \in Places /\ thread[t].score \in Int
        /\ thread[t].at # "idle" => thread[t].art \in Articles /\ fate[thread[t].art] = "taken"
  BY DEF FlowInv, Threaded, ReadInv
<1>5. \A t, u \in Threads : t # u /\ thread[t].at # "idle" => thread[t].art # thread[u].art
  BY DEF FlowInv, Threaded
<1>6. /\ killQ \in [Groups -> {"unknown", "built", "yes", "no"}]
      /\ \A a \in Articles : lines[a] \in 0 .. Len(Header[a])
  BY DEF ReadInv
<1>7. fate \in [Articles -> Fates] /\ handler \in {"no", "signal", "closed", "exit"}
  BY DEF FlowInv, Threaded, Closing
<1> QED BY <1>1, <1>3, <1>4, <1>5, <1>6, <1>7 DEF TypeOK, TypeRest

\* Every variable keeps its type.
THEOREM FlowTypes ==
  ASSUME ~AbortInStart
  PROVE  Spec => []TypeOK
<1>1. Spec => []FlowInv
  BY FlowInvariant
<1>2. Spec => [](Threaded /\ ReadInv /\ (RulesGiven => ScoreInv))
  BY ScoresKept
<1>3. Init => TypeRest
  BY InitRest
<1>4. FlowInv /\ TypeRest /\ [Next]_vars => TypeRest'
  BY StepRest DEF FlowInv
<1>5. FlowInv /\ ReadInv /\ TypeRest => TypeOK
  BY FlowTypeOK
<1> QED BY <1>1, <1>2, <1>3, <1>4, <1>5, PTL DEF Spec
=============================================================================
