--------------------------- MODULE MCArticleFlow ---------------------------
\* Two groups with rules, one of which also has a rule that rescues, and one without.  The
\* list of areas holds two of the three.
EXTENDS ArticleFlow

CONSTANTS a1, a2, a3, a4, t1, t2

Section(groups, points) == [groups |-> groups, points |-> points]

MCSections ==
  <<Section({"rescue", "strict"}, "spam" :> -2), Section({"rescue"}, "friend" :> 3)>>

MCGroupOf == a1 :> "rescue" @@ a2 :> "strict" @@ a3 :> "plain" @@ a4 :> "rescue"
MCHeader  == a1 :> <<"spam", "friend">> @@ a2 :> <<"friend", "spam">> @@ a3 :> <<"spam">> @@ a4 :> <<"hello">>

ThreadSymmetry == Permutations(Threads)
=============================================================================
