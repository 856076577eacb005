---------------------------- MODULE MCNewsFetch ----------------------------
(***************************************************************************)
(* Small instances of NewsFetch for TLC: values for the constants that a   *)
(* .cfg cannot write down.                                                  *)
(***************************************************************************)
EXTENDS NewsFetch

\* Two groups of one to three articles.
Lo1 == <<1, 1>>
Hi2 == <<2, 2>>
Hi3 == <<3, 2>>
Nothing == <<{}, {}>>
None == {}

\* A group with holes in its numbers, and one of a single article.
HiHoles == <<6, 1>>
Holes == {<<1, 2>>, <<1, 3>>, <<1, 5>>}

\* Numbers 4 and 7 of group 1 were read in an earlier session, 7 has been
\* cancelled since; group 2 has been reset.
SomeRead == <<{4, 7}, {2}>>

\* Article 2 of group 1 was posted to group 2 as well.
Crossposted == {{<<1, 2>>, <<2, 1>>}}
CrosspostedHoles == {{<<1, 6>>, <<2, 1>>}}
KillOne == {<<1, 1>>}
Bad2 == {2}
=============================================================================
