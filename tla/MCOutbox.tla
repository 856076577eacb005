------------------------------ MODULE MCOutbox ------------------------------
\* The newsreader has left nothing, two mails and an article, or a file of an unknown
\* kind under the name of the mails; a mail and an article are queued.
EXTENDS Outbox, TLC

CONSTANTS m1, m2, m3, a1, a2, o1

MCMails    == {m1, m2, m3}
MCArticles == {a1, a2}
MCOthers   == {o1}
MCRecipients == [m \in MCMails \union MCArticles \union MCOthers |-> IF m = m1 THEN 2 ELSE 1]
MCQueued   == {m3, a2}
MCBare     == {a1}

At(base, nr) == [base |-> base, nr |-> nr]
Line(base, kind) == [name |-> At(base, 0), kind |-> kind]
Files(at) == [f \in Names |-> IF f \in DOMAIN at THEN at[f] ELSE NoFile]
Both == (At("mail", 0) :> <<m1, m2>>) @@ (At("news", 0) :> <<a1>>)

Pack(lines, at) == [replies |-> lines, files |-> Files(at)]

MCPackets ==
  {Nothing,
   Pack(<<Line("mail", "mail"), Line("news", "news")>>, Both),
   Pack(<<Line("mail", "other"), Line("news", "news")>>,
        (At("mail", 0) :> <<o1>>) @@ (At("news", 0) :> <<a1>>)),
   Pack(<<Line("mail", "mail"), Line("news", "bad")>>, Both)}
=============================================================================
