---------------------------- MODULE AtomicStore ----------------------------
(* What a database file promises to those who commit to it: its content is  *)
(* the one that was committed last, and nothing but a commit changes it.    *)
(* The promise weakens with the first fault that the layers below hide.     *)
EXTENDS Naturals

CONSTANT Contents   \* the contents a database can have

VARIABLES
  content,      \* what a reader would find now, or after a crash
  last,         \* the content whose commit was reported last
  committed,    \* all contents whose commit was ever reported
  hidden        \* what was not reported: "none", a "lost" commit, a "torn" write

storeVars == <<content, last, committed, hidden>>

StoreInit ==
  /\ content \in Contents /\ last = content
  /\ committed = {content}
  /\ hidden = "none"

Reported(new) == last' = new /\ committed' = committed \cup {new}

Commit(new) == Reported(new) /\ content' = new /\ UNCHANGED hidden

Worse == hidden' \in {"lost", "torn"} /\ (hidden = "torn" => hidden' = "torn")

\* A commit that is reported and does not take place.
LoseCommit(new) == Worse /\ Reported(new) /\ UNCHANGED content

\* A fault that is hidden before it does any harm.
Hide == Worse /\ UNCHANGED <<content, last, committed>>

Tear == hidden = "torn" /\ content' \in Contents /\ UNCHANGED <<last, committed, hidden>>

StoreNext ==
  \/ \E new \in Contents : Commit(new) \/ LoseCommit(new)
  \/ Hide \/ Tear

StoreSpec == StoreInit /\ [][StoreNext]_storeVars
-----------------------------------------------------------------------------
\* As long as no fault was hidden, a commit that was reported is there.
Durable == hidden = "none" => content = last

\* As long as no write is torn, a reader finds what some commit left, and never a
\* mixture of two.
Atomic == hidden # "torn" => content \in committed
=============================================================================
