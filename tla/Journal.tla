------------------------------ MODULE Journal ------------------------------
(***************************************************************************)
(* The file methods of port/os_quec_rtos.c and port/os_win.c that decide   *)
(* whether a transaction survives a crash (xWrite, xSync, xTruncate,       *)
(* xAccess, xDelete), over a file system that keeps what is written in     *)
(* memory until it is synced, under the rollback journal of SQLite.        *)
(*                                                                         *)
(* External are the file system and the pager.  The file system may lose,  *)
(* at a crash, any blocks that were not synced, tear one, or fail a call;  *)
(* a directory entry that was made or removed stays so.  The crash is the  *)
(* one xSync is there for: on the Quectel port (ql_fsync) a loss of power, *)
(* on the Windows port (fflush) the end of the process.  The pager works   *)
(* as config.h builds it: no WAL, journal mode DELETE, synchronous FULL.   *)
(* A block of the database is one page, and one of the journal its header  *)
(* or a record.  A page holds the number of the transaction that wrote it. *)
(***************************************************************************)
EXTENDS Naturals, Sequences, FiniteSets

CONSTANTS
  Zero,         \* a block nobody has written
  Torn,         \* a block of which only a part was written
  MaxPages,     \* bound on the size of the database
  MaxTx,        \* bound on the transactions
  MaxCrashes,   \* bound on the crashes
  MaxFaults     \* bound on the calls of the file system that fail

ASSUME JournalAssumption ==
  /\ MaxPages \in Nat \ {0} /\ MaxTx \in Nat /\ MaxCrashes \in Nat /\ MaxFaults \in Nat
  /\ Zero # Torn

VARIABLES
  port,         \* "quec" or "win"
  file,         \* file -> its blocks, as the next read finds them
  medium,       \* file -> block -> what a crash may leave in it
  lengths,      \* file -> the lengths a crash may leave it with
  exists,       \* there is a directory entry for the journal
  step,         \* where the pager is
  tx,           \* transactions begun
  goal,         \* the content the transaction will commit
  n,            \* records the transaction has written, or played back
  acked,        \* the content whose commit was reported last
  committed,    \* all contents whose commit was reported
  dropped,      \* the calls that failed and were reported as done
  crashes, faults

store == <<file, medium, lengths>>
vars == <<port, store, exists, step, tx, goal, n, acked, committed, dropped, crashes, faults>>

Names == {"db", "jr"}
Blocks == 1 .. MaxPages + 1
db == file["db"]
jr == file["jr"]
Pages == 0 .. MaxTx
Values == Pages \cup {Zero, Torn}
Contents == UNION {[1 .. len -> Values] : len \in 0 .. MaxPages}

\* The blocks of the journal.
Headers == [n : 0 .. MaxPages, size : 0 .. MaxPages, nonce : Pages]
Records == [page : 1 .. MaxPages, val : Values, nonce : Pages]

ASSUME BlocksAssumption == \A b \in {Zero, Torn} : b \notin Headers /\ b \notin Records

Fault == faults < MaxFaults /\ faults' = faults + 1
NoFault == UNCHANGED faults
Goes(s) == step' = s
-----------------------------------------------------------------------------
(* The file system.  *)

Put(blocks, i, b) ==
  [j \in 1 .. (IF i > Len(blocks) THEN i ELSE Len(blocks)) |->
     IF j = i THEN b ELSE IF j <= Len(blocks) THEN blocks[j] ELSE Zero]

\* Block i of f now reads b; until a sync a crash may leave it torn or as it was.
Stored(f, i, b) ==
  /\ file' = [file EXCEPT ![f] = Put(@, i, b)]
  /\ medium' = [medium EXCEPT ![f][i] = @ \cup {b, Torn}]
  /\ lengths' = [lengths EXCEPT ![f] = @ \cup {Len(file'[f])}]

\* What a file that was synced has on the medium.
Settled(blocks) == [i \in Blocks |-> {IF i <= Len(blocks) THEN blocks[i] ELSE Zero}]

Emptied(f) ==
  /\ file' = [file EXCEPT ![f] = << >>]
  /\ medium' = [medium EXCEPT ![f] = Settled(<< >>)]
  /\ lengths' = [lengths EXCEPT ![f] = {0}]
-----------------------------------------------------------------------------
(* The methods of the port.  Each takes the step the pager goes to when the   *)
(* method succeeds; after an error that is reported it starts again.          *)

\* A mutant: the position is not set before the transfer.
WriteAtEnd(f, i, b, next) ==
  \/ Stored(f, Len(file[f]) + 1, b) /\ Goes(next) /\ NoFault
  \/ Fault /\ Goes("start") /\ (UNCHANGED store \/ Stored(f, Len(file[f]) + 1, Torn))

\* A mutant: a short write is reported as done.
WriteIgnoresCount(f, i, b, next) ==
  \/ Stored(f, i, b) /\ Goes(next) /\ NoFault
  \/ Fault /\ Stored(f, i, Torn) /\ Goes(next)

\* quec_write: a write that is not whole is an error, and part of it may stay.
Write(f, i, b, next) ==
  \/ Stored(f, i, b) /\ Goes(next) /\ NoFault
  \/ Fault /\ Goes("start") /\ (UNCHANGED store \/ Stored(f, i, Torn))

\* A mutant: ql_fsync is not called.
SyncNothing(f, next) == Goes(next) /\ UNCHANGED <<store, faults, dropped>>

\* quec_sync answers SQLITE_OK whatever ql_fsync does.
Sync(f, next) ==
  /\ Goes(next)
  /\ \/ /\ medium' = [medium EXCEPT ![f] = Settled(file[f])]
        /\ lengths' = [lengths EXCEPT ![f] = {Len(file[f])}]
        /\ NoFault /\ UNCHANGED <<file, dropped>>
     \/ /\ Fault /\ dropped' = dropped \cup {"sync"}
        /\ UNCHANGED store

\* A mutant: nothing is truncated.
QuecTruncateNot(f, len, next) ==
  port = "quec" /\ Goes("start") /\ UNCHANGED <<store, faults>>

\* quec_turncate.
QuecTruncate(f, len, next) ==
  /\ port = "quec"
  /\ \/ /\ file' = [file EXCEPT ![f] = SubSeq(@, 1, len)]
        /\ medium' = [medium EXCEPT ![f] =
                        [i \in Blocks |-> IF i <= len THEN @[i] ELSE @[i] \cup {Zero}]]
        /\ lengths' = [lengths EXCEPT ![f] = @ \cup {len}]
        /\ Goes(next) /\ NoFault
     \/ Fault /\ Goes("start") /\ UNCHANGED store

\* A mutant: winTruncate reports that it has truncated.
WinTruncateDone(f, len, next) ==
  port = "win" /\ Goes(next) /\ UNCHANGED <<store, faults>>

\* winTruncate always fails.
WinTruncate(f, len, next) ==
  port = "win" /\ Goes("start") /\ UNCHANGED <<store, faults>>

\* quec_delete of the journal answers SQLITE_OK whatever ql_remove does.  It does not
\* look at syncDir either: that a removal is on the medium at once is an assumption
\* about the file system.
Delete ==
  \/ /\ exists' = FALSE /\ Emptied("jr")
     /\ NoFault /\ UNCHANGED dropped
  \/ /\ Fault /\ dropped' = dropped \cup {"remove"}
     /\ UNCHANGED <<store, exists>>

\* quec_access of the journal.
QuecAccess == exists

\* winAccess takes an empty file for one that is not there.
WinAccess == exists /\ jr # << >>

Access == IF port = "quec" THEN QuecAccess ELSE WinAccess

\* quec_open of the journal: a file that is there keeps its content.
OpenJournal == exists' = TRUE
-----------------------------------------------------------------------------
(* The pager: the hot journal, at the start of every transaction.  *)

Header == jr[1]
HasHeader == jr # << >> /\ jr[1] # Zero /\ jr[1] # Torn

\* hasHotJournal: a journal next to an empty database is removed.
CheckJournal ==
  /\ step = "start"
  /\ \/ /\ Access /\ db = << >>
        /\ Delete /\ Goes("ready")
     \/ /\ ~(Access /\ db = << >>)
        /\ Goes(IF Access /\ HasHeader THEN "truncate" ELSE "ready")
        /\ UNCHANGED <<store, exists, dropped, faults>>
  /\ n' = 0 /\ goal' = << >>
  /\ UNCHANGED <<port, tx, acked, committed, crashes>>

\* pager_truncate: the database gets the size it had when the transaction began.
PlayTruncate ==
  /\ step = "truncate"
  /\ \/ /\ Len(db) > Header.size
        /\ \/ QuecTruncate("db", Header.size, "restore")
           \/ WinTruncate("db", Header.size, "restore")
     \/ /\ Len(db) < Header.size
        /\ Write("db", Header.size, Zero, "restore")
     \/ /\ Len(db) = Header.size
        /\ Goes("restore") /\ UNCHANGED <<store, faults>>
  /\ UNCHANGED <<port, exists, tx, goal, n, acked, committed, dropped, crashes>>

\* A record whose checksum is that of this journal.
Good(i) ==
  /\ i <= Header.n /\ i + 1 <= Len(jr)
  /\ jr[i + 1] \notin {Zero, Torn} /\ jr[i + 1].nonce = Header.nonce

\* pager_playback_one_page.
PlayRecord ==
  /\ step = "restore"
  /\ \/ /\ Good(n + 1)
        /\ Write("db", jr[n + 2].page, jr[n + 2].val, "restore")
        /\ n' = n + 1
     \/ /\ ~Good(n + 1)
        /\ Goes("restored") /\ UNCHANGED <<store, faults, n>>
  /\ UNCHANGED <<port, exists, tx, goal, acked, committed, dropped, crashes>>

PlaySync ==
  /\ step = "restored"
  /\ Sync("db", "played")
  /\ UNCHANGED <<port, exists, tx, goal, n, acked, committed, crashes>>

PlayDelete ==
  /\ step = "played"
  /\ Delete /\ Goes("ready")
  /\ UNCHANGED <<port, tx, goal, n, acked, committed, crashes>>
-----------------------------------------------------------------------------
(* The pager: a transaction.  *)

Begin ==
  /\ step = "ready" /\ tx < MaxTx
  /\ tx' = tx + 1
  /\ \E size \in 1 .. MaxPages, changed \in SUBSET (1 .. Len(db)) :
       /\ size > Len(db) \/ (size = Len(db) /\ changed # {})
       /\ goal' = [i \in 1 .. size |-> IF i > Len(db) \/ i \in changed THEN tx' ELSE db[i]]
  /\ n' = 0
  /\ Goes("open")
  /\ UNCHANGED <<port, store, exists, acked, committed, dropped, crashes, faults>>

Open ==
  /\ step = "open"
  /\ \/ OpenJournal /\ Goes("header") /\ NoFault
     \/ Fault /\ Goes("start") /\ UNCHANGED exists
  /\ UNCHANGED <<port, store, tx, goal, n, acked, committed, dropped, crashes>>

HeaderOf(records) == [n |-> records, size |-> Len(db), nonce |-> tx]

\* The header is written with no records, so that none is played back before the
\* journal is known to be on the medium.
WriteHeader ==
  /\ step = "header"
  /\ Write("jr", 1, HeaderOf(0), "records")
  /\ UNCHANGED <<port, exists, tx, goal, n, acked, committed, dropped, crashes>>

Differ == {i \in 1 .. Len(db) : db[i] # goal[i]}
Journalled == {p \in Differ : Cardinality({q \in Differ : q < p}) < n}

WriteRecord ==
  /\ step = "records"
  /\ \/ \E p \in Differ \ Journalled :
          /\ \A q \in Differ \ Journalled : p <= q
          /\ Write("jr", n + 2, [page |-> p, val |-> db[p], nonce |-> tx], "records")
          /\ n' = n + 1
     \/ /\ Differ \subseteq Journalled
        /\ Goes("sync records") /\ UNCHANGED <<store, faults, n>>
  /\ UNCHANGED <<port, exists, tx, goal, acked, committed, dropped, crashes>>

SyncRecords ==
  /\ step = "sync records"
  /\ Sync("jr", "count")
  /\ UNCHANGED <<port, exists, tx, goal, n, acked, committed, crashes>>

WriteCount ==
  /\ step = "count"
  /\ Write("jr", 1, HeaderOf(n), "sync count")
  /\ UNCHANGED <<port, exists, tx, goal, n, acked, committed, dropped, crashes>>

SyncCount ==
  /\ step = "sync count"
  /\ Sync("jr", "pages")
  /\ UNCHANGED <<port, exists, tx, goal, n, acked, committed, crashes>>

Unwritten == {i \in 1 .. Len(goal) : i > Len(db) \/ db[i] # goal[i]}

WritePage ==
  /\ step = "pages"
  /\ \/ \E p \in Unwritten :
          /\ \A q \in Unwritten : p <= q
          /\ Write("db", p, goal[p], "pages")
     \/ Unwritten = {} /\ Goes("sync pages") /\ UNCHANGED <<store, faults>>
  /\ UNCHANGED <<port, exists, tx, goal, n, acked, committed, dropped, crashes>>

SyncPages ==
  /\ step = "sync pages"
  /\ Sync("db", "commit")
  /\ UNCHANGED <<port, exists, tx, goal, n, acked, committed, crashes>>

\* The journal goes, and the commit is reported.
CommitTx ==
  /\ step = "commit"
  /\ Delete /\ Goes("start")
  /\ acked' = goal /\ committed' = committed \cup {goal}
  /\ UNCHANGED <<port, tx, goal, n, crashes>>
-----------------------------------------------------------------------------
Init ==
  /\ port \in {"quec", "win"}
  /\ \E size \in 0 .. MaxPages :
       file = [f \in Names |-> IF f = "db" THEN [i \in 1 .. size |-> 0] ELSE << >>]
  /\ medium = [f \in Names |-> Settled(file[f])]
  /\ lengths = [f \in Names |-> {Len(file[f])}]
  /\ exists = FALSE
  /\ step = "start" /\ tx = 0 /\ goal = << >> /\ n = 0
  /\ acked = db /\ committed = {db}
  /\ dropped = {} /\ crashes = 0 /\ faults = 0

\* What a crash leaves of f.
Survives(f, blocks) ==
  /\ Len(blocks) \in lengths[f]
  /\ \A i \in 1 .. Len(blocks) : blocks[i] \in medium[f][i]

Remains(f) ==
  UNION {{blocks \in [1 .. len -> UNION {medium[f][i] : i \in 1 .. len}] : Survives(f, blocks)} :
           len \in lengths[f]}

Crash ==
  /\ crashes < MaxCrashes /\ crashes' = crashes + 1
  /\ \E d \in Remains("db"), j \in Remains("jr") :
       /\ file' = [f \in Names |-> IF f = "db" THEN d ELSE j]
       /\ medium' = [f \in Names |-> Settled(file'[f])]
       /\ lengths' = [f \in Names |-> {Len(file'[f])}]
  /\ Goes("start") /\ n' = 0 /\ goal' = << >>
  /\ UNCHANGED <<port, exists, tx, acked, committed, dropped, faults>>

Recover == CheckJournal \/ PlayTruncate \/ PlayRecord \/ PlaySync \/ PlayDelete

Transact ==
  \/ Open \/ WriteHeader \/ WriteRecord \/ SyncRecords \/ WriteCount \/ SyncCount
  \/ WritePage \/ SyncPages \/ CommitTx

Next == Recover \/ Begin \/ Transact \/ Crash

\* The pager goes on; nothing obliges anyone to begin a transaction.
Spec == Init /\ [][Next]_vars /\ WF_vars(Recover \/ Transact)
-----------------------------------------------------------------------------
\* Type correctness of the files and of what the medium may hold.
TypeOK ==
  /\ db \in Contents /\ goal \in Contents /\ acked \in Contents
  /\ committed \subseteq Contents
  /\ \A i \in 1 .. Len(jr) :
       i \in Blocks /\ jr[i] \in {Zero, Torn} \cup (IF i = 1 THEN Headers ELSE Records)
  /\ \A f \in Names : Len(file[f]) \in lengths[f]
  /\ \A f \in Names : \A i \in 1 .. Len(file[f]) : file[f][i] \in medium[f][i]
  /\ dropped \subseteq {"sync", "remove"}
  /\ tx \in 0 .. MaxTx /\ n \in 0 .. MaxPages

\* What a reader finds: the database, after the journal has been played back.
Hot == Access /\ HasHeader /\ db # << >>
Played == {i \in 1 .. MaxPages : \A j \in 1 .. i : Good(j)}
Restored ==
  [p \in 1 .. Header.size |->
     IF \E i \in Played : jr[i + 1].page = p
       THEN jr[(CHOOSE i \in Played : jr[i + 1].page = p) + 1].val
       ELSE IF p <= Len(db) THEN db[p] ELSE Zero]
Content == IF Hot THEN Restored ELSE db

Hidden == IF "sync" \in dropped THEN "torn" ELSE IF "remove" \in dropped THEN "lost" ELSE "none"

Store == INSTANCE AtomicStore WITH
  content <- Content, last <- acked, hidden <- Hidden

\* The port and the pager implement AtomicStore, whatever crash comes at whatever
\* step and whatever call fails, until the port drops the result of one.
ImplementsStore == Store!StoreSpec

\* When recovery is done the database is what the last reported commit left, unless
\* the port dropped a failure; a failure of ql_remove can take back a commit, but
\* never leaves a mixture of two.
ReadyIsCommitted ==
  step = "ready" /\ "sync" \notin dropped =>
    db \in committed /\ (dropped = {} => db = acked)

\* Recovery comes to an end, except on the Windows port when the transaction had
\* made the database longer: winTruncate refuses, and the journal stays hot.
Refused == port = "win" /\ Hot /\ Len(db) > Header.size
Recovers == step = "start" ~> (step = "ready" \/ Refused)

\* How far the pager is from being ready, and what is left of the three loops.
Stage(s) ==
  CASE s = "open" -> 14 [] s = "header" -> 13 [] s = "records" -> 12 [] s = "sync records" -> 11
    [] s = "count" -> 10 [] s = "sync count" -> 9 [] s = "pages" -> 8 [] s = "sync pages" -> 7
    [] s = "commit" -> 6 [] s = "start" -> 5 [] s = "truncate" -> 4 [] s = "restore" -> 3
    [] s = "restored" -> 2 [] s = "played" -> 1 [] OTHER -> 0
StagesLeft == Stage(step)
RoundsLeft ==
  CASE step \in {"restore", "records"} -> MaxPages - n
    [] step = "pages" -> Cardinality(Unwritten)
    [] OTHER -> 0
Closer == StagesLeft' < StagesLeft \/ (StagesLeft' = StagesLeft /\ RoundsLeft' < RoundsLeft)

\* The pager is set back only by a crash, a failing call, a transaction that begins, and
\* winTruncate: the four reasons there are for a recovery that has not come to its end.
SetBackOnly ==
  [][\/ Closer
     \/ crashes' = crashes + 1 \/ faults' = faults + 1
     \/ step = "ready" /\ tx' = tx + 1
     \/ step = "truncate" /\ Refused]_vars
=============================================================================
