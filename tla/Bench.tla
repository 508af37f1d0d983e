------------------------------- MODULE Bench -------------------------------
(***************************************************************************)
(* The benchmark driver, sqlite-bench/benchmark.c with bench_main.c and    *)
(* raw.c: it runs the benchmarks of a list in turn, on a database it       *)
(* opens, with statements it prepares and blocks of memory it gets from    *)
(* heap_4.c.  Which bytes an entry writes is left out.                     *)
(*                                                                         *)
(* Of a pointer the model keeps what it refers to: nothing, a block that   *)
(* the program owns, a block that was freed, or a part of the list of      *)
(* names.  Freeing one of the last two ends the model: on the Windows      *)
(* build it trips the assertion in vPortFree, and on the RTOS build        *)
(* vPortFree is free(), for which it is undefined.  Blocks that are freed  *)
(* in the step that allocates them are left out, and so is running out of  *)
(* memory, but for the raw data.  Any call of SQLite may fail: the Windows *)
(* build exits then, and the RTOS build logs the error and goes on.        *)
(***************************************************************************)
EXTENDS Naturals, Sequences

CONSTANTS
  Flags,        \* the command lines, as the FLAGS_ variables they set
  BatchSize,    \* 1000 entries in a batch
  SyncPart,     \* 100: a synchronous benchmark does num / 100 entries
  LargePart     \* 1000: one with 100K values does num / 1000

Fills == {"fillseq", "fillseqbatch", "fillseqsync", "fillseq100K",
          "fillrandom", "fillrandbatch", "fillrandsync", "fillrand100K"}
Overwrites == {"overwrite", "overwritebatch"}
Reads == {"readseq", "readrandom", "readrand100K"}
Known == Fills \cup Overwrites \cup Reads
Sequential == {"fillseq", "fillseqbatch", "fillseqsync", "fillseq100K", "readseq"}
Batched == {"fillseqbatch", "fillrandbatch", "overwritebatch"}
Synced == {"fillseqsync", "fillrandsync"}
Large == {"fillseq100K", "fillrand100K", "readrand100K"}

\* FLAGS_benchmarks as the sequence of its names; a list that ends in a comma
\* ends in the name "".  `exits` is the Windows build, and `table` says that
\* the first database file is there already, with its table.
ASSUME FlagsAssumption ==
  Flags \subseteq [list : Seq(Known \cup {"", "unknown"}) \ {<< >>}, num : Nat, reads : Nat,
                   raw : BOOLEAN, existing : BOOLEAN, transaction : BOOLEAN,
                   exits : BOOLEAN, table : BOOLEAN]
ASSUME SizesAssumption ==
  BatchSize \in Nat \ {0} /\ SyncPart \in Nat \ {0} /\ LargePart \in Nat \ {0}

VARIABLES
  flags,        \* the command line
  pc,
  at,           \* the position in the list of the benchmark that runs
  ptr,          \* pointer -> what it refers to
  leaked,       \* positions in the list of the names no pointer refers to any more
  db,           \* db_ and what SQLite keeps for it
  prepared,     \* the statements that are prepared
  i, j,         \* the counters of the loops over batches and entries
  done,         \* done_
  failed        \* whether a call of SQLite has failed

vars == <<flags, pc, at, ptr, leaked, db, prepared, i, j, done, failed>>

Pointers == {"path", "message", "name", "raw", "data"}
Statements == {"main", "begin", "end"}

name == flags.list[at]
Entries ==
  IF name \in Reads
    THEN IF name \in Large THEN flags.reads \div LargePart ELSE flags.reads
    ELSE flags.num \div (IF name \in Synced THEN SyncPart
                         ELSE IF name \in Large THEN LargePart ELSE 1)
Batch == IF name \in Batched THEN BatchSize ELSE 1
InTransactions == flags.transaction /\ Batch > 1

\* The pointers in S are freed, those that are not NULL, and stay as they are.
\* What vPortFree is given is to be a block that is in use.
Freed(S) == [p \in Pointers |-> IF p \in S /\ ptr[p] # "null" THEN "freed" ELSE ptr[p]]
Frees(S, next) ==
  pc' = IF \E p \in S : ptr[p] \in {"freed", "static"} THEN "fault" ELSE next

\* A call of SQLite has failed.
Fails(next) == failed' = TRUE /\ pc' = IF flags.exits THEN "exited" ELSE next
-----------------------------------------------------------------------------
Init ==
  /\ flags \in Flags
  /\ pc = "main" /\ at = 0
  /\ ptr = [p \in Pointers |-> "null"]
  /\ leaked = {}
  /\ db = [open |-> FALSE, conns |-> 0, table |-> FALSE, rows |-> {}, saved |-> {}, trans |-> FALSE]
  /\ prepared = {}
  /\ i = 0 /\ j = 0 /\ done = 0 /\ failed = FALSE

\* benchmark_init removes the databases of an earlier run, unless it is told not to.
OldTable == flags.existing /\ flags.table

\* rand_gen_init.
WithData(p) == [p EXCEPT !.data = "owned"]

\* benchmark_main and benchmark_init.
Main ==
  /\ pc = "main" /\ pc' = "open"
  /\ ptr' = WithData([ptr EXCEPT !.path = "owned"])
  /\ UNCHANGED <<flags, at, leaked, db, prepared, i, j, done, failed>>

\* benchmark_open: the table can be created only in a database without one.
Opens(next) ==
  LET opened == [open |-> TRUE, conns |-> db.conns + 1, table |-> TRUE, rows |-> {},
                 saved |-> {}, trans |-> FALSE]
  IN \/ /\ ~OldTable
        /\ db' = opened /\ pc' = next /\ UNCHANGED failed
     \/ /\ OldTable
        /\ db' = opened /\ pc' = IF flags.exits THEN "exited" ELSE next
        /\ UNCHANGED failed
     \/ \E table \in BOOLEAN : db' = [opened EXCEPT !.table = table] /\ Fails(next)

Open ==
  /\ pc = "open" /\ Opens("next")
  /\ UNCHANGED <<flags, at, ptr, leaked, prepared, i, j, done>>

\* start: a new message_ and, when raw data is asked for, a new array for it, after
\* the old ones.  The 8 MB of the array do not fit the heap of the Windows build, 3 MB:
\* its first start ends in the hook of heap_4.c.
Data == IF flags.raw THEN {"raw"} ELSE {}
Started(p) ==
  [p EXCEPT !.message = "owned", !.raw = IF flags.raw THEN "owned" ELSE p.raw]
Starts(next) ==
  IF flags.raw /\ flags.exits THEN pc' = "exited" ELSE Frees({"message"} \cup Data, next)

\* The last name is used in place, every other one is copied to a block.
NameOf(k) == IF k = Len(flags.list) THEN "static" ELSE "owned"

\* A mutant: the pointer into the list is not moved past the comma.
NextNameSame ==
  /\ pc = "next" /\ at < Len(flags.list)
  /\ at' = IF at = 0 THEN 1 ELSE at
  /\ ptr' = [Started(ptr) EXCEPT !.name = NameOf(at')]
  /\ Starts("run")
  /\ done' = 0
  /\ UNCHANGED <<flags, leaked, db, prepared, i, j, failed>>

\* benchmark_run up to the name: the next one of the list, or the end.
NextName ==
  /\ pc = "next" /\ at < Len(flags.list)
  /\ at' = at + 1
  /\ ptr' = [Started(ptr) EXCEPT !.name = NameOf(at + 1)]
  /\ Starts("run")
  /\ done' = 0
  /\ UNCHANGED <<flags, leaked, db, prepared, i, j, failed>>

EndOfList ==
  /\ pc = "next" /\ at = Len(flags.list) /\ pc' = "fini"
  /\ UNCHANGED <<flags, at, ptr, leaked, db, prepared, i, j, done, failed>>

\* A name that is not known is not freed: a copy of it is lost.
Unknown ==
  /\ pc = "run" /\ name \notin Known /\ pc' = "next"
  /\ leaked' = IF ptr.name = "owned" THEN leaked \cup {at} ELSE leaked
  /\ ptr' = [ptr EXCEPT !.name = "null"]
  /\ UNCHANGED <<flags, at, db, prepared, i, j, done, failed>>

\* benchmark_write for a fresh database that the flags do not allow.
Skip ==
  /\ pc = "run" /\ name \in Fills /\ flags.existing
  /\ ptr' = [ptr EXCEPT !.message = "owned"]
  /\ Frees({"message"}, "stop")
  /\ UNCHANGED <<flags, at, leaked, db, prepared, i, j, done, failed>>

\* sqlite3_close refuses to close a connection that has statements, and rolls
\* an open transaction back.
Closed ==
  [db EXCEPT !.open = FALSE, !.conns = IF prepared = {} /\ db.open THEN @ - 1 ELSE @,
             !.rows = IF db.trans THEN db.saved ELSE db.rows, !.trans = FALSE]

CloseOld ==
  /\ pc = "run" /\ name \in Fills /\ ~flags.existing
  /\ db' = Closed /\ pc' = "reopen"
  /\ UNCHANGED <<flags, at, ptr, leaked, prepared, i, j, done, failed>>

\* benchmark_open and start in benchmark_write.
Reopen ==
  /\ pc = "reopen" /\ Opens("restart")
  /\ UNCHANGED <<flags, at, ptr, leaked, prepared, i, j, done>>

Restart ==
  /\ pc = "restart"
  /\ ptr' = Started(ptr) /\ Starts("prepare") /\ done' = 0
  /\ UNCHANGED <<flags, at, leaked, db, prepared, i, j, failed>>

Keep ==
  /\ pc = "run" /\ name \in Overwrites \cup Reads /\ pc' = "prepare"
  /\ UNCHANGED <<flags, at, ptr, leaked, db, prepared, i, j, done, failed>>
-----------------------------------------------------------------------------
\* The statements of benchmark_write or benchmark_read.  The message of a
\* benchmark with a count of its own replaces message_.
Prepare ==
  /\ pc = "prepare" /\ i' = 0
  /\ \/ /\ db.table /\ prepared' = Statements /\ pc' = "batch" /\ UNCHANGED failed
     \/ \E s \in SUBSET Statements :
          /\ "main" \in s => db.table
          /\ prepared' = s /\ Fails("batch")
  /\ UNCHANGED <<flags, at, ptr, leaked, db, j, done>>

\* BEGIN TRANSACTION fails inside a transaction.
BeginBatch ==
  /\ pc = "batch" /\ i < Entries /\ j' = 0
  /\ \/ /\ ~InTransactions /\ pc' = "entry" /\ UNCHANGED <<db, failed>>
     \/ /\ InTransactions /\ "begin" \in prepared /\ ~db.trans
        /\ db' = [db EXCEPT !.trans = TRUE, !.saved = db.rows]
        /\ pc' = "entry" /\ UNCHANGED failed
     \/ /\ InTransactions /\ Fails("entry") /\ UNCHANGED db
  /\ UNCHANGED <<flags, at, ptr, leaked, prepared, i, done>>

\* Mutants: every batch starts at the key 0, or the keys are off by one.
KeysFromZero == IF name \in Sequential THEN {j} ELSE 0 .. (Entries - 1)
KeysOneLow == IF name \in Sequential THEN {i + j - 1} ELSE 0 .. (Entries - 1)

Keys == IF name \in Sequential THEN {i + j} ELSE 0 .. (Entries - 1)

\* What a failing statement leaves: the transaction, or what was there before it.
RolledBack == [db EXCEPT !.rows = db.saved, !.trans = FALSE]

\* A mutant: an entry that fails is not counted.
CountSuccess == IF failed' THEN UNCHANGED <<j, done>> ELSE j' = j + 1 /\ done' = done + 1

\* finished_single_op, which counts an entry whether or not it failed.
FinishedSingleOp == j' = j + 1 /\ done' = done + 1

AfterEntry == IF j + 1 < Batch THEN "entry" ELSE "endbatch"

\* An entry that fails writes nothing; SQLite may roll the transaction back.
FailedEntry ==
  /\ Fails(AfterEntry)
  /\ \/ UNCHANGED db
     \/ db.trans /\ db' = RolledBack

WriteEntry ==
  /\ pc = "entry" /\ name \notin Reads
  /\ \/ /\ "main" \in prepared
        /\ \E k \in Keys : db' = [db EXCEPT !.rows = @ \cup {k}]
        /\ pc' = AfterEntry /\ UNCHANGED failed
     \/ FailedEntry
  /\ FinishedSingleOp
  /\ UNCHANGED <<flags, at, ptr, leaked, prepared, i>>

ReadEntry ==
  /\ pc = "entry" /\ name \in Reads
  /\ \/ /\ "main" \in prepared
        /\ pc' = AfterEntry /\ UNCHANGED <<db, failed>>
     \/ FailedEntry
  /\ FinishedSingleOp
  /\ UNCHANGED <<flags, at, ptr, leaked, prepared, i>>

\* END TRANSACTION fails outside a transaction, and may fail inside one.
EndBatch ==
  /\ pc = "endbatch" /\ i' = i + Batch
  /\ \/ /\ ~InTransactions /\ pc' = "batch" /\ UNCHANGED <<db, failed>>
     \/ /\ InTransactions /\ "end" \in prepared /\ db.trans
        /\ db' = [db EXCEPT !.trans = FALSE] /\ pc' = "batch" /\ UNCHANGED failed
     \/ /\ InTransactions /\ Fails("batch")
        /\ \/ UNCHANGED db
           \/ db.trans /\ db' = RolledBack
  /\ UNCHANGED <<flags, at, ptr, leaked, prepared, j, done>>

\* A mutant: the statement that ends transactions is not finalized.
FinalizeSome ==
  /\ pc = "batch" /\ i >= Entries
  /\ prepared' = prepared \cap {"end"} /\ pc' = "stop"
  /\ UNCHANGED <<flags, at, ptr, leaked, db, i, j, done, failed>>

Finalize ==
  /\ pc = "batch" /\ i >= Entries
  /\ prepared' = {} /\ pc' = "stop"
  /\ UNCHANGED <<flags, at, ptr, leaked, db, i, j, done, failed>>
-----------------------------------------------------------------------------
\* A mutant: message_ still points to the block that was freed.
ReportedKeepsMessage == [Freed({"message", "name"} \cup Data) EXCEPT !.name = "null"]

\* A mutant: the data of the value generator is not freed.
FinalFreesNot == {"message", "path"} \cup Data

\* stop frees message_ and clears it, and frees the name, which ends with this
\* round of the loop; raw_free leaves the pointer to the raw data as it is.
Reported == [Freed({"message", "name"} \cup Data) EXCEPT !.message = "null", !.name = "null"]

Stop ==
  /\ pc = "stop"
  /\ ptr' = Reported /\ Frees({"message", "name"} \cup Data, "next")
  /\ done' = IF done < 1 THEN 1 ELSE done
  /\ UNCHANGED <<flags, at, leaked, db, prepared, i, j, failed>>

\* benchmark_fini and the end of benchmark_main.
FinalFrees == {"message", "data", "path"} \cup Data

Fini ==
  /\ pc = "fini"
  /\ db' = Closed /\ ptr' = Freed(FinalFrees) /\ Frees(FinalFrees, "finished")
  /\ UNCHANGED <<flags, at, leaked, prepared, i, j, done, failed>>

Next ==
  \/ Main \/ Open \/ NextName \/ EndOfList \/ Unknown \/ Skip
  \/ CloseOld \/ Reopen \/ Restart \/ Keep
  \/ Prepare \/ BeginBatch \/ WriteEntry \/ ReadEntry \/ EndBatch \/ Finalize
  \/ Stop \/ Fini

\* The program has one thread, which the system schedules, and SQLite answers.
Spec == Init /\ [][Next]_vars /\ WF_vars(Next)
-----------------------------------------------------------------------------
\* Type correctness of the driver's variables.
TypeOK ==
  /\ flags \in Flags /\ at \in 0 .. Len(flags.list)
  /\ pc \in {"main", "open", "next", "run", "reopen", "restart", "prepare", "batch", "entry",
             "endbatch", "stop", "fini", "finished", "exited", "fault"}
  /\ ptr \in [Pointers -> {"null", "owned", "freed", "static"}]
  /\ leaked \subseteq 1 .. Len(flags.list)
  /\ db \in [open : BOOLEAN, conns : Nat, table : BOOLEAN, rows : SUBSET Nat, saved : SUBSET Nat,
            trans : BOOLEAN]
  /\ prepared \subseteq Statements
  /\ i \in Nat /\ j \in Nat /\ done \in Nat /\ failed \in BOOLEAN

\* vPortFree is given live blocks only: the assertion of heap_4.c:307 holds where there
\* is one, and free() is never given a block twice.  For runs without raw data whose list
\* ends in a comma; stop, start and fini free the same pointers again and again.
FreesAreLive == pc # "fault"

\* When the program is done it has freed every block it still can name, and the
\* only ones it cannot are the copies of names it did not know.
UnknownNames == {k \in 1 .. (Len(flags.list) - 1) : flags.list[k] \notin Known}
AllIsFreed ==
  pc = "finished" => (\A p \in Pointers : ptr[p] # "owned") /\ leaked = UnknownNames

\* assert(db_ == NULL) in benchmark_open, and what it is there for: whatever fails
\* in between, a database is closed before the next is opened, although nobody
\* looks at what sqlite3_close returns.
OneConnection ==
  /\ db.conns <= 1
  /\ pc \in {"open", "reopen"} => ~db.open /\ db.conns = 0

\* Unless a call fails, a sequential fill has written one row for each entry it
\* reports, at least as many as it was asked for, and no transaction is open
\* that would lose them.
FillsAreComplete ==
  pc = "stop" /\ ~failed =>
    /\ ~db.trans
    /\ name \in Fills \cap Sequential /\ ~flags.existing =>
         db.rows = 0 .. (done - 1) /\ done >= Entries

\* What is left of the run, as four numbers that matter in this order: the names not
\* begun, the place within the round of a name, and in the loops the entries of which no
\* batch is done and those to do in the batch that runs.
InLoops == {"batch", "entry", "endbatch"}
NamesLeft == Len(flags.list) - at
StagesLeft ==
  CASE pc = "main" -> 10 [] pc = "open" -> 9 [] pc = "run" -> 8 [] pc = "reopen" -> 7
    [] pc = "restart" -> 6 [] pc = "prepare" -> 5 [] pc \in InLoops -> 4
    [] pc = "stop" -> 3 [] pc = "next" -> 2 [] pc = "fini" -> 1 [] OTHER -> 0
EntriesLeft == IF pc \in InLoops /\ i < Entries THEN Entries - i ELSE 0
BatchLeft == CASE pc = "batch" -> Batch + 1 [] pc = "entry" -> Batch - j [] OTHER -> 0

\* Every step, one that fails included, brings the end closer: no failure is retried
\* for ever, and no count is passed over by the step of a batch.
Closer ==
  \/ NamesLeft' < NamesLeft
  \/ /\ NamesLeft' = NamesLeft
     /\ \/ StagesLeft' < StagesLeft
        \/ /\ StagesLeft' = StagesLeft
           /\ \/ EntriesLeft' < EntriesLeft
              \/ EntriesLeft' = EntriesLeft /\ BatchLeft' < BatchLeft
ComesCloser == [][Closer]_vars

\* The run comes to an end.
Terminates == <>(pc \in {"finished", "exited", "fault"})
=============================================================================
