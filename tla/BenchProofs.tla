---------------------------- MODULE BenchProofs ----------------------------
(***************************************************************************)
(* Theorems about the benchmark driver for every list of benchmarks, every *)
(* number of entries and every size.                                       *)
(***************************************************************************)
EXTENDS Bench, SequenceTheorems, TLAPS

\* A benchmark runs.
Running == {"run", "reopen", "restart", "prepare", "batch", "entry", "endbatch", "stop"}
Ended == {"exited", "fault"}
Places == {"main", "open", "next", "fini"} \cup Running

\* The positions whose benchmark is behind us.
Past == IF pc \in Running THEN 1 .. (at - 1) ELSE 1 .. at
Lost(s) == {k \in s : k < Len(flags.list) /\ flags.list[k] \notin Known}

\* Where the driver is in its list.
Place ==
  /\ pc \in Running => at \in 1 .. Len(flags.list)
  /\ pc \in Running \ {"run"} => name \in Known
  /\ pc \in {"fini", "finished"} => at = Len(flags.list)
  /\ pc \in {"main", "open"} => at = 0

\* What each pointer refers to, until the program ends.
Pointing ==
  /\ ptr.path = (IF pc = "main" THEN "null" ELSE "owned") /\ ptr.data = ptr.path
  /\ ptr.message \in {"null", "owned"}
  /\ ptr.name = IF pc \in Running THEN NameOf(at) ELSE "null"
  /\ flags.raw /\ pc \in Running => ptr.raw = "owned"
  /\ ~flags.raw => ptr.raw = "null"

\* The blocks the pointers own, and those that are lost.
Ownership ==
  /\ pc \in Places => Pointing
  /\ pc = "finished" => \A p \in Pointers : ptr[p] # "owned"
  /\ pc \in Places \cup {"finished"} => leaked = Lost(Past)

\* The connection, and the statements that hang on it.
Connection ==
  /\ pc \in {"main", "open", "reopen"} => ~db.open /\ db.conns = 0
  /\ pc \in {"next", "fini"} \cup (Running \ {"reopen"}) => db.open /\ db.conns = 1
  /\ db.conns <= 1
  /\ pc \notin InLoops \cup Ended => prepared = {}

\* What has been done of a fill, as long as nothing fails.
Filling == name \in Fills \cap Sequential /\ ~flags.existing
Progress ==
  ~failed =>
    /\ pc \in InLoops => prepared = Statements
    /\ pc \notin Ended => (db.trans <=> pc \in {"entry", "endbatch"} /\ InTransactions)
    /\ pc = "entry" => j < Batch
    /\ pc \in {"restart", "prepare"} /\ Filling => db.rows = {}
    /\ pc = "prepare" /\ Filling => done = 0
    /\ pc = "batch" /\ Filling => done = i
    /\ pc = "entry" /\ Filling => done = i + j
    /\ pc = "endbatch" /\ Filling => done = i + Batch
    /\ pc \in InLoops \cup {"stop"} /\ Filling => db.rows = 0 .. (done - 1)
    /\ pc = "stop" /\ Filling => done >= Entries

IInv == TypeOK /\ Place /\ Ownership /\ Connection /\ Progress
-----------------------------------------------------------------------------
\* What FlagsAssumption says of the command line in use.
LEMMA FlagTypes ==
  ASSUME flags \in Flags
  PROVE  /\ flags.list \in Seq(Known \cup {"", "unknown"}) /\ Len(flags.list) \in Nat \ {0}
         /\ flags.num \in Nat /\ flags.reads \in Nat
         /\ flags.raw \in BOOLEAN /\ flags.existing \in BOOLEAN
         /\ flags.transaction \in BOOLEAN /\ flags.exits \in BOOLEAN /\ flags.table \in BOOLEAN
<1>1. flags \in [list : Seq(Known \cup {"", "unknown"}) \ {<< >>}, num : Nat, reads : Nat,
                raw : BOOLEAN, existing : BOOLEAN, transaction : BOOLEAN,
                exits : BOOLEAN, table : BOOLEAN]
  BY FlagsAssumption
<1>2. flags.list \in Seq(Known \cup {"", "unknown"}) /\ flags.list # << >>
  BY <1>1
<1>3. Len(flags.list) \in Nat /\ Len(flags.list) # 0
  BY <1>2, EmptySeq, LenProperties
<1> QED
  BY <1>1, <1>2, <1>3

\* The counts that a benchmark is run with are natural numbers, its batch is not empty.
LEMMA Counts ==
  ASSUME flags \in Flags
  PROVE  Entries \in Nat /\ Batch \in Nat \ {0}
<1>1. \A m \in Nat, n \in Nat \ {0} : m \div n \in Nat
  OBVIOUS
<1>a. flags.num \in Nat /\ flags.reads \in Nat
  BY FlagTypes
<1>b. SyncPart \in Nat \ {0} /\ LargePart \in Nat \ {0} /\ 1 \in Nat \ {0}
  BY SizesAssumption
<1>2. /\ flags.num \div SyncPart \in Nat /\ flags.num \div LargePart \in Nat
      /\ flags.num \div 1 \in Nat /\ flags.reads \div LargePart \in Nat
  BY <1>1, <1>a, <1>b
<1>3. Entries \in Nat
  BY <1>2, <1>a DEF Entries
<1>4. Batch \in Nat \ {0}
  BY <1>a, SizesAssumption DEF Batch
<1> QED
  BY <1>3, <1>4

\* The records that db can be.
Databases ==
  [open : BOOLEAN, conns : Nat, table : BOOLEAN, rows : SUBSET Nat, saved : SUBSET Nat,
   trans : BOOLEAN]

\* A database that is opened, closed or rolled back is one of them.
LEMMA DatabaseTypes ==
  ASSUME db \in Databases, Connection, pc \in Places
  PROVE  /\ pc \in {"open", "reopen"} => \A next : Opens(next) => db' \in Databases
         /\ Closed \in Databases /\ RolledBack \in Databases
         /\ \A k \in Nat : [db EXCEPT !.rows = @ \cup {k}] \in Databases
         /\ [db EXCEPT !.trans = FALSE] \in Databases
         /\ [db EXCEPT !.trans = TRUE, !.saved = db.rows] \in Databases
<1>1. ASSUME NEW next, Opens(next)
      PROVE  db' \in Databases
  <2> DEFINE opened == [open |-> TRUE, conns |-> db.conns + 1, table |-> TRUE, rows |-> {},
                        saved |-> {}, trans |-> FALSE]
  <2>1. db.conns \in Nat
    BY DEF Databases
  <2>2. opened \in Databases
    BY <2>1 DEF Databases
  <2>3. \A table \in BOOLEAN : [opened EXCEPT !.table = table] \in Databases
    BY <2>2 DEF Databases
  <2>4. db' = opened \/ \E table \in BOOLEAN : db' = [opened EXCEPT !.table = table]
    BY <1>1 DEF Opens
  <2> QED
    BY <2>2, <2>3, <2>4
<1>2. Closed \in Databases
  <2>1. db.open => db.conns - 1 \in Nat
    BY DEF Connection, Running, Databases, Places
  <2>2. (IF prepared = {} /\ db.open THEN db.conns - 1 ELSE db.conns) \in Nat
    BY <2>1 DEF Databases
  <2> QED
    BY <2>2 DEF Closed, Databases
<1>3. RolledBack \in Databases
  BY DEF RolledBack, Databases
<1>4. ASSUME NEW k \in Nat
      PROVE  [db EXCEPT !.rows = @ \cup {k}] \in Databases
  BY <1>4 DEF Databases
<1>5. [db EXCEPT !.trans = FALSE] \in Databases
  BY DEF Databases
<1>6. [db EXCEPT !.trans = TRUE, !.saved = db.rows] \in Databases
  BY DEF Databases
<1> QED
  BY <1>1, <1>2, <1>3, <1>4, <1>5, <1>6

\* A step leaves a database that is one.
LEMMA DatabaseStep ==
  ASSUME flags \in Flags, db \in Databases, Connection, Place, pc \in Places,
         i \in Nat, j \in Nat, Next
  PROVE  db' \in Databases
<1>1. CASE Open \/ Reopen
  BY <1>1, DatabaseTypes DEF Open, Reopen
<1>2. CASE CloseOld \/ Fini
  BY <1>2, DatabaseTypes DEF CloseOld, Fini
<1>3. CASE BeginBatch \/ EndBatch
  BY <1>3, DatabaseTypes DEF BeginBatch, EndBatch
<1>4. CASE WriteEntry \/ ReadEntry
  <2>1. Keys \subseteq Nat
    BY Counts DEF Keys
  <2> QED
    BY <1>4, <2>1, DatabaseTypes DEF WriteEntry, ReadEntry, FailedEntry
<1>5. CASE Main \/ NextName \/ EndOfList \/ Unknown \/ Skip \/ Restart \/ Keep \/ Prepare
           \/ Finalize \/ Stop
  BY <1>5 DEF Main, NextName, EndOfList, Unknown, Skip, Restart, Keep, Prepare, Finalize, Stop
<1> QED
  BY <1>1, <1>2, <1>3, <1>4, <1>5 DEF Next

\* Nothing is left of the program to do when it has ended.
LEMMA NotEnded ==
  ASSUME Next
  PROVE  pc \in Places
BY DEF Next, Places, Running, Main, Open, NextName, EndOfList, Unknown, Skip, CloseOld, Reopen, Restart,
       Keep, Prepare, BeginBatch, WriteEntry, ReadEntry, EndBatch, Finalize, Stop, Fini

\* What a pointer refers to.
References == {"null", "owned", "freed", "static"}

\* A step leaves pointers that refer to something, and lost names that are names.
LEMMA PointerStep ==
  ASSUME flags \in Flags, ptr \in [Pointers -> References], at \in 0 .. Len(flags.list),
         leaked \subseteq 1 .. Len(flags.list), Place, Next
  PROVE  ptr' \in [Pointers -> References] /\ leaked' \subseteq 1 .. Len(flags.list)
<1> USE DEF Pointers, References
<1>1. CASE Main
  BY <1>1 DEF Main, WithData
<1>2. CASE NextName
  BY <1>2 DEF NextName, Started, NameOf
<1>3. CASE Unknown
  <2>1. at \in 1 .. Len(flags.list)
    BY <1>3 DEF Unknown, Place, Running
  <2> QED
    BY <1>3, <2>1 DEF Unknown
<1>4. CASE Skip \/ Restart
  <2>1. ptr' \in {Started(ptr), [ptr EXCEPT !.message = "owned"]} /\ leaked' = leaked
    BY <1>4 DEF Skip, Restart
  <2>2. (IF flags.raw THEN "owned" ELSE ptr.raw) \in References
    OBVIOUS
  <2>3. Started(ptr) \in [Pointers -> References]
    BY <2>2 DEF Started
  <2> QED
    BY <2>1, <2>3
<1>5. CASE Stop \/ Fini
  <2>1. \A S : Freed(S) \in [Pointers -> References]
    BY DEF Freed
  <2>2. CASE Stop
    <3>1. ptr' = [Freed({"message", "name"} \cup Data) EXCEPT !.message = "null", !.name = "null"]
      BY <2>2 DEF Stop, Reported
    <3>2. Freed({"message", "name"} \cup Data) \in [Pointers -> References]
      BY <2>1
    <3>3. ptr' \in [Pointers -> References]
      BY <3>1, <3>2
    <3> QED
      BY <2>2, <3>3 DEF Stop
  <2>3. CASE Fini
    BY <2>1, <2>3 DEF Fini
  <2> QED
    BY <1>5, <2>2, <2>3
<1>6. CASE Open \/ EndOfList \/ CloseOld \/ Reopen \/ Keep \/ Prepare \/ BeginBatch
           \/ WriteEntry \/ ReadEntry \/ EndBatch \/ Finalize
  BY <1>6 DEF Open, EndOfList, CloseOld, Reopen, Keep, Prepare, BeginBatch, WriteEntry,
              ReadEntry, EndBatch, Finalize
<1> QED
  BY <1>1, <1>2, <1>3, <1>4, <1>5, <1>6 DEF Next

\* The counters and what is prepared keep their types.
LEMMA CounterStep ==
  ASSUME flags \in Flags, prepared \subseteq Statements, at \in 0 .. Len(flags.list),
         i \in Nat, j \in Nat, done \in Nat, failed \in BOOLEAN, Next
  PROVE  /\ flags' = flags /\ at' \in 0 .. Len(flags.list) /\ prepared' \subseteq Statements
         /\ i' \in Nat /\ j' \in Nat /\ done' \in Nat /\ failed' \in BOOLEAN
<1> Len(flags.list) \in Nat \ {0}
  BY FlagTypes
<1> Batch \in Nat \ {0}
  BY Counts
<1>1. CASE NextName \/ EndOfList \/ Unknown \/ Skip \/ Main \/ CloseOld \/ Restart \/ Keep
  BY <1>1 DEF NextName, EndOfList, Unknown, Skip, Main, CloseOld, Restart, Keep
<1>2. CASE Open \/ Reopen
  BY <1>2 DEF Open, Reopen, Opens, Fails
<1>3. CASE Prepare
  BY <1>3 DEF Prepare, Fails
<1>4. CASE BeginBatch \/ EndBatch
  <2>1. i + Batch \in Nat /\ 0 \in Nat
    OBVIOUS
  <2> QED
    BY <1>4, <2>1 DEF BeginBatch, EndBatch, Fails
<1>5. CASE WriteEntry \/ ReadEntry
  <2>1. j + 1 \in Nat /\ done + 1 \in Nat
    OBVIOUS
  <2> QED
    BY <1>5, <2>1 DEF WriteEntry, ReadEntry, FailedEntry, Fails, FinishedSingleOp
<1>6. CASE Finalize \/ Stop \/ Fini
  BY <1>6 DEF Finalize, Stop, Fini
<1> QED
  BY <1>1, <1>2, <1>3, <1>4, <1>5, <1>6 DEF Next

\* The places of the program a step leads to.
LEMMA ControlStep ==
  ASSUME Next
  PROVE  pc' \in {"main", "open", "next", "run", "reopen", "restart", "prepare", "batch",
                  "entry", "endbatch", "stop", "fini", "finished", "exited", "fault"}
<1>1. CASE NextName \/ EndOfList \/ Unknown \/ Skip \/ Main \/ CloseOld \/ Restart \/ Keep
  BY <1>1 DEF NextName, EndOfList, Unknown, Skip, Main, CloseOld, Restart, Keep, Starts, Frees
<1>2. CASE Open \/ Reopen \/ Prepare \/ BeginBatch \/ EndBatch
  BY <1>2 DEF Open, Reopen, Opens, Fails, Prepare, BeginBatch, EndBatch
<1>3. CASE WriteEntry \/ ReadEntry
  BY <1>3 DEF WriteEntry, ReadEntry, FailedEntry, AfterEntry, Fails
<1>4. CASE Finalize \/ Stop \/ Fini
  BY <1>4 DEF Finalize, Stop, Fini, Frees
<1> QED
  BY <1>1, <1>2, <1>3, <1>4 DEF Next

\* The types are kept.
LEMMA TypeStep ==
  ASSUME TypeOK, Place, Connection, Next
  PROVE  TypeOK'
<1>1. /\ flags \in Flags /\ at \in 0 .. Len(flags.list) /\ ptr \in [Pointers -> References]
      /\ leaked \subseteq 1 .. Len(flags.list) /\ db \in Databases /\ prepared \subseteq Statements
      /\ i \in Nat /\ j \in Nat /\ done \in Nat /\ failed \in BOOLEAN
  BY DEF TypeOK, References, Databases
<1>2. db' \in Databases
  BY <1>1, NotEnded, DatabaseStep
<1>3. ptr' \in [Pointers -> References] /\ leaked' \subseteq 1 .. Len(flags.list)
  BY <1>1, PointerStep
<1>4. /\ flags' = flags /\ at' \in 0 .. Len(flags.list) /\ prepared' \subseteq Statements
      /\ i' \in Nat /\ j' \in Nat /\ done' \in Nat /\ failed' \in BOOLEAN
  BY <1>1, CounterStep
<1>5. flags' \in Flags /\ at' \in 0 .. Len(flags'.list) /\ leaked' \subseteq 1 .. Len(flags'.list)
  BY <1>1, <1>3, <1>4
<1> QED
  BY <1>2, <1>3, <1>4, <1>5, ControlStep DEF TypeOK, Databases, References

\* So is the place in the list.
LEMMA PlaceStep ==
  ASSUME TypeOK, Place, Next
  PROVE  Place'
<1> USE DEF TypeOK, Place, Running, name, Known
<1>1. CASE Main
  BY <1>1, FlagTypes DEF Main
<1>2. CASE Open
  BY <1>2, FlagTypes DEF Open, Opens, Fails
<1>3. CASE NextName
  <2>1. at \in Nat /\ Len(flags.list) \in Nat /\ at < Len(flags.list)
    <3>1. Len(flags.list) \in Nat
      BY FlagTypes
    <3>2. at \in 0 .. Len(flags.list) /\ at < Len(flags.list)
      BY <1>3 DEF NextName
    <3> QED
      BY <3>1, <3>2
  <2>2. at + 1 \in 1 .. Len(flags.list)
    BY <2>1
  <2>3. pc' \in {"run", "fault", "exited"} /\ at' = at + 1 /\ flags' = flags
    BY <1>3 DEF NextName, Starts, Frees
  <2> QED
    BY <2>2, <2>3
<1>4. CASE EndOfList
  BY <1>4, FlagTypes DEF EndOfList
<1>5. CASE Unknown
  BY <1>5, FlagTypes DEF Unknown
<1>6. CASE Skip
  BY <1>6, FlagTypes DEF Skip, Frees
<1>7. CASE CloseOld
  BY <1>7, FlagTypes DEF CloseOld
<1>8. CASE Reopen
  BY <1>8, FlagTypes DEF Reopen, Opens, Fails
<1>9. CASE Restart
  BY <1>9, FlagTypes DEF Restart, Starts, Frees
<1>10. CASE Keep
  BY <1>10, FlagTypes DEF Keep
<1>11. CASE Prepare
  BY <1>11, FlagTypes DEF Prepare, Fails
<1>12. CASE BeginBatch
  BY <1>12, FlagTypes DEF BeginBatch, Fails
<1>13. CASE WriteEntry
  BY <1>13, FlagTypes DEF WriteEntry, FailedEntry, AfterEntry, Fails
<1>14. CASE ReadEntry
  BY <1>14, FlagTypes DEF ReadEntry, FailedEntry, AfterEntry, Fails
<1>15. CASE EndBatch
  BY <1>15, FlagTypes DEF EndBatch, Fails
<1>16. CASE Finalize
  BY <1>16, FlagTypes DEF Finalize
<1>17. CASE Stop
  BY <1>17, FlagTypes DEF Stop, Frees
<1>18. CASE Fini
  BY <1>18, FlagTypes DEF Fini, Frees
<1> QED
  BY <1>1, <1>2, <1>3, <1>4, <1>5, <1>6, <1>7, <1>8, <1>9, <1>10, <1>11, <1>12, <1>13, <1>14, <1>15, <1>16, <1>17, <1>18 DEF Next

\* So is what each pointer refers to.
LEMMA OwnershipStep ==
  ASSUME TypeOK, Place, Ownership, Next
  PROVE  Ownership'
<1> /\ flags \in Flags /\ at \in 0 .. Len(flags.list) /\ Len(flags.list) \in Nat
    /\ ptr \in [Pointers -> References] /\ flags.raw \in BOOLEAN
  BY FlagTypes DEF TypeOK, References
<1> pc \in Places /\ Pointing /\ leaked = Lost(Past)
  BY NotEnded DEF Ownership
<1>f. flags' = flags
  BY CounterStep DEF TypeOK
<1> USE DEF Places, Running, Ended, Pointers
<1>a. ASSUME pc' \in Ended
      PROVE  Ownership'
  BY <1>a DEF Ownership
<1>b. ASSUME at' = at, leaked' = leaked,
             \/ pc \in Running /\ pc' \in Running
             \/ pc \notin Running /\ pc' \in {"open", "next", "fini", "finished"}
      PROVE  leaked' = Lost(Past)'
  BY <1>b, <1>f DEF Lost, Past
<1>c. ASSUME at' = at, leaked' = leaked, ptr' = ptr, pc # "main", pc' # "main",
             \/ pc \in Running /\ pc' \in Running
             \/ pc \notin Running /\ pc' \in {"open", "next", "fini"}
      PROVE  Ownership'
  <2>1. Pointing'
    BY <1>c, <1>f DEF Pointing, NameOf
  <2> QED
    BY <1>b, <1>c, <2>1 DEF Ownership
<1>1. CASE Main
  <2>1. Pointing'
    BY <1>1, <1>f DEF Main, WithData, Pointing
  <2>2. leaked' = Lost(Past)'
    BY <1>1, <1>b DEF Main
  <2> QED
    BY <1>1, <2>1, <2>2 DEF Main, Ownership
<1>2. CASE NextName
  <2>1. pc' \in Ended \/ pc' = "run"
    BY <1>2 DEF NextName, Starts, Frees, Ended
  <2>2. ASSUME pc' = "run"
        PROVE  Ownership'
    <3>1. at' = at + 1 /\ ptr' = [Started(ptr) EXCEPT !.name = NameOf(at + 1)] /\ leaked' = leaked
      BY <1>2 DEF NextName
    <3>3. /\ ptr'.path = ptr.path /\ ptr'.data = ptr.data /\ ptr'.message = "owned"
          /\ ptr'.name = NameOf(at + 1) /\ ptr'.raw = IF flags.raw THEN "owned" ELSE ptr.raw
      BY <3>1 DEF Started
    <3>4. NameOf(at)' = NameOf(at + 1)
      BY <1>f, <3>1 DEF NameOf
    <3>5. pc = "next"
      BY <1>2 DEF NextName
    <3>6. Pointing'
      BY <1>f, <2>2, <3>3, <3>4, <3>5 DEF Pointing
    <3>7. Past' = Past
      BY <2>2, <3>1, <3>5 DEF Past
    <3>8. leaked' = Lost(Past)'
      BY <1>f, <3>1, <3>7 DEF Lost
    <3> QED
      BY <2>2, <3>6, <3>8 DEF Ownership
  <2> QED
    BY <1>a, <2>1, <2>2
<1>3. CASE Unknown
  <2>1. at \in 1 .. Len(flags.list) /\ pc = "run" /\ pc' = "next" /\ at' = at
    BY <1>3 DEF Unknown, Place
  <2>2. Pointing'
    BY <1>3, <1>f, <2>1 DEF Unknown, Pointing
  <2>3. Past = 1 .. (at - 1) /\ Past' = 1 .. at
    BY <2>1 DEF Past
  <2>4. ptr.name = "owned" <=> at < Len(flags.list)
    BY <2>1 DEF Pointing, NameOf
  <2>5. flags.list[at] \notin Known
    BY <1>3 DEF Unknown, name
  <2>6. leaked' = Lost(1 .. at)
    <3>1. 1 .. at = (1 .. (at - 1)) \cup {at}
      BY <2>1
    <3>2. Lost(1 .. at) = Lost(1 .. (at - 1)) \cup (IF at < Len(flags.list) THEN {at} ELSE {})
      BY <2>5, <3>1 DEF Lost
    <3> QED
      BY <1>3, <2>3, <2>4, <3>2 DEF Unknown
  <2>7. leaked' = Lost(Past)'
    BY <1>f, <2>3, <2>6 DEF Lost
  <2> QED
    BY <2>1, <2>2, <2>7 DEF Ownership
<1>4. CASE Skip \/ Restart
  <2>1. pc' \in Ended \/ pc' \in {"stop", "prepare"}
    BY <1>4 DEF Skip, Restart, Starts, Frees, Ended
  <2>2. ASSUME pc' \in {"stop", "prepare"}
        PROVE  Ownership'
    <3>1. /\ at' = at /\ leaked' = leaked /\ pc \in {"run", "restart"}
          /\ ptr' \in {[ptr EXCEPT !.message = "owned"], Started(ptr)}
      BY <1>4 DEF Skip, Restart
    <3>2. ptr.raw = "owned" \/ ~flags.raw
      BY <3>1 DEF Pointing
    <3>3. /\ ptr'.path = ptr.path /\ ptr'.data = ptr.data /\ ptr'.message = "owned"
          /\ ptr'.name = ptr.name /\ ptr'.raw = ptr.raw
      BY <3>1, <3>2 DEF Started
    <3>4. NameOf(at)' = NameOf(at)
      BY <1>f, <3>1 DEF NameOf
    <3>5. Pointing'
      BY <1>f, <2>2, <3>1, <3>3, <3>4 DEF Pointing
    <3>6. leaked' = Lost(Past)'
      BY <1>b, <2>2, <3>1
    <3> QED
      BY <2>2, <3>5, <3>6 DEF Ownership
  <2> QED
    BY <1>a, <2>1, <2>2
<1>5. CASE Stop
  <2>1. pc' = "fault" \/ pc' = "next"
    BY <1>5 DEF Stop, Frees
  <2>2. ASSUME pc' = "next"
        PROVE  Ownership'
    <3>1. pc = "stop" /\ at' = at /\ leaked' = leaked /\ ptr' = Reported
      BY <1>5 DEF Stop
    <3>2. /\ ptr'.path = ptr.path /\ ptr'.data = ptr.data /\ ptr'.message = "null"
          /\ ptr'.name = "null" /\ (~flags.raw => ptr'.raw = ptr.raw)
      BY <3>1 DEF Reported, Freed, Data
    <3>3. Pointing'
      BY <1>f, <2>2, <3>1, <3>2 DEF Pointing
    <3>4. at \in 1 .. Len(flags.list) /\ flags.list[at] \in Known
      BY <3>1 DEF Place, name
    <3>5. Past = 1 .. (at - 1) /\ Past' = 1 .. at /\ 1 .. at = (1 .. (at - 1)) \cup {at}
      BY <2>2, <3>1, <3>4 DEF Past
    <3>6. leaked' = Lost(Past)'
      BY <1>f, <3>1, <3>4, <3>5 DEF Lost
    <3> QED
      BY <2>2, <3>3, <3>6 DEF Ownership
  <2> QED
    BY <1>a, <2>1, <2>2
<1>6. CASE Fini
  <2>1. pc' = "fault" \/ pc' = "finished"
    BY <1>6 DEF Fini, Frees
  <2>2. ASSUME pc' = "finished"
        PROVE  Ownership'
    <3>1. pc = "fini" /\ at' = at /\ leaked' = leaked /\ ptr' = Freed(FinalFrees)
      BY <1>6 DEF Fini
    <3>2. ptr.name = "null" /\ (~flags.raw => ptr.raw = "null")
      BY <3>1 DEF Pointing
    <3>3. \A p \in Pointers : ptr'[p] # "owned"
      BY <3>1, <3>2 DEF Freed, FinalFrees, Data
    <3>4. leaked' = Lost(Past)'
      BY <1>b, <2>2, <3>1
    <3> QED
      BY <2>2, <3>3, <3>4 DEF Ownership
  <2> QED
    BY <1>a, <2>1, <2>2
<1>7. CASE Open \/ EndOfList \/ CloseOld \/ Reopen \/ Keep \/ Prepare \/ BeginBatch
           \/ WriteEntry \/ ReadEntry \/ EndBatch \/ Finalize
  <2>1. at' = at /\ leaked' = leaked /\ ptr' = ptr
    BY <1>7 DEF Open, EndOfList, CloseOld, Reopen, Keep, Prepare, BeginBatch, WriteEntry,
                ReadEntry, EndBatch, Finalize
  <2>2. CASE Open \/ EndOfList \/ CloseOld \/ Reopen \/ Keep
    BY <1>a, <1>c, <2>1, <2>2 DEF Open, EndOfList, CloseOld, Reopen, Keep, Opens, Fails
  <2>3. CASE Prepare \/ BeginBatch \/ EndBatch \/ Finalize
    BY <1>a, <1>c, <2>1, <2>3 DEF Prepare, BeginBatch, EndBatch, Finalize, Fails
  <2>4. CASE WriteEntry \/ ReadEntry
    BY <1>a, <1>c, <2>1, <2>4 DEF WriteEntry, ReadEntry, FailedEntry, AfterEntry, Fails
  <2> QED
    BY <1>7, <2>2, <2>3, <2>4
<1> QED
  BY <1>1, <1>2, <1>3, <1>4, <1>5, <1>6, <1>7 DEF Next

\* So are the connection and the statements that hang on it.
LEMMA ConnectionStep ==
  ASSUME TypeOK, Connection, Next
  PROVE  Connection'
<1> db \in Databases
  BY DEF TypeOK, Databases
<1> USE DEF Connection, Running, InLoops, Ended
<1>1. CASE Main \/ NextName \/ EndOfList \/ Unknown \/ Skip \/ Restart \/ Keep \/ Stop
  BY <1>1 DEF Main, NextName, EndOfList, Unknown, Skip, Restart, Keep, Stop, Starts, Frees
<1>2. CASE Open \/ Reopen
  <2>1. db'.open /\ db'.conns = 1
    BY <1>2 DEF Open, Reopen, Opens, Databases
  <2> QED
    BY <1>2, <2>1 DEF Open, Reopen, Opens, Fails
<1>3. CASE CloseOld \/ Fini
  <2>1. ~db'.open /\ db'.conns = 0
    <3>1. pc \in {"run", "fini"} /\ db' = Closed
      BY <1>3 DEF CloseOld, Fini
    <3>2. prepared = {} /\ db.open /\ db.conns = 1
      BY <3>1
    <3>3. /\ Closed.open = FALSE
          /\ Closed.conns = IF prepared = {} /\ db.open THEN db.conns - 1 ELSE db.conns
      BY DEF Closed, Databases
    <3> QED
      BY <3>1, <3>2, <3>3
  <2> QED
    BY <1>3, <2>1 DEF CloseOld, Fini, Frees
<1>4. CASE Prepare \/ Finalize
  BY <1>4 DEF Prepare, Finalize, Fails
<1>5. CASE BeginBatch \/ EndBatch
  <2>1. db'.open = db.open /\ db'.conns = db.conns
    BY <1>5 DEF BeginBatch, EndBatch, RolledBack, Databases
  <2> QED
    BY <1>5, <2>1 DEF BeginBatch, EndBatch, Fails
<1>6. CASE WriteEntry \/ ReadEntry
  <2>1. db'.open = db.open /\ db'.conns = db.conns
    BY <1>6 DEF WriteEntry, ReadEntry, FailedEntry, RolledBack, Databases
  <2> QED
    BY <1>6, <2>1 DEF WriteEntry, ReadEntry, FailedEntry, AfterEntry, Fails
<1> QED
  BY <1>1, <1>2, <1>3, <1>4, <1>5, <1>6 DEF Next

\* What the benchmark is does not change while it runs.
LEMMA SameBenchmark ==
  ASSUME flags' = flags, at' = at
  PROVE  /\ name' = name /\ Entries' = Entries /\ Batch' = Batch
         /\ InTransactions' = InTransactions /\ Filling' = Filling
BY DEF name, Entries, Batch, InTransactions, Filling

\* So is what a fill has done.
LEMMA ProgressStep ==
  ASSUME TypeOK, Place, Connection, Progress, Next
  PROVE  Progress'
<1> SUFFICES ASSUME ~failed'
             PROVE  Progress'
  BY DEF Progress
<1>f. flags' = flags
  BY CounterStep DEF TypeOK
<1>t. /\ db \in Databases /\ i \in Nat /\ j \in Nat /\ done \in Nat /\ flags \in Flags
      /\ failed \in BOOLEAN
  BY DEF TypeOK, Databases
<1>c. Entries \in Nat /\ Batch \in Nat \ {0}
  BY <1>t, Counts
<1> USE DEF InLoops, Ended
<1>1. CASE Main \/ NextName \/ EndOfList \/ Unknown \/ Keep
  <2>1. failed' = failed /\ db' = db /\ pc' \in {"open", "run", "fini", "next", "prepare"} \cup Ended
    BY <1>1 DEF Main, NextName, EndOfList, Unknown, Keep, Starts, Frees
  <2>2. pc' = "prepare" => ~Filling'
    BY <1>1, <1>f, SameBenchmark
       DEF Main, NextName, EndOfList, Unknown, Keep, Starts, Frees, Filling, Fills, Overwrites, Reads
  <2>3. pc \notin {"entry", "endbatch"} /\ pc \notin Ended
    BY <1>1 DEF Main, NextName, EndOfList, Unknown, Keep
  <2> QED
    BY <2>1, <2>2, <2>3 DEF Progress
<1>2. CASE Open \/ Reopen
  <2>1. /\ ~db'.trans /\ db'.rows = {}
        /\ pc' \in {"next", "restart", "exited"}
    BY <1>2 DEF Open, Reopen, Opens, Fails
  <2> QED
    BY <2>1 DEF Progress
<1>3. CASE CloseOld \/ Fini
  <2>1. ~db'.trans /\ pc' \in {"reopen", "finished", "fault"}
    BY <1>3, <1>t DEF CloseOld, Fini, Closed, Frees, Databases
  <2> QED
    BY <2>1 DEF Progress
<1>4. CASE Skip \/ Stop
  <2>1. /\ failed' = failed /\ db' = db /\ pc' \in {"stop", "next", "fault"} /\ at' = at
        /\ pc \in {"run", "stop"} /\ (pc' = "stop" => flags.existing)
    BY <1>4 DEF Skip, Stop, Frees
  <2>2. pc' = "stop" => ~Filling'
    BY <2>1, <1>f, SameBenchmark DEF Filling
  <2> QED
    BY <2>1, <2>2 DEF Progress
<1>5. CASE Restart
  <2>1. /\ failed' = failed /\ db' = db /\ pc' \in {"prepare"} \cup Ended /\ at' = at
        /\ pc = "restart" /\ done' = 0
    BY <1>5 DEF Restart, Starts, Frees
  <2>2. Filling' = Filling
    BY <2>1, <1>f, SameBenchmark
  <2> QED
    BY <2>1, <2>2 DEF Progress
<1>6. CASE Prepare
  <2>1. /\ failed' = failed /\ db' = db /\ pc' = "batch" /\ at' = at /\ pc = "prepare"
        /\ prepared' = Statements /\ done' = done /\ i' = 0
    BY <1>6 DEF Prepare, Fails
  <2>2. Filling' = Filling
    BY <2>1, <1>f, SameBenchmark
  <2>3. Filling => done' = 0 /\ db'.rows = 0 .. (done' - 1)
    <3>1. 0 .. (0 - 1) = {}
      OBVIOUS
    <3> QED
      BY <2>1, <3>1 DEF Progress
  <2> QED
    BY <2>1, <2>2, <2>3 DEF Progress
<1>7. CASE BeginBatch
  <2>1. /\ failed' = failed /\ pc' = "entry" /\ at' = at /\ pc = "batch" /\ prepared' = prepared
        /\ done' = done /\ i' = i /\ j' = 0
    BY <1>7 DEF BeginBatch, Fails
  <2>2. Filling' = Filling /\ InTransactions' = InTransactions /\ Batch' = Batch
    BY <2>1, <1>f, SameBenchmark
  <2>3. db'.rows = db.rows /\ (db'.trans <=> InTransactions)
    BY <1>7, <1>t, <2>1 DEF BeginBatch, Fails, Progress, Databases
  <2>4. Filling => done' = i' + j'
    BY <1>t, <2>1 DEF Progress
  <2> QED
    BY <1>c, <2>1, <2>2, <2>3, <2>4 DEF Progress
<1>8. CASE WriteEntry
  <2>1. /\ failed' = failed /\ pc' = AfterEntry /\ at' = at /\ pc = "entry" /\ prepared' = prepared
        /\ done' = done + 1 /\ i' = i /\ j' = j + 1
        /\ \E k \in Keys : db' = [db EXCEPT !.rows = @ \cup {k}]
    BY <1>8 DEF WriteEntry, FailedEntry, Fails, FinishedSingleOp
  <2>2. Filling' = Filling /\ InTransactions' = InTransactions /\ Batch' = Batch
    BY <2>1, <1>f, SameBenchmark
  <2>3. j < Batch /\ (db.trans <=> InTransactions)
    BY <2>1 DEF Progress
  <2>4. db'.trans = db.trans
    BY <1>t, <2>1 DEF Databases
  <2>5. Filling => done' = i' + j' /\ db'.rows = 0 .. (done' - 1)
    <3>1. Filling => Keys = {i + j}
      BY DEF Filling, Keys
    <3>2. Filling => done = i + j /\ db.rows = 0 .. (done - 1)
      BY <2>1 DEF Progress
    <3>3. Filling => db'.rows = (0 .. (done - 1)) \cup {done}
      BY <1>t, <2>1, <3>1, <3>2 DEF Databases
    <3>4. 0 .. ((done + 1) - 1) = (0 .. (done - 1)) \cup {done}
      BY <1>t
    <3>5. Filling => done' = i' + j'
      BY <1>t, <2>1, <3>2
    <3> QED
      BY <2>1, <3>3, <3>4, <3>5
  <2>6. CASE j + 1 < Batch
    <3>1. pc' = "entry" /\ j' < Batch
      BY <2>1, <2>6 DEF AfterEntry
    <3> QED
      BY <2>1, <2>2, <2>3, <2>4, <2>5, <3>1 DEF Progress
  <2>7. CASE ~(j + 1 < Batch)
    <3>1. pc' = "endbatch" /\ j' = Batch
      BY <1>t, <1>c, <2>1, <2>3, <2>7 DEF AfterEntry
    <3> QED
      BY <2>1, <2>2, <2>3, <2>4, <2>5, <3>1 DEF Progress
  <2> QED
    BY <2>6, <2>7
<1>9. CASE ReadEntry
  <2>1. /\ failed' = failed /\ pc' = AfterEntry /\ at' = at /\ pc = "entry" /\ prepared' = prepared
        /\ j' = j + 1 /\ db' = db /\ name \in Reads
    BY <1>9 DEF ReadEntry, FailedEntry, Fails, FinishedSingleOp
  <2>2. InTransactions' = InTransactions /\ Batch' = Batch /\ ~Filling'
    BY <2>1, <1>f, SameBenchmark DEF Filling, Fills, Reads
  <2>3. db.trans <=> InTransactions
    BY <2>1 DEF Progress
  <2>4. pc' \in {"entry", "endbatch"} /\ (pc' = "entry" => j' < Batch)
    BY <2>1 DEF AfterEntry
  <2> QED
    BY <2>1, <2>2, <2>3, <2>4 DEF Progress
<1>10. CASE EndBatch
  <2>1. /\ failed' = failed /\ pc' = "batch" /\ at' = at /\ pc = "endbatch" /\ prepared' = prepared
        /\ done' = done /\ i' = i + Batch
    BY <1>10 DEF EndBatch, Fails
  <2>2. Filling' = Filling
    BY <2>1, <1>f, SameBenchmark
  <2>3. db'.rows = db.rows /\ ~db'.trans
    BY <1>10, <1>t, <2>1 DEF EndBatch, Fails, Progress, Databases
  <2> QED
    BY <2>1, <2>2, <2>3 DEF Progress
<1>11. CASE Finalize
  <2>1. /\ failed' = failed /\ pc' = "stop" /\ at' = at /\ pc = "batch" /\ db' = db
        /\ done' = done /\ i >= Entries
    BY <1>11 DEF Finalize
  <2>2. Filling' = Filling /\ Entries' = Entries
    BY <2>1, <1>f, SameBenchmark
  <2> QED
    BY <2>1, <2>2 DEF Progress
<1> QED
  BY <1>1, <1>2, <1>3, <1>4, <1>5, <1>6, <1>7, <1>8, <1>9, <1>10, <1>11 DEF Next
-----------------------------------------------------------------------------
\* The inductive invariant.
LEMMA Invariance == Spec => []IInv
<1>1. Init => IInv
  <2> SUFFICES ASSUME Init
               PROVE  IInv
    OBVIOUS
  <2>1. flags \in Flags /\ Len(flags.list) \in Nat \ {0} /\ flags.raw \in BOOLEAN
    BY FlagTypes DEF Init
  <2>2. TypeOK
    <3>1. db \in Databases
      BY DEF Init, Databases
    <3>2. ptr \in [Pointers -> References]
      BY DEF Init, References
    <3>3. at \in 0 .. Len(flags.list)
      BY <2>1 DEF Init
    <3>4. prepared \subseteq Statements /\ leaked \subseteq 1 .. Len(flags.list)
      BY DEF Init
    <3> QED
      BY <2>1, <3>1, <3>2, <3>3, <3>4 DEF Init, TypeOK, Databases, References
  <2>3. Place /\ Connection /\ Progress
    BY DEF Init, Place, Connection, Progress, Running, InLoops
  <2>4. Pointing
    BY DEF Init, Pointing, Pointers, Running
  <2>5. leaked = Lost(Past)
    BY DEF Init, Lost, Past, Running
  <2>6. Ownership
    BY <2>4, <2>5 DEF Init, Ownership
  <2> QED
    BY <2>2, <2>3, <2>6 DEF IInv
<1>2. IInv /\ [Next]_vars => IInv'
  <2> SUFFICES ASSUME IInv, [Next]_vars
               PROVE  IInv'
    OBVIOUS
  <2>1. CASE Next
    BY <2>1, TypeStep, PlaceStep, OwnershipStep, ConnectionStep, ProgressStep DEF IInv
  <2>2. CASE UNCHANGED vars
    <3>1. TypeOK' /\ Place'
      BY <2>2 DEF IInv, TypeOK, Place, vars, name
    <3>2. Ownership'
      BY <2>2 DEF IInv, Ownership, Pointing, NameOf, Lost, Past, vars
    <3>3. Connection' /\ Progress'
      BY <2>2, SameBenchmark DEF IInv, Connection, Progress, vars
    <3> QED
      BY <3>1, <3>2, <3>3 DEF IInv
  <2> QED
    BY <2>1, <2>2
<1> QED
  BY <1>1, <1>2, PTL DEF Spec

\* Every variable of the driver has its type, for every list of benchmarks.
THEOREM TypeCorrect == Spec => []TypeOK
<1>1. IInv => TypeOK
  BY DEF IInv
<1> QED
  BY <1>1, Invariance, PTL

\* When the driver is done it has freed all it can name, and lost only the
\* copies of the names it did not know.
THEOREM AllFreed == Spec => []AllIsFreed
<1>1. IInv => AllIsFreed
  <2> SUFFICES ASSUME IInv, pc = "finished"
               PROVE  (\A p \in Pointers : ptr[p] # "owned") /\ leaked = UnknownNames
    BY DEF AllIsFreed
  <2>1. (\A p \in Pointers : ptr[p] # "owned") /\ leaked = Lost(Past)
    BY DEF IInv, Ownership
  <2>2. Past = 1 .. Len(flags.list)
    BY DEF IInv, Place, Past, Running
  <2>3. Len(flags.list) \in Nat
    BY FlagTypes DEF IInv, TypeOK
  <2>4. Lost(1 .. Len(flags.list)) = UnknownNames
    BY <2>3 DEF Lost, UnknownNames
  <2> QED
    BY <2>1, <2>2, <2>4
<1> QED
  BY <1>1, Invariance, PTL

\* The driver never has two connections, nor opens a database over another,
\* whatever fails: sqlite3_close is only called when no statement is prepared.
THEOREM OneConnectionHolds == Spec => []OneConnection
<1>1. IInv => OneConnection
  BY DEF IInv, Connection, OneConnection
<1> QED
  BY <1>1, Invariance, PTL

\* A sequential fill that nothing disturbs has written one row for each entry
\* that it reports, and commits the last of them.
THEOREM FillsComplete == Spec => []FillsAreComplete
<1>1. IInv => FillsAreComplete
  BY DEF IInv, Progress, FillsAreComplete, Filling, InLoops, Ended
<1> QED
  BY <1>1, Invariance, PTL

\* The command lines that ask for no raw data and end with a name that is not known.
Careful == \A f \in Flags : ~f.raw /\ f.list[Len(f.list)] \notin Known

\* With those, the assertion in vPortFree never fails.
THEOREM FreesLive == Careful => (Spec => []FreesAreLive)
<1> SUFFICES ASSUME Careful
             PROVE  Spec => []FreesAreLive
  OBVIOUS
<1>1. ASSUME IInv, Next
      PROVE  pc' # "fault"
  <2>1. flags \in Flags /\ ~flags.raw /\ flags.list[Len(flags.list)] \notin Known
    BY <1>1 DEF IInv, TypeOK, Careful
  <2>2. pc \in Places /\ Pointing
    BY <1>1, NotEnded DEF IInv, Ownership
  <2>3. ptr.path # "freed" /\ ptr.data # "freed" /\ ptr.message # "freed"
    BY <2>2 DEF Pointing
  <2>4. ptr.path # "static" /\ ptr.data # "static" /\ ptr.message # "static"
    BY <2>2 DEF Pointing
  <2>5. Data = {}
    BY <2>1 DEF Data
  <2>6. pc = "stop" => ptr.name = "owned"
    BY <1>1, <2>1, <2>2 DEF Pointing, NameOf, IInv, Place, Running, name
  <2>7. CASE NextName \/ Skip \/ Restart \/ Stop \/ Fini
    BY <2>3, <2>4, <2>5, <2>6, <2>7 DEF NextName, Skip, Restart, Stop, Fini, Starts, Frees, FinalFrees
  <2>8. CASE Main \/ EndOfList \/ Unknown \/ CloseOld \/ Keep \/ Finalize
    BY <2>8 DEF Main, EndOfList, Unknown, CloseOld, Keep, Finalize
  <2>9. CASE Open \/ Reopen \/ Prepare \/ BeginBatch \/ EndBatch
    BY <2>9 DEF Open, Reopen, Opens, Prepare, BeginBatch, EndBatch, Fails
  <2>10. CASE WriteEntry \/ ReadEntry
    BY <2>10 DEF WriteEntry, ReadEntry, FailedEntry, AfterEntry, Fails
  <2> QED
    BY <1>1, <2>7, <2>8, <2>9, <2>10 DEF Next
<1>2. Init => FreesAreLive
  BY DEF Init, FreesAreLive
<1>3. IInv /\ FreesAreLive /\ [Next]_vars => FreesAreLive'
  BY <1>1 DEF FreesAreLive, vars
<1> QED
  BY <1>2, <1>3, Invariance, PTL DEF Spec

-----------------------------------------------------------------------------
\* Where the loops are, whatever has failed.
Loops ==
  /\ pc \in {"entry", "endbatch"} => i < Entries
  /\ pc = "entry" => j < Batch

LEMMA LoopsStep ==
  ASSUME IInv, Loops, [Next]_vars
  PROVE  Loops'
<1>t. i \in Nat /\ j \in Nat /\ flags \in Flags /\ Entries \in Nat /\ Batch \in Nat \ {0}
  BY Counts DEF IInv, TypeOK
<1>1. CASE UNCHANGED vars
  BY <1>1, SameBenchmark DEF vars, Loops
<1>2. CASE BeginBatch
  <2>1. /\ i < Entries /\ j' = 0 /\ i' = i /\ flags' = flags /\ at' = at
    BY <1>2 DEF BeginBatch
  <2>2. pc' \in {"entry", "exited"}
    BY <1>2 DEF BeginBatch, Fails
  <2>3. Entries' = Entries /\ Batch' = Batch
    BY <2>1, SameBenchmark
  <2> QED BY <1>t, <2>1, <2>2, <2>3 DEF Loops
<1>3. CASE WriteEntry \/ ReadEntry
  <2>1. pc = "entry" /\ i' = i /\ j' = j + 1 /\ flags' = flags /\ at' = at
    BY <1>3 DEF WriteEntry, ReadEntry, FinishedSingleOp
  <2>2. pc' \in {"exited", AfterEntry}
    BY <1>3 DEF WriteEntry, ReadEntry, FailedEntry, Fails
  <2>3. pc' = "entry" => j + 1 < Batch
    BY <2>2 DEF AfterEntry
  <2>4. Entries' = Entries /\ Batch' = Batch
    BY <2>1, SameBenchmark
  <2> QED BY <1>t, <2>1, <2>3, <2>4 DEF Loops
<1>4. CASE \/ Main \/ Open \/ NextName \/ EndOfList \/ Unknown \/ Skip \/ CloseOld \/ Reopen
           \/ Restart \/ Keep \/ Prepare \/ EndBatch \/ Finalize \/ Stop \/ Fini
  <2>1. CASE Main \/ NextName \/ EndOfList \/ Unknown \/ Skip \/ CloseOld
    BY <2>1 DEF Main, NextName, EndOfList, Unknown, Skip, CloseOld, Starts, Frees, Loops
  <2>2. CASE Open \/ Reopen
    BY <2>2 DEF Open, Reopen, Opens, Fails, Loops
  <2>3. CASE Restart \/ Keep \/ Finalize \/ Stop \/ Fini
    BY <2>3 DEF Restart, Keep, Finalize, Stop, Fini, Starts, Frees, Loops
  <2>4. CASE Prepare \/ EndBatch
    BY <2>4 DEF Prepare, EndBatch, Fails, Loops
  <2> QED BY <1>4, <2>1, <2>2, <2>3, <2>4
<1> QED BY <1>1, <1>2, <1>3, <1>4 DEF Next

LEMMA LoopsAlways == Spec => []Loops
<1>1. Init => Loops
  BY DEF Init, Loops
<1> QED BY <1>1, LoopsStep, Invariance, PTL DEF Spec

\* What is left is counted in natural numbers.
LEMMA MeasureTypes ==
  ASSUME IInv, Loops
  PROVE  NamesLeft \in Nat /\ StagesLeft \in Nat /\ EntriesLeft \in Nat /\ BatchLeft \in Nat
<1>1. /\ i \in Nat /\ j \in Nat /\ flags \in Flags /\ Entries \in Nat /\ Batch \in Nat \ {0}
      /\ at \in 0 .. Len(flags.list) /\ Len(flags.list) \in Nat
  BY Counts, FlagTypes DEF IInv, TypeOK
<1>2. NamesLeft \in Nat
  BY <1>1 DEF NamesLeft
<1>3. StagesLeft \in Nat
  BY DEF StagesLeft
<1>4. EntriesLeft \in Nat
  BY <1>1 DEF EntriesLeft
<1>5. BatchLeft \in Nat
  BY <1>1 DEF BatchLeft, Loops
<1> QED BY <1>2, <1>3, <1>4, <1>5

LEMMA CloserStep ==
  ASSUME IInv, Loops, Next
  PROVE  Closer
<1>t. /\ i \in Nat /\ j \in Nat /\ flags \in Flags /\ Entries \in Nat /\ Batch \in Nat \ {0}
      /\ at \in 0 .. Len(flags.list) /\ Len(flags.list) \in Nat
  BY Counts, FlagTypes DEF IInv, TypeOK
<1>f. ASSUME flags' = flags, at' = at
      PROVE  NamesLeft' = NamesLeft /\ Entries' = Entries /\ Batch' = Batch
  BY <1>f, SameBenchmark DEF NamesLeft
<1> USE DEF InLoops
\* A name is begun.
<1>1. CASE NextName
  <2>1. at < Len(flags.list) /\ at' = at + 1 /\ flags' = flags
    BY <1>1 DEF NextName
  <2> QED BY <1>t, <2>1 DEF NamesLeft, Closer
\* A step within the round of a name.
<1>2. CASE Main \/ EndOfList \/ Unknown \/ Skip \/ CloseOld \/ Restart \/ Keep
  <2>1. flags' = flags /\ at' = at /\ StagesLeft' < StagesLeft
    BY <1>2 DEF Main, EndOfList, Unknown, Skip, CloseOld, Restart, Keep, Starts, Frees, StagesLeft
  <2> QED BY <1>f, <2>1 DEF Closer
<1>3. CASE Open \/ Reopen \/ Prepare
  <2>1. flags' = flags /\ at' = at /\ StagesLeft' < StagesLeft
    BY <1>3 DEF Open, Reopen, Opens, Prepare, Fails, StagesLeft
  <2> QED BY <1>f, <2>1 DEF Closer
<1>4. CASE Finalize \/ Stop \/ Fini
  <2>1. flags' = flags /\ at' = at /\ StagesLeft' < StagesLeft
    BY <1>4 DEF Finalize, Stop, Fini, Frees, StagesLeft
  <2> QED BY <1>f, <2>1 DEF Closer
\* A step of the loops, or one that ends the program.
<1>5. CASE BeginBatch
  <2>1. /\ pc = "batch" /\ i < Entries /\ j' = 0 /\ i' = i /\ flags' = flags /\ at' = at
    BY <1>5 DEF BeginBatch
  <2>2. pc' \in {"entry", "exited"}
    BY <1>5 DEF BeginBatch, Fails
  <2>3. CASE pc' = "exited"
    BY <1>f, <2>1, <2>3 DEF Closer, StagesLeft
  <2>4. CASE pc' = "entry"
    <3>1. StagesLeft' = StagesLeft
      BY <2>1, <2>4 DEF StagesLeft
    <3>2. EntriesLeft' = EntriesLeft
      BY <1>f, <2>1, <2>4 DEF EntriesLeft
    <3>3. BatchLeft' < BatchLeft
      BY <1>f, <1>t, <2>1, <2>4 DEF BatchLeft
    <3> QED BY <1>f, <2>1, <3>1, <3>2, <3>3 DEF Closer
  <2> QED BY <2>2, <2>3, <2>4
<1>6. CASE WriteEntry \/ ReadEntry
  <2>1. /\ pc = "entry" /\ i' = i /\ j' = j + 1 /\ flags' = flags /\ at' = at
        /\ i < Entries /\ j < Batch
    BY <1>6 DEF WriteEntry, ReadEntry, FinishedSingleOp, Loops
  <2>2. pc' \in {"entry", "endbatch", "exited"}
    BY <1>6 DEF WriteEntry, ReadEntry, FailedEntry, Fails, AfterEntry
  <2>3. CASE pc' = "exited"
    BY <1>f, <2>1, <2>3 DEF Closer, StagesLeft
  <2>4. CASE pc' \in {"entry", "endbatch"}
    <3>1. StagesLeft' = StagesLeft
      BY <2>1, <2>4 DEF StagesLeft
    <3>2. EntriesLeft' = EntriesLeft
      BY <1>f, <2>1, <2>4 DEF EntriesLeft
    <3>3. BatchLeft' < BatchLeft
      BY <1>f, <1>t, <2>1, <2>4 DEF BatchLeft
    <3> QED BY <1>f, <2>1, <3>1, <3>2, <3>3 DEF Closer
  <2> QED BY <2>2, <2>3, <2>4
<1>7. CASE EndBatch
  <2>1. /\ pc = "endbatch" /\ i' = i + Batch /\ flags' = flags /\ at' = at /\ i < Entries
    BY <1>7 DEF EndBatch, Loops
  <2>2. pc' \in {"batch", "exited"}
    BY <1>7 DEF EndBatch, Fails
  <2>3. CASE pc' = "exited"
    BY <1>f, <2>1, <2>3 DEF Closer, StagesLeft
  <2>4. CASE pc' = "batch"
    <3>1. StagesLeft' = StagesLeft
      BY <2>1, <2>4 DEF StagesLeft
    <3>2. EntriesLeft' < EntriesLeft
      BY <1>f, <1>t, <2>1, <2>4 DEF EntriesLeft
    <3> QED BY <1>f, <2>1, <3>1, <3>2 DEF Closer
  <2> QED BY <2>2, <2>3, <2>4
<1> QED BY <1>1, <1>2, <1>3, <1>4, <1>5, <1>6, <1>7 DEF Next

\* No list of benchmarks, no count and no failure makes the driver run for ever: what
\* is left of the run is four natural numbers, and every step lowers them, the first
\* that changes downwards.
THEOREM RunIsFinite ==
  /\ Spec => [](NamesLeft \in Nat /\ StagesLeft \in Nat /\ EntriesLeft \in Nat /\ BatchLeft \in Nat)
  /\ Spec => ComesCloser
<1>1. IInv /\ Loops => NamesLeft \in Nat /\ StagesLeft \in Nat /\ EntriesLeft \in Nat /\ BatchLeft \in Nat
  BY MeasureTypes
<1>2. IInv /\ Loops /\ [Next]_vars => [Closer]_vars
  BY CloserStep
<1> QED BY <1>1, <1>2, LoopsAlways, Invariance, PTL DEF Spec, ComesCloser
=============================================================================
