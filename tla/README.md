# A TLA+ development for the SQLite 3.38.2 port

The repository ports SQLite 3.38.2 to an RTOS (`port/os_quec_rtos.c`) and, for trying
the port out on a desktop, to Windows (`port/os_win.c`). It adds the allocator that
serves SQLite's memory in the Windows build (`heap_4.c`), a demo task
(`sqlite3_demo.c`) and a benchmark (`sqlite-bench/`). The library itself, `sqlite3.c`, is
not in the repository: the port is what SQLite calls, and `sqlite3.h` and
`sqlite3ext.h` are the contract it has to meet.

These modules describe the port's own logic. Each is translated from the C code;
`PROJECT.json` maps every definition to the lines it stands for.

## The system

    sqlite3_demo.c, sqlite-bench/ ──> sqlite3.c ──┬─> sqlite3_mem_methods ──> heap_4.c
                                                  ├─> sqlite3_vfs, io_methods ──> os_quec_rtos.c / os_win.c ──> ql_* file system
                                                  └─> sqlite3_mutex_methods ──> os_quec_rtos.c / os_win.c ──> ql_* semaphores

| component | state it keeps | operations | where it is hard |
| --- | --- | --- | --- |
| heap allocator, `heap_4.c` | the byte array cut into blocks, the free list, four counters, a low-water mark | `pvPortMalloc`, `pvPortCalloc`, `pvPortRealloc`, `vPortFree`, `vPortGetHeapStats`, getters | long sequences of legal calls; sizes at the boundary (overflow, padding, an exact fit, an empty list); counters in modular arithmetic |
| VFS file locking, `os_quec_rtos.c` 477-602, `os_win.c` | per handle: the lock level, a semaphore | `xOpen`, `xClose`, `xLock`, `xUnlock`, `xCheckReservedLock` | calls on different handles interleave; two fields of one handle are updated one after the other |
| VFS file I/O, the same files | per handle: descriptor with its position, chunk size; the file system: names and contents | `xOpen`, `xClose`, `xRead`, `xWrite`, `xTruncate`, `xSync`, `xFileSize`, `xFileControl`, `xDelete`, `xAccess` | seek and transfer are two calls; file-system calls fail one by one; size read and used later; delete and close results dropped |
| VFS mutex subsystem, 145-264 | twelve static mutexes, allocated mutexes, recursion counts | init, end, alloc, free, enter, try, leave, held, notheld | partial failure while they are created; shutdown |
| VFS names, time, randomness, 842-1010 | none | `xFullPathname`, temporary names, `xRandomness`, `xSleep`, `xCurrentTime` | a name that is free when looked at and taken when used |
| Windows VFS, `os_win.c` | as the RTOS port | as the RTOS port | the places where the two copies differ: `xTruncate` refuses, `xAccess` does not see an empty file, `xSync` does not reach the disk, the shutdown of the mutexes misreads a result |
| benchmark driver, `benchmark.c`, `bench_main.c`, `raw.c` | the flags, the open database, prepared statements, the blocks it owns | one operation per benchmark name, raw recording, report, fini | who owns which block when a path is left early; counts that do not divide |
| histogram and random data, `histogram.c`, `random.c` | buckets and sums; the seed, the data window | clear, add, merge, percentile, median; next, uniform, skewed, generate | bucket edges, an empty histogram, the end of the data window |
| utilities, demo task, Windows program, configuration | none to speak of | a clock, string helpers, a fixed sequence of SQL | none |
| shell.c, sqlite3.h, sqlite3ext.h | vendored | | |

What makes each correct:

- **heap allocator**: blocks partition the array; the free list is exactly the free
  blocks, in order, coalesced; live regions are disjoint, large enough and aligned;
  counters equal what they count; a realloc keeps its copy inside the new block.
- **file locking**: level and semaphore of a handle agree between calls; a handle
  that may write excludes the others; a probe for a reserved lock sees one; every call
  ends.
- **file I/O**: each transfer happens at the offset asked for; a successful read
  returns the bytes of the file; opening does not take bytes from a file; a size hint only extends; a failure
  is reported. The code does not keep all of these: see what the runs found, and what else the modelling showed.
- **mutexes**: one holder; as many unlocks as locks; what was created is deleted.
- **a transaction** (file methods under the rollback journal): after a crash at any moment
  the database is what the last reported commit left.
- **benchmark**: frees only what it owns, once; opens the database once; runs each
  benchmark for the number of operations it reports.
- **histogram, random**: the histogram is what counting all values at once would give,
  the median is near the true one; the generator is the multiplication it stands for.
- **temporary names**: in the first directory that can be used, and within the buffer.

`PROJECT.json` lists the places where these are at risk ("hazards"), line by line.

## The modules

| module | models | kind |
| --- | --- | --- |
| `Allocator` | what SQLite asks of malloc, realloc and free | abstract specification |
| `Heap4` | `heap_4.c` | detailed; implements `Allocator` |
| `VfsLock` | locking in `os_quec_rtos.c` | detailed, concurrent |
| `VfsFile` | file I/O in `os_quec_rtos.c` | detailed, concurrent, failures |
| `Mutex` | the mutex methods of both ports | detailed, concurrent, failures, restarts |
| `AtomicStore` | what a committed transaction promises | abstract specification |
| `Journal` | write, sync, truncate, access and delete of both ports under the pager's rollback journal | detailed, crashes, failures; implements `AtomicStore` |
| `Bench` | `benchmark.c`, `bench_main.c`, `raw.c` | detailed, failures |
| `Random`, `Histogram`, `TempName` | `random.c`, `histogram.c`, the name of a temporary file | algorithms |
| `Heap4Proofs`, `VfsLockProofs`, `VfsFileProofs`, `MutexProofs`, `JournalProofs`, `BenchProofs`, `HistogramProofs` | theorems about the module they are named after | proofs |
| `PureProofs` | theorems about `Random` and `TempName` | proofs |
| `MCHeap4`, `MCVfsLock`, `MCVfsFile`, `MCMutex`, `MCJournal`, `MCBench`, `MCPure` | instances for TLC; `MCPure` joins the three algorithms | model checking |

Definitions whose comment begins with "A mutant" are faulty variants of the definition
that follows; they show that a property would notice the fault, and nothing uses them.

### Heap4

`heap` is a record: `hdr` maps the address of each block to its header (`xBlockSize`
without the allocated bit, the bit, `xWantedSize`), `list` is the free list between `xStart`
and `pxEnd`, and the rest are the static counters. `status` says whether the program
still runs. A call is one step because the program has one thread: the macros that
suspend the scheduler are empty in `heap_4.h`.

| code | definition |
| --- | --- |
| `prvHeapInit` (428-456) | `HeapInit`, run by the first call through `Initialised` |
| `prvInsertBlockIntoFreeList` (460-520) | `Positions`, `JoinsPrev`, `JoinsNext`, `InsertedAt`, `Inserted` |
| `pvPortMalloc` | `AdjustedSize`, `FirstFit`, `Taken`, `Split`, `Carved`, `Mallocs`, action `Malloc` |
| `pvPortCalloc`, `pvPortRealloc`, `vPortFree` | `Calloc`, `Realloc` with `Overruns`, `Released`/`Frees`/`Free` |
| `vPortGetHeapStats` | `GetHeapStats` |
| `vApplicationMallocFailedHook` | the status "exited" |

Addresses are small numbers and the header is `StructSize` of them; `SizeMax` plays
`SIZE_MAX` and its top bit marks an allocated block, as in the code. The free byte
count is an `Int` in the model, so that going below zero would be seen; `FreeAccounting`
says that it does not, hence the code's unsigned counter does not wrap.

`pvPortRealloc` copies as many bytes as the old block was asked for. A caller that
shrinks a block makes it copy past the new one; `MayShrink` says whether callers do.
With `MayShrink = FALSE` everything about the allocator holds; SQLite does shrink
blocks, and the run `heap_shrink` shows what happens then. `vPortGetHeapStats` tests for the
end of the list only after a step, so on a heap with nothing free it goes through
`pxEnd`'s NULL link (status "walked_past_end"); `StatsStayInList` says that it does so
only then. Nothing in the repository calls it.

### VfsLock

Handles open on one file, each with its `eFileLock` and its own semaphore, and threads
that call them. A call happens inside the mutex of the handle's connection
(`SQLITE_THREADSAFE` is 1 in `config.h`). The demo selects `SQLITE_CONFIG_MULTITHREAD`
at run time, where the library has no connection mutex and the application keeps
threads apart on a connection; `owner` then stands for that discipline.
`xLock` is `Lock` then `FinishLock`, `xUnlock` is `Unlock` then `FinishUnlock`, and so
on: one step for each access to a semaphore or to `eFileLock`, with every other handle's
steps between them. `Answers` are the result codes.

`quec_open` does not look whether its semaphore could be created, so `Open` goes on without one (`hasSem`); it is assumed that
every wait on a semaphore that does not exist fails and that a release of it does nothing, whose results the port does not tell apart from a
count of 0 either.

`Disciplined` says how the callers behave: they raise a level by `xLock`, in the order of the chart in front of `quec_lock`
(`Rises`, PENDING included), and lower it by `xUnlock`. The pager does; neither routine tests it. Runs and theorems are for
`Disciplined`. Without it `quec_unlock`, which compares for equality only, gives SHARED to a handle that has nothing and no semaphore, where
its comment (571-572) promises a no-op; with the constant set to FALSE, TLC shows this as a violation of `SemaphoreFollowsLock`.

Fairness: a thread inside a call is scheduled again (`WF_vars(Work(t))`: no step of
a call waits, every semaphore wait has a timeout of 0), and a thread that waits for a
mutex that becomes free again and again gets it
(`SF_vars(Enter(t))`: `mtx_enter` waits with `QL_WAIT_FOREVER`, and the RTOS hands a
semaphore to a waiting task). Nothing makes a thread start a call.

### VfsFile

Two layers: the file system (`dir`, `content`, and per descriptor `fd` and `pos`),
which is external and modelled from how the port calls it, and the port's calls. A call
is cut where another handle's call can come between: `Transfer` is `xRead` or `xWrite` up
to `ql_fseek`, `FinishRead` and `FinishWrite` the rest; `Open` is `quec_open` as far as
`ql_fopen("rb+")`, which fails without a file and may fail with one, `FinishOpen` on from `ql_fopen("wb+")`; `SizeHint` goes to `ql_fsize`,
`SeekHint` is the seek after it and `FinishHint` the write. Each file-system call may fail, a read may return any smaller number of bytes that is not 0, and a
write may be partial.
Of a byte the model keeps which thread wrote it, or 0: enough to tell whose byte is
where. The buffer of a read holds `Stale` wherever nothing was put.

A connection's mutex keeps two threads off one handle (`Free`), as in `VfsLock`; locks
between handles are not assumed, since `VfsLock` shows that there are none. `xTruncate` is called only
to make a file smaller, as the pager does.

`LostByTruncateOrCreate` names the two ways for a file to lose bytes: `xTruncate`, and the "wb+" of `quec_open`, which follows every failure of
the "rb+" (`CreatesAgain`). So a file that exists is emptied when the first `ql_fopen` fails on it, or when another handle creates and fills it
between the two; what `sqlite3.h` asks for is a file that is created only "if it does not already exist".

The size hint is to write a byte to the end of each block and one at the last offset (626-631). It compares `quec_write`'s result
code, 0 when all is well, with the number of bytes, and ends with an error after its first byte. `HintsExtend` says what that
byte achieves: the file ends with a whole block or has its size (`FillsBlock`). The size it starts from may be stale by then, so the byte may lie over one that another handle
has written since, and only over such a one (`SparesOldBytes`).

### Mutex

A `sqlite3_mutex` is a structure with a pointer (`ptr`) to a mutex of the system; the static ones lie in
the table (`Statics`), the others come from `sqlite3_malloc` (`allocated`). The system is external: which of its
mutexes exist (`alive`), who has them and how often (`owner`, `depth`). `CreateStatic` is a round of the loop of
`xMutexInit`, `QuecEndStatic` and `WinEndStatic` a round of that of `xMutexEnd`; `Alloc`, `Free`, `Try`
and `Leave` are the methods, `Enter` and `Acquire` the two halves of `xMutexEnter`: the pointer is read, then
that mutex is waited for. The variable `port` says which port runs. The system may refuse to create or delete a
mutex at any call, may give a new mutex the place of a deleted one, and answers a lock or an unlock that makes no sense
with an error nobody looks at. A create that fails is assumed to store NULL (`CreateFails`): `CreateMutex` returns it, and of `ql_rtos_mutex_create`
the port takes it for granted, since it looks at the pointer and not at the result (153, 198).

`Exclusion` is about mutexes that could be made. One that could not is used all the same: `Alloc` returns a dynamic one, every lock of which
fails, where `sqlite3.h` asks for NULL. `NothingLost` holds on the Quectel port as long as nothing fails. On the Windows port a shutdown ends after
the first static mutex it has closed (`WinEndStatic`), and on both ports an initialisation that fails leaves those it made; `sqlite3.h`
asks both to release what they hold.

The callers are external too: `BeginStart` and `FinishStart` are `sqlite3_initialize` around `xMutexInit`, `BeginEnd` is
`sqlite3_shutdown`, which the application calls when nothing of the library is in use (`Quiet`). The library
enters mutexes in one order (`Enter`), so waiting never goes in a circle. `Concurrent` says whether two threads may be in
`sqlite3_initialize` at the same time: the library relies on `xMutexInit` being threadsafe
there, which it is not (run `mutex_reinit`); everything else is checked and proved without.

Fairness: a thread in a loop of the port goes on (`WF`), a mutex that is given back again and again reaches a thread
that waits (`SF_vars(Acquire(t))`, as for `VfsLock`), and a thread that is inside mutexes leaves them (`WF_vars(LeaveOne(t))`: the
library enters finitely many in a call, `budget`).

### Journal

The file methods that decide whether a transaction survives, with everything around them that the question needs.
`Write`, `Sync`, `QuecTruncate`, `WinTruncate`, `Delete`, `QuecAccess`, `WinAccess`, `OpenJournal` are the port, with the result codes
it returns and drops. External are

- the file system: a block that was written is what the next read finds (`file`); on the medium it may be new, old or torn
  (`medium`, `lengths`) until a sync; `Crash` picks one of these for every block. Directory entries are made and
  removed at once: `quec_delete` ignores `syncDir`, and a file system that puts off a removal could bring a journal back after its commit. That it does not is an
  assumption of everything shown here. `MaxFaults` calls fail, at any place.
- the pager, as `config.h` builds it (no WAL, journal mode DELETE, synchronous FULL): the playback of a hot journal
  (`CheckJournal` to `PlayDelete`) and a transaction (`Begin` to `CommitTx`).

The crash on the Quectel port is a loss of power; `winSync` calls only `fflush`, so on the Windows port it is the end
of the process, and a loss of power would void every promise there.

`AtomicStore` is the promise: content changes by commits only. The refinement maps its content to what a reader
would find, the database with the journal played back (`Content`), and its `hidden` to the failures the port dropped: nothing
dropped, a "lost" commit (`ql_remove` failed and was reported as done), or a "torn" write (`ql_fsync` failed).
So `ImplementsStore` says both what holds as long as no failure is dropped (durable and atomic commits) and
how it weakens with each kind. `Recovers` says that recovery ends, and names the exception: `winTruncate` refuses every
call, so on the Windows port a transaction that had made the database longer cannot be rolled back, and
its journal stays hot.

Fairness is `WF_vars(Recover \/ Transact)`: the pager's one thread goes on; nobody has to begin a transaction.

### Random, Histogram, TempName

Each is a specification of its own (`RandSpec`, `TempSpec`, `HistSpec`); `MCPure` runs one at a time. In `Random` the width of the
modulus, the multiplier and the sizes are constants; `Fill` is a round of the loop that makes the
text, as lengths. `Histogram` keeps next to each histogram the values it has been given (`added`); its doubles
are integers and the median is a fraction, so nothing is rounded; `With` and `Merged` are the records that
`histogram_add` and `histogram_merge` leave. `histogram_to_string` is its length against the
length of its block; whether the terminator still fits is not counted, as in the code: `TextFits` admits that it
lies one byte beyond. `Median` is for histograms that are not empty; for an empty one the code divides 0 by 0. In `TempName` a
path is a name and its length; the comma that is missing in `azDirs` makes one path of two
(`Listed` in the instance).

### Bench

One thread goes through `FLAGS_benchmarks`; `pc` is where it is, `at` the name it runs. Every
place where the driver calls SQLite is a step: `Open` and `Reopen` are `benchmark_open`, `Prepare`
the `sqlite3_prepare_v2` calls, `BeginBatch`, `WriteEntry` or `ReadEntry`, and `EndBatch` the loop
over batches and entries, `Finalize` the end of `benchmark_write` and `benchmark_read`, `CloseOld`
and `Fini` the closes. `NextName`, `Restart`, `Skip`, `Unknown` and `Stop` are `start`, `stop` and
what `benchmark_run` does with the name. SQLite is external (`Closed`, `RolledBack`, and what is
enabled in `Prepare` and the rest): any call may fail, a connection with
prepared statements does not close, a table can be created once, a transaction does
not nest. After a failure the Windows build exits (`exits`) and the RTOS build goes on.

A pointer is what it refers to: nothing, a block the program owns, a block already freed, or
part of the argument. `Frees` leads to "fault" when `vPortFree` is given one of the last two. On the Windows build that is the assertion in `heap_4.c`; on
the RTOS build `vPortFree` is `free` (`heap_4.h:90`), which is undefined for them. `Starts` is the allocation of
`start`: the array of raw data has 8 MB, which the 3 MB heap of the Windows build does not have, so that program exits in its first
`start`; on the RTOS build the memory is assumed to be there. The command
line is the record `flags`, one of a constant set `Flags`. It is assumed that `--db` ends in a slash, that
an old database can be removed when the flags ask for that, and that a failing entry writes nothing. How
many prepared statements fail is free; what the messages say and which bytes a value has is left out.

Fairness is `WF_vars(Next)`: the system schedules the one thread, and a call of SQLite returns.

## The runs

Bounds were chosen so that each path of the code is taken and so that each run ends in a minute
or two.

| run | asks | bounds and why they are enough |
| --- | --- | --- |
| `heap_base` | do all the invariants of the allocator hold, and does it implement `Allocator`? | a heap of 27 bytes from an unaligned base with headers of 2: up to five blocks, so both merges, both neither, exact fits and splits all happen; requests of 0, of every kind of padding, larger than the heap and overflowing; six successful allocations |
| `heap_shrink` | does a realloc to fewer bytes stay inside its block? (no: finding) | as above with `MayShrink` |
| `lock_base` | do level and semaphore agree, is a call ever refused on a handle that has its semaphore, does every call end? | two handles, two threads: both on one handle, or one on each; either semaphore may not be made; all five levels |
| `lock_reserved` | does `xCheckReservedLock` see another handle's lock? (no: finding) | as `lock_base` |
| `file_base` | do transfers stay where they were asked for, whoever interleaves? | two handles on a name, two threads, two files (one may be unlinked and still open), sizes to 2; blocks of 2 and chunks of 1, so that a size hint starts in the middle of a block or at its start, and ends at the end of the block or before it (the offset is then clamped to the last byte) |
| `file_short` | does `SQLITE_OK` from `xRead` mean all bytes were read? (no: finding) | sizes to 3 |
| `bench_base` | are blocks and connections given back, are fills complete, does every step come closer to the end, does every run end? | every list of two names (14 known, an unknown one, an empty one) that ends in a comma, both builds, all flags but raw; 3 entries in batches of 2, so batches do not divide; two names are enough for whatever one benchmark leaves to the next |
| `bench_raw` | is every block that is freed live when raw data is asked for? (no: finding) | lists of one name |
| `mutex_base` | do mutexes exclude, do locks balance, is none lost on the Quectel port, does every call end? | two static mutexes and a dynamic one, two threads that enter two mutexes at a time: one, another, or the same again; four mutexes of the system, so that a restart finds some left behind and some places used again |
| `mutex_reinit` | is a second `xMutexInit` harmless? (no: finding) | the same without the dynamic one; two threads may start the library |
| `journal_base` | do the file methods give an atomic, durable store? does recovery end, and what alone can set it back? | a database of up to two pages that may grow, two transactions (the second meets what the first left), two crashes (the second during the recovery from the first), one failing call at any place |
| `pure_base` | generator, histogram, text, names against their definitions | modulus 127 with every residue reached; five values on and between four limits, in two histograms; lines of 60 to 199 bytes against a block of 1024; buffers one byte around each boundary |

Bounded numbers are: successful allocations (`MaxMallocs`), file sizes (`MaxSize`, `MaxPages`), transactions, crashes
and failing calls of `Journal` (`MaxTx`, `MaxCrashes`, `MaxFaults`), nested mutexes (`MaxEnters`), values (`MaxValues`),
and the finite sets of handles, threads, names, files, requests and chunk sizes.
`Heap4` runs with `CHECK_DEADLOCK FALSE`: the program exits when an allocation fails, and
the bound on allocations ends behaviours too. `Bench` does because the program ends, `Journal` because the transactions are bounded, and `MCPure`
because its algorithms end. `VfsFile`'s handles,
threads and files are interchangeable in `file_base` (none of its properties is
a liveness property, and the model treats the members of each set alike).

### What the runs found

- **heap_shrink** `pvPortRealloc` writes past the block it has just got when the new size is
  smaller than the old one.
- **lock_reserved** each handle has a semaphore of its own, so `xCheckReservedLock`
  answers "no" while another handle holds a RESERVED lock; `RefusedOnlyWithoutSemaphore` in `lock_base` is the same
  fact from the other side: no lock is ever refused because of another handle.
- **file_short** a read of some but not all bytes returns `SQLITE_OK` and leaves the rest
  of the buffer as it was.
- **bench_raw** `raw_free` leaves the pointer to the array it frees, and the next `start`, or
  `benchmark_fini`, gives it to `free` again. This is the RTOS build; the Windows build does not get that far.
- **mutex_reinit** neither port's `xMutexInit` looks at whether it has run: a second call replaces
  static mutexes that a thread may be inside; `sqlite3.h` asks for a no-op.

Other places where code and comments disagree, which the modules have as the code does them and no run of its own is spent on:

- `quec_unlock` (585) raises NO_LOCK to SHARED, against its comment; see `Disciplined`.
- A handle whose semaphore could not be created (1039) is open, never gets a lock (`SQLITE_BUSY` for ever), and answers "yes" to
  `xCheckReservedLock`.
- `quec_open` (1014) empties a file that exists when the first `ql_fopen` fails; the size hint (650) stops after one byte; see `VfsFile`.
- `_win_mtx_end` (177) stops after the first mutex, an initialisation that fails (157) does not clean up, a dynamic mutex that could not be
  made (198) is returned; see `Mutex`.
- `winTruncate` (426) refuses every call, see `Journal`: `Recovers` holds only with that exception.
- `benchmark_run` (350) uses the last name of the list in place and `stop` frees it: a list that does not end in a comma, like that of
  `.circleci/config.yml`, makes `vPortFree` fail its assertion or `free` undefined. The flags of `bench_base` therefore end in a comma.
- The 100K benchmarks of the default list copy values of 100000 bytes from 10 KB of data (`random.c` 80, 118); the assertion that objects is compiled
  out by `config.h`. Not in a module: it takes one call and no state.

## The proofs

`tlapm` proves, for every value of the constants that satisfies the assumptions, the
theorems below. They rest on nothing else.

**Heap4Proofs** — assumptions `HeapAssumption` (constants are numbers of the right kind),
`StructAssumption` (the header's size is a multiple of the alignment, as `xHeapStructSize` rounds it) and `RoomAssumption` (the array has room for one block and `pxEnd`, and ends below
the allocated bit; the code relies on both without testing them). The inductive invariant `IInv` joins
`TypeOK`, `BlocksTile`, `Coalesced`, `LiveFits`, `FreeAccounting`, `CallAccounting` with two
facts none of them says: before the first call the heap is empty, and the free list is
strictly increasing with each block a whole gap below the next. Without the last, a free could
insert at the wrong place and merging could swallow a live block, so no single conjunct is inductive. The
argument is by operator: `InsertedAt` keeps the partition and restores coalescing whichever of the
four merges happens; `Taken` and `Split` keep everything but "the rest is not yet
on the list", which `Inserted` repairs; `Malloc`, `Free` and `Realloc` are compositions of
these. From it: each invariant of `heap_base`, alignment included (every block's address and size is a multiple of it, which the splits preserve),
the low-water mark as an
action property, that an emptied heap is one block again, that statistics are safe unless nothing is free, and, when
callers do not shrink blocks (`~MayShrink`), `NoOverrun` and the refinement of `Allocator`.

**VfsLockProofs** — assumptions `NoThreadAssumption`, `DisciplinedAssumption`; all theorems for `Disciplined`. `IInv` adds to the types what each thread in
the middle of a call knows (`InMutex`, `MidCallState`): it owns the mutex of its
handle, the handle is open and has a semaphore, and semaphore and level have the values its step left; an answer that refuses is on a handle without one. For a handle on which
nobody is in the middle of a call `AtRestState` says what `SemaphoreFollowsLock` does.
Two threads in the middle of a call are on different handles, which makes the steps
commute.

**VfsFileProofs** — assumptions `ThreadsAssumption`, `SizesAssumption`, `FlagsAssumption`,
`NoneAssumption`. `IInv` is `TypeOK`, `SeekHolds`, and `Apart`: two threads that are
both in a call on a handle are on different ones. `SeekHolds` is what carries over the gap between
seek and transfer; the action properties follow from it step by step. `HintsExtend` needs also what a hint
knows from its `ql_fsize` on (`HintsPlaced`): that the size it wants is above the one it read, and that its offset is where the first block or the file is to end.
For `ReadsReturnTheFile` the number of bytes that the file system returns is any (`GotBytes`).

**MutexProofs** — assumption `MutexAssumption`; all but the types for `~Concurrent`. The invariant says that at most one thread
is in a loop of the port and then nobody is inside anything, that two structures in use never share a mutex of the
system, that what a thread waits for is still its structure's mutex, and that locks balance; exclusion follows from
the balance, since a mutex has one owner. `NoMutexLost` adds which table entries have been made, round by round, as
long as nothing failed.

**JournalProofs** — assumptions `JournalAssumption` and `BlocksAssumption` (a block nobody wrote and a torn one are told from
headers and records: the header by its magic, a record by its checksum). The invariant says that, while no failed sync is
hidden, there is a committed content `c` the two files stand for: `State(c)`. Either the database is `c` and on the medium (`Clean`), or
the journal is on the medium and has every page in which a crash could leave the database different from `c` (`Armed`).
Which of the two holds goes by step: `SyncCount` turns `Clean` into `Armed`, since by then every page that will change has its record; the first
page is written only then; `CommitTx` and the end of a playback turn `Armed` into `Clean`. What makes the time in between safe
is `Harmless`: any header and any records that a crash may leave together are of `c`, because records of an older journal carry another nonce. So
the pages of a crash are those of `c` or are played back (`CrashKeeps`), also when the crash comes in the middle of a
playback. A header that survives implies the directory entry (`NoEntry`), else a playback could be missed. From it: the types,
`ReadyIsCommitted`, and the refinement of `AtomicStore`, for every size of database and any number of transactions, crashes and failing calls. The
sync of the records before the count (`SyncRecords`) is not needed for any of this: the nonce, new in every transaction of the model (SQLite draws it at random), alone protects the playback.
`SetBackOnlyByFaults` is the safety half of `Recovers`: the number of stages and of rounds left (`StagesLeft`, `RoundsLeft`) is natural and goes down with each step,
but for a crash, a failing call, a new transaction and the refusing `winTruncate`. The loop over the pages is the hard part: whichever page is
written, in whatever order, the set `Unwritten` loses it and no other page joins (`PageIsOneLess`).

**BenchProofs** — assumptions `FlagsAssumption`, `SizesAssumption`. `IInv` joins `TypeOK` with
four parts, one for each thing that is carried from step to step. `Place`: past the dispatch the name is a known one. `Ownership`:
what every pointer refers to at each place, and that the lost names are the unknown ones
behind us. `Connection`: a database is open exactly outside of `Open` and `Reopen`, and statements are
prepared only in the loops, hence a close never meets one. `Progress`: as
long as nothing failed, `done_` is the number of entries done and the rows are the keys below it,
and a transaction is open exactly inside a batch. `OneConnection` needs `Connection` because
`sqlite3_close` answers by what is prepared; `FillsAreComplete` needs the counts in the middle of a batch.
From it: every invariant of `bench_base`; for `FreesAreLive` the theorem has the hypothesis `Careful`, no raw data and a last name
that is not known, which `bench_raw` shows to be needed for the raw data.
`RunIsFinite` proves the safety half of `Terminates`: names, place within the round of a name, entries and the rest of the batch are natural numbers,
and every step lowers them lexicographically (`ComesCloser`), so no behaviour has infinitely many steps. It needs two facts
of its own (`Loops`): inside the loops there are entries, and inside a batch there is one left. That some step is always
possible before the end, and taken, is what `Terminates` adds; this is checked by TLC.

**HistogramProofs** — assumptions `HistogramAssumption` (the limits increase and the last is above every value) and, for the text,
`TextAssumption` (two lines and the dashes fit the first block, and so do the marks; in the code 2 * 199 + 55 and 21 of 1024). The sums of the
model are functions by recursion over positions. What holds of them for every length is proved with the least-number
principle, which the well-foundedness of `<` on the naturals gives (`LeastNumber`, `Induction` over a set of naturals): that the recursion has a solution,
and only one (`SumsExist`, `SumsUnique`), what it does to `Append` and to a concatenation (`SumOfAppend`, `SumOfConcat`), and that the
running sum of `percentile` at a bucket is the number of values below its limit (`RunningSum`).
Counts are cardinalities of sets of places (`Places`, `Between`), for which appending adds one place, a concatenation
shifts the places of the second list behind those of the first, and an interval splits at a limit.
The invariant `Counted` is stronger than `CountsValues`: it also says what stands for the extremes of a histogram without values,
since adding to and merging with an empty one uses those, and that each place is in one bucket only (`BucketIsUnique`) keeps the counts apart. `MedianNear`
follows from it without a further invariant: up to the true median there are at least half of the values and before it less than half, so the sum reaches the threshold
in exactly the bucket of the median (`MedianBucketIsRight`), the part of the threshold that falls into that bucket is positive and at most its count,
and the interpolation stays between its limits (`WithinBucket`).
For the text, `TextInv` knows what has been printed at each of the first three places. Everything later is tested for its own length and is
shorter than the first block, so doubling once is enough; the dashes are tested with the length of the line before them and fit because of what the two
lines in front leave of the first block.

**PureProofs** — of `Random`, under `RandomAssumption` and `PrimeAssumption` (no product is a multiple of the modulus, which holds because
2^31 - 1 is a prime). With p = W q + r, W = M + 1, the fold q + r differs from p by the multiple M q of M and is below 2 M, hence one
subtraction makes it the remainder. Also that the text stays in its block for every ratio whose copies fill a piece.
Of `TempName`, under `TempAssumption`. The invariant: none of the directories before the current one can be used.

Every invariant and every action property of the passing runs is thus proved, and both refinements. Only model-checked: `CallsFinish` of both
modules, `Terminates` and `Recovers`, which are liveness under fairness and out of the prover's reach (that the measures behind
the last two go down is proved); and the violations, which are statements
about single behaviours.

## Not modelled, and why

- Three files make up 37,000 of the repository's 43,000 lines: `shell.c`, `sqlite3.h` and `sqlite3ext.h`. They are SQLite's, unchanged; the shell is
  not called by either program, and the headers are declarations. What they promise or demand of the port is quoted where a module
  relies on it. The share of the whole that the modules cover is small for this reason.
- `os_win.c` repeats `os_quec_rtos.c` over the C library. Where the two differ in what they do, `Mutex` and `Journal` have both; the locking and the
  transfers are the same code, and a second copy of `VfsLock` or `VfsFile` would say nothing new.
- `xFileSize` and the remaining file controls only read. `xFetch` is not called, since `SQLITE_FCNTL_MMAP_SIZE` is refused.
- Opening read-only: `ql_fopen` with "rb" is the path of `Open` whose writes all fail.
- `sqlite3_demo.c` and `main.c`: fixed sequences of SQL statements, and the shim that hands `heap_4` to SQLite one to one.
- Formatting of names and of the report; the bytes of a value (`rand_gen_generate`); the clock; the random seed; the average and the standard deviation.
