------------------------------- MODULE Mutex -------------------------------
(***************************************************************************)
(* The mutex methods that port/os_quec_rtos.c and port/os_win.c give to    *)
(* SQLite: xMutexInit, xMutexEnd, xMutexAlloc, xMutexFree, xMutexEnter,    *)
(* xMutexTry and xMutexLeave, over the mutexes of the operating system.    *)
(* A sqlite3_mutex is a structure that holds a pointer to a mutex of the   *)
(* system: the static ones lie in a table of 12, the others come from      *)
(* sqlite3_malloc.  The two ports differ in how xMutexEnd reads the result *)
(* of a deletion; "port" says which one runs.                              *)
(*                                                                         *)
(* The system's mutexes and the callers (sqlite3_initialize,               *)
(* sqlite3_shutdown and the threads that use the library) are external:    *)
(* the system may refuse to create or delete a mutex; a lock, an unlock    *)
(* and a deletion of a mutex that does not exist fail, and the ports       *)
(* ignore that; a thread may lock a mutex again that it has.               *)
(***************************************************************************)
EXTENDS Naturals, FiniteSets

CONSTANTS
  NStatic,      \* length of _static_mutex: 12 in the code
  NDynamic,     \* structures sqlite3_malloc can give out at a time
  Objects,      \* mutexes of the operating system
  Null,         \* a pointer to none of them
  Threads,
  NoThread,
  MaxEnters,    \* mutexes a thread enters before it has left them all
  Concurrent    \* may two threads be in sqlite3_initialize at the same time?

ASSUME MutexAssumption ==
  /\ NStatic \in Nat \ {0} /\ NDynamic \in Nat /\ MaxEnters \in Nat
  /\ Null \notin Objects /\ NoThread \notin Threads
  /\ Concurrent \in BOOLEAN

VARIABLES
  port,         \* "quec" or "win"
  ptr,          \* structure -> its mutex of the system
  alive,        \* the mutexes of the system that exist
  owner,        \* mutex of the system -> the thread that has it
  depth,        \* mutex of the system -> how often its owner locked it
  allocated,    \* the structures that came from sqlite3_malloc
  call,         \* thread -> where it is, at which structure, with which pointer
  nest,         \* thread -> structure -> how often the thread is inside
  budget,       \* thread -> mutexes it will still enter
  inited,       \* isMutexInit: xMutexInit has succeeded, xMutexEnd not begun
  ready,        \* isInit: the library may be used
  starting,     \* the threads in sqlite3_initialize
  failed        \* xMutexInit, a deletion or the rest of a start has failed

system == <<alive, owner, depth>>
library == <<inited, ready, starting>>
vars == <<port, ptr, system, allocated, call, nest, budget, library, failed>>

Statics == 1..NStatic
Structs == 1..(NStatic + NDynamic)
Dynamics == Structs \ Statics
Steps == {"idle", "creating", "waiting", "ending"}

At(t, step) == call[t].step = step
Goes(t, step, s, o) == call' = [call EXCEPT ![t] = [step |-> step, s |-> s, o |-> o]]
Idle(t) == Goes(t, "idle", 1, Null)
Outside(t) == \A s \in Structs : nest[t][s] = 0
Quiet == starting = {} /\ \A t \in Threads : At(t, "idle") /\ Outside(t)

Init ==
  /\ port \in {"quec", "win"}
  /\ ptr = [s \in Structs |-> Null]
  /\ alive = {}
  /\ owner = [o \in Objects |-> NoThread]
  /\ depth = [o \in Objects |-> 0]
  /\ allocated = {}
  /\ call = [t \in Threads |-> [step |-> "idle", s |-> 1, o |-> Null]]
  /\ nest = [t \in Threads |-> [s \in Structs |-> 0]]
  /\ budget = [t \in Threads |-> MaxEnters]
  /\ inited = FALSE /\ ready = FALSE /\ starting = {}
  /\ failed = FALSE
-----------------------------------------------------------------------------
(* The system.  *)

\* ql_rtos_mutex_create, CreateMutex.
Create(s) ==
  \E o \in Objects \ alive :
    /\ alive' = alive \cup {o}
    /\ ptr' = [ptr EXCEPT ![s] = o]
    /\ owner' = [owner EXCEPT ![o] = NoThread]
    /\ depth' = [depth EXCEPT ![o] = 0]

\* A create that fails is assumed to leave NULL in the structure: CreateMutex returns
\* it, and of ql_rtos_mutex_create the port takes it for granted (it looks at the
\* pointer and not at the result).
CreateFails(s) == ptr' = [ptr EXCEPT ![s] = Null] /\ UNCHANGED system

\* ql_rtos_mutex_delete, CloseHandle.
Delete(o) == o \in alive /\ alive' = alive \ {o} /\ UNCHANGED <<owner, depth>>

Takes(t, o) ==
  /\ o \in alive /\ owner[o] \in {t, NoThread}
  /\ owner' = [owner EXCEPT ![o] = t]
  /\ depth' = [depth EXCEPT ![o] = @ + 1]
  /\ UNCHANGED alive

Gives(t, o) ==
  /\ o \in alive /\ owner[o] = t
  /\ depth' = [depth EXCEPT ![o] = @ - 1]
  /\ owner' = [owner EXCEPT ![o] = IF depth[o] = 1 THEN NoThread ELSE t]
  /\ UNCHANGED alive
-----------------------------------------------------------------------------
(* xMutexInit, in sqlite3_initialize.  *)

BeginStart(t) ==
  /\ At(t, "idle") /\ t \notin starting /\ Outside(t) /\ ~ready
  /\ \A u \in Threads : ~At(u, "ending")
  /\ Concurrent \/ Quiet
  /\ starting' = starting \cup {t}
  /\ Goes(t, "creating", 1, Null)
  /\ UNCHANGED <<port, ptr, system, allocated, nest, budget, inited, ready, failed>>

\* A mutant: the loop is bounded by the size of the table in bytes.
CreateStaticPastEnd(t) ==
  /\ At(t, "creating")
  /\ Create(call[t].s) \/ CreateFails(call[t].s)
  /\ Goes(t, "creating", call[t].s + 1, Null)
  /\ UNCHANGED <<port, allocated, nest, budget, library, failed>>

\* A mutant: the loop starts again at the first mutex when one has failed.
CreateStaticRetries(t) ==
  /\ At(t, "creating")
  /\ \/ /\ Create(call[t].s)
        /\ IF call[t].s < NStatic
             THEN Goes(t, "creating", call[t].s + 1, Null) /\ UNCHANGED inited
             ELSE Idle(t) /\ inited' = TRUE
        /\ UNCHANGED <<starting, failed>>
     \/ /\ CreateFails(call[t].s)
        /\ Goes(t, "creating", 1, Null) /\ UNCHANGED <<starting, inited>>
        /\ failed' = TRUE
  /\ UNCHANGED <<port, allocated, nest, budget, ready>>

\* One round of the loop of _quec_rtos_mtx_init.  The first mutex that cannot be
\* created ends it, and those before it stay, although an xMutexInit that fails is to
\* clean up after itself (sqlite3.h:7824-7825).
CreateStatic(t) ==
  /\ At(t, "creating")
  /\ \/ /\ Create(call[t].s)
        /\ IF call[t].s < NStatic
             THEN Goes(t, "creating", call[t].s + 1, Null) /\ UNCHANGED inited
             ELSE Idle(t) /\ inited' = TRUE
        /\ UNCHANGED <<starting, failed>>
     \/ /\ CreateFails(call[t].s)
        /\ Idle(t) /\ starting' = starting \ {t} /\ failed' = TRUE
        /\ UNCHANGED inited
  /\ UNCHANGED <<port, allocated, nest, budget, ready>>

\* The rest of sqlite3_initialize succeeds or fails; a failure leaves the static
\* mutexes to the next xMutexInit, or to sqlite3_shutdown.
FinishStart(t) ==
  /\ t \in starting /\ At(t, "idle") /\ Outside(t)
  /\ starting' = starting \ {t}
  /\ \/ ready' = TRUE /\ UNCHANGED failed
     \/ failed' = TRUE /\ UNCHANGED ready
  /\ UNCHANGED <<port, ptr, system, allocated, call, nest, budget, inited>>
-----------------------------------------------------------------------------
(* xMutexEnd, in sqlite3_shutdown: nothing of the library is in use.  *)

BeginEnd(t) ==
  /\ inited /\ Quiet /\ allocated = {}
  /\ inited' = FALSE /\ ready' = FALSE
  /\ Goes(t, "ending", 1, Null)
  /\ UNCHANGED <<port, ptr, system, allocated, nest, budget, starting, failed>>

GoesOn(t) == IF call[t].s < NStatic THEN Goes(t, "ending", call[t].s + 1, Null) ELSE Idle(t)

\* One round of the loop of _quec_rtos_mtx_end; ql_rtos_mutex_delete answers 0
\* when it has deleted the mutex, and anything else ends the loop.
QuecEndStatic(t) ==
  /\ port = "quec" /\ At(t, "ending")
  /\ \/ Delete(ptr[call[t].s]) /\ GoesOn(t) /\ UNCHANGED failed
     \/ failed' = TRUE /\ Idle(t) /\ UNCHANGED system
  /\ UNCHANGED <<port, ptr, allocated, nest, budget, library>>

\* The same loop in _win_mtx_end: CloseHandle answers 0 when it has failed, so the
\* loop ends after the first mutex that it closed, and the others stay although
\* xMutexEnd is to release all (sqlite3.h:7784-7787).
WinEndStatic(t) ==
  /\ port = "win" /\ At(t, "ending")
  /\ \/ Delete(ptr[call[t].s]) /\ Idle(t) /\ UNCHANGED failed
     \/ failed' = TRUE /\ GoesOn(t) /\ UNCHANGED system
  /\ UNCHANGED <<port, ptr, allocated, nest, budget, library>>
-----------------------------------------------------------------------------
(* The other methods.  A static mutex is there for every thread of the       *)
(* library, a dynamic one from xMutexAlloc to xMutexFree.                    *)

\* xMutexAlloc of a static mutex returns its place in the table.
Usable(t, s) == s \in allocated \/ (s \in Statics /\ (ready \/ t \in starting))

\* xMutexAlloc of a dynamic mutex; that the system made none is not noticed, and the
\* structure is returned where sqlite3.h:7676-7678 asks for NULL.
Alloc(t, s) ==
  /\ At(t, "idle") /\ ready /\ s \in Dynamics \ allocated
  /\ allocated' = allocated \cup {s}
  /\ Create(s) \/ CreateFails(s)
  /\ UNCHANGED <<port, call, nest, budget, library, failed>>

\* A mutant: the mutex of the system is not deleted.
FreeStructureOnly(t, s) ==
  /\ At(t, "idle") /\ s \in allocated
  /\ \A u \in Threads : nest[u][s] = 0 /\ ~(At(u, "waiting") /\ call[u].s = s)
  /\ allocated' = allocated \ {s}
  /\ UNCHANGED <<port, ptr, system, call, nest, budget, library, failed>>

\* xMutexFree: the mutex of the system goes with the structure.  The library frees
\* a mutex that no thread is in or waits for.
Free(t, s) ==
  /\ At(t, "idle") /\ s \in allocated
  /\ \A u \in Threads : nest[u][s] = 0 /\ ~(At(u, "waiting") /\ call[u].s = s)
  /\ allocated' = allocated \ {s}
  /\ \/ Delete(ptr[s]) /\ UNCHANGED failed
     \/ failed' = TRUE /\ UNCHANGED system
     \/ ptr[s] = Null /\ UNCHANGED <<system, failed>>
  /\ UNCHANGED <<port, ptr, call, nest, budget, library>>

\* xMutexEnter reads the pointer and then waits for that mutex.  The library enters
\* mutexes in one order, the dynamic ones before the static ones, or again.
Enter(t, s) ==
  /\ At(t, "idle") /\ Usable(t, s) /\ budget[t] > 0
  /\ \A r \in Structs : nest[t][r] > 0 => s <= r
  /\ budget' = [budget EXCEPT ![t] = @ - 1]
  /\ Goes(t, "waiting", s, ptr[s])
  /\ UNCHANGED <<port, ptr, system, allocated, nest, library, failed>>

\* A mutant: the mutex is not waited for.
AcquireAtOnce(t) ==
  /\ At(t, "waiting")
  /\ Takes(t, call[t].o) \/ UNCHANGED system
  /\ nest' = [nest EXCEPT ![t][call[t].s] = @ + 1]
  /\ Idle(t)
  /\ UNCHANGED <<port, ptr, allocated, budget, library, failed>>

\* The wait ends with the mutex, or at once when there is no such mutex; the
\* result is not looked at.
Acquire(t) ==
  /\ At(t, "waiting")
  /\ \/ Takes(t, call[t].o)
     \/ call[t].o \notin alive /\ UNCHANGED system
  /\ nest' = [nest EXCEPT ![t][call[t].s] = @ + 1]
  /\ Idle(t)
  /\ UNCHANGED <<port, ptr, allocated, budget, library, failed>>

\* xMutexTry that answers SQLITE_OK; SQLITE_BUSY changes nothing.
Try(t, s) ==
  /\ At(t, "idle") /\ Usable(t, s) /\ budget[t] > 0
  /\ Takes(t, ptr[s])
  /\ budget' = [budget EXCEPT ![t] = @ - 1]
  /\ nest' = [nest EXCEPT ![t][s] = @ + 1]
  /\ UNCHANGED <<port, ptr, allocated, call, library, failed>>

Left(t, s) ==
  /\ nest' = [nest EXCEPT ![t][s] = @ - 1]
  /\ budget' = IF \A r \in Structs : nest[t][r] = (IF r = s THEN 1 ELSE 0)
                 THEN [budget EXCEPT ![t] = MaxEnters] ELSE budget

\* A mutant: a mutex that was entered twice is not given back.
LeaveOnce(t, s) ==
  /\ At(t, "idle") /\ nest[t][s] > 0
  /\ Left(t, s)
  /\ \/ depth[ptr[s]] = 1 /\ Gives(t, ptr[s])
     \/ depth[ptr[s]] # 1 /\ UNCHANGED system
  /\ UNCHANGED <<port, ptr, allocated, call, library, failed>>

\* xMutexLeave reads the pointer again; the result of the unlock is not looked at.
Leave(t, s) ==
  /\ At(t, "idle") /\ nest[t][s] > 0
  /\ Left(t, s)
  /\ \/ Gives(t, ptr[s])
     \/ ~(ptr[s] \in alive /\ owner[ptr[s]] = t) /\ UNCHANGED system
  /\ UNCHANGED <<port, ptr, allocated, call, library, failed>>

LeaveOne(t) == \E s \in Structs : Leave(t, s)
EndStatic(t) == QuecEndStatic(t) \/ WinEndStatic(t)

Next ==
  \E t \in Threads :
    \/ BeginStart(t) \/ CreateStatic(t) \/ FinishStart(t)
    \/ BeginEnd(t) \/ EndStatic(t)
    \/ Acquire(t)
    \/ \E s \in Structs :
         Alloc(t, s) \/ Free(t, s) \/ Enter(t, s) \/ Try(t, s) \/ Leave(t, s)

\* A thread in a loop of the port runs; the system gives a mutex that is given
\* back again and again to every thread that waits (QL_WAIT_FOREVER, INFINITE);
\* the library enters finitely many mutexes in a call and leaves them all.
Fairness ==
  \A t \in Threads :
    /\ WF_vars(CreateStatic(t)) /\ WF_vars(EndStatic(t))
    /\ SF_vars(Acquire(t)) /\ WF_vars(LeaveOne(t))

Spec == Init /\ [][Next]_vars /\ Fairness
-----------------------------------------------------------------------------
\* Type correctness of the structures, the system's mutexes and the calls.
TypeOK ==
  /\ port \in {"quec", "win"}
  /\ ptr \in [Structs -> Objects \cup {Null}]
  /\ alive \subseteq Objects
  /\ owner \in [Objects -> Threads \cup {NoThread}]
  /\ depth \in [Objects -> Nat]
  /\ allocated \subseteq Dynamics
  /\ call \in [Threads -> [step : Steps, s : Structs, o : Objects \cup {Null}]]
  /\ nest \in [Threads -> [Structs -> Nat]]
  /\ budget \in [Threads -> Nat]
  /\ inited \in BOOLEAN /\ ready \in BOOLEAN /\ starting \subseteq Threads
  /\ failed \in BOOLEAN

\* The structures whose mutex has been made and not yet deleted.
Made(s) ==
  \/ s \in allocated /\ ptr[s] # Null
  \/ s \in Statics /\ inited
  \/ \E t \in Threads : s \in Statics /\ At(t, "creating") /\ s < call[t].s
  \/ \E t \in Threads : s \in Statics /\ At(t, "ending") /\ s >= call[t].s

InUse(s) == ptr[s] # Null /\ s \in allocated \cup (IF inited THEN Statics ELSE {})

\* A mutex that could be created keeps threads apart, whatever they enter, try,
\* enter again and leave, and through every restart of the library, although
\* xMutexEnd leaves its pointers in the table and the system may give a mutex's
\* place to another one.
Exclusion ==
  \A s \in Structs : ptr[s] # Null =>
    \A t, u \in Threads : nest[t][s] > 0 /\ nest[u][s] > 0 => t = u

\* The system has a mutex locked for a thread exactly as often as the thread is
\* inside the structure: nothing stays locked when all are outside, which the
\* ports, who ignore the result of every lock and unlock, would not notice.
LocksBalance ==
  \A s \in Structs, t \in Threads : InUse(s) =>
    nest[t][s] = (IF owner[ptr[s]] = t THEN depth[ptr[s]] ELSE 0)

\* On the Quectel port no mutex of the system is lost: as long as nothing has
\* failed, those that exist are those of the structures that are in use, so a
\* shutdown leaves none.  It is not so on the Windows port, whose every shutdown
\* leaves static mutexes (WinEndStatic).
NothingLost ==
  port = "quec" /\ ~failed => alive = {ptr[s] : s \in {r \in Structs : Made(r)}}

\* Every xMutexInit, xMutexEnd and xMutexEnter comes to an end.
CallsFinish == \A t \in Threads : ~At(t, "idle") ~> At(t, "idle")

\* "Second and subsequent calls to xMutexInit() must be no-ops"
\* (sqlite3.h:7812-7815): a mutex that a thread is inside keeps its mutex of the
\* system.
InitKeepsMutexes ==
  [][\A s \in Structs : (\E t \in Threads : nest[t][s] > 0) => ptr'[s] = ptr[s]]_vars
=============================================================================
