---------------------------- MODULE MutexProofs ----------------------------
(* One thread at a time starts or stops the library; then the mutexes keep   *)
(* threads apart.                                                            *)
EXTENDS Mutex, TLAPS

Loops(t) == At(t, "creating") \/ At(t, "ending")

\* While a thread is in a loop of xMutexInit or xMutexEnd nobody else is in the
\* library; who may use it, and when.
Phases ==
  /\ \A t, u \in starting : t = u
  /\ starting # {} => ~ready
  /\ ready => inited
  /\ inited /\ ~failed => ready \/ starting # {}
  /\ ~ready => allocated = {}
  /\ \A t \in Threads :
       /\ At(t, "creating") => t \in starting
       /\ At(t, "ending") => ~inited /\ ~ready /\ starting = {}
       /\ Loops(t) => \A u \in Threads : Outside(u) /\ (u # t => At(u, "idle"))
       /\ t \in starting /\ ~At(t, "creating") => inited
       /\ At(t, "creating") /\ ~failed => ~inited
       /\ At(t, "ending") /\ ~failed /\ port = "win" => call[t].s = 1

\* The structures that have a mutex of their own, unless it could not be made.
Taken(s) ==
  \/ s \in allocated
  \/ s \in Statics /\ inited
  \/ s \in Statics /\ \E t \in Threads : At(t, "creating") /\ s < call[t].s
  \/ s \in Statics /\ \E t \in Threads : At(t, "ending") /\ s >= call[t].s

\* They have mutexes that exist, each another one.
Pointers ==
  /\ \A s \in Structs : Taken(s) /\ ptr[s] # Null => ptr[s] \in alive
  /\ \A r, s \in Structs : Taken(r) /\ Taken(s) /\ ptr[r] # Null /\ ptr[r] = ptr[s] => r = s

Balanced(s, t) == nest[t][s] = (IF owner[ptr[s]] = t THEN depth[ptr[s]] ELSE 0)

\* A mutex that is free is not locked.
FreeUnlocked == \A o \in alive : owner[o] = NoThread <=> depth[o] = 0

\* How often a thread is inside a structure is how often its mutex is locked for the
\* thread; nobody is at the other structures.
Locks ==
  \A s \in Structs, t \in Threads :
    /\ Taken(s) /\ ptr[s] # Null => Balanced(s, t)
    /\ ~Taken(s) => nest[t][s] = 0 /\ ~(At(t, "waiting") /\ call[t].s = s)
    /\ At(t, "waiting") /\ call[t].s = s => call[t].o = ptr[s]

\* Before the first failure the static mutexes have been made and, on the Quectel
\* port, every mutex of the system is one of a structure's.
Kept ==
  ~failed =>
    /\ port = "quec" => \A o \in alive : \E s \in Structs : Taken(s) /\ ptr[s] = o
    /\ \A s \in Statics : Taken(s) => ptr[s] # Null

\* In a loop the place in the table is one of its places.
InTable == \A t \in Threads : Loops(t) => call[t].s \in Statics

\* The inductive invariants: of the types, for any callers, and of the rest, when
\* one thread at a time is in sqlite3_initialize.
TypeInv == TypeOK /\ FreeUnlocked /\ InTable
IInv == TypeInv /\ Phases /\ Pointers /\ Locks /\ Kept
-----------------------------------------------------------------------------
LEMMA StaticsInStructs ==
  /\ 1 \in Statics /\ 1 \in Structs
  /\ \A s \in Statics : s \in Structs /\ (s < NStatic => s + 1 \in Statics)
BY MutexAssumption DEF Statics, Structs

LEMMA InitTypes == Init => TypeInv
<1> SUFFICES ASSUME Init PROVE TypeInv
  OBVIOUS
<1>1. TypeOK
  BY MutexAssumption, StaticsInStructs DEF Init, TypeOK, Steps
<1>2. FreeUnlocked
  BY DEF Init, FreeUnlocked
<1>3. InTable
  BY DEF Init, InTable, Loops, At
<1> QED BY <1>1, <1>2, <1>3 DEF TypeInv

\* A round of a loop ends it or goes to the next place.
LEMMA LoopTypes ==
  ASSUME TypeInv, NEW t \in Threads, NEW step \in {"creating", "ending"},
         call[t].s \in Statics,
         (call[t].s < NStatic /\ Goes(t, step, call[t].s + 1, Null)) \/ Idle(t)
  PROVE  call' \in [Threads -> [step : Steps, s : Structs, o : Objects \cup {Null}]] /\ InTable'
<1>1. PICK s \in Structs, new \in Steps :
        /\ call' = [call EXCEPT ![t] = [step |-> new, s |-> s, o |-> Null]]
        /\ new \in {"creating", "ending"} => s \in Statics
  BY StaticsInStructs DEF Goes, Idle, Steps
<1>2. call \in [Threads -> [step : Steps, s : Structs, o : Objects \cup {Null}]]
  BY DEF TypeInv, TypeOK
<1>3. call' \in [Threads -> [step : Steps, s : Structs, o : Objects \cup {Null}]]
  BY <1>1, <1>2
<1>4. InTable'
  BY <1>1, <1>2 DEF TypeInv, InTable, Loops, At
<1> QED BY <1>3, <1>4

LEMMA CreateTypes ==
  ASSUME TypeInv, NEW s \in Structs, Create(s) \/ CreateFails(s)
  PROVE  /\ ptr' \in [Structs -> Objects \cup {Null}] /\ alive' \subseteq Objects
         /\ owner' \in [Objects -> Threads \cup {NoThread}] /\ depth' \in [Objects -> Nat]
         /\ FreeUnlocked'
<1>1. CASE Create(s)
  BY <1>1 DEF Create, TypeInv, TypeOK, FreeUnlocked
<1>2. CASE CreateFails(s)
  BY <1>2 DEF CreateFails, TypeInv, TypeOK, FreeUnlocked, system
<1> QED BY <1>1, <1>2

LEMMA DeleteTypes ==
  ASSUME TypeInv, NEW o, Delete(o) \/ UNCHANGED system
  PROVE  /\ alive' \subseteq Objects
         /\ owner' \in [Objects -> Threads \cup {NoThread}] /\ depth' \in [Objects -> Nat]
         /\ FreeUnlocked'
BY DEF Delete, system, TypeInv, TypeOK, FreeUnlocked

LEMMA TakesTypes ==
  ASSUME TypeInv, NEW t \in Threads, NEW o, Takes(t, o) \/ Gives(t, o) \/ UNCHANGED system
  PROVE  /\ alive' \subseteq Objects
         /\ owner' \in [Objects -> Threads \cup {NoThread}] /\ depth' \in [Objects -> Nat]
         /\ FreeUnlocked'
<1>0. t # NoThread
  BY MutexAssumption
<1>1. CASE Takes(t, o)
  BY <1>0, <1>1 DEF Takes, TypeInv, TypeOK, FreeUnlocked
<1>2. CASE Gives(t, o)
  <2>1. o \in Objects /\ o \in alive /\ depth[o] \in Nat /\ depth[o] # 0 /\ owner[o] = t
    BY <1>0, <1>2 DEF Gives, TypeInv, TypeOK, FreeUnlocked
  <2>2. depth[o] - 1 \in Nat /\ (depth[o] - 1 = 0 <=> depth[o] = 1)
    BY <2>1
  <2>3. /\ depth' = [depth EXCEPT ![o] = depth[o] - 1] /\ alive' = alive
        /\ owner' = [owner EXCEPT ![o] = IF depth[o] = 1 THEN NoThread ELSE t]
    BY <1>2 DEF Gives
  <2> QED BY <1>0, <2>1, <2>2, <2>3 DEF TypeInv, TypeOK, FreeUnlocked
<1>3. CASE UNCHANGED system
  BY <1>3 DEF system, TypeInv, TypeOK, FreeUnlocked
<1> QED BY <1>1, <1>2, <1>3

LEMMA TypesStep ==
  ASSUME TypeInv, [Next]_vars
  PROVE  TypeInv'
<1> USE StaticsInStructs DEF Steps
<1>0. /\ \A t \in Threads : call[t] \in [step : Steps, s : Structs, o : Objects \cup {Null}]
      /\ \A t \in Threads, s \in Structs : nest[t][s] \in Nat
      /\ \A t \in Threads : budget[t] \in Nat /\ MaxEnters \in Nat
  BY MutexAssumption DEF TypeInv, TypeOK
<1>1. ASSUME NEW t \in Threads, BeginStart(t) PROVE TypeInv'
  BY <1>0, <1>1 DEF BeginStart, Goes, system, TypeInv, TypeOK, FreeUnlocked, InTable, Loops, At
<1>2. ASSUME NEW t \in Threads, CreateStatic(t) PROVE TypeInv'
  <2>1. call[t].s \in Statics
    BY <1>2 DEF CreateStatic, TypeInv, InTable, Loops
  <2>2. Create(call[t].s) \/ CreateFails(call[t].s)
    BY <1>2 DEF CreateStatic
  <2>3. /\ ptr' \in [Structs -> Objects \cup {Null}] /\ alive' \subseteq Objects
        /\ owner' \in [Objects -> Threads \cup {NoThread}] /\ depth' \in [Objects -> Nat]
        /\ FreeUnlocked'
    BY <2>1, <2>2, CreateTypes
  <2>4. (call[t].s < NStatic /\ Goes(t, "creating", call[t].s + 1, Null)) \/ Idle(t)
    BY <1>2 DEF CreateStatic
  <2>5. call' \in [Threads -> [step : Steps, s : Structs, o : Objects \cup {Null}]] /\ InTable'
    BY <2>1, <2>4, LoopTypes
  <2> QED BY <1>2, <2>3, <2>5 DEF CreateStatic, TypeInv, TypeOK
<1>3. ASSUME NEW t \in Threads, FinishStart(t) PROVE TypeInv'
  BY <1>0, <1>3 DEF FinishStart, system, TypeInv, TypeOK, FreeUnlocked, InTable, Loops, At
<1>4. ASSUME NEW t \in Threads, BeginEnd(t) PROVE TypeInv'
  BY <1>0, <1>4 DEF BeginEnd, Goes, system, TypeInv, TypeOK, FreeUnlocked, InTable, Loops, At
<1>5. ASSUME NEW t \in Threads, EndStatic(t) PROVE TypeInv'
  <2>1. call[t].s \in Statics
    BY <1>5 DEF EndStatic, QuecEndStatic, WinEndStatic, TypeInv, InTable, Loops
  <2>2. Delete(ptr[call[t].s]) \/ UNCHANGED system
    BY <1>5 DEF EndStatic, QuecEndStatic, WinEndStatic
  <2>3. /\ alive' \subseteq Objects
        /\ owner' \in [Objects -> Threads \cup {NoThread}] /\ depth' \in [Objects -> Nat]
        /\ FreeUnlocked'
    BY <2>2, DeleteTypes
  <2>4. (call[t].s < NStatic /\ Goes(t, "ending", call[t].s + 1, Null)) \/ Idle(t)
    BY <1>5 DEF EndStatic, QuecEndStatic, WinEndStatic, GoesOn
  <2>5. call' \in [Threads -> [step : Steps, s : Structs, o : Objects \cup {Null}]] /\ InTable'
    BY <2>1, <2>4, LoopTypes
  <2>6. /\ UNCHANGED <<port, ptr, allocated, nest, budget, library>>
        /\ failed' \in BOOLEAN
    BY <1>5 DEF EndStatic, QuecEndStatic, WinEndStatic, TypeInv, TypeOK
  <2> QED BY <2>3, <2>5, <2>6 DEF TypeInv, TypeOK, library
<1>6. ASSUME NEW t \in Threads, Acquire(t) PROVE TypeInv'
  <2>1. Takes(t, call[t].o) \/ UNCHANGED system
    BY <1>6 DEF Acquire
  <2>2. /\ alive' \subseteq Objects
        /\ owner' \in [Objects -> Threads \cup {NoThread}] /\ depth' \in [Objects -> Nat]
        /\ FreeUnlocked'
    BY <2>1, TakesTypes
  <2>3. call' \in [Threads -> [step : Steps, s : Structs, o : Objects \cup {Null}]] /\ InTable'
    BY <1>0, <1>6 DEF Acquire, Goes, Idle, TypeInv, TypeOK, InTable, Loops, At
  <2>4. nest' \in [Threads -> [Structs -> Nat]]
    BY <1>0, <1>6 DEF Acquire, TypeInv, TypeOK
  <2> QED BY <1>6, <2>2, <2>3, <2>4 DEF Acquire, library, TypeInv, TypeOK
<1>7. ASSUME NEW t \in Threads, NEW s \in Structs, Alloc(t, s) PROVE TypeInv'
  <2>1. /\ ptr' \in [Structs -> Objects \cup {Null}] /\ alive' \subseteq Objects
        /\ owner' \in [Objects -> Threads \cup {NoThread}] /\ depth' \in [Objects -> Nat]
        /\ FreeUnlocked'
    BY <1>7, CreateTypes DEF Alloc
  <2> QED BY <1>7, <2>1 DEF Alloc, library, TypeInv, TypeOK, InTable, Loops, At
<1>8. ASSUME NEW t \in Threads, NEW s \in Structs, Free(t, s) PROVE TypeInv'
  <2>1. Delete(ptr[s]) \/ UNCHANGED system
    BY <1>8 DEF Free
  <2>2. /\ alive' \subseteq Objects
        /\ owner' \in [Objects -> Threads \cup {NoThread}] /\ depth' \in [Objects -> Nat]
        /\ FreeUnlocked'
    BY <2>1, DeleteTypes
  <2> QED BY <1>8, <2>2 DEF Free, library, TypeInv, TypeOK, InTable, Loops, At
<1>9. ASSUME NEW t \in Threads, NEW s \in Structs, Enter(t, s) PROVE TypeInv'
  <2>1. budget' \in [Threads -> Nat]
    BY <1>0, <1>9 DEF Enter, TypeInv, TypeOK
  <2>2. call' \in [Threads -> [step : Steps, s : Structs, o : Objects \cup {Null}]] /\ InTable'
    BY <1>0, <1>9 DEF Enter, Goes, TypeInv, TypeOK, InTable, Loops, At
  <2> QED BY <1>9, <2>1, <2>2 DEF Enter, library, system, TypeInv, TypeOK, FreeUnlocked
<1>10. ASSUME NEW t \in Threads, NEW s \in Structs, Try(t, s) PROVE TypeInv'
  <2>1. Takes(t, ptr[s])
    BY <1>10 DEF Try
  <2>2. /\ alive' \subseteq Objects
        /\ owner' \in [Objects -> Threads \cup {NoThread}] /\ depth' \in [Objects -> Nat]
        /\ FreeUnlocked'
    BY <2>1, TakesTypes
  <2>3. budget' \in [Threads -> Nat] /\ nest' \in [Threads -> [Structs -> Nat]]
    BY <1>0, <1>10 DEF Try, TypeInv, TypeOK
  <2> QED BY <1>10, <2>2, <2>3 DEF Try, library, TypeInv, TypeOK, InTable, Loops, At
<1>11. ASSUME NEW t \in Threads, NEW s \in Structs, Leave(t, s) PROVE TypeInv'
  <2>1. Gives(t, ptr[s]) \/ UNCHANGED system
    BY <1>11 DEF Leave
  <2>2. /\ alive' \subseteq Objects
        /\ owner' \in [Objects -> Threads \cup {NoThread}] /\ depth' \in [Objects -> Nat]
        /\ FreeUnlocked'
    BY <2>1, TakesTypes
  <2>3. budget' \in [Threads -> Nat] /\ nest' \in [Threads -> [Structs -> Nat]]
    BY <1>0, <1>11 DEF Leave, Left, TypeInv, TypeOK
  <2> QED BY <1>11, <2>2, <2>3 DEF Leave, library, TypeInv, TypeOK, InTable, Loops, At
<1>12. CASE UNCHANGED vars
  BY <1>12 DEF vars, system, library, TypeInv, TypeOK, FreeUnlocked, InTable, Loops, At
<1> QED BY <1>1, <1>2, <1>3, <1>4, <1>5, <1>6, <1>7, <1>8, <1>9, <1>10, <1>11, <1>12 DEF Next

\* Types, for any number of structures and threads, also when two threads are in
\* sqlite3_initialize at the same time: the depth of a lock never falls below zero.
THEOREM TypeCorrect == Spec => []TypeOK
<1>1. TypeInv /\ [Next]_vars => TypeInv'
  BY TypesStep
<1>2. TypeInv => TypeOK
  BY DEF TypeInv
<1> QED BY InitTypes, <1>1, <1>2, PTL DEF Spec
-----------------------------------------------------------------------------
LEMMA InitInvariant == Init => IInv
<1> SUFFICES ASSUME Init PROVE IInv
  OBVIOUS
<1>0. \A s : ~Taken(s)
  BY DEF Init, Taken, At
<1>1. Phases
  BY DEF Init, Phases, Loops, At
<1>2. Pointers
  BY <1>0 DEF Pointers
<1>3. Locks
  BY <1>0 DEF Init, Locks, At
<1>4. Kept
  BY <1>0 DEF Init, Kept, At
<1> QED BY InitTypes, <1>1, <1>2, <1>3, <1>4 DEF IInv

LEMMA TypeFacts ==
  ASSUME TypeInv
  PROVE  /\ \A t \in Threads : call[t].step \in Steps /\ call[t].s \in Structs
         /\ \A t \in Threads, s \in Structs : nest[t][s] \in Nat
         /\ \A s \in Structs : ptr[s] \in Objects \cup {Null}
         /\ alive \subseteq Objects /\ Null \notin Objects
         /\ \A o \in alive : depth[o] \in Nat /\ owner[o] \in Threads \cup {NoThread}
         /\ NoThread \notin Threads
         /\ Statics \subseteq Structs /\ Dynamics \cap Statics = {} /\ allocated \subseteq Dynamics
         /\ ptr \in [Structs -> Objects \cup {Null}]
         /\ owner \in [Objects -> Threads \cup {NoThread}] /\ depth \in [Objects -> Nat]
         /\ call \in [Threads -> [step : Steps, s : Structs, o : Objects \cup {Null}]]
         /\ nest \in [Threads -> [Structs -> Nat]]
         /\ starting \subseteq Threads
BY MutexAssumption, StaticsInStructs DEF TypeInv, TypeOK, Dynamics

\* A thread inside a mutex, waiting for one or free to use one is proof that no
\* thread is in a loop.
LEMMA NoLoops ==
  ASSUME IInv, NEW t \in Threads,
         \/ \E s \in Structs : nest[t][s] > 0
         \/ At(t, "waiting")
         \/ At(t, "idle") /\ (t \in starting \/ ready)
         \/ ready
  PROVE  \A u \in Threads : ~Loops(u)
<1> SUFFICES ASSUME NEW u \in Threads, Loops(u) PROVE FALSE
  OBVIOUS
<1>1. /\ \A v \in Threads : Outside(v) /\ (v # u => At(v, "idle"))
      /\ At(u, "creating") => u \in starting
      /\ At(u, "ending") => ~ready /\ starting = {}
      /\ starting # {} => ~ready
      /\ \A v, w \in starting : v = w
  BY DEF IInv, Phases
<1>2. \A s \in Structs : ~(nest[t][s] > 0)
  BY <1>1 DEF Outside
<1>3. ~At(t, "waiting")
  BY <1>1 DEF Loops, At
<1>4. ~ready
  BY <1>1 DEF Loops
<1>5. ~(At(t, "idle") /\ t \in starting)
  BY <1>1 DEF Loops, At
<1> QED BY <1>2, <1>3, <1>4, <1>5

LEMMA AtRestTaken ==
  ASSUME \A u \in Threads : ~Loops(u), NEW s
  PROVE  Taken(s) <=> s \in allocated \/ (s \in Statics /\ inited)
BY DEF Taken, Loops

LEMMA InUseTaken ==
  ASSUME IInv, NEW t \in Threads, NEW s \in Structs,
         \/ nest[t][s] > 0
         \/ At(t, "waiting") /\ call[t].s = s
         \/ At(t, "idle") /\ Usable(t, s)
  PROVE  Taken(s) /\ \A u \in Threads : ~Loops(u)
<1>1. CASE nest[t][s] > 0
  BY <1>1, NoLoops DEF IInv, Locks
<1>2. CASE At(t, "waiting") /\ call[t].s = s
  BY <1>2, NoLoops DEF IInv, Locks
<1>3. CASE At(t, "idle") /\ Usable(t, s)
  <2>1. s \in allocated => ready
    BY DEF IInv, Phases
  <2>2. ready => inited
    BY DEF IInv, Phases
  <2>3. t \in starting => inited
    BY <1>3 DEF IInv, Phases, At
  <2>4. \A u \in Threads : ~Loops(u)
    BY <1>3, <2>1, NoLoops DEF Usable
  <2> QED BY <1>3, <2>2, <2>3, <2>4 DEF Usable, Taken
<1> QED BY <1>1, <1>2, <1>3

\* A thread takes or gives back the mutex of s and goes in or out.
LEMMA LockStep ==
  ASSUME IInv, TypeInv', NEW t \in Threads, NEW s \in Structs,
         Taken(s), \A u \in Threads : ~Loops(u),
         UNCHANGED <<port, ptr, allocated, library, failed, alive>>,
         \A u \in Threads : u # t => call'[u] = call[u],
         At(t, "idle")',
         \A u \in Threads, r \in Structs : u # t \/ r # s => nest'[u][r] = nest[u][r],
         \A o \in alive : o # ptr[s] => owner'[o] = owner[o] /\ depth'[o] = depth[o],
         ptr[s] # Null => \A u \in Threads : Balanced(s, u)'
  PROVE  IInv'
<1> USE DEF library
<1>0. \A u \in Threads : ~Loops(u)'
  BY DEF Loops, At
<1>1. \A r : Taken(r)' <=> Taken(r)
  BY <1>0 DEF Taken, Loops
<1>2. Phases'
  BY <1>0 DEF IInv, Phases, Loops, At
<1>3. Pointers'
  BY <1>1 DEF IInv, Pointers
<1>4. Locks'
  <2> SUFFICES ASSUME NEW r \in Structs, NEW u \in Threads
               PROVE  /\ Taken(r) /\ ptr[r] # Null => Balanced(r, u)'
                      /\ ~Taken(r) => nest'[u][r] = 0 /\ ~(At(u, "waiting")' /\ call'[u].s = r)
                      /\ At(u, "waiting")' /\ call'[u].s = r => call'[u].o = ptr'[r]
    BY <1>1 DEF Locks
  <2>1. ASSUME Taken(r), ptr[r] # Null PROVE Balanced(r, u)'
    <3>1. CASE r = s
      BY <2>1, <3>1
    <3>2. CASE r # s
      <4>1. ptr[r] \in alive /\ ptr[r] # ptr[s]
        BY <2>1, <3>2 DEF IInv, Pointers
      <4>2. Balanced(r, u)
        BY <2>1 DEF IInv, Locks
      <4> QED BY <3>2, <4>1, <4>2 DEF Balanced
    <3> QED BY <3>1, <3>2
  <2>2. ASSUME ~Taken(r)
        PROVE  nest'[u][r] = 0 /\ ~(At(u, "waiting")' /\ call'[u].s = r)
    BY <2>2 DEF IInv, Locks, At
  <2>3. ASSUME At(u, "waiting")', call'[u].s = r PROVE call'[u].o = ptr'[r]
    BY <2>3 DEF IInv, Locks, At
  <2> QED BY <2>1, <2>2, <2>3
<1>5. Kept'
  BY <1>0, <1>1 DEF IInv, Kept, Loops
<1> QED BY <1>2, <1>3, <1>4, <1>5 DEF IInv

LEMMA AcquirePreserves ==
  ASSUME IInv, TypeInv', NEW t \in Threads, Acquire(t)
  PROVE  IInv'
<1>0. TypeInv
  BY DEF IInv
<1> USE TypeFacts, <1>0
<1> PICK s \in Structs : s = call[t].s
  OBVIOUS
<1>1. At(t, "waiting") /\ Taken(s) /\ (\A u \in Threads : ~Loops(u)) /\ call[t].o = ptr[s]
  BY InUseTaken DEF Acquire, IInv, Locks
<1>2. /\ nest' = [nest EXCEPT ![t][s] = nest[t][s] + 1]
      /\ call' = [call EXCEPT ![t] = [step |-> "idle", s |-> 1, o |-> Null]]
  BY DEF Acquire, Idle, Goes
<1>3. At(t, "idle")' /\ \A u \in Threads : u # t => call'[u] = call[u]
  BY <1>2 DEF At
<1>4. nest'[t][s] = nest[t][s] + 1
      /\ \A u \in Threads, r \in Structs : u # t \/ r # s => nest'[u][r] = nest[u][r]
  BY <1>1, <1>2
<1>5. UNCHANGED <<port, ptr, allocated, library, failed, alive>>
  BY DEF Acquire, Takes, system
<1>6. \A o \in alive : o # ptr[s] => owner'[o] = owner[o] /\ depth'[o] = depth[o]
  BY <1>1 DEF Acquire, Takes, system
<1>7. ASSUME ptr[s] # Null, NEW u \in Threads PROVE Balanced(s, u)'
  <2>1. ptr[s] \in alive /\ Balanced(s, u) /\ Balanced(s, t)
    BY <1>1, <1>7 DEF IInv, Pointers, Locks
  <2>2. Takes(t, ptr[s])
    BY <1>1, <2>1 DEF Acquire
  <2>3. /\ owner[ptr[s]] \in {t, NoThread} /\ owner'[ptr[s]] = t
        /\ depth'[ptr[s]] = depth[ptr[s]] + 1 /\ ptr'[s] = ptr[s]
    BY <1>1, <1>5, <2>1, <2>2 DEF Takes
  <2>4. owner[ptr[s]] = NoThread => depth[ptr[s]] = 0
    BY <2>1 DEF TypeInv, FreeUnlocked
  <2>5. CASE u = t
    BY <1>4, <2>1, <2>3, <2>4, <2>5 DEF Balanced
  <2>6. CASE u # t
    BY <1>1, <1>4, <2>1, <2>3, <2>6 DEF Balanced
  <2> QED BY <2>5, <2>6
<1> QED BY <1>1, <1>3, <1>4, <1>5, <1>6, <1>7, LockStep

LEMMA TryPreserves ==
  ASSUME IInv, TypeInv', NEW t \in Threads, NEW s \in Structs, Try(t, s)
  PROVE  IInv'
<1>0. TypeInv
  BY DEF IInv
<1> USE TypeFacts, <1>0
<1>1. Taken(s) /\ (\A u \in Threads : ~Loops(u))
  BY InUseTaken DEF Try
<1>2. nest' = [nest EXCEPT ![t][s] = nest[t][s] + 1] /\ Takes(t, ptr[s])
  BY DEF Try
<1>3. At(t, "idle")' /\ \A u \in Threads : u # t => call'[u] = call[u]
  BY DEF Try, At
<1>4. nest'[t][s] = nest[t][s] + 1
      /\ \A u \in Threads, r \in Structs : u # t \/ r # s => nest'[u][r] = nest[u][r]
  BY <1>1, <1>2
<1>5. UNCHANGED <<port, ptr, allocated, library, failed, alive>>
  BY DEF Try, Takes
<1>6. \A o \in alive : o # ptr[s] => owner'[o] = owner[o] /\ depth'[o] = depth[o]
  BY <1>2 DEF Takes
<1>7. ASSUME ptr[s] # Null, NEW u \in Threads PROVE Balanced(s, u)'
  <2>1. ptr[s] \in alive /\ Balanced(s, u) /\ Balanced(s, t)
    BY <1>1, <1>7 DEF IInv, Pointers, Locks
  <2>3. /\ owner[ptr[s]] \in {t, NoThread} /\ owner'[ptr[s]] = t
        /\ depth'[ptr[s]] = depth[ptr[s]] + 1 /\ ptr'[s] = ptr[s]
    BY <1>2, <1>5, <2>1 DEF Takes
  <2>4. owner[ptr[s]] = NoThread => depth[ptr[s]] = 0
    BY <2>1 DEF TypeInv, FreeUnlocked
  <2>5. CASE u = t
    BY <1>4, <2>1, <2>3, <2>4, <2>5 DEF Balanced
  <2>6. CASE u # t
    BY <1>1, <1>4, <2>1, <2>3, <2>6 DEF Balanced
  <2> QED BY <2>5, <2>6
<1> QED BY <1>1, <1>3, <1>4, <1>5, <1>6, <1>7, LockStep

LEMMA LeavePreserves ==
  ASSUME IInv, TypeInv', NEW t \in Threads, NEW s \in Structs, Leave(t, s)
  PROVE  IInv'
<1>0. TypeInv
  BY DEF IInv
<1> USE TypeFacts, <1>0
<1>1. nest[t][s] > 0 /\ Taken(s) /\ (\A u \in Threads : ~Loops(u))
  BY InUseTaken DEF Leave
<1>2. nest' = [nest EXCEPT ![t][s] = nest[t][s] - 1]
  BY DEF Leave, Left
<1>3. At(t, "idle")' /\ \A u \in Threads : u # t => call'[u] = call[u]
  BY DEF Leave, At
<1>4. nest'[t][s] = nest[t][s] - 1
      /\ \A u \in Threads, r \in Structs : u # t \/ r # s => nest'[u][r] = nest[u][r]
  BY <1>1, <1>2
<1>5. UNCHANGED <<port, ptr, allocated, library, failed, alive>>
  BY DEF Leave, Gives, system
<1>6. \A o \in alive : o # ptr[s] => owner'[o] = owner[o] /\ depth'[o] = depth[o]
  BY DEF Leave, Gives, system
<1>7. ASSUME ptr[s] # Null, NEW u \in Threads PROVE Balanced(s, u)'
  <2>1. ptr[s] \in alive /\ Balanced(s, u) /\ Balanced(s, t)
    BY <1>1, <1>7 DEF IInv, Pointers, Locks
  <2>2. owner[ptr[s]] = t /\ nest[t][s] = depth[ptr[s]]
    BY <1>1, <2>1 DEF Balanced
  <2>3. Gives(t, ptr[s])
    BY <2>1, <2>2 DEF Leave
  <2>4. /\ depth'[ptr[s]] = depth[ptr[s]] - 1 /\ ptr'[s] = ptr[s]
        /\ owner'[ptr[s]] = IF depth[ptr[s]] = 1 THEN NoThread ELSE t
    BY <1>5, <2>1, <2>3 DEF Gives
  <2>5. CASE u = t
    BY <1>4, <2>2, <2>4, <2>5, <2>1 DEF Balanced
  <2>6. CASE u # t
    BY <1>4, <2>1, <2>2, <2>4, <2>6 DEF Balanced
  <2> QED BY <2>5, <2>6
<1> QED BY <1>1, <1>3, <1>4, <1>5, <1>6, <1>7, LockStep

LEMMA EnterPreserves ==
  ASSUME IInv, TypeInv', NEW t \in Threads, NEW s \in Structs, Enter(t, s)
  PROVE  IInv'
<1>0. TypeInv
  BY DEF IInv
<1> USE TypeFacts, <1>0 DEF library, system
<1>1. Taken(s) /\ (\A u \in Threads : ~Loops(u))
  BY InUseTaken DEF Enter
<1>2. /\ call' = [call EXCEPT ![t] = [step |-> "waiting", s |-> s, o |-> ptr[s]]]
      /\ UNCHANGED <<port, ptr, system, allocated, nest, library, failed>>
  BY DEF Enter, Goes
<1>3. \A u \in Threads : ~Loops(u)'
  BY <1>1, <1>2 DEF Loops, At
<1>4. \A r : Taken(r)' <=> Taken(r)
  BY <1>1, <1>2, <1>3 DEF Taken, Loops
<1>5. Phases'
  BY <1>2, <1>3 DEF Enter, IInv, Phases, Loops, At
<1>6. Pointers'
  BY <1>2, <1>4 DEF IInv, Pointers
<1>7. Locks'
  BY <1>1, <1>2, <1>4 DEF IInv, Locks, Balanced, At
<1>8. Kept'
  BY <1>2, <1>3, <1>4 DEF IInv, Kept, Loops
<1> QED BY <1>5, <1>6, <1>7, <1>8 DEF IInv

\* A step that neither moves a mutex nor takes or gives it.
LEMMA QuietStep ==
  ASSUME IInv, TypeInv', Phases',
         UNCHANGED <<port, ptr, system, nest>>, failed => failed',
         \A s \in Structs : Taken(s)' <=> Taken(s),
         \A u \in Threads : At(u, "waiting")' => call'[u] = call[u]
  PROVE  IInv'
<1>1. \A s \in Statics : s \in Structs
  BY StaticsInStructs
<1>2. Pointers'
  BY DEF IInv, Pointers, system
<1>3. Locks'
  BY DEF IInv, Locks, Balanced, At, system
<1>4. Kept'
  BY <1>1 DEF IInv, Kept, system, TypeInv, TypeOK
<1> QED BY <1>2, <1>3, <1>4 DEF IInv

LEMMA BeginStartPreserves ==
  ASSUME IInv, TypeInv', ~Concurrent, NEW t \in Threads, BeginStart(t)
  PROVE  IInv'
<1>0. TypeInv
  BY DEF IInv
<1> USE TypeFacts, <1>0 DEF library
<1>1. /\ call' = [call EXCEPT ![t] = [step |-> "creating", s |-> 1, o |-> Null]]
      /\ UNCHANGED <<port, ptr, system, allocated, nest, inited, ready, failed>>
      /\ starting' = {t} /\ ~ready
      /\ \A u \in Threads : At(u, "idle") /\ Outside(u)
  BY DEF BeginStart, Goes, Quiet
<1>2. At(t, "creating")' /\ call'[t].s = 1 /\ \A u \in Threads : u # t => call'[u] = call[u] /\ At(u, "idle")'
  BY <1>1 DEF At
<1>3. \A u \in Threads : Outside(u)'
  BY <1>1 DEF Outside
<1>4. Phases'
  <2>1. starting = {}
    BY DEF BeginStart, Quiet
  <2>2. ~failed => ~inited
    BY <1>1, <2>1 DEF IInv, Phases
  <2> QED BY <1>1, <1>2, <1>3, <2>2 DEF IInv, Phases, Loops, At
<1>5. \A s \in Structs : Taken(s)' <=> Taken(s)
  <2>1. \A s \in Statics : ~(s < 1)
    BY MutexAssumption DEF Statics
  <2> QED BY <1>1, <1>2, <2>1 DEF Taken, At
<1>6. \A u \in Threads : At(u, "waiting")' => call'[u] = call[u]
  BY <1>2 DEF At
<1> QED BY <1>1, <1>4, <1>5, <1>6, QuietStep

LEMMA FinishStartPreserves ==
  ASSUME IInv, TypeInv', NEW t \in Threads, FinishStart(t)
  PROVE  IInv'
<1>0. TypeInv
  BY DEF IInv
<1> USE TypeFacts, <1>0 DEF library
<1>1. \A u \in Threads : ~Loops(u)
  BY NoLoops DEF FinishStart
<1>2. /\ UNCHANGED <<port, ptr, system, allocated, call, nest, inited>>
      /\ starting' = {} /\ inited /\ (failed => failed') /\ ready' \in BOOLEAN
      /\ allocated = {} /\ (ready' \/ failed')
  BY <1>1 DEF FinishStart, IInv, Phases, Loops, TypeInv, TypeOK
<1>3. \A u \in Threads : ~Loops(u)'
  BY <1>1, <1>2 DEF Loops, At
<1>4. Phases'
  BY <1>2, <1>3 DEF Phases, Loops
<1>5. \A s \in Structs : Taken(s)' <=> Taken(s)
  BY <1>2 DEF Taken, At
<1>6. \A u \in Threads : At(u, "waiting")' => call'[u] = call[u]
  BY <1>2
<1> QED BY <1>2, <1>3, <1>4, <1>5, <1>6, QuietStep DEF Loops

LEMMA BeginEndPreserves ==
  ASSUME IInv, TypeInv', NEW t \in Threads, BeginEnd(t)
  PROVE  IInv'
<1>0. TypeInv
  BY DEF IInv
<1> USE TypeFacts, <1>0 DEF library
<1>1. /\ call' = [call EXCEPT ![t] = [step |-> "ending", s |-> 1, o |-> Null]]
      /\ UNCHANGED <<port, ptr, system, allocated, nest, failed, starting>>
      /\ inited /\ ~inited' /\ ~ready' /\ allocated = {} /\ starting = {}
      /\ \A u \in Threads : At(u, "idle") /\ Outside(u)
  BY DEF BeginEnd, Goes, Quiet
<1>2. At(t, "ending")' /\ call'[t].s = 1 /\ \A u \in Threads : u # t => call'[u] = call[u] /\ At(u, "idle")'
  BY <1>1 DEF At
<1>3. \A u \in Threads : Outside(u)'
  BY <1>1 DEF Outside
<1>4. Phases'
  BY <1>1, <1>2, <1>3 DEF Phases, Loops, At
<1>5. \A s \in Structs : Taken(s)' <=> Taken(s)
  <2>1. \A s \in Statics : s >= 1
    BY MutexAssumption DEF Statics
  <2> QED BY <1>1, <1>2, <2>1 DEF Taken, At
<1>6. \A u \in Threads : (At(u, "waiting")' => call'[u] = call[u]) /\ ~At(u, "creating")'
  BY <1>2 DEF At
<1> QED BY <1>1, <1>4, <1>5, <1>6, QuietStep

\* A step that gives structure s a mutex, or none, while no thread is at it.
LEMMA CreateStep ==
  ASSUME IInv, TypeInv', Phases', NEW s \in Structs, Create(s) \/ CreateFails(s),
         UNCHANGED <<port, nest>>, failed => failed',
         \A u \in Threads : nest[u][s] = 0 /\ ~(At(u, "waiting") /\ call[u].s = s),
         \A u \in Threads : At(u, "waiting")' => call'[u] = call[u],
         \A r \in Structs : Taken(r)' => Taken(r) \/ r = s,
         \A r \in Structs : Taken(r) /\ ~Taken(r)' => failed',
         \A r \in Structs : ~Taken(r)' => \A u \in Threads : nest[u][r] = 0 /\ ~(At(u, "waiting")' /\ call[u].s = r),
         ~failed' => ~Taken(s),
         Create(s) => Taken(s)',
         s \in Statics /\ CreateFails(s) => failed'
  PROVE  IInv'
<1>0. TypeInv
  BY DEF IInv
<1> USE TypeFacts, <1>0
<1>1. PICK o \in Objects \cup {Null} :
        /\ ptr' = [ptr EXCEPT ![s] = o]
        /\ o # Null => /\ o \notin alive /\ alive' = alive \cup {o}
                       /\ owner' = [owner EXCEPT ![o] = NoThread]
                       /\ depth' = [depth EXCEPT ![o] = 0]
                       /\ Create(s)
        /\ o = Null => UNCHANGED system /\ CreateFails(s)
  BY DEF Create, CreateFails
<1>2. /\ ptr'[s] = o /\ \A r \in Structs : r # s => ptr'[r] = ptr[r]
      /\ \A x \in alive : x \in alive' /\ x # o /\ owner'[x] = owner[x] /\ depth'[x] = depth[x]
      /\ o # Null => o \in alive' /\ owner'[o] = NoThread /\ depth'[o] = 0
      /\ \A x \in alive' : x \in alive \/ (x = o /\ o # Null)
  BY <1>1 DEF system
<1>3. Pointers'
  <2>1. ASSUME NEW r \in Structs, Taken(r)', ptr'[r] # Null PROVE ptr'[r] \in alive'
    BY <1>2, <2>1 DEF IInv, Pointers
  <2>2. ASSUME NEW r \in Structs, Taken(r)', r # s, ptr'[r] # Null PROVE ptr'[r] # ptr'[s]
    BY <1>2, <2>2 DEF IInv, Pointers
  <2>3. ASSUME NEW r \in Structs, NEW q \in Structs, Taken(r)', Taken(q)', ptr'[r] # Null, ptr'[r] = ptr'[q]
        PROVE  r = q
    BY <1>2, <2>2, <2>3 DEF IInv, Pointers
  <2> QED BY <2>1, <2>3 DEF Pointers
<1>4. Locks'
  <2> SUFFICES ASSUME NEW r \in Structs, NEW u \in Threads
               PROVE  /\ Taken(r)' /\ ptr'[r] # Null => Balanced(r, u)'
                      /\ ~Taken(r)' => nest'[u][r] = 0 /\ ~(At(u, "waiting")' /\ call'[u].s = r)
                      /\ At(u, "waiting")' /\ call'[u].s = r => call'[u].o = ptr'[r]
    BY DEF Locks
  <2>1. ASSUME Taken(r)', ptr'[r] # Null PROVE Balanced(r, u)'
    <3>1. CASE r = s
      BY <1>2, <2>1, <3>1 DEF Balanced
    <3>2. CASE r # s
      <4>1. Taken(r) /\ ptr[r] # Null
        BY <1>2, <2>1, <3>2
      <4>2. ptr[r] \in alive /\ Balanced(r, u)
        BY <4>1 DEF IInv, Pointers, Locks
      <4> QED BY <1>2, <3>2, <4>2 DEF Balanced
    <3> QED BY <3>1, <3>2
  <2>2. ASSUME ~Taken(r)'
        PROVE  nest'[u][r] = 0 /\ ~(At(u, "waiting")' /\ call'[u].s = r)
    BY <2>2
  <2>3. ASSUME At(u, "waiting")', call'[u].s = r PROVE call'[u].o = ptr'[r]
    <3>1. call'[u] = call[u] /\ At(u, "waiting") /\ r # s
      BY <2>3 DEF At
    <3> QED BY <1>2, <2>3, <3>1 DEF IInv, Locks
  <2> QED BY <2>1, <2>2, <2>3
<1>5. Kept'
  <2> SUFFICES ASSUME ~failed'
               PROVE  /\ port' = "quec" => \A x \in alive' : \E r \in Structs : Taken(r)' /\ ptr'[r] = x
                      /\ \A r \in Statics : Taken(r)' => ptr'[r] # Null
    BY DEF Kept
  <2>1. /\ port = "quec" => \A x \in alive : \E r \in Structs : Taken(r) /\ ptr[r] = x
        /\ \A r \in Statics : Taken(r) => ptr[r] # Null
    BY DEF IInv, Kept
  <2>2. \A r \in Structs : Taken(r) => r # s /\ Taken(r)'
    OBVIOUS
  <2>3. ASSUME NEW x \in alive', port' = "quec" PROVE \E r \in Structs : Taken(r)' /\ ptr'[r] = x
    <3>1. CASE x \in alive
      BY <1>2, <2>1, <2>2, <2>3, <3>1
    <3>2. CASE x = o /\ o # Null
      BY <1>1, <1>2, <3>2
    <3> QED BY <1>2, <3>1, <3>2
  <2>4. ASSUME NEW r \in Statics, Taken(r)' PROVE ptr'[r] # Null
    BY <1>1, <1>2, <2>1, <2>4
  <2> QED BY <2>3, <2>4
<1> QED BY <1>3, <1>4, <1>5 DEF IInv

LEMMA CreateStaticPreserves ==
  ASSUME IInv, TypeInv', NEW t \in Threads, CreateStatic(t)
  PROVE  IInv'
<1>0. TypeInv
  BY DEF IInv
<1> USE TypeFacts, <1>0 DEF library
<1> PICK s \in Structs : s = call[t].s
  OBVIOUS
<1>1. /\ s \in Statics /\ At(t, "creating") /\ t \in starting /\ ~ready /\ starting = {t}
      /\ allocated = {}
      /\ \A u \in Threads : Outside(u) /\ (u # t => At(u, "idle"))
  BY DEF CreateStatic, IInv, Phases, TypeInv, InTable, Loops
<1>2. /\ UNCHANGED <<port, allocated, nest, ready>> /\ (failed => failed')
      /\ \/ /\ Create(s) /\ s < NStatic /\ inited' = inited /\ starting' = starting /\ failed' = failed
            /\ call' = [call EXCEPT ![t] = [step |-> "creating", s |-> s + 1, o |-> Null]]
         \/ /\ Create(s) /\ ~(s < NStatic) /\ inited' = TRUE /\ starting' = starting /\ failed' = failed
            /\ call' = [call EXCEPT ![t] = [step |-> "idle", s |-> 1, o |-> Null]]
         \/ /\ CreateFails(s) /\ inited' = inited /\ starting' = {} /\ failed' = TRUE
            /\ call' = [call EXCEPT ![t] = [step |-> "idle", s |-> 1, o |-> Null]]
  BY <1>1 DEF CreateStatic, Goes, Idle, IInv, TypeInv, TypeOK
<1>3. \A u \in Threads : u # t => call'[u] = call[u]
  BY <1>2
<1>4. \A u \in Threads : Outside(u)' /\ (u # t => At(u, "idle")')
  BY <1>1, <1>2, <1>3 DEF Outside, At
<1>5. /\ UNCHANGED <<port, allocated, nest, ready>> /\ (failed => failed')
      /\ \/ /\ Create(s) /\ s < NStatic /\ inited' = inited /\ starting' = starting /\ failed' = failed
            /\ call'[t].step = "creating" /\ call'[t].s = s + 1
         \/ /\ Create(s) /\ ~(s < NStatic) /\ inited' = TRUE /\ starting' = starting /\ failed' = failed
            /\ call'[t].step = "idle"
         \/ /\ CreateFails(s) /\ inited' = inited /\ starting' = {} /\ failed' = TRUE
            /\ call'[t].step = "idle"
  BY <1>2
<1>6. Phases'
  <2>1. CASE starting' = starting /\ inited' = inited /\ failed' = failed /\ call'[t].step = "creating"
    BY <1>1, <1>4, <1>5, <2>1 DEF IInv, Phases, Loops, At
  <2>2. CASE starting' = starting /\ inited' = TRUE /\ failed' = failed /\ call'[t].step = "idle"
    BY <1>1, <1>4, <1>5, <2>2 DEF IInv, Phases, Loops, At
  <2>3. CASE inited' = inited /\ starting' = {} /\ failed' = TRUE /\ call'[t].step = "idle"
    BY <1>1, <1>4, <1>5, <2>3 DEF IInv, Phases, Loops, At
  <2> QED BY <1>5, <2>1, <2>2, <2>3
<1>7. \A r \in Structs : Taken(r) <=> r \in Statics /\ (inited \/ r < s)
  BY <1>1 DEF Taken, At
<1>8. \A q \in Statics : q \in Nat /\ q <= NStatic /\ NStatic \in Nat
  BY MutexAssumption DEF Statics
<1>9. \/ Create(s) /\ failed' = failed /\ \A r \in Structs : Taken(r)' <=> r \in Statics /\ (inited \/ r <= s)
      \/ CreateFails(s) /\ failed' /\ \A r \in Structs : Taken(r)' <=> r \in Statics /\ inited
  <2>1. CASE Create(s) /\ s < NStatic /\ inited' = inited /\ failed' = failed /\ call'[t].step = "creating" /\ call'[t].s = s + 1
    <3>1. \A r \in Statics : r < s + 1 <=> r <= s
      BY <1>1, <1>8
    <3>2. \A r \in Structs : Taken(r)' <=> r \in Statics /\ (inited \/ r < s + 1)
      BY <1>1, <1>4, <1>5, <2>1 DEF Taken, At
    <3> QED BY <2>1, <3>1, <3>2
  <2>2. CASE Create(s) /\ ~(s < NStatic) /\ inited' = TRUE /\ failed' = failed /\ call'[t].step = "idle"
    <3>1. \A r \in Statics : r <= s
      BY <1>1, <1>8, <2>2
    <3>2. \A r \in Structs : Taken(r)' <=> r \in Statics
      BY <1>1, <1>4, <1>5, <2>2 DEF Taken, At
    <3> QED BY <2>2, <3>1, <3>2
  <2>3. CASE CreateFails(s) /\ inited' = inited /\ failed' = TRUE /\ call'[t].step = "idle"
    BY <1>1, <1>4, <1>5, <2>3 DEF Taken, At
  <2> QED BY <1>5, <2>1, <2>2, <2>3
<1>10. ~failed' => ~inited
  BY <1>1, <1>5 DEF IInv, Phases
<1>11. \A u \in Threads, r \in Structs : nest[u][r] = 0 /\ ~(At(u, "waiting") /\ call[u].s = r)
  BY <1>1 DEF Outside, At
<1>12. \A u \in Threads : ~At(u, "waiting")'
  BY <1>4, <1>5 DEF At
<1>13. ~(s < s) /\ \A r \in Statics : r < s => r <= s
  BY <1>1, <1>8
<1>14. \A r \in Structs : (Taken(r)' => Taken(r) \/ r = s) /\ (Taken(r) /\ ~Taken(r)' => failed')
  <2>1. ASSUME NEW r \in Statics, r <= s PROVE r < s \/ r = s
    <3>1. r \in Nat /\ s \in Nat
      BY <1>1, <1>8
    <3> HIDE <1>0, TypeFacts DEF library
    <3> QED BY <2>1, <3>1
  <2> QED BY <1>7, <1>9, <1>13, <2>1
<1>15. (Create(s) => Taken(s)') /\ (~failed' => ~Taken(s)) /\ (CreateFails(s) => failed')
  <2>1. ~(Create(s) /\ CreateFails(s))
    BY DEF Create, CreateFails, system
  <2>2. s <= s
    BY <1>1, <1>8
  <2> QED BY <1>1, <1>7, <1>9, <1>10, <1>13, <2>1, <2>2
<1> QED BY <1>5, <1>6, <1>11, <1>12, <1>14, <1>15, CreateStep, <1>9

LEMMA AllocPreserves ==
  ASSUME IInv, TypeInv', NEW t \in Threads, NEW s \in Structs, Alloc(t, s)
  PROVE  IInv'
<1>0. TypeInv
  BY DEF IInv
<1> USE TypeFacts, <1>0 DEF library
<1>1. /\ UNCHANGED <<port, call, nest, inited, ready, starting, failed>>
      /\ allocated' = allocated \cup {s} /\ s \in Dynamics /\ s \notin allocated /\ s \notin Statics
      /\ At(t, "idle") /\ ready /\ inited
      /\ Create(s) \/ CreateFails(s)
  BY DEF Alloc, IInv, Phases
<1>2. \A u \in Threads : ~Loops(u)
  BY <1>1, NoLoops
<1>3. \A u \in Threads : ~Loops(u)'
  BY <1>1, <1>2 DEF Loops, At
<1>4. \A r \in Structs : (Taken(r) <=> r \in allocated \/ r \in Statics) /\ (Taken(r)' <=> Taken(r) \/ r = s)
  BY <1>1, <1>2, <1>3 DEF Taken, Loops
<1>5. Phases'
  BY <1>1, <1>3 DEF IInv, Phases, Loops, At
<1>6. ~Taken(s)
  BY <1>1, <1>4
<1>7. \A r \in Structs : ~Taken(r) => \A u \in Threads : nest[u][r] = 0 /\ ~(At(u, "waiting") /\ call[u].s = r)
  BY DEF IInv, Locks
<1>8. \A u \in Threads : At(u, "waiting")' <=> At(u, "waiting")
  BY <1>1 DEF At
<1> QED BY <1>1, <1>4, <1>5, <1>6, <1>7, <1>8, CreateStep

\* A step that deletes the mutex of structure s, or fails to, while no thread is at
\* a structure that has none afterwards.
LEMMA DeleteStep ==
  ASSUME IInv, TypeInv', Phases', NEW s \in Structs, Taken(s),
         Delete(ptr[s]) \/ UNCHANGED system,
         UNCHANGED <<port, ptr, nest>>, failed => failed',
         \A u \in Threads : At(u, "waiting")' => call'[u] = call[u],
         ~Taken(s)' \/ UNCHANGED system,
         \A r \in Structs : Taken(r)' => Taken(r),
         \A r \in Structs : ~Taken(r)' => \A u \in Threads : nest[u][r] = 0 /\ ~(At(u, "waiting")' /\ call[u].s = r),
         port = "quec" /\ ~failed' =>
           /\ Delete(ptr[s]) \/ (ptr[s] = Null /\ UNCHANGED system)
           /\ \A r \in Structs : Taken(r) /\ r # s => Taken(r)'
  PROVE  IInv'
<1>0. TypeInv
  BY DEF IInv
<1> USE TypeFacts, <1>0
<1>1. \A r \in Structs : Taken(r)' /\ ptr[r] # Null => ptr[r] \in alive'
  <2>1. ASSUME NEW r \in Structs, Taken(r)', ptr[r] # Null, Delete(ptr[s]), ~Taken(s)' PROVE ptr[r] \in alive'
    BY <2>1 DEF IInv, Pointers, Delete
  <2> QED BY <2>1 DEF IInv, Pointers, system
<1>2. Pointers'
  BY <1>1 DEF IInv, Pointers
<1>3. owner' = owner /\ depth' = depth
  BY DEF Delete, system
<1>4. Locks'
  <2> SUFFICES ASSUME NEW r \in Structs, NEW u \in Threads
               PROVE  /\ Taken(r)' /\ ptr'[r] # Null => Balanced(r, u)'
                      /\ ~Taken(r)' => nest'[u][r] = 0 /\ ~(At(u, "waiting")' /\ call'[u].s = r)
                      /\ At(u, "waiting")' /\ call'[u].s = r => call'[u].o = ptr'[r]
    BY DEF Locks
  <2> QED BY <1>3 DEF IInv, Locks, Balanced, At
<1>5. Kept'
  <2> SUFFICES ASSUME ~failed'
               PROVE  /\ port' = "quec" => \A x \in alive' : \E r \in Structs : Taken(r)' /\ ptr'[r] = x
                      /\ \A r \in Statics : Taken(r)' => ptr'[r] # Null
    BY DEF Kept
  <2>1. /\ port = "quec" => \A x \in alive : \E r \in Structs : Taken(r) /\ ptr[r] = x
        /\ \A r \in Statics : Taken(r) => ptr[r] # Null
    BY DEF IInv, Kept
  <2>2. port = "quec" => \A x \in alive' : x \in alive /\ x # ptr[s]
    BY DEF Delete, system
  <2> QED BY <2>1, <2>2
<1> QED BY <1>2, <1>4, <1>5 DEF IInv

LEMMA FreePreserves ==
  ASSUME IInv, TypeInv', NEW t \in Threads, NEW s \in Structs, Free(t, s)
  PROVE  IInv'
<1>0. TypeInv
  BY DEF IInv
<1> USE TypeFacts, <1>0 DEF library
<1>1. /\ UNCHANGED <<port, ptr, call, nest, inited, ready, starting>> /\ (failed => failed')
      /\ allocated' = allocated \ {s} /\ s \in allocated /\ s \notin Statics
      /\ ready /\ inited
      /\ \A u \in Threads : nest[u][s] = 0 /\ ~(At(u, "waiting") /\ call[u].s = s)
      /\ Delete(ptr[s]) \/ UNCHANGED system
      /\ ~failed' => Delete(ptr[s]) \/ (ptr[s] = Null /\ UNCHANGED system)
  BY DEF Free, IInv, Phases
<1>2. \A u \in Threads : ~Loops(u)
  BY <1>1, NoLoops
<1>3. \A u \in Threads : ~Loops(u)'
  BY <1>1, <1>2 DEF Loops, At
<1>4. \A r \in Structs : (Taken(r) <=> r \in allocated \/ r \in Statics) /\ (Taken(r)' <=> Taken(r) /\ r # s)
  BY <1>1, <1>2, <1>3 DEF Taken, Loops
<1>5. Phases'
  BY <1>1, <1>3 DEF IInv, Phases, Loops, At
<1>6. Taken(s)
  BY <1>1, <1>4
<1>7. \A r \in Structs : ~Taken(r) => \A u \in Threads : nest[u][r] = 0 /\ ~(At(u, "waiting") /\ call[u].s = r)
  BY DEF IInv, Locks
<1>8. \A u \in Threads : At(u, "waiting")' <=> At(u, "waiting")
  BY <1>1 DEF At
<1> QED BY <1>1, <1>4, <1>5, <1>6, <1>7, <1>8, DeleteStep

LEMMA PlaceOrder ==
  ASSUME NEW r \in Nat, NEW s \in Nat, NEW n \in Nat, r <= n
  PROVE  /\ r >= s + 1 => r >= s
         /\ r >= s /\ r # s => r >= s + 1
         /\ r >= s /\ r # s => s < n
OBVIOUS

LEMMA EndStaticPreserves ==
  ASSUME IInv, TypeInv', NEW t \in Threads, EndStatic(t)
  PROVE  IInv'
<1>0. TypeInv
  BY DEF IInv
<1> USE TypeFacts, <1>0 DEF library
<1> PICK s \in Structs : s = call[t].s
  OBVIOUS
<1>1. /\ s \in Statics /\ At(t, "ending") /\ starting = {} /\ ~ready /\ ~inited
      /\ allocated = {}
      /\ \A u \in Threads : Outside(u) /\ (u # t => At(u, "idle"))
  BY DEF EndStatic, QuecEndStatic, WinEndStatic, IInv, Phases, TypeInv, InTable, Loops
<1>2. /\ UNCHANGED <<port, ptr, allocated, nest, inited, ready, starting>> /\ (failed => failed')
      /\ Delete(ptr[s]) \/ UNCHANGED system
      /\ port = "quec" /\ ~failed' => Delete(ptr[s]) /\ GoesOn(t)
      /\ port = "win" => Idle(t) \/ failed'
      /\ GoesOn(t) \/ Idle(t)
  BY <1>1 DEF EndStatic, QuecEndStatic, WinEndStatic, IInv, TypeInv, TypeOK
<1>3. \/ /\ s < NStatic /\ call' = [call EXCEPT ![t] = [step |-> "ending", s |-> s + 1, o |-> Null]]
      \/ /\ call' = [call EXCEPT ![t] = [step |-> "idle", s |-> 1, o |-> Null]]
         /\ GoesOn(t) => ~(s < NStatic)
  BY <1>2 DEF GoesOn, Goes, Idle
<1>4. \A u \in Threads : Outside(u)' /\ (u # t => At(u, "idle")')
  BY <1>1, <1>2, <1>3 DEF Outside, At
<1>5. \/ /\ s < NStatic /\ call'[t].step = "ending" /\ call'[t].s = s + 1
         /\ port = "win" => failed'
      \/ call'[t].step = "idle" /\ (GoesOn(t) => ~(s < NStatic))
  BY <1>2, <1>3 DEF Idle, Goes
<1>6. Phases'
  <2>1. CASE call'[t].step = "ending"
    BY <1>1, <1>2, <1>4, <1>5, <2>1 DEF IInv, Phases, Loops, At
  <2>2. CASE call'[t].step = "idle"
    BY <1>1, <1>2, <1>4, <2>2 DEF IInv, Phases, Loops, At
  <2> QED BY <1>5, <2>1, <2>2
<1>7. \A r \in Structs : Taken(r) <=> r \in Statics /\ r >= s
  BY <1>1 DEF Taken, At
<1>8. s \in Nat /\ NStatic \in Nat /\ \A q \in Statics : q \in Nat /\ q <= NStatic
  BY <1>1, MutexAssumption DEF Statics
<1>9. \/ \A r \in Structs : Taken(r)' <=> r \in Statics /\ r >= s + 1
      \/ (\A r \in Structs : ~Taken(r)') /\ (GoesOn(t) => ~(s < NStatic))
  <2>1. CASE call'[t].step = "ending" /\ call'[t].s = s + 1
    BY <1>1, <1>2, <1>4, <2>1 DEF Taken, At
  <2>2. CASE call'[t].step = "idle" /\ (GoesOn(t) => ~(s < NStatic))
    BY <1>1, <1>2, <1>4, <2>2 DEF Taken, At
  <2> QED BY <1>5, <2>1, <2>2
<1>10. s >= s /\ ~(s >= s + 1)
  BY <1>8
<1>11. ASSUME NEW r \in Statics
       PROVE  /\ r >= s + 1 => r >= s
              /\ r >= s /\ r # s => r >= s + 1
              /\ r >= s /\ r # s => s < NStatic
  <2>1. r \in Nat /\ r <= NStatic
    BY <1>8
  <2> QED BY <1>8, <2>1, PlaceOrder
<1>12. Taken(s) /\ ~Taken(s)' /\ \A r \in Structs : Taken(r)' => Taken(r)
  BY <1>1, <1>7, <1>9, <1>10, <1>11
<1>13. GoesOn(t) => \A r \in Structs : Taken(r) /\ r # s => Taken(r)'
  BY <1>7, <1>9, <1>11
<1>14. \A u \in Threads, r \in Structs : nest[u][r] = 0 /\ ~At(u, "waiting")'
  BY <1>1, <1>4, <1>5 DEF Outside, At
<1> QED BY <1>1, <1>2, <1>6, <1>12, <1>13, <1>14, DeleteStep

LEMMA StepInvariant ==
  ASSUME IInv, [Next]_vars, ~Concurrent
  PROVE  IInv'
<1>0. TypeInv'
  BY TypesStep DEF IInv
<1>1. CASE UNCHANGED vars
  BY <1>1 DEF vars, system, library, IInv, TypeInv, TypeOK, FreeUnlocked, InTable, Phases, Pointers, Locks, Kept,
             Loops, At, Outside, Taken, Balanced
<1>2. CASE Next
  BY <1>0, <1>2, BeginStartPreserves, CreateStaticPreserves, FinishStartPreserves, BeginEndPreserves,
     EndStaticPreserves, AcquirePreserves, AllocPreserves, FreePreserves, EnterPreserves, TryPreserves,
     LeavePreserves DEF Next
<1> QED BY <1>1, <1>2

LEMMA InvariantHolds ==
  ASSUME ~Concurrent
  PROVE  Spec => []IInv
<1>1. IInv /\ [Next]_vars => IInv'
  BY StepInvariant
<1> QED BY InitInvariant, <1>1, PTL DEF Spec

LEMMA ExclusionFollows == IInv => Exclusion
<1> SUFFICES ASSUME IInv, NEW s \in Structs, ptr[s] # Null, NEW t \in Threads, NEW u \in Threads,
                    nest[t][s] > 0, nest[u][s] > 0
             PROVE  t = u
  BY DEF Exclusion
<1>1. nest[t][s] # 0 /\ nest[u][s] # 0
  OBVIOUS
<1>2. Taken(s)
  BY <1>1 DEF IInv, Locks
<1> QED BY <1>1, <1>2 DEF IInv, Locks, Balanced

\* For any tables, threads and mutexes of the system: when one thread at a time
\* starts the library, a mutex that could be created keeps threads apart, through
\* every failure and restart on either port.
THEOREM Exclusive ==
  ASSUME ~Concurrent
  PROVE  Spec => []Exclusion
<1> QED BY ExclusionFollows, InvariantHolds, PTL

LEMMA BalanceFollows == IInv => LocksBalance
<1> SUFFICES ASSUME IInv, NEW s \in Structs, NEW t \in Threads, InUse(s)
             PROVE  Balanced(s, t)
  BY DEF LocksBalance, Balanced
<1>1. Taken(s) /\ ptr[s] # Null
  BY DEF InUse, Taken
<1> QED BY <1>1 DEF IInv, Locks

\* And the system has a mutex locked for a thread as often as the thread is inside,
\* so that none stays locked whose unlock was not looked at.
THEOREM LocksBalanced ==
  ASSUME ~Concurrent
  PROVE  Spec => []LocksBalance
<1> QED BY BalanceFollows, InvariantHolds, PTL

LEMMA NothingLostFollows == IInv => NothingLost
<1> SUFFICES ASSUME IInv, port = "quec", ~failed
             PROVE  alive = {ptr[s] : s \in {r \in Structs : Made(r)}}
  BY DEF NothingLost
<1>0. /\ alive \subseteq Objects /\ Null \notin Objects /\ Dynamics \cap Statics = {}
      /\ allocated \subseteq Dynamics /\ Statics \subseteq Structs
  BY TypeFacts DEF IInv
<1>1. /\ \A o \in alive : \E s \in Structs : Taken(s) /\ ptr[s] = o
      /\ \A s \in Statics : Taken(s) => ptr[s] # Null
      /\ \A s \in Structs : Taken(s) /\ ptr[s] # Null => ptr[s] \in alive
  BY DEF IInv, Kept, Pointers
<1>2. ASSUME NEW s \in Structs, Made(s) PROVE Taken(s) /\ ptr[s] # Null
  BY <1>0, <1>1, <1>2 DEF Made, Taken
<1>3. ASSUME NEW s \in Structs, Taken(s), ptr[s] # Null PROVE Made(s)
  BY <1>3 DEF Made, Taken
<1> QED BY <1>0, <1>1, <1>2, <1>3

\* And on the Quectel port every mutex of the system belongs to a structure in use
\* until the system refuses something.
THEOREM NoMutexLost ==
  ASSUME ~Concurrent
  PROVE  Spec => []NothingLost
<1> QED BY NothingLostFollows, InvariantHolds, PTL
=============================================================================
