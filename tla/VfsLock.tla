------------------------------ MODULE VfsLock ------------------------------
(***************************************************************************)
(* File locking in port/os_quec_rtos.c (os_win.c has the same code):       *)
(* xOpen, xLock, xUnlock, xCheckReservedLock and xClose on handles that    *)
(* are open on one database file.  Every handle has a semaphore of its     *)
(* own, created with count 1 by quec_open, which does not look whether it   *)
(* was: without one every wait fails and a release does nothing.           *)
(*                                                                         *)
(* config.h sets SQLITE_THREADSAFE to 1: a thread calls the VFS on a       *)
(* handle from inside the mutex of the handle's connection, which comes    *)
(* from the same file.  Calls on different handles interleave at every     *)
(* access to a semaphore or to eFileLock.  A thread here makes one call    *)
(* each time it holds the mutex; the longer stays of the program are       *)
(* sequences of these.                                                     *)
(***************************************************************************)
EXTENDS Naturals

CONSTANTS
  Handles,      \* quec_file_t structures, all on the same file
  Threads,
  NoThread,     \* the owner of a free mutex
  Disciplined   \* callers only raise a lock by xLock and lower it by xUnlock, as
                \* the pager does; neither routine tests it

ASSUME NoThreadAssumption == NoThread \notin Threads
ASSUME DisciplinedAssumption == Disciplined \in BOOLEAN

VARIABLES
  isOpen,       \* handle -> fd >= 0
  eFileLock,    \* handle -> lock level
  hasSem,       \* handle -> its semaphore could be created
  sem,          \* handle -> count of its semaphore, 0 without one
  owner,        \* handle -> the thread in its connection's mutex
  call,         \* thread -> where it is, on which handle, for which level
  answer        \* thread -> what its last call returned

vars == <<isOpen, eFileLock, hasSem, sem, owner, call, answer>>

NO_LOCK == 0
SHARED_LOCK == 1
RESERVED_LOCK == 2
PENDING_LOCK == 3
EXCLUSIVE_LOCK == 4
Levels == {NO_LOCK, SHARED_LOCK, RESERVED_LOCK, PENDING_LOCK, EXCLUSIVE_LOCK}

Steps == {"idle", "waiting", "inside", "locking", "unlocking", "probing", "releasing",
          "closing", "done"}
Answers == {"ok", "busy", "reserved", "other", "none"}

\* The chart of transitions before quec_lock, each step of it also alone.
Rises(from, to) ==
  IF from = NO_LOCK THEN to = SHARED_LOCK ELSE from < to

file(t) == call[t].file
At(t, step) == call[t].step = step
Goes(t, step) == call' = [call EXCEPT ![t].step = step]
Returns(t, a) == Goes(t, "done") /\ answer' = [answer EXCEPT ![t] = a]

\* ql_rtos_semaphore_wait(sem, 0) succeeds, and ql_rtos_semaphore_release.
Take(h) == sem[h] > 0 /\ sem' = [sem EXCEPT ![h] = @ - 1]
Release(h) == sem' = [sem EXCEPT ![h] = IF hasSem[h] THEN @ + 1 ELSE @]
SetLock(h, level) == eFileLock' = [eFileLock EXCEPT ![h] = level]
-----------------------------------------------------------------------------
Init ==
  /\ isOpen = [h \in Handles |-> FALSE]
  /\ eFileLock = [h \in Handles |-> NO_LOCK]
  /\ hasSem = [h \in Handles |-> FALSE]
  /\ sem = [h \in Handles |-> 0]
  /\ owner = [h \in Handles |-> NoThread]
  /\ call \in [Threads -> [step : {"idle"}, file : Handles, level : {NO_LOCK}]]
  /\ answer = [t \in Threads |-> "ok"]

Want(t, h) ==
  /\ At(t, "idle")
  /\ call' = [call EXCEPT ![t] = [step |-> "waiting", file |-> h, level |-> NO_LOCK]]
  /\ UNCHANGED <<isOpen, hasSem, eFileLock, sem, owner, answer>>

\* A mutant: the mutex does not keep a second thread out.
EnterUnguarded(t) ==
  /\ At(t, "waiting")
  /\ owner' = [owner EXCEPT ![file(t)] = t]
  /\ Goes(t, "inside")
  /\ UNCHANGED <<isOpen, hasSem, eFileLock, sem, answer>>

Enter(t) ==
  /\ At(t, "waiting") /\ owner[file(t)] = NoThread
  /\ owner' = [owner EXCEPT ![file(t)] = t]
  /\ Goes(t, "inside")
  /\ UNCHANGED <<isOpen, hasSem, eFileLock, sem, answer>>

Leave(t) ==
  /\ At(t, "done")
  /\ owner' = [owner EXCEPT ![file(t)] = NoThread]
  /\ Goes(t, "idle")
  /\ UNCHANGED <<isOpen, hasSem, eFileLock, sem, answer>>

\* quec_open; ql_fopen may fail, and then the structure stays closed.  The file is
\* open and the answer SQLITE_OK whether the semaphore could be created or not.
Open(t) ==
  /\ At(t, "inside") /\ ~isOpen[file(t)]
  /\ \/ /\ isOpen' = [isOpen EXCEPT ![file(t)] = TRUE]
        /\ SetLock(file(t), NO_LOCK)
        /\ \E made \in BOOLEAN :
             /\ hasSem' = [hasSem EXCEPT ![file(t)] = made]
             /\ sem' = [sem EXCEPT ![file(t)] = IF made THEN 1 ELSE 0]
     \/ UNCHANGED <<isOpen, hasSem, eFileLock, sem>>
  /\ Returns(t, "ok")
  /\ UNCHANGED owner

\* quec_lock: a handle that has any lock only changes its level.
Lock(t, level) ==
  /\ At(t, "inside") /\ isOpen[file(t)]
  /\ Disciplined => Rises(eFileLock[file(t)], level)
  /\ \/ /\ eFileLock[file(t)] > NO_LOCK
        /\ SetLock(file(t), level) /\ Returns(t, "ok") /\ UNCHANGED sem
     \/ /\ eFileLock[file(t)] = NO_LOCK
        /\ IF sem[file(t)] = 0
             THEN Returns(t, "busy") /\ UNCHANGED sem
             ELSE /\ Take(file(t)) /\ UNCHANGED answer
                  /\ call' = [call EXCEPT ![t].step = "locking", ![t].level = level]
        /\ UNCHANGED eFileLock
  /\ UNCHANGED <<isOpen, hasSem, owner>>

FinishLock(t) ==
  /\ At(t, "locking")
  /\ SetLock(file(t), call[t].level)
  /\ Returns(t, "ok")
  /\ UNCHANGED <<isOpen, hasSem, sem, owner>>

\* A mutant: the lock is dropped and the semaphore kept.
UnlockKeepsSemaphore(t, level) ==
  /\ At(t, "inside") /\ isOpen[file(t)]
  /\ Disciplined => level <= eFileLock[file(t)]
  /\ SetLock(file(t), level) /\ Returns(t, "ok")
  /\ UNCHANGED <<isOpen, hasSem, sem, owner>>

\* quec_unlock: a no-op at the level asked for only, not below it; the semaphore
\* is released before the level is cleared.
Unlock(t, level) ==
  /\ At(t, "inside") /\ isOpen[file(t)]
  /\ Disciplined => level <= eFileLock[file(t)]
  /\ \/ /\ eFileLock[file(t)] = level
        /\ Returns(t, "ok") /\ UNCHANGED <<eFileLock, sem>>
     \/ /\ eFileLock[file(t)] # level /\ level = SHARED_LOCK
        /\ SetLock(file(t), SHARED_LOCK) /\ Returns(t, "ok") /\ UNCHANGED sem
     \/ /\ eFileLock[file(t)] # level /\ level = NO_LOCK
        /\ Release(file(t)) /\ Goes(t, "unlocking") /\ UNCHANGED <<eFileLock, answer>>
  /\ UNCHANGED <<isOpen, hasSem, owner>>

FinishUnlock(t) ==
  /\ At(t, "unlocking")
  /\ SetLock(file(t), NO_LOCK)
  /\ Returns(t, "ok")
  /\ UNCHANGED <<isOpen, hasSem, sem, owner>>

\* A mutant: the probe takes the semaphore without looking at its count.
CheckReservedBlindly(t) ==
  /\ At(t, "inside") /\ isOpen[file(t)]
  /\ sem' = [sem EXCEPT ![file(t)] = @ - 1] /\ Goes(t, "probing")
  /\ UNCHANGED <<isOpen, hasSem, eFileLock, owner, answer>>

\* quec_check_reserved_lock: the handle's own level, then a probe of its own
\* semaphore, which is given back when it could be taken.
CheckReserved(t) ==
  /\ At(t, "inside") /\ isOpen[file(t)]
  /\ \/ /\ eFileLock[file(t)] > SHARED_LOCK
        /\ Returns(t, "reserved") /\ UNCHANGED sem
     \/ /\ eFileLock[file(t)] <= SHARED_LOCK /\ sem[file(t)] = 0
        /\ Returns(t, IF eFileLock[file(t)] < SHARED_LOCK THEN "other" ELSE "none")
        /\ UNCHANGED sem
     \/ /\ eFileLock[file(t)] <= SHARED_LOCK /\ Take(file(t))
        /\ Goes(t, "probing") /\ UNCHANGED answer
  /\ UNCHANGED <<isOpen, hasSem, eFileLock, owner>>

\* A mutant: the probe is repeated until it meets a lock.
FinishCheckRetries(t) ==
  /\ At(t, "probing")
  /\ Release(file(t)) /\ Goes(t, "inside")
  /\ UNCHANGED <<isOpen, hasSem, eFileLock, owner, answer>>

FinishCheck(t) ==
  /\ At(t, "probing")
  /\ Release(file(t))
  /\ Returns(t, "none")
  /\ UNCHANGED <<isOpen, hasSem, eFileLock, owner>>

\* quec_close: quec_unlock(NO_LOCK), then the semaphore is deleted and the
\* descriptor cleared.  A connection is closed by the last thread to use it.
Close(t) ==
  /\ At(t, "inside") /\ isOpen[file(t)]
  /\ \A u \in Threads : At(u, "waiting") => file(u) # file(t)
  /\ \/ eFileLock[file(t)] = NO_LOCK /\ Goes(t, "closing") /\ UNCHANGED sem
     \/ eFileLock[file(t)] # NO_LOCK /\ Goes(t, "releasing") /\ Release(file(t))
  /\ UNCHANGED <<isOpen, hasSem, eFileLock, owner, answer>>

ReleaseBeforeClose(t) ==
  /\ At(t, "releasing")
  /\ SetLock(file(t), NO_LOCK)
  /\ Goes(t, "closing")
  /\ UNCHANGED <<isOpen, hasSem, sem, owner, answer>>

FinishClose(t) ==
  /\ At(t, "closing")
  /\ isOpen' = [isOpen EXCEPT ![file(t)] = FALSE]
  /\ hasSem' = [hasSem EXCEPT ![file(t)] = FALSE]
  /\ sem' = [sem EXCEPT ![file(t)] = 0]
  /\ Returns(t, "ok")
  /\ UNCHANGED <<eFileLock, owner>>

Work(t) ==
  \/ Open(t) \/ CheckReserved(t) \/ FinishCheck(t)
  \/ \E level \in Levels \ {NO_LOCK} : Lock(t, level)
  \/ FinishLock(t)
  \/ \E level \in {NO_LOCK, SHARED_LOCK} : Unlock(t, level)
  \/ FinishUnlock(t)
  \/ Close(t) \/ ReleaseBeforeClose(t) \/ FinishClose(t)
  \/ Leave(t)

Next ==
  \E t \in Threads :
    \/ \E h \in Handles : Want(t, h)
    \/ Enter(t)
    \/ Work(t)

\* A thread inside a call is scheduled, and a mutex that is given back again and
\* again is given to every thread that waits for it (QL_WAIT_FOREVER).
Fairness == \A t \in Threads : WF_vars(Work(t)) /\ SF_vars(Enter(t))

Spec == Init /\ [][Next]_vars /\ Fairness
-----------------------------------------------------------------------------
\* Type correctness of the handles, their semaphores and the threads' calls.
TypeOK ==
  /\ isOpen \in [Handles -> BOOLEAN]
  /\ eFileLock \in [Handles -> Levels]
  /\ hasSem \in [Handles -> BOOLEAN]
  /\ sem \in [Handles -> Nat]
  /\ owner \in [Handles -> Threads \cup {NoThread}]
  /\ call \in [Threads -> [step : Steps, file : Handles, level : Levels]]
  /\ answer \in [Threads -> Answers]

\* Between the calls on a handle its semaphore is taken exactly when it has a
\* lock, although quec_lock and quec_unlock change the two in separate steps: a
\* level without the semaphore would let the next quec_unlock release it twice.
\* A handle without a semaphore never gets a lock.  This rests on Disciplined: the
\* comment of quec_unlock (571-572) promises a no-op "at or below the requested locking
\* level", but the code tests only for equality, and at NO_LOCK a request for SHARED
\* sets that level.
MidCall(t) == call[t].step \in {"locking", "unlocking", "probing", "releasing"}
SemaphoreFollowsLock ==
  \A h \in Handles : isOpen[h] =>
    /\ sem[h] \in {0, 1}
    /\ (\A t \in Threads : MidCall(t) => file(t) # h) =>
         (sem[h] = 1 <=> hasSem[h] /\ eFileLock[h] = NO_LOCK)
    /\ ~hasSem[h] => eFileLock[h] = NO_LOCK

\* xLock returns SQLITE_BUSY, and the probe of xCheckReservedLock meets "someone
\* else" (os_quec_rtos.c:553), only on a handle whose semaphore could not be
\* created, where they are all it ever returns: nobody but the handle's own thread
\* uses a semaphore, whatever the other connections hold.  The lock that keeps
\* connections apart is not there.
RefusedOnlyWithoutSemaphore ==
  \A t \in Threads : At(t, "done") /\ answer[t] \in {"busy", "other"} => ~hasSem[file(t)]

\* Every thread that asks for a connection's mutex makes its call and is done.
CallsFinish == \A t \in Threads : At(t, "waiting") ~> At(t, "idle")

\* xCheckReservedLock "checks if there is a RESERVED lock held on the specified
\* file by this or any other process" (os_quec_rtos.c:532-533): a probe that is
\* going to answer "no" starts while no handle of the file has one.
ReservedIsSeen ==
  [][\A t \in Threads : ~At(t, "probing") /\ At(t, "probing")' =>
       \A h \in Handles : isOpen[h] => eFileLock[h] <= SHARED_LOCK]_vars
=============================================================================
