--------------------------- MODULE VfsLockProofs ---------------------------
(* The locks of one handle and the mutex that guards it. *)
EXTENDS VfsLock, TLAPS

\* A thread that is neither idle nor waiting has its connection's mutex.
InMutex == \A t \in Threads : call[t].step \notin {"idle", "waiting"} => owner[file(t)] = t

Refused(a) == a \in {"busy", "other"}

\* In the middle of a call the handle is open, and this is what the semaphore and
\* the level are between the two steps that change them; a call that was refused
\* has met a handle without a semaphore.
MidCallState ==
  \A t \in Threads :
    /\ call[t].step \in {"locking", "probing"} =>
         isOpen[file(t)] /\ hasSem[file(t)] /\ sem[file(t)] = 0 /\ eFileLock[file(t)] = NO_LOCK
    /\ call[t].step \in {"unlocking", "releasing"} =>
         isOpen[file(t)] /\ hasSem[file(t)] /\ sem[file(t)] = 1 /\ eFileLock[file(t)] # NO_LOCK
    /\ call[t].step = "locking" => call[t].level # NO_LOCK
    /\ call[t].step = "closing" => isOpen[file(t)]
    /\ call[t].step = "done" /\ Refused(answer[t]) => ~hasSem[file(t)]

Settled(h) == \A t \in Threads : MidCall(t) => file(t) # h
AtRest(h) ==
  /\ sem[h] = IF hasSem[h] /\ eFileLock[h] = NO_LOCK THEN 1 ELSE 0
  /\ ~hasSem[h] => eFileLock[h] = NO_LOCK
AtRestState == \A h \in Handles : isOpen[h] /\ Settled(h) => AtRest(h)

\* The inductive invariant: the semaphore follows the lock because no second
\* thread is inside the mutex between the two steps that change them.
IInv == TypeOK /\ InMutex /\ MidCallState /\ AtRestState

LEMMA InitInvariant == Init => IInv
BY DEF Init, IInv, TypeOK, InMutex, MidCallState, AtRestState, Steps, Answers,
       Levels, NO_LOCK, SHARED_LOCK, file, Settled, MidCall

\* What a step of t inside the mutex leaves alone: everything of other handles
\* and other threads.
Local(t) ==
  /\ \A h \in Handles : h # file(t) =>
       /\ isOpen'[h] = isOpen[h] /\ hasSem'[h] = hasSem[h]
       /\ sem'[h] = sem[h] /\ eFileLock'[h] = eFileLock[h]
  /\ \A u \in Threads : u # t => call'[u] = call[u] /\ answer'[u] = answer[u]
  /\ owner' = owner
  /\ call'[t].file = call[t].file

\* The state of the handle that t works on, after the step.
Consistent(t) ==
  /\ call'[t].step \in {"locking", "probing"} =>
       /\ isOpen'[file(t)] /\ hasSem'[file(t)] /\ sem'[file(t)] = 0
       /\ eFileLock'[file(t)] = NO_LOCK
  /\ call'[t].step \in {"unlocking", "releasing"} =>
       /\ isOpen'[file(t)] /\ hasSem'[file(t)] /\ sem'[file(t)] = 1
       /\ eFileLock'[file(t)] # NO_LOCK
  /\ call'[t].step = "locking" => call'[t].level # NO_LOCK
  /\ call'[t].step = "closing" => isOpen'[file(t)]
  /\ call'[t].step = "done" /\ Refused(answer'[t]) => ~hasSem'[file(t)]
  /\ call'[t].step \notin {"locking", "probing", "unlocking", "releasing"} /\ isOpen'[file(t)] =>
       /\ sem'[file(t)] = IF hasSem'[file(t)] /\ eFileLock'[file(t)] = NO_LOCK THEN 1 ELSE 0
       /\ ~hasSem'[file(t)] => eFileLock'[file(t)] = NO_LOCK

\* A step inside the mutex preserves the invariant when it is local and leaves its
\* own handle consistent.
LEMMA LocalStep ==
  ASSUME IInv, NEW t \in Threads, TypeOK', Local(t), Consistent(t),
         call[t].step \notin {"idle", "waiting"}, call'[t].step \notin {"idle", "waiting"}
  PROVE  IInv'
<1>1. \A u \in Threads : u # t /\ call[u].step \notin {"idle", "waiting"} => file(u) # file(t)
  BY DEF IInv, InMutex
<1>2. \A u \in Threads : file(u)' = file(u) /\ (u # t => call'[u] = call[u])
  BY DEF Local, file
<1>3. InMutex'
  <2> SUFFICES ASSUME NEW u \in Threads, call'[u].step \notin {"idle", "waiting"}
               PROVE  owner'[file(u)'] = u
    BY DEF InMutex
  <2>1. owner[file(u)] = u
    BY <1>2 DEF IInv, InMutex
  <2> QED BY <1>2, <2>1 DEF Local
<1>4. \A u \in Threads : u # t /\ call[u].step \notin {"idle", "waiting"} =>
        /\ isOpen'[file(u)] = isOpen[file(u)] /\ hasSem'[file(u)] = hasSem[file(u)]
        /\ sem'[file(u)] = sem[file(u)] /\ eFileLock'[file(u)] = eFileLock[file(u)]
        /\ answer'[u] = answer[u]
  BY <1>1 DEF Local, IInv, TypeOK, file
<1>5. MidCallState'
  <2> SUFFICES ASSUME NEW u \in Threads
               PROVE  /\ call'[u].step \in {"locking", "probing"} =>
                           /\ isOpen'[file(u)'] /\ hasSem'[file(u)'] /\ sem'[file(u)'] = 0
                           /\ eFileLock'[file(u)'] = NO_LOCK
                      /\ call'[u].step \in {"unlocking", "releasing"} =>
                           /\ isOpen'[file(u)'] /\ hasSem'[file(u)'] /\ sem'[file(u)'] = 1
                           /\ eFileLock'[file(u)'] # NO_LOCK
                      /\ call'[u].step = "locking" => call'[u].level # NO_LOCK
                      /\ call'[u].step = "closing" => isOpen'[file(u)']
                      /\ call'[u].step = "done" /\ Refused(answer'[u]) => ~hasSem'[file(u)']
    BY DEF MidCallState, Refused
  <2>1. CASE u = t
    BY <1>2, <2>1 DEF Consistent
  <2>2. CASE u # t
    BY <1>2, <1>4, <2>2 DEF IInv, MidCallState
  <2> QED BY <2>1, <2>2
<1>6. AtRestState'
  <2> SUFFICES ASSUME NEW h \in Handles, isOpen'[h], Settled(h)'
               PROVE  /\ sem'[h] = IF hasSem'[h] /\ eFileLock'[h] = NO_LOCK THEN 1 ELSE 0
                      /\ ~hasSem'[h] => eFileLock'[h] = NO_LOCK
    BY DEF AtRestState, AtRest
  <2>1. CASE h = file(t)
    BY <1>2, <2>1 DEF Consistent, Settled, MidCall
  <2>2. CASE h # file(t)
    <3>1. Settled(h)
      BY <1>2, <2>2 DEF Settled, MidCall
    <3> QED BY <2>2, <3>1 DEF IInv, AtRestState, AtRest, Local
  <2> QED BY <2>1, <2>2
<1> QED BY <1>3, <1>5, <1>6 DEF IInv

LEMMA InsideFacts ==
  ASSUME IInv, NEW t \in Threads, call[t].step \notin {"idle", "waiting"}
  PROVE  /\ file(t) \in Handles /\ sem[file(t)] \in Nat /\ eFileLock[file(t)] \in Levels
         /\ isOpen[file(t)] \in BOOLEAN /\ hasSem[file(t)] \in BOOLEAN
         /\ isOpen[file(t)] /\ ~MidCall(t) => AtRest(file(t))
<1>1. /\ file(t) \in Handles /\ sem[file(t)] \in Nat /\ eFileLock[file(t)] \in Levels
      /\ isOpen[file(t)] \in BOOLEAN /\ hasSem[file(t)] \in BOOLEAN
  BY DEF IInv, TypeOK, file
<1>2. ~MidCall(t) => Settled(file(t))
  BY DEF IInv, InMutex, Settled, MidCall
<1> QED BY <1>1, <1>2 DEF IInv, AtRestState

LEMMA WantPreserves ==
  ASSUME IInv, NEW t \in Threads, NEW h \in Handles, Want(t, h)
  PROVE  IInv'
<1>1. TypeOK'
  BY DEF Want, IInv, TypeOK, Steps, Levels, NO_LOCK
<1>2. call[t].step = "idle" /\ call'[t].step = "waiting" /\ \A u \in Threads : u # t => call'[u] = call[u]
  BY DEF Want, At, IInv, TypeOK
<1>3. \A g : Settled(g)' => Settled(g)
  BY <1>2 DEF Settled, MidCall, file
<1>4. InMutex' /\ MidCallState'
  BY <1>2 DEF Want, IInv, InMutex, MidCallState, file
<1>5. AtRestState'
  BY <1>3 DEF Want, IInv, AtRestState, AtRest
<1> QED BY <1>1, <1>4, <1>5 DEF IInv

LEMMA EnterPreserves ==
  ASSUME IInv, NEW t \in Threads, Enter(t)
  PROVE  IInv'
<1>0. file(t) \in Handles /\ t # NoThread
  BY NoThreadAssumption DEF IInv, TypeOK, file
<1>1. TypeOK'
  BY <1>0 DEF Enter, Goes, IInv, TypeOK, Steps
<1>2. /\ call[t].step = "waiting" /\ call'[t].step = "inside" /\ call'[t].file = call[t].file
      /\ \A u \in Threads : u # t => call'[u] = call[u]
  BY DEF Enter, At, Goes, IInv, TypeOK
<1>3. \A g : Settled(g)' => Settled(g)
  BY <1>2 DEF Settled, MidCall, file
<1>4. owner[file(t)] = NoThread /\ owner' = [owner EXCEPT ![file(t)] = t]
      /\ owner \in [Handles -> Threads \cup {NoThread}]
  BY DEF Enter, IInv, TypeOK
<1>5. InMutex'
  <2> SUFFICES ASSUME NEW u \in Threads, call'[u].step \notin {"idle", "waiting"}
               PROVE  owner'[file(u)'] = u
    BY DEF InMutex
  <2>1. CASE u = t
    BY <1>0, <1>2, <1>4, <2>1 DEF file
  <2>2. CASE u # t
    <3>1. owner[file(u)] = u /\ file(u)' = file(u) /\ file(u) \in Handles /\ u # NoThread
      BY <1>2, <2>2, NoThreadAssumption DEF IInv, InMutex, TypeOK, file
    <3> QED BY <1>4, <3>1
  <2> QED BY <2>1, <2>2
<1>6. MidCallState'
  BY <1>2 DEF Enter, IInv, MidCallState, file
<1>7. AtRestState'
  BY <1>3 DEF Enter, IInv, AtRestState, AtRest
<1> QED BY <1>1, <1>5, <1>6, <1>7 DEF IInv

LEMMA LeavePreserves ==
  ASSUME IInv, NEW t \in Threads, Leave(t)
  PROVE  IInv'
<1>1. TypeOK'
  BY DEF Leave, Goes, IInv, TypeOK, Steps, file
<1>2. /\ call[t].step = "done" /\ call'[t].step = "idle" /\ call'[t].file = call[t].file
      /\ \A u \in Threads : u # t => call'[u] = call[u]
  BY DEF Leave, At, Goes, IInv, TypeOK
<1>3. \A g : Settled(g)' => Settled(g)
  BY <1>2 DEF Settled, MidCall, file
<1>4. owner' = [owner EXCEPT ![file(t)] = NoThread] /\ owner \in [Handles -> Threads \cup {NoThread}]
  BY DEF Leave, IInv, TypeOK
<1>5. InMutex'
  <2> SUFFICES ASSUME NEW u \in Threads, call'[u].step \notin {"idle", "waiting"}
               PROVE  owner'[file(u)'] = u
    BY DEF InMutex
  <2>1. u # t
    BY <1>2
  <2>2. owner[file(u)] = u /\ owner[file(t)] = t /\ file(u)' = file(u) /\ file(u) \in Handles
    BY <1>2, <2>1 DEF IInv, InMutex, TypeOK, file
  <2> QED BY <1>4, <2>1, <2>2
<1>6. MidCallState'
  BY <1>2 DEF Leave, IInv, MidCallState, file
<1>7. AtRestState'
  BY <1>3 DEF Leave, IInv, AtRestState, AtRest
<1> QED BY <1>1, <1>5, <1>6, <1>7 DEF IInv

LEMMA OpenPreserves ==
  ASSUME IInv, NEW t \in Threads, Open(t)
  PROVE  IInv'
<1>0. call[t].step = "inside" /\ ~isOpen[file(t)]
  BY DEF Open, At
<1>1. TypeOK'
  <2>1. call' \in [Threads -> [step : Steps, file : Handles, level : Levels]]
        /\ answer' \in [Threads -> Answers] /\ owner' = owner
    BY DEF Open, Returns, Goes, IInv, TypeOK, Steps, Answers
  <2>2. isOpen' \in [Handles -> BOOLEAN] /\ hasSem' \in [Handles -> BOOLEAN] /\ sem' \in [Handles -> Nat]
    <3>1. isOpen \in [Handles -> BOOLEAN] /\ hasSem \in [Handles -> BOOLEAN] /\ sem \in [Handles -> Nat]
      BY DEF IInv, TypeOK
    <3>2. CASE isOpen' = isOpen /\ hasSem' = hasSem /\ sem' = sem
      BY <3>1, <3>2
    <3>3. ASSUME NEW made \in BOOLEAN,
                 isOpen' = [isOpen EXCEPT ![file(t)] = TRUE],
                 hasSem' = [hasSem EXCEPT ![file(t)] = made],
                 sem' = [sem EXCEPT ![file(t)] = IF made THEN 1 ELSE 0]
          PROVE  isOpen' \in [Handles -> BOOLEAN] /\ hasSem' \in [Handles -> BOOLEAN] /\ sem' \in [Handles -> Nat]
      <4>1. isOpen' \in [Handles -> BOOLEAN] /\ hasSem' \in [Handles -> BOOLEAN]
        BY <3>1, <3>3, ZenonT(30)
      <4>2. sem' \in [Handles -> Nat]
        <5>1. (IF made THEN 1 ELSE 0) \in Nat
          BY SMT
        <5> QED BY <3>1, <3>3, <5>1, ZenonT(30)
      <4> QED BY <4>1, <4>2
    <3> QED BY <3>2, <3>3 DEF Open
  <2>3. eFileLock' \in [Handles -> Levels]
    BY DEF Open, SetLock, IInv, TypeOK, Levels
  <2> QED BY <2>1, <2>2, <2>3 DEF IInv, TypeOK
<1>2. Local(t) /\ call'[t].step = "done" /\ answer'[t] = "ok"
  BY DEF Open, Returns, Goes, SetLock, IInv, TypeOK, Local, file
<1>3. Consistent(t)
  <2>1. file(t) \in Handles /\ ~Refused(answer'[t]) /\ sem \in [Handles -> Nat]
        /\ isOpen \in [Handles -> BOOLEAN] /\ hasSem \in [Handles -> BOOLEAN]
        /\ eFileLock \in [Handles -> Levels]
    BY <1>0, <1>2, InsideFacts DEF Refused, IInv, TypeOK
  <2> QED BY <1>0, <1>2, <2>1 DEF Open, SetLock, Consistent
<1> QED BY <1>0, <1>1, <1>2, <1>3, LocalStep

LEMMA LockPreserves ==
  ASSUME IInv, Disciplined, NEW t \in Threads, NEW level \in Levels, Lock(t, level)
  PROVE  IInv'
<1>0. /\ call[t].step = "inside" /\ isOpen[file(t)] /\ ~MidCall(t)
      /\ Rises(eFileLock[file(t)], level) /\ eFileLock[file(t)] \in Levels
      /\ hasSem[file(t)] \in BOOLEAN
  BY InsideFacts DEF Lock, At, MidCall
<1>a. level # NO_LOCK
  BY <1>0 DEF Rises, Levels, NO_LOCK, SHARED_LOCK, RESERVED_LOCK, PENDING_LOCK, EXCLUSIVE_LOCK
<1>1. file(t) \in Handles /\ AtRest(file(t))
  BY <1>0, InsideFacts
<1>2. CASE eFileLock[file(t)] > NO_LOCK /\ SetLock(file(t), level) /\ Returns(t, "ok") /\ UNCHANGED sem
  <2>1. TypeOK'
    BY <1>2 DEF Lock, Returns, Goes, SetLock, IInv, TypeOK, Steps, Answers, file
  <2>2. Local(t) /\ call'[t].step = "done" /\ answer'[t] = "ok"
    BY <1>2 DEF Lock, Returns, Goes, SetLock, IInv, TypeOK, Local, file
  <2>3. eFileLock[file(t)] # NO_LOCK /\ eFileLock'[file(t)] = level
    BY <1>1, <1>2 DEF SetLock, IInv, TypeOK, NO_LOCK
  <2>4. hasSem[file(t)] /\ sem'[file(t)] = 0 /\ hasSem'[file(t)]
    BY <1>1, <1>2, <2>3 DEF AtRest, Lock
  <2>5. Consistent(t)
    BY <1>a, <2>2, <2>3, <2>4 DEF Consistent, Refused
  <2> QED BY <1>0, <2>1, <2>2, <2>5, LocalStep
<1>3. CASE /\ eFileLock[file(t)] = NO_LOCK /\ Take(file(t)) /\ UNCHANGED <<answer, eFileLock>>
           /\ call' = [call EXCEPT ![t].step = "locking", ![t].level = level]
  <2>1. sem'[file(t)] = 0 /\ sem' \in [Handles -> Nat] /\ hasSem[file(t)]
    BY <1>0, <1>1, <1>3 DEF Take, IInv, TypeOK, AtRest
  <2>2. TypeOK'
    BY <1>3, <2>1, ZenonT(40) DEF Lock, IInv, TypeOK, Steps
  <2>3. Local(t) /\ call'[t].step = "locking" /\ call'[t].level = level
    BY <1>3 DEF Lock, Take, IInv, TypeOK, Local, file
  <2>4. Consistent(t)
    BY <1>0, <1>a, <1>3, <2>1, <2>3 DEF Lock, Consistent
  <2> QED BY <1>0, <2>2, <2>3, <2>4, LocalStep
<1>4. CASE /\ eFileLock[file(t)] = NO_LOCK /\ sem[file(t)] = 0
           /\ Returns(t, "busy") /\ UNCHANGED <<sem, eFileLock>>
  <2>1. TypeOK'
    BY <1>4 DEF Lock, Returns, Goes, IInv, TypeOK, Steps, Answers
  <2>2. Local(t) /\ call'[t].step = "done" /\ answer'[t] = "busy"
    BY <1>4 DEF Lock, Returns, Goes, IInv, TypeOK, Local
  <2>3. ~hasSem[file(t)]
    BY <1>1, <1>4 DEF AtRest
  <2>4. Consistent(t)
    BY <1>0, <1>1, <1>4, <2>2, <2>3 DEF Lock, Consistent, AtRest
  <2> QED BY <1>0, <2>1, <2>2, <2>4, LocalStep
<1> QED BY <1>2, <1>3, <1>4 DEF Lock

LEMMA FinishLockPreserves ==
  ASSUME IInv, NEW t \in Threads, FinishLock(t)
  PROVE  IInv'
<1>0. call[t].step = "locking" /\ file(t) \in Handles /\ isOpen[file(t)] /\ sem[file(t)] = 0
      /\ hasSem[file(t)] /\ call[t].level # NO_LOCK
  BY DEF FinishLock, At, IInv, MidCallState, TypeOK, file
<1>1. TypeOK'
  BY <1>0 DEF FinishLock, Returns, Goes, SetLock, IInv, TypeOK, Steps, Answers
<1>2. Local(t) /\ call'[t].step = "done" /\ answer'[t] = "ok"
  BY DEF FinishLock, Returns, Goes, SetLock, IInv, TypeOK, Local, file
<1>3. Consistent(t)
  BY <1>0, <1>2 DEF FinishLock, SetLock, IInv, TypeOK, Consistent, Refused
<1> QED BY <1>0, <1>1, <1>2, <1>3, LocalStep

LEMMA UnlockPreserves ==
  ASSUME IInv, Disciplined, NEW t \in Threads, NEW level \in {NO_LOCK, SHARED_LOCK},
         Unlock(t, level)
  PROVE  IInv'
<1>0. call[t].step = "inside" /\ isOpen[file(t)] /\ ~MidCall(t) /\ level <= eFileLock[file(t)]
  BY DEF Unlock, At, MidCall
<1>1. /\ file(t) \in Handles /\ NO_LOCK # SHARED_LOCK /\ SHARED_LOCK \in Levels
      /\ AtRest(file(t)) /\ hasSem[file(t)] \in BOOLEAN
  BY <1>0, InsideFacts DEF NO_LOCK, SHARED_LOCK, Levels
<1>2. CASE eFileLock[file(t)] = level /\ Returns(t, "ok") /\ UNCHANGED <<eFileLock, sem>>
  <2>1. TypeOK'
    BY <1>2 DEF Unlock, Returns, Goes, IInv, TypeOK, Steps, Answers
  <2>2. Local(t) /\ call'[t].step = "done" /\ answer'[t] = "ok"
    BY <1>2 DEF Unlock, Returns, Goes, IInv, TypeOK, Local
  <2>3. Consistent(t)
    BY <1>0, <1>1, <1>2, <2>2 DEF Unlock, Consistent, AtRest, Refused
  <2> QED BY <1>0, <2>1, <2>2, <2>3, LocalStep
<1>3. CASE /\ eFileLock[file(t)] # level /\ level = SHARED_LOCK
           /\ SetLock(file(t), SHARED_LOCK) /\ Returns(t, "ok") /\ UNCHANGED sem
  <2>1. TypeOK'
    BY <1>1, <1>3 DEF Unlock, Returns, Goes, SetLock, IInv, TypeOK, Steps, Answers
  <2>2. Local(t) /\ call'[t].step = "done" /\ answer'[t] = "ok"
    BY <1>3 DEF Unlock, Returns, Goes, SetLock, IInv, TypeOK, Local, file
  <2>3. eFileLock[file(t)] # NO_LOCK /\ eFileLock'[file(t)] = SHARED_LOCK
    BY <1>0, <1>1, <1>3 DEF SetLock, IInv, TypeOK, NO_LOCK, SHARED_LOCK
  <2>4. sem'[file(t)] = 0 /\ hasSem'[file(t)]
    BY <1>1, <1>3, <2>3 DEF Unlock, AtRest
  <2>5. Consistent(t)
    BY <1>1, <2>2, <2>3, <2>4 DEF Consistent, Refused
  <2> QED BY <1>0, <2>1, <2>2, <2>5, LocalStep
<1>4. CASE /\ eFileLock[file(t)] # level /\ level = NO_LOCK
           /\ Release(file(t)) /\ Goes(t, "unlocking") /\ UNCHANGED <<eFileLock, answer>>
  <2>1. hasSem[file(t)] /\ sem[file(t)] = 0
    BY <1>1, <1>4 DEF AtRest
  <2>2. sem'[file(t)] = 1 /\ sem' \in [Handles -> Nat]
    BY <1>1, <1>4, <2>1 DEF Release, IInv, TypeOK
  <2>3. TypeOK'
    BY <1>4, <2>2 DEF Unlock, Goes, IInv, TypeOK, Steps
  <2>4. Local(t) /\ call'[t].step = "unlocking"
    BY <1>4 DEF Unlock, Release, Goes, IInv, TypeOK, Local, file
  <2>5. Consistent(t)
    BY <1>0, <1>4, <2>1, <2>2, <2>4 DEF Unlock, Consistent
  <2> QED BY <1>0, <2>3, <2>4, <2>5, LocalStep
<1> QED BY <1>2, <1>3, <1>4 DEF Unlock

LEMMA FinishUnlockPreserves ==
  ASSUME IInv, NEW t \in Threads, FinishUnlock(t)
  PROVE  IInv'
<1>0. call[t].step = "unlocking" /\ file(t) \in Handles /\ isOpen[file(t)] /\ sem[file(t)] = 1
      /\ hasSem[file(t)]
  BY DEF FinishUnlock, At, IInv, MidCallState, TypeOK, file
<1>1. TypeOK'
  BY <1>0 DEF FinishUnlock, Returns, Goes, SetLock, IInv, TypeOK, Steps, Answers, Levels
<1>2. Local(t) /\ call'[t].step = "done" /\ answer'[t] = "ok"
  BY DEF FinishUnlock, Returns, Goes, SetLock, IInv, TypeOK, Local, file
<1>3. Consistent(t)
  BY <1>0, <1>2 DEF FinishUnlock, SetLock, IInv, TypeOK, Consistent, Refused
<1> QED BY <1>0, <1>1, <1>2, <1>3, LocalStep

LEMMA CheckReservedPreserves ==
  ASSUME IInv, NEW t \in Threads, CheckReserved(t)
  PROVE  IInv'
<1>0. call[t].step = "inside" /\ isOpen[file(t)] /\ ~MidCall(t)
  BY DEF CheckReserved, At, MidCall
<1>1. /\ file(t) \in Handles /\ eFileLock[file(t)] \in Levels /\ AtRest(file(t))
      /\ hasSem[file(t)] \in BOOLEAN
  BY <1>0, InsideFacts
<1>2. ASSUME NEW a \in {"reserved", "other", "none"}, Returns(t, a), UNCHANGED <<eFileLock, sem>>,
             Refused(a) => ~hasSem[file(t)]
      PROVE  IInv'
  <2>1. TypeOK'
    <3>1. a \in Answers /\ "done" \in Steps
      BY <1>2 DEF Answers, Steps
    <3>2. call' \in [Threads -> [step : Steps, file : Handles, level : Levels]]
      BY <1>2, <3>1 DEF Returns, Goes, IInv, TypeOK
    <3>3. answer' \in [Threads -> Answers]
      BY <1>2, <3>1 DEF Returns, IInv, TypeOK
    <3>4. UNCHANGED <<isOpen, hasSem, eFileLock, sem, owner>>
      BY <1>2 DEF CheckReserved
    <3> QED BY <3>2, <3>3, <3>4 DEF IInv, TypeOK
  <2>2. Local(t) /\ call'[t].step = "done" /\ answer'[t] = a
    BY <1>2 DEF CheckReserved, Returns, Goes, IInv, TypeOK, Local
  <2>3. Consistent(t)
    BY <1>0, <1>1, <1>2, <2>2 DEF CheckReserved, Consistent, AtRest
  <2> QED BY <1>0, <2>1, <2>2, <2>3, LocalStep
<1>3. sem[file(t)] = 0 /\ eFileLock[file(t)] < SHARED_LOCK => ~hasSem[file(t)]
  BY <1>1 DEF AtRest, Levels, NO_LOCK, SHARED_LOCK, RESERVED_LOCK, PENDING_LOCK, EXCLUSIVE_LOCK
<1>4. CASE Take(file(t)) /\ Goes(t, "probing") /\ UNCHANGED <<answer, eFileLock>>
  <2>1. sem[file(t)] = 1 /\ hasSem[file(t)] /\ eFileLock[file(t)] = NO_LOCK
    BY <1>1, <1>4 DEF Take, AtRest
  <2>2. sem'[file(t)] = 0 /\ sem' \in [Handles -> Nat]
    BY <1>1, <1>4, <2>1 DEF Take, IInv, TypeOK
  <2>3. TypeOK'
    BY <1>4, <2>2 DEF CheckReserved, Goes, IInv, TypeOK, Steps
  <2>4. Local(t) /\ call'[t].step = "probing"
    BY <1>4 DEF CheckReserved, Take, Goes, IInv, TypeOK, Local, file
  <2>5. Consistent(t)
    BY <1>0, <1>4, <2>1, <2>2, <2>4 DEF CheckReserved, Consistent
  <2> QED BY <1>0, <2>3, <2>4, <2>5, LocalStep
<1>5. CASE eFileLock[file(t)] > SHARED_LOCK /\ Returns(t, "reserved") /\ UNCHANGED <<eFileLock, sem>>
  <2>1. ~Refused("reserved")
    BY DEF Refused
  <2> QED BY <1>2, <1>5, <2>1
<1>6. CASE /\ sem[file(t)] = 0 /\ UNCHANGED <<eFileLock, sem>>
           /\ Returns(t, IF eFileLock[file(t)] < SHARED_LOCK THEN "other" ELSE "none")
  <2>1. CASE eFileLock[file(t)] < SHARED_LOCK
    BY <1>2, <1>3, <1>6, <2>1
  <2>2. CASE ~(eFileLock[file(t)] < SHARED_LOCK)
    <3>1. ~Refused("none")
      BY DEF Refused
    <3> QED BY <1>2, <1>6, <2>2, <3>1
  <2> QED BY <2>1, <2>2
<1> QED BY <1>4, <1>5, <1>6 DEF CheckReserved

LEMMA FinishCheckPreserves ==
  ASSUME IInv, NEW t \in Threads, FinishCheck(t)
  PROVE  IInv'
<1>0. /\ call[t].step = "probing" /\ file(t) \in Handles /\ isOpen[file(t)] /\ sem[file(t)] = 0
      /\ hasSem[file(t)] /\ eFileLock[file(t)] = NO_LOCK
  BY DEF FinishCheck, At, IInv, MidCallState, TypeOK, file
<1>1. sem'[file(t)] = 1 /\ sem' \in [Handles -> Nat]
  BY <1>0 DEF FinishCheck, Release, IInv, TypeOK
<1>2. TypeOK'
  BY <1>1 DEF FinishCheck, Returns, Goes, IInv, TypeOK, Steps, Answers
<1>3. Local(t) /\ call'[t].step = "done" /\ answer'[t] = "none"
  BY DEF FinishCheck, Returns, Goes, Release, IInv, TypeOK, Local, file
<1>4. Consistent(t)
  BY <1>0, <1>1, <1>3 DEF FinishCheck, Consistent, Refused
<1> QED BY <1>0, <1>2, <1>3, <1>4, LocalStep

LEMMA ClosePreserves ==
  ASSUME IInv, NEW t \in Threads, Close(t)
  PROVE  IInv'
<1>0. call[t].step = "inside" /\ isOpen[file(t)] /\ ~MidCall(t)
  BY DEF Close, At, MidCall
<1>1. file(t) \in Handles /\ AtRest(file(t)) /\ hasSem[file(t)] \in BOOLEAN
  BY <1>0, InsideFacts
<1>2. CASE eFileLock[file(t)] = NO_LOCK /\ Goes(t, "closing") /\ UNCHANGED sem
  <2>1. TypeOK'
    BY <1>2 DEF Close, Goes, IInv, TypeOK, Steps
  <2>2. Local(t) /\ call'[t].step = "closing"
    BY <1>2 DEF Close, Goes, IInv, TypeOK, Local
  <2>3. Consistent(t)
    BY <1>0, <1>1, <1>2, <2>2 DEF Close, Consistent, AtRest
  <2> QED BY <1>0, <2>1, <2>2, <2>3, LocalStep
<1>3. CASE eFileLock[file(t)] # NO_LOCK /\ Goes(t, "releasing") /\ Release(file(t))
  <2>1. sem'[file(t)] = 1 /\ sem' \in [Handles -> Nat] /\ hasSem[file(t)]
    BY <1>1, <1>3 DEF Release, IInv, TypeOK, AtRest
  <2>2. TypeOK'
    BY <1>3, <2>1 DEF Close, Goes, IInv, TypeOK, Steps
  <2>3. Local(t) /\ call'[t].step = "releasing"
    BY <1>3 DEF Close, Goes, Release, IInv, TypeOK, Local, file
  <2>4. Consistent(t)
    BY <1>0, <1>3, <2>1, <2>3 DEF Close, Consistent
  <2> QED BY <1>0, <2>2, <2>3, <2>4, LocalStep
<1> QED BY <1>2, <1>3 DEF Close

LEMMA ReleaseBeforeClosePreserves ==
  ASSUME IInv, NEW t \in Threads, ReleaseBeforeClose(t)
  PROVE  IInv'
<1>0. call[t].step = "releasing" /\ file(t) \in Handles /\ isOpen[file(t)] /\ sem[file(t)] = 1
      /\ hasSem[file(t)]
  BY DEF ReleaseBeforeClose, At, IInv, MidCallState, TypeOK, file
<1>1. TypeOK'
  BY <1>0 DEF ReleaseBeforeClose, Goes, SetLock, IInv, TypeOK, Steps, Levels
<1>2. Local(t) /\ call'[t].step = "closing"
  BY DEF ReleaseBeforeClose, Goes, SetLock, IInv, TypeOK, Local, file
<1>3. Consistent(t)
  BY <1>0, <1>2 DEF ReleaseBeforeClose, SetLock, IInv, TypeOK, Consistent
<1> QED BY <1>0, <1>1, <1>2, <1>3, LocalStep

LEMMA FinishClosePreserves ==
  ASSUME IInv, NEW t \in Threads, FinishClose(t)
  PROVE  IInv'
<1>0. call[t].step = "closing" /\ file(t) \in Handles
  BY DEF FinishClose, At, IInv, TypeOK, file
<1>1. TypeOK'
  BY <1>0 DEF FinishClose, Returns, Goes, IInv, TypeOK, Steps, Answers
<1>2. Local(t) /\ call'[t].step = "done" /\ answer'[t] = "ok" /\ ~isOpen'[file(t)]
  BY <1>0 DEF FinishClose, Returns, Goes, IInv, TypeOK, Local, file
<1>3. Consistent(t)
  BY <1>2 DEF Consistent, Refused
<1> QED BY <1>0, <1>1, <1>2, <1>3, LocalStep

LEMMA StepInvariant ==
  ASSUME Disciplined
  PROVE  IInv /\ [Next]_vars => IInv'
<1> SUFFICES ASSUME IInv, [Next]_vars PROVE IInv'
  OBVIOUS
<1>1. CASE UNCHANGED vars
  BY <1>1 DEF vars, IInv, TypeOK, InMutex, MidCallState, AtRestState, AtRest, file, Settled,
              MidCall
<1>2. CASE Next
  BY <1>2, WantPreserves, EnterPreserves, LeavePreserves, OpenPreserves, LockPreserves,
     FinishLockPreserves, UnlockPreserves, FinishUnlockPreserves, CheckReservedPreserves,
     FinishCheckPreserves, ClosePreserves, ReleaseBeforeClosePreserves, FinishClosePreserves
  DEF Next, Work
<1> QED BY <1>1, <1>2

LEMMA InvariantHolds ==
  ASSUME Disciplined
  PROVE  Spec => []IInv
<1> QED BY InitInvariant, StepInvariant, PTL DEF Spec

\* For any number of threads and connections, the handles, their semaphores and
\* the calls keep their types.
THEOREM TypeCorrect ==
  ASSUME Disciplined
  PROVE  Spec => []TypeOK
<1>1. IInv => TypeOK
  BY DEF IInv
<1> QED BY <1>1, InvariantHolds, PTL

LEMMA FollowsFromInvariant == IInv => SemaphoreFollowsLock
<1> SUFFICES ASSUME IInv, NEW h \in Handles, isOpen[h]
             PROVE  /\ sem[h] \in {0, 1}
                    /\ (\A t \in Threads : MidCall(t) => file(t) # h) =>
                         (sem[h] = 1 <=> hasSem[h] /\ eFileLock[h] = NO_LOCK)
                    /\ ~hasSem[h] => eFileLock[h] = NO_LOCK
  BY DEF SemaphoreFollowsLock
<1>1. CASE Settled(h)
  <2>1. AtRest(h)
    BY <1>1 DEF IInv, AtRestState
  <2> QED BY <2>1 DEF AtRest
<1>2. CASE ~Settled(h)
  BY <1>2 DEF Settled, MidCall, IInv, MidCallState
<1> QED BY <1>1, <1>2

\* The mutex keeps the two steps of quec_lock and of quec_unlock together, and a
\* handle whose semaphore could not be created gets no lock: at rest, a handle's
\* semaphore is taken exactly when the handle has a lock.  Callers must lower a
\* lock when they call xUnlock: quec_unlock does not see to it itself.
THEOREM SemaphoreFollows ==
  ASSUME Disciplined
  PROVE  Spec => []SemaphoreFollowsLock
<1> QED BY FollowsFromInvariant, InvariantHolds, PTL

\* With a semaphore per handle a lock request is refused only when that semaphore
\* could not be created, whatever the other connections to the file hold.
THEOREM RefusalsMeanNoSemaphore ==
  ASSUME Disciplined
  PROVE  Spec => []RefusedOnlyWithoutSemaphore
<1>1. IInv => RefusedOnlyWithoutSemaphore
  BY DEF IInv, MidCallState, RefusedOnlyWithoutSemaphore, At, Refused
<1> QED BY <1>1, InvariantHolds, PTL
=============================================================================
