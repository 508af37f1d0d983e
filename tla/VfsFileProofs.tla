--------------------------- MODULE VfsFileProofs ---------------------------
(* The file I/O of VfsFile for any number of handles, threads and files. *)
EXTENDS VfsFile, SequenceTheorems, TLAPS

Calls == {Idle} \cup Opens \cup Sizes \cup Transfers \cup Answers

Active(t) == call[t].step \in {"create", "size", "read", "write", "hint"}

\* Two threads in the middle of a call are on two handles.
Apart ==
  \A t, u \in Threads : t # u /\ Active(t) /\ Active(u) => call[t].on # call[u].on

\* The byte of a size hint lies at or after the size that was read, and is the last
\* of a block or of the size asked for.
Reaches(c) ==
  /\ c.off >= c.size
  /\ c.off + 1 >= Smaller(c.want, (c.size \div Block + 1) * Block)

HintsPlaced ==
  \A t \in Threads :
    /\ call[t].step = "size" => fd[call[t].on] # NoFile /\ call[t].want > call[t].size
    /\ call[t].step = "hint" => Reaches(call[t])

\* The inductive invariant: a position stays where the seek left it because the
\* mutex of the connection keeps a second thread from the handle.
IInv == TypeOK /\ SeekHolds /\ Apart /\ HintsPlaced
-----------------------------------------------------------------------------
\* What a call in each step looks like.
LEMMA CallShapes ==
  ASSUME TypeOK, NEW t \in Threads
  PROVE  /\ call[t].step = "create" => call[t] \in Opens
         /\ call[t].step = "size" => call[t] \in Sizes
         /\ InTransfer(t) => call[t] \in Transfers
BY DEF TypeOK, Idle, Opens, Sizes, Transfers, Answers, InTransfer

\* An answer on a handle or on a name, and what it does to the calls.
LEMMA AnswerTypes ==
  ASSUME TypeOK, NEW t \in Threads, NEW x, NEW rc, NEW buf,
         Answer(t, x, rc, buf),
         \/ x \in Handles /\ rc \in {"ok", "error"} /\ buf \in Seq(Byte \cup {Stale})
         \/ x \in Handles /\ rc = "short_read" /\ buf \in Seq({0})
         \/ x \in Names /\ rc = "ok" /\ buf = << >>
  PROVE  /\ call' \in [Threads -> Calls]
         /\ call'[t] = [step |-> "done", on |-> x, rc |-> rc, buf |-> buf]
         /\ \A u \in Threads : u # t => call'[u] = call[u]
<1> DEFINE v == [step |-> "done", on |-> x, rc |-> rc, buf |-> buf]
<1>1. v \in Answers
  BY DEF Answers
<1>2. call' = [call EXCEPT ![t] = v]
  BY DEF Answer
<1>3. call \in [Threads -> Calls]
  BY DEF TypeOK, Calls
<1> HIDE DEF v
<1>4. call' \in [Threads -> Calls]
  BY <1>1, <1>2, <1>3 DEF Calls
<1>5. call'[t] = v /\ \A u \in Threads : u # t => call'[u] = call[u]
  BY <1>2, <1>3
<1> QED BY <1>4, <1>5 DEF v

\* The answer of a call that returns no bytes.
LEMMA PlainAnswer ==
  ASSUME TypeOK, NEW t \in Threads, NEW h \in Handles, NEW rc \in {"ok", "error"},
         Answer(t, h, rc, << >>)
  PROVE  /\ call' \in [Threads -> Calls]
         /\ call'[t].step = "done"
         /\ \A u \in Threads : u # t => call'[u] = call[u]
<1>1. << >> \in Seq(Byte \cup {Stale})
  OBVIOUS
<1>2. /\ call' \in [Threads -> Calls]
      /\ call'[t] = [step |-> "done", on |-> h, rc |-> rc, buf |-> << >>]
      /\ \A u \in Threads : u # t => call'[u] = call[u]
  BY <1>1, AnswerTypes
<1> QED BY <1>2

LEMMA EmptyTyped == \A S : << >> \in Seq(S)
OBVIOUS

\* A step of t that works on handle h, which no other thread is in the middle of a
\* call on.
LEMMA LocalStep ==
  ASSUME IInv, NEW t \in Threads, NEW h \in Handles,
         \A u \in Threads : u # t /\ Active(u) => call[u].on # h,
         \A g \in Handles : g # h => fd'[g] = fd[g] /\ pos'[g] = pos[g],
         \A u \in Threads : u # t => call'[u] = call[u],
         call'[t].step \in {"create", "size", "read", "write", "hint"} => call'[t].on = h,
         call'[t].step \in {"read", "write", "hint"} =>
           fd'[h] # NoFile /\ pos'[h] = call'[t].off,
         call'[t].step = "size" => fd'[h] # NoFile /\ call'[t].want > call'[t].size,
         call'[t].step = "hint" => Reaches(call'[t])
  PROVE  SeekHolds' /\ Apart' /\ HintsPlaced'
<1>1. SeekHolds'
  <2> SUFFICES ASSUME NEW u \in Threads, InTransfer(u)'
               PROVE  fd'[call'[u].on] # NoFile /\ pos'[call'[u].on] = call'[u].off
    BY DEF SeekHolds
  <2>1. CASE u = t
    BY <2>1 DEF InTransfer
  <2>2. CASE u # t
    <3>1. call'[u] = call[u] /\ InTransfer(u) /\ Active(u)
      BY <2>2 DEF InTransfer, Active
    <3>2. call[u].on \in Handles /\ call[u].on # h
      BY <2>2, <3>1, CallShapes DEF IInv, Transfers
    <3> QED BY <3>1, <3>2 DEF IInv, SeekHolds
  <2> QED BY <2>1, <2>2
<1>2. Apart'
  <2> SUFFICES ASSUME NEW u \in Threads, NEW w \in Threads, u # w, Active(u)', Active(w)'
               PROVE  call'[u].on # call'[w].on
    BY DEF Apart
  <2>1. CASE u = t
    BY <2>1 DEF Active
  <2>2. CASE w = t
    BY <2>2 DEF Active
  <2>3. CASE u # t /\ w # t
    BY <2>3 DEF Active, IInv, Apart
  <2> QED BY <2>1, <2>2, <2>3
<1>3. HintsPlaced'
  <2> SUFFICES ASSUME NEW u \in Threads
               PROVE  /\ call'[u].step = "size" =>
                           fd'[call'[u].on] # NoFile /\ call'[u].want > call'[u].size
                      /\ call'[u].step = "hint" => Reaches(call'[u])
    BY DEF HintsPlaced, Reaches
  <2>1. CASE u = t
    BY <2>1
  <2>2. CASE u # t
    <3>1. call'[u] = call[u]
      BY <2>2
    <3>2. call[u].step = "size" => call[u].on \in Handles /\ call[u].on # h
      BY <2>2, CallShapes DEF IInv, Sizes, Active
    <3> QED BY <3>1, <3>2 DEF IInv, HintsPlaced
  <2> QED BY <2>1, <2>2
<1> QED BY <1>1, <1>2, <1>3

\* A step that moves no descriptor and leaves t outside of any call on a handle.
LEMMA QuietStep ==
  ASSUME IInv, NEW t \in Threads, UNCHANGED <<fd, pos>>,
         \A u \in Threads : u # t => call'[u] = call[u],
         call'[t].step \in {"idle", "done"}
  PROVE  SeekHolds' /\ Apart' /\ HintsPlaced'
BY DEF IInv, SeekHolds, Apart, HintsPlaced, Reaches, InTransfer, Active

\* The mutex of a connection that is free is not held in the middle of a call.
LEMMA FreeHandle ==
  ASSUME NEW h \in Handles, Free(h)
  PROVE  \A u \in Threads : Active(u) => call[u].on # h
BY DEF Free, Active, Idle
-----------------------------------------------------------------------------
LEMMA SmallerIsNat == \A a, b \in Nat : Smaller(a, b) \in Nat /\ Smaller(a, b) <= a /\ Smaller(a, b) <= b
BY DEF Smaller

\* What Patched returns: the data where it was written, the old bytes elsewhere,
\* zeros between the old end and the data.
LEMMA PatchedBytes ==
  ASSUME NEW S, 0 \in S, NEW c \in Seq(S), NEW p \in Nat, NEW data \in Seq(S)
  PROVE  /\ Patched(c, p, data) \in Seq(S)
         /\ \A i \in DOMAIN Patched(c, p, data) :
              \/ p < i /\ i <= p + Len(data) /\ Patched(c, p, data)[i] = data[i - p]
              \/ i \in DOMAIN c /\ Patched(c, p, data)[i] = c[i]
              \/ i \notin DOMAIN c /\ Patched(c, p, data)[i] = 0
<1> DEFINE n == Larger(Len(c), p + Len(data))
           g == [i \in 1 .. n |-> IF p < i /\ i <= p + Len(data) THEN data[i - p]
                                  ELSE IF i <= Len(c) THEN c[i] ELSE 0]
<1>1. CASE data = << >>
  BY <1>1 DEF Patched
<1>2. CASE data # << >>
  <2>1. Patched(c, p, data) = g
    BY <1>2 DEF Patched
  <2>2. n \in Nat
    BY DEF Larger
  <2> HIDE DEF n
  <2>3. \A i \in 1 .. n : p < i /\ i <= p + Len(data) => i - p \in 1 .. Len(data)
    BY <2>2
  <2>4. \A i \in 1 .. n : g[i] \in S
    BY <2>2, <2>3
  <2>5. g \in Seq(S)
    BY <2>2, <2>4
  <2>6. \A i \in 1 .. n :
          \/ p < i /\ i <= p + Len(data) /\ g[i] = data[i - p]
          \/ i \in DOMAIN c /\ g[i] = c[i]
          \/ i \notin DOMAIN c /\ g[i] = 0
    BY <2>2
  <2> QED BY <2>1, <2>5, <2>6
<1> QED BY <1>1, <1>2
LEMMA DivIsNat == \A a \in Nat, b \in Nat \ {0} : a \div b \in Nat
<1> SUFFICES ASSUME NEW a \in Nat, NEW b \in Nat \ {0} PROVE a \div b \in Nat
  OBVIOUS
<1> DEFINE q == a \div b
<1>0. b \in Nat /\ b > 0
  OBVIOUS
<1>1. q \in Int
  BY <1>0
<1>7. a % b \in 0 .. b - 1
  BY <1>0
<1>2. a = (q * b) + (a % b)
  BY <1>0
<1> HIDE DEF q
<1>3. q < 0 => q * b <= 0 - b
  BY <1>0, <1>1 DEF q
<1>4. a % b < b /\ a % b \in Nat
  BY <1>7
<1>5. ~ (q < 0)
  BY <1>1, <1>2, <1>3, <1>4
<1> QED BY <1>1, <1>5 DEF q

\* A size hint that grows the file starts to write at or after its end, and what it
\* writes first is the last byte of a block or of the size asked for.
LEMMA HintOffsetBeyond ==
  ASSUME NEW size \in Nat, NEW nSize \in Nat, nSize > size
  PROVE  /\ HintOffset(size, nSize) \in Nat /\ HintOffset(size, nSize) >= size
         /\ HintOffset(size, nSize) + 1 >= Smaller(nSize, (size \div Block + 1) * Block)
<1> DEFINE q == size \div Block
<1>1. Block \in Nat /\ Block > 0
  BY SizesAssumption
<1>2. q \in Nat /\ size % Block \in 0 .. Block - 1
  BY <1>1, DivIsNat
<1>3. size = (q * Block) + (size % Block) /\ q * Block \in Nat
  BY <1>1, <1>2
<1> DEFINE iWrite == q * Block + Block - 1
<1>4. iWrite \in Nat /\ iWrite >= size
  BY <1>1, <1>2, <1>3
<1>5. HintOffset(size, nSize) = IF iWrite >= nSize THEN nSize - 1 ELSE iWrite
  BY DEF HintOffset
<1>6. (q + 1) * Block = iWrite + 1
  <2>1. (q + 1) * Block = (q * Block) + Block
    BY <1>1, <1>2
  <2> QED BY <1>1, <1>3, <2>1
<1> HIDE DEF iWrite, q
<1> DEFINE x == Smaller(nSize, iWrite + 1)
<1>7. x \in Nat /\ x <= nSize /\ x <= iWrite + 1
  BY <1>4, SmallerIsNat
<1> HIDE DEF x
<1>8. HintOffset(size, nSize) \in Nat /\ HintOffset(size, nSize) >= size
  BY <1>4, <1>5
<1>9. HintOffset(size, nSize) + 1 >= x
  BY <1>4, <1>5, <1>7
<1> QED BY <1>6, <1>8, <1>9 DEF x, q

LEMMA SweptTyped ==
  ASSUME NEW d, NEW o, NEW c \in [Files -> Seq(Byte)]
  PROVE  /\ Swept(d, o, c) \in [Files -> Seq(Byte)]
         /\ \A f \in Files : Swept(d, o, c)[f] \in {c[f], << >>}
BY EmptyTyped DEF Swept
-----------------------------------------------------------------------------
LEMMA InitInvariant == Init => IInv
<1> SUFFICES ASSUME Init PROVE IInv
  OBVIOUS
<1>1. TypeOK
  BY EmptyTyped DEF Init, TypeOK
<1>2. SeekHolds /\ Apart /\ HintsPlaced
  BY DEF Init, SeekHolds, Apart, HintsPlaced, InTransfer, Active, Idle
<1> QED BY <1>1, <1>2 DEF IInv

\* Opened moves the descriptor of h alone, and ends the call.
LEMMA OpenedStep ==
  ASSUME IInv, NEW t \in Threads, NEW h \in Handles, NEW n \in Names, NEW flags,
         NEW f \in Files, Opened(t, h, n, flags, f), content' \in [Files -> Seq(Byte)],
         \A u \in Threads : u # t /\ Active(u) => call[u].on # h
  PROVE  IInv'
<1>1. /\ call' \in [Threads -> Calls]
      /\ call'[t].step = "done"
      /\ \A u \in Threads : u # t => call'[u] = call[u]
  <2>1. Answer(t, h, "ok", << >>)
    BY DEF Opened
  <2> QED BY <2>1, PlainAnswer DEF IInv
<1>2. TypeOK'
  BY <1>1 DEF IInv, TypeOK, Opened, Calls
<1>3. \A g \in Handles : g # h => fd'[g] = fd[g] /\ pos'[g] = pos[g]
  BY DEF IInv, TypeOK, Opened
<1>4. SeekHolds' /\ Apart' /\ HintsPlaced'
  BY <1>1, <1>3, LocalStep
<1> QED BY <1>2, <1>4 DEF IInv

LEMMA OpenStep ==
  ASSUME IInv, NEW t \in Threads, NEW h \in Handles, NEW n \in Names, NEW flags \in OpenFlags,
         Open(t, h, n, flags)
  PROVE  IInv'
<1>1. \A u \in Threads : Active(u) => call[u].on # h
  BY FreeHandle DEF Open
<1>2. CASE dir[n] # NoFile /\ Opened(t, h, n, flags, dir[n])
  <2>1. dir[n] \in Files /\ content' \in [Files -> Seq(Byte)]
    BY <1>2 DEF Open, IInv, TypeOK
  <2> QED BY <1>1, <1>2, <2>1, OpenedStep
<1>3. CASE /\ call' = [call EXCEPT ![t] = [step |-> "create", on |-> h, name |-> n, flags |-> flags]]
           /\ UNCHANGED <<dir, fd, pos, szChunk>>
  <2> DEFINE v == [step |-> "create", on |-> h, name |-> n, flags |-> flags]
  <2>1. v \in Opens /\ v.step = "create" /\ v.on = h
    BY DEF Opens
  <2>2. call' = [call EXCEPT ![t] = v] /\ call \in [Threads -> Calls]
    BY <1>3 DEF IInv, TypeOK, Calls
  <2> HIDE DEF v
  <2>3. /\ call' \in [Threads -> Calls] /\ call'[t] = v
        /\ \A u \in Threads : u # t => call'[u] = call[u]
    BY <2>1, <2>2 DEF Calls
  <2>4. TypeOK'
    BY <1>3, <2>3 DEF Open, IInv, TypeOK, Calls
  <2>5. SeekHolds' /\ Apart' /\ HintsPlaced'
    BY <1>1, <1>3, <2>1, <2>3, LocalStep
  <2> QED BY <2>4, <2>5 DEF IInv
<1>4. CASE Answer(t, h, "error", << >>) /\ UNCHANGED <<dir, fd, pos, szChunk>>
  <2>1. /\ call' \in [Threads -> Calls]
        /\ call'[t].step = "done"
        /\ \A u \in Threads : u # t => call'[u] = call[u]
    BY <1>4, PlainAnswer DEF IInv
  <2>2. TypeOK'
    BY <1>4, <2>1 DEF Open, IInv, TypeOK, Calls
  <2>3. SeekHolds' /\ Apart' /\ HintsPlaced'
    BY <1>4, <2>1, QuietStep
  <2> QED BY <2>2, <2>3 DEF IInv
<1> QED BY <1>2, <1>3, <1>4 DEF Open

LEMMA FinishOpenStep ==
  ASSUME IInv, NEW t \in Threads, FinishOpen(t)
  PROVE  IInv'
<1> DEFINE h == call[t].on
           n == call[t].name
<1>1. call[t] \in Opens
  BY CallShapes DEF FinishOpen, IInv
<1>2. h \in Handles /\ n \in Names
  BY <1>1 DEF Opens
<1>3. \A u \in Threads : u # t /\ Active(u) => call[u].on # h
  BY DEF FinishOpen, Active, IInv, Apart
<1>4. CASE /\ dir[n] # NoFile
           /\ Opened(t, h, n, call[t].flags, dir[n])
           /\ content' = [content EXCEPT ![dir[n]] = << >>]
  <2>1. dir[n] \in Files
    BY <1>2, <1>4 DEF IInv, TypeOK
  <2>2. content' \in [Files -> Seq(Byte)]
    BY <1>4, <2>1, EmptyTyped DEF IInv, TypeOK
  <2> HIDE DEF h, n
  <2> QED BY <1>2, <1>3, <1>4, <2>1, <2>2, OpenedStep
<1>5. CASE UNCHANGED content /\ \E f \in Files : Opened(t, h, n, call[t].flags, f)
  <2>1. content' \in [Files -> Seq(Byte)]
    BY <1>5 DEF IInv, TypeOK
  <2>2. PICK f \in Files : Opened(t, h, n, call[t].flags, f)
    BY <1>5
  <2> HIDE DEF h, n
  <2> QED BY <1>2, <1>3, <2>1, <2>2, OpenedStep
<1>6. CASE Answer(t, h, "error", << >>) /\ UNCHANGED <<dir, content, fd, pos, szChunk>>
  <2>1. /\ call' \in [Threads -> Calls]
        /\ call'[t].step = "done"
        /\ \A u \in Threads : u # t => call'[u] = call[u]
    BY <1>2, <1>6, PlainAnswer DEF IInv
  <2>2. TypeOK'
    BY <1>6, <2>1 DEF IInv, TypeOK, Calls
  <2>3. SeekHolds' /\ Apart' /\ HintsPlaced'
    BY <1>6, <2>1, QuietStep
  <2> QED BY <2>2, <2>3 DEF IInv
<1> QED BY <1>4, <1>5, <1>6 DEF FinishOpen

LEMMA CloseStep ==
  ASSUME IInv, NEW t \in Threads, NEW h \in Handles, Close(t, h)
  PROVE  IInv'
<1>1. \A u \in Threads : Active(u) => call[u].on # h
  BY FreeHandle DEF Close
<1>2. /\ call' \in [Threads -> Calls]
      /\ call'[t].step = "done"
      /\ \A u \in Threads : u # t => call'[u] = call[u]
  <2>1. PICK rc \in {"ok", "error"} : Answer(t, h, rc, << >>)
    BY DEF Close
  <2> QED BY <2>1, PlainAnswer DEF IInv
<1>3. content' \in [Files -> Seq(Byte)]
  BY SweptTyped DEF Close, IInv, TypeOK
<1>4. TypeOK'
  BY <1>2, <1>3 DEF Close, IInv, TypeOK, Calls
<1>5. \A g \in Handles : g # h => fd'[g] = fd[g] /\ pos'[g] = pos[g]
  BY DEF Close, IInv, TypeOK
<1>6. SeekHolds' /\ Apart' /\ HintsPlaced'
  BY <1>1, <1>2, <1>5, LocalStep
<1> QED BY <1>4, <1>6 DEF IInv

LEMMA DeleteStep ==
  ASSUME IInv, NEW t \in Threads, NEW n \in Names, Delete(t, n)
  PROVE  IInv'
<1>1. /\ call' \in [Threads -> Calls]
      /\ call'[t].step = "done"
      /\ \A u \in Threads : u # t => call'[u] = call[u]
  <2>1. Answer(t, n, "ok", << >>)
    BY DEF Delete
  <2>2. /\ call' \in [Threads -> Calls]
        /\ call'[t] = [step |-> "done", on |-> n, rc |-> "ok", buf |-> << >>]
        /\ \A u \in Threads : u # t => call'[u] = call[u]
    BY <2>1, AnswerTypes DEF IInv
  <2> QED BY <2>2
<1>2. content' \in [Files -> Seq(Byte)]
  BY SweptTyped DEF Delete, IInv, TypeOK
<1>3. TypeOK'
  BY <1>1, <1>2 DEF Delete, IInv, TypeOK, Calls
<1>4. SeekHolds' /\ Apart' /\ HintsPlaced'
  BY <1>1, QuietStep DEF Delete
<1> QED BY <1>3, <1>4 DEF IInv
\* The seek of a read, a write or a size hint.
LEMMA SeekStep ==
  ASSUME IInv, NEW t \in Threads, NEW h \in Handles, NEW next \in Transfers, next.on = h,
         fd[h] # NoFile, \A u \in Threads : u # t /\ Active(u) => call[u].on # h,
         Seek(t, next), UNCHANGED <<dir, content, fd, szChunk>>,
         next.step = "hint" => Reaches(next)
  PROVE  IInv'
<1>1. CASE /\ pos' = [pos EXCEPT ![h] = next.off]
           /\ call' = [call EXCEPT ![t] = next]
  <2>1. /\ call' \in [Threads -> Calls] /\ call'[t] = next
        /\ \A u \in Threads : u # t => call'[u] = call[u]
    BY <1>1 DEF IInv, TypeOK, Calls
  <2>2. next.off \in Nat
    BY DEF Transfers
  <2>3. /\ pos' \in [Handles -> Nat] /\ pos'[h] = next.off
        /\ \A g \in Handles : g # h => pos'[g] = pos[g]
    BY <1>1, <2>2 DEF IInv, TypeOK
  <2>4. TypeOK'
    BY <2>1, <2>3 DEF IInv, TypeOK, Calls
  <2>a. next.step # "size"
    BY DEF Transfers
  <2>5. SeekHolds' /\ Apart' /\ HintsPlaced'
    BY <2>1, <2>3, <2>a, LocalStep
  <2> QED BY <2>4, <2>5 DEF IInv
<1>2. CASE Answer(t, h, "error", << >>) /\ UNCHANGED pos
  <2>1. /\ call' \in [Threads -> Calls]
        /\ call'[t].step = "done"
        /\ \A u \in Threads : u # t => call'[u] = call[u]
    BY <1>2, PlainAnswer DEF IInv
  <2>2. TypeOK'
    BY <1>2, <2>1 DEF IInv, TypeOK, Calls
  <2>3. SeekHolds' /\ Apart' /\ HintsPlaced'
    BY <1>2, <2>1, QuietStep
  <2> QED BY <2>2, <2>3 DEF IInv
<1> QED BY <1>1, <1>2 DEF Seek

LEMMA TransferStep ==
  ASSUME IInv, NEW t \in Threads, NEW h \in Handles, NEW step \in {"read", "write"},
         NEW off \in Nat, NEW len \in Nat, Transfer(t, h, step, off, len)
  PROVE  IInv'
<1> DEFINE v == [step |-> step, on |-> h, off |-> off, len |-> len]
<1>1. v \in Transfers /\ v.on = h /\ v.step # "hint"
  BY DEF Transfers
<1>2. Seek(t, v) /\ fd[h] # NoFile /\ Free(h) /\ UNCHANGED <<dir, content, fd, szChunk>>
  BY DEF Transfer
<1> HIDE DEF v
<1> QED BY <1>1, <1>2, FreeHandle, SeekStep

\* The size a hint asks for, and where it starts to write.
LEMMA HintSizes ==
  ASSUME IInv, NEW h \in Handles, fd[h] # NoFile, szChunk[h] > 0, NEW nByte \in Nat \ {0}
  PROVE  /\ Len(content[fd[h]]) \in Nat
         /\ ((nByte + szChunk[h] - 1) \div szChunk[h]) * szChunk[h] \in Nat
<1>1. Len(content[fd[h]]) \in Nat
  BY DEF IInv, TypeOK
<1> DEFINE k == szChunk[h]
<1>2. k \in Nat /\ k > 0
  <2>1. k \in Chunks \cup {0}
    BY DEF IInv, TypeOK
  <2>2. Chunks \subseteq Nat
    BY SizesAssumption
  <2>3. k > 0
    OBVIOUS
  <2> HIDE DEF k
  <2>4. k \in Nat
    BY <2>1, <2>2
  <2> QED BY <2>3, <2>4
<1> HIDE DEF k
<1>3. (nByte + k - 1) \div k \in Nat
  BY <1>2, DivIsNat
<1>4. ((nByte + k - 1) \div k) * k \in Nat
  BY <1>2, <1>3
<1> QED BY <1>1, <1>4 DEF k

LEMMA SizeHintStep ==
  ASSUME IInv, NEW t \in Threads, NEW h \in Handles, NEW nByte \in Nat \ {0}, SizeHint(t, h, nByte)
  PROVE  IInv'
<1> DEFINE size == Len(content[fd[h]])
           nSize == ((nByte + szChunk[h] - 1) \div szChunk[h]) * szChunk[h]
           v == [step |-> "size", on |-> h, size |-> size, want |-> nSize]
<1>1. size \in Nat /\ nSize \in Nat /\ Free(h) /\ fd[h] # NoFile /\ UNCHANGED <<dir, content, fd, pos, szChunk>>
  BY HintSizes DEF SizeHint
<1>2. \/ nSize > size /\ call' = [call EXCEPT ![t] = v]
      \/ \E rc \in {"ok", "error"} : Answer(t, h, rc, << >>)
  BY DEF SizeHint
<1> HIDE DEF size, nSize
<1>3. v \in Sizes /\ v.step = "size" /\ v.on = h /\ v.size = size /\ v.want = nSize
  BY <1>1 DEF Sizes
<1> HIDE DEF v
<1>4. CASE nSize > size /\ call' = [call EXCEPT ![t] = v]
  <2>1. /\ call' \in [Threads -> Calls] /\ call'[t] = v
        /\ \A u \in Threads : u # t => call'[u] = call[u]
    BY <1>3, <1>4 DEF IInv, TypeOK, Calls
  <2>2. TypeOK'
    BY <1>1, <2>1 DEF IInv, TypeOK, Calls
  <2>3. SeekHolds' /\ Apart' /\ HintsPlaced'
    BY <1>1, <1>3, <1>4, <2>1, FreeHandle, LocalStep
  <2> QED BY <2>2, <2>3 DEF IInv
<1>5. CASE \E rc \in {"ok", "error"} : Answer(t, h, rc, << >>)
  <2>1. /\ call' \in [Threads -> Calls]
        /\ call'[t].step = "done"
        /\ \A u \in Threads : u # t => call'[u] = call[u]
    BY <1>5, PlainAnswer DEF IInv
  <2>2. TypeOK'
    BY <1>1, <2>1 DEF IInv, TypeOK, Calls
  <2>3. SeekHolds' /\ Apart' /\ HintsPlaced'
    BY <1>1, <2>1, QuietStep
  <2> QED BY <2>2, <2>3 DEF IInv
<1> QED BY <1>2, <1>4, <1>5

LEMMA SeekHintStep ==
  ASSUME IInv, NEW t \in Threads, SeekHint(t)
  PROVE  IInv'
<1> DEFINE h == call[t].on
           size == call[t].size
           nSize == call[t].want
           off == HintOffset(size, nSize)
           v == [step |-> "hint", on |-> h, off |-> off, len |-> 1, size |-> size, want |-> nSize]
<1>1. Seek(t, v) /\ UNCHANGED <<dir, content, fd, szChunk>> /\ call[t].step = "size"
  BY DEF SeekHint
<1>2. h \in Handles /\ size \in Nat /\ nSize \in Nat
  BY <1>1, CallShapes DEF IInv, Sizes
<1>3. fd[h] # NoFile /\ nSize > size
  BY <1>1 DEF IInv, HintsPlaced
<1>4. \A u \in Threads : u # t /\ Active(u) => call[u].on # h
  BY <1>1 DEF Active, IInv, Apart
<1> HIDE DEF h, size, nSize
<1>5. off \in Nat /\ off >= size /\ off + 1 >= Smaller(nSize, (size \div Block + 1) * Block)
  BY <1>2, <1>3, HintOffsetBeyond
<1> HIDE DEF off
<1>6. v \in Transfers /\ v.on = h /\ Reaches(v)
  BY <1>2, <1>5 DEF Transfers, Reaches
<1> HIDE DEF v
<1> QED BY <1>1, <1>2, <1>3, <1>4, <1>6, SeekStep

\* The end of a transfer, which moves the position of its own descriptor alone.
LEMMA FinishStep ==
  ASSUME IInv, NEW t \in Threads, Active(t), NEW h \in Handles, h = call[t].on,
         call' \in [Threads -> Calls], call'[t].step = "done",
         \A u \in Threads : u # t => call'[u] = call[u],
         content' \in [Files -> Seq(Byte)], pos' \in [Handles -> Nat],
         \A g \in Handles : g # h => pos'[g] = pos[g],
         UNCHANGED <<dir, fd, szChunk>>
  PROVE  IInv'
<1>1. \A u \in Threads : u # t /\ Active(u) => call[u].on # h
  BY DEF IInv, Apart
<1>2. TypeOK'
  BY DEF IInv, TypeOK, Calls
<1>3. SeekHolds' /\ Apart' /\ HintsPlaced'
  BY <1>1, LocalStep
<1> QED BY <1>2, <1>3 DEF IInv

LEMMA TransferParts ==
  ASSUME IInv, NEW t \in Threads, InTransfer(t)
  PROVE  /\ call[t].on \in Handles /\ call[t].off \in Nat /\ call[t].len \in Nat
         /\ fd[call[t].on] \in Files /\ content[fd[call[t].on]] \in Seq(Byte)
         /\ pos[call[t].on] = call[t].off /\ Active(t)
<1>1. call[t] \in Transfers
  BY CallShapes DEF IInv
<1> QED BY <1>1 DEF IInv, SeekHolds, TypeOK, Transfers, Active, InTransfer

LEMMA ZerosTyped == \A n \in Nat : Zeros(n) \in Seq({0}) /\ Stales(n) \in Seq(Byte \cup {Stale})
BY DEF Zeros, Stales

\* The buffer z of a read of n bytes at p got the first g from c.
Holds(z, c, p, n, g) ==
  /\ g \in 1 .. n /\ p + g <= Len(c)
  /\ \A i \in 1 .. n : z[i] = IF i <= g THEN c[p + i] ELSE Stale

\* What a read of up to len bytes at p puts into the buffer: `got` bytes of the file
\* and the rest of what the buffer held.
LEMMA GotBytes ==
  ASSUME NEW c \in Seq(Byte), NEW p \in Nat, p < Len(c), NEW len \in Nat,
         NEW got \in 1 .. (Smaller(p + len, Len(c)) - p)
  PROVE  /\ p + got \in Nat
         /\ SubSeq(c, p + 1, p + got) \o Stales(len - got) \in Seq(Byte \cup {Stale})
         /\ Holds(SubSeq(c, p + 1, p + got) \o Stales(len - got), c, p, len, got)
<1> DEFINE e == Smaller(p + len, Len(c))
<1>0. Len(c) \in Nat /\ p + len \in Nat
  OBVIOUS
<1>1. e \in Nat /\ e <= p + len /\ e <= Len(c)
  BY <1>0 DEF Smaller
<1> HIDE DEF e
<1>2. got \in Nat /\ got >= 1 /\ got <= e - p
  BY <1>1 DEF e
<1>3. got <= len /\ p + got <= Len(c) /\ p + got \in Nat /\ len - got \in Nat
  BY <1>1, <1>2
<1> DEFINE a == SubSeq(c, p + 1, p + got)
           z == Stales(len - got)
<1>4. \A i \in p + 1 .. p + got : c[i] \in Byte
  BY <1>2, <1>3
<1>5. a \in Seq(Byte) /\ Len(a) = got /\ \A i \in 1 .. got : a[i] = c[p + i]
  BY <1>2, <1>3, <1>4
<1>6. /\ z \in Seq(Byte \cup {Stale}) /\ Len(z) = len - got
      /\ \A j \in 1 .. (len - got) : z[j] = Stale
  BY <1>3 DEF Stales
<1> HIDE DEF a, z
<1>7. a \o z \in Seq(Byte \cup {Stale})
  BY <1>5, <1>6
<1>8. ASSUME NEW i \in 1 .. len
      PROVE  (a \o z)[i] = IF i <= got THEN c[p + i] ELSE Stale
  <2>1. CASE i <= got
    <3>1. (a \o z)[i] = a[i]
      BY <1>2, <1>3, <1>5, <1>6, <2>1
    <3> QED BY <1>2, <1>5, <2>1, <3>1
  <2>2. CASE ~(i <= got)
    <3>1. (a \o z)[i] = z[i - got] /\ i - got \in 1 .. (len - got)
      BY <1>2, <1>3, <1>5, <1>6, <2>2
    <3> QED BY <1>6, <2>2, <3>1
  <2> QED BY <2>1, <2>2
<1> DEFINE buf == a \o z
<1>9. /\ buf \in Seq(Byte \cup {Stale})
      /\ \A i \in 1 .. len : buf[i] = IF i <= got THEN c[p + i] ELSE Stale
  BY <1>7, <1>8
<1>10. got \in 1 .. len
  BY <1>2, <1>3
<1> HIDE DEF buf
<1>11. Holds(buf, c, p, len, got)
  BY <1>3, <1>9, <1>10 DEF Holds
<1> QED BY <1>3, <1>9, <1>11 DEF buf, a, z

\* The three ways a read ends.
LEMMA ReadAnswer ==
  ASSUME IInv, NEW t \in Threads, FinishRead(t)
  PROVE  LET h == call[t].on
             c == content[fd[h]]
             len == call[t].len
             p == pos[h]
         IN \/ /\ p >= Len(c) /\ Answer(t, h, "short_read", Zeros(len))
               /\ UNCHANGED pos
            \/ /\ p < Len(c)
               /\ \E got \in 1 .. (Smaller(p + len, Len(c)) - p) :
                    /\ Answer(t, h, "ok", SubSeq(c, p + 1, p + got) \o Stales(len - got))
                    /\ pos' = [pos EXCEPT ![h] = p + got]
            \/ Answer(t, h, "error", << >>) /\ UNCHANGED pos
BY DEF FinishRead

LEMMA FinishReadStep ==
  ASSUME IInv, NEW t \in Threads, FinishRead(t)
  PROVE  IInv'
<1> DEFINE h == call[t].on
           c == content[fd[h]]
           len == call[t].len
           p == pos[h]
<1>1. h \in Handles /\ len \in Nat /\ c \in Seq(Byte) /\ p \in Nat /\ Active(t)
  BY TransferParts DEF FinishRead, InTransfer
<1>2. \/ /\ p >= Len(c) /\ Answer(t, h, "short_read", Zeros(len))
         /\ UNCHANGED pos
      \/ /\ p < Len(c)
         /\ \E got \in 1 .. (Smaller(p + len, Len(c)) - p) :
              /\ Answer(t, h, "ok", SubSeq(c, p + 1, p + got) \o Stales(len - got))
              /\ pos' = [pos EXCEPT ![h] = p + got]
      \/ Answer(t, h, "error", << >>) /\ UNCHANGED pos
  BY ReadAnswer
<1>3. UNCHANGED <<dir, content, fd, szChunk>> /\ pos \in [Handles -> Nat]
      /\ content' \in [Files -> Seq(Byte)] /\ h = call[t].on
  BY DEF FinishRead, IInv, TypeOK
<1> HIDE DEF h, c, len, p
<1>4. CASE Answer(t, h, "short_read", Zeros(len)) /\ UNCHANGED pos
  <2> DEFINE z == Zeros(len)
  <2>1. Answer(t, h, "short_read", z) /\ z \in Seq({0})
    BY <1>1, <1>4, ZerosTyped
  <2> HIDE DEF z
  <2>2. /\ call' \in [Threads -> Calls]
        /\ call'[t] = [step |-> "done", on |-> h, rc |-> "short_read", buf |-> z]
        /\ \A u \in Threads : u # t => call'[u] = call[u]
    BY <1>1, <2>1, AnswerTypes DEF IInv
  <2>3. call'[t].step = "done"
    BY <2>2
  <2> QED BY <1>1, <1>3, <1>4, <2>2, <2>3, FinishStep
<1>5. ASSUME p < Len(c), NEW got \in 1 .. (Smaller(p + len, Len(c)) - p),
             Answer(t, h, "ok", SubSeq(c, p + 1, p + got) \o Stales(len - got)),
             pos' = [pos EXCEPT ![h] = p + got]
      PROVE  IInv'
  <2> DEFINE z == SubSeq(c, p + 1, p + got) \o Stales(len - got)
  <2>1. Answer(t, h, "ok", z) /\ z \in Seq(Byte \cup {Stale}) /\ p + got \in Nat
    BY <1>1, <1>5, GotBytes
  <2> HIDE DEF z
  <2>2. /\ call' \in [Threads -> Calls]
        /\ call'[t] = [step |-> "done", on |-> h, rc |-> "ok", buf |-> z]
        /\ \A u \in Threads : u # t => call'[u] = call[u]
    BY <1>1, <2>1, AnswerTypes DEF IInv
  <2>3. call'[t].step = "done"
    BY <2>2
  <2>4. pos' \in [Handles -> Nat] /\ \A g \in Handles : g # h => pos'[g] = pos[g]
    BY <1>3, <1>5, <2>1
  <2> QED BY <1>1, <1>3, <2>2, <2>3, <2>4, FinishStep
<1>6. CASE Answer(t, h, "error", << >>) /\ UNCHANGED pos
  <2>1. /\ call' \in [Threads -> Calls]
        /\ call'[t].step = "done"
        /\ \A u \in Threads : u # t => call'[u] = call[u]
    BY <1>1, <1>6, PlainAnswer DEF IInv
  <2> QED BY <1>1, <1>3, <1>6, <2>1, FinishStep
<1> QED BY <1>2, <1>4, <1>5, <1>6

\* A write of `done` bytes b at the position of the descriptor changes the file it
\* refers to, there and nowhere else.
LEMMA WriteAtBytes ==
  ASSUME IInv, NEW t \in Threads, InTransfer(t), NEW b \in Byte, NEW done \in 0 .. call[t].len,
         WriteAt(t, b, done)
  PROVE  LET h == call[t].on
             f == fd[h]
         IN /\ content' \in [Files -> Seq(Byte)] /\ pos' \in [Handles -> Nat]
            /\ \A g \in Handles : g # h => pos'[g] = pos[g]
            /\ \A g \in Files : g # f => content'[g] = content[g]
            /\ \A i \in DOMAIN content'[f] :
                 \/ /\ call[t].off < i /\ i <= call[t].off + call[t].len
                    /\ content'[f][i] = b
                 \/ i \in DOMAIN content[f] /\ content'[f][i] = content[f][i]
                 \/ i \notin DOMAIN content[f] /\ content'[f][i] = 0
<1> DEFINE h == call[t].on
           f == fd[h]
           off == call[t].off
           len == call[t].len
           data == [i \in 1 .. done |-> b]
           P == Patched(content[f], off, data)
<1>1. /\ h \in Handles /\ off \in Nat /\ len \in Nat /\ f \in Files
      /\ content[f] \in Seq(Byte) /\ pos[h] = off
  BY TransferParts
<1>2. done \in Nat /\ done <= len
  BY <1>1
<1>3. data \in Seq(Byte) /\ Len(data) = done /\ \A i \in 1 .. done : data[i] = b
  BY <1>2
<1>4. content' = [content EXCEPT ![f] = P] /\ pos' = [pos EXCEPT ![h] = @ + done]
  BY <1>1 DEF WriteAt
<1> HIDE DEF data
<1>5. /\ P \in Seq(Byte)
      /\ \A i \in DOMAIN P :
           \/ off < i /\ i <= off + done /\ P[i] = data[i - off]
           \/ i \in DOMAIN content[f] /\ P[i] = content[f][i]
           \/ i \notin DOMAIN content[f] /\ P[i] = 0
  <2>1. 0 \in Byte
    BY DEF Byte
  <2> DEFINE c == content[f]
  <2>2. c \in Seq(Byte) /\ data \in Seq(Byte) /\ off \in Nat
    BY <1>1, <1>3
  <2> HIDE DEF c, off
  <2>3. /\ Patched(c, off, data) \in Seq(Byte)
        /\ \A i \in DOMAIN Patched(c, off, data) :
             \/ off < i /\ i <= off + Len(data) /\ Patched(c, off, data)[i] = data[i - off]
             \/ i \in DOMAIN c /\ Patched(c, off, data)[i] = c[i]
             \/ i \notin DOMAIN c /\ Patched(c, off, data)[i] = 0
    BY <2>1, <2>2, PatchedBytes
  <2> QED BY <1>3, <2>3 DEF c
<1> HIDE DEF P
<1>6. content' \in [Files -> Seq(Byte)] /\ content'[f] = P
      /\ \A g \in Files : g # f => content'[g] = content[g]
  BY <1>1, <1>4, <1>5 DEF IInv, TypeOK
<1>7. pos' \in [Handles -> Nat] /\ \A g \in Handles : g # h => pos'[g] = pos[g]
  BY <1>1, <1>2, <1>4 DEF IInv, TypeOK
<1>8. \A i \in DOMAIN P : off < i /\ i <= off + done => i <= off + len /\ data[i - off] = b
  <2> SUFFICES ASSUME NEW i \in DOMAIN P, off < i, i <= off + done
               PROVE  i <= off + len /\ data[i - off] = b
    OBVIOUS
  <2>1. i \in Nat
    BY <1>5
  <2>2. i - off \in 1 .. done /\ i <= off + len
    BY <1>1, <1>2, <2>1
  <2> QED BY <1>3, <2>2
<1> QED BY <1>5, <1>6, <1>7, <1>8

LEMMA FinishWriteStep ==
  ASSUME IInv, NEW t \in Threads, FinishWrite(t) \/ FinishHint(t)
  PROVE  IInv'
<1>1. InTransfer(t)
  BY DEF FinishWrite, FinishHint, InTransfer
<1>2. call[t].on \in Handles /\ Active(t)
  BY <1>1, TransferParts
<1>3. PICK rc \in {"ok", "error"} : Answer(t, call[t].on, rc, << >>)
  BY DEF FinishWrite, FinishHint
<1>4. /\ call' \in [Threads -> Calls]
      /\ call'[t].step = "done"
      /\ \A u \in Threads : u # t => call'[u] = call[u]
  BY <1>2, <1>3, PlainAnswer DEF IInv
<1>5. \E b \in Byte, done \in 0 .. call[t].len : WriteAt(t, b, done)
  <2>1. CASE FinishWrite(t)
    BY <2>1 DEF FinishWrite, Byte
  <2>2. CASE FinishHint(t)
    <3>1. call[t].len = 1
      <4>1. call[t].step = "hint" /\ call[t] \in Transfers
        BY <1>1, <2>2, CallShapes DEF FinishHint, IInv
      <4> QED BY <4>1 DEF Transfers
    <3> QED BY <2>2, <3>1 DEF FinishHint, Byte
  <2> QED BY <2>1, <2>2
<1>6. /\ content' \in [Files -> Seq(Byte)] /\ pos' \in [Handles -> Nat]
      /\ \A g \in Handles : g # call[t].on => pos'[g] = pos[g]
  BY <1>1, <1>5, WriteAtBytes
<1>7. UNCHANGED <<dir, fd, szChunk>>
  BY DEF FinishWrite, FinishHint
<1> QED BY <1>2, <1>4, <1>6, <1>7, FinishStep

LEMMA TruncateStep ==
  ASSUME IInv, NEW t \in Threads, NEW h \in Handles, NEW size \in Nat, Truncate(t, h, size)
  PROVE  /\ IInv'
         /\ \A f \in Files : content'[f] = content[f] \/
              /\ content'[f] = SubSeq(content[f], 1, size) /\ content[f] \in Seq(Byte)
              /\ size < Len(content[f])
<1>1. fd[h] \in Files /\ content[fd[h]] \in Seq(Byte)
  BY DEF Truncate, IInv, TypeOK
<1>2. /\ call' \in [Threads -> Calls]
      /\ call'[t].step = "done"
      /\ \A u \in Threads : u # t => call'[u] = call[u]
  <2>1. PICK rc \in {"ok", "error"} : Answer(t, h, rc, << >>)
    BY DEF Truncate
  <2> QED BY <2>1, PlainAnswer DEF IInv
<1>3. content' = [content EXCEPT ![fd[h]] = SubSeq(@, 1, size)] \/ UNCHANGED content
  BY DEF Truncate
<1>4. SubSeq(content[fd[h]], 1, size) \in Seq(Byte) /\ size < Len(content[fd[h]])
  BY <1>1 DEF Truncate
<1>5. content' \in [Files -> Seq(Byte)]
  BY <1>1, <1>3, <1>4 DEF IInv, TypeOK
<1>6. TypeOK'
  BY <1>2, <1>5 DEF Truncate, IInv, TypeOK, Calls
<1>7. SeekHolds' /\ Apart' /\ HintsPlaced'
  BY <1>2, QuietStep DEF Truncate
<1>8. \A f \in Files : content'[f] = content[f] \/
        (f = fd[h] /\ content'[f] = SubSeq(content[f], 1, size))
  BY <1>1, <1>3 DEF IInv, TypeOK
<1> QED BY <1>1, <1>4, <1>6, <1>7, <1>8 DEF IInv

LEMMA ChunkSizeStep ==
  ASSUME IInv, NEW t \in Threads, NEW h \in Handles, NEW size \in Chunks, ChunkSize(t, h, size)
  PROVE  IInv'
<1>1. /\ call' \in [Threads -> Calls]
      /\ call'[t].step = "done"
      /\ \A u \in Threads : u # t => call'[u] = call[u]
  BY PlainAnswer DEF ChunkSize, IInv
<1>2. TypeOK'
  BY <1>1 DEF ChunkSize, IInv, TypeOK, Calls
<1>3. SeekHolds' /\ Apart' /\ HintsPlaced'
  BY <1>1, QuietStep DEF ChunkSize
<1> QED BY <1>2, <1>3 DEF IInv

LEMMA ReturnStep ==
  ASSUME IInv, NEW t \in Threads, Return(t)
  PROVE  IInv'
<1>1. /\ call' \in [Threads -> Calls]
      /\ call'[t].step = "idle"
      /\ \A u \in Threads : u # t => call'[u] = call[u]
  BY DEF Return, IInv, TypeOK, Calls, Idle
<1>2. TypeOK'
  BY <1>1 DEF Return, IInv, TypeOK, Calls
<1>3. SeekHolds' /\ Apart' /\ HintsPlaced'
  BY <1>1, QuietStep DEF Return
<1> QED BY <1>2, <1>3 DEF IInv

\* The steps of Next with their parameters.
LEMMA NextCases ==
  ASSUME Next
  PROVE  \E t \in Threads :
           \/ \E h \in Handles, n \in Names, flags \in OpenFlags : Open(t, h, n, flags)
           \/ \E h \in Handles : Close(t, h)
           \/ \E h \in Handles, step \in {"read", "write"}, off, len \in Nat :
                Transfer(t, h, step, off, len)
           \/ \E h \in Handles, size \in Nat : Truncate(t, h, size)
           \/ \E h \in Handles, size \in Chunks : ChunkSize(t, h, size)
           \/ \E h \in Handles, nByte \in Nat \ {0} : SizeHint(t, h, nByte)
           \/ \E n \in Names : Delete(t, n)
           \/ Finish(t)
<1>1. \A i \in 0 .. MaxSize : i \in Nat
  BY SizesAssumption
<1>2. \A i \in 1 .. MaxSize : i \in Nat \ {0}
  BY SizesAssumption
<1>3. PICK t \in Threads :
        \/ \E h \in Handles : Begin(t, h)
        \/ \E n \in Names : Delete(t, n)
        \/ Finish(t)
  BY DEF Next
<1>4. CASE \E h \in Handles : Begin(t, h)
  <2>1. PICK h \in Handles : Begin(t, h)
    BY <1>4
  <2> QED BY <1>1, <1>2, <2>1 DEF Begin
<1> QED BY <1>3, <1>4

LEMMA StepInvariant == IInv /\ [Next]_vars => IInv'
<1> SUFFICES ASSUME IInv, [Next]_vars PROVE IInv'
  OBVIOUS
<1>1. CASE UNCHANGED vars
  BY <1>1 DEF vars, IInv, TypeOK, SeekHolds, Apart, HintsPlaced, Reaches, InTransfer, Active
<1>2. CASE Next
  <2>1. PICK t \in Threads :
          \/ \E h \in Handles, n \in Names, flags \in OpenFlags : Open(t, h, n, flags)
          \/ \E h \in Handles : Close(t, h)
          \/ \E h \in Handles, step \in {"read", "write"}, off, len \in Nat :
               Transfer(t, h, step, off, len)
          \/ \E h \in Handles, size \in Nat : Truncate(t, h, size)
          \/ \E h \in Handles, size \in Chunks : ChunkSize(t, h, size)
          \/ \E h \in Handles, nByte \in Nat \ {0} : SizeHint(t, h, nByte)
          \/ \E n \in Names : Delete(t, n)
          \/ Finish(t)
    BY <1>2, NextCases
  <2>2. ASSUME NEW h \in Handles, NEW n \in Names, NEW flags \in OpenFlags, Open(t, h, n, flags)
        PROVE  IInv'
    BY <2>2, OpenStep
  <2>3. ASSUME NEW h \in Handles, Close(t, h) PROVE IInv'
    BY <2>3, CloseStep
  <2>4. ASSUME NEW h \in Handles, NEW step \in {"read", "write"}, NEW off \in Nat, NEW len \in Nat,
               Transfer(t, h, step, off, len)
        PROVE  IInv'
    BY <2>4, TransferStep
  <2>5. ASSUME NEW h \in Handles, NEW size \in Nat, Truncate(t, h, size) PROVE IInv'
    BY <2>5, TruncateStep
  <2>6. ASSUME NEW h \in Handles, NEW size \in Chunks, ChunkSize(t, h, size) PROVE IInv'
    BY <2>6, ChunkSizeStep
  <2>7. ASSUME NEW h \in Handles, NEW nByte \in Nat \ {0}, SizeHint(t, h, nByte) PROVE IInv'
    BY <2>7, SizeHintStep
  <2>8. ASSUME NEW n \in Names, Delete(t, n) PROVE IInv'
    BY <2>8, DeleteStep
  <2>9. CASE Finish(t)
    BY <2>9, FinishOpenStep, FinishReadStep, FinishWriteStep, SeekHintStep, ReturnStep DEF Finish
  <2> QED BY <2>1, <2>2, <2>3, <2>4, <2>5, <2>6, <2>7, <2>8, <2>9
<1> QED BY <1>1, <1>2

\* The inductive invariant holds in every reachable state.
THEOREM Invariance == Spec => []IInv
BY InitInvariant, StepInvariant, PTL DEF Spec

\* Descriptors, names, buffers and calls keep their types for any number of threads,
\* handles and files.
THEOREM TypeCorrect == Spec => []TypeOK
<1>1. IInv => TypeOK
  BY DEF IInv
<1> QED BY <1>1, Invariance, PTL

\* Nobody moves or closes a descriptor between the seek and the transfer of another.
THEOREM SeekIsKept == Spec => []SeekHolds
<1>1. IInv => SeekHolds
  BY DEF IInv
<1> QED BY <1>1, Invariance, PTL
-----------------------------------------------------------------------------
\* Byte i of file f after a step is what it was, a zero that was added, or what a
\* write or a size hint that covers it has put there.
Accounted(f, i) ==
  \/ i \in DOMAIN content[f] /\ content'[f][i] = content[f][i]
  \/ i \notin DOMAIN content[f] /\ content'[f][i] = 0
  \/ \E t \in Threads : Covers(t, f, i, content'[f][i])

\* A step that leaves a file alone, empties it or cuts it off adds no byte.
LEMMA ShrunkAccounted ==
  ASSUME NEW f \in Files,
         \/ content'[f] \in {content[f], << >>}
         \/ \E size \in Nat : /\ content'[f] = SubSeq(content[f], 1, size)
                              /\ content[f] \in Seq(Byte) /\ size < Len(content[f])
  PROVE  \A i \in DOMAIN content'[f] : Accounted(f, i)
<1>1. CASE content'[f] = content[f]
  BY <1>1 DEF Accounted
<1>2. CASE content'[f] = << >>
  BY <1>2
<1>3. CASE \E size \in Nat : /\ content'[f] = SubSeq(content[f], 1, size)
                             /\ content[f] \in Seq(Byte) /\ size < Len(content[f])
  <2>1. PICK size \in Nat : /\ content'[f] = SubSeq(content[f], 1, size)
                            /\ content[f] \in Seq(Byte) /\ size < Len(content[f])
    BY <1>3
  <2> DEFINE c == content[f]
  <2>2. c \in Seq(Byte) /\ size < Len(c) /\ content'[f] = SubSeq(c, 1, size)
    BY <2>1
  <2> HIDE DEF c
  <2>3. /\ DOMAIN content'[f] = 1 .. size /\ DOMAIN c = 1 .. Len(c)
        /\ \A i \in 1 .. size : content'[f][i] = c[i]
    BY <2>2
  <2>4. \A i \in 1 .. size : i \in 1 .. Len(c)
    BY <2>2
  <2> QED BY <2>3, <2>4 DEF Accounted, c
<1> QED BY <1>1, <1>2, <1>3

\* The bytes that the end of a write or of a size hint changes are its own.
LEMMA WriteAccounted ==
  ASSUME IInv, NEW t \in Threads, FinishWrite(t) \/ FinishHint(t), NEW f \in Files
  PROVE  \A i \in DOMAIN content'[f] : Accounted(f, i)
<1> DEFINE b == IF call[t].step = "write" THEN t ELSE 0
<1>1. InTransfer(t) /\ call[t].step \in {"write", "hint"}
  BY DEF FinishWrite, FinishHint, InTransfer
<1>2. b \in Byte
  BY DEF Byte
<1>3. \E done \in 0 .. call[t].len : WriteAt(t, b, done)
  <2>1. CASE FinishWrite(t)
    BY <2>1 DEF FinishWrite
  <2>2. CASE FinishHint(t)
    <3>1. call[t].step = "hint" /\ call[t] \in Transfers
      BY <1>1, <2>2, CallShapes DEF FinishHint, IInv
    <3>2. call[t].len = 1
      BY <3>1 DEF Transfers
    <3> QED BY <2>2, <3>1, <3>2 DEF FinishHint
  <2> QED BY <2>1, <2>2
<1> HIDE DEF b
<1>4. /\ \A g \in Files : g # fd[call[t].on] => content'[g] = content[g]
      /\ \A i \in DOMAIN content'[fd[call[t].on]] :
           \/ /\ call[t].off < i /\ i <= call[t].off + call[t].len
              /\ content'[fd[call[t].on]][i] = b
           \/ i \in DOMAIN content[fd[call[t].on]]
              /\ content'[fd[call[t].on]][i] = content[fd[call[t].on]][i]
           \/ i \notin DOMAIN content[fd[call[t].on]] /\ content'[fd[call[t].on]][i] = 0
  BY <1>1, <1>2, <1>3, WriteAtBytes
<1>5. CASE f # fd[call[t].on]
  BY <1>4, <1>5, ShrunkAccounted
<1>6. CASE f = fd[call[t].on]
  BY <1>1, <1>4, <1>6 DEF Accounted, Covers, b
<1> QED BY <1>5, <1>6

LEMMA StepAccounted ==
  ASSUME IInv, [Next]_vars, NEW f \in Files
  PROVE  \A i \in DOMAIN content'[f] : Accounted(f, i)
<1>1. CASE UNCHANGED content
  BY <1>1, ShrunkAccounted
<1>2. CASE \E t \in Threads, h \in Handles : Close(t, h)
  BY <1>2, SweptTyped, ShrunkAccounted DEF Close, IInv, TypeOK
<1>3. CASE \E t \in Threads, n \in Names : Delete(t, n)
  BY <1>3, SweptTyped, ShrunkAccounted DEF Delete, IInv, TypeOK
<1>4. CASE \E t \in Threads, h \in Handles, size \in Nat : Truncate(t, h, size)
  <2>1. PICK t \in Threads, h \in Handles, size \in Nat : Truncate(t, h, size)
    BY <1>4
  <2>2. content'[f] = content[f] \/
          /\ content'[f] = SubSeq(content[f], 1, size) /\ content[f] \in Seq(Byte)
          /\ size < Len(content[f])
    BY <2>1, TruncateStep
  <2> QED BY <2>2, ShrunkAccounted
<1>5. CASE \E t \in Threads : FinishOpen(t)
  <2>1. UNCHANGED content \/ \E g : content' = [content EXCEPT ![g] = << >>]
    BY <1>5 DEF FinishOpen
  <2>2. content'[f] \in {content[f], << >>}
    BY <2>1 DEF IInv, TypeOK
  <2> QED BY <2>2, ShrunkAccounted
<1>6. CASE \E t \in Threads : FinishWrite(t) \/ FinishHint(t)
  BY <1>6, WriteAccounted
<1>7. CASE Next
  BY <1>1, <1>2, <1>3, <1>4, <1>5, <1>6, <1>7, NextCases
     DEF Open, Transfer, ChunkSize, SizeHint, SeekHint, Finish, FinishRead, Return
<1> QED BY <1>1, <1>7 DEF vars

\* Whatever number of threads use whatever number of handles, a byte of a file comes
\* from a write or a size hint for its offset.
THEOREM WritesInRange == Spec => WritesStayInRange
<1> DEFINE A == \A f \in Files : \A i \in DOMAIN content'[f] : Accounted(f, i)
<1>1. IInv /\ [Next]_vars => [A]_vars
  BY StepAccounted
<1>2. Spec => [][A]_vars
  BY <1>1, Invariance, PTL DEF Spec
<1> QED BY <1>2 DEF A, Accounted, WritesStayInRange
-----------------------------------------------------------------------------
\* A step changes the call of one thread, from a step that its action starts in.
LEMMA CallFrame ==
  ASSUME IInv, Next
  PROVE  \E t \in Threads :
           /\ \A u \in Threads : u # t => call'[u] = call[u]
           /\ \/ call[t].step \in {"idle", "create", "size", "write", "hint", "done"}
              \/ FinishRead(t)
<1>1. PICK t \in Threads :
        \/ \E h \in Handles, n \in Names, flags \in OpenFlags : Open(t, h, n, flags)
        \/ \E h \in Handles : Close(t, h)
        \/ \E h \in Handles, step \in {"read", "write"}, off, len \in Nat :
             Transfer(t, h, step, off, len)
        \/ \E h \in Handles, size \in Nat : Truncate(t, h, size)
        \/ \E h \in Handles, size \in Chunks : ChunkSize(t, h, size)
        \/ \E h \in Handles, nByte \in Nat \ {0} : SizeHint(t, h, nByte)
        \/ \E n \in Names : Delete(t, n)
        \/ Finish(t)
  BY NextCases
<1>2. \E v : call' = [call EXCEPT ![t] = v]
  BY <1>1 DEF Open, Opened, Close, Transfer, Truncate, ChunkSize, SizeHint, SeekHint, Seek, Delete,
     Finish, FinishOpen, FinishRead, FinishWrite, FinishHint, Return, Answer
<1>3. \A u \in Threads : u # t => call'[u] = call[u]
  BY <1>2 DEF IInv, TypeOK
<1>4. call[t] = Idle \/ Finish(t)
  BY <1>1 DEF Open, Close, Transfer, Truncate, ChunkSize, SizeHint, Delete
<1>5. Finish(t) =>
        call[t].step \in {"idle", "create", "size", "write", "hint", "done"} \/ FinishRead(t)
  BY DEF Finish, FinishOpen, FinishWrite, SeekHint, FinishHint, Return
<1> QED BY <1>3, <1>4, <1>5 DEF Idle
-----------------------------------------------------------------------------
\* What a read of t that is no error ends with.
Faithful(t) ==
  LET c == content[fd[call[t].on]]
      off == call[t].off
      len == call[t].len
  IN IF call'[t].rc = "short_read" THEN off >= Len(c)
     ELSE \E got \in 1 .. len :
            /\ off + got <= Len(c)
            /\ \A i \in 1 .. len :
                 call'[t].buf[i] = IF i <= got THEN c[off + i] ELSE Stale

LEMMA ReadFaithful ==
  ASSUME IInv, NEW t \in Threads, FinishRead(t), call'[t].rc # "error"
  PROVE  Faithful(t)
<1> DEFINE h == call[t].on
           c == content[fd[h]]
           off == call[t].off
           len == call[t].len
<1>1. h \in Handles /\ len \in Nat /\ off \in Nat /\ c \in Seq(Byte) /\ pos[h] = off
  BY TransferParts DEF FinishRead, InTransfer
<1>2. \/ off >= Len(c) /\ Answer(t, h, "short_read", Zeros(len))
      \/ /\ off < Len(c)
         /\ \E got \in 1 .. (Smaller(off + len, Len(c)) - off) :
              Answer(t, h, "ok", SubSeq(c, off + 1, off + got) \o Stales(len - got))
      \/ Answer(t, h, "error", << >>)
  BY <1>1, ReadAnswer
<1>3. \A rc, buf : Answer(t, h, rc, buf) => call'[t].rc = rc /\ call'[t].buf = buf
  BY DEF Answer, IInv, TypeOK
<1>4. CASE off >= Len(c) /\ Answer(t, h, "short_read", Zeros(len))
  BY <1>3, <1>4 DEF Faithful
<1>5. ASSUME off < Len(c), NEW got \in 1 .. (Smaller(off + len, Len(c)) - off),
             Answer(t, h, "ok", SubSeq(c, off + 1, off + got) \o Stales(len - got))
      PROVE  Faithful(t)
  <2> DEFINE z == SubSeq(c, off + 1, off + got) \o Stales(len - got)
  <2>0. c \in Seq(Byte) /\ off \in Nat /\ len \in Nat
    BY <1>1
  <2> HIDE DEF c, off, len
  <2>1. /\ got \in 1 .. len /\ off + got <= Len(c)
        /\ \A i \in 1 .. len : z[i] = IF i <= got THEN c[off + i] ELSE Stale
    <3>1. off < Len(c) /\ got \in 1 .. (Smaller(off + len, Len(c)) - off)
      BY <1>5
    <3>2. Holds(z, c, off, len, got)
      BY <2>0, <3>1, GotBytes
    <3> QED BY <3>2 DEF Holds
  <2>2. call'[t].buf = z /\ call'[t].rc = "ok"
    BY <1>3, <1>5
  <2> HIDE DEF z
  <2>3. \E g \in 1 .. len :
          /\ off + g <= Len(c)
          /\ \A i \in 1 .. len : call'[t].buf[i] = IF i <= g THEN c[off + i] ELSE Stale
    BY <2>1, <2>2
  <2> QED BY <2>2, <2>3 DEF Faithful, c, off, len
<1> QED BY <1>2, <1>3, <1>4, <1>5

\* A read that succeeds returns the bytes of the file at the offset asked for, with
\* any number of calls of other threads between its seek and its transfer.
THEOREM ReadsAreTheFile == Spec => ReadsReturnTheFile
<1> DEFINE A == \A t \in Threads :
                  call[t].step = "read" /\ call'[t] # call[t] /\ call'[t].rc # "error" =>
                    Faithful(t)
<1>1. ASSUME IInv, Next, NEW t \in Threads, call[t].step = "read", call'[t] # call[t],
             call'[t].rc # "error"
      PROVE  Faithful(t)
  <2>1. PICK u \in Threads :
          /\ \A w \in Threads : w # u => call'[w] = call[w]
          /\ \/ call[u].step \in {"idle", "create", "size", "write", "hint", "done"}
             \/ FinishRead(u)
    BY <1>1, CallFrame
  <2>2. u = t
    BY <1>1, <2>1
  <2>3. FinishRead(t)
    BY <1>1, <2>1, <2>2
  <2> QED BY <1>1, <2>3, ReadFaithful
<1>2. IInv /\ [Next]_vars => [A]_vars
  BY <1>1 DEF vars
<1>3. Spec => [][A]_vars
  BY <1>2, Invariance, PTL DEF Spec
<1> QED BY <1>3 DEF A, Faithful, ReadsReturnTheFile
-----------------------------------------------------------------------------
(* What a size hint has written when its one byte is. *)

\* Writing at a position never makes a file shorter, and reaches past the position.
LEMMA PatchedLength ==
  ASSUME NEW S, NEW c \in Seq(S), NEW p \in Nat, NEW data \in Seq(S)
  PROVE  /\ Len(Patched(c, p, data)) >= Len(c)
         /\ data # << >> => Len(Patched(c, p, data)) >= p + Len(data)
<1> DEFINE n == Larger(Len(c), p + Len(data))
           g == [i \in 1 .. n |-> IF p < i /\ i <= p + Len(data) THEN data[i - p]
                                  ELSE IF i <= Len(c) THEN c[i] ELSE 0]
<1>1. CASE data = << >>
  BY <1>1 DEF Patched
<1>2. CASE data # << >>
  <2>1. Patched(c, p, data) = g
    BY <1>2 DEF Patched
  <2>2. n \in Nat /\ n >= Len(c) /\ n >= p + Len(data)
    BY DEF Larger
  <2> HIDE DEF n
  <2>3. Len(g) = n
    BY <2>2
  <2> QED BY <2>1, <2>2, <2>3
<1> QED BY <1>1, <1>2

LEMMA WriteAtLength ==
  ASSUME IInv, NEW t \in Threads, InTransfer(t), NEW b \in Byte, NEW done \in 0 .. call[t].len,
         WriteAt(t, b, done)
  PROVE  LET f == fd[call[t].on]
         IN  /\ \A g \in Files : Len(content'[g]) >= Len(content[g])
             /\ done # 0 => Len(content'[f]) >= call[t].off + done
             /\ done = 0 => content'[f] = content[f]
<1> DEFINE h == call[t].on
           f == fd[h]
           off == call[t].off
           data == [i \in 1 .. done |-> b]
           P == Patched(content[f], off, data)
<1>1. /\ h \in Handles /\ off \in Nat /\ f \in Files /\ done \in Nat
      /\ content[f] \in Seq(Byte) /\ pos[h] = off
  BY TransferParts
<1>2. data \in Seq(Byte) /\ Len(data) = done
  BY <1>1
<1>3. content' = [content EXCEPT ![f] = P]
  BY <1>1 DEF WriteAt
<1>4. content'[f] = P /\ \A g \in Files : g # f => content'[g] = content[g]
  BY <1>1, <1>3 DEF IInv, TypeOK
<1>5. Len(P) >= Len(content[f]) /\ (data # << >> => Len(P) >= off + Len(data))
  BY <1>1, <1>2, PatchedLength
<1>6. done = 0 => data = << >> /\ P = content[f]
  BY <1>2 DEF Patched
<1>7. done # 0 => data # << >>
  BY <1>2
<1>8. \A g \in Files : Len(content[g]) \in Nat
  BY DEF IInv, TypeOK
<1> HIDE DEF P, data
<1> QED BY <1>1, <1>2, <1>4, <1>5, <1>6, <1>7, <1>8

\* What the byte of a size hint does when it is written.
LEMMA HintWritten ==
  ASSUME IInv, NEW t \in Threads, HintWrites(t)
  PROVE  /\ call[t].off \in Nat /\ call[t].size \in Nat /\ call[t].off >= call[t].size
         /\ HintFile(t) \in Files /\ Len(content[HintFile(t)]) \in Nat
         /\ Len(content'[HintFile(t)]) >=
              Smaller(call[t].want, (call[t].size \div Block + 1) * Block)
<1>1. FinishHint(t) /\ content' # content
  BY DEF HintWrites
<1>2. call[t].step = "hint" /\ call[t] \in Transfers /\ InTransfer(t)
  BY <1>1, CallShapes DEF FinishHint, IInv, InTransfer
<1>3. call[t].len = 1 /\ call[t].off \in Nat /\ call[t].want \in Nat /\ call[t].size \in Nat
  BY <1>2 DEF Transfers
<1>4. PICK done \in {0, 1} : WriteAt(t, 0, done)
  BY <1>1 DEF FinishHint
<1>5. done \in 0 .. call[t].len /\ 0 \in Byte
  BY <1>3 DEF Byte
<1> DEFINE f == fd[call[t].on]
<1>6. /\ f \in Files /\ content[f] \in Seq(Byte) /\ content' \in [Files -> Seq(Byte)]
      /\ \A g \in Files : g # f => content'[g] = content[g]
  BY <1>2, <1>4, <1>5, TransferParts, WriteAtBytes
<1>7. done = 0 => content'[f] = content[f]
  BY <1>2, <1>4, <1>5, WriteAtLength
<1>8. content'[f] # content[f]
  BY <1>1, <1>6 DEF IInv, TypeOK
<1>9. done = 1 /\ Len(content'[f]) >= call[t].off + 1
  BY <1>2, <1>4, <1>5, <1>7, <1>8, WriteAtLength
<1>10. Reaches(call[t])
  BY <1>2 DEF IInv, HintsPlaced
<1> DEFINE x == Smaller(call[t].want, (call[t].size \div Block + 1) * Block)
<1>11. x \in Nat
  <2>1. Block \in Nat \ {0}
    BY SizesAssumption
  <2>2. call[t].size \div Block \in Nat
    BY <1>3, <2>1, DivIsNat
  <2>3. (call[t].size \div Block + 1) * Block \in Nat
    BY <2>1, <2>2
  <2> QED BY <1>3, <2>3, SmallerIsNat
<1>12. call[t].off >= call[t].size /\ call[t].off + 1 >= x
  BY <1>10 DEF Reaches
<1>13. Len(content[f]) \in Nat /\ Len(content'[f]) \in Nat
  BY <1>6
<1> HIDE DEF x
<1>14. Len(content'[f]) >= x
  BY <1>3, <1>9, <1>11, <1>12, <1>13
<1> QED BY <1>3, <1>6, <1>12, <1>13, <1>14 DEF HintFile, x

\* A size hint spares the bytes the file had when its size was read, and fills the
\* block it starts in, for any block size, chunk size and request and whatever other
\* handles do to the file in between.
THEOREM HintsOnlyExtend == Spec => HintsExtend
<1> DEFINE A == \A t \in Threads : HintWrites(t) => SparesOldBytes(t) /\ FillsBlock(t)
<1>1. IInv => A
  <2> SUFFICES ASSUME IInv, NEW t \in Threads, HintWrites(t)
               PROVE  SparesOldBytes(t) /\ FillsBlock(t)
    OBVIOUS
  <2>1. /\ call[t].off \in Nat /\ call[t].size \in Nat /\ call[t].off >= call[t].size
        /\ Len(content[HintFile(t)]) \in Nat
    BY HintWritten
  <2>2. SparesOldBytes(t)
    BY <2>1 DEF SparesOldBytes
  <2>3. FillsBlock(t)
    BY HintWritten DEF FillsBlock
  <2> QED BY <2>2, <2>3
<1> HIDE DEF A
<1>2. IInv /\ [Next]_vars => [A]_vars
  BY <1>1
<1>3. Spec => [][A]_vars
  BY <1>2, Invariance, PTL DEF Spec
<1> QED BY <1>3 DEF A, HintsExtend
-----------------------------------------------------------------------------
(* Which calls take bytes from a file. *)

LEMMA StepKeepsBytes ==
  ASSUME IInv, Next, NEW f \in Files, Referred(f)', Len(content'[f]) < Len(content[f])
  PROVE  Truncates(f) \/ CreatesAgain(f)
<1>1. PICK t \in Threads :
        \/ \E h \in Handles : Begin(t, h)
        \/ \E n \in Names : Delete(t, n)
        \/ Finish(t)
  BY DEF Next
<1>2. content \in [Files -> Seq(Byte)] /\ Len(content[f]) \in Nat /\ content' # content
  BY DEF IInv, TypeOK
<1>3. \A d, o : Referred(f)' /\ d = dir' /\ o = fd' => Swept(d, o, content)[f] = content[f]
  BY DEF Swept, Referred
<1>4. ~(Len(content[f]) < Len(content[f])) /\ content'[f] # content[f]
  BY <1>2
<1>5. ASSUME NEW h \in Handles, Begin(t, h)
      PROVE  Truncates(f)
  <2>1. ASSUME NEW size \in 0 .. MaxSize, Truncate(t, h, size)
        PROVE  Truncates(f)
    <3>1. content' = [content EXCEPT ![fd[h]] = SubSeq(@, 1, size)]
      BY <1>2, <2>1 DEF Truncate
    <3>2. fd[h] = f
      BY <1>2, <1>4, <3>1
    <3> QED BY <2>1, <3>2 DEF Truncates
  <2>2. ~Close(t, h)
    BY <1>3, <1>4 DEF Close
  <2>3. \A n, flags : ~Open(t, h, n, flags)
    BY <1>2 DEF Open
  <2>4. \A step, off, len : ~Transfer(t, h, step, off, len)
    BY <1>2 DEF Transfer
  <2>5. \A size : ~ChunkSize(t, h, size) /\ ~SizeHint(t, h, size)
    BY <1>2 DEF ChunkSize, SizeHint
  <2> QED BY <1>5, <2>1, <2>2, <2>3, <2>4, <2>5 DEF Begin
<1>6. \A n : ~Delete(t, n)
  BY <1>3, <1>4 DEF Delete
<1>7. ASSUME FinishOpen(t)
      PROVE  CreatesAgain(f)
  <2>1. content' = [content EXCEPT ![dir[call[t].name]] = << >>]
    BY <1>2, <1>7 DEF FinishOpen
  <2>2. dir[call[t].name] = f
    BY <1>2, <1>4, <2>1
  <2> QED BY <1>7, <2>2 DEF CreatesAgain
<1>8. ~FinishRead(t) /\ ~Return(t) /\ ~SeekHint(t)
  BY <1>2 DEF FinishRead, Return, SeekHint
<1>9. ~FinishWrite(t) /\ ~FinishHint(t)
  <2> SUFFICES ASSUME FinishWrite(t) \/ FinishHint(t) PROVE FALSE
    OBVIOUS
  <2>1. InTransfer(t)
    BY DEF FinishWrite, FinishHint, InTransfer
  <2>2. \E b \in Byte, done \in 0 .. call[t].len : WriteAt(t, b, done)
    <3>1. CASE FinishWrite(t)
      BY <3>1 DEF FinishWrite, Byte
    <3>2. CASE FinishHint(t)
      <4>1. call[t].step = "hint" /\ call[t] \in Transfers
        BY <2>1, <3>2, CallShapes DEF FinishHint, IInv
      <4>2. call[t].len = 1
        BY <4>1 DEF Transfers
      <4> QED BY <3>2, <4>2 DEF FinishHint, Byte
    <3> QED BY <3>1, <3>2
  <2>3. Len(content'[f]) >= Len(content[f])
    BY <2>1, <2>2, WriteAtLength
  <2>4. content' \in [Files -> Seq(Byte)]
    BY <2>1, <2>2, WriteAtBytes
  <2>5. Len(content'[f]) \in Nat
    BY <2>4
  <2> QED BY <1>2, <2>3, <2>5
<1> QED BY <1>1, <1>5, <1>6, <1>7, <1>8, <1>9 DEF Finish

\* A file that is named or open loses bytes only by an xTruncate on it, or by the
\* second ql_fopen of an open whose first one failed.
THEOREM BytesAreKept == Spec => LostByTruncateOrCreate
<1> DEFINE A == \A f \in Files : Referred(f)' /\ Len(content'[f]) < Len(content[f]) =>
                  Truncates(f) \/ CreatesAgain(f)
<1>1. IInv /\ [Next]_vars => [A]_vars
  BY StepKeepsBytes
<1> HIDE DEF A
<1>2. Spec => [][A]_vars
  BY <1>1, Invariance, PTL DEF Spec
<1> QED BY <1>2 DEF A, LostByTruncateOrCreate
=============================================================================
