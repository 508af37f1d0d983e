------------------------------ MODULE VfsFile ------------------------------
(***************************************************************************)
(* File I/O in port/os_quec_rtos.c: xOpen, xClose, xRead, xWrite,          *)
(* xTruncate, the chunk size and size hint of xFileControl, and xDelete,   *)
(* over the file system they call (ql_fopen, ql_fseek, ql_fread, ...).     *)
(*                                                                         *)
(* A read or a write first moves the position of the descriptor and then   *)
(* transfers at that position.  Threads that use one handle are kept apart *)
(* by the mutex of its connection; nothing keeps two handles on the same   *)
(* file apart, and their calls interleave between any two calls of the     *)
(* file system.  Any call of the file system may fail, and one that reads  *)
(* or writes may stop early.  Locks are the subject of VfsLock.            *)
(*                                                                         *)
(* Of the bytes in a file the model keeps who wrote them: thread t writes  *)
(* bytes t, and 0 is the byte of a gap and of a size hint.                 *)
(***************************************************************************)
EXTENDS Naturals, Sequences

CONSTANTS
  Handles,      \* quec_file_t structures
  Names,        \* file names
  Files,        \* what a name or a descriptor can refer to
  NoFile,       \* a name without a file, a handle that is not open
  Threads,      \* the threads, each the byte it writes
  OpenFlags,    \* the sets of flags files are opened with
  Stale,        \* what the caller's buffer held before a read
  Block,        \* nBlk of the size hint
  Chunks,       \* the chunk sizes asked for
  MaxSize       \* bound on the size of a file

ASSUME ThreadsAssumption == 0 \notin Threads
ASSUME SizesAssumption ==
  Block \in Nat \ {0} /\ Chunks \subseteq Nat \ {0} /\ MaxSize \in Nat
\* The assert (d) of quec_open; its line that reads SQLITE_OPEN_EXCLUSIVE is
\* commented out.
ASSUME FlagsAssumption ==
  \A flags \in OpenFlags : /\ flags \subseteq {"create", "delete"}
                           /\ flags = {} \/ "create" \in flags
ASSUME NoneAssumption == NoFile \notin Files /\ Stale \notin Threads \cup {0}

VARIABLES
  dir,          \* name -> its file
  content,      \* file -> its bytes
  fd,           \* handle -> the file its descriptor refers to
  pos,          \* handle -> the position of its descriptor
  szChunk,      \* handle -> chunk size, 0 at first
  call          \* thread -> the call it is in

vars == <<dir, content, fd, pos, szChunk, call>>

Byte == Threads \cup {0}
Smaller(a, b) == IF a < b THEN a ELSE b
Larger(a, b) == IF a < b THEN b ELSE a

Idle == [step |-> "idle"]
Opens == [step : {"create"}, on : Handles, name : Names, flags : OpenFlags]
Transfers ==
  [step : {"read", "write"}, on : Handles, off : Nat, len : Nat] \cup
  [step : {"hint"}, on : Handles, off : Nat, len : {1}, size : Nat, want : Nat]
Sizes == [step : {"size"}, on : Handles, size : Nat, want : Nat]
Answers ==
  [step : {"done"}, on : Handles, rc : {"ok", "error"}, buf : Seq(Byte \cup {Stale})] \cup
  [step : {"done"}, on : Handles, rc : {"short_read"}, buf : Seq({0})] \cup
  [step : {"done"}, on : Names, rc : {"ok"}, buf : {<< >>}]

\* A mutant: a second thread is let into a connection.
FreeAlways(h) == TRUE

\* The mutex of the connection that h belongs to is free.
Free(h) == \A t \in Threads : call[t] # Idle => call[t].on # h

Answer(t, x, rc, buf) ==
  call' = [call EXCEPT ![t] = [step |-> "done", on |-> x, rc |-> rc, buf |-> buf]]

\* A file that neither a name nor a descriptor refers to is gone.
Swept(d, o, c) ==
  [f \in Files |-> IF (\E n \in Names : d[n] = f) \/ (\E h \in Handles : o[h] = f)
                     THEN c[f] ELSE << >>]
-----------------------------------------------------------------------------
Init ==
  /\ dir = [n \in Names |-> NoFile]
  /\ content = [f \in Files |-> << >>]
  /\ fd = [h \in Handles |-> NoFile]
  /\ pos = [h \in Handles |-> 0]
  /\ szChunk = [h \in Handles |-> 0]
  /\ call = [t \in Threads |-> Idle]

\* The end of quec_open with a descriptor for f: what ql_remove returns for a
\* file to be deleted on close is ignored.
Opened(t, h, n, flags, f) ==
  /\ fd' = [fd EXCEPT ![h] = f]
  /\ pos' = [pos EXCEPT ![h] = 0]
  /\ szChunk' = [szChunk EXCEPT ![h] = 0]
  /\ \/ dir' = [dir EXCEPT ![n] = IF "delete" \in flags THEN NoFile ELSE f]
     \/ "delete" \in flags /\ dir' = [dir EXCEPT ![n] = f]
  /\ Answer(t, h, "ok", << >>)

\* A mutant: the first ql_fopen asks for "wb+" too.
OpenEmpties(t, h, n, flags) ==
  /\ call[t] = Idle /\ fd[h] = NoFile /\ Free(h)
  /\ \/ /\ dir[n] # NoFile /\ Opened(t, h, n, flags, dir[n])
        /\ content' = [content EXCEPT ![dir[n]] = << >>]
     \/ /\ "create" \in flags
        /\ call' = [call EXCEPT ![t] = [step |-> "create", on |-> h, name |-> n, flags |-> flags]]
        /\ UNCHANGED <<dir, content, fd, pos, szChunk>>

\* quec_open as far as ql_fopen(zName, "rb+"), which fails without a file and may
\* fail with one; whatever the reason, a file that may be created is opened again.
Open(t, h, n, flags) ==
  /\ call[t] = Idle /\ fd[h] = NoFile /\ Free(h)
  /\ \/ dir[n] # NoFile /\ Opened(t, h, n, flags, dir[n])
     \/ /\ "create" \in flags
        /\ call' = [call EXCEPT ![t] = [step |-> "create", on |-> h, name |-> n, flags |-> flags]]
        /\ UNCHANGED <<dir, fd, pos, szChunk>>
     \/ /\ "create" \notin flags
        /\ Answer(t, h, "error", << >>) /\ UNCHANGED <<dir, fd, pos, szChunk>>
  /\ UNCHANGED content

\* quec_open from ql_fopen(zName, "wb+"), which empties a file that was there all
\* along or has come to exist in the meantime.
FinishOpen(t) ==
  /\ call[t].step = "create"
  /\ LET n == call[t].name IN
     \/ /\ dir[n] # NoFile
        /\ Opened(t, call[t].on, n, call[t].flags, dir[n])
        /\ content' = [content EXCEPT ![dir[n]] = << >>]
     \/ /\ dir[n] = NoFile
        /\ \E f \in Files : /\ \A m \in Names : dir[m] # f
                            /\ \A h \in Handles : fd[h] # f
                            /\ Opened(t, call[t].on, n, call[t].flags, f)
        /\ UNCHANGED content
     \/ /\ Answer(t, call[t].on, "error", << >>)
        /\ UNCHANGED <<dir, content, fd, pos, szChunk>>

\* quec_close: the descriptor is gone even when ql_fclose fails.
Close(t, h) ==
  /\ call[t] = Idle /\ fd[h] # NoFile /\ Free(h)
  /\ fd' = [fd EXCEPT ![h] = NoFile]
  /\ content' = Swept(dir, fd', content)
  /\ \E rc \in {"ok", "error"} : Answer(t, h, rc, << >>)
  /\ UNCHANGED <<dir, pos, szChunk>>

\* quec_delete does not look at what ql_remove returns.
Delete(t, n) ==
  /\ call[t] = Idle
  /\ \/ dir' = [dir EXCEPT ![n] = NoFile]
     \/ UNCHANGED dir
  /\ content' = Swept(dir', fd, content)
  /\ Answer(t, n, "ok", << >>)
  /\ UNCHANGED <<fd, pos, szChunk>>
-----------------------------------------------------------------------------
\* A mutant: the position is left where it is.
SeekNot(t, next) == call' = [call EXCEPT ![t] = next] /\ UNCHANGED pos

\* ql_fseek, and the transfer that will follow it.
Seek(t, next) ==
  \/ /\ pos' = [pos EXCEPT ![next.on] = next.off]
     /\ call' = [call EXCEPT ![t] = next]
  \/ Answer(t, next.on, "error", << >>) /\ UNCHANGED pos

\* quec_read and quec_write as far as the seek.
Transfer(t, h, step, off, len) ==
  /\ call[t] = Idle /\ fd[h] # NoFile /\ Free(h)
  /\ Seek(t, [step |-> step, on |-> h, off |-> off, len |-> len])
  /\ UNCHANGED <<dir, content, fd, szChunk>>

\* A mutant: the buffer of a short read is left as it is.
ZerosNot(n) == [i \in 1 .. n |-> Stale]

Zeros(n) == [i \in 1 .. n |-> 0]
Stales(n) == [i \in 1 .. n |-> Stale]
\* The bytes `data` written at offset p of a file that holds c.
Patched(c, p, data) ==
  IF data = << >> THEN c
  ELSE [i \in 1 .. Larger(Len(c), p + Len(data)) |->
          IF p < i /\ i <= p + Len(data) THEN data[i - p]
          ELSE IF i <= Len(c) THEN c[i] ELSE 0]

\* quec_read from ql_fread on: only a read of no byte at all is a short read, and
\* only then is the buffer filled with zeros; any other count is success.
FinishRead(t) ==
  /\ call[t].step = "read"
  /\ LET h == call[t].on
         c == content[fd[h]]
         len == call[t].len
         left == Smaller(pos[h] + len, Len(c)) - pos[h]
     IN \/ /\ pos[h] >= Len(c) /\ Answer(t, h, "short_read", Zeros(len))
           /\ UNCHANGED pos
        \/ /\ pos[h] < Len(c)
           /\ \E got \in 1 .. left :
                /\ Answer(t, h, "ok", SubSeq(c, pos[h] + 1, pos[h] + got) \o Stales(len - got))
                /\ pos' = [pos EXCEPT ![h] = @ + got]
        \/ Answer(t, h, "error", << >>) /\ UNCHANGED pos
  /\ UNCHANGED <<dir, content, fd, szChunk>>

\* A mutant: the file was opened for appending.
WriteAtEnd(t, b, done) ==
  LET h == call[t].on
      c == content[fd[h]]
  IN /\ content' = [content EXCEPT ![fd[h]] = Patched(c, Len(c), [i \in 1 .. done |-> b])]
     /\ pos' = [pos EXCEPT ![h] = Len(c) + done]

\* ql_fwrite of up to `len` bytes b: the file system may be full.
WriteAt(t, b, done) ==
  LET h == call[t].on IN
  /\ content' = [content EXCEPT ![fd[h]] = Patched(@, pos[h], [i \in 1 .. done |-> b])]
  /\ pos' = [pos EXCEPT ![h] = @ + done]

FinishWrite(t) ==
  /\ call[t].step = "write"
  /\ \E done \in 0 .. call[t].len :
       /\ WriteAt(t, t, done)
       /\ Answer(t, call[t].on, IF done = call[t].len THEN "ok" ELSE "error", << >>)
  /\ UNCHANGED <<dir, fd, szChunk>>

\* quec_turncate, called to make a file smaller.
Truncate(t, h, size) ==
  /\ call[t] = Idle /\ fd[h] # NoFile /\ Free(h)
  /\ size < Len(content[fd[h]])
  /\ \/ /\ content' = [content EXCEPT ![fd[h]] = SubSeq(@, 1, size)]
        /\ Answer(t, h, "ok", << >>)
     \/ Answer(t, h, "error", << >>) /\ UNCHANGED content
  /\ UNCHANGED <<dir, fd, pos, szChunk>>

\* quec_file_control, SQLITE_FCNTL_CHUNK_SIZE.
ChunkSize(t, h, size) ==
  /\ call[t] = Idle /\ fd[h] # NoFile /\ Free(h)
  /\ szChunk' = [szChunk EXCEPT ![h] = size]
  /\ Answer(t, h, "ok", << >>)
  /\ UNCHANGED <<dir, content, fd, pos>>

\* A mutant: the first offset written is that of the block, not of its last byte.
HintOffsetStart(size, nSize) == (size \div Block) * Block

\* Where the loop of quec_fcntl_size_hint writes first.
HintOffset(size, nSize) ==
  LET iWrite == (size \div Block) * Block + Block - 1 IN
  IF iWrite >= nSize THEN nSize - 1 ELSE iWrite

\* quec_fcntl_size_hint as far as ql_fsize.
SizeHint(t, h, nByte) ==
  /\ call[t] = Idle /\ fd[h] # NoFile /\ Free(h) /\ szChunk[h] > 0
  /\ LET size == Len(content[fd[h]])
         nSize == ((nByte + szChunk[h] - 1) \div szChunk[h]) * szChunk[h]
     IN \/ /\ nSize > size
           /\ call' = [call EXCEPT ![t] = [step |-> "size", on |-> h, size |-> size,
                                           want |-> nSize]]
        \/ nSize <= size /\ Answer(t, h, "ok", << >>)
        \/ Answer(t, h, "error", << >>)
  /\ UNCHANGED <<dir, content, fd, pos, szChunk>>

\* The seek of its first write; by now the size may be another.
SeekHint(t) ==
  /\ call[t].step = "size"
  /\ LET size == call[t].size
         nSize == call[t].want
     IN Seek(t, [step |-> "hint", on |-> call[t].on, off |-> HintOffset(size, nSize), len |-> 1,
                 size |-> size, want |-> nSize])
  /\ UNCHANGED <<dir, content, fd, szChunk>>

\* The first write of the size hint.  quec_write returns SQLITE_OK or an error
\* and never 1, so the loop ends here with SQLITE_IOERR_WRITE.
FinishHint(t) ==
  /\ call[t].step = "hint"
  /\ \E done \in {0, 1} : WriteAt(t, 0, done)
  /\ Answer(t, call[t].on, "error", << >>)
  /\ UNCHANGED <<dir, fd, szChunk>>

Return(t) ==
  /\ call[t].step = "done"
  /\ call' = [call EXCEPT ![t] = Idle]
  /\ UNCHANGED <<dir, content, fd, pos, szChunk>>

Begin(t, h) ==
  \/ \E n \in Names, flags \in OpenFlags : Open(t, h, n, flags)
  \/ Close(t, h)
  \/ \E step \in {"read", "write"}, off, len \in 0 .. MaxSize :
       len > 0 /\ off + len <= MaxSize /\ Transfer(t, h, step, off, len)
  \/ \E size \in 0 .. MaxSize : Truncate(t, h, size)
  \/ \E size \in Chunks : ChunkSize(t, h, size)
  \/ \E nByte \in 1 .. MaxSize : SizeHint(t, h, nByte)

Finish(t) ==
  FinishOpen(t) \/ FinishRead(t) \/ FinishWrite(t) \/ SeekHint(t) \/ FinishHint(t) \/ Return(t)

Next ==
  \E t \in Threads :
    \/ \E h \in Handles : Begin(t, h)
    \/ \E n \in Names : Delete(t, n)
    \/ Finish(t)

Spec == Init /\ [][Next]_vars
-----------------------------------------------------------------------------
\* Names, descriptors and calls refer to what they should; the buffer of a short
\* read, which quec_read fills with memset, holds zeros.
TypeOK ==
  /\ dir \in [Names -> Files \cup {NoFile}]
  /\ content \in [Files -> Seq(Byte)]
  /\ fd \in [Handles -> Files \cup {NoFile}]
  /\ pos \in [Handles -> Nat]
  /\ szChunk \in [Handles -> Chunks \cup {0}]
  /\ call \in [Threads -> {Idle} \cup Opens \cup Sizes \cup Transfers \cup Answers]

InTransfer(t) == call[t].step \in {"read", "write", "hint"}

\* Between the seek of quec_read or quec_write and the transfer nobody closes the
\* descriptor or moves its position.
SeekHolds ==
  \A t \in Threads : InTransfer(t) =>
    fd[call[t].on] # NoFile /\ pos[call[t].on] = call[t].off

\* Thread t is about to write value b to byte i of file f.
Covers(t, f, i, b) ==
  /\ call[t].step \in {"write", "hint"} /\ fd[call[t].on] = f
  /\ call[t].off < i /\ i <= call[t].off + call[t].len
  /\ b = IF call[t].step = "write" THEN t ELSE 0

\* Whatever reaches a byte of a file was put there by an xWrite or a size hint for
\* that offset, on that file, and what lies between is zeros: no race on the
\* position of a descriptor moves a write elsewhere.
WritesStayInRange ==
  [][\A f \in Files : \A i \in DOMAIN content'[f] :
       \/ i \in DOMAIN content[f] /\ content'[f][i] = content[f][i]
       \/ i \notin DOMAIN content[f] /\ content'[f][i] = 0
       \/ \E t \in Threads : Covers(t, f, i, content'[f][i])]_vars

\* What a read that succeeds puts into the buffer are bytes of the file from the
\* offset that was asked for, at least one, whatever other calls came between seek
\* and read; a short read is one that starts at or beyond the end.
ReadsReturnTheFile ==
  [][\A t \in Threads :
       call[t].step = "read" /\ call'[t] # call[t] /\ call'[t].rc # "error" =>
         LET c == content[fd[call[t].on]]
             off == call[t].off
             len == call[t].len
         IN IF call'[t].rc = "short_read" THEN off >= Len(c)
            ELSE \E got \in 1 .. len :
                   /\ off + got <= Len(c)
                   /\ \A i \in 1 .. len :
                        call'[t].buf[i] = IF i <= got THEN c[off + i] ELSE Stale]_vars

\* What the comment before quec_read says: SQLITE_OK means that all bytes were read.
OkReadsAreWhole ==
  \A t \in Threads : call[t].step = "done" /\ call[t].rc = "ok" =>
    \A i \in DOMAIN call[t].buf : call[t].buf[i] # Stale

\* Something refers to f: a name, or a descriptor whose name is gone.
Referred(f) == (\E n \in Names : dir[n] = f) \/ (\E h \in Handles : fd[h] = f)
Truncates(f) ==
  \E t \in Threads, h \in Handles, size \in 0 .. MaxSize : fd[h] = f /\ Truncate(t, h, size)
CreatesAgain(f) == \E t \in Threads : FinishOpen(t) /\ dir[call[t].name] = f

\* A file that is still named or open loses bytes by an xTruncate on it, or by the
\* second ql_fopen of a quec_open whose first one failed; never by another handle
\* that closes or deletes it, or whose first ql_fopen finds it.  The second case is
\* not what sqlite3.h:3391-3393 asks for, a file that "is created if it does not
\* already exist": it empties one that exists.
LostByTruncateOrCreate ==
  [][\A f \in Files : Referred(f)' /\ Len(content'[f]) < Len(content[f]) =>
       Truncates(f) \/ CreatesAgain(f)]_vars

HintFile(t) == fd[call[t].on]
HintWrites(t) == FinishHint(t) /\ content' # content

\* What is left of assert(iWrite >= buf.st_size) in quec_fcntl_size_hint, which no
\* build compiles, when the size may be stale: the byte of the hint lies over a byte of
\* the file only if another handle has made the file longer since ql_fsize.
SparesOldBytes(t) ==
  call[t].off < Len(content[HintFile(t)]) => Len(content[HintFile(t)]) > call[t].size

\* Of what the comment there promises ("Write a single byte to the last byte in each
\* block") the first block is kept: with its byte the file has the size of the hint or
\* ends with a whole block, even if another handle has made it shorter in the meantime.
FillsBlock(t) ==
  Len(content'[HintFile(t)]) >= Smaller(call[t].want, (call[t].size \div Block + 1) * Block)

\* A size hint fills the block it starts in, and leaves alone the bytes the file had when
\* its size was read.  The comment there (os_quec_rtos.c:626-631) promises more, a byte
\* in each block and one at the last offset: what FinishHint says of the result of
\* quec_write keeps the code from going on to these.
HintsExtend == [][\A t \in Threads : HintWrites(t) => SparesOldBytes(t) /\ FillsBlock(t)]_vars
=============================================================================
