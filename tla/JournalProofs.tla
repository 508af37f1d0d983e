--------------------------- MODULE JournalProofs ---------------------------
(* While no failed sync is hidden, the database and its journal together are *)
(* always one content that was committed, at every step and after every      *)
(* crash.                                                                    *)
EXTENDS Journal, SequenceTheorems, FiniteSetTheorems, TLAPS

Steps == {"start", "truncate", "restore", "restored", "played", "ready", "open", "header",
          "records", "sync records", "count", "sync count", "pages", "sync pages", "commit"}

Valid(b) == b \notin {Zero, Torn}
AnyBlock == Values \cup Headers \cup Records
BlockSet(f, i) ==
  IF f = "db" THEN Values ELSE {Zero, Torn} \cup (IF i = 1 THEN Headers ELSE Records)
MaxLen(f) == IF f = "db" THEN MaxPages ELSE MaxPages + 1

\* What a read of block i finds.
ReadOf(f, i) == IF i <= Len(file[f]) THEN file[f][i] ELSE Zero

\* Types, and that the medium may hold what a read finds.
FileType(f) ==
  /\ file[f] \in Seq(AnyBlock) /\ Len(file[f]) \in lengths[f]
  /\ lengths[f] \subseteq 0 .. MaxLen(f)
  /\ DOMAIN medium[f] = Blocks
  /\ \A i \in Blocks : medium[f][i] \subseteq BlockSet(f, i) /\ ReadOf(f, i) \in medium[f][i]
StoreType ==
  /\ DOMAIN file = Names /\ DOMAIN medium = Names /\ DOMAIN lengths = Names
  /\ \A f \in Names : FileType(f)
ControlType ==
  /\ port \in {"quec", "win"} /\ exists \in BOOLEAN /\ step \in Steps
  /\ tx \in 0 .. MaxTx /\ n \in 0 .. MaxPages
  /\ goal \in Contents /\ acked \in Contents /\ committed \subseteq Contents
  /\ dropped \subseteq {"sync", "remove"}
  /\ crashes \in Nat /\ faults \in Nat

\* The database file never outgrows the transaction, and is its content at the end;
\* no journal is played back without a header.
Planned ==
  /\ step \in {"open", "header", "records", "sync records", "count", "sync count", "pages"}
       => Len(db) <= Len(goal)
  /\ step \in {"sync pages", "commit"} => db = goal
  /\ step \in {"truncate", "open", "header"} => n = 0
  /\ step \in {"truncate", "restore"} => HasHeader

\* The database file is c and on the medium.
Clean(c) ==
  /\ db = c /\ lengths["db"] = {Len(c)}
  /\ \A i \in 1 .. Len(c) : medium["db"][i] = {c[i]}

\* Whatever header and records a crash may leave, what is played back is of c.
Harmless(c) ==
  \A h \in medium["jr"][1] : Valid(h) =>
    /\ h.size = Len(c)
    /\ \A i \in 2 .. h.n + 1 : \A r \in medium["jr"][i] :
         Valid(r) /\ r.nonce = h.nonce => r.page <= Len(c) /\ r.val = c[r.page]

\* Without a directory entry there is no header.
NoEntry == ~exists => medium["jr"][1] \subseteq {Zero}

\* No journal is of a transaction to come.
Nonces == \A i \in Blocks : \A b \in medium["jr"][i] : Valid(b) => b.nonce <= tx

\* Nothing has to be played back.
Idle == HasHeader => Header.n = 0

\* The journal is on the medium, and with it any pages that may differ from c.
Recorded(p) == \E i \in Played : jr[i + 1].page = p
JournalSettled ==
  /\ exists /\ HasHeader /\ lengths["jr"] = {Len(jr)}
  /\ \A i \in 1 .. Len(jr) : medium["jr"][i] = {jr[i]}
Armed(c) ==
  /\ JournalSettled
  /\ \A len \in lengths["db"] : len >= Len(c)
  /\ \A p \in 1 .. Len(c) : Recorded(p) \/ medium["db"][p] = {c[p]}

\* A database without a page is so on the medium too.
EmptySettled == db = << >> => lengths["db"] = {0}

\* The journal of this transaction, as far as it is written.
Fresh == \A i \in Blocks : \A b \in medium["jr"][i] : Valid(b) => b.nonce < tx
Mine(c) ==
  \A i \in 2 .. MaxPages + 1 : \A r \in medium["jr"][i] :
    Valid(r) /\ r.nonce = tx => r.page <= Len(c) /\ r.val = c[r.page]
Written ==
  /\ Len(jr) >= n + 1
  /\ HasHeader /\ Header.nonce = tx /\ Header.n = (IF step = "sync count" THEN n ELSE 0)
  /\ \A i \in 1 .. n : Valid(jr[i + 1]) /\ jr[i + 1].nonce = tx
  /\ \A p \in Journalled : \E i \in 1 .. n : jr[i + 1].page = p

\* Where the two files stand in each step when the content is c.
Pending(c) == (Clean(c) /\ Idle) \/ (Armed(c) /\ EmptySettled)
Replaying(c) ==
  /\ Len(db) = Len(c)
  /\ \/ Clean(c) /\ Idle
     \/ Armed(c) /\ \A i \in 1 .. n : Good(i) /\ db[jr[i + 1].page] = c[jr[i + 1].page]
Recording(c) == exists /\ Clean(c) /\ Mine(c) /\ Written
Writing(c) ==
  /\ Armed(c) /\ EmptySettled
  /\ Len(c) <= Len(goal) /\ \A p \in 1 .. Len(c) : Recorded(p) \/ goal[p] = c[p]
StepState(c) ==
  /\ step \in {"start", "truncate"} => Pending(c)
  /\ step = "restore" => Replaying(c)
  /\ step = "restored" => db = c /\ ((Clean(c) /\ Idle) \/ Armed(c))
  /\ step \in {"played", "ready", "open", "header"} => Clean(c) /\ (Idle \/ Armed(c))
  /\ step \in {"open", "header"} => Fresh
  /\ step = "header" => exists
  /\ step \in {"records", "sync records", "count", "sync count"} => Recording(c)
  /\ step \in {"sync records", "count", "sync count"} => Differ \subseteq Journalled
  /\ step \in {"pages", "sync pages"} => Writing(c)
  /\ step = "commit" => Armed(c) /\ Clean(goal)
JournalState(c) == Harmless(c) /\ NoEntry /\ Nonces
State(c) == JournalState(c) /\ StepState(c)

\* The inductive invariant.
Kept == "sync" \notin dropped =>
          \E c \in committed : State(c) /\ (dropped = {} => c = acked)
TypeInv == StoreType /\ ControlType /\ Planned
IInv == TypeInv /\ Kept
-----------------------------------------------------------------------------
(* The file system, block by block.  *)

LEMMA Constants ==
  /\ MaxPages \in Nat \ {0} /\ Zero \in Values /\ Torn \in Values
  /\ \A f \in Names : MaxLen(f) \in Nat /\ 1 .. MaxLen(f) \subseteq Blocks
  /\ \A f, i : {Zero, Torn} \subseteq BlockSet(f, i) /\ BlockSet(f, i) \subseteq AnyBlock
  /\ \A i : BlockSet("db", i) = Values
BY JournalAssumption DEF Values, Names, MaxLen, Blocks, BlockSet, AnyBlock

LEMMA PutBlocks ==
  ASSUME NEW s \in Seq(AnyBlock), NEW i \in Nat \ {0}, NEW b \in AnyBlock
  PROVE  /\ Put(s, i, b) \in Seq(AnyBlock)
         /\ Len(Put(s, i, b)) = IF i > Len(s) THEN i ELSE Len(s)
         /\ \A j \in 1 .. Len(Put(s, i, b)) :
              Put(s, i, b)[j] = IF j = i THEN b ELSE IF j <= Len(s) THEN s[j] ELSE Zero
<1> DEFINE len == IF i > Len(s) THEN i ELSE Len(s)
           e(j) == IF j = i THEN b ELSE IF j <= Len(s) THEN s[j] ELSE Zero
<1>1. Len(s) \in Nat /\ len \in Nat  OBVIOUS
<1>2. \A j \in 1 .. len : e(j) \in AnyBlock  BY Constants DEF AnyBlock
<1>3. Put(s, i, b) = [j \in 1 .. len |-> e(j)]  BY DEF Put
<1> HIDE DEF len, e
<1>4. [j \in 1 .. len |-> e(j)] \in Seq(AnyBlock)  BY <1>1, <1>2, IsASeq
<1>5. Len([j \in 1 .. len |-> e(j)]) = len  BY <1>1
<1> QED  BY <1>3, <1>4, <1>5 DEF len, e

\* The store after block b of f was stored, block by block.
Holds(f, i, b) ==
  /\ Len(file'[f]) = IF i > Len(file[f]) THEN i ELSE Len(file[f])
  /\ \A j \in Blocks : ReadOf(f, j)' = IF j = i THEN b ELSE ReadOf(f, j)
  /\ \A j \in Blocks :
       medium'[f][j] = IF j = i THEN medium[f][j] \cup {b, Torn} ELSE medium[f][j]
  /\ lengths'[f] = lengths[f] \cup {Len(file'[f])}
  /\ \A g \in Names \ {f} :
       file'[g] = file[g] /\ medium'[g] = medium[g] /\ lengths'[g] = lengths[g]

LEMMA StoredEffect ==
  ASSUME StoreType, NEW f \in Names, NEW i \in 1 .. MaxLen(f), NEW b \in BlockSet(f, i),
         Stored(f, i, b)
  PROVE  StoreType' /\ Holds(f, i, b)
<1>1. file'[f] = Put(file[f], i, b) /\ b \in AnyBlock /\ Zero \in AnyBlock
  BY Constants DEF Stored, StoreType
<1>2. file[f] \in Seq(AnyBlock) /\ i \in Nat \ {0} /\ MaxLen(f) \in Nat /\ i \in Blocks
  BY Constants DEF StoreType, FileType
<1>3. /\ file'[f] \in Seq(AnyBlock)
      /\ Len(file'[f]) = IF i > Len(file[f]) THEN i ELSE Len(file[f])
      /\ \A j \in 1 .. Len(file'[f]) :
           file'[f][j] = IF j = i THEN b ELSE IF j <= Len(file[f]) THEN file[f][j] ELSE Zero
  <2>1. /\ Put(file[f], i, b) \in Seq(AnyBlock)
        /\ Len(Put(file[f], i, b)) = IF i > Len(file[f]) THEN i ELSE Len(file[f])
        /\ \A j \in 1 .. Len(Put(file[f], i, b)) : Put(file[f], i, b)[j] =
             IF j = i THEN b ELSE IF j <= Len(file[f]) THEN file[f][j] ELSE Zero
    <3> DEFINE s == file[f]
    <3>1. s \in Seq(AnyBlock) /\ b \in AnyBlock /\ i \in Nat \ {0}
      BY <1>1, <1>2
    <3> HIDE DEF s
    <3>2. Put(s, i, b) \in Seq(AnyBlock)
      BY <3>1, PutBlocks
    <3>3. Len(Put(s, i, b)) = IF i > Len(s) THEN i ELSE Len(s)
      BY <3>1, PutBlocks
    <3>4. \A j \in 1 .. Len(Put(s, i, b)) : Put(s, i, b)[j] =
             IF j = i THEN b ELSE IF j <= Len(s) THEN s[j] ELSE Zero
      BY <3>1, PutBlocks
    <3> QED  BY <3>2, <3>3, <3>4 DEF s
  <2> QED  BY <1>1, <2>1
<1>4. \A j \in Blocks : ReadOf(f, j)' = IF j = i THEN b ELSE ReadOf(f, j)
  BY <1>2, <1>3 DEF ReadOf, Blocks
<1>5. \A j \in Blocks :
        medium'[f][j] = IF j = i THEN medium[f][j] \cup {b, Torn} ELSE medium[f][j]
  BY <1>2 DEF Stored, StoreType, FileType
<1>6. lengths'[f] = lengths[f] \cup {Len(file'[f])}
  BY DEF Stored, StoreType
<1>7. \A g \in Names \ {f} :
        file'[g] = file[g] /\ medium'[g] = medium[g] /\ lengths'[g] = lengths[g]
  BY DEF Stored, StoreType
<1>8. StoreType'
  <2>1. DOMAIN file' = Names /\ DOMAIN medium' = Names /\ DOMAIN lengths' = Names
    BY DEF Stored, StoreType
  <2>2. FileType(f)'
    <3>1. Len(file'[f]) \in 0 .. MaxLen(f)
      BY <1>2, <1>3 DEF StoreType, FileType
    <3>2. DOMAIN medium'[f] = Blocks
      BY DEF Stored, StoreType, FileType
    <3>3. \A j \in Blocks :
            medium'[f][j] \subseteq BlockSet(f, j) /\ ReadOf(f, j)' \in medium'[f][j]
      <4> SUFFICES ASSUME NEW j \in Blocks
                   PROVE  medium'[f][j] \subseteq BlockSet(f, j) /\ ReadOf(f, j)' \in medium'[f][j]
        OBVIOUS
      <4>1. medium[f][j] \subseteq BlockSet(f, j) /\ ReadOf(f, j) \in medium[f][j]
        BY DEF StoreType, FileType
      <4>2. medium'[f][j] = IF j = i THEN medium[f][j] \cup {b, Torn} ELSE medium[f][j]
        BY <1>5
      <4>3. ReadOf(f, j)' = IF j = i THEN b ELSE ReadOf(f, j)
        BY <1>4
      <4>4. Torn \in BlockSet(f, j)
        BY Constants
      <4> QED  BY <4>1, <4>2, <4>3, <4>4
    <3> QED  BY <1>3, <1>6, <3>1, <3>2, <3>3 DEF StoreType, FileType
  <2>3. ASSUME NEW g \in Names, g # f  PROVE FileType(g)'
    BY <1>7, <2>3 DEF StoreType, FileType, ReadOf
  <2> QED  BY <2>1, <2>2, <2>3 DEF StoreType
<1> QED  BY <1>3, <1>4, <1>5, <1>6, <1>7, <1>8 DEF Holds

\* What a sync of f that succeeds does.
Synced(f) ==
  /\ medium' = [medium EXCEPT ![f] = Settled(file[f])]
  /\ lengths' = [lengths EXCEPT ![f] = {Len(file[f])}]
  /\ UNCHANGED file

\* The file f is exactly what is on the medium.
SettledNow(f) ==
  /\ lengths[f] = {Len(file[f])}
  /\ \A j \in Blocks : medium[f][j] = {ReadOf(f, j)}

Untouched(g) == file'[g] = file[g] /\ medium'[g] = medium[g] /\ lengths'[g] = lengths[g]

LEMMA SyncedEffect ==
  ASSUME StoreType, NEW f \in Names, Synced(f)
  PROVE  /\ StoreType' /\ SettledNow(f)' /\ file' = file
         /\ \A j \in Blocks : medium'[f][j] \subseteq medium[f][j]
         /\ \A g \in Names \ {f} : Untouched(g)
<1>1. \A j \in Blocks : medium'[f][j] = {ReadOf(f, j)} /\ ReadOf(f, j)' = ReadOf(f, j)
  BY DEF Synced, StoreType, Settled, ReadOf
<1>2. lengths'[f] = {Len(file[f])} /\ file' = file
  BY DEF Synced, StoreType
<1>3. \A g \in Names \ {f} : Untouched(g)
  BY DEF Synced, StoreType, Untouched
<1>4. StoreType'
  <2>1. DOMAIN file' = Names /\ DOMAIN medium' = Names /\ DOMAIN lengths' = Names
    BY DEF Synced, StoreType
  <2>2. FileType(f)'
    <3>1. DOMAIN medium'[f] = Blocks
      BY DEF Synced, StoreType, Settled
    <3> QED  BY <1>1, <1>2, <3>1 DEF StoreType, FileType
  <2>3. ASSUME NEW g \in Names, g # f  PROVE FileType(g)'
    BY <1>3, <2>3 DEF StoreType, FileType, ReadOf, Untouched
  <2> QED  BY <2>1, <2>2, <2>3 DEF StoreType
<1> QED  BY <1>1, <1>2, <1>3, <1>4 DEF SettledNow, StoreType, FileType

\* What a truncation that succeeds does.
Truncated(len) ==
  /\ file' = [file EXCEPT !["db"] = SubSeq(@, 1, len)]
  /\ medium' = [medium EXCEPT !["db"] =
                  [i \in Blocks |-> IF i <= len THEN @[i] ELSE @[i] \cup {Zero}]]
  /\ lengths' = [lengths EXCEPT !["db"] = @ \cup {len}]

LEMMA TruncatedEffect ==
  ASSUME StoreType, NEW len \in 0 .. Len(db), Truncated(len)
  PROVE  /\ StoreType' /\ Untouched("jr")
         /\ Len(db') = len /\ \A j \in 1 .. len : db'[j] = db[j]
         /\ \A j \in 1 .. len : medium'["db"][j] = medium["db"][j]
         /\ lengths'["db"] = lengths["db"] \cup {len}
<1>1. "db" \in Names /\ "jr" \in Names /\ MaxPages \in Nat  BY Constants DEF Names
<1>2. db \in Seq(AnyBlock) /\ Len(db) \in 0 .. MaxPages
  BY <1>1 DEF StoreType, FileType, db, MaxLen
<1>3. db' = SubSeq(db, 1, len)
  BY <1>1 DEF Truncated, StoreType, db
<1>4. /\ db' \in Seq(AnyBlock) /\ Len(db') = len
      /\ \A j \in 1 .. len : db'[j] = db[j]
  <2>1. \A j \in 1 .. len : db[j] \in AnyBlock
    BY <1>2, ElementOfSeq
  <2> QED  BY <1>2, <1>3, <2>1, SubSeqProperties
<1>5. /\ DOMAIN medium'["db"] = Blocks
      /\ \A j \in Blocks : medium'["db"][j] =
           IF j <= len THEN medium["db"][j] ELSE medium["db"][j] \cup {Zero}
  BY <1>1 DEF Truncated, StoreType
<1>6. lengths'["db"] = lengths["db"] \cup {len}
  BY <1>1 DEF Truncated, StoreType
<1>7. Untouched("jr")
  BY <1>1 DEF Truncated, StoreType, Untouched
<1>8. StoreType'
  <2>1. DOMAIN file' = Names /\ DOMAIN medium' = Names /\ DOMAIN lengths' = Names
    BY DEF Truncated, StoreType
  <2>2. FileType("db")'
    <3>1. ASSUME NEW j \in Blocks
          PROVE  /\ medium'["db"][j] \subseteq BlockSet("db", j)
                 /\ ReadOf("db", j)' \in medium'["db"][j]
      <4>1. medium["db"][j] \subseteq BlockSet("db", j) /\ ReadOf("db", j) \in medium["db"][j]
        BY <1>1 DEF StoreType, FileType
      <4>2. ReadOf("db", j)' = IF j <= len THEN ReadOf("db", j) ELSE Zero
        BY <1>2, <1>4 DEF ReadOf, db, Blocks
      <4>3. Zero \in BlockSet("db", j)
        BY Constants
      <4>4. medium'["db"][j] =
              IF j <= len THEN medium["db"][j] ELSE medium["db"][j] \cup {Zero}
        BY <1>5
      <4> QED  BY <4>1, <4>2, <4>3, <4>4
    <3> QED  BY <1>1, <1>2, <1>4, <1>5, <1>6, <3>1 DEF StoreType, FileType, db, MaxLen
  <2>3. FileType("jr")'
    BY <1>1, <1>7 DEF StoreType, FileType, ReadOf, Untouched
  <2> QED  BY <2>1, <2>2, <2>3 DEF StoreType, Names
<1>9. \A j \in 1 .. len : j \in Blocks
  BY <1>1, <1>2 DEF Blocks
<1>10. \A j \in 1 .. len : medium'["db"][j] = medium["db"][j]
  <2> TAKE j \in 1 .. len
  <2>1. j \in Blocks /\ j <= len
    BY <1>2, <1>9
  <2> QED  BY <2>1, <1>5
<1> QED  BY <1>4, <1>6, <1>7, <1>8, <1>10

LEMMA EmptiedEffect ==
  ASSUME StoreType, Emptied("jr")
  PROVE  /\ StoreType' /\ Untouched("db") /\ jr' = << >>
         /\ \A j \in Blocks : medium'["jr"][j] = {Zero}
<1>1. "db" \in Names /\ "jr" \in Names /\ MaxPages \in Nat  BY Constants DEF Names
<1>2. jr' = << >> /\ lengths'["jr"] = {0} /\ DOMAIN medium'["jr"] = Blocks
  BY <1>1 DEF Emptied, StoreType, jr, Settled
<1>3. \A j \in Blocks : medium'["jr"][j] = {Zero}
  BY <1>1 DEF Emptied, StoreType, Settled, Blocks
<1>4. Untouched("db")
  BY <1>1 DEF Emptied, StoreType, Untouched
<1>5. StoreType'
  <2>1. DOMAIN file' = Names /\ DOMAIN medium' = Names /\ DOMAIN lengths' = Names
    BY DEF Emptied, StoreType
  <2>2. FileType("jr")'
    <3>1. \A j \in Blocks : ReadOf("jr", j)' = Zero
      BY <1>2 DEF ReadOf, jr, Blocks
    <3> QED  BY <1>1, <1>2, <1>3, <3>1, Constants, EmptySeq DEF FileType, jr, MaxLen
  <2>3. FileType("db")'
    BY <1>1, <1>4 DEF StoreType, FileType, ReadOf, Untouched
  <2> QED  BY <2>1, <2>2, <2>3 DEF StoreType, Names
<1> QED  BY <1>2, <1>3, <1>4, <1>5

LEMMA CrashEffect ==
  ASSUME StoreType, Crash
  PROVE  /\ StoreType' /\ \A f \in Names : SettledNow(f)'
         /\ \A f \in Names : Len(file'[f]) \in lengths[f]
         /\ \A f \in Names : \A i \in 1 .. Len(file'[f]) :
              i \in Blocks /\ file'[f][i] \in medium[f][i]
<1>1. "db" \in Names /\ "jr" \in Names /\ MaxPages \in Nat  BY Constants DEF Names
<1>2. PICK d \in Remains("db"), k \in Remains("jr") :
        /\ file' = [f \in Names |-> IF f = "db" THEN d ELSE k]
        /\ medium' = [f \in Names |-> Settled(file'[f])]
        /\ lengths' = [f \in Names |-> {Len(file'[f])}]
  BY DEF Crash
<1>3. ASSUME NEW f \in Names, NEW b \in Remains(f)
      PROVE  /\ b \in Seq(AnyBlock) /\ Len(b) \in lengths[f]
             /\ \A i \in 1 .. Len(b) : i \in Blocks /\ b[i] \in medium[f][i]
  <2>1. PICK len \in lengths[f] :
          b \in [1 .. len -> UNION {medium[f][i] : i \in 1 .. len}] /\ Survives(f, b)
    BY DEF Remains
  <2>2. len \in Nat /\ \A i \in 1 .. len : i \in Blocks
    BY Constants DEF StoreType, FileType
  <2>3. \A i \in 1 .. len : medium[f][i] \subseteq AnyBlock
    BY <2>2, Constants DEF StoreType, FileType
  <2>4. b = [i \in 1 .. len |-> b[i]] /\ \A i \in 1 .. len : b[i] \in AnyBlock
    BY <2>1, <2>3
  <2>5. b \in Seq(AnyBlock)
    <3> DEFINE e(i) == b[i]
    <3>1. \A i \in 1 .. len : e(i) \in AnyBlock  BY <2>4
    <3> HIDE DEF e
    <3>2. [i \in 1 .. len |-> e(i)] \in Seq(AnyBlock)  BY <2>2, <3>1, IsASeq
    <3> QED  BY <2>4, <3>2 DEF e
  <2>6. Len(b) = len
    BY <2>2, <2>4
  <2> QED  BY <2>1, <2>2, <2>5, <2>6 DEF Survives
<1>4. \A f \in Names : file'[f] \in Remains(f)
  BY <1>2 DEF Names
<1>5. /\ \A f \in Names : file'[f] \in Seq(AnyBlock) /\ Len(file'[f]) \in lengths[f]
      /\ \A f \in Names : \A i \in 1 .. Len(file'[f]) :
           i \in Blocks /\ file'[f][i] \in medium[f][i]
  BY <1>3, <1>4
<1>6. \A f \in Names :
        /\ lengths'[f] = {Len(file'[f])} /\ DOMAIN medium'[f] = Blocks
        /\ \A j \in Blocks : medium'[f][j] = {ReadOf(f, j)'}
  BY <1>2 DEF Settled, ReadOf
<1>7. StoreType'
  <2>1. DOMAIN file' = Names /\ DOMAIN medium' = Names /\ DOMAIN lengths' = Names
    BY <1>2
  <2>2. ASSUME NEW f \in Names  PROVE FileType(f)'
    <3>1. ASSUME NEW j \in Blocks  PROVE ReadOf(f, j)' \in BlockSet(f, j)
      <4>1. CASE j <= Len(file'[f])
        <5>1. j \in 1 .. Len(file'[f])
          BY <4>1, <1>5 DEF Blocks
        <5>2. file'[f][j] \in medium[f][j] /\ medium[f][j] \subseteq BlockSet(f, j)
          BY <1>5, <5>1 DEF StoreType, FileType
        <5> QED  BY <4>1, <5>2 DEF ReadOf
      <4>2. CASE ~(j <= Len(file'[f]))
        BY <4>2, Constants DEF ReadOf
      <4> QED  BY <4>1, <4>2
    <3> QED  BY <1>5, <1>6, <3>1 DEF StoreType, FileType
  <2> QED  BY <2>1, <2>2 DEF StoreType
<1> QED  BY <1>5, <1>6, <1>7 DEF SettledNow
-----------------------------------------------------------------------------
(* Types.  *)

LEMMA ContentsAreSeqs ==
  /\ \A c \in Contents : /\ c \in Seq(Values) /\ Len(c) \in 0 .. MaxPages
                         /\ \A i \in 1 .. Len(c) : c[i] \in Values
  /\ \A s \in Seq(AnyBlock) :
       Len(s) \in 0 .. MaxPages /\ (\A i \in 1 .. Len(s) : s[i] \in Values) => s \in Contents
<1>1. ASSUME NEW c \in Contents
      PROVE  /\ c \in Seq(Values) /\ Len(c) \in 0 .. MaxPages
             /\ \A i \in 1 .. Len(c) : c[i] \in Values
  <2>1. PICK len \in 0 .. MaxPages : c \in [1 .. len -> Values]
    BY DEF Contents
  <2>2. len \in Nat /\ c = [i \in 1 .. len |-> c[i]] /\ \A i \in 1 .. len : c[i] \in Values
    BY <2>1, Constants
  <2>3. c \in Seq(Values)
    <3> DEFINE e(i) == c[i]
    <3>1. \A i \in 1 .. len : e(i) \in Values  BY <2>2
    <3> HIDE DEF e
    <3>2. [i \in 1 .. len |-> e(i)] \in Seq(Values)  BY <2>2, <3>1, IsASeq
    <3> QED  BY <2>2, <3>2 DEF e
  <2> QED  BY <2>1, <2>2, <2>3
<1>2. ASSUME NEW s \in Seq(AnyBlock), Len(s) \in 0 .. MaxPages,
             \A i \in 1 .. Len(s) : s[i] \in Values
      PROVE  s \in Contents
  <2>1. s \in [1 .. Len(s) -> AnyBlock]
    BY LenProperties
  <2>2. s \in [1 .. Len(s) -> Values]
    BY <1>2, <2>1
  <2> QED  BY <1>2, <2>2 DEF Contents
<1> QED  BY <1>1, <1>2

LEMMA EmptyContents == << >> \in Contents
<1>1. << >> \in Seq(AnyBlock) /\ Len(<< >>) = 0
  BY EmptySeq
<1>2. Len(<< >>) \in 0 .. MaxPages /\ \A i \in 1 .. Len(<< >>) : << >>[i] \in Values
  BY <1>1, Constants
<1> QED  BY <1>1, <1>2, ContentsAreSeqs

\* What the reads of the two files find.
LEMMA Reads ==
  ASSUME StoreType
  PROVE  /\ db \in Seq(AnyBlock) /\ db \in Contents /\ Len(db) \in 0 .. MaxPages
         /\ Len(db) \in lengths["db"] /\ lengths["db"] \subseteq 0 .. MaxPages
         /\ \A i \in 1 .. Len(db) : i \in Blocks /\ db[i] \in Values /\ db[i] \in medium["db"][i]
         /\ jr \in Seq(AnyBlock) /\ Len(jr) \in 0 .. MaxPages + 1 /\ Len(jr) \in lengths["jr"]
         /\ \A i \in 1 .. Len(jr) : i \in Blocks /\ jr[i] \in medium["jr"][i]
         /\ HasHeader => Len(jr) >= 1 /\ Header \in Headers /\ Header \in medium["jr"][1]
         /\ \A i \in 1 .. Len(jr) : i > 1 /\ Valid(jr[i]) => jr[i] \in Records
         /\ \A h \in medium["jr"][1] : Valid(h) => h \in Headers
         /\ \A i \in 2 .. MaxPages + 1 : \A r \in medium["jr"][i] : Valid(r) => r \in Records
<1>1. "db" \in Names /\ "jr" \in Names /\ MaxPages \in Nat \ {0} /\ 1 \in Blocks
  BY Constants DEF Names, Blocks
<1>2. /\ db \in Seq(AnyBlock) /\ Len(db) \in 0 .. MaxPages
      /\ Len(db) \in lengths["db"] /\ lengths["db"] \subseteq 0 .. MaxPages
  BY <1>1 DEF StoreType, FileType, db, MaxLen
<1>3. ASSUME NEW i \in 1 .. Len(db)
      PROVE  i \in Blocks /\ db[i] \in Values /\ db[i] \in medium["db"][i]
  <2>1. i \in Blocks /\ i <= Len(db)
    BY <1>1, <1>2 DEF Blocks
  <2>2. ReadOf("db", i) \in medium["db"][i] /\ medium["db"][i] \subseteq Values
    BY <1>1, <2>1, Constants DEF StoreType, FileType
  <2> QED  BY <2>1, <2>2 DEF ReadOf, db
<1>4. jr \in Seq(AnyBlock) /\ Len(jr) \in 0 .. MaxPages + 1 /\ Len(jr) \in lengths["jr"]
  BY <1>1 DEF StoreType, FileType, jr, MaxLen
<1>5. ASSUME NEW i \in 1 .. Len(jr)
      PROVE  i \in Blocks /\ jr[i] \in medium["jr"][i]
  <2>1. i \in Blocks /\ i <= Len(jr)
    BY <1>1, <1>4 DEF Blocks
  <2>2. ReadOf("jr", i) \in medium["jr"][i]
    BY <1>1, <2>1 DEF StoreType, FileType
  <2> QED  BY <2>1, <2>2 DEF ReadOf, jr
<1>6. \A h \in medium["jr"][1] : Valid(h) => h \in Headers
  BY <1>1 DEF StoreType, FileType, BlockSet, Valid
<1>7. \A i \in 2 .. MaxPages + 1 : \A r \in medium["jr"][i] : Valid(r) => r \in Records
  BY <1>1 DEF StoreType, FileType, BlockSet, Valid, Blocks
<1>8. HasHeader => Len(jr) >= 1 /\ Header \in Headers /\ Header \in medium["jr"][1]
  <2>1. SUFFICES ASSUME HasHeader
                 PROVE  Len(jr) >= 1 /\ Header \in Headers /\ Header \in medium["jr"][1]
    OBVIOUS
  <2>2. Len(jr) \in Nat \ {0}
    BY <1>4, <2>1, EmptySeq DEF HasHeader
  <2>3. jr[1] \in medium["jr"][1]
    BY <1>5, <2>2
  <2> QED  BY <1>6, <2>1, <2>2, <2>3 DEF HasHeader, Header, Valid
<1>9. \A i \in 1 .. Len(jr) : i > 1 /\ Valid(jr[i]) => jr[i] \in Records
  BY <1>1, <1>4, <1>5, <1>7
<1>10. db \in Contents
  BY <1>2, <1>3, ContentsAreSeqs
<1> QED  BY <1>2, <1>3, <1>4, <1>5, <1>6, <1>7, <1>8, <1>9, <1>10

LEMMA WriteEffect ==
  ASSUME StoreType, NEW f \in Names, NEW i \in 1 .. MaxLen(f), NEW b \in BlockSet(f, i),
         NEW next, Write(f, i, b, next)
  PROVE  /\ StoreType' /\ \A g \in Names \ {f} : Untouched(g)
         /\ \/ step' = next /\ Stored(f, i, b)
            \/ step' = "start" /\ Untouched(f)
            \/ step' = "start" /\ Stored(f, i, Torn)
         /\ faults \in Nat => faults' \in Nat
<1>1. Torn \in BlockSet(f, i)  BY Constants
<1>2. CASE UNCHANGED store
  BY <1>2 DEF Write, store, StoreType, FileType, ReadOf, Untouched, Goes, Fault, NoFault
<1>3. CASE Stored(f, i, b) /\ Goes(next) /\ NoFault
  BY <1>3, StoredEffect DEF Holds, Untouched, Goes, NoFault
<1>4. CASE Fault /\ Goes("start") /\ Stored(f, i, Torn)
  BY <1>1, <1>4, StoredEffect DEF Holds, Untouched, Goes, Fault
<1> QED  BY <1>2, <1>3, <1>4 DEF Write

\* The pages before p that differ.
Before(p) == {q \in Differ : q < p}

LEMMA JournalledIs == Journalled = {p \in Differ : Cardinality(Before(p)) < n}
BY DEF Journalled, Before

\* A page has no more pages before it than its number allows.
LEMMA Rank ==
  ASSUME StoreType, NEW p \in Differ
  PROVE  /\ p \in 1 .. MaxPages /\ IsFiniteSet(Before(p))
         /\ Cardinality(Before(p)) \in Nat /\ Cardinality(Before(p)) < p
<1>1. p \in 1 .. MaxPages /\ p \in 1 .. Len(db) /\ Len(db) \in Nat /\ MaxPages \in Nat
  BY Reads, Constants DEF Differ
<1> DEFINE m == p - 1
<1>2. m \in Nat /\ 1 .. m \subseteq Nat /\ Before(p) \in SUBSET (1 .. m)
  BY <1>1 DEF Differ, Before
<1>3. IsFiniteSet(1 .. m) /\ Cardinality(1 .. m) = m
  <2> HIDE DEF m
  <2> QED  BY <1>2, FS_Interval
<1>4. IsFiniteSet(Before(p)) /\ Cardinality(Before(p)) <= m
  BY <1>2, <1>3, FS_Subset
<1>5. Cardinality(Before(p)) \in Nat
  BY <1>4, FS_CardinalityType
<1> QED  BY <1>1, <1>4, <1>5

\* The next record is of the first page without one, and then only later pages lack one.
LEMMA NextRecord ==
  ASSUME StoreType, ControlType, NEW p \in Differ \ Journalled,
         \A q \in Differ \ Journalled : p <= q
  PROVE  /\ n + 1 \in 1 .. MaxPages
         /\ \A q \in Differ : Cardinality(Before(q)) < n + 1 => q \in Journalled \/ q = p
<1>1. n \in 0 .. MaxPages /\ MaxPages \in Nat  BY Constants DEF ControlType
<1>2. /\ p \in 1 .. MaxPages /\ IsFiniteSet(Before(p))
      /\ Cardinality(Before(p)) \in Nat /\ Cardinality(Before(p)) < p
  BY Rank
<1>3. n <= Cardinality(Before(p))
  BY <1>1, <1>2, JournalledIs
<1>4. n + 1 \in 1 .. MaxPages
  BY <1>1, <1>2, <1>3
<1>5. ASSUME NEW q \in Differ, Cardinality(Before(q)) < n + 1, q \notin Journalled, q # p
      PROVE  FALSE
  <2>1. /\ q \in 1 .. MaxPages /\ IsFiniteSet(Before(q)) /\ Cardinality(Before(q)) \in Nat
    BY Rank
  <2>2. p < q
    BY <1>2, <1>5, <2>1
  <2>3. Before(p) \cup {p} \subseteq Before(q) /\ p \notin Before(p)
    <3>1. \A r \in Differ : r \in 1 .. MaxPages  BY Rank
    <3>2. \A r \in Differ : r < p => r < q
      BY <1>2, <2>1, <2>2, <3>1
    <3>3. ~(p < p)
      BY <1>2
    <3> QED  BY <2>2, <3>2, <3>3 DEF Before
  <2>4. Cardinality(Before(p) \cup {p}) = Cardinality(Before(p)) + 1
    BY <1>2, <2>3, FS_AddElement
  <2>5. Cardinality(Before(p)) + 1 <= Cardinality(Before(q))
    BY <2>1, <2>3, <2>4, FS_Subset
  <2> QED  BY <1>1, <1>2, <1>3, <1>5, <2>1, <2>5
<1> QED  BY <1>4, <1>5

LEMMA InitTypes == Init => TypeInv
<1> SUFFICES ASSUME Init  PROVE TypeInv
  OBVIOUS
<1>1. "db" \in Names /\ "jr" \in Names /\ MaxPages \in Nat \ {0} /\ 0 \in Pages
  BY JournalAssumption DEF Names, Pages
<1>2. PICK size \in 0 .. MaxPages :
        file = [f \in Names |-> IF f = "db" THEN [i \in 1 .. size |-> 0] ELSE << >>]
  BY DEF Init
<1>3. db = [i \in 1 .. size |-> 0] /\ jr = << >>
  BY <1>1, <1>2 DEF db, jr
<1>4. 0 \in AnyBlock /\ 0 \in Values
  BY <1>1 DEF AnyBlock, Values
<1>5. db \in Seq(AnyBlock) /\ Len(db) = size /\ \A i \in 1 .. Len(db) : db[i] = 0
  <2> DEFINE e(i) == 0
  <2>1. \A i \in 1 .. size : e(i) \in AnyBlock  BY <1>4
  <2>2. size \in Nat  BY <1>1
  <2> HIDE DEF e
  <2>3. [i \in 1 .. size |-> e(i)] \in Seq(AnyBlock)  BY <2>1, <2>2, IsASeq
  <2>4. db = [i \in 1 .. size |-> e(i)]  BY <1>3 DEF e
  <2> QED  BY <2>2, <2>3, <2>4 DEF e
<1>6. StoreType
  <2>1. DOMAIN file = Names /\ DOMAIN medium = Names /\ DOMAIN lengths = Names
    BY <1>2 DEF Init
  <2>2. ASSUME NEW f \in Names  PROVE FileType(f)
    <3>1. lengths[f] = {Len(file[f])} /\ medium[f] = Settled(file[f])
      BY DEF Init
    <3>2. DOMAIN medium[f] = Blocks /\ \A j \in Blocks : medium[f][j] = {ReadOf(f, j)}
      BY <3>1 DEF Settled, ReadOf
    <3>3. file[f] \in Seq(AnyBlock) /\ Len(file[f]) \in 0 .. MaxLen(f)
      <4>1. CASE f = "db"
        BY <4>1, <1>1, <1>5 DEF db, MaxLen
      <4>2. CASE f = "jr"
        BY <4>2, <1>1, <1>3, EmptySeq DEF jr, MaxLen
      <4> QED  BY <4>1, <4>2 DEF Names
    <3>4. \A j \in Blocks : ReadOf(f, j) \in BlockSet(f, j)
      <4>1. CASE f = "db"
        BY <4>1, <1>4, <1>5, Constants DEF db, ReadOf, Blocks
      <4>2. CASE f = "jr"
        BY <4>2, <1>3, Constants DEF jr, ReadOf, Blocks
      <4> QED  BY <4>1, <4>2 DEF Names
    <3> QED  BY <3>1, <3>2, <3>3, <3>4 DEF FileType
  <2> QED  BY <2>1, <2>2 DEF StoreType
<1>7. db \in Contents /\ << >> \in Contents
  <2>1. db \in Contents
    BY <1>1, <1>5, <1>4, ContentsAreSeqs
  <2> QED  BY <2>1, EmptyContents
<1>8. ControlType
  <2>1. port \in {"quec", "win"} /\ exists \in BOOLEAN /\ step \in Steps
    BY DEF Init, Steps
  <2>2. tx \in 0 .. MaxTx /\ n \in 0 .. MaxPages
    BY <1>1, JournalAssumption DEF Init
  <2>3. goal \in Contents /\ acked \in Contents /\ committed \subseteq Contents
    BY <1>7 DEF Init
  <2>4. dropped \subseteq {"sync", "remove"} /\ crashes \in Nat /\ faults \in Nat
    BY DEF Init
  <2> QED  BY <2>1, <2>2, <2>3, <2>4 DEF ControlType
<1>9. Planned
  BY DEF Init, Planned
<1> QED  BY <1>6, <1>8, <1>9 DEF TypeInv

LEMMA SyncEffect ==
  ASSUME StoreType, faults \in Nat, NEW f \in Names, NEW next, Sync(f, next)
  PROVE  /\ StoreType' /\ step' = next /\ file' = file /\ faults' \in Nat
         /\ \/ Synced(f) /\ dropped' = dropped
            \/ dropped' = dropped \cup {"sync"} /\ UNCHANGED store
<1>1. CASE Synced(f) /\ NoFault /\ UNCHANGED <<file, dropped>>
  BY <1>1, SyncedEffect, Zenon DEF Sync, Goes, NoFault
<1>2. CASE Fault /\ dropped' = dropped \cup {"sync"} /\ UNCHANGED store
  BY <1>2 DEF Sync, Goes, Fault, store, StoreType, FileType, ReadOf
<1> QED  BY <1>1, <1>2 DEF Sync, Synced

LEMMA DeleteEffect ==
  ASSUME StoreType, faults \in Nat, Delete
  PROVE  /\ StoreType' /\ Untouched("db") /\ db' = db /\ faults' \in Nat
         /\ \/ exists' = FALSE /\ Emptied("jr") /\ dropped' = dropped
            \/ dropped' = dropped \cup {"remove"} /\ UNCHANGED <<store, exists>>
<1>1. CASE exists' = FALSE /\ Emptied("jr") /\ NoFault /\ UNCHANGED dropped
  BY <1>1, EmptiedEffect DEF NoFault, Untouched, db
<1>2. CASE Fault /\ dropped' = dropped \cup {"remove"} /\ UNCHANGED <<store, exists>>
  BY <1>2 DEF Fault, store, StoreType, FileType, ReadOf, Untouched, db
<1> QED  BY <1>1, <1>2 DEF Delete

LEMMA CheckJournalTypes == ASSUME TypeInv, CheckJournal  PROVE TypeInv'
<1>1. StoreType /\ ControlType /\ faults \in Nat  BY DEF TypeInv, ControlType
<1>2. CASE Delete /\ Goes("ready")
  <2>1. /\ StoreType' /\ faults' \in Nat /\ exists' \in BOOLEAN
        /\ dropped' \subseteq {"sync", "remove"}
    BY <1>1, <1>2, DeleteEffect DEF ControlType
  <2>2. step' = "ready" /\ n' = 0 /\ goal' = << >>
    BY <1>2 DEF CheckJournal, Goes
  <2>3. ControlType'
    <3>1. step' \in Steps /\ n' \in 0 .. MaxPages /\ goal' \in Contents
      BY <2>2, EmptyContents, Constants DEF Steps
    <3>2. UNCHANGED <<port, tx, acked, committed, crashes>>
      BY DEF CheckJournal
    <3> QED  BY <1>1, <2>1, <3>1, <3>2 DEF ControlType
  <2> QED  BY <2>1, <2>2, <2>3 DEF TypeInv, Planned
<1>3. CASE /\ Goes(IF Access /\ HasHeader THEN "truncate" ELSE "ready")
           /\ UNCHANGED <<store, exists, dropped, faults>>
  <2>1. StoreType'
    BY <1>1, <1>3 DEF store, StoreType, FileType, ReadOf
  <2>2. step' \in {"truncate", "ready"} /\ n' = 0 /\ goal' = << >>
    BY <1>3 DEF CheckJournal, Goes
  <2>3. ControlType'
    <3>1. n' \in 0 .. MaxPages /\ goal' \in Contents
      BY <2>2, EmptyContents, Constants
    <3>2. UNCHANGED <<port, tx, acked, committed, crashes>>
      BY DEF CheckJournal
    <3>3. step' \in Steps
      BY <2>2 DEF Steps
    <3> QED  BY <1>1, <1>3, <3>1, <3>2, <3>3 DEF ControlType
  <2>4. Planned'
    BY <1>3, <2>2 DEF Planned, Goes, HasHeader, jr, store
  <2> QED  BY <2>1, <2>3, <2>4 DEF TypeInv
<1> QED  BY <1>2, <1>3 DEF CheckJournal

LEMMA PlayTruncateTypes == ASSUME TypeInv, PlayTruncate  PROVE TypeInv'
<1>1. StoreType /\ ControlType /\ faults \in Nat /\ step = "truncate" /\ HasHeader /\ n = 0
  BY DEF TypeInv, ControlType, Planned, PlayTruncate
<1>2. Header.size \in 0 .. MaxPages /\ Len(db) \in 0 .. MaxPages /\ "db" \in Names
  BY <1>1, Reads DEF Headers, Names
<1>3. StoreType' /\ step' \in {"restore", "start"} /\ faults' \in Nat /\ jr' = jr
  <2>1. CASE Len(db) > Header.size /\ QuecTruncate("db", Header.size, "restore")
    <3>1. CASE Truncated(Header.size) /\ Goes("restore") /\ NoFault
      <4>1. Header.size \in 0 .. Len(db)
        BY <1>2, <2>1
      <4> QED  BY <1>1, <3>1, <4>1, TruncatedEffect DEF Goes, NoFault, Untouched, jr
    <3>2. CASE Fault /\ Goes("start") /\ UNCHANGED store
      BY <1>1, <3>2 DEF Fault, Goes, store, StoreType, FileType, ReadOf, jr
    <3> QED  BY <2>1, <3>1, <3>2 DEF QuecTruncate, Truncated
  <2>2. CASE Len(db) > Header.size /\ WinTruncate("db", Header.size, "restore")
    BY <1>1, <2>2 DEF WinTruncate, Goes, store, StoreType, FileType, ReadOf, jr
  <2>3. CASE Len(db) < Header.size /\ Write("db", Header.size, Zero, "restore")
    <3>1. Header.size \in 1 .. MaxLen("db") /\ Zero \in BlockSet("db", Header.size)
      BY <1>2, <2>3, Constants DEF MaxLen
    <3>2. StoreType' /\ Untouched("jr") /\ step' \in {"restore", "start"} /\ faults' \in Nat
      BY <1>1, <1>2, <2>3, <3>1, WriteEffect DEF Names
    <3> QED  BY <3>2 DEF Untouched, jr
  <2>4. CASE Goes("restore") /\ UNCHANGED <<store, faults>>
    BY <1>1, <2>4 DEF Goes, store, StoreType, FileType, ReadOf, jr
  <2> QED  BY <2>1, <2>2, <2>3, <2>4 DEF PlayTruncate
<1>4. ControlType'
  BY <1>1, <1>3 DEF ControlType, PlayTruncate, Steps
<1>5. Planned'
  BY <1>1, <1>3 DEF Planned, HasHeader, PlayTruncate
<1> QED  BY <1>3, <1>4, <1>5 DEF TypeInv

LEMMA GoodRecord ==
  ASSUME StoreType, NEW i \in 1 .. MaxPages, Good(i)
  PROVE  jr[i + 1] \in Records /\ jr[i + 1] \in medium["jr"][i + 1] /\ i + 1 \in 2 .. MaxPages + 1
<1>1. i + 1 \in 1 .. Len(jr) /\ i + 1 > 1 /\ Valid(jr[i + 1]) /\ i + 1 \in 2 .. MaxPages + 1
  BY Reads, Constants DEF Good, Valid
<1> QED  BY <1>1, Reads

LEMMA PlayRecordTypes == ASSUME TypeInv, PlayRecord  PROVE TypeInv'
<1>1. StoreType /\ ControlType /\ faults \in Nat /\ step = "restore" /\ HasHeader
  BY DEF TypeInv, ControlType, Planned, PlayRecord
<1>2. CASE Good(n + 1) /\ Write("db", jr[n + 2].page, jr[n + 2].val, "restore") /\ n' = n + 1
  <2>1. n + 1 \in 1 .. MaxPages /\ (n + 1) + 1 = n + 2
    <3>1. Header.n \in 0 .. MaxPages
      BY <1>1, Reads DEF Headers
    <3> QED  BY <1>1, <1>2, <3>1, Constants DEF ControlType, Good
  <2>2. jr[n + 2] \in Records
    BY <1>1, <1>2, <2>1, GoodRecord
  <2>3. /\ "db" \in Names /\ jr[n + 2].page \in 1 .. MaxLen("db")
        /\ jr[n + 2].val \in BlockSet("db", jr[n + 2].page)
    BY <2>2, Constants DEF Names, Records, MaxLen
  <2>4. StoreType' /\ Untouched("jr") /\ step' \in {"restore", "start"} /\ faults' \in Nat
    BY <1>1, <1>2, <2>3, WriteEffect DEF Names
  <2>5. ControlType'
    <3>1. n' \in 0 .. MaxPages
      BY <1>2, <2>1, Constants
    <3>2. step' \in Steps
      BY <2>4 DEF Steps
    <3> QED  BY <1>1, <2>4, <3>1, <3>2 DEF ControlType, PlayRecord
  <2>6. Planned'
    BY <1>1, <2>4 DEF Planned, HasHeader, Untouched, jr
  <2> QED  BY <2>4, <2>5, <2>6 DEF TypeInv
<1>3. CASE Goes("restored") /\ UNCHANGED <<store, faults, n>>
  <2>1. StoreType'
    BY <1>1, <1>3 DEF store, StoreType, FileType, ReadOf
  <2>2. ControlType'
    BY <1>1, <1>3 DEF ControlType, PlayRecord, Steps, Goes
  <2>3. Planned'
    BY <1>3 DEF Planned, Goes
  <2> QED  BY <2>1, <2>2, <2>3 DEF TypeInv
<1> QED  BY <1>2, <1>3 DEF PlayRecord

LEMMA PlaySyncTypes == ASSUME TypeInv, PlaySync  PROVE TypeInv'
<1>1. StoreType /\ ControlType /\ Planned /\ faults \in Nat /\ step = "restored" /\ "db" \in Names
  BY DEF TypeInv, ControlType, PlaySync, Names
<1>2. /\ StoreType' /\ step' = "played" /\ file' = file /\ faults' \in Nat
      /\ dropped' = dropped \/ dropped' = dropped \cup {"sync"}
  BY <1>1, SyncEffect DEF PlaySync
<1>3. step' \in Steps  BY <1>2 DEF Steps
<1>4. ControlType'
  BY <1>1, <1>2, <1>3 DEF ControlType, PlaySync
<1>5. Planned'
  BY <1>1, <1>2 DEF Planned, PlaySync
<1> QED  BY <1>2, <1>4, <1>5 DEF TypeInv

LEMMA PlayDeleteTypes == ASSUME TypeInv, PlayDelete  PROVE TypeInv'
<1>1. StoreType /\ ControlType /\ faults \in Nat
  BY DEF TypeInv, ControlType
<1>2. /\ StoreType' /\ step' = "ready" /\ faults' \in Nat /\ exists' \in BOOLEAN
      /\ dropped' \subseteq {"sync", "remove"}
  BY <1>1, DeleteEffect DEF PlayDelete, Goes, ControlType
<1>3. step' \in Steps  BY <1>2 DEF Steps
<1>4. ControlType'
  BY <1>1, <1>2, <1>3 DEF ControlType, PlayDelete
<1>5. Planned'
  BY <1>2 DEF Planned
<1> QED  BY <1>2, <1>4, <1>5 DEF TypeInv

LEMMA BeginTypes ==
  ASSUME TypeInv, Begin
  PROVE  TypeInv' /\ Len(db) <= Len(goal')
<1>1. StoreType /\ ControlType
  BY DEF TypeInv
<1>2. StoreType'
  BY <1>1 DEF Begin, store, StoreType, FileType, ReadOf
<1>3. step' = "open" /\ step' \in Steps /\ n' = 0 /\ db' = db
  BY DEF Begin, Goes, Steps, db, store
<1>4. tx' \in 0 .. MaxTx /\ tx' \in Values
  BY <1>1, JournalAssumption DEF Begin, ControlType, Values, Pages
<1>5. goal' \in Contents /\ Len(db) <= Len(goal')
  <2>1. PICK size \in 1 .. MaxPages, changed \in SUBSET (1 .. Len(db)) :
          /\ size > Len(db) \/ (size = Len(db) /\ changed # {})
          /\ goal' = [i \in 1 .. size |-> IF i > Len(db) \/ i \in changed THEN tx' ELSE db[i]]
    BY DEF Begin
  <2> DEFINE e(i) == IF i > Len(db) \/ i \in changed THEN tx' ELSE db[i]
  <2>2. Len(db) \in Nat /\ size \in Nat /\ size \in 0 .. MaxPages
    BY <1>1, Reads, Constants
  <2>3. \A i \in 1 .. size : e(i) \in Values
    BY <1>1, <1>4, <2>2, Reads
  <2>4. goal' = [i \in 1 .. size |-> e(i)]
    BY <2>1
  <2> HIDE DEF e
  <2>5. goal' \in [1 .. size -> Values]
    BY <2>3, <2>4
  <2>6. Len(goal') = size
    BY <2>2, <2>4
  <2> QED  BY <2>1, <2>2, <2>5, <2>6 DEF Contents
<1>6. ControlType'
  <2>1. n' \in 0 .. MaxPages  BY <1>3, Constants
  <2> QED  BY <1>1, <1>3, <1>4, <1>5, <2>1 DEF ControlType, Begin
<1>7. Planned'
  BY <1>3, <1>5 DEF Planned
<1> QED  BY <1>2, <1>5, <1>6, <1>7 DEF TypeInv

LEMMA OpenTypes == ASSUME TypeInv, Open  PROVE TypeInv'
<1>1. StoreType /\ ControlType /\ Planned /\ faults \in Nat /\ step = "open"
  BY DEF TypeInv, ControlType, Open
<1>2. StoreType'
  BY <1>1 DEF Open, store, StoreType, FileType, ReadOf
<1>3. step' \in {"header", "start"} /\ exists' \in BOOLEAN /\ faults' \in Nat
  <2>1. exists \in BOOLEAN  BY <1>1 DEF ControlType
  <2>2. CASE OpenJournal /\ Goes("header") /\ NoFault
    BY <1>1, <2>2 DEF OpenJournal, Goes, NoFault
  <2>3. CASE Fault /\ Goes("start") /\ UNCHANGED exists
    BY <1>1, <2>1, <2>3 DEF Fault, Goes
  <2> QED  BY <2>2, <2>3 DEF Open
<1>4. step' \in Steps  BY <1>3 DEF Steps
<1>5. ControlType'
  BY <1>1, <1>3, <1>4 DEF ControlType, Open
<1>6. Planned'
  BY <1>1, <1>3 DEF Planned, Open, store, db
<1> QED  BY <1>2, <1>5, <1>6 DEF TypeInv

LEMMA HeaderIsTyped ==
  ASSUME StoreType, ControlType, NEW records \in 0 .. MaxPages
  PROVE  /\ HeaderOf(records) \in Headers /\ HeaderOf(records) \in BlockSet("jr", 1)
         /\ "jr" \in Names /\ 1 \in 1 .. MaxLen("jr")
<1>1. Len(db) \in 0 .. MaxPages /\ tx \in Pages
  BY Reads DEF ControlType, Pages
<1>2. HeaderOf(records) \in Headers
  BY <1>1 DEF HeaderOf, Headers
<1> QED  BY <1>2, JournalAssumption DEF BlockSet, Names, MaxLen

LEMMA WriteHeaderTypes == ASSUME TypeInv, WriteHeader  PROVE TypeInv'
<1>1. StoreType /\ ControlType /\ Planned /\ faults \in Nat /\ step = "header"
  BY DEF TypeInv, ControlType, WriteHeader
<1>2. 0 \in 0 .. MaxPages
  BY <1>1, Constants DEF ControlType
<1>3. /\ StoreType' /\ Untouched("db") /\ faults' \in Nat
      /\ step' \in {"records", "start"}
  BY <1>1, <1>2, HeaderIsTyped, WriteEffect DEF WriteHeader, Names
<1>4. step' \in Steps  BY <1>3 DEF Steps
<1>5. ControlType'
  BY <1>1, <1>3, <1>4 DEF ControlType, WriteHeader
<1>6. Planned'
  BY <1>1, <1>3 DEF Planned, WriteHeader, Untouched, db
<1> QED  BY <1>3, <1>5, <1>6 DEF TypeInv

LEMMA RecordIsTyped ==
  ASSUME StoreType, ControlType, NEW p \in Differ, n + 1 \in 1 .. MaxPages
  PROVE  /\ [page |-> p, val |-> db[p], nonce |-> tx] \in Records
         /\ [page |-> p, val |-> db[p], nonce |-> tx] \in BlockSet("jr", n + 2)
         /\ "jr" \in Names /\ n + 2 \in 2 .. MaxLen("jr")
<1>1. p \in 1 .. MaxPages /\ p \in 1 .. Len(db) /\ tx \in Pages
  BY Rank DEF Differ, ControlType, Pages
<1>2. db[p] \in Values
  BY <1>1, Reads
<1>3. [page |-> p, val |-> db[p], nonce |-> tx] \in Records
  BY <1>1, <1>2 DEF Records
<1>4. n \in Nat /\ n + 2 \in 2 .. MaxLen("jr") /\ n + 2 # 1
  BY JournalAssumption DEF ControlType, MaxLen
<1> QED  BY <1>3, <1>4 DEF BlockSet, Names

LEMMA WriteRecordTypes == ASSUME TypeInv, WriteRecord  PROVE TypeInv'
<1>1. StoreType /\ ControlType /\ Planned /\ faults \in Nat /\ step = "records"
  BY DEF TypeInv, ControlType, WriteRecord
<1>2. ASSUME NEW p \in Differ \ Journalled, \A q \in Differ \ Journalled : p <= q,
             Write("jr", n + 2, [page |-> p, val |-> db[p], nonce |-> tx], "records"),
             n' = n + 1
      PROVE  TypeInv'
  <2>1. n + 1 \in 1 .. MaxPages
    BY <1>1, <1>2, NextRecord
  <2>2. /\ "jr" \in Names /\ n + 2 \in 1 .. MaxLen("jr")
        /\ [page |-> p, val |-> db[p], nonce |-> tx] \in BlockSet("jr", n + 2)
    BY <1>1, <1>2, <2>1, RecordIsTyped
  <2>3. /\ StoreType' /\ Untouched("db") /\ faults' \in Nat
        /\ step' \in {"records", "start"}
    BY <1>1, <1>2, <2>2, WriteEffect DEF Names
  <2>4. step' \in Steps  BY <2>3 DEF Steps
  <2>5. n' \in 0 .. MaxPages  BY <1>2, <2>1, Constants
  <2>6. ControlType'
    BY <1>1, <2>3, <2>4, <2>5 DEF ControlType, WriteRecord
  <2>7. Planned'
    BY <1>1, <2>3 DEF Planned, WriteRecord, Untouched, db
  <2> QED  BY <2>3, <2>6, <2>7 DEF TypeInv
<1>3. ASSUME Goes("sync records"), UNCHANGED <<store, faults, n>>
      PROVE  TypeInv'
  <2>1. StoreType'
    BY <1>1, <1>3 DEF store, StoreType, FileType, ReadOf
  <2>2. step' = "sync records" /\ step' \in Steps
    BY <1>3 DEF Goes, Steps
  <2>3. ControlType'
    BY <1>1, <1>3, <2>2 DEF ControlType, WriteRecord
  <2>4. Planned'
    BY <1>1, <1>3, <2>2 DEF Planned, WriteRecord, store, db
  <2> QED  BY <2>1, <2>3, <2>4 DEF TypeInv
<1> QED  BY <1>2, <1>3 DEF WriteRecord

LEMMA SyncRecordsTypes == ASSUME TypeInv, SyncRecords  PROVE TypeInv'
<1>1. /\ StoreType /\ ControlType /\ Planned /\ faults \in Nat
      /\ step = "sync records" /\ "jr" \in Names
  BY DEF TypeInv, ControlType, SyncRecords, Names
<1>2. /\ StoreType' /\ step' = "count" /\ file' = file /\ faults' \in Nat
      /\ dropped' = dropped \/ dropped' = dropped \cup {"sync"}
  BY <1>1, SyncEffect DEF SyncRecords
<1>3. step' \in Steps  BY <1>2 DEF Steps
<1>4. ControlType'
  BY <1>1, <1>2, <1>3 DEF ControlType, SyncRecords
<1>5. Planned'
  BY <1>1, <1>2 DEF Planned, SyncRecords, db
<1> QED  BY <1>2, <1>4, <1>5 DEF TypeInv

LEMMA WriteCountTypes == ASSUME TypeInv, WriteCount  PROVE TypeInv'
<1>1. StoreType /\ ControlType /\ Planned /\ faults \in Nat /\ step = "count"
  BY DEF TypeInv, ControlType, WriteCount
<1>2. n \in 0 .. MaxPages
  BY <1>1, Constants DEF ControlType
<1>3. /\ StoreType' /\ Untouched("db") /\ faults' \in Nat
      /\ step' \in {"sync count", "start"}
  BY <1>1, <1>2, HeaderIsTyped, WriteEffect DEF WriteCount, Names
<1>4. step' \in Steps  BY <1>3 DEF Steps
<1>5. ControlType'
  BY <1>1, <1>3, <1>4 DEF ControlType, WriteCount
<1>6. Planned'
  BY <1>1, <1>3 DEF Planned, WriteCount, Untouched, db
<1> QED  BY <1>3, <1>5, <1>6 DEF TypeInv

LEMMA SyncCountTypes == ASSUME TypeInv, SyncCount  PROVE TypeInv'
<1>1. StoreType /\ ControlType /\ Planned /\ faults \in Nat /\ step = "sync count" /\ "jr" \in Names
  BY DEF TypeInv, ControlType, SyncCount, Names
<1>2. /\ StoreType' /\ step' = "pages" /\ file' = file /\ faults' \in Nat
      /\ dropped' = dropped \/ dropped' = dropped \cup {"sync"}
  BY <1>1, SyncEffect DEF SyncCount
<1>3. step' \in Steps  BY <1>2 DEF Steps
<1>4. ControlType'
  BY <1>1, <1>2, <1>3 DEF ControlType, SyncCount
<1>5. Planned'
  BY <1>1, <1>2 DEF Planned, SyncCount, db
<1> QED  BY <1>2, <1>4, <1>5 DEF TypeInv

LEMMA GoalPage ==
  ASSUME ControlType, NEW p \in 1 .. Len(goal)
  PROVE  p \in 1 .. MaxPages /\ goal[p] \in Values /\ Len(goal) \in 0 .. MaxPages
BY ContentsAreSeqs, JournalAssumption DEF ControlType

LEMMA WritePageTypes == ASSUME TypeInv, WritePage  PROVE TypeInv'
<1>1. /\ StoreType /\ ControlType /\ Planned /\ faults \in Nat /\ step = "pages"
      /\ Len(db) <= Len(goal) /\ Len(db) \in 0 .. MaxPages /\ Len(goal) \in 0 .. MaxPages
  BY Reads, ContentsAreSeqs DEF TypeInv, ControlType, Planned, WritePage
<1>2. ASSUME NEW p \in Unwritten, Write("db", p, goal[p], "pages")
      PROVE  TypeInv'
  <2>1. p \in 1 .. Len(goal) /\ p \in 1 .. MaxPages /\ goal[p] \in Values
    BY <1>1, GoalPage DEF Unwritten
  <2>2. "db" \in Names /\ p \in 1 .. MaxLen("db") /\ goal[p] \in BlockSet("db", p)
    BY <2>1, Constants DEF Names, MaxLen
  <2>3. /\ StoreType' /\ faults' \in Nat
        /\ step' = "start" \/ (step' = "pages" /\ Stored("db", p, goal[p]))
    BY <1>1, <1>2, <2>2, WriteEffect
  <2>4. step' \in Steps  BY <2>3 DEF Steps
  <2>5. ControlType'
    BY <1>1, <2>3, <2>4 DEF ControlType, WritePage
  <2>6. CASE step' = "start"
    BY <2>3, <2>5, <2>6 DEF Planned, TypeInv
  <2>7. CASE step' = "pages" /\ Stored("db", p, goal[p])
    <3>1. Len(db') = IF p > Len(db) THEN p ELSE Len(db)
      BY <1>1, <2>2, <2>7, StoredEffect DEF Holds, db
    <3>2. Len(db') <= Len(goal)
      BY <1>1, <2>1, <3>1
    <3>3. Planned'
      BY <2>7, <3>2 DEF Planned, WritePage
    <3> QED  BY <2>3, <2>5, <3>3 DEF TypeInv
  <2> QED  BY <2>3, <2>6, <2>7
<1>3. ASSUME Unwritten = {}, Goes("sync pages"), UNCHANGED <<store, faults>>
      PROVE  TypeInv'
  <2>1. StoreType'
    BY <1>1, <1>3 DEF store, StoreType, FileType, ReadOf
  <2>2. step' = "sync pages" /\ step' \in Steps
    BY <1>3 DEF Goes, Steps
  <2>3. ControlType'
    BY <1>1, <1>3, <2>2 DEF ControlType, WritePage
  <2>4. db = goal
    <3>1. \A i \in 1 .. Len(goal) : i <= Len(db) /\ db[i] = goal[i]
      <4> TAKE i \in 1 .. Len(goal)
      <4>1. i \notin Unwritten  BY <1>3
      <4>2. i \in Nat /\ Len(db) \in Nat  BY <1>1
      <4> QED  BY <4>1, <4>2 DEF Unwritten
    <3>2. Len(db) = Len(goal)
      BY <1>1, <3>1
    <3>3. db \in Seq(Values) /\ goal \in Seq(Values)
      BY <1>1, Reads, ContentsAreSeqs DEF ControlType
    <3> QED  BY <1>1, <3>1, <3>2, <3>3, SeqEqual
  <2>5. Planned'
    BY <1>3, <2>2, <2>4 DEF Planned, WritePage, store, db
  <2> QED  BY <2>1, <2>3, <2>5 DEF TypeInv
<1> QED  BY <1>2, <1>3 DEF WritePage

LEMMA SyncPagesTypes == ASSUME TypeInv, SyncPages  PROVE TypeInv'
<1>1. StoreType /\ ControlType /\ Planned /\ faults \in Nat /\ step = "sync pages" /\ "db" \in Names
  BY DEF TypeInv, ControlType, SyncPages, Names
<1>2. /\ StoreType' /\ step' = "commit" /\ file' = file /\ faults' \in Nat
      /\ dropped' = dropped \/ dropped' = dropped \cup {"sync"}
  BY <1>1, SyncEffect DEF SyncPages
<1>3. step' \in Steps  BY <1>2 DEF Steps
<1>4. ControlType'
  BY <1>1, <1>2, <1>3 DEF ControlType, SyncPages
<1>5. Planned'
  BY <1>1, <1>2 DEF Planned, SyncPages, db
<1> QED  BY <1>2, <1>4, <1>5 DEF TypeInv

LEMMA CommitTypes == ASSUME TypeInv, CommitTx  PROVE TypeInv'
<1>1. StoreType /\ ControlType /\ faults \in Nat
  BY DEF TypeInv, ControlType
<1>2. /\ StoreType' /\ step' = "start" /\ faults' \in Nat /\ exists' \in BOOLEAN
      /\ dropped' \subseteq {"sync", "remove"}
  BY <1>1, DeleteEffect DEF CommitTx, Goes, ControlType
<1>3. step' \in Steps  BY <1>2 DEF Steps
<1>4. ControlType'
  BY <1>1, <1>2, <1>3 DEF ControlType, CommitTx
<1>5. Planned'
  BY <1>2 DEF Planned
<1> QED  BY <1>2, <1>4, <1>5 DEF TypeInv

LEMMA CrashTypes == ASSUME TypeInv, Crash  PROVE TypeInv'
<1>1. StoreType /\ ControlType
  BY DEF TypeInv
<1>2. StoreType'
  BY <1>1, CrashEffect
<1>3. step' = "start" /\ n' = 0 /\ goal' = << >> /\ crashes' = crashes + 1
      /\ UNCHANGED <<port, exists, tx, acked, committed, dropped, faults>>
  BY DEF Crash, Goes
<1>4. step' \in Steps /\ n' \in 0 .. MaxPages /\ goal' \in Contents
  <2>1. step' \in Steps  BY <1>3 DEF Steps
  <2> QED  BY <1>3, <2>1, EmptyContents, Constants
<1>5. ControlType'
  BY <1>1, <1>3, <1>4 DEF ControlType
<1>6. Planned'
  BY <1>3 DEF Planned
<1> QED  BY <1>2, <1>5, <1>6 DEF TypeInv

LEMMA StutterTypes == ASSUME TypeInv, UNCHANGED vars  PROVE TypeInv'
<1>1. StoreType'
  BY DEF TypeInv, vars, store, StoreType, FileType, ReadOf
<1>2. ControlType'
  BY DEF TypeInv, vars, ControlType
<1>3. Planned'
  BY DEF TypeInv, vars, store, Planned, HasHeader, jr, db
<1> QED  BY <1>1, <1>2, <1>3 DEF TypeInv

LEMMA NextTypes == ASSUME TypeInv, [Next]_vars  PROVE TypeInv'
<1>1. CASE Recover
  BY <1>1, CheckJournalTypes, PlayTruncateTypes, PlayRecordTypes, PlaySyncTypes, PlayDeleteTypes
    DEF Recover
<1>2. CASE Transact
  BY <1>2, OpenTypes, WriteHeaderTypes, WriteRecordTypes, SyncRecordsTypes, WriteCountTypes,
     SyncCountTypes, WritePageTypes, SyncPagesTypes, CommitTypes DEF Transact
<1> QED  BY <1>1, <1>2, BeginTypes, CrashTypes, StutterTypes DEF Next
-----------------------------------------------------------------------------
(* What each operation on one of the two files leaves of the invariant.  *)

\* Nothing that is said of the journal changes with the database.
LEMMA JournalSame ==
  ASSUME Untouched("jr"), NEW c
  PROVE  /\ jr' = jr /\ (HasHeader' <=> HasHeader) /\ Header' = Header
         /\ \A i : Good(i)' <=> Good(i)
         /\ \A p : Recorded(p)' <=> Recorded(p)
         /\ Harmless(c)' <=> Harmless(c)
         /\ Idle' <=> Idle
         /\ exists' = exists => (JournalSettled' <=> JournalSettled) /\ (NoEntry' <=> NoEntry)
         /\ tx' = tx => (Nonces' <=> Nonces) /\ (Fresh' <=> Fresh) /\ (Mine(c)' <=> Mine(c))
         /\ exists' = exists /\ tx' = tx => (JournalState(c)' <=> JournalState(c))
<1>1. jr' = jr /\ medium'["jr"] = medium["jr"] /\ lengths'["jr"] = lengths["jr"]
  BY DEF Untouched, jr
<1>2. (HasHeader' <=> HasHeader) /\ Header' = Header
  BY <1>1 DEF HasHeader, Header
<1>3. \A i : Good(i)' <=> Good(i)
  BY <1>1, <1>2 DEF Good
<1>4. \A p : Recorded(p)' <=> Recorded(p)
  BY <1>1, <1>3 DEF Recorded, Played
<1>5. Harmless(c)' <=> Harmless(c)
  BY <1>1 DEF Harmless
<1>6. Idle' <=> Idle
  BY <1>2 DEF Idle
<1>7. exists' = exists => (JournalSettled' <=> JournalSettled) /\ (NoEntry' <=> NoEntry)
  BY <1>1, <1>2 DEF JournalSettled, NoEntry
<1>8. tx' = tx => (Nonces' <=> Nonces) /\ (Fresh' <=> Fresh) /\ (Mine(c)' <=> Mine(c))
  BY <1>1 DEF Nonces, Fresh, Mine
<1> QED  BY <1>1, <1>2, <1>3, <1>4, <1>5, <1>6, <1>7, <1>8 DEF JournalState

LEMMA DatabaseSame ==
  ASSUME Untouched("db"), NEW c
  PROVE  /\ db' = db /\ (Clean(c)' <=> Clean(c)) /\ (EmptySettled' <=> EmptySettled)
         /\ lengths'["db"] = lengths["db"] /\ medium'["db"] = medium["db"]
BY DEF Untouched, db, Clean, EmptySettled

LEMMA BothSame ==
  ASSUME Untouched("db"), Untouched("jr"), exists' = exists, NEW c
  PROVE  Armed(c)' <=> Armed(c)
BY JournalSame, DatabaseSame DEF Armed

LEMMA StoreSame ==
  ASSUME UNCHANGED store
  PROVE  Untouched("db") /\ Untouched("jr")
BY DEF store, Untouched

LEMMA JournalEmptied ==
  ASSUME StoreType, Emptied("jr"), NEW c
  PROVE  JournalState(c)' /\ Idle' /\ ~HasHeader'
<1>1. jr' = << >> /\ \A j \in Blocks : medium'["jr"][j] = {Zero}
  BY EmptiedEffect
<1>2. 1 \in Blocks  BY JournalAssumption DEF Blocks
<1>3. ~HasHeader' /\ Idle'
  BY <1>1 DEF HasHeader, Idle
<1>4. Harmless(c)' /\ NoEntry'
  BY <1>1, <1>2 DEF Harmless, NoEntry, Valid
<1>5. Nonces'
  BY <1>1 DEF Nonces, Valid
<1> QED  BY <1>3, <1>4, <1>5 DEF JournalState

\* A removal leaves no journal, or the whole of it.
LEMMA DeleteKeeps ==
  ASSUME StoreType, faults \in Nat, Delete, tx' = tx, NEW c, JournalState(c)
  PROVE  /\ JournalState(c)' /\ Untouched("db")
         /\ \/ Idle' /\ dropped' = dropped
            \/ Untouched("jr") /\ exists' = exists /\ "remove" \in dropped'
<1>1. Untouched("db")
  BY DeleteEffect
<1>2. CASE Emptied("jr") /\ dropped' = dropped
  BY <1>1, <1>2, JournalEmptied
<1>3. CASE dropped' = dropped \cup {"remove"} /\ UNCHANGED <<store, exists>>
  BY <1>3, StoreSame, JournalSame
<1> QED  BY <1>2, <1>3, DeleteEffect

LEMMA EmptyClean ==
  ASSUME StoreType, NEW c \in Contents, Armed(c), EmptySettled, db = << >>
  PROVE  Clean(c)
<1>1. c \in Seq(Values) /\ Len(c) \in Nat /\ lengths["db"] = {0}
  BY ContentsAreSeqs, Constants DEF EmptySettled
<1>2. Len(c) = 0
  BY <1>1 DEF Armed
<1>3. c = << >>
  BY <1>1, <1>2, EmptySeq
<1> QED  BY <1>1, <1>2, <1>3 DEF Clean

LEMMA CheckJournalKeeps ==
  ASSUME TypeInv, NEW c \in Contents, State(c), CheckJournal
  PROVE  State(c)'
<1>1. /\ StoreType /\ faults \in Nat /\ step = "start" /\ Pending(c) /\ JournalState(c)
      /\ tx' = tx
  BY DEF TypeInv, ControlType, State, StepState, CheckJournal
<1>2. CASE db = << >> /\ Delete /\ Goes("ready")
  <2>1. Clean(c) /\ (Idle \/ Armed(c))
    BY <1>1, <1>2, EmptyClean DEF Pending
  <2>2. /\ JournalState(c)' /\ Untouched("db")
        /\ Idle' \/ (Untouched("jr") /\ exists' = exists)
    BY <1>1, <1>2, DeleteKeeps
  <2>3. Clean(c)' /\ (Idle' \/ Armed(c)')
    BY <2>1, <2>2, JournalSame, DatabaseSame, BothSame
  <2>4. step' = "ready"  BY <1>2 DEF Goes
  <2> QED  BY <2>2, <2>3, <2>4 DEF State, StepState
<1>3. CASE /\ Goes(IF Access /\ HasHeader THEN "truncate" ELSE "ready")
           /\ UNCHANGED <<store, exists, dropped, faults>>
  <2>1. Untouched("db") /\ Untouched("jr") /\ exists' = exists
    BY <1>3, StoreSame
  <2>2. JournalState(c)'
    BY <1>1, <2>1, JournalSame
  <2>3. Pending(c)'
    BY <1>1, <2>1, JournalSame, DatabaseSame, BothSame DEF Pending
  <2>4. CASE Access /\ HasHeader
    <3>1. step' = "truncate"  BY <1>3, <2>4 DEF Goes
    <3> QED  BY <2>2, <2>3, <3>1 DEF State, StepState
  <2>5. CASE ~(Access /\ HasHeader)
    <3>1. step' = "ready"  BY <1>3, <2>5 DEF Goes
    <3>2. ~Armed(c)
      BY <2>5 DEF Armed, JournalSettled, Access, QuecAccess, WinAccess, HasHeader
    <3>3. Clean(c)' /\ Idle'
      BY <1>1, <2>1, <3>2, JournalSame, DatabaseSame DEF Pending
    <3> QED  BY <2>2, <3>1, <3>3 DEF State, StepState
  <2> QED  BY <2>4, <2>5
<1> QED  BY <1>2, <1>3 DEF CheckJournal

LEMMA JournalSameState ==
  ASSUME Untouched("jr"), exists' = exists, tx' = tx, NEW c, JournalState(c)
  PROVE  JournalState(c)'
BY JournalSame

\* The database may change where the journal has the page.
LEMMA ArmedChanges ==
  ASSUME NEW c, Armed(c), Untouched("jr"), exists' = exists,
         \A len \in lengths'["db"] : len >= Len(c),
         \A p \in 1 .. Len(c) : Recorded(p) \/ medium'["db"][p] = medium["db"][p]
  PROVE  Armed(c)'
<1>1. JournalSettled' /\ \A p : Recorded(p)' <=> Recorded(p)
  BY JournalSame DEF Armed
<1> QED  BY <1>1 DEF Armed

LEMMA PageStored ==
  ASSUME StoreType, NEW c \in Contents, Armed(c), NEW i \in 1 .. MaxPages, NEW b \in Values,
         Stored("db", i, b), i \in 1 .. Len(c) => Recorded(i), exists' = exists
  PROVE  Armed(c)' /\ EmptySettled' /\ Untouched("jr")
<1>1. /\ "db" \in Names /\ "jr" \in Names \ {"db"} /\ i \in 1 .. MaxLen("db")
      /\ b \in BlockSet("db", i) /\ Len(c) \in 0 .. MaxPages
  BY Constants, ContentsAreSeqs DEF Names, MaxLen
<1>2. /\ Untouched("jr") /\ StoreType'
      /\ Len(db') = IF i > Len(db) THEN i ELSE Len(db)
      /\ \A j \in Blocks : medium'["db"][j] =
           IF j = i THEN medium["db"][j] \cup {b, Torn} ELSE medium["db"][j]
      /\ lengths'["db"] = lengths["db"] \cup {Len(db')}
  <2>1. StoreType' /\ Holds("db", i, b)
    BY <1>1, StoredEffect
  <2> QED  BY <1>1, <2>1 DEF Holds, Untouched, db
<1>3. Len(db) \in Nat /\ Len(db) >= Len(c)
  BY Reads DEF Armed
<1>4. \A len \in lengths'["db"] : len >= Len(c)
  BY <1>1, <1>2, <1>3 DEF Armed
<1>5. \A p \in 1 .. Len(c) : Recorded(p) \/ medium'["db"][p] = medium["db"][p]
  <2> TAKE p \in 1 .. Len(c)
  <2>1. p \in Blocks
    BY <1>1, JournalAssumption DEF Blocks
  <2> QED  BY <1>2, <2>1
<1>6. db' # << >>
  <2>1. Len(db') # 0
    BY <1>2, <1>3
  <2> QED  BY <2>1, EmptySeq
<1> QED  BY <1>2, <1>4, <1>5, <1>6, ArmedChanges DEF EmptySettled

LEMMA PlayTruncateKeeps ==
  ASSUME TypeInv, NEW c \in Contents, State(c), PlayTruncate
  PROVE  State(c)'
<1>1. /\ StoreType /\ step = "truncate" /\ Pending(c) /\ JournalState(c)
      /\ tx' = tx /\ exists' = exists /\ n' = n /\ n = 0 /\ HasHeader
  BY DEF TypeInv, State, StepState, PlayTruncate, Planned
<1>2. Header.size = Len(c) /\ Len(db) \in Nat /\ Len(db) \in lengths["db"]
  BY <1>1, Reads DEF JournalState, Harmless, HasHeader, Header, Valid
<1>3. Len(c) \in Nat  BY ContentsAreSeqs, Constants
<1>4. CASE UNCHANGED store /\ Goes("start")
  <2>1. Untouched("db") /\ Untouched("jr")
    BY <1>4, StoreSame
  <2>2. JournalState(c)' /\ Pending(c)'
    BY <1>1, <2>1, JournalSameState, JournalSame, DatabaseSame, BothSame DEF Pending
  <2> QED  BY <1>4, <2>2 DEF State, StepState, Goes
<1>5. CASE Len(db) > Header.size /\ Truncated(Header.size) /\ Goes("restore")
  <2>1. Armed(c) /\ EmptySettled
    BY <1>1, <1>2, <1>3, <1>5 DEF Pending, Clean
  <2>2. Header.size \in 0 .. Len(db)
    BY <1>2, <1>3, <1>5
  <2>3. /\ Untouched("jr") /\ Len(db') = Len(c)
        /\ \A j \in 1 .. Len(c) : medium'["db"][j] = medium["db"][j]
        /\ lengths'["db"] = lengths["db"] \cup {Len(c)}
    BY <1>1, <1>2, <1>5, <2>2, TruncatedEffect
  <2>4. Armed(c)'
    <3>1. \A len \in lengths'["db"] : len >= Len(c)
      BY <1>3, <2>1, <2>3 DEF Armed
    <3> QED  BY <1>1, <2>1, <2>3, <3>1, ArmedChanges
  <2>5. JournalState(c)'
    BY <1>1, <2>3, JournalSameState
  <2>6. Replaying(c)'
    BY <1>1, <2>3, <2>4 DEF Replaying
  <2> QED  BY <1>5, <2>5, <2>6 DEF State, StepState, Goes
<1>6. CASE Len(db) < Header.size
  BY <1>1, <1>2, <1>3, <1>6 DEF Pending, Clean, Armed
<1>7. CASE Len(db) = Header.size /\ Goes("restore") /\ UNCHANGED store
  <2>1. Untouched("db") /\ Untouched("jr")
    BY <1>7, StoreSame
  <2>2. JournalState(c)' /\ Pending(c)' /\ db' = db
    BY <1>1, <2>1, JournalSameState, JournalSame, DatabaseSame, BothSame DEF Pending
  <2>3. Replaying(c)'
    BY <1>1, <1>2, <1>7, <2>2 DEF Replaying, Pending
  <2> QED  BY <1>7, <2>2, <2>3 DEF State, StepState, Goes
<1> QED  BY <1>4, <1>5, <1>6, <1>7 DEF PlayTruncate, QuecTruncate, WinTruncate, Truncated

\* A record that may be played back is of c.
LEMMA GoodIsOfC ==
  ASSUME StoreType, NEW c, JournalState(c), HasHeader, NEW i \in 1 .. MaxPages, Good(i)
  PROVE  /\ jr[i + 1].page \in 1 .. MaxPages /\ jr[i + 1].page <= Len(c)
         /\ jr[i + 1].val = c[jr[i + 1].page]
<1>1. jr[i + 1] \in Records /\ jr[i + 1] \in medium["jr"][i + 1] /\ i + 1 \in 2 .. MaxPages + 1
  BY GoodRecord
<1>2. Header \in medium["jr"][1] /\ Header \in Headers /\ Valid(Header)
  BY Reads DEF HasHeader, Header, Valid
<1>3. i + 1 \in 2 .. Header.n + 1 /\ Valid(jr[i + 1]) /\ jr[i + 1].nonce = Header.nonce
  BY <1>1, <1>2, JournalAssumption DEF Good, Valid, Headers
<1>4. jr[i + 1].page <= Len(c) /\ jr[i + 1].val = c[jr[i + 1].page]
  BY <1>1, <1>2, <1>3 DEF JournalState, Harmless
<1> QED  BY <1>1, <1>4 DEF Records

LEMMA PlayRecordKeeps ==
  ASSUME TypeInv, NEW c \in Contents, State(c), PlayRecord
  PROVE  State(c)'
<1>1. /\ StoreType /\ step = "restore" /\ Replaying(c) /\ JournalState(c)
      /\ tx' = tx /\ exists' = exists /\ HasHeader /\ n \in 0 .. MaxPages /\ MaxPages \in Nat
  BY Constants DEF TypeInv, State, StepState, PlayRecord, Planned, ControlType
<1>2. /\ Len(c) \in 0 .. MaxPages /\ Len(db) = Len(c) /\ Header.n \in 0 .. MaxPages
      /\ c \in Seq(Values) /\ db \in Seq(AnyBlock)
  BY <1>1, Reads, ContentsAreSeqs DEF Headers, Replaying
<1>3. CASE Good(n + 1) /\ Write("db", jr[n + 2].page, jr[n + 2].val, "restore") /\ n' = n + 1
  <2> DEFINE p == jr[n + 2].page
             b == jr[n + 2].val
  <2>1. n + 1 \in 1 .. MaxPages /\ (n + 1) + 1 = n + 2 /\ Header.n # 0
    BY <1>1, <1>2, <1>3 DEF Good
  <2>2. jr[n + 2] \in Records
    BY <1>1, <1>3, <2>1, GoodRecord
  <2>3. p \in 1 .. MaxPages /\ p <= Len(c) /\ b = c[p] /\ b \in Values
    BY <1>1, <1>3, <2>1, <2>2, GoodIsOfC DEF Records
  <2>4. /\ Armed(c)
        /\ \A i \in 1 .. n : Good(i) /\ db[jr[i + 1].page] = c[jr[i + 1].page]
    BY <1>1, <2>1 DEF Replaying, Idle
  <2>5. \A i \in 1 .. n + 1 : Good(i)
    BY <1>1, <1>3, <2>4
  <2>6. Recorded(p)
    <3>1. n + 1 \in Played /\ jr[(n + 1) + 1].page = p
      BY <2>1, <2>5 DEF Played
    <3> QED  BY <3>1 DEF Recorded
  <2>7. db # << >> /\ EmptySettled
    <3>1. Len(db) # 0  BY <1>2, <2>3
    <3> QED  BY <3>1, EmptySeq DEF EmptySettled
  <2> HIDE DEF p, b
  <2>8. CASE step' = "restore" /\ Stored("db", p, b)
    <3>1. Armed(c)' /\ Untouched("jr")
      BY <1>1, <2>3, <2>4, <2>6, <2>8, PageStored
    <3>2. JournalState(c)'
      BY <1>1, <3>1, JournalSameState
    <3>3. /\ Len(db') = Len(c) /\ db' \in Seq(AnyBlock)
          /\ \A q \in 1 .. Len(c) : db'[q] = IF q = p THEN b ELSE db[q]
      <4>1. "db" \in Names /\ p \in 1 .. MaxLen("db") /\ b \in BlockSet("db", p)
        BY <2>3, Constants DEF Names, MaxLen
      <4>2. Holds("db", p, b) /\ StoreType'
        BY <1>1, <2>8, <4>1, StoredEffect
      <4>3. Len(db') = Len(c)
        BY <1>2, <2>3, <4>2 DEF Holds, db
      <4>4. ASSUME NEW q \in 1 .. Len(c)  PROVE db'[q] = IF q = p THEN b ELSE db[q]
        <5>1. q \in Blocks /\ q <= Len(db) /\ q <= Len(db')
          BY <1>1, <1>2, <4>3 DEF Blocks
        <5> QED  BY <4>2, <5>1 DEF Holds, ReadOf, db
      <4>5. db' \in Seq(AnyBlock)
        BY <4>1, <4>2 DEF StoreType, FileType, db
      <4> QED  BY <4>3, <4>4, <4>5
    <3>4. ASSUME NEW i \in 1 .. n + 1
          PROVE  Good(i)' /\ db'[jr'[i + 1].page] = c[jr'[i + 1].page]
      <4>1. jr' = jr /\ Good(i)' /\ Good(i) /\ i \in 1 .. MaxPages
        BY <1>1, <2>1, <2>5, <3>1, JournalSame
      <4>2. jr[i + 1].page \in 1 .. Len(c)
        BY <1>1, <1>2, <4>1, GoodIsOfC
      <4>3. i = n + 1 => jr[i + 1].page = p
        BY <2>1 DEF p
      <4>4. i # n + 1 => db[jr[i + 1].page] = c[jr[i + 1].page]
        BY <1>1, <2>4
      <4> QED  BY <2>3, <3>3, <4>1, <4>2, <4>3, <4>4
    <3>5. Replaying(c)'
      BY <1>3, <3>1, <3>3, <3>4 DEF Replaying
    <3> QED  BY <2>8, <3>2, <3>5 DEF State, StepState
  <2>9. CASE step' = "start" /\ (Untouched("db") \/ Stored("db", p, Torn)) /\ Untouched("jr")
    <3>1. Armed(c)' /\ EmptySettled'
      <4>1. CASE Untouched("db")
        BY <1>1, <2>4, <2>7, <2>9, <4>1, BothSame, DatabaseSame
      <4>2. CASE Stored("db", p, Torn)
        <5>1. Torn \in Values  BY Constants
        <5> QED  BY <1>1, <2>3, <2>4, <2>6, <4>2, <5>1, PageStored
      <4> QED  BY <2>9, <4>1, <4>2
    <3>2. JournalState(c)'
      BY <1>1, <2>9, JournalSameState
    <3> QED  BY <2>9, <3>1, <3>2 DEF State, StepState, Pending
  <2>10. /\ Untouched("jr")
         /\ \/ step' = "restore" /\ Stored("db", p, b)
            \/ step' = "start" /\ (Untouched("db") \/ Stored("db", p, Torn))
    <3>1. /\ "db" \in Names /\ "jr" \in Names \ {"db"} /\ p \in 1 .. MaxLen("db")
          /\ b \in BlockSet("db", p)
      BY <2>3, Constants DEF Names, MaxLen
    <3>2. Write("db", p, b, "restore")
      BY <1>3 DEF p, b
    <3> QED  BY <1>1, <3>1, <3>2, WriteEffect
  <2> QED  BY <2>8, <2>9, <2>10
<1>4. CASE ~Good(n + 1) /\ Goes("restored") /\ UNCHANGED <<store, faults, n>>
  <2>1. Untouched("db") /\ Untouched("jr")
    BY <1>4, StoreSame
  <2>2. db = c
    <3>1. CASE Clean(c)
      BY <3>1 DEF Clean
    <3>2. CASE /\ Armed(c)
               /\ \A i \in 1 .. n : Good(i) /\ db[jr[i + 1].page] = c[jr[i + 1].page]
      <4>1. ASSUME NEW q \in 1 .. Len(c)  PROVE db[q] = c[q]
        <5>1. CASE Recorded(q)
          <6>1. PICK i \in 1 .. MaxPages : (\A j \in 1 .. i : Good(j)) /\ jr[i + 1].page = q
            BY <5>1 DEF Recorded, Played
          <6>2. i \in 1 .. n
            BY <1>1, <1>4, <6>1
          <6> QED  BY <3>2, <6>1, <6>2
        <5>2. CASE medium["db"][q] = {c[q]}
          BY <1>1, <1>2, <5>2, Reads
        <5> QED  BY <3>2, <5>1, <5>2 DEF Armed
      <4>2. c \in Seq(AnyBlock)
        BY <1>2, SeqMonotonic DEF AnyBlock
      <4> QED  BY <1>2, <4>1, <4>2, SeqEqual
    <3> QED  BY <1>1, <3>1, <3>2 DEF Replaying
  <2>3. JournalState(c)' /\ db' = c
    BY <1>1, <2>1, <2>2, JournalSameState, DatabaseSame
  <2>4. (Clean(c)' /\ Idle') \/ Armed(c)'
    BY <1>1, <2>1, JournalSame, DatabaseSame, BothSame DEF Replaying
  <2> QED  BY <1>4, <2>3, <2>4 DEF State, StepState, Goes
<1> QED  BY <1>3, <1>4 DEF PlayRecord

\* A database that is c and was synced is clean.
LEMMA SyncedIsClean ==
  ASSUME StoreType, Synced("db"), NEW c \in Contents, db = c
  PROVE  Clean(c)' /\ Untouched("jr")
<1>1. "db" \in Names /\ "jr" \in Names \ {"db"}  BY DEF Names
<1>2. SettledNow("db")' /\ file' = file /\ Untouched("jr")
  BY <1>1, SyncedEffect
<1>3. db' = c /\ lengths'["db"] = {Len(c)}
  BY <1>2 DEF SettledNow, db
<1>4. ASSUME NEW i \in 1 .. Len(c)  PROVE medium'["db"][i] = {c[i]}
  <2>1. i \in Blocks /\ i <= Len(c)
    BY Reads
  <2> QED  BY <1>2, <2>1 DEF SettledNow, ReadOf, db
<1> QED  BY <1>2, <1>3, <1>4 DEF Clean

LEMMA NonceIsNat ==
  ASSUME StoreType
  PROVE  \A i \in Blocks : \A b \in medium["jr"][i] : Valid(b) => b.nonce \in Nat
<1> TAKE i \in Blocks
<1> TAKE b \in medium["jr"][i]
<1>1. i = 1 \/ i \in 2 .. MaxPages + 1
  BY JournalAssumption DEF Blocks
<1>2. Valid(b) => b \in Headers \/ b \in Records
  BY <1>1, Reads
<1> QED  BY <1>2, JournalAssumption DEF Headers, Records, Pages

LEMMA PlaySyncKeeps ==
  ASSUME TypeInv, NEW c \in Contents, State(c), PlaySync, "sync" \notin dropped'
  PROVE  State(c)'
<1>1. /\ StoreType /\ faults \in Nat /\ step = "restored" /\ JournalState(c) /\ db = c
      /\ tx' = tx /\ exists' = exists /\ (Idle \/ Armed(c)) /\ "db" \in Names
  BY DEF TypeInv, State, StepState, PlaySync, ControlType, Names
<1>2. Synced("db") /\ step' = "played"
  BY <1>1, SyncEffect DEF PlaySync
<1>3. Clean(c)' /\ Untouched("jr")
  BY <1>1, <1>2, SyncedIsClean
<1>4. JournalState(c)'
  BY <1>1, <1>3, JournalSameState
<1>5. Idle' \/ Armed(c)'
  <2>1. CASE Idle
    BY <2>1, <1>3, JournalSame
  <2>2. CASE Armed(c)
    <3>1. JournalSettled'
      BY <1>1, <1>3, <2>2, JournalSame DEF Armed
    <3>2. \A len \in lengths'["db"] : len >= Len(c)
      BY <1>3, ContentsAreSeqs, Constants DEF Clean
    <3> QED  BY <1>3, <3>1, <3>2 DEF Armed, Clean
  <2> QED  BY <1>1, <2>1, <2>2
<1> QED  BY <1>2, <1>3, <1>4, <1>5 DEF State, StepState

LEMMA PlayDeleteKeeps ==
  ASSUME TypeInv, NEW c \in Contents, State(c), PlayDelete
  PROVE  State(c)'
<1>1. /\ StoreType /\ faults \in Nat /\ step = "played" /\ JournalState(c) /\ Clean(c)
      /\ (Idle \/ Armed(c)) /\ tx' = tx /\ step' = "ready"
  BY DEF TypeInv, State, StepState, PlayDelete, ControlType, Goes
<1>2. /\ JournalState(c)' /\ Untouched("db")
      /\ Idle' \/ (Untouched("jr") /\ exists' = exists)
  BY <1>1, DeleteKeeps DEF PlayDelete
<1>3. Clean(c)' /\ (Idle' \/ Armed(c)')
  BY <1>1, <1>2, JournalSame, DatabaseSame, BothSame
<1> QED  BY <1>1, <1>2, <1>3 DEF State, StepState

LEMMA BeginKeeps ==
  ASSUME TypeInv, NEW c \in Contents, State(c), Begin
  PROVE  State(c)'
<1>1. /\ StoreType /\ step = "ready" /\ JournalState(c) /\ Clean(c) /\ (Idle \/ Armed(c))
      /\ tx' = tx + 1 /\ exists' = exists /\ step' = "open" /\ tx \in Nat
  BY JournalAssumption DEF TypeInv, State, StepState, Begin, ControlType, Goes
<1>2. Untouched("db") /\ Untouched("jr")
  BY StoreSame DEF Begin
<1>3. Clean(c)' /\ (Idle' \/ Armed(c)') /\ Harmless(c)' /\ NoEntry'
  BY <1>1, <1>2, JournalSame, DatabaseSame, BothSame DEF JournalState
<1>4. Fresh' /\ Nonces'
  <2> SUFFICES ASSUME NEW i \in Blocks, NEW b \in medium'["jr"][i], Valid(b)
               PROVE  b.nonce < tx' /\ b.nonce <= tx'
    BY DEF Fresh, Nonces
  <2>1. b \in medium["jr"][i]
    BY <1>2 DEF Untouched
  <2>2. b.nonce <= tx
    BY <1>1, <2>1 DEF JournalState, Nonces
  <2>3. b.nonce \in Nat
    BY <1>1, <2>1, NonceIsNat
  <2> QED  BY <1>1, <2>2, <2>3
<1> QED  BY <1>1, <1>3, <1>4 DEF State, StepState, JournalState

LEMMA OpenKeeps ==
  ASSUME TypeInv, NEW c \in Contents, State(c), Open
  PROVE  State(c)'
<1>1. /\ StoreType /\ step = "open" /\ JournalState(c) /\ Clean(c) /\ (Idle \/ Armed(c)) /\ Fresh
      /\ tx' = tx
  BY DEF TypeInv, State, StepState, Open
<1>2. Untouched("db") /\ Untouched("jr")
  BY StoreSame DEF Open
<1>3. Clean(c)' /\ Fresh' /\ Harmless(c)' /\ Nonces'
  BY <1>1, <1>2, JournalSame, DatabaseSame DEF JournalState
<1>4. CASE exists' = TRUE /\ step' = "header"
  <2>1. NoEntry'  BY <1>4 DEF NoEntry
  <2>2. Idle' \/ Armed(c)'
    <3>1. CASE Idle
      BY <3>1, <1>2, JournalSame
    <3>2. CASE Armed(c)
      BY <3>2, <1>2, <1>4, BothSame DEF Armed, JournalSettled
    <3> QED  BY <1>1, <3>1, <3>2
  <2> QED  BY <1>3, <1>4, <2>1, <2>2 DEF State, StepState, JournalState
<1>5. CASE exists' = exists /\ step' = "start"
  <2>1. NoEntry' /\ (Idle' \/ Armed(c)')
    BY <1>1, <1>2, <1>5, JournalSame, BothSame DEF JournalState
  <2>2. EmptySettled'
    BY <1>3, EmptySeq DEF Clean, EmptySettled
  <2> QED  BY <1>3, <1>5, <2>1, <2>2 DEF State, StepState, JournalState, Pending
<1> QED  BY <1>4, <1>5 DEF Open, OpenJournal, Goes

LEMMA BlockStored ==
  ASSUME StoreType, NEW i \in 1 .. MaxPages + 1, NEW b \in BlockSet("jr", i), Stored("jr", i, b)
  PROVE  /\ StoreType' /\ Untouched("db")
         /\ Len(jr') = (IF i > Len(jr) THEN i ELSE Len(jr)) /\ Len(jr) \in Nat
         /\ \A j \in 1 .. Len(jr') :
              jr'[j] = IF j = i THEN b ELSE IF j <= Len(jr) THEN jr[j] ELSE Zero
         /\ \A j \in Blocks : \A x \in medium'["jr"][j] :
              x \in medium["jr"][j] \/ (j = i /\ x \in {b, Torn})
         /\ b = Torn /\ (Idle \/ i = 1) => Idle'
         /\ i # 1 => (HasHeader' <=> HasHeader) /\ (HasHeader => Header' = Header)
<1>1. /\ "jr" \in Names /\ "db" \in Names \ {"jr"} /\ i \in 1 .. MaxLen("jr")
      /\ MaxPages \in Nat
  BY JournalAssumption DEF Names, MaxLen
<1>2. StoreType' /\ Holds("jr", i, b)
  BY <1>1, StoredEffect
<1>3. /\ Len(jr') = (IF i > Len(jr) THEN i ELSE Len(jr))
      /\ Len(jr) \in 0 .. MaxPages + 1 /\ i \in Nat \ {0}
      /\ jr \in Seq(AnyBlock) /\ jr' \in Seq(AnyBlock)
  BY <1>1, <1>2, Reads DEF Holds, jr, StoreType, FileType
<1>4. ASSUME NEW j \in 1 .. Len(jr')
      PROVE  jr'[j] = IF j = i THEN b ELSE IF j <= Len(jr) THEN jr[j] ELSE Zero
  <2>1. j \in Blocks /\ j <= Len(jr')
    BY <1>1, <1>3 DEF Blocks
  <2> QED  BY <1>2, <2>1 DEF Holds, ReadOf, jr
<1>5. ASSUME NEW j \in Blocks, NEW x \in medium'["jr"][j]
      PROVE  x \in medium["jr"][j] \/ (j = i /\ x \in {b, Torn})
  BY <1>2 DEF Holds
<1>6. Untouched("db")
  BY <1>1, <1>2 DEF Holds, Untouched
<1>7. jr' # << >> /\ (jr # << >> <=> Len(jr) >= 1) /\ Len(jr') >= 1
  BY <1>3, EmptySeq
<1>8. jr'[1] = IF i = 1 THEN b ELSE IF Len(jr) >= 1 THEN jr[1] ELSE Zero
  BY <1>3, <1>4, <1>7
<1>9. i # 1 => (HasHeader' <=> HasHeader) /\ (HasHeader => Header' = Header)
  BY <1>7, <1>8 DEF HasHeader, Header
<1>10. b = Torn /\ (Idle \/ i = 1) => Idle'
  BY <1>8, <1>9 DEF Idle, HasHeader
<1> QED  BY <1>2, <1>3, <1>4, <1>5, <1>6, <1>9, <1>10

\* A write that is torn takes nothing back.
LEMMA TornStored ==
  ASSUME StoreType, NEW i \in 1 .. MaxPages + 1, Stored("jr", i, Torn),
         NEW c, JournalState(c), exists, exists' = exists, tx' = tx
  PROVE  JournalState(c)' /\ Untouched("db") /\ ((Idle \/ i = 1) => Idle')
<1>1. /\ Untouched("db") /\ ((Idle \/ i = 1) => Idle')
      /\ \A j \in Blocks : \A x \in medium'["jr"][j] : x \in medium["jr"][j] \/ x = Torn
  <2>1. Torn \in BlockSet("jr", i)  BY Constants
  <2> QED  BY <2>1, BlockStored
<1>2. ASSUME NEW j \in Blocks, NEW x \in medium'["jr"][j], Valid(x)
      PROVE  x \in medium["jr"][j]
  BY <1>1, <1>2 DEF Valid
<1>3. Nonces' /\ NoEntry'
  BY <1>2 DEF JournalState, Nonces, NoEntry
<1>4. Harmless(c)'
  <2>1. 1 \in Blocks  BY JournalAssumption DEF Blocks
  <2>2. ASSUME NEW h \in medium'["jr"][1], Valid(h)
        PROVE  /\ h.size = Len(c)
               /\ \A k \in 2 .. h.n + 1 : \A r \in medium'["jr"][k] :
                    Valid(r) /\ r.nonce = h.nonce => r.page <= Len(c) /\ r.val = c[r.page]
    <3>1. h \in medium["jr"][1] /\ h \in Headers
      BY <1>2, <2>1, <2>2, Reads
    <3>2. \A k \in 2 .. h.n + 1 : k \in Blocks
      BY <3>1, JournalAssumption DEF Headers, Blocks
    <3> QED  BY <1>2, <2>2, <3>1, <3>2 DEF JournalState, Harmless
  <2> QED  BY <2>2 DEF Harmless
<1> QED  BY <1>1, <1>3, <1>4 DEF JournalState

\* A header is harmless when the records on the medium that would be played back are.
LEMMA HeaderStored ==
  ASSUME StoreType, ControlType, NEW records \in 0 .. MaxPages, Stored("jr", 1, HeaderOf(records)),
         NEW c, JournalState(c), db = c, records = 0 \/ Mine(c),
         exists, exists' = exists, tx' = tx
  PROVE  JournalState(c)'
<1> DEFINE new == HeaderOf(records)
<1>1. /\ new \in Headers /\ new \in BlockSet("jr", 1) /\ 1 \in 1 .. MaxPages + 1
      /\ 1 \in Blocks /\ MaxPages \in Nat /\ tx \in Nat
  BY HeaderIsTyped, JournalAssumption DEF Blocks, ControlType
<1>2. new.n = records /\ new.size = Len(c) /\ new.nonce = tx
  BY DEF HeaderOf
<1> HIDE DEF new
<1>3. Stored("jr", 1, new)
  BY DEF new
<1>4. \A j \in Blocks : \A x \in medium'["jr"][j] :
         x \in medium["jr"][j] \/ (j = 1 /\ x \in {new, Torn})
  BY <1>1, <1>3, BlockStored
<1>5. ASSUME NEW j \in Blocks, NEW x \in medium'["jr"][j], Valid(x)
      PROVE  x \in medium["jr"][j] \/ (j = 1 /\ x = new)
  BY <1>4, <1>5 DEF Valid
<1>6. Nonces'
  BY <1>1, <1>2, <1>5 DEF JournalState, Nonces
<1>7. NoEntry'
  BY DEF NoEntry
<1>8. Harmless(c)'
  <2>1. ASSUME NEW h \in medium'["jr"][1], Valid(h)
        PROVE  /\ h.size = Len(c)
               /\ \A k \in 2 .. h.n + 1 : \A r \in medium'["jr"][k] :
                    Valid(r) /\ r.nonce = h.nonce => r.page <= Len(c) /\ r.val = c[r.page]
    <3>1. h \in Headers /\ (h \in medium["jr"][1] \/ h = new)
      BY <1>1, <1>5, <2>1, Reads
    <3>2. \A k \in 2 .. h.n + 1 : k \in Blocks /\ k # 1 /\ k \in 2 .. MaxPages + 1
      BY <1>1, <3>1 DEF Headers, Blocks
    <3>3. \A k \in 2 .. h.n + 1 : \A r \in medium'["jr"][k] : Valid(r) => r \in medium["jr"][k]
      BY <1>5, <3>2
    <3>4. CASE h \in medium["jr"][1]
      BY <2>1, <3>3, <3>4 DEF JournalState, Harmless
    <3>5. CASE h = new
      <4>1. h.size = Len(c) /\ h.n = records /\ h.nonce = tx
        BY <1>2, <3>5
      <4>2. CASE records = 0
        BY <4>1, <4>2
      <4>3. CASE Mine(c)
        BY <3>2, <3>3, <4>1, <4>3 DEF Mine
      <4> QED  BY <4>2, <4>3
    <3> QED  BY <3>1, <3>4, <3>5
  <2> QED  BY <2>1 DEF Harmless
<1> QED  BY <1>6, <1>7, <1>8 DEF JournalState

\* What the records and their journal have in common does not change with the database.
LEMMA DifferSame ==
  ASSUME db' = db, goal' = goal
  PROVE  /\ Differ' = Differ
         /\ n' = n => Journalled' = Journalled
         /\ \A p : Before(p)' = Before(p)
<1>1. Differ' = Differ  BY DEF Differ
<1> QED  BY <1>1 DEF Journalled, Before

LEMMA WriteHeaderKeeps ==
  ASSUME TypeInv, NEW c \in Contents, State(c), WriteHeader
  PROVE  State(c)'
<1>1. /\ StoreType /\ ControlType /\ JournalState(c) /\ Clean(c) /\ (Idle \/ Armed(c)) /\ Fresh
      /\ exists /\ exists' = exists /\ tx' = tx /\ n = 0 /\ n' = n /\ goal' = goal /\ db = c
      /\ tx \in Nat /\ 0 \in 0 .. MaxPages
  BY JournalAssumption DEF TypeInv, State, StepState, WriteHeader, Planned, ControlType, Clean
<1>2. /\ HeaderOf(0) \in Headers /\ HeaderOf(0) \in BlockSet("jr", 1) /\ "jr" \in Names
      /\ 1 \in 1 .. MaxLen("jr") /\ 1 \in 1 .. MaxPages + 1
  BY <1>1, HeaderIsTyped, JournalAssumption
<1>3. CASE step' = "records" /\ Stored("jr", 1, HeaderOf(0))
  <2>1. JournalState(c)'
    BY <1>1, <1>3, HeaderStored
  <2>2. /\ Untouched("db") /\ Len(jr') = (IF 1 > Len(jr) THEN 1 ELSE Len(jr)) /\ Len(jr) \in Nat
        /\ \A j \in 1 .. Len(jr') :
             jr'[j] = IF j = 1 THEN HeaderOf(0) ELSE IF j <= Len(jr) THEN jr[j] ELSE Zero
        /\ \A j \in Blocks : \A x \in medium'["jr"][j] :
             x \in medium["jr"][j] \/ (j = 1 /\ x \in {HeaderOf(0), Torn})
    BY <1>1, <1>2, <1>3, BlockStored
  <2>3. Len(jr') >= 1 /\ jr'[1] = HeaderOf(0)
    BY <2>2
  <2>4. HasHeader' /\ Header'.n = 0 /\ Header'.nonce = tx
    <3>1. HeaderOf(0) # Zero /\ HeaderOf(0) # Torn
      BY <1>2, BlocksAssumption
    <3>2. jr' # << >>
      BY <2>3, EmptySeq
    <3> QED  BY <2>3, <3>1, <3>2 DEF HasHeader, Header, HeaderOf
  <2>5. Clean(c)' /\ db' = db
    BY <1>1, <2>2, DatabaseSame
  <2>6. Mine(c)'
    <3>1. ASSUME NEW i \in 2 .. MaxPages + 1, NEW r \in medium'["jr"][i], Valid(r), r.nonce = tx
          PROVE  FALSE
      <4>1. i \in Blocks /\ i # 1
        BY JournalAssumption DEF Blocks
      <4>2. r \in medium["jr"][i]
        BY <2>2, <4>1
      <4>3. r.nonce < tx
        BY <1>1, <3>1, <4>1, <4>2 DEF Fresh
      <4> QED  BY <1>1, <3>1, <4>3
    <3> QED  BY <1>1, <3>1 DEF Mine
  <2>7. Journalled' = {}
    <3>1. Journalled' = Journalled
      BY <1>1, <2>5, DifferSame
    <3>2. \A p \in Differ : Cardinality(Before(p)) \in Nat
      BY <1>1, Rank
    <3> QED  BY <1>1, <3>1, <3>2, JournalledIs
  <2>8. Written'
    BY <1>1, <1>3, <2>3, <2>4, <2>7 DEF Written
  <2> QED  BY <1>1, <1>3, <2>1, <2>5, <2>6, <2>8 DEF State, StepState, Recording
<1>4. CASE step' = "start" /\ Untouched("jr") /\ Untouched("db")
  <2>1. JournalState(c)' /\ Clean(c)' /\ (Idle' \/ Armed(c)')
    BY <1>1, <1>4, JournalSame, DatabaseSame, BothSame
  <2>2. EmptySettled'
    BY <2>1, EmptySeq DEF Clean, EmptySettled
  <2> QED  BY <1>4, <2>1, <2>2 DEF State, StepState, Pending
<1>5. CASE step' = "start" /\ Stored("jr", 1, Torn)
  <2>1. JournalState(c)' /\ Untouched("db") /\ Idle'
    BY <1>1, <1>2, <1>5, TornStored
  <2>2. Clean(c)'
    BY <1>1, <2>1, DatabaseSame
  <2> QED  BY <1>5, <2>1, <2>2 DEF State, StepState, Pending
<1> QED
  <2>1. Write("jr", 1, HeaderOf(0), "records")
    BY DEF WriteHeader
  <2>2. "db" \in Names \ {"jr"}  BY DEF Names
  <2> QED  BY <1>1, <1>2, <1>3, <1>4, <1>5, <2>1, <2>2, WriteEffect

LEMMA WriteRecordKeeps ==
  ASSUME TypeInv, NEW c \in Contents, State(c), WriteRecord
  PROVE  State(c)'
<1>1. /\ StoreType /\ ControlType /\ JournalState(c) /\ Recording(c) /\ step = "records"
      /\ exists /\ exists' = exists /\ tx' = tx /\ goal' = goal /\ db = c /\ Clean(c)
      /\ tx \in Nat /\ n \in Nat /\ Idle /\ c \in Seq(Values) /\ Len(c) \in Nat
  <2>1. /\ StoreType /\ ControlType /\ JournalState(c) /\ Recording(c) /\ step = "records"
        /\ exists' = exists /\ tx' = tx /\ goal' = goal
    BY DEF TypeInv, State, StepState, WriteRecord
  <2>2. exists /\ db = c /\ Clean(c) /\ Idle
    BY <2>1 DEF Recording, Clean, Idle, Written
  <2>3. tx \in Nat /\ n \in Nat
    BY <2>1, JournalAssumption DEF ControlType
  <2>4. c \in Seq(Values) /\ Len(c) \in Nat
    BY ContentsAreSeqs, Constants
  <2> QED  BY <2>1, <2>2, <2>3, <2>4
<1>2. ASSUME NEW p \in Differ \ Journalled, \A q \in Differ \ Journalled : p <= q,
             Write("jr", n + 2, [page |-> p, val |-> db[p], nonce |-> tx], "records"),
             n' = n + 1
      PROVE  State(c)'
  <2> DEFINE r == [page |-> p, val |-> db[p], nonce |-> tx]
  <2>1. /\ n + 1 \in 1 .. MaxPages
        /\ \A q \in Differ : Cardinality(Before(q)) < n + 1 => q \in Journalled \/ q = p
    BY <1>1, <1>2, NextRecord
  <2>2. /\ "jr" \in Names /\ "db" \in Names \ {"jr"} /\ n + 2 \in 1 .. MaxLen("jr")
        /\ n + 2 \in 2 .. MaxPages + 1 /\ n + 2 \in 1 .. MaxPages + 1
        /\ r \in BlockSet("jr", n + 2) /\ r \in Records
    BY <1>1, <1>2, <2>1, RecordIsTyped DEF Names, MaxLen
  <2>3. r.page = p /\ r.val = c[p] /\ r.nonce = tx /\ p <= Len(c) /\ p \in Nat
    BY <1>1, <1>2 DEF Differ
  <2> HIDE DEF r
  <2>4. Write("jr", n + 2, r, "records")
    BY <1>2 DEF r
  <2>5. CASE step' = "records" /\ Stored("jr", n + 2, r)
    <3>1. /\ Untouched("db") /\ Len(jr) \in Nat
          /\ Len(jr') = (IF n + 2 > Len(jr) THEN n + 2 ELSE Len(jr))
          /\ \A j \in 1 .. Len(jr') :
               jr'[j] = IF j = n + 2 THEN r ELSE IF j <= Len(jr) THEN jr[j] ELSE Zero
          /\ \A j \in Blocks : \A x \in medium'["jr"][j] :
               x \in medium["jr"][j] \/ (j = n + 2 /\ x \in {r, Torn})
          /\ (HasHeader' <=> HasHeader) /\ (HasHeader => Header' = Header)
      <4>1. n + 2 # 1  BY <1>1
      <4> QED  BY <1>1, <2>2, <2>5, <4>1, BlockStored
    <3>2. ASSUME NEW j \in Blocks, NEW x \in medium'["jr"][j], Valid(x)
          PROVE  x \in medium["jr"][j] \/ (j = n + 2 /\ x = r)
      BY <3>1, <3>2 DEF Valid
    <3>3. Nonces' /\ NoEntry' /\ Mine(c)'
      <4>1. Nonces'
        BY <1>1, <2>3, <3>2 DEF JournalState, Nonces
      <4>2. NoEntry'
        BY <1>1 DEF NoEntry
      <4>3. \A i \in 2 .. MaxPages + 1 : i \in Blocks
        BY JournalAssumption DEF Blocks
      <4>4. Mine(c)'
        BY <1>1, <2>3, <3>2, <4>3 DEF Mine, Recording
      <4> QED  BY <4>1, <4>2, <4>4
    <3>4. Harmless(c)'
      <4>1. ASSUME NEW h \in medium'["jr"][1], Valid(h)
            PROVE  /\ h.size = Len(c)
                   /\ \A k \in 2 .. h.n + 1 : \A s \in medium'["jr"][k] :
                        Valid(s) /\ s.nonce = h.nonce => s.page <= Len(c) /\ s.val = c[s.page]
        <5>1. 1 \in Blocks /\ 1 # n + 2
          BY <1>1, JournalAssumption DEF Blocks
        <5>2. h \in medium["jr"][1] /\ h \in Headers
          BY <1>1, <3>2, <4>1, <5>1, Reads
        <5>3. \A k \in 2 .. h.n + 1 : k \in Blocks
          BY <5>2, JournalAssumption DEF Headers, Blocks
        <5>4. \A k \in 2 .. h.n + 1 : \A s \in medium'["jr"][k] :
                Valid(s) => s \in medium["jr"][k] \/ s = r
          BY <3>2, <5>3
        <5> QED  BY <1>1, <2>3, <4>1, <5>2, <5>4 DEF JournalState, Harmless
      <4> QED  BY <4>1 DEF Harmless
    <3>5. Clean(c)' /\ db' = db
      BY <1>1, <3>1, DatabaseSame
    <3>6. Written'
      <4>1. Len(jr) >= n + 1 /\ HasHeader /\ Header.nonce = tx /\ Header.n = 0
        BY <1>1 DEF Recording, Written
      <4>2. Len(jr') >= n' + 1 /\ HasHeader' /\ Header'.nonce = tx' /\ Header'.n = 0
        BY <1>1, <1>2, <3>1, <4>1
      <4>3. jr'[n + 2] = r /\ Valid(r)
        <5>1. Valid(r)
          BY <2>2, BlocksAssumption DEF Valid
        <5>2. n + 2 \in 1 .. Len(jr')
          BY <1>1, <3>1
        <5> QED  BY <3>1, <5>1, <5>2
      <4>4. \A i \in 1 .. n : jr'[i + 1] = jr[i + 1]
        <5> TAKE i \in 1 .. n
        <5>1. i + 1 \in 1 .. Len(jr') /\ i + 1 <= Len(jr) /\ i + 1 # n + 2
          BY <1>1, <3>1, <4>1
        <5> QED  BY <3>1, <5>1
      <4>5. \A i \in 1 .. n + 1 : Valid(jr'[i + 1]) /\ jr'[i + 1].nonce = tx
        <5> TAKE i \in 1 .. n + 1
        <5>1. CASE i = n + 1
          <6>1. i + 1 = n + 2  BY <1>1, <5>1
          <6> QED  BY <2>3, <4>3, <6>1
        <5>2. CASE i # n + 1
          <6>1. i \in 1 .. n  BY <1>1, <5>2
          <6> QED  BY <1>1, <4>4, <6>1 DEF Recording, Written
        <5> QED  BY <5>1, <5>2
      <4>6. ASSUME NEW q \in Journalled'  PROVE \E i \in 1 .. n + 1 : jr'[i + 1].page = q
        <5>1. q \in Journalled \/ q = p
          <6>1. Journalled' = {s \in Differ : Cardinality(Before(s)) < n + 1}
            BY <1>1, <1>2, <3>5, DifferSame DEF Journalled, Before
          <6> QED  BY <2>1, <4>6, <6>1
        <5>2. CASE q = p
          <6>1. n + 1 \in 1 .. n + 1 /\ (n + 1) + 1 = n + 2  BY <1>1
          <6> QED  BY <2>3, <4>3, <5>2, <6>1
        <5>3. CASE q \in Journalled
          <6>1. PICK i \in 1 .. n : jr[i + 1].page = q
            BY <1>1, <5>3 DEF Recording, Written
          <6>2. i \in 1 .. n + 1  BY <1>1
          <6> QED  BY <4>4, <6>1, <6>2
        <5> QED  BY <5>1, <5>2, <5>3
      <4> QED  BY <1>1, <1>2, <2>5, <4>2, <4>5, <4>6 DEF Written
    <3> QED  BY <1>1, <2>5, <3>3, <3>4, <3>5, <3>6 DEF State, StepState, JournalState, Recording
  <2>6. CASE step' = "start" /\ Untouched("jr") /\ Untouched("db")
    <3>1. JournalState(c)' /\ Clean(c)' /\ Idle'
      BY <1>1, <2>6, JournalSame, DatabaseSame
    <3> QED  BY <2>6, <3>1 DEF State, StepState, Pending
  <2>7. CASE step' = "start" /\ Stored("jr", n + 2, Torn)
    <3>1. JournalState(c)' /\ Untouched("db") /\ Idle'
      BY <1>1, <2>2, <2>7, TornStored
    <3>2. Clean(c)'
      BY <1>1, <3>1, DatabaseSame
    <3> QED  BY <2>7, <3>1, <3>2 DEF State, StepState, Pending
  <2> QED  BY <1>1, <2>2, <2>4, <2>5, <2>6, <2>7, WriteEffect
<1>3. ASSUME Differ \subseteq Journalled, Goes("sync records"), UNCHANGED <<store, faults, n>>
      PROVE  State(c)'
  <2>1. Untouched("db") /\ Untouched("jr")
    BY <1>3, StoreSame
  <2>2. JournalState(c)' /\ Clean(c)' /\ Mine(c)' /\ db' = db
    BY <1>1, <2>1, JournalSame, DatabaseSame DEF Recording
  <2>3. Differ' = Differ /\ Journalled' = Journalled
    BY <1>1, <1>3, <2>2, DifferSame
  <2>4. step' = "sync records"  BY <1>3 DEF Goes
  <2>5. Written'
    BY <1>1, <1>3, <2>1, <2>3, <2>4, JournalSame DEF Recording, Written
  <2> QED  BY <1>1, <1>3, <2>2, <2>3, <2>4, <2>5 DEF State, StepState, Recording
<1> QED  BY <1>2, <1>3 DEF WriteRecord

\* A sync of the journal leaves what the reads find.
LEMMA JournalSynced ==
  ASSUME StoreType, Synced("jr"), NEW c, JournalState(c), exists' = exists, tx' = tx
  PROVE  /\ JournalState(c)' /\ Untouched("db") /\ (Mine(c) => Mine(c)')
         /\ jr' = jr /\ (HasHeader' <=> HasHeader) /\ Header' = Header
         /\ \A i : Good(i)' <=> Good(i)
         /\ lengths'["jr"] = {Len(jr)}
         /\ \A i \in 1 .. Len(jr) : medium'["jr"][i] = {jr[i]}
<1>1. /\ Untouched("db") /\ SettledNow("jr")' /\ file' = file
      /\ \A j \in Blocks : medium'["jr"][j] \subseteq medium["jr"][j]
  <2>1. "jr" \in Names /\ "db" \in Names \ {"jr"}  BY DEF Names
  <2> QED  BY <2>1, SyncedEffect
<1>2. jr' = jr /\ (HasHeader' <=> HasHeader) /\ Header' = Header
  BY <1>1 DEF jr, HasHeader, Header
<1>3. \A i : Good(i)' <=> Good(i)
  BY <1>2 DEF Good
<1>4. lengths'["jr"] = {Len(jr)} /\ \A i \in 1 .. Len(jr) : medium'["jr"][i] = {jr[i]}
  <2>1. lengths'["jr"] = {Len(jr)}
    BY <1>1 DEF SettledNow, jr
  <2>2. ASSUME NEW i \in 1 .. Len(jr)  PROVE medium'["jr"][i] = {jr[i]}
    <3>1. i \in Blocks /\ i <= Len(jr)
      BY Reads
    <3> QED  BY <1>1, <3>1 DEF SettledNow, ReadOf, jr
  <2> QED  BY <2>1, <2>2
<1>5. 1 \in Blocks /\ \A i \in 2 .. MaxPages + 1 : i \in Blocks
  BY JournalAssumption DEF Blocks
<1>6. Nonces' /\ NoEntry' /\ (Mine(c) => Mine(c)')
  BY <1>1, <1>5 DEF JournalState, Nonces, NoEntry, Mine
<1>7. Harmless(c)'
  <2>1. ASSUME NEW h \in medium'["jr"][1], Valid(h)
        PROVE  /\ h.size = Len(c)
               /\ \A k \in 2 .. h.n + 1 : \A s \in medium'["jr"][k] :
                    Valid(s) /\ s.nonce = h.nonce => s.page <= Len(c) /\ s.val = c[s.page]
    <3>1. h \in medium["jr"][1] /\ h \in Headers
      BY <1>1, <1>5, <2>1, Reads
    <3>2. \A k \in 2 .. h.n + 1 : k \in Blocks
      BY <3>1, JournalAssumption DEF Headers, Blocks
    <3> QED  BY <1>1, <2>1, <3>1, <3>2 DEF JournalState, Harmless
  <2> QED  BY <2>1 DEF Harmless
<1> QED  BY <1>1, <1>2, <1>3, <1>4, <1>6, <1>7 DEF JournalState

LEMMA SyncRecordsKeeps ==
  ASSUME TypeInv, NEW c \in Contents, State(c), SyncRecords, "sync" \notin dropped'
  PROVE  State(c)'
<1>1. /\ StoreType /\ faults \in Nat /\ JournalState(c) /\ Recording(c) /\ step = "sync records"
      /\ exists' = exists /\ tx' = tx /\ goal' = goal /\ n' = n /\ "jr" \in Names
      /\ Differ \subseteq Journalled
  BY DEF TypeInv, State, StepState, SyncRecords, ControlType, Names
<1>2. Synced("jr") /\ step' = "count"
  BY <1>1, SyncEffect DEF SyncRecords
<1>3. /\ JournalState(c)' /\ Untouched("db") /\ (Mine(c) => Mine(c)')
      /\ jr' = jr /\ (HasHeader' <=> HasHeader) /\ Header' = Header
  BY <1>1, <1>2, JournalSynced
<1>4. Clean(c)' /\ db' = db
  BY <1>1, <1>3, DatabaseSame DEF Recording
<1>5. Differ' = Differ /\ Journalled' = Journalled
  BY <1>1, <1>4, DifferSame
<1>6. Written'
  BY <1>1, <1>2, <1>3, <1>5 DEF Recording, Written
<1> QED  BY <1>1, <1>2, <1>3, <1>4, <1>5, <1>6 DEF State, StepState, Recording

LEMMA WriteCountKeeps ==
  ASSUME TypeInv, NEW c \in Contents, State(c), WriteCount
  PROVE  State(c)'
<1>1. /\ StoreType /\ ControlType /\ JournalState(c) /\ Recording(c) /\ step = "count"
      /\ exists /\ exists' = exists /\ tx' = tx /\ goal' = goal /\ n' = n /\ db = c
      /\ Clean(c) /\ Mine(c) /\ Written /\ Idle /\ Differ \subseteq Journalled
  BY DEF TypeInv, State, StepState, WriteCount, Recording, Clean, Written, Idle
<1>2. n \in 0 .. MaxPages /\ n \in Nat
  BY <1>1, JournalAssumption DEF ControlType
<1>3. /\ HeaderOf(n) \in Headers /\ HeaderOf(n) \in BlockSet("jr", 1) /\ "jr" \in Names
      /\ 1 \in 1 .. MaxLen("jr") /\ 1 \in 1 .. MaxPages + 1 /\ "db" \in Names \ {"jr"}
  BY <1>1, <1>2, HeaderIsTyped, JournalAssumption DEF Names
<1>4. CASE step' = "sync count" /\ Stored("jr", 1, HeaderOf(n))
  <2>1. JournalState(c)'
    BY <1>1, <1>2, <1>4, HeaderStored
  <2>2. /\ Untouched("db") /\ Len(jr') = (IF 1 > Len(jr) THEN 1 ELSE Len(jr)) /\ Len(jr) \in Nat
        /\ \A j \in 1 .. Len(jr') :
             jr'[j] = IF j = 1 THEN HeaderOf(n) ELSE IF j <= Len(jr) THEN jr[j] ELSE Zero
        /\ \A j \in Blocks : \A x \in medium'["jr"][j] :
             x \in medium["jr"][j] \/ (j = 1 /\ x \in {HeaderOf(n), Torn})
    BY <1>1, <1>3, <1>4, BlockStored
  <2>3. Len(jr) >= n + 1 /\ Len(jr') = Len(jr) /\ jr'[1] = HeaderOf(n)
    <3>1. Len(jr) >= n + 1  BY <1>1 DEF Written
    <3>2. Len(jr') = Len(jr) /\ 1 \in 1 .. Len(jr')
      BY <1>2, <2>2, <3>1
    <3> QED  BY <2>2, <3>1, <3>2
  <2>4. HasHeader' /\ Header'.n = n /\ Header'.nonce = tx
    <3>1. HeaderOf(n) # Zero /\ HeaderOf(n) # Torn
      BY <1>3, BlocksAssumption
    <3>2. jr' # << >>
      BY <1>2, <2>3, EmptySeq
    <3> QED  BY <2>3, <3>1, <3>2 DEF HasHeader, Header, HeaderOf
  <2>5. Clean(c)' /\ db' = db
    BY <1>1, <2>2, DatabaseSame
  <2>6. Mine(c)'
    <3>1. \A i \in 2 .. MaxPages + 1 : i \in Blocks /\ i # 1
      BY JournalAssumption DEF Blocks
    <3> QED  BY <1>1, <2>2, <3>1 DEF Mine
  <2>7. Differ' = Differ /\ Journalled' = Journalled
    BY <1>1, <2>5, DifferSame
  <2>8. \A i \in 1 .. n : jr'[i + 1] = jr[i + 1]
    <3> TAKE i \in 1 .. n
    <3>1. i + 1 \in 1 .. Len(jr') /\ i + 1 # 1 /\ i + 1 <= Len(jr)
      BY <1>2, <2>2, <2>3
    <3> QED  BY <2>2, <3>1
  <2>9. Written'
    BY <1>1, <1>4, <2>3, <2>4, <2>7, <2>8 DEF Written
  <2> QED  BY <1>1, <1>4, <2>1, <2>5, <2>6, <2>7, <2>9 DEF State, StepState, Recording
<1>5. CASE step' = "start" /\ Untouched("jr") /\ Untouched("db")
  <2>1. JournalState(c)' /\ Clean(c)' /\ Idle'
    BY <1>1, <1>5, JournalSame, DatabaseSame
  <2> QED  BY <1>5, <2>1 DEF State, StepState, Pending
<1>6. CASE step' = "start" /\ Stored("jr", 1, Torn)
  <2>1. JournalState(c)' /\ Untouched("db") /\ Idle'
    BY <1>1, <1>3, <1>6, TornStored
  <2>2. Clean(c)'
    BY <1>1, <2>1, DatabaseSame
  <2> QED  BY <1>6, <2>1, <2>2 DEF State, StepState, Pending
<1> QED
  <2>1. Write("jr", 1, HeaderOf(n), "sync count")
    BY DEF WriteCount
  <2> QED  BY <1>1, <1>3, <1>4, <1>5, <1>6, <2>1, WriteEffect

LEMMA SyncCountKeeps ==
  ASSUME TypeInv, NEW c \in Contents, State(c), SyncCount, "sync" \notin dropped'
  PROVE  State(c)'
<1>1. /\ StoreType /\ ControlType /\ faults \in Nat /\ JournalState(c) /\ Recording(c)
      /\ step = "sync count" /\ exists' = exists /\ tx' = tx /\ goal' = goal /\ n' = n
      /\ "jr" \in Names /\ Differ \subseteq Journalled /\ Len(db) <= Len(goal)
  BY DEF TypeInv, State, StepState, SyncCount, ControlType, Names, Planned
<1>2. /\ exists /\ Clean(c) /\ db = c /\ Written /\ Header.n = n /\ n \in 0 .. MaxPages
      /\ MaxPages \in Nat /\ Len(c) \in 0 .. MaxPages
  <2>1. exists /\ Clean(c) /\ db = c /\ Written
    BY <1>1 DEF Recording, Clean
  <2>2. Header.n = n  BY <1>1, <2>1 DEF Written
  <2>3. n \in 0 .. MaxPages /\ MaxPages \in Nat  BY <1>1, JournalAssumption DEF ControlType
  <2>4. Len(c) \in 0 .. MaxPages  BY ContentsAreSeqs
  <2> QED  BY <2>1, <2>2, <2>3, <2>4
<1>3. Synced("jr") /\ step' = "pages"
  BY <1>1, SyncEffect DEF SyncCount
<1>4. /\ JournalState(c)' /\ Untouched("db")
      /\ jr' = jr /\ (HasHeader' <=> HasHeader) /\ Header' = Header
      /\ \A i : Good(i)' <=> Good(i)
      /\ lengths'["jr"] = {Len(jr)} /\ \A i \in 1 .. Len(jr) : medium'["jr"][i] = {jr[i]}
  BY <1>1, <1>3, JournalSynced
<1>5. Clean(c)' /\ db' = db
  BY <1>1, <1>2, <1>4, DatabaseSame
<1>6. \A i \in 1 .. n : Good(i)'
  <2> TAKE i \in 1 .. n
  <2>1. i <= Header.n /\ i + 1 <= Len(jr)
    <3>1. Len(jr) >= n + 1  BY <1>2 DEF Written
    <3>2. Len(jr) \in Nat
      <4>1. Len(jr) \in 0 .. MaxPages + 1  BY <1>1, Reads
      <4> QED  BY <1>2, <4>1
    <3> QED  BY <1>2, <3>1, <3>2
  <2>2. Valid(jr[i + 1]) /\ jr[i + 1].nonce = Header.nonce
    BY <1>2 DEF Written
  <2> QED  BY <1>4, <2>1, <2>2 DEF Good, Valid
<1>7. \A p \in Differ : Recorded(p)'
  <2> TAKE p \in Differ
  <2>1. PICK i \in 1 .. n : jr[i + 1].page = p
    BY <1>1, <1>2 DEF Written
  <2>2. i \in 1 .. MaxPages /\ \A j \in 1 .. i : j \in 1 .. n
    BY <1>2
  <2> QED  BY <1>4, <1>6, <2>1, <2>2 DEF Recorded, Played
<1>8. Armed(c)'
  <2>1. JournalSettled'
    BY <1>1, <1>2, <1>4 DEF JournalSettled, Written
  <2> QED  BY <1>2, <1>5, <2>1 DEF Armed, Clean
<1>9. EmptySettled'
  BY <1>5, EmptySeq DEF Clean, EmptySettled
<1>10. \A p \in 1 .. Len(c) : Recorded(p)' \/ goal'[p] = c[p]
  BY <1>1, <1>2, <1>7 DEF Differ
<1> QED  BY <1>1, <1>2, <1>3, <1>4, <1>8, <1>9, <1>10 DEF State, StepState, Writing

LEMMA WritePageKeeps ==
  ASSUME TypeInv, NEW c \in Contents, State(c), WritePage
  PROVE  State(c)'
<1>1. /\ StoreType /\ ControlType /\ JournalState(c) /\ Writing(c) /\ step = "pages"
      /\ exists' = exists /\ tx' = tx /\ goal' = goal
  BY DEF TypeInv, State, StepState, WritePage
<1>2. Armed(c) /\ EmptySettled /\ Len(c) \in 0 .. MaxPages /\ Len(db) \in 0 .. MaxPages
  BY <1>1, Reads, ContentsAreSeqs DEF Writing
<1>3. CASE Untouched("db") /\ Untouched("jr") /\ step' \in {"start", "sync pages"}
  <2>1. JournalState(c)' /\ Armed(c)' /\ EmptySettled'
    BY <1>1, <1>2, <1>3, JournalSameState, BothSame, DatabaseSame
  <2>2. Writing(c)'
    BY <1>1, <1>3, <2>1, JournalSame DEF Writing
  <2> QED  BY <1>3, <2>1, <2>2 DEF State, StepState, Pending
<1>4. ASSUME NEW p \in Unwritten, Write("db", p, goal[p], "pages")
      PROVE  State(c)'
  <2>1. p \in 1 .. Len(goal) /\ p \in 1 .. MaxPages /\ goal[p] \in Values /\ Torn \in Values
    BY <1>1, GoalPage, Constants DEF Unwritten
  <2>2. /\ "db" \in Names /\ "jr" \in Names \ {"db"} /\ p \in 1 .. MaxLen("db")
        /\ goal[p] \in BlockSet("db", p)
    BY <2>1, Constants DEF Names, MaxLen
  <2>3. p \in 1 .. Len(c) => Recorded(p)
    <3>1. SUFFICES ASSUME p \in 1 .. Len(c), ~Recorded(p)  PROVE FALSE
      OBVIOUS
    <3>2. medium["db"][p] = {c[p]} /\ goal[p] = c[p]
      BY <1>1, <1>2, <3>1 DEF Armed, Writing
    <3>3. p \in 1 .. Len(db)
      <4>1. Len(db) >= Len(c)
        BY <1>1, <1>2, Reads DEF Armed
      <4> QED  BY <1>2, <3>1, <4>1
    <3>4. db[p] = goal[p]
      BY <1>1, <3>2, <3>3, Reads
    <3> QED  BY <1>2, <3>3, <3>4 DEF Unwritten
  <2>4. CASE Stored("db", p, goal[p]) /\ step' = "pages"
    <3>1. Armed(c)' /\ EmptySettled' /\ Untouched("jr")
      BY <1>1, <1>2, <2>1, <2>3, <2>4, PageStored
    <3>2. JournalState(c)'
      BY <1>1, <3>1, JournalSameState
    <3>3. Writing(c)'
      BY <1>1, <3>1, JournalSame DEF Writing
    <3> QED  BY <2>4, <3>2, <3>3 DEF State, StepState
  <2>5. CASE Stored("db", p, Torn) /\ step' = "start"
    <3>1. Armed(c)' /\ EmptySettled' /\ Untouched("jr")
      BY <1>1, <1>2, <2>1, <2>3, <2>5, PageStored
    <3>2. JournalState(c)'
      BY <1>1, <3>1, JournalSameState
    <3> QED  BY <2>5, <3>1, <3>2 DEF State, StepState, Pending
  <2> QED  BY <1>1, <1>3, <1>4, <2>2, <2>4, <2>5, WriteEffect
<1>5. ASSUME Goes("sync pages"), UNCHANGED <<store, faults>>
      PROVE  State(c)'
  BY <1>3, <1>5, StoreSame DEF Goes
<1> QED  BY <1>4, <1>5 DEF WritePage

LEMMA SyncPagesKeeps ==
  ASSUME TypeInv, NEW c \in Contents, State(c), SyncPages, "sync" \notin dropped'
  PROVE  State(c)'
<1>1. /\ StoreType /\ ControlType /\ faults \in Nat /\ JournalState(c) /\ Writing(c)
      /\ step = "sync pages" /\ exists' = exists /\ tx' = tx /\ goal' = goal /\ db = goal
      /\ "db" \in Names /\ goal \in Contents
  BY DEF TypeInv, State, StepState, SyncPages, ControlType, Names, Planned
<1>2. Synced("db") /\ step' = "commit"
  BY <1>1, SyncEffect DEF SyncPages
<1>3. Clean(goal)' /\ Untouched("jr")
  <2>1. \A g \in Contents : db = g => Clean(g)' /\ Untouched("jr")
    BY <1>1, <1>2, SyncedIsClean
  <2> QED  BY <1>1, <2>1 DEF Clean
<1>4. JournalState(c)'
  BY <1>1, <1>3, JournalSameState
<1>5. Armed(c)'
  <2>1. JournalSettled' /\ \A p : Recorded(p)' <=> Recorded(p)
    BY <1>1, <1>3, JournalSame DEF Writing, Armed
  <2>2. Len(c) \in Nat /\ Len(goal) \in Nat /\ Len(c) <= Len(goal)
    <3>1. Len(c) \in 0 .. MaxPages /\ Len(goal) \in 0 .. MaxPages /\ MaxPages \in Nat
      BY <1>1, ContentsAreSeqs, JournalAssumption
    <3>2. Len(c) <= Len(goal)
      BY <1>1 DEF Writing
    <3> QED  BY <3>1, <3>2
  <2>3. \A p \in 1 .. Len(c) : Recorded(p)' \/ medium'["db"][p] = {c[p]}
    <3> TAKE p \in 1 .. Len(c)
    <3>1. p \in 1 .. Len(goal')
      <4>1. p \in 1 .. Len(goal)
        BY <2>2
      <4>2. goal' = goal
        BY <1>1
      <4> QED  BY <4>1, <4>2
    <3>2. medium'["db"][p] = {goal[p]}
      BY <1>1, <1>3, <3>1 DEF Clean
    <3> QED  BY <1>1, <2>1, <3>2 DEF Writing
  <2>4. \A len \in lengths'["db"] : len >= Len(c)
    BY <1>1, <1>3, <2>2 DEF Clean
  <2> QED  BY <2>1, <2>3, <2>4 DEF Armed
<1> QED  BY <1>2, <1>3, <1>4, <1>5 DEF State, StepState

\* A commit makes the content that of the transaction, unless the removal of the journal
\* fails unnoticed.
LEMMA CommitKeeps ==
  ASSUME TypeInv, NEW c \in Contents, State(c), CommitTx
  PROVE  \/ dropped' = dropped /\ \E g \in Contents : g = goal /\ State(g)'
         \/ "remove" \in dropped' /\ State(c)'
<1>1. /\ StoreType /\ ControlType /\ faults \in Nat /\ JournalState(c) /\ Armed(c)
      /\ Clean(goal) /\ step = "commit" /\ tx' = tx /\ step' = "start" /\ goal \in Contents
  BY DEF TypeInv, State, StepState, CommitTx, ControlType, Goes
<1>2. CASE dropped' = dropped /\ Emptied("jr")
  <2>1. PICK g \in Contents : g = goal
    BY <1>1
  <2>2. JournalState(g)' /\ Idle' /\ Untouched("db")
    BY <1>1, <1>2, JournalEmptied, DeleteEffect DEF CommitTx
  <2>3. Clean(g)'
    BY <1>1, <2>1, <2>2, DatabaseSame
  <2>4. State(g)'
    BY <1>1, <2>2, <2>3 DEF State, StepState, Pending
  <2> QED  BY <1>2, <2>1, <2>4
<1>3. CASE dropped' = dropped \cup {"remove"} /\ UNCHANGED <<store, exists>>
  <2>1. Untouched("db") /\ Untouched("jr")
    BY <1>3, StoreSame
  <2>2. JournalState(c)' /\ Armed(c)' /\ EmptySettled'
    <3>1. EmptySettled
      BY <1>1, EmptySeq DEF Clean, EmptySettled
    <3> QED  BY <1>1, <1>3, <2>1, <3>1, JournalSameState, BothSame, DatabaseSame
  <2> QED  BY <1>1, <1>3, <2>2 DEF State, StepState, Pending
<1> QED  BY <1>1, <1>2, <1>3, DeleteEffect DEF CommitTx

\* In every step the database is clean, or the journal has what may be missing from it.
LEMMA CleanOrArmed ==
  ASSUME TypeInv, NEW c, State(c)
  PROVE  Clean(c) \/ Armed(c)
BY DEF TypeInv, ControlType, Steps, State, StepState, Pending, Replaying, Recording, Writing

LEMMA CrashKeeps ==
  ASSUME TypeInv, NEW c \in Contents, State(c), Crash
  PROVE  State(c)'
<1>1. /\ StoreType /\ JournalState(c) /\ exists' = exists /\ tx' = tx /\ step' = "start"
      /\ "db" \in Names /\ "jr" \in Names /\ c \in Seq(Values) /\ Len(c) \in 0 .. MaxPages
      /\ MaxPages \in Nat /\ 1 \in Blocks
  BY ContentsAreSeqs, JournalAssumption DEF TypeInv, State, Crash, Goes, Names, Blocks
<1>2. /\ StoreType' /\ SettledNow("db")' /\ SettledNow("jr")'
      /\ Len(db') \in lengths["db"] /\ Len(jr') \in lengths["jr"]
      /\ \A i \in 1 .. Len(db') : i \in Blocks /\ db'[i] \in medium["db"][i]
      /\ \A i \in 1 .. Len(jr') : i \in Blocks /\ jr'[i] \in medium["jr"][i]
  BY <1>1, CrashEffect DEF db, jr
<1>3. /\ db' \in Seq(AnyBlock) /\ Len(db') \in 0 .. MaxPages
      /\ jr' \in Seq(AnyBlock) /\ Len(jr') \in 0 .. MaxPages + 1
  BY <1>1, <1>2 DEF StoreType, FileType, db, jr, MaxLen
<1>4. /\ lengths'["db"] = {Len(db')} /\ lengths'["jr"] = {Len(jr')}
      /\ \A i \in 1 .. Len(db') : medium'["db"][i] = {db'[i]}
      /\ \A i \in 1 .. Len(jr') : medium'["jr"][i] = {jr'[i]}
  <2>1. \A i \in 1 .. Len(db') : i <= Len(db')  BY <1>3
  <2>2. \A i \in 1 .. Len(jr') : i <= Len(jr')  BY <1>3
  <2> QED  BY <1>2, <2>1, <2>2 DEF SettledNow, ReadOf, db, jr
<1>5. \A i \in Blocks : \A b \in medium'["jr"][i] :
        Valid(b) => b \in medium["jr"][i] /\ b = jr'[i]
  <2> TAKE i \in Blocks
  <2> TAKE b \in medium'["jr"][i]
  <2>1. medium'["jr"][i] = {IF i <= Len(jr') THEN jr'[i] ELSE Zero}
    BY <1>2 DEF SettledNow, ReadOf, jr
  <2>2. i <= Len(jr') => i \in 1 .. Len(jr')
    BY <1>3 DEF Blocks
  <2> QED  BY <1>2, <2>1, <2>2 DEF Valid
<1>6. JournalState(c)'
  <2>1. Nonces'
    BY <1>1, <1>5 DEF JournalState, Nonces
  <2>2. NoEntry'
    <3>1. SUFFICES ASSUME ~exists, NEW b \in medium'["jr"][1]  PROVE b = Zero
      BY <1>1 DEF NoEntry
    <3>2. medium["jr"][1] \subseteq {Zero}
      BY <1>1, <3>1 DEF JournalState, NoEntry
    <3>3. medium'["jr"][1] = {IF 1 <= Len(jr') THEN jr'[1] ELSE Zero}
      BY <1>1, <1>2 DEF SettledNow, ReadOf, jr
    <3>4. 1 <= Len(jr') => 1 \in 1 .. Len(jr')
      BY <1>3
    <3> QED  BY <1>2, <3>1, <3>2, <3>3, <3>4
  <2>3. Harmless(c)'
    <3>1. ASSUME NEW h \in medium'["jr"][1], Valid(h)
          PROVE  /\ h.size = Len(c)
                 /\ \A k \in 2 .. h.n + 1 : \A s \in medium'["jr"][k] :
                      Valid(s) /\ s.nonce = h.nonce => s.page <= Len(c) /\ s.val = c[s.page]
      <4>1. h \in medium["jr"][1] /\ h \in Headers
        BY <1>1, <1>5, <3>1, Reads
      <4>2. \A k \in 2 .. h.n + 1 : k \in Blocks
        BY <1>1, <4>1 DEF Headers, Blocks
      <4> QED  BY <1>1, <1>5, <3>1, <4>1, <4>2 DEF JournalState, Harmless
    <3> QED  BY <3>1 DEF Harmless
  <2> QED  BY <2>1, <2>2, <2>3 DEF JournalState
<1>7. Pending(c)'
  <2>1. EmptySettled'
    BY <1>4, EmptySeq DEF EmptySettled
  <2>2. CASE Clean(c)
    <3>1. Len(db') = Len(c) /\ \A i \in 1 .. Len(c) : db'[i] = c[i]
      BY <1>2, <2>2 DEF Clean
    <3>2. db' = c
      <4>1. c \in Seq(AnyBlock)
        BY <1>1, SeqMonotonic DEF AnyBlock
      <4> QED  BY <1>3, <3>1, <4>1, SeqEqual
    <3>3. Clean(c)'
      BY <1>4, <3>2 DEF Clean
    <3>4. CASE HasHeader'
      <4>1. Len(jr') >= 1 /\ Valid(jr'[1]) /\ 1 \in 1 .. Len(jr')
        BY <1>3, <3>4, EmptySeq DEF HasHeader, Valid
      <4>2. exists
        BY <1>1, <1>2, <4>1 DEF JournalState, NoEntry, Valid
      <4>3. JournalSettled'
        BY <1>1, <1>4, <3>4, <4>2 DEF JournalSettled
      <4>4. Armed(c)'
        BY <1>1, <1>4, <3>2, <4>3 DEF Armed
      <4> QED  BY <2>1, <4>4 DEF Pending
    <3>5. CASE ~HasHeader'
      BY <3>3, <3>5 DEF Pending, Idle
    <3> QED  BY <3>4, <3>5
  <2>3. CASE Armed(c)
    <3>1. jr' = jr
      <4>1. Len(jr') = Len(jr) /\ jr \in Seq(AnyBlock)
        BY <1>1, <1>2, <2>3, Reads DEF Armed, JournalSettled
      <4>2. \A i \in 1 .. Len(jr') : jr'[i] = jr[i]
        BY <1>2, <2>3, <4>1 DEF Armed, JournalSettled
      <4> QED  BY <1>3, <4>1, <4>2, SeqEqual
    <3>2. JournalSettled' /\ \A p : Recorded(p)' <=> Recorded(p)
      BY <1>1, <1>4, <2>3, <3>1
        DEF Armed, JournalSettled, HasHeader, Header, Recorded, Played, Good
    <3>3. Len(db') >= Len(c)
      BY <1>2, <2>3 DEF Armed
    <3>4. \A p \in 1 .. Len(c) : Recorded(p)' \/ medium'["db"][p] = {c[p]}
      <4> TAKE p \in 1 .. Len(c)
      <4>1. p \in 1 .. Len(db')
        BY <1>1, <1>3, <3>3
      <4> QED  BY <1>2, <1>4, <2>3, <3>2, <4>1 DEF Armed
    <3>5. Armed(c)'
      BY <1>1, <1>3, <1>4, <3>2, <3>3, <3>4 DEF Armed
    <3> QED  BY <2>1, <3>5 DEF Pending
  <2> QED  BY <2>2, <2>3, CleanOrArmed
<1> QED  BY <1>1, <1>6, <1>7 DEF State, StepState
-----------------------------------------------------------------------------
(* The inductive invariant.  *)

LEMMA InitKept == Init => Kept
<1> SUFFICES ASSUME Init  PROVE Kept
  OBVIOUS
<1>1. TypeInv /\ StoreType  BY InitTypes DEF TypeInv
<1>2. step = "start" /\ exists = FALSE /\ db \in committed /\ acked = db
  BY DEF Init
<1>3. "db" \in Names /\ "jr" \in Names /\ 1 \in Blocks
  BY JournalAssumption DEF Names, Blocks
<1>4. jr = << >> /\ \A j \in Blocks : medium["jr"][j] = {Zero}
  <2>1. jr = << >>
    BY <1>3 DEF Init, jr
  <2>2. medium["jr"] = Settled(<< >>)
    BY <1>3, <2>1 DEF Init, jr
  <2> QED  BY <2>1, <2>2, EmptySeq DEF Settled, Blocks
<1>5. JournalState(db)
  BY <1>3, <1>4 DEF JournalState, Harmless, NoEntry, Nonces, Valid
<1>6. Clean(db)
  <2>1. lengths["db"] = {Len(db)} /\ medium["db"] = Settled(db)
    BY <1>3 DEF Init, db
  <2>2. \A i \in 1 .. Len(db) : i \in Blocks /\ i <= Len(db)
    BY <1>1, Reads
  <2> QED  BY <2>1, <2>2 DEF Clean, Settled
<1>7. Idle
  BY <1>4 DEF Idle, HasHeader
<1>8. State(db)
  BY <1>2, <1>5, <1>6, <1>7 DEF State, StepState, Pending
<1> QED  BY <1>2, <1>8 DEF Kept

LEMMA StutterKeeps ==
  ASSUME NEW c, State(c), UNCHANGED vars
  PROVE  State(c)'
<1>1. /\ Untouched("db") /\ Untouched("jr") /\ exists' = exists /\ tx' = tx /\ goal' = goal
      /\ n' = n /\ step' = step /\ db' = db /\ jr' = jr
  BY DEF vars, store, Untouched, db, jr
<1>2. /\ JournalState(c)' /\ (Clean(c)' <=> Clean(c)) /\ (Idle' <=> Idle)
      /\ (Armed(c)' <=> Armed(c)) /\ (EmptySettled' <=> EmptySettled) /\ (Fresh' <=> Fresh)
      /\ (Mine(c)' <=> Mine(c)) /\ (HasHeader' <=> HasHeader) /\ Header' = Header
      /\ (\A i : Good(i)' <=> Good(i)) /\ (\A p : Recorded(p)' <=> Recorded(p))
      /\ Differ' = Differ /\ Journalled' = Journalled
  BY <1>1, JournalSame, DatabaseSame, BothSame, DifferSame DEF State
<1>3. Pending(c)' <=> Pending(c)
  BY <1>2 DEF Pending
<1>4. Replaying(c)' <=> Replaying(c)
  BY <1>1, <1>2 DEF Replaying
<1>5. Writing(c)' <=> Writing(c)
  BY <1>1, <1>2 DEF Writing
<1>6. Recording(c)' <=> Recording(c)
  BY <1>1, <1>2 DEF Recording, Written
<1>7. Clean(goal)' <=> Clean(goal)
  BY <1>1 DEF Clean, Untouched
<1> QED  BY <1>1, <1>2, <1>3, <1>4, <1>5, <1>6, <1>7 DEF State, StepState

\* A step keeps the content, unless it commits or a failed sync is hidden.
LEMMA StepKeeps ==
  ASSUME TypeInv, NEW c \in Contents, State(c), [Next]_vars, ~CommitTx, "sync" \notin dropped'
  PROVE  State(c)'
<1>1. CASE Recover
  BY <1>1, CheckJournalKeeps, PlayTruncateKeeps, PlayRecordKeeps, PlaySyncKeeps, PlayDeleteKeeps
    DEF Recover
<1>2. CASE Transact
  BY <1>2, OpenKeeps, WriteHeaderKeeps, WriteRecordKeeps, SyncRecordsKeeps, WriteCountKeeps,
     SyncCountKeeps, WritePageKeeps, SyncPagesKeeps DEF Transact
<1> QED  BY <1>1, <1>2, BeginKeeps, CrashKeeps, StutterKeeps DEF Next

\* What was dropped stays so, and only a commit reports a content.
LEMMA ReportedSteps ==
  ASSUME TypeInv, [Next]_vars
  PROVE  /\ dropped \subseteq dropped'
         /\ dropped' = dropped \/ (dropped' = dropped \cup {"sync"} /\ UNCHANGED store)
              \/ dropped' = dropped \cup {"remove"}
         /\ ~CommitTx => acked' = acked /\ committed' = committed
<1>1. StoreType /\ faults \in Nat  BY DEF TypeInv, ControlType
<1>2. CASE Recover
  <2>1. CASE CheckJournal
    BY <1>1, <2>1, DeleteEffect DEF CheckJournal
  <2>2. CASE PlayTruncate
    BY <2>2 DEF PlayTruncate
  <2>3. CASE PlayRecord
    BY <2>3 DEF PlayRecord
  <2>4. CASE PlaySync
    BY <2>4 DEF PlaySync, Sync
  <2>5. CASE PlayDelete
    BY <1>1, <2>5, DeleteEffect DEF PlayDelete
  <2> QED  BY <1>2, <2>1, <2>2, <2>3, <2>4, <2>5 DEF Recover
<1>3. CASE Transact
  <2>1. CASE Open
    BY <2>1 DEF Open
  <2>2. CASE WriteHeader
    BY <2>2 DEF WriteHeader
  <2>3. CASE WriteRecord
    BY <2>3 DEF WriteRecord
  <2>4. CASE SyncRecords
    BY <2>4 DEF SyncRecords, Sync
  <2>5. CASE WriteCount
    BY <2>5 DEF WriteCount
  <2>6. CASE SyncCount
    BY <2>6 DEF SyncCount, Sync
  <2>7. CASE WritePage
    BY <2>7 DEF WritePage
  <2>8. CASE SyncPages
    BY <2>8 DEF SyncPages, Sync
  <2>9. CASE CommitTx
    BY <1>1, <2>9, DeleteEffect DEF CommitTx
  <2> QED  BY <1>3, <2>1, <2>2, <2>3, <2>4, <2>5, <2>6, <2>7, <2>8, <2>9 DEF Transact
<1>4. CASE Begin
  BY <1>4 DEF Begin
<1>5. CASE Crash
  BY <1>5 DEF Crash
<1>6. CASE UNCHANGED vars
  BY <1>6 DEF vars
<1> QED  BY <1>2, <1>3, <1>4, <1>5, <1>6 DEF Next

\* Only a sync drops a sync, and it changes no directory entry.
LEMMA SyncDropped ==
  ASSUME TypeInv, [Next]_vars, "sync" \notin dropped, "sync" \in dropped'
  PROVE  exists' = exists /\ port' = port
<1>1. StoreType /\ faults \in Nat  BY DEF TypeInv, ControlType
<1>2. ~Delete
  <2>1. SUFFICES ASSUME Delete  PROVE FALSE
    OBVIOUS
  <2>2. dropped' = dropped \/ dropped' = dropped \cup {"remove"}
    BY <1>1, <2>1, DeleteEffect
  <2> QED  BY <2>2
<1>3. CASE Recover
  BY <1>2, <1>3
    DEF Recover, CheckJournal, PlayTruncate, PlayRecord, PlaySync, PlayDelete
<1>4. CASE Transact
  BY <1>2, <1>4
    DEF Transact, Open, WriteHeader, WriteRecord, SyncRecords, WriteCount, SyncCount,
        WritePage, SyncPages, CommitTx
<1> QED  BY <1>3, <1>4 DEF Next, Begin, Crash, vars

LEMMA NextKept == ASSUME IInv, [Next]_vars  PROVE Kept'
<1> SUFFICES ASSUME "sync" \notin dropped'
             PROVE  \E c \in committed' : State(c)' /\ (dropped' = {} => c = acked')
  BY DEF Kept
<1>1. TypeInv /\ committed \subseteq Contents  BY DEF IInv, TypeInv, ControlType
<1>2. dropped \subseteq dropped' /\ (~CommitTx => acked' = acked /\ committed' = committed)
  BY <1>1, ReportedSteps
<1>3. PICK c \in committed : State(c) /\ (dropped = {} => c = acked)
  BY <1>2 DEF IInv, Kept
<1>4. CASE ~CommitTx
  BY <1>1, <1>2, <1>3, <1>4, StepKeeps
<1>5. CASE CommitTx
  <2>1. acked' = goal /\ committed' = committed \cup {goal}
    BY <1>5 DEF CommitTx
  <2> QED  BY <1>1, <1>3, <1>5, <2>1, CommitKeeps
<1> QED  BY <1>4, <1>5

LEMMA Inductive == Spec => []IInv
<1>1. Init => IInv
  BY InitTypes, InitKept DEF IInv
<1>2. IInv /\ [Next]_vars => IInv'
  BY NextTypes, NextKept DEF IInv
<1> QED  BY <1>1, <1>2, PTL DEF Spec

LEMMA TypesFollow == IInv => TypeOK
<1> SUFFICES ASSUME IInv  PROVE TypeOK
  OBVIOUS
<1>1. StoreType /\ ControlType  BY DEF IInv, TypeInv
<1>2. db \in Contents
  BY <1>1, Reads
<1>3. ASSUME NEW i \in 1 .. Len(jr)
      PROVE  i \in Blocks /\ jr[i] \in {Zero, Torn} \cup (IF i = 1 THEN Headers ELSE Records)
  <2>1. i \in Blocks /\ jr[i] \in medium["jr"][i]
    BY <1>1, Reads
  <2> QED  BY <1>1, <2>1 DEF StoreType, FileType, BlockSet, Names
<1>4. ASSUME NEW f \in Names
      PROVE  /\ Len(file[f]) \in lengths[f]
             /\ \A i \in 1 .. Len(file[f]) : file[f][i] \in medium[f][i]
  BY <1>1, <1>4, Reads DEF Names, db, jr
<1> QED  BY <1>1, <1>2, <1>3, <1>4 DEF TypeOK, ControlType

\* The files are two sequences of blocks and the medium may hold what a read of them
\* finds, whatever was written, synced, removed or lost.
THEOREM TypeCorrect == Spec => []TypeOK
BY Inductive, TypesFollow, PTL

\* When recovery is done the database is what the last reported commit left, or what some
\* commit left if a failed removal was hidden, for any size and any number of crashes.
THEOREM ReadyCommitted == Spec => []ReadyIsCommitted
<1>1. IInv => ReadyIsCommitted
  <2> SUFFICES ASSUME IInv, step = "ready", "sync" \notin dropped
               PROVE  db \in committed /\ (dropped = {} => db = acked)
    BY DEF ReadyIsCommitted
  <2>1. PICK c \in committed : State(c) /\ (dropped = {} => c = acked)
    BY DEF IInv, Kept
  <2>2. db = c
    BY <2>1 DEF State, StepState, Clean
  <2> QED  BY <2>1, <2>2
<1> QED  BY <1>1, Inductive, PTL
-----------------------------------------------------------------------------
(* The refinement of AtomicStore.  *)

\* Whatever a failed sync did, a reader finds a content.
LEMMA ContentIsTyped == ASSUME TypeInv  PROVE Content \in Contents
<1>1. StoreType /\ db \in Contents /\ MaxPages \in Nat
  BY Reads, JournalAssumption DEF TypeInv
<1>2. ASSUME Hot  PROVE Restored \in Contents
  <2>1. HasHeader /\ Header.size \in 0 .. MaxPages
    BY <1>1, <1>2, Reads DEF Hot, Headers
  <2>2. ASSUME NEW p \in 1 .. Header.size
        PROVE  (IF \E i \in Played : jr[i + 1].page = p
                  THEN jr[(CHOOSE i \in Played : jr[i + 1].page = p) + 1].val
                  ELSE IF p <= Len(db) THEN db[p] ELSE Zero) \in Values
    <3>1. CASE \E i \in Played : jr[i + 1].page = p
      <4> DEFINE k == CHOOSE i \in Played : jr[i + 1].page = p
      <4>1. k \in Played
        BY <3>1
      <4>2. k \in 1 .. MaxPages /\ Good(k)
        BY <1>1, <4>1 DEF Played
      <4> HIDE DEF k
      <4>3. jr[k + 1].val \in Values
        BY <1>1, <4>2, GoodRecord DEF Records
      <4> QED  BY <3>1, <4>3 DEF k
    <3>2. CASE ~\E i \in Played : jr[i + 1].page = p
      <4>1. p <= Len(db) => p \in 1 .. Len(db)
        BY <1>1, <2>1, Reads
      <4> QED  BY <1>1, <3>2, <4>1, Reads, Constants
    <3> QED  BY <3>1, <3>2
  <2>3. Restored \in [1 .. Header.size -> Values]
    BY <2>2 DEF Restored
  <2> QED  BY <2>1, <2>3 DEF Contents
<1> QED  BY <1>1, <1>2 DEF Content

\* What a reader finds is c.
LEMMA ContentIsC ==
  ASSUME TypeInv, NEW c \in Contents, State(c)
  PROVE  Content = c
<1>1. /\ StoreType /\ JournalState(c) /\ (Clean(c) \/ Armed(c)) /\ MaxPages \in Nat
      /\ c \in Seq(Values) /\ Len(c) \in 0 .. MaxPages /\ Len(db) \in 0 .. MaxPages
  BY CleanOrArmed, ContentsAreSeqs, Reads, JournalAssumption DEF TypeInv, State
<1>2. ASSUME Hot  PROVE Restored = c
  <2>1. HasHeader /\ Header.size = Len(c)
    <3>1. HasHeader /\ Header \in medium["jr"][1] /\ Valid(Header)
      BY <1>1, <1>2, Reads DEF Hot, HasHeader, Header, Valid
    <3> QED  BY <1>1, <3>1 DEF JournalState, Harmless
  <2>2. ASSUME NEW p \in 1 .. Len(c)
        PROVE  (IF \E i \in Played : jr[i + 1].page = p
                  THEN jr[(CHOOSE i \in Played : jr[i + 1].page = p) + 1].val
                  ELSE IF p <= Len(db) THEN db[p] ELSE Zero) = c[p]
    <3>1. CASE \E i \in Played : jr[i + 1].page = p
      <4> DEFINE k == CHOOSE i \in Played : jr[i + 1].page = p
      <4>1. k \in Played /\ jr[k + 1].page = p
        BY <3>1
      <4>2. k \in 1 .. MaxPages /\ Good(k)
        BY <1>1, <4>1 DEF Played
      <4> HIDE DEF k
      <4>3. jr[k + 1].val = c[p]
        BY <1>1, <2>1, <4>1, <4>2, GoodIsOfC
      <4> QED  BY <3>1, <4>3 DEF k
    <3>2. CASE ~\E i \in Played : jr[i + 1].page = p
      <4>1. p <= Len(db) /\ db[p] = c[p]
        <5>1. CASE Clean(c)
          BY <1>1, <5>1 DEF Clean
        <5>2. CASE Armed(c)
          <6>1. Len(db) >= Len(c) /\ medium["db"][p] = {c[p]}
            BY <1>1, <3>2, <5>2, Reads DEF Armed, Recorded
          <6>2. p \in 1 .. Len(db)
            BY <1>1, <6>1
          <6>3. db[p] \in medium["db"][p]
            BY <1>1, <6>2, Reads
          <6> QED  BY <1>1, <6>1, <6>2, <6>3
        <5> QED  BY <1>1, <5>1, <5>2
      <4> QED  BY <3>2, <4>1
    <3> QED  BY <3>1, <3>2
  <2>3. Restored = [p \in 1 .. Len(c) |-> c[p]]
    BY <2>1, <2>2 DEF Restored
  <2>4. c = [p \in 1 .. Len(c) |-> c[p]]
    BY <1>1, LenProperties
  <2> QED  BY <2>3, <2>4
<1>3. ASSUME ~Hot  PROVE db = c
  <2>1. CASE Clean(c)
    BY <2>1 DEF Clean
  <2>2. CASE Armed(c)
    <3>1. db = << >>
      BY <1>3, <2>2
        DEF Hot, Armed, JournalSettled, Access, QuecAccess, WinAccess, HasHeader
    <3>2. Len(c) = 0
      BY <1>1, <2>2, <3>1, Reads, EmptySeq DEF Armed
    <3> QED  BY <1>1, <3>1, <3>2, EmptySeq
  <2> QED  BY <1>1, <2>1, <2>2
<1> QED  BY <1>2, <1>3 DEF Content

\* Both facts after a step.
ContentFacts ==
  /\ TypeInv => Content \in Contents
  /\ \A c \in Contents : TypeInv /\ State(c) => Content = c

LEMMA NextContent == ContentFacts'
<1>1. ContentFacts
  BY ContentIsTyped, ContentIsC DEF ContentFacts
<1> QED  BY <1>1, PTL

LEMMA InitRefines == Init => Store!StoreInit
<1> SUFFICES ASSUME Init  PROVE Store!StoreInit
  OBVIOUS
<1>1. Content = db
  BY DEF Init, Content, Hot, Access, QuecAccess, WinAccess
<1>2. Content \in Contents
  BY InitTypes, ContentIsTyped
<1>3. Hidden = "none"
  BY DEF Init, Hidden
<1> QED  BY <1>1, <1>2, <1>3 DEF Init, Store!StoreInit

\* The content depends on the two files and the directory entry.
LEMMA ContentSame ==
  ASSUME UNCHANGED store, exists' = exists, port' = port
  PROVE  Content' = Content
<1>1. Untouched("jr") /\ db' = db
  BY StoreSame, DatabaseSame
<1>2. /\ jr' = jr /\ (HasHeader' <=> HasHeader) /\ Header' = Header
      /\ \A i : Good(i)' <=> Good(i)
  BY <1>1, JournalSame
<1>3. Hot' <=> Hot
  BY <1>1, <1>2 DEF Hot, Access, QuecAccess, WinAccess
<1>4. Played' = Played
  BY <1>2 DEF Played
<1>5. Restored' = Restored
  BY <1>1, <1>2, <1>4 DEF Restored
<1> QED  BY <1>1, <1>3, <1>5 DEF Content

LEMMA NextRefines ==
  ASSUME IInv, IInv', [Next]_vars
  PROVE  [Store!StoreNext]_Store!storeVars
<1>1. /\ TypeInv /\ TypeInv' /\ committed \subseteq Contents /\ goal \in Contents
      /\ StoreType /\ faults \in Nat /\ Content \in Contents /\ Content' \in Contents
  <2>1. TypeInv /\ TypeInv'  BY DEF IInv
  <2>2. Content \in Contents  BY <2>1, ContentIsTyped
  <2>3. TypeInv' => Content' \in Contents  BY NextContent DEF ContentFacts
  <2> QED  BY <2>1, <2>2, <2>3 DEF TypeInv, ControlType
<1>2. /\ dropped \subseteq dropped'
      /\ dropped' = dropped \/ (dropped' = dropped \cup {"sync"} /\ UNCHANGED store)
           \/ dropped' = dropped \cup {"remove"}
      /\ ~CommitTx => acked' = acked /\ committed' = committed
  BY <1>1, ReportedSteps
<1>3. CommitTx => Store!Reported(goal)
  BY DEF CommitTx, Store!Reported
<1>4. CASE "sync" \notin dropped'
  <2>1. PICK c \in committed : State(c)
    BY <1>2, <1>4 DEF IInv, Kept
  <2>2. Content = c /\ Hidden # "torn"
    BY <1>1, <1>2, <1>4, <2>1, ContentIsC DEF Hidden
  <2>3. ASSUME NEW g \in Contents, State(g)'  PROVE Content' = g
    BY <1>1, <2>3, NextContent DEF ContentFacts
  <2>4. Hidden' = Hidden \/ Hidden' = "lost"
    BY <1>2, <1>4 DEF Hidden
  <2>5. CASE ~CommitTx
    <3>1. Content' = Content
      BY <1>1, <1>4, <2>1, <2>2, <2>3, <2>5, StepKeeps
    <3> QED  BY <1>2, <2>2, <2>4, <2>5, <3>1
           DEF Store!StoreNext, Store!Hide, Store!Worse, Store!storeVars
  <2>6. CASE CommitTx
    <3>1. CASE dropped' = dropped /\ Content' = goal
      <4>1. Store!Commit(goal)
        BY <1>3, <2>6, <3>1 DEF Store!Commit, Hidden
      <4> QED  BY <1>1, <4>1 DEF Store!StoreNext
    <3>2. CASE "remove" \in dropped' /\ Content' = c
      <4>1. Hidden' = "lost"
        BY <1>4, <3>2 DEF Hidden
      <4>2. Store!LoseCommit(goal)
        BY <1>3, <2>2, <2>6, <3>2, <4>1 DEF Store!LoseCommit, Store!Worse
      <4> QED  BY <1>1, <4>2 DEF Store!StoreNext
    <3> QED  BY <1>1, <2>1, <2>3, <2>6, <3>1, <3>2, CommitKeeps
  <2> QED  BY <2>5, <2>6
<1>5. CASE "sync" \in dropped'
  <2>1. Hidden' = "torn"  BY <1>5 DEF Hidden
  <2>2. CASE CommitTx
    <3>1. /\ db = goal /\ port' = port
      BY <1>1, <2>2 DEF TypeInv, Planned, CommitTx
    <3>2. CASE exists' = FALSE /\ Emptied("jr") /\ dropped' = dropped
      <4>1. db' = db
        BY <1>1, <2>2, DeleteEffect DEF CommitTx
      <4>2. Content' = goal
        BY <3>1, <3>2, <4>1 DEF Content, Hot, Access, QuecAccess, WinAccess
      <4>3. Store!Commit(goal)
        BY <1>3, <2>2, <3>2, <4>2 DEF Store!Commit, Hidden
      <4> QED  BY <1>1, <4>3 DEF Store!StoreNext
    <3>3. CASE dropped' = dropped \cup {"remove"} /\ UNCHANGED <<store, exists>>
      <4>1. Content' = Content
        BY <3>1, <3>3, ContentSame
      <4>2. Store!LoseCommit(goal)
        BY <1>3, <2>1, <2>2, <4>1 DEF Store!LoseCommit, Store!Worse
      <4> QED  BY <1>1, <4>2 DEF Store!StoreNext
    <3> QED  BY <1>1, <2>2, <3>2, <3>3, DeleteEffect DEF CommitTx
  <2>3. CASE ~CommitTx /\ "sync" \in dropped
    <3>1. Hidden = "torn"  BY <2>3 DEF Hidden
    <3>2. Store!Tear
      BY <1>1, <1>2, <2>1, <2>3, <3>1 DEF Store!Tear
    <3> QED  BY <3>2 DEF Store!StoreNext
  <2>4. CASE ~CommitTx /\ "sync" \notin dropped
    <3>1. UNCHANGED store
      BY <1>2, <1>5, <2>4
    <3>2. exists' = exists /\ port' = port
      BY <1>1, <1>2, <1>5, <2>4, SyncDropped
    <3>3. Content' = Content
      BY <3>1, <3>2, ContentSame
    <3>4. Store!Hide
      BY <1>2, <2>1, <2>4, <3>3 DEF Store!Hide, Store!Worse
    <3> QED  BY <3>4 DEF Store!StoreNext
  <2> QED  BY <2>2, <2>3, <2>4
<1> QED  BY <1>4, <1>5

\* The port and the pager implement AtomicStore: whatever crash comes at whatever step and
\* whatever call fails, the content is that of the last commit, until the port hides a
\* failure; a hidden removal can only lose commits.
THEOREM Refinement == Spec => ImplementsStore
<1>1. Init => Store!StoreInit
  BY InitRefines
<1>2. IInv /\ IInv' /\ [Next]_vars => [Store!StoreNext]_Store!storeVars
  BY NextRefines
<1> QED  BY <1>1, <1>2, Inductive, PTL DEF Spec, ImplementsStore, Store!StoreSpec
-----------------------------------------------------------------------------
(* What sets the pager back.  *)

\* The journal that is played back was found by xAccess.
Looked == step = "truncate" => Access

LEMMA LookedAlways == Spec => []Looked
<1>1. Init => Looked
  BY DEF Init, Looked
<1>2. Looked /\ [Next]_vars => Looked'
  <2> SUFFICES ASSUME Looked, [Next]_vars, step' = "truncate"  PROVE Access'
    BY DEF Looked
  <2>1. CASE CheckJournal
    BY <2>1 DEF CheckJournal, Goes, Access, QuecAccess, WinAccess, store, jr
  <2>2. CASE UNCHANGED vars
    BY <2>2 DEF vars, store, Looked, Access, QuecAccess, WinAccess, jr
  <2>3. CASE PlayTruncate \/ PlayRecord \/ PlaySync \/ PlayDelete \/ Begin \/ Crash
    BY <2>3 DEF PlayTruncate, PlayRecord, PlaySync, PlayDelete, Begin, Crash, Goes, Write, Sync,
                QuecTruncate, WinTruncate
  <2>4. CASE Open \/ WriteHeader \/ WriteRecord \/ SyncRecords \/ WriteCount \/ SyncCount
    BY <2>4 DEF Open, WriteHeader, WriteRecord, SyncRecords, WriteCount, SyncCount, Goes, Write, Sync
  <2>5. CASE WritePage \/ SyncPages \/ CommitTx
    BY <2>5 DEF WritePage, SyncPages, CommitTx, Goes, Write, Sync
  <2> QED  BY <2>1, <2>2, <2>3, <2>4, <2>5 DEF Next, Recover, Transact
<1> QED  BY <1>1, <1>2, PTL DEF Spec

\* The steps of a transaction, and those of a recovery, in their order.
LEMMA StageOrder ==
  /\ Stage("truncate") < Stage("start")
  /\ Stage("ready") < Stage("start")
  /\ Stage("restore") < Stage("truncate")
  /\ Stage("restored") < Stage("restore")
  /\ Stage("played") < Stage("restored")
  /\ Stage("ready") < Stage("played")
  /\ Stage("header") < Stage("open")
  /\ Stage("records") < Stage("header")
  /\ Stage("sync records") < Stage("records")
  /\ Stage("count") < Stage("sync records")
  /\ Stage("sync count") < Stage("count")
  /\ Stage("pages") < Stage("sync count")
  /\ Stage("sync pages") < Stage("pages")
  /\ Stage("commit") < Stage("sync pages")
  /\ Stage("start") < Stage("commit")
<1>1. Stage("truncate") < Stage("start")
  BY DEF Stage
<1>2. Stage("ready") < Stage("start")
  BY DEF Stage
<1>3. Stage("restore") < Stage("truncate")
  BY DEF Stage
<1>4. Stage("restored") < Stage("restore")
  BY DEF Stage
<1>5. Stage("played") < Stage("restored")
  BY DEF Stage
<1>6. Stage("ready") < Stage("played")
  BY DEF Stage
<1>7. Stage("header") < Stage("open")
  BY DEF Stage
<1>8. Stage("records") < Stage("header")
  BY DEF Stage
<1>9. Stage("sync records") < Stage("records")
  BY DEF Stage
<1>10. Stage("count") < Stage("sync records")
  BY DEF Stage
<1>11. Stage("sync count") < Stage("count")
  BY DEF Stage
<1>12. Stage("pages") < Stage("sync count")
  BY DEF Stage
<1>13. Stage("sync pages") < Stage("pages")
  BY DEF Stage
<1>14. Stage("commit") < Stage("sync pages")
  BY DEF Stage
<1>15. Stage("start") < Stage("commit")
  BY DEF Stage
<1> QED  BY <1>1, <1>2, <1>3, <1>4, <1>5, <1>6, <1>7, <1>8,
            <1>9, <1>10, <1>11, <1>12, <1>13, <1>14, <1>15

\* A step to a later stage, and a step to the same stage that shortens its loop, come closer.
LEMMA LaterStage ==
  ASSUME NEW s, NEW t, step = s, step' = t, Stage(t) < Stage(s)  PROVE Closer
BY DEF Closer, StagesLeft

LEMMA ShorterLoop ==
  ASSUME step' = step, RoundsLeft' < RoundsLeft  PROVE Closer
BY DEF Closer, StagesLeft

LEMMA UnwrittenIsFinite ==
  ASSUME ControlType
  PROVE  IsFiniteSet(Unwritten) /\ Cardinality(Unwritten) \in Nat
<1>1. Len(goal) \in 0 .. MaxPages /\ MaxPages \in Nat
  BY ContentsAreSeqs, Constants DEF ControlType
<1>2. IsFiniteSet(1 .. Len(goal))
  BY <1>1, FS_Interval
<1>3. Unwritten \subseteq 1 .. Len(goal)
  BY DEF Unwritten
<1> QED  BY <1>2, <1>3, FS_Subset, FS_CardinalityType

\* A page that is written is one less to write, whichever it is.
LEMMA PageIsOneLess ==
  ASSUME TypeInv, NEW p \in Unwritten, Stored("db", p, goal[p]), goal' = goal
  PROVE  Cardinality(Unwritten') < Cardinality(Unwritten)
<1>1. StoreType /\ ControlType /\ Len(db) \in Nat
  BY Reads DEF TypeInv
<1>2. /\ p \in 1 .. Len(goal) /\ p \in 1 .. MaxLen("db") /\ "db" \in Names
      /\ goal[p] \in BlockSet("db", p) /\ Len(goal) \in Nat
  BY <1>1, GoalPage, Constants DEF Unwritten, MaxLen, Names
<1>3. Holds("db", p, goal[p])
  BY <1>1, <1>2, StoredEffect
<1>4. Len(db') = (IF p > Len(db) THEN p ELSE Len(db))
  BY <1>3 DEF Holds, db
<1>5. ASSUME NEW i \in Unwritten'  PROVE i \in Unwritten \ {p}
  <2>1. i \in 1 .. Len(goal) /\ (i > Len(db') \/ db'[i] # goal[i])
    BY DEF Unwritten
  <2>0. i \in Blocks
    <3>1. MaxPages \in Nat /\ Len(goal) \in 0 .. MaxPages
      BY <1>1, ContentsAreSeqs, Constants DEF ControlType
    <3> QED  BY <2>1, <3>1 DEF Blocks
  <2>2. i # p
    <3> SUFFICES ASSUME i = p  PROVE FALSE
      OBVIOUS
    <3>1. ~(i > Len(db'))
      BY <1>1, <1>2, <1>4
    <3>2. db'[i] = goal[i]
      <4>1. ReadOf("db", i)' = goal[p]
        BY <1>3, <2>0, <2>1 DEF Holds
      <4> QED  BY <1>1, <1>2, <1>4, <4>1 DEF ReadOf, db
    <3> QED  BY <2>1, <3>1, <3>2
  <2>3. CASE i > Len(db)
    BY <2>1, <2>2, <2>3 DEF Unwritten
  <2>4. CASE ~(i > Len(db))
    <3>1. i <= Len(db) /\ i <= Len(db')
      BY <1>1, <1>2, <1>4, <2>1, <2>4
    <3>2. db'[i] = db[i]
      <4>1. ReadOf("db", i)' = ReadOf("db", i)
        BY <1>3, <2>0, <2>1, <2>2 DEF Holds
      <4> QED  BY <3>1, <4>1 DEF ReadOf, db
    <3>3. ~(i > Len(db'))
      BY <1>1, <1>2, <1>4, <2>1, <3>1
    <3> QED  BY <2>1, <2>2, <3>2, <3>3 DEF Unwritten
  <2> QED  BY <2>3, <2>4
<1>6. IsFiniteSet(Unwritten) /\ Cardinality(Unwritten) \in Nat
  BY <1>1, UnwrittenIsFinite
<1>7. /\ IsFiniteSet(Unwritten \ {p}) /\ Cardinality(Unwritten \ {p}) \in Nat
      /\ Cardinality(Unwritten \ {p}) = Cardinality(Unwritten) - 1
  BY <1>6, FS_RemoveElement, FS_CardinalityType
<1>8. Cardinality(Unwritten') <= Cardinality(Unwritten \ {p}) /\ Cardinality(Unwritten') \in Nat
  <2>1. Unwritten' \in SUBSET (Unwritten \ {p})
    BY <1>5
  <2> QED  BY <1>7, <2>1, FS_Subset, FS_CardinalityType
<1> QED  BY <1>6, <1>7, <1>8

LEMMA WriteOrFault ==
  ASSUME NEW f, NEW i, NEW b, NEW next, Write(f, i, b, next)
  PROVE  (step' = next /\ Stored(f, i, b)) \/ faults' = faults + 1
BY DEF Write, Goes, Fault

LEMMA SetBackStep ==
  ASSUME TypeInv, Looked, Next
  PROVE  \/ Closer
         \/ crashes' = crashes + 1 \/ faults' = faults + 1
         \/ step = "ready" /\ tx' = tx + 1
         \/ step = "truncate" /\ Refused
<1>t. n \in Nat /\ MaxPages \in Nat
  BY Constants DEF TypeInv, ControlType
<1>1. CASE Begin \/ Crash
  BY <1>1 DEF Begin, Crash
<1>2. CASE CheckJournal
  BY <1>2, StageOrder, LaterStage DEF CheckJournal, Goes
<1>3. CASE PlayTruncate
  <2>1. CASE WinTruncate("db", Header.size, "restore") /\ Len(db) > Header.size
    <3>1. step = "truncate" /\ port = "win" /\ Access /\ HasHeader
      BY <1>3, <2>1 DEF PlayTruncate, WinTruncate, Looked, TypeInv, Planned
    <3>2. db # << >>
      <4>1. Header.size \in 0 .. MaxPages /\ Len(db) \in Nat
        BY <3>1, Reads DEF TypeInv, Headers
      <4> QED  BY <2>1, <4>1
    <3> QED  BY <2>1, <3>1, <3>2 DEF Refused, Hot
  <2>2. CASE QuecTruncate("db", Header.size, "restore")
    BY <1>3, <2>2, StageOrder, LaterStage DEF PlayTruncate, QuecTruncate, Fault, Goes
  <2>3. CASE Write("db", Header.size, Zero, "restore")
    <3>1. step = "truncate" /\ (step' = "restore" \/ faults' = faults + 1)
      BY <1>3, <2>3, WriteOrFault DEF PlayTruncate
    <3> QED  BY <3>1, StageOrder, LaterStage
  <2>4. CASE Goes("restore")
    BY <1>3, <2>4, StageOrder, LaterStage DEF PlayTruncate, Goes
  <2> QED  BY <1>3, <2>1, <2>2, <2>3, <2>4 DEF PlayTruncate
<1>4. CASE PlayRecord
  <2>1. CASE Write("db", jr[n + 2].page, jr[n + 2].val, "restore") /\ n' = n + 1
    <3>1. step = "restore" /\ (step' = "restore" \/ faults' = faults + 1)
      BY <1>4, <2>1, WriteOrFault DEF PlayRecord
    <3>2. CASE step' = "restore"
      BY <1>t, <2>1, <3>1, <3>2, ShorterLoop DEF RoundsLeft
    <3> QED  BY <3>1, <3>2
  <2>2. CASE Goes("restored")
    BY <1>4, <2>2, StageOrder, LaterStage DEF PlayRecord, Goes
  <2> QED  BY <1>4, <2>1, <2>2 DEF PlayRecord
<1>5. CASE PlaySync \/ PlayDelete
  BY <1>5, StageOrder, LaterStage DEF PlaySync, PlayDelete, Sync, Goes
<1>6. CASE Open
  BY <1>6, StageOrder, LaterStage DEF Open, Fault, Goes
<1>7. CASE WriteHeader \/ WriteCount
  <2>1. \/ step = "header" /\ (step' = "records" \/ faults' = faults + 1)
        \/ step = "count" /\ (step' = "sync count" \/ faults' = faults + 1)
    BY <1>7, WriteOrFault DEF WriteHeader, WriteCount
  <2> QED  BY <2>1, StageOrder, LaterStage
<1>8. CASE WriteRecord
  <2>1. ASSUME NEW p, n' = n + 1,
               Write("jr", n + 2, [page |-> p, val |-> db[p], nonce |-> tx], "records")
        PROVE  Closer \/ faults' = faults + 1
    <3>1. step = "records" /\ (step' = "records" \/ faults' = faults + 1)
      BY <1>8, <2>1, WriteOrFault DEF WriteRecord
    <3>2. CASE step' = "records"
      BY <1>t, <2>1, <3>1, <3>2, ShorterLoop DEF RoundsLeft
    <3> QED  BY <3>1, <3>2
  <2>2. CASE Goes("sync records")
    BY <1>8, <2>2, StageOrder, LaterStage DEF WriteRecord, Goes
  <2> QED  BY <1>8, <2>1, <2>2 DEF WriteRecord
<1>9. CASE SyncRecords \/ SyncCount \/ SyncPages
  BY <1>9, StageOrder, LaterStage DEF SyncRecords, SyncCount, SyncPages, Sync, Goes
<1>10. CASE WritePage
  <2>1. ASSUME NEW p \in Unwritten, Write("db", p, goal[p], "pages")
        PROVE  Closer \/ faults' = faults + 1
    <3>1. /\ step = "pages" /\ goal' = goal
          /\ (step' = "pages" /\ Stored("db", p, goal[p])) \/ faults' = faults + 1
      BY <1>10, <2>1, WriteOrFault DEF WritePage
    <3>2. CASE step' = "pages" /\ Stored("db", p, goal[p])
      <4>1. Cardinality(Unwritten') < Cardinality(Unwritten)
        BY <3>1, <3>2, PageIsOneLess
      <4> QED  BY <3>1, <3>2, <4>1, ShorterLoop DEF RoundsLeft
    <3> QED  BY <3>1, <3>2
  <2>2. CASE Goes("sync pages")
    BY <1>10, <2>2, StageOrder, LaterStage DEF WritePage, Goes
  <2> QED  BY <1>10, <2>1, <2>2 DEF WritePage
<1>11. CASE CommitTx
  BY <1>11, StageOrder, LaterStage DEF CommitTx, Goes
<1> QED  BY <1>1, <1>2, <1>3, <1>4, <1>5, <1>6, <1>7, <1>8, <1>9, <1>10, <1>11
         DEF Next, Recover, Transact

\* Recovery and commit cannot go round in circles by themselves: what is left is two
\* natural numbers that every step lowers, unless there is a crash, a failing call, a new
\* transaction, or the truncation that the Windows port refuses.
THEOREM SetBackOnlyByFaults ==
  /\ Spec => [](StagesLeft \in Nat /\ RoundsLeft \in Nat)
  /\ Spec => SetBackOnly
<1>1. IInv => StagesLeft \in Nat /\ RoundsLeft \in Nat
  <2> SUFFICES ASSUME IInv  PROVE StagesLeft \in Nat /\ RoundsLeft \in Nat
    OBVIOUS
  <2>1. /\ n \in 0 .. MaxPages /\ MaxPages \in Nat /\ Cardinality(Unwritten) \in Nat
    BY UnwrittenIsFinite, Constants DEF IInv, TypeInv, ControlType
  <2>2. RoundsLeft \in Nat
    BY <2>1 DEF RoundsLeft
  <2>3. Stage(step) \in Nat
    BY DEF Stage
  <2> QED  BY <2>2, <2>3 DEF StagesLeft
<1>2. IInv /\ Looked /\ [Next]_vars =>
        [\/ Closer
         \/ crashes' = crashes + 1 \/ faults' = faults + 1
         \/ step = "ready" /\ tx' = tx + 1
         \/ step = "truncate" /\ Refused]_vars
  BY SetBackStep DEF IInv
<1> QED  BY <1>1, <1>2, Inductive, LookedAlways, PTL DEF Spec, SetBackOnly
=============================================================================
