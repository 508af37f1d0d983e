----------------------------- MODULE Allocator -----------------------------
(***************************************************************************)
(* What SQLite asks of the allocator behind sqlite3_mem_methods: xMalloc,  *)
(* xRealloc and xFree "must work like malloc(), realloc() and free()"      *)
(* (sqlite3.h:1685).  A live region is an interval of bytes that starts at *)
(* the pointer handed out and is as long as the caller asked for; regions  *)
(* never share a byte.  A request that cannot be met ends the program: the *)
(* port's malloc-failed hook exits (heap_4.c:574-579).                     *)
(***************************************************************************)
EXTENDS Naturals

CONSTANTS Bytes,     \* the addresses an allocation may use
          Sizes      \* the sizes callers may ask for

VARIABLES live,      \* pointer handed out -> bytes asked for
          running    \* FALSE once the program has exited

vars == <<live, running>>

Region(p, n) == p .. (p + n - 1)

\* p can be handed out for n bytes beside the regions of `others`.
Placed(p, n, others) ==
  /\ p \notin DOMAIN others
  /\ Region(p, n) \subseteq Bytes
  /\ \A q \in DOMAIN others : Region(p, n) \cap Region(q, others[q]) = {}

With(l, p, n) == [q \in DOMAIN l \cup {p} |-> IF q = p THEN n ELSE l[q]]
Without(l, p) == [q \in DOMAIN l \ {p} |-> l[q]]

Init == live = [p \in {} |-> 0] /\ running = TRUE

Malloc ==
  \E n \in Sizes \ {0}, p \in Bytes :
    /\ Placed(p, n, live)
    /\ live' = With(live, p, n)
    /\ UNCHANGED running

Free == \E p \in DOMAIN live : live' = Without(live, p) /\ UNCHANGED running

\* The region moves or is resized; the others stay where they are.
Realloc ==
  \E q \in DOMAIN live, n \in Sizes \ {0}, p \in Bytes :
    /\ Placed(p, n, Without(live, q))
    /\ live' = With(Without(live, q), p, n)
    /\ UNCHANGED running

Exit == running' = FALSE /\ UNCHANGED live

Next == running /\ (Malloc \/ Free \/ Realloc \/ Exit)

Spec == Init /\ [][Next]_vars
=============================================================================
