----------------------------- MODULE MCVfsFile -----------------------------
(* VfsFile with two handles and two threads on one name; the second file is *)
(* what the name refers to after a delete while the first is still open.    *)
EXTENDS VfsFile, TLC

Interchangeable ==
  Permutations(Handles) \cup Permutations(Files) \cup Permutations(Threads)
=============================================================================
