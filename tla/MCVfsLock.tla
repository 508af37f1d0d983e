----------------------------- MODULE MCVfsLock -----------------------------
(* VfsLock with two connections to the file and two threads. *)
EXTENDS VfsLock
=============================================================================
