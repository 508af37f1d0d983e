----------------------------- MODULE MCJournal -----------------------------
(* Journal with a database of up to two pages. *)
EXTENDS Journal
=============================================================================
