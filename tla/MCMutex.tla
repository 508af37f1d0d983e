------------------------------ MODULE MCMutex ------------------------------
(* Mutex with a table of two static mutexes and one dynamic one; the system *)
(* has mutexes to spare, so that those a restart leaves behind do not at    *)
(* once keep the library from starting again.                               *)
EXTENDS Mutex
=============================================================================
