------------------------------ MODULE MCPure ------------------------------
(***************************************************************************)
(* The parts of the code that compute and share nothing: the random        *)
(* numbers, the histogram and its text, the name of a temporary file.      *)
(* "subject" is the one a behaviour is about; the others stay as they are. *)
(***************************************************************************)
EXTENDS Random, Histogram, TempName

VARIABLE subject

vars == <<subject, randVars, histVars, tempVars>>

\* What the others are while they rest.
Resting ==
  /\ subject # "random" => seed = 1 /\ raw = 1 /\ size = 0
  /\ subject # "name" => usable = {} /\ zDir = NoDir /\ azDirs[1] = NoDir

Init ==
  /\ subject \in {"random", "histogram", "text", "name"}
  /\ RandInit /\ HistInit /\ TempInit
  /\ Resting

Next ==
  /\ UNCHANGED subject
  /\ \/ subject = "random" /\ RandStep /\ UNCHANGED <<histVars, tempVars>>
     \/ subject = "histogram" /\ HistStep /\ UNCHANGED <<randVars, tempVars>>
     \/ subject = "text" /\ HistogramToString /\ UNCHANGED <<randVars, tempVars>>
     \/ subject = "name" /\ TempStep /\ UNCHANGED <<randVars, histVars>>

Spec == Init /\ [][Next]_vars

\* Directories: what the two literals without a comma between them make is one
\* path that nobody has.
PathList == <<"sql", "joined">>
PathLen == [given |-> 5, sql |-> 7, joined |-> 18, root |-> 4]
GivenDirs == {"none", "given"}
RootDir == "root"
LimitList == <<2, 3, 5, 9>>
=============================================================================
