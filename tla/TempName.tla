----------------------------- MODULE TempName -----------------------------
(* The name of a temporary file, win_temp_file_dir and quec_get_temp_name   *)
(* in port/os_quec_rtos.c.  Of a path the model keeps which it is and how   *)
(* long it is.                                                              *)
EXTENDS Naturals, Sequences

CONSTANTS
  NoDir,        \* the null pointer
  Root,         \* "UFS:", the directory of last resort
  Listed,       \* azDirs after its first place and before its terminator
  Given,        \* what sqlite3_temp_directory may be
  DirLen,       \* the length of each path
  PrefixLen,    \* of SQLITE_TEMP_FILE_PREFIX
  BufLens       \* the sizes of the caller's buffer

VARIABLES
  azDirs,       \* the list
  usable,       \* the directories that exist and can be opened
  k,            \* i
  zDir,
  name          \* the name, or how far its making is

tempVars == <<azDirs, usable, k, zDir, name>>

Dirs == {Root} \cup (Given \ {NoDir}) \cup {Listed[i] : i \in DOMAIN Listed}

ASSUME TempAssumption ==
  /\ NoDir \in Given /\ Root # NoDir
  /\ Listed \in Seq(Dirs) /\ \A i \in DOMAIN Listed : Listed[i] # NoDir
  /\ DirLen \in [Dirs -> Nat] /\ PrefixLen \in Nat /\ BufLens \subseteq Nat

TempInit ==
  /\ \E given \in Given : azDirs = <<given>> \o Listed \o <<NoDir>>
  /\ usable \in SUBSET Dirs
  /\ k = 0 /\ zDir = NoDir
  /\ name = [at |-> "search", buf |-> 0, len |-> 0]

\* A mutant: the search ends at a directory that does not exist.
SearchAny ==
  /\ name.at = "search"
  /\ IF k < Len(azDirs) /\ zDir = NoDir
       THEN zDir' = azDirs[k + 1] /\ k' = k + 1 /\ UNCHANGED name
       ELSE name' = [name EXCEPT !.at = "found"] /\ UNCHANGED <<k, zDir>>
  /\ UNCHANGED <<azDirs, usable>>

\* The test of the loop of win_temp_file_dir, its body for zDir, and the step to
\* the next path.
Search ==
  /\ name.at = "search"
  /\ IF k < Len(azDirs) /\ (zDir = NoDir \/ zDir \notin usable)
       THEN zDir' = azDirs[k + 1] /\ k' = k + 1 /\ UNCHANGED name
       ELSE name' = [name EXCEPT !.at = "found"] /\ UNCHANGED <<k, zDir>>
  /\ UNCHANGED <<azDirs, usable>>

Dir == IF zDir = NoDir THEN Root ELSE zDir

\* A mutant: the 15 random letters are not counted.
NoRoomSmall(buf) == DirLen[Dir] + PrefixLen + 3 >= buf

NoRoom(buf) == DirLen[Dir] + PrefixLen + 18 >= buf

\* sqlite3_snprintf(nBuf-18, ...) cuts what it prints off, then come 15 letters
\* and two terminators.  A name that exists is thrown away for another one of the
\* same length.
MakeName(buf) ==
  /\ name.at = "found"
  /\ LET printed == DirLen[Dir] + 1 + PrefixLen
         room == buf - 18 - 1
     IN name' = IF NoRoom(buf) THEN [name EXCEPT !.at = "error", !.buf = buf]
                ELSE [at |-> "made", buf |-> buf,
                      len |-> (IF printed <= room THEN printed ELSE room) + 15 + 2]
  /\ UNCHANGED <<azDirs, usable, k, zDir>>

TempStep == Search \/ \E buf \in BufLens : MakeName(buf)

TempSpec == TempInit /\ [][TempStep]_tempVars
-----------------------------------------------------------------------------
\* The search ends with the first directory of the list that can be used, or with
\* none, and then there is none: the list is walked by a loop whose step runs before
\* its body.
FirstUsable ==
  name.at # "search" =>
    IF zDir = NoDir THEN \A i \in DOMAIN azDirs : azDirs[i] \notin usable
    ELSE \E i \in DOMAIN azDirs : /\ azDirs[i] = zDir /\ zDir \in usable
                                  /\ \A j \in 1 .. (i - 1) : azDirs[j] \notin usable

\* A name that is made fits the buffer with both its terminators, and loses at most
\* one letter of the prefix to the limit of sqlite3_snprintf.
NameFits ==
  name.at = "made" =>
    name.len <= name.buf /\ name.len + 1 >= DirLen[Dir] + 1 + PrefixLen + 17

\* A temporary file goes to the first directory that can be used, under a name that
\* fits.
NameIsRight == FirstUsable /\ NameFits
=============================================================================
