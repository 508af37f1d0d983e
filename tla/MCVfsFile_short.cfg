SPECIFICATION Spec
CONSTANTS
  Handles = {h1, h2}
  Names = {db}
  Files = {f1, f2}
  NoFile = NoFile
  Threads = {t1, t2}
  OpenFlags = {{}, {"create"}, {"create", "delete"}}
  Stale = Stale
  Block = 2
  Chunks = {4}
  MaxSize = 3
INVARIANTS OkReadsAreWhole
