\* Every stream of up to five bytes, of text or of escape sequences, cut in every way, at every
\* time; and each of the stores in files, with three requests and every fault.
SPECIFICATION Spec
CONSTANTS
  r1 = r1
  r2 = r2
  r3 = r3
  unused = unused
  Alphabets <- TextAndEscapes
  MaxBytes = 5
  MaxRead = 3
  BatchMax = 3
  Requests = {r1, r2, r3}
  Faults = {"crash", "write", "drop"}
  Ids = {1, 2}
  Agents = {1, 2}
  Unused = unused
SYMMETRY RequestSymmetry
INVARIANTS TypeOK GivenIsKept ChunkingInvisible MemoryTellsFile
\* A stream ends, and each request is made once.
CHECK_DEADLOCK FALSE
