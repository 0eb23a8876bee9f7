SPECIFICATION Spec
CONSTANTS
  Projects = {p1, p2}
  NoProject = NoProject
  Names = {n1, n2}
  BaseName = BaseName
  NoTag = NoTag
  NoJob = NoJob
  Ids = {1, 2, 3}
  Legacy = FALSE
  Requests <- RequestsDef
  Threads = {t1, t2}
  MaxSetups = 2
  MaxRenames = 2
INVARIANTS OneJobPerProject RunsItsOwn 
CHECK_DEADLOCK FALSE
SYMMETRY Symmetry
