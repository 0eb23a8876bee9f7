SPECIFICATION Spec
CONSTANTS
  Workers = {w1, w2}
  Threads = {t1, t2}
  Typed = {typed}
  Refs = {ref}
  Cases = {lower}
  None = None
  NoDoc = NoDoc
  ReadFails = FALSE
  MaxKeys = 2
  MaxStarts = 1
  MaxPuts = 1
INVARIANT SecretValuesStayOut
PROPERTIES KeyAgreementLasts DeletedLeavesNothing
CHECK_DEADLOCK FALSE
SYMMETRY Symmetry
