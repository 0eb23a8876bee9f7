--------------------------- MODULE MCTranslation ---------------------------
EXTENDS Translation
=============================================================================
