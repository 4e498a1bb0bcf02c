------------------------- MODULE MCFilePrograms -------------------------
EXTENDS FilePrograms
=============================================================================
