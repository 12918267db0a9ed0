------------------------ MODULE MCResourceReferences ------------------------
EXTENDS ResourceReferences

CONSTANTS x1, x2, c1, c2
=============================================================================
