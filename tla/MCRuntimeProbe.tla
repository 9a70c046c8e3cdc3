--------------------------- MODULE MCRuntimeProbe ---------------------------
EXTENDS RuntimeProbe
=============================================================================
