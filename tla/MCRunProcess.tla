---------------------------- MODULE MCRunProcess ----------------------------
EXTENDS RunProcess
=============================================================================
