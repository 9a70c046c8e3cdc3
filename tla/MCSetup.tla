------------------------------- MODULE MCSetup -------------------------------
EXTENDS Setup

CONSTANTS p1, p2

FilesOfBundle == <<"config", "tool">>
=============================================================================
