---------------------------- MODULE MCBuildLogs ----------------------------
EXTENDS BuildLogs

CONSTANT f1
=============================================================================
