------------------------------- MODULE MCTaskClaims -------------------------------
EXTENDS TaskClaims
================================================================================
