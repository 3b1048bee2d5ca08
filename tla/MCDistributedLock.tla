----------------------------- MODULE MCDistributedLock -----------------------------
EXTENDS DistributedLock
================================================================================
