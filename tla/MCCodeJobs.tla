----------------------------- MODULE MCCodeJobs -----------------------------
EXTENDS CodeJobs
=============================================================================
