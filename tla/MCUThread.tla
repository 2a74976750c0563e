----------------------------- MODULE MCUThread ------------------------------
EXTENDS UThread
=============================================================================
