---------------------------- MODULE MCBlockPool ----------------------------
EXTENDS BlockPool
============================================================================
