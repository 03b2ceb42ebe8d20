------------------------------ MODULE MCVSpace ------------------------------
EXTENDS VSpace
=============================================================================
