----------------------------- MODULE MCProcesses ----------------------------
EXTENDS Processes
=============================================================================
