------------------------------ MODULE MCBuddy -------------------------------
EXTENDS Buddy
=============================================================================
