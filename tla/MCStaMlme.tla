------------------------------ MODULE MCStaMlme ------------------------------
EXTENDS StaMlme
CONSTANTS b1, b2, none
=============================================================================
