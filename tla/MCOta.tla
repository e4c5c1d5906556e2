------------------------------- MODULE MCOta -------------------------------
EXTENDS Ota
=============================================================================
