----------------------------- MODULE MCMcuLink -----------------------------
EXTENDS McuLink
=============================================================================
