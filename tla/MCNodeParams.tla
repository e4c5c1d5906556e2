---------------------------- MODULE MCNodeParams ----------------------------
EXTENDS NodeParams
=============================================================================
