---------------------------- MODULE MCPortStats ----------------------------
EXTENDS PortStats
=============================================================================
