--------------------------- MODULE MCSnifferSetup ---------------------------
EXTENDS SnifferSetup

ThreeWorkers == <<1, 2, 3>>
=============================================================================
