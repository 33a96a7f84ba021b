--------------------------- MODULE MCSnifferWorker ---------------------------
EXTENDS SnifferWorker

=============================================================================
