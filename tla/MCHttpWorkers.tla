--------------------------- MODULE MCHttpWorkers ----------------------------
EXTENDS HttpWorkers
=============================================================================
