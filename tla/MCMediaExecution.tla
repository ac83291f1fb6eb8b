--------------------------- MODULE MCMediaExecution ---------------------------
EXTENDS MediaExecution
=============================================================================
