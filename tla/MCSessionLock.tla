--------------------------- MODULE MCSessionLock ---------------------------
EXTENDS SessionLock
=============================================================================
