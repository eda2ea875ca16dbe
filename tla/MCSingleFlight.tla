-------------------------- MODULE MCSingleFlight --------------------------
EXTENDS SingleFlight
=============================================================================
