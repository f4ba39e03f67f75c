------------------------ MODULE MCEmergencyShutdown ------------------------
EXTENDS EmergencyShutdown
=============================================================================
