------------------------- MODULE MCIsolatedSession -------------------------
EXTENDS IsolatedSession
=============================================================================
