-------------------------- MODULE MCSandboxManager --------------------------
EXTENDS SandboxManager
=============================================================================
