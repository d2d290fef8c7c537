--------------------------- MODULE MCPacSandbox ---------------------------
\* Two evaluations, so that the thread of the first may live on into the second.
EXTENDS PacSandbox
=============================================================================
