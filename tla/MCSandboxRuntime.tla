--------------------------- MODULE MCSandboxRuntime ---------------------------
(* Instances of SandboxRuntime for TLC.                                    *)
EXTENDS SandboxRuntime
=============================================================================
