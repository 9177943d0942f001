--------------------------- MODULE MCAuditRuntime ---------------------------
(* Values for TLC of the constants of AuditRuntime.                        *)
EXTENDS AuditRuntime

\* All claims are about one file, whose budget they share.
MCSource == [c \in Claims |-> CHOOSE f \in Files : TRUE]
=============================================================================
