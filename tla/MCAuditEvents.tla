--------------------------- MODULE MCAuditEvents ---------------------------
(* Values for TLC of the constants of AuditEvents.                         *)
EXTENDS AuditEvents

MCEvidenceClasses == {"direct_code_fact", "inferred_hypothesis"}
MCAllowedEvidenceClasses == {"direct_code_fact"}
=============================================================================
