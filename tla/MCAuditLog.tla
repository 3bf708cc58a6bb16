----------------------------- MODULE MCAuditLog -----------------------------
(* Small instances of AuditLog for TLC.                                    *)
EXTENDS AuditLog

CONSTANTS p1, p2, b1, b2

MCProcess == {p1, p2}
MCBody == {b1, b2}
=============================================================================
