---------------------------- MODULE MCAuditChain ----------------------------
(* Instance of AuditChain for TLC.                                          *)
EXTENDS AuditChain
=============================================================================
