--------------------------- MODULE MCAuditLedger ----------------------------
(***************************************************************************)
(* AuditLedger for TLC: the requests named in the configuration hold both  *)
(* kinds, those that spell ids as the database does and those that do not. *)
(***************************************************************************)
EXTENDS AuditLedger

ASSUME BothSpellings == Respelt # {} /\ Respelt # Requests
=============================================================================
