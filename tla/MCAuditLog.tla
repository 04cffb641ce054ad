----------------------------- MODULE MCAuditLog -----------------------------
(***************************************************************************)
(* Small instances of AuditLog: two runs over one file, two contents, up   *)
(* to three events each.                                                   *)
(***************************************************************************)
EXTENDS AuditLog, TLC

\* Nothing compares or orders runs or contents.
MCSymmetry == Permutations(Runs) \cup Permutations(Contents)
=============================================================================
