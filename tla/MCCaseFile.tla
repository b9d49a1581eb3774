----------------------------- MODULE MCCaseFile -----------------------------
(* Small instances of CaseFile: see the .cfg files.                        *)
EXTENDS CaseFile, TLC

VisitorSymmetry == Permutations(Visitors)
TrashOps == {"reject", "participate", "restore"}
=============================================================================
