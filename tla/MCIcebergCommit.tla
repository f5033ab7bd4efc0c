---------------------------- MODULE MCIcebergCommit ----------------------------
(* Two writers with up to MaxAppends append calls each.                     *)
EXTENDS IcebergCommit, TLC

MCAppends == Writers \X (1 .. MaxAppends)

(* Writers are interchangeable: no property names one.                      *)
WriterSymmetry == Permutations(Writers)
================================================================================
