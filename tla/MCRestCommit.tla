----------------------------- MODULE MCRestCommit ------------------------------
(* Two writers that append to a table another engine commits to.            *)
EXTENDS RestCommit, TLC

MCAppends == Writers \X (1 .. MaxAppends)

WriterSymmetry == Permutations(Writers)
================================================================================
