---------------------------- MODULE MCTaskCheckpoint ---------------------------
EXTENDS TaskCheckpoint, TLC

KeySymmetry == Permutations(Keys)
================================================================================
