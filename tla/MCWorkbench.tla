---------------------------- MODULE MCWorkbench ----------------------------
EXTENDS Workbench, TLC
Users == Permutations(User)
=============================================================================
