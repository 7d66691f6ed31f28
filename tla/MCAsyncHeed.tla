----------------------------- MODULE MCAsyncHeed ----------------------------
EXTENDS AsyncHeed, TLC

\* No property tells one task from another.
TaskSymmetry == Permutations(Tasks)
=============================================================================
