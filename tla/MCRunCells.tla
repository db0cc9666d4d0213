----------------------------- MODULE MCRunCells -----------------------------
\* Instances of the job pool for TLC.  Cells are alike, so their permutations
\* are a symmetry of the safety runs.
EXTENDS RunCells, TLC

Symmetry == Permutations(Cells) \cup Permutations(Scenarios)
=============================================================================
