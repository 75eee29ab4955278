--------------------------- MODULE MCPunishments ---------------------------
EXTENDS Punishments, TLC
CONSTANTS j1, j2, j3, j4
MCJobs == {j1, j2, j3}
MCFourJobs == {j1, j2, j3, j4}
MCSymmetry == Permutations(MCJobs)
MCFourSymmetry == Permutations(MCFourJobs)
=============================================================================
