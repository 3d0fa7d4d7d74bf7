--------------------------- MODULE MCNetdiagServer ---------------------------
(* NetdiagServer with three requests in flight at once and the answers that *)
(* the journal tells apart: a refusal, a completed run, a failed run.       *)
EXTENDS NetdiagServer, TLC

CONSTANTS r1, r2, r3

MCRequests    == {r1, r2, r3}
MCTwoRequests == {r1, r2}
MCRefused     == {"refused"}
MCFinished    == {"ok", "exec_error"}
MCOneFinished == {"ok"}

RequestSymmetry == Permutations(MCRequests)
=============================================================================
