---------------------------- MODULE MCActivation ----------------------------
EXTENDS Activation

CONSTANTS r1, r2

MCRepos == {r1, r2}
MCFaulty == Failures
=============================================================================
