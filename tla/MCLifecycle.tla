---------------------------- MODULE MCLifecycle ----------------------------
\* Instances of Lifecycle for TLC.
EXTENDS Lifecycle, TLC

Symmetry == Permutations(Actors) \union Permutations(Creds) \union Permutations(Ports)
=============================================================================
