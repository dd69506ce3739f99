-------------------------- MODULE MCVaultLifecycle --------------------------
EXTENDS VaultLifecycle, TLC

Symmetry == Permutations(Procs) \cup Permutations(Files) \cup Permutations(Identities)
=============================================================================
