----------------------------- MODULE MCAccounts -----------------------------
EXTENDS Accounts, TLC

Symmetry == Permutations(Handler) \cup Permutations(Identity) \cup Permutations(Pubkey)
=============================================================================
