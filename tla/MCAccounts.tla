----------------------------- MODULE MCAccounts -----------------------------
\* A small instance of Accounts: requests differ in nothing but their name.
EXTENDS Accounts, TLC

Symmetry == Permutations(Ops)

=============================================================================
