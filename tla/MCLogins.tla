------------------------------ MODULE MCLogins ------------------------------
EXTENDS Logins, TLC

Symmetry == Permutations(Conns) \cup Permutations(Users)
=============================================================================
