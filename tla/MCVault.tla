------------------------------- MODULE MCVault --------------------------------
EXTENDS Vault, TLC

MCPath == {<<"a">>, <<"b">>, <<"a", "n">>, <<"b", "n">>}

Symmetry == Permutations(File) \cup Permutations(Id)
=============================================================================
