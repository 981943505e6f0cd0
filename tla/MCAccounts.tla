----------------------------- MODULE MCAccounts -----------------------------
(* Two accounts, two request threads; halves of a share and of a cent. *)
EXTENDS Accounts

CONSTANTS t1, t2

MCRatio == {<<3, 2>>}
ClerksAlike == Permutations(Clerk)
=============================================================================
