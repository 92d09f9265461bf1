------------------------------ MODULE MCAccounts ------------------------------
(***************************************************************************)
(* An instance of Accounts for TLC: one browser that makes four calls, one *)
(* name in two spellings and one address.                                  *)
(***************************************************************************)
EXTENDS Accounts, TLC

MCSpellings == {"ann", "Ann", "ann@x"}
MCMails == {"ann@x"}
MCFold == [s \in MCSpellings |-> IF s = "Ann" THEN "ann" ELSE s]

Symmetry == Permutations(Calls) \cup Permutations(Users)
=============================================================================
