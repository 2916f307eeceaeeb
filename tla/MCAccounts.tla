----------------------------- MODULE MCAccounts -----------------------------
(* Instances of Accounts for TLC.  The usernames other than the first one  *)
(* are interchangeable, and so are the clients that delete users, and the  *)
(* clients that do not.                                                    *)
EXTENDS Accounts, TLC

Symmetry ==
    Permutations(Names \ {FirstName}) \cup Permutations(Deleters)
        \cup Permutations(Clients \ Deleters)
==============================================================================
