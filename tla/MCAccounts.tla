----------------------------- MODULE MCAccounts -----------------------------
(* One address in three spellings, and the addresses the providers make up.   *)
EXTENDS Accounts, TLC

CONSTANTS plain, capital, blank, github_local, okta_local, alice, bob

\* "alice@x", "Alice@x" and " alice@x".
LowerOf == [e \in Emails |-> IF e = capital THEN plain ELSE e]
TrimOf == [e \in Emails |-> IF e = blank THEN plain ELSE e]
GithubLocalOf == [n \in Usernames |-> github_local]
OktaLocalOf == [o \in OktaSubs |-> okta_local]
OktaNameOf == [o \in OktaSubs |-> bob]

IdSymmetry == Permutations(Ids)
=============================================================================
