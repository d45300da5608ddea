-------------------------- MODULE MCPartnerRequests --------------------------
(* PartnerRequests on small instances.                                      *)
EXTENDS PartnerRequests, TLC

Symmetric == Permutations(Accounts)

=============================================================================
