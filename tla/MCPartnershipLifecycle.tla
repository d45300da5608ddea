----------------------- MODULE MCPartnershipLifecycle -----------------------
(* PartnershipLifecycle on small instances.                                 *)
EXTENDS PartnershipLifecycle, TLC

Symmetric == Permutations(Accounts) \cup Permutations(Partnerships)

=============================================================================
