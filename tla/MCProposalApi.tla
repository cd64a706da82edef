---------------------------- MODULE MCProposalApi ----------------------------
(* Instance values: a limit between the two values of a proposal. *)
EXTENDS ProposalApi, TLC

MCValues == {50, 100}
MCSymmetry == Permutations(Workers)
=============================================================================
