-------------------------- MODULE MCMemberListing --------------------------
(***************************************************************************)
(* Values of the constants of MemberListing for TLC.                       *)
(***************************************************************************)
EXTENDS MemberListing, TLC

CONSTANTS v1, v2, u1, u2, u3

TwoOfThem == {<<u1, u2>>}
=============================================================================
