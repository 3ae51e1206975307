----------------------------- MODULE MCMarketplace -----------------------------
(***************************************************************************)
(* One contested post.  Posts share no state but the attempt counters of   *)
(* their claimants, and a second post is only needed for those.            *)
(***************************************************************************)
EXTENDS Marketplace

CONSTANTS p1, e1

MCPostOf == [r \in Requests |-> p1]
MCEmployeeOf == [r \in Requests |-> e1]
================================================================================
