-------------------------------- MODULE MCSessions --------------------------------
(***************************************************************************)
(* One login, whose user may also be logged out everywhere.                *)
(***************************************************************************)
EXTENDS Sessions, TLC

CONSTANT user

MCOwner == [c \in Codes |-> user]
MCSymmetry == Permutations(Tokens) \cup Permutations(Requests) \cup Permutations(Codes)
================================================================================
