--------------------------------- MODULE MCHandoff --------------------------------
(***************************************************************************)
(* A swap of shifts s1 and s2 between y and z, an event for a shift that   *)
(* does not exist, and an override that gives s1 back to y.                *)
(***************************************************************************)
EXTENDS Handoff

CONSTANTS swap, stray, o1, s1, s2, x, y, z

MCChanges == [e \in Events \cup Overrides |->
  CASE e = swap  -> [a \in {s1, s2} |-> IF a = s1 THEN z ELSE y]
    [] e = stray -> [a \in {} |-> x]
    [] e = o1    -> [a \in {s1} |-> y]]
MCFirstHolder == [a \in Assignments |-> IF a = s1 THEN y ELSE z]
================================================================================
