-------------------------- MODULE MCGpuSubmission --------------------------
(* The owner of the Context and another client submit once each.           *)
EXTENDS GpuSubmission

CONSTANTS owner, client, s1, s2, p1, p2

MCThreadOf == [s \in Subs |-> IF s = s1 THEN owner ELSE client]
=============================================================================
