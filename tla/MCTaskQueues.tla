---------------------------- MODULE MCTaskQueues ----------------------------
(* Instances of TaskQueues for TLC.                                        *)
EXTENDS TaskQueues, TLC

\* Queues with the same rights are interchangeable.
Rights(q) == <<q \in Threads, q \in Polled, q \in DartQueues, q \in Mortal>>
Symmetry == {p \in Permutations(Queues) : \A q \in Queues : Rights(p[q]) = Rights(q)}
=============================================================================
