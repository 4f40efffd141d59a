-------------------------- MODULE MCEventAdmission --------------------------
(* Two structs and three label maps, tracked three times in all. *)
EXTENDS EventAdmissionProperties, TLC

CONSTANTS e1, e2, m1, m2, m3

Symmetric == Permutations(Envelopes) \union Permutations(LabelMaps)

\* What is in a map that nobody refers to is never read again.
Referenced == <<clientEnvironment, envelopes, [m \in InUse \ {NoLabels} |-> contents[m]],
                queue, batch, tracks, wire>>
=============================================================================
