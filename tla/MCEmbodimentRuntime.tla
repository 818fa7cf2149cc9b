------------------------- MODULE MCEmbodimentRuntime -------------------------
(* Clients and request slots are interchangeable.                           *)
EXTENDS EmbodimentRuntime, TLC

CONSTANTS kitchen, garden, p1, p2, k1, k2

\* A body is configured with one channel; clients advertise it or another one.
MCConfigured == {{k1}}
MCAdvertised == {{k1}, {k2}}

MCSample == {[at |-> 1, space |-> kitchen, pose |-> p1],
             [at |-> 1, space |-> kitchen, pose |-> p2],
             [at |-> 2, space |-> kitchen, pose |-> p1],
             [at |-> 2, space |-> garden, pose |-> p1]}

Symmetry == Permutations(Clients) \cup Permutations(Requests)
=============================================================================
