--------------------------- MODULE MCRayBootstrap ---------------------------
(* Instances of RayBootstrap for model checking. *)
EXTENDS RayBootstrap

CONSTANTS h, w1, w2, eth0, docker0

TwoNodes   == {h, w1}
ThreeNodes == {h, w1, w2}

\* Every node detects the same interface (the usual cluster).
Uniform(nodes) == { [n \in nodes |-> e] : e \in {eth0, docker0} }
UniformTwo   == Uniform(TwoNodes)
UniformThree == Uniform(ThreeNodes)

\* Each node detects its own interface.
AnyTwo == [TwoNodes -> {eth0, docker0}]

TwoEnvs == {eth0, docker0}
=============================================================================
