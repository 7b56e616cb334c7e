-------------------------- MODULE MCRegistryClient --------------------------
(* A small instance of RegistryClient for TLC: two callers of one document. *)
(* No symmetry: the run checks liveness too.                                *)
EXTENDS RegistryClient

CONSTANTS c1, c2

MCCallers == {c1, c2}
MCUrls == {"doc"}
MCTTL == [u \in MCUrls |-> 1]
=============================================================================
