------------------------ MODULE MCTransitiveResolver ------------------------
(* Small instances of TransitiveResolver: all graphs over a root with two  *)
(* dependencies and three more packages, cycles and self-loops included.   *)
EXTENDS TransitiveResolver

MCPackages == {"root", "b", "c", "d"}

Lists == {<<>>} \cup {<<p>> : p \in MCPackages}
           \cup {s \in MCPackages \X MCPackages : s[1] # s[2]}

MCGraphs == {g \in [MCPackages -> Lists] : g["root"] = <<"b", "c">>}
=============================================================================
