---------------------------- MODULE MCScanDaemon ----------------------------
(* Small instances of ScanDaemon for TLC.                                  *)
EXTENDS ScanDaemon, TLC

CONSTANTS r1, r2

MCRequests == {r1, r2}
MCNames == {"alpha"}
MCVersions == {"latest", "v1"}

Body(v, ai) ==
  [name |-> "alpha", version |-> v, ai_suggested |-> ai]

(* The same package at two versions: two keys for both caches. *)
MCInputs == {Body(None, TRUE), Body("v1", FALSE)}

Pol(block, trust, min, repo) ==
  [block_list |-> block, trust_list |-> trust,
   min_monthly_downloads |-> min, require_repository_link |-> repo]

Strict   == Pol({}, {}, 500, TRUE)
Trusting == Pol({}, {"alpha"}, 0, FALSE)
Blocking == Pol({"alpha"}, {"alpha"}, 0, FALSE)
MCPolicies == {Strict, Trusting, Blocking}

Found3(s, dl, repo) ==
  [score |-> s, monthly_downloads |-> dl, has_repository |-> repo]
(* Below every threshold whatever the penalties; ALLOW turned WARN by them; *)
(* and a BLOCK.                                                             *)
MCAssessments == {Found3(5, 1000, TRUE), Found3(30, 10, FALSE), Found3(85, 10, TRUE)}

MCAlike == [n \in MCNames |-> {n}]

MCSymmetry == Permutations(MCRequests)
=============================================================================
