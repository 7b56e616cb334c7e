-------------------------- MODULE MCDaemonLifecycle --------------------------
EXTENDS DaemonLifecycle

MCTokens == 1 .. 4

(* Four machines: a first installation, in which nothing else goes wrong; a database of
   version 2 with the repository cloned anew; one of version 1 whose last start got as
   far as the token; and one that lost its token.  In the last three anything may fail. *)
Bare    == db.columns = -1 /\ file = None /\ venv = "absent" /\ mishaps = MaxMishaps
Cloned  == db.version = 2 /\ file # None /\ venv = "absent" /\ mishaps = 0
Old     == "name" \in db.rows /\ file # None /\ venv = "ready" /\ mishaps = 0
NoToken == db.version = 3 /\ file = None /\ venv = "ready" /\ mishaps = 0

MCInit == Init /\ (Bare \/ Cloned \/ Old \/ NoToken)
MCSpec == MCInit /\ [][Next]_vars /\ Fairness
=============================================================================
