------------------------------- MODULE Sentinel -------------------------------
(***************************************************************************)
(* The Sentinel pillar (src/daemon/pillars/sentinel.py): what one scan     *)
(* learns of a package, lookup after lookup, and the score and flags it    *)
(* makes of it.  The string metrics are data: a package comes with the     *)
(* kinds of similarity they find, all to the one Target.  Of the flags,    *)
(* those the verdict depends on are kept.  A lookup that raises ends the   *)
(* scan: ScanFails in ScanDaemon.                                          *)
(***************************************************************************)
EXTENDS ScannedPackage

CONSTANT Target    \* the popular package a similar name is measured against

ASSUME TargetAssumption == Target \in [downloads : Nat \ {0}, age : Nat]

VARIABLE sentinel  \* the locals of Sentinel.score

Statuses == {"exists", "absent", "undetermined"}

SentinelFlags ==
  {"known_supply_chain_incident", "npm_security_placeholder_version",
   "registry_lookup_undetermined", "package_not_found", "typosquat_detected",
   "typosquat_name_similarity_uncorroborated"}

Cap(n) == IF n > 100 THEN 100 ELSE n

\* The affix check is the one similarity an administrator may turn off.
Hits == {h \in package.hits : h = "affix" => admin.affix}

\* check_reputation_disparity, given the target's document.
Disparity(downloads, age, target) ==
  \/ target > 0 /\ downloads * 20 < target
  \/ age # NoValue /\ age < 30 /\ Target.age > 365

NameFlags(corroborated) ==
  IF Hits = {} THEN {}
  ELSE IF corroborated THEN {"typosquat_detected"}
  ELSE {"typosquat_name_similarity_uncorroborated"}

BasicScore(count) ==
  (CASE count = 0 -> 20 [] count \in 1..99 -> 10 [] OTHER -> 0)
    + (IF package.repository THEN 0 ELSE 10)

AgeScore ==
  CASE package.age = NoValue -> 0 [] package.age \in 0..6 -> 35
    [] package.age \in 7..29 -> 15 [] OTHER -> 0

\* compute_hallucination_risk is told exists = False of an absent package and
\* of an unanswered lookup alike, and of the similarity before corroboration.
HallucinationRisk ==
  LET typo  == "typo" \in package.hits
      flags == IF typo THEN {"typosquat_detected"} ELSE {}
  IN  IF sentinel.status # "exists"
      THEN [score |-> IF typo THEN 85 ELSE 70, flags |-> flags \cup {"package_not_found"}]
      ELSE [score |-> Cap((IF typo THEN 40 ELSE 0) + AgeScore + BasicScore(sentinel.count)),
            flags |-> flags]

-----------------------------------------------------------------------------
SentinelInit ==
  sentinel = [pc |-> "start", again |-> FALSE, status |-> "undetermined",
              count |-> NoValue, target |-> NoValue, score |-> 0, flags |-> {}]

Goto(pc) == sentinel' = [sentinel EXCEPT !.pc = pc]

Conclude(score, flags) ==
  sentinel' = [sentinel EXCEPT !.pc = "done", !.score = score, !.flags = flags]

KnownIncident ==
  /\ sentinel.pc = "start"
  /\ IF package.known THEN Conclude(95, {"known_supply_chain_incident"})
                      ELSE Goto("document")
  /\ UNCHANGED packageVars

\* check_registry_existence, called once, and again for an AI suggestion.
Asked == IF sentinel.again THEN "osv" ELSE "judge"

\* Mutant: everything that is not an answer of the registry is an absence.
StatusOf_TwoWay(answer) == IF answer = "exists" THEN "exists" ELSE "absent"
StatusOf(answer) == answer

AskDocument ==
  /\ sentinel.pc = "document"
  /\ \E answer \in Answers :
       /\ Remember(answer)
       /\ sentinel' = [sentinel EXCEPT !.status = StatusOf(answer),
                                       !.pc = IF answer = "exists" THEN "count" ELSE Asked]
  /\ UNCHANGED <<package, ai, admin>>

AskCount ==
  /\ sentinel.pc = "count"
  /\ \E count \in Counts :
       /\ registry' = [registry EXCEPT !.count = count]
       /\ sentinel' = [sentinel EXCEPT !.count = count, !.pc = Asked]
  /\ UNCHANGED <<package, ai, admin>>

\* The rest of score once it is known whether the similar name counts.
Settle(corroborated) ==
  \/ /\ sentinel.status = "undetermined"
     /\ Conclude(15, {"registry_lookup_undetermined"} \cup NameFlags(corroborated))
  \/ /\ sentinel.status = "absent"
     /\ Conclude(IF corroborated THEN 100 ELSE 85,
                 {"package_not_found"} \cup NameFlags(corroborated))
  \/ /\ sentinel.status = "exists" /\ corroborated
     /\ Conclude(100, NameFlags(TRUE))
  \/ /\ sentinel.status = "exists" /\ ~corroborated /\ ~ai
     /\ Conclude(BasicScore(sentinel.count), NameFlags(FALSE))
  \/ /\ sentinel.status = "exists" /\ ~corroborated /\ ai
     /\ sentinel' = [sentinel EXCEPT !.pc = "document", !.again = TRUE]

Judge ==
  /\ sentinel.pc = "judge"
  /\ IF sentinel.status = "exists" /\ package.placeholder
       THEN Conclude(95, {"npm_security_placeholder_version"})
     ELSE IF Hits # {} /\ admin.corroborate THEN Goto("target")
     ELSE Settle(Hits # {})
  /\ UNCHANGED packageVars

\* Mutant: a target that cannot be looked up clears the candidate.
Corroborated_FailsOpen(found, target) ==
  found /\ Disparity(IF sentinel.status = "exists" THEN sentinel.count ELSE 0,
                     IF sentinel.status = "exists" THEN package.age ELSE NoValue, target)
\* Without the target's document the similarity stands; without its count,
\* which reads 0, only the ages are left.
Corroborated(found, target) ==
  ~found \/ Disparity(IF sentinel.status = "exists" THEN sentinel.count ELSE 0,
                      IF sentinel.status = "exists" THEN package.age ELSE NoValue, target)

Corroborate ==
  /\ sentinel.pc = "target"
  /\ \E found \in BOOLEAN, target \in {Target.downloads, 0} :
       sentinel' = [sentinel EXCEPT !.target = IF found THEN target ELSE NoValue,
                      !.pc = IF Corroborated(found, target) THEN "alike" ELSE "unlike"]
  /\ UNCHANGED packageVars

Resolve ==
  /\ \/ sentinel.pc = "alike" /\ Settle(TRUE)
     \/ sentinel.pc = "unlike" /\ Settle(FALSE)
  /\ UNCHANGED packageVars

\* The advisory database may be down too: then there are no advisories.
CheckOSV ==
  /\ sentinel.pc = "osv"
  /\ \E found \in {package.advisories, "none"} :
       Conclude(CASE found = "malware"    -> 100
                  [] found = "vulnerable" -> Cap(HallucinationRisk.score + 20)
                  [] OTHER                -> HallucinationRisk.score,
                NameFlags(FALSE) \cup HallucinationRisk.flags)
  /\ UNCHANGED packageVars

SentinelNext ==
  KnownIncident \/ AskDocument \/ AskCount \/ Judge \/ Corroborate \/ Resolve \/ CheckOSV
=============================================================================
