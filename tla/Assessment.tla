------------------------------ MODULE Assessment ------------------------------
(***************************************************************************)
(* What POST /scan does of a request that no list and no cache settles:    *)
(* the three pillars at once (asyncio.gather), each with its own lookups   *)
(* over the one registry client, then the aggregator                       *)
(* (src/daemon/pillars/aggregator.py).  ScanDaemon takes the outcome for   *)
(* any assessment; here is where it comes from.                            *)
(***************************************************************************)
EXTENDS Sentinel, Shield

CONSTANTS
  Worlds,          \* [package, ai, admin, release, project]
  Similarities,    \* what cosine_similarity may be, in hundredths
  WarnThreshold, BlockThreshold,
  ContextWeight, SentinelWeight, ShieldWeight   \* settings, in thousandths

ASSUME WorldsAssumption ==
  /\ Worlds \subseteq [package : Packages, ai : BOOLEAN, admin : Admins, release : Releases,
                       project : [path : BOOLEAN, domains : Nat, weight : Int]]
  /\ \A w \in Worlds : \A i \in DOMAIN w.release.timeline :
       IsFiniteSet(w.release.timeline[i].imports)

ASSUME SettingsAssumption ==
  /\ Similarities \subseteq -100..100
  /\ WarnThreshold \in 1..100 /\ BlockThreshold \in 1..100
  /\ {ContextWeight, SentinelWeight, ShieldWeight} \subseteq Nat

VARIABLES
  project,     \* [path, domains, weight]: its policy's contextify_weight or NoValue
  contextify,  \* the locals of Contextify.score
  verdict      \* [score, decision], the score in hundredths of a point

vars == <<packageVars, sentinel, release, shield, project, contextify, verdict>>

Pending == [score |-> 0, decision |-> "none"]

Init ==
  /\ \E w \in Worlds :
       /\ package = w.package /\ ai = w.ai /\ admin = w.admin
       /\ release = w.release /\ project = w.project
  /\ PackageInit /\ SentinelInit /\ ShieldInit
  /\ contextify = [pc |-> "start", score |-> 0, similarity |-> NoValue, flags |-> {}]
  /\ verdict = Pending

-----------------------------------------------------------------------------
(* Contextify (src/daemon/pillars/contextify.py). *)

Fit(similarity) ==
  CASE similarity >= 65 -> [score |-> 0, flags |-> {}]
    [] similarity >= 35 /\ similarity < 65 -> [score |-> 10, flags |-> {}]
    [] similarity < 35 /\ project.domains > 10 ->
         [score |-> 25, flags |-> {"unfamiliar_in_mature_project"}]
    [] similarity < 35 /\ project.domains <= 10 -> [score |-> 15, flags |-> {}]

\* No project, or one that imports nothing, is no reason for suspicion.
LoadFingerprint ==
  /\ contextify.pc = "start"
  /\ contextify' = IF project.path /\ project.domains > 0
                     THEN [contextify EXCEPT !.pc = "embed"]
                     ELSE [contextify EXCEPT !.pc = "done", !.score = 5]
  /\ UNCHANGED <<packageVars, sentinel, release, shield, project, verdict>>

\* The description if it can be had, the bare name otherwise: either may be
\* anywhere in the space of the embedding.
CompareDescription ==
  /\ contextify.pc = "embed"
  /\ \E answer \in Answers, s \in Similarities :
       /\ Remember(answer)
       /\ contextify' = [pc |-> "done", score |-> Fit(s).score, similarity |-> s,
                         flags |-> Fit(s).flags]
  /\ UNCHANGED <<package, ai, admin, sentinel, release, shield, project, verdict>>

-----------------------------------------------------------------------------
(* The aggregator. *)

\* _resolved_weights: a policy's weight for Contextify is clamped to a half,
\* and what is left is shared as the settings share it.
Weights ==
  LET w == Least(500, IF project.weight < 0 THEN 0 ELSE project.weight)
      shared == SentinelWeight + ShieldWeight
  IN  IF project.weight = NoValue
        THEN [context |-> ContextWeight, sentinel |-> SentinelWeight, shield |-> ShieldWeight]
      ELSE IF shared = 0
        THEN [context |-> w, sentinel |-> (1000 - w) \div 2, shield |-> (1000 - w) \div 2]
      ELSE [context  |-> w,
            sentinel |-> ((1000 - w) * SentinelWeight) \div shared,
            shield   |-> ((1000 - w) * ShieldWeight) \div shared]

\* A score in thousandths of thousandths, rounded to hundredths of a point.
Rounded(n) == (n + 5000) \div 10000

FullVerdict == 100 * 100

\* _stage2_score, in hundredths of a point.
WeightedScore ==
  LET sum == 1000 * (Weights.context * contextify.score + Weights.sentinel * sentinel.score)
               + Weights.shield * shield.score
      alien == contextify.similarity # NoValue /\ contextify.similarity < 5
      rounded == Rounded(Least(100 * 1000000, sum + IF alien THEN 20 * 1000000 ELSE 0))
      dropper == "base64_decode" \in shield.flags
                   /\ "unfamiliar_in_mature_project" \in contextify.flags
  IN  Least(FullVerdict, rounded + IF dropper THEN 1500 ELSE 0)

\* The two kinds of flags that force a verdict, and the least score they leave.
BlockFlags == {"package_not_found", "known_supply_chain_incident",
               "npm_security_placeholder_version"}

\* Mutant: the gates of the warn level come first.
Floor_WarnFirst ==
  IF "typosquat_detected" \in sentinel.flags THEN 100 * WarnThreshold
  ELSE IF sentinel.flags \cap BlockFlags # {} THEN 100 * BlockThreshold
  ELSE IF "requested_version_unresolved" \in shield.flags THEN 100 * WarnThreshold
  ELSE 0
\* _stage1_gates: the first gate that fires; no gate is a floor of nothing.
Floor ==
  IF sentinel.flags \cap BlockFlags # {} THEN 100 * BlockThreshold
  ELSE IF "typosquat_detected" \in sentinel.flags THEN 100 * WarnThreshold
  ELSE IF "requested_version_unresolved" \in shield.flags THEN 100 * WarnThreshold
  ELSE 0

GetDecision(score) ==
  IF score >= 100 * BlockThreshold THEN "BLOCK"
  ELSE IF score >= 100 * WarnThreshold THEN "WARN" ELSE "ALLOW"

\* Mutant: the caps are forgotten where the modifiers are added.
Aggregated_Sum(m, n) == m + n
Aggregated(m, n) == IF m < n THEN n ELSE m

Aggregate ==
  /\ sentinel.pc = "done" /\ shield.pc = "done" /\ contextify.pc = "done"
  /\ verdict = Pending
  /\ LET score == Aggregated(WeightedScore, Floor)
     IN  verdict' = [score |-> score, decision |-> GetDecision(score)]
  /\ UNCHANGED <<packageVars, sentinel, release, shield, project, contextify>>

Next ==
  \/ SentinelNext /\ UNCHANGED <<release, shield, project, contextify, verdict>>
  \/ ShieldNext /\ UNCHANGED <<sentinel, project, contextify, verdict>>
  \/ LoadFingerprint \/ CompareDescription \/ Aggregate
  \/ Expire /\ UNCHANGED <<sentinel, release, shield, project, contextify, verdict>>

Spec == Init /\ [][Next]_vars

-----------------------------------------------------------------------------
Scanning   == {"start", "document", "count", "judge", "target", "alike", "unlike", "osv", "done"}
Inspecting == {"start", "files", "llm", "previous", "gated", "diff", "done"}
Counted    == {NoValue, 0, package.downloads}

TypeOK ==
  /\ registry \in [document : BOOLEAN, count : Counted]
  /\ registry.document => package.listed
  /\ sentinel \in [pc : Scanning, again : BOOLEAN, status : Statuses, count : Counted,
                   target : {NoValue, 0, Target.downloads}, score : 0..100,
                   flags : SUBSET SentinelFlags]
  /\ shield \in [pc : Inspecting, scanned : BOOLEAN, llm : NoValue..100,
                 previous : 0..Len(release.timeline), diffed : BOOLEAN, score : 0..Full,
                 flags : SUBSET ShieldFlags]
  /\ contextify \in [pc : {"start", "embed", "done"}, score : 0..25,
                     similarity : Similarities \cup {NoValue},
                     flags : SUBSET {"unfamiliar_in_mature_project"}]
  /\ verdict \in [score : 0..FullVerdict, decision : {"none", "ALLOW", "WARN", "BLOCK"}]

(* Sentinel's comment on an unanswered lookup: it "must NOT set             *)
(* package_not_found, or a transient outage would force-block real, popular *)
(* packages".  Here of whatever a human asked for: a package the registry   *)
(* has is never reported absent, at whichever lookup the registry goes away.*)
OutageIsNotAbsence ==
  package.listed /\ "package_not_found" \in sentinel.flags => ai /\ sentinel.again

(* The same of every package: the second lookup made for an AI suggestion   *)
(* takes no answer for an absence.                                          *)
OutageNeverBlocks ==
  package.listed => "package_not_found" \notin sentinel.flags

(* A name that is close to a popular one, of a package that does not have   *)
(* the downloads for it, is never waved through, whichever of the lookups   *)
(* fail on the way.  The one exception is the target's download count:      *)
(* when it fails it reads 0, and no package falls short of that.            *)
SquatsNotAllowed ==
  verdict.decision = "ALLOW" /\ Hits # {} /\ sentinel.target # 0 =>
    /\ package.listed
    /\ ~ Disparity(package.downloads, package.age, Target.downloads)

(* What is known to be bad is stopped, for every project, weight and policy *)
(* and whatever else fires with it: a known incident, a package the         *)
(* registry says it does not have and a security placeholder are blocked,   *)
(* and a version that could not be looked at is never allowed.  The flags   *)
(* travel through the gates' early returns, which must never answer for a   *)
(* stronger gate.                                                           *)
KnownBadIsStopped ==
  verdict # Pending =>
    /\ \/ package.known
       \/ sentinel.status = "absent"
       \/ package.placeholder /\ sentinel.status = "exists"
      => verdict.decision = "BLOCK"
    /\ "requested_version_unresolved" \in shield.flags => verdict.decision # "ALLOW"

(* Shield may skip the comparison with the version before only when there   *)
(* is nothing to see in it: the same manifest and, unless the administrator *)
(* turned the check off, no build file that came or went, however many      *)
(* listings could not be read.  And the version before is the latest that   *)
(* survives: a run of purged ones hides no change.                          *)
SkipsAreSafe ==
  shield.pc = "done" /\ shield.previous # 0 =>
    /\ \A i \in Resolvable : i <= shield.previous \/ i >= Current
    /\ ~shield.diffed =>
         /\ Of(Current).manifest = Of(shield.previous).manifest
         /\ admin.shield_native_trigger_check =>
              Of(Current).gyp = Of(shield.previous).gyp
=============================================================================
