-------------------------- MODULE AssessmentProofs --------------------------
(***************************************************************************)
(* The safety of an assessment, for any package and release, any settings, *)
(* weights, thresholds and policy, and whatever lookup goes unanswered.    *)
(***************************************************************************)
EXTENDS Assessment, WellFoundedInduction, FiniteSetTheorems, TLAPS

USE DEF NoValue

-----------------------------------------------------------------------------
(* The parts of TypeOK, and the world, which never changes. *)

WorldTyped ==
  /\ package \in Packages /\ ai \in BOOLEAN /\ admin \in Admins /\ release \in Releases
  /\ project \in [path : BOOLEAN, domains : Nat, weight : Int]
  /\ \A i \in DOMAIN release.timeline : IsFiniteSet(release.timeline[i].imports)

RegistryTyped ==
  /\ registry \in [document : BOOLEAN, count : Counted]
  /\ registry.document => package.listed

SentinelTyped ==
  sentinel \in [pc : Scanning, again : BOOLEAN, status : Statuses, count : Counted,
                target : {NoValue, 0, Target.downloads}, score : 0..100,
                flags : SUBSET SentinelFlags]

Confidences == NoValue..100
Positions   == 0..Len(release.timeline)
Scores      == 0..Full
ShieldLocals ==
  [pc : Inspecting, scanned : BOOLEAN, llm : Confidences, previous : Positions,
   diffed : BOOLEAN, score : Scores, flags : SUBSET ShieldFlags]

ShieldTyped == shield \in ShieldLocals

Misfits == 0..25
ContextifyTyped ==
  contextify \in [pc : {"start", "embed", "done"}, score : Misfits,
                  similarity : Similarities \cup {NoValue},
                  flags : SUBSET {"unfamiliar_in_mature_project"}]

VerdictTyped == verdict \in [score : 0..FullVerdict, decision : {"none", "ALLOW", "WARN", "BLOCK"}]

LEMMA TypeParts ==
  TypeOK <=> RegistryTyped /\ SentinelTyped /\ ShieldTyped /\ ContextifyTyped /\ VerdictTyped
  BY DEF TypeOK, RegistryTyped, SentinelTyped, ShieldTyped, ShieldLocals, Confidences, Positions,
     Scores, ContextifyTyped, Misfits, VerdictTyped

(* What Sentinel has found out is so, and each place is reached one way.   *)
Found ==
  /\ sentinel.status = "exists" => package.listed
  /\ sentinel.status = "absent" => ~package.listed
  /\ sentinel.status = "exists" /\ sentinel.pc # "count" =>
       sentinel.count \in {0, package.downloads}

Placed ==
  /\ sentinel.pc = "start" => sentinel.status = "undetermined"
  /\ sentinel.pc = "count" => sentinel.status = "exists"
  /\ sentinel.pc = "osv" => sentinel.again
  /\ sentinel.pc \in {"start", "judge", "target", "alike", "unlike"} => ~sentinel.again
  /\ sentinel.pc # "done" => sentinel.flags = {}
  /\ sentinel.pc \notin {"start", "done"} => ~package.known
  /\ sentinel.again => ai /\ ~package.placeholder
  /\ sentinel.pc \in {"target", "alike", "unlike"} =>
       Hits # {} /\ ~ (package.placeholder /\ sentinel.status = "exists")

(* The name is not close to a popular one, or the package can bear it, or  *)
(* the target's count was lost.                                            *)
Cleared ==
  Hits # {} /\ sentinel.target # 0 =>
    package.listed /\ ~ Disparity(package.downloads, package.age, Target.downloads)

Unlike ==
  /\ sentinel.target # NoValue
  /\ ~ Disparity(IF sentinel.status = "exists" THEN sentinel.count ELSE 0,
                 IF sentinel.status = "exists" THEN package.age ELSE NoValue, sentinel.target)

Judged ==
  /\ sentinel.pc = "unlike" => Unlike
  /\ sentinel.again => Cleared
  /\ sentinel.pc = "done" =>
       Cleared \/ sentinel.flags \cap (BlockFlags \cup {"typosquat_detected"}) # {}

(* Whatever forces a verdict is flagged at the end. *)
Forcing ==
  \/ package.known \/ sentinel.status = "absent"
  \/ package.placeholder /\ sentinel.status = "exists"
USE DEF Forcing

Flagged ==
  sentinel.pc = "done" /\ Forcing => sentinel.flags \cap BlockFlags # {}

SentinelInv == Found /\ Placed /\ Judged /\ Flagged /\ OutageIsNotAbsence

(* The version Shield compares with is the last survivor before the one    *)
(* it looks at.                                                            *)
Nearest ==
  shield.previous # 0 =>
    /\ Current \in Resolvable /\ shield.previous \in Resolvable
    /\ \A i \in Resolvable : i <= shield.previous \/ i >= Current

Compared ==
  /\ shield.pc \in {"start", "files", "llm", "previous"} => shield.previous = 0
  /\ shield.pc \in {"gated", "diff"} => shield.previous # 0
  /\ shield.pc = "gated" => Of(Current).manifest = Of(shield.previous).manifest

ShieldInv == Nearest /\ Compared /\ SkipsAreSafe

(* A verdict is the last step, and the least the gates allow. *)
Decided ==
  verdict # Pending =>
    /\ sentinel.pc = "done" /\ shield.pc = "done" /\ contextify.pc = "done"
    /\ verdict.decision = GetDecision(verdict.score)
    /\ verdict.score >= Floor

IInv == WorldTyped /\ TypeOK /\ SentinelInv /\ ShieldInv /\ Decided

-----------------------------------------------------------------------------
(* Lookups. *)

(* An answer is the truth or none. *)
LEMMA AnswersTrue ==
  ASSUME WorldTyped, RegistryTyped, NEW answer \in Answers
  PROVE  /\ answer \in Statuses
         /\ answer = "exists" => package.listed
         /\ answer = "absent" => ~package.listed
  BY DEF WorldTyped, RegistryTyped, Answers, Statuses, Packages

(* What the client remembers of it is true. *)
LEMMA RememberKeeps ==
  ASSUME WorldTyped, RegistryTyped, NEW answer \in Answers, Remember(answer),
         UNCHANGED package
  PROVE  RegistryTyped' /\ registry'.count = registry.count
  BY AnswersTrue DEF WorldTyped, RegistryTyped, Remember, Packages, Counted

LEMMA Inside ==
  ASSUME NEW n \in Nat, NEW S \in SUBSET (1..n), NEW i \in S
  PROVE  n - i \in Nat /\ n - i <= n /\ n - (n - i) \in S
<1>1. i \in 1..n
  OBVIOUS
<1>2. n - (n - i) = i
  BY <1>1
<1> QED BY <1>1, <1>2

(* Every non-empty set of versions has a newest one. *)
LEMMA NewestIsGreatest ==
  ASSUME NEW n \in Nat, NEW S \in SUBSET (1..n), S # {}
  PROVE  Newest(S) \in S /\ \A i \in S : i <= Newest(S)
<1> DEFINE T == {m \in Nat : m <= n /\ n - m \in S}
           R == {ss \in Nat \X Nat : ss[1] < ss[2]}
<1>1. T \subseteq Nat /\ T # {}
  <2>1. PICK i \in S : TRUE
    OBVIOUS
  <2>2. n - i \in Nat /\ n - i <= n /\ n - (n - i) \in S
    BY <2>1, Inside
  <2>3. n - i \in T
    BY <2>2
  <2> QED BY <2>3
<1>2. PICK m \in T : \A k \in T : ~ (<<k, m>> \in R)
  <2>1. IsWellFoundedOn(OpToRel(<, Nat), Nat)
    BY NatLessThanWellFounded
  <2>2. OpToRel(<, Nat) = R
    BY DEF OpToRel
  <2>3. IsWellFoundedOn(R, Nat)
    BY <2>1, <2>2
  <2> HIDE DEF T, R
  <2> QED BY <1>1, <2>3, WFMin
<1>3. ASSUME NEW k \in T PROVE m <= k
  <2> HIDE DEF T
  <2>1. k \in Nat /\ m \in Nat
    BY <1>1, <1>2
  <2>2. ~ (<<k, m>> \in R)
    BY <1>2
  <2> QED BY <2>1, <2>2
<1>4. \A j \in S : j <= n - m
  <2> TAKE j \in S
  <2>1. n - j \in T
    <3>1. n - j \in Nat /\ n - j <= n /\ n - (n - j) \in S
      BY Inside
    <3> QED BY <3>1
  <2>2. m <= n - j
    BY <1>3, <2>1
  <2>3. m \in Nat /\ j \in Int
    BY <1>2
  <2> QED BY <2>2, <2>3
<1>5. n - m \in S
  BY <1>2
<1> QED BY <1>4, <1>5 DEF Newest
-----------------------------------------------------------------------------
(* Sentinel. *)

LEMMA ScoreBounds ==
  ASSUME WorldTyped, NEW count \in Nat \cup {NoValue}
  PROVE  BasicScore(count) \in 0..30
  BY DEF WorldTyped, Packages, BasicScore

LEMMA RiskBounds ==
  ASSUME WorldTyped, SentinelTyped
  PROVE  /\ HallucinationRisk.score \in 0..100
         /\ HallucinationRisk.flags \subseteq SentinelFlags
         /\ sentinel.status # "exists" => "package_not_found" \in HallucinationRisk.flags
<1>1. sentinel.count \in Nat \cup {NoValue}
  BY DEF WorldTyped, SentinelTyped, Counted, Packages
<1>2. BasicScore(sentinel.count) \in 0..30
  BY <1>1, ScoreBounds
<1>3. AgeScore \in 0..35
  BY DEF AgeScore, WorldTyped, Packages
<1> QED BY <1>2, <1>3 DEF HallucinationRisk, Cap, SentinelFlags

LEMMA NameFlagsTyped ==
  ASSUME NEW c \in BOOLEAN
  PROVE  /\ NameFlags(c) \in SUBSET SentinelFlags
         /\ "package_not_found" \notin NameFlags(c)
         /\ c /\ Hits # {} => "typosquat_detected" \in NameFlags(c)
  BY DEF NameFlags, SentinelFlags

(* What is common to all steps of a scan's pillars. *)
Before == WorldTyped /\ RegistryTyped /\ SentinelTyped /\ SentinelInv

LEMMA AskDocumentKeeps ==
  ASSUME Before, AskDocument
  PROVE  RegistryTyped' /\ SentinelTyped' /\ SentinelInv'
<1> USE DEF Before
<1>1. PICK answer \in Answers :
        /\ Remember(answer)
        /\ sentinel' = [sentinel EXCEPT !.status = answer,
                                       !.pc = IF answer = "exists" THEN "count" ELSE Asked]
  BY DEF AskDocument, StatusOf
<1>2. UNCHANGED <<package, ai, admin>> /\ sentinel.pc = "document"
  BY DEF AskDocument
<1>3. RegistryTyped'
  BY <1>1, <1>2, RememberKeeps
<1>4. SentinelTyped'
  BY <1>1, <1>2, AnswersTrue DEF SentinelTyped, Scanning, Asked, Counted
<1>5. SentinelInv'
  BY <1>1, <1>2, AnswersTrue DEF SentinelTyped, SentinelInv, Found, Placed, Judged, Cleared,
     Flagged, OutageIsNotAbsence, Asked, Hits, Disparity
<1> QED BY <1>3, <1>4, <1>5

LEMMA AskCountKeeps ==
  ASSUME Before, AskCount
  PROVE  RegistryTyped' /\ SentinelTyped' /\ SentinelInv'
<1> USE DEF Before
<1>1. PICK count \in Counts :
        /\ registry' = [registry EXCEPT !.count = count]
        /\ sentinel' = [sentinel EXCEPT !.count = count, !.pc = Asked]
  BY DEF AskCount
<1>2. UNCHANGED <<package, ai, admin>> /\ sentinel.pc = "count"
  BY DEF AskCount
<1>3. count \in {0, package.downloads}
  BY DEF Counts, RegistryTyped, Counted
<1>4. RegistryTyped'
  BY <1>1, <1>2, <1>3 DEF RegistryTyped, Counted
<1>5. SentinelTyped'
  BY <1>1, <1>2, <1>3 DEF SentinelTyped, Scanning, Asked, Counted
<1>6. SentinelInv'
  BY <1>1, <1>2, <1>3 DEF SentinelTyped, SentinelInv, Found, Placed, Judged, Cleared,
     Flagged, OutageIsNotAbsence, Asked, Hits, Disparity
<1> QED BY <1>4, <1>5, <1>6

(* How a conclusion changes the locals. *)
LEMMA ConclusionKeeps ==
  ASSUME Before, UNCHANGED <<package, ai, admin>>, NEW score \in 0..100,
         NEW flags \in SUBSET SentinelFlags, Conclude(score, flags),
         sentinel.status = "exists" => sentinel.count \in {0, package.downloads},
         Cleared \/ flags \cap (BlockFlags \cup {"typosquat_detected"}) # {},
         Forcing => flags \cap BlockFlags # {},
         package.listed /\ "package_not_found" \in flags => ai /\ sentinel.again
  PROVE  SentinelTyped' /\ SentinelInv'
<1> USE DEF Before, Conclude
<1>1. sentinel' = [sentinel EXCEPT !.pc = "done", !.score = score, !.flags = flags]
  OBVIOUS
<1>2. SentinelTyped'
  BY <1>1 DEF SentinelTyped, Scanning, Counted
<1>3. Cleared' = Cleared
  BY <1>1 DEF Cleared, Hits, Disparity, SentinelTyped
<1>4. /\ sentinel'.pc = "done" /\ sentinel'.flags = flags /\ sentinel'.status = sentinel.status
      /\ sentinel'.again = sentinel.again /\ sentinel'.count = sentinel.count
  BY <1>1 DEF SentinelTyped
<1>5. Found' /\ Placed'
  BY <1>4 DEF SentinelInv, Found, Placed
<1>6. Judged'
  BY <1>3, <1>4 DEF SentinelInv, Judged, BlockFlags
<1>7. Flagged' /\ OutageIsNotAbsence'
  BY <1>4 DEF Flagged, OutageIsNotAbsence, BlockFlags
<1> QED BY <1>2, <1>5, <1>6, <1>7 DEF SentinelInv

LEMMA KnownIncidentKeeps ==
  ASSUME Before, KnownIncident
  PROVE  SentinelTyped' /\ SentinelInv'
<1> USE DEF Before
<1>1. /\ UNCHANGED <<package, ai, admin>> /\ sentinel.pc = "start"
      /\ ~sentinel.again /\ sentinel.status = "undetermined"
  BY DEF KnownIncident, packageVars, SentinelInv, Placed
<1>2. CASE package.known
  <2>1. Conclude(95, {"known_supply_chain_incident"})
    BY <1>2 DEF KnownIncident
  <2> QED BY <1>1, <2>1, ConclusionKeeps DEF SentinelFlags, BlockFlags
<1>3. CASE ~package.known
  <2>1. Goto("document")
    BY <1>3 DEF KnownIncident
  <2>2. SentinelTyped'
    BY <1>1, <2>1 DEF Goto, SentinelTyped, Scanning, Counted
  <2>3. /\ sentinel'.pc = "document" /\ sentinel'.again = sentinel.again
        /\ sentinel'.status = sentinel.status /\ sentinel'.flags = sentinel.flags
    BY <2>1 DEF Goto, SentinelTyped
  <2>4. SentinelInv'
    BY <1>1, <1>3, <2>3 DEF SentinelInv, Found, Placed, Judged, Flagged, OutageIsNotAbsence
  <2> QED BY <2>2, <2>4
<1> QED BY <1>2, <1>3

(* Settling is sound when similarity that does not count has been cleared. *)
LEMMA SettleKeeps ==
  ASSUME Before, UNCHANGED <<package, ai, admin>>, NEW corroborated \in BOOLEAN,
         Settle(corroborated), ~package.known, ~sentinel.again,
         sentinel.pc \in {"judge", "alike", "unlike"},
         ~ (package.placeholder /\ sentinel.status = "exists"),
         corroborated => Hits # {},
         ~corroborated /\ sentinel.status = "exists" => Cleared,
         ~corroborated /\ sentinel.status = "undetermined" => Cleared
  PROVE  SentinelTyped' /\ SentinelInv'
<1> USE DEF Before
<1>1. sentinel.status = "exists" => sentinel.count \in {0, package.downloads}
  BY DEF SentinelInv, Found
<1>2. /\ NameFlags(corroborated) \in SUBSET SentinelFlags
      /\ "package_not_found" \notin NameFlags(corroborated)
      /\ corroborated => "typosquat_detected" \in NameFlags(corroborated)
  BY NameFlagsTyped
<1>3. CASE /\ sentinel.status = "undetermined"
           /\ Conclude(15, {"registry_lookup_undetermined"} \cup NameFlags(corroborated))
  <2> DEFINE flags == {"registry_lookup_undetermined"} \cup NameFlags(corroborated)
  <2>1. flags \in SUBSET SentinelFlags /\ "package_not_found" \notin flags
    BY <1>2 DEF SentinelFlags
  <2>2. Cleared \/ flags \cap (BlockFlags \cup {"typosquat_detected"}) # {}
    BY <1>2, <1>3
  <2> HIDE DEF flags
  <2> QED BY <1>1, <1>3, <2>1, <2>2, ConclusionKeeps DEF flags
<1>4. CASE /\ sentinel.status = "absent"
           /\ Conclude(IF corroborated THEN 100 ELSE 85,
                       {"package_not_found"} \cup NameFlags(corroborated))
  <2> DEFINE flags == {"package_not_found"} \cup NameFlags(corroborated)
             score == IF corroborated THEN 100 ELSE 85
  <2>1. flags \in SUBSET SentinelFlags /\ score \in 0..100
    BY <1>2 DEF SentinelFlags
  <2>2. flags \cap BlockFlags # {}
    BY DEF BlockFlags
  <2>3. ~package.listed
    BY <1>4 DEF SentinelInv, Found
  <2>4. Conclude(score, flags)
    BY <1>4
  <2> HIDE DEF flags, score
  <2> QED BY <1>1, <1>4, <2>1, <2>2, <2>3, <2>4, ConclusionKeeps
<1>5. CASE sentinel.status = "exists" /\ corroborated /\ Conclude(100, NameFlags(TRUE))
  <2>1. /\ NameFlags(TRUE) \in SUBSET SentinelFlags
        /\ "package_not_found" \notin NameFlags(TRUE)
        /\ NameFlags(TRUE) \cap (BlockFlags \cup {"typosquat_detected"}) # {}
    BY <1>5, NameFlagsTyped
  <2> DEFINE flags == NameFlags(TRUE)
  <2>2. Conclude(100, flags)
    BY <1>5
  <2>3. flags \in SUBSET SentinelFlags /\ "package_not_found" \notin flags
    BY <2>1
  <2>4. flags \cap (BlockFlags \cup {"typosquat_detected"}) # {}
    BY <2>1
  <2>5. sentinel.status # "absent"
    BY <1>5
  <2> HIDE DEF flags
  <2> QED BY <1>1, <2>2, <2>3, <2>4, <2>5, ConclusionKeeps
<1>6. CASE /\ sentinel.status = "exists" /\ ~corroborated
           /\ Conclude(BasicScore(sentinel.count), NameFlags(FALSE))
  <2>1. BasicScore(sentinel.count) \in 0..100
    BY ScoreBounds DEF WorldTyped, SentinelTyped, Counted, Packages
  <2> QED BY <1>1, <1>2, <1>6, <2>1, ConclusionKeeps
<1>7. CASE /\ sentinel.status = "exists" /\ ~corroborated /\ ai
           /\ sentinel' = [sentinel EXCEPT !.pc = "document", !.again = TRUE]
  <2>1. SentinelTyped'
    BY <1>7 DEF SentinelTyped, Scanning, Counted
  <2>2. Cleared' /\ sentinel'.pc = "document" /\ sentinel'.again /\ sentinel'.flags = {}
    BY <1>7 DEF Cleared, Hits, Disparity, SentinelTyped, SentinelInv, Placed
  <2>3. sentinel'.status = "exists" /\ sentinel'.count = sentinel.count
    BY <1>7 DEF SentinelTyped
  <2>4. SentinelInv'
    BY <1>7, <2>2, <2>3 DEF SentinelInv, Found, Placed, Judged, Flagged, OutageIsNotAbsence
  <2> QED BY <2>1, <2>4
<1> QED BY <1>3, <1>4, <1>5, <1>6, <1>7 DEF Settle

LEMMA JudgeKeeps ==
  ASSUME Before, Judge
  PROVE  SentinelTyped' /\ SentinelInv'
<1> USE DEF Before
<1>1. /\ UNCHANGED <<package, ai, admin>> /\ sentinel.pc = "judge"
      /\ ~package.known /\ ~sentinel.again
  BY DEF Judge, packageVars, SentinelInv, Placed
<1>2. CASE sentinel.status = "exists" /\ package.placeholder
  <2>1. Conclude(95, {"npm_security_placeholder_version"})
    BY <1>2 DEF Judge
  <2>2. sentinel.count \in {0, package.downloads}
    BY <1>1, <1>2 DEF SentinelInv, Found
  <2> QED BY <1>1, <1>2, <2>1, <2>2, ConclusionKeeps DEF SentinelFlags, BlockFlags
<1>3. CASE /\ ~ (sentinel.status = "exists" /\ package.placeholder)
           /\ Hits # {} /\ admin.corroborate
  <2>1. Goto("target")
    BY <1>3 DEF Judge
  <2>2. SentinelTyped'
    BY <1>1, <2>1 DEF Goto, SentinelTyped, Scanning, Counted
  <2>3. SentinelInv'
    BY <1>1, <1>3, <2>1 DEF Goto, SentinelTyped, SentinelInv, Found, Placed, Judged, Flagged,
       OutageIsNotAbsence, Hits
  <2> QED BY <2>2, <2>3
<1>4. CASE /\ ~ (sentinel.status = "exists" /\ package.placeholder)
           /\ ~ (Hits # {} /\ admin.corroborate)
  <2>1. Settle(Hits # {})
    BY <1>4 DEF Judge
  <2>2. Hits = {} => Cleared
    BY DEF Cleared
  <2> QED BY <1>1, <1>4, <2>1, <2>2, SettleKeeps
<1> QED BY <1>2, <1>3, <1>4

LEMMA CorroborateKeeps ==
  ASSUME Before, Corroborate
  PROVE  SentinelTyped' /\ SentinelInv'
<1> USE DEF Before
<1>1. PICK found \in BOOLEAN, target \in {Target.downloads, 0} :
        sentinel' = [sentinel EXCEPT !.target = IF found THEN target ELSE NoValue,
                       !.pc = IF Corroborated(found, target) THEN "alike" ELSE "unlike"]
  BY DEF Corroborate
<1>2. UNCHANGED <<package, ai, admin>> /\ sentinel.pc = "target"
  BY DEF Corroborate, packageVars
<1>3. SentinelTyped'
  BY <1>1, <1>2 DEF SentinelTyped, Scanning, Counted
<1>4. /\ sentinel'.pc \in {"alike", "unlike"} /\ sentinel'.again = sentinel.again
      /\ sentinel'.status = sentinel.status /\ sentinel'.count = sentinel.count
      /\ sentinel'.flags = sentinel.flags /\ Hits' = Hits
  BY <1>1, <1>2 DEF SentinelTyped, Hits
<1>5. sentinel'.pc = "unlike" => Unlike'
  <2>1. sentinel'.pc = "unlike" => found /\ sentinel'.target = target
    BY <1>1 DEF SentinelTyped, Corroborated
  <2>2. sentinel'.pc = "unlike" => ~Corroborated(found, target)
    BY <1>1 DEF SentinelTyped
  <2>3. target # NoValue
    BY TargetAssumption
  <2> QED BY <1>2, <1>4, <2>1, <2>2, <2>3 DEF Unlike, Corroborated, Disparity
<1>6. SentinelInv'
  BY <1>2, <1>4, <1>5 DEF SentinelInv, Found, Placed, Judged, Flagged, OutageIsNotAbsence
<1> QED BY <1>3, <1>6

(* Against a target whose downloads are known, the candidate's count is    *)
(* its own, or the disparity is there.                                     *)
LEMMA UnlikeCleared ==
  ASSUME Before, Unlike, sentinel.pc = "unlike", sentinel.status # "absent"
  PROVE  Cleared
<1> SUFFICES ASSUME sentinel.target # 0
             PROVE  package.listed /\ ~ Disparity(package.downloads, package.age, Target.downloads)
  BY DEF Cleared
<1>1. sentinel.target = Target.downloads /\ Target.downloads \in Nat \ {0}
  BY TargetAssumption DEF Before, SentinelTyped, Unlike
<1>2. sentinel.status = "exists"
  <2> SUFFICES ASSUME sentinel.status # "exists" PROVE FALSE
    OBVIOUS
  <2>1. ~ Disparity(0, NoValue, Target.downloads)
    BY <1>1 DEF Unlike
  <2> QED BY <1>1, <2>1 DEF Disparity
<1>3. sentinel.count \in {0, package.downloads} /\ package.listed
  BY <1>2 DEF Before, SentinelInv, Found
<1>4. ~ Disparity(sentinel.count, package.age, Target.downloads)
  BY <1>1, <1>2 DEF Unlike
<1>5. sentinel.count # 0
  BY <1>1, <1>4 DEF Disparity
<1> QED BY <1>3, <1>4, <1>5

LEMMA ResolveKeeps ==
  ASSUME Before, Resolve
  PROVE  SentinelTyped' /\ SentinelInv'
<1>1. /\ UNCHANGED <<package, ai, admin>> /\ sentinel.pc \in {"alike", "unlike"}
      /\ ~package.known /\ ~sentinel.again /\ Hits # {}
      /\ ~ (package.placeholder /\ sentinel.status = "exists")
  BY DEF Before, Resolve, packageVars, SentinelInv, Placed
<1>2. CASE sentinel.pc = "alike" /\ Settle(TRUE)
  BY <1>1, <1>2, SettleKeeps
<1>3. CASE sentinel.pc = "unlike" /\ Settle(FALSE)
  <2>1. sentinel.status # "absent" => Cleared
    BY <1>3, UnlikeCleared DEF Before, SentinelInv, Judged
  <2> QED BY <1>1, <1>3, <2>1, SettleKeeps
<1> QED BY <1>2, <1>3 DEF Resolve

LEMMA CheckOSVKeeps ==
  ASSUME Before, CheckOSV
  PROVE  SentinelTyped' /\ SentinelInv'
<1> USE DEF Before
<1>1. PICK found \in {package.advisories, "none"} :
        Conclude(CASE found = "malware"    -> 100
                   [] found = "vulnerable" -> Cap(HallucinationRisk.score + 20)
                   [] OTHER                -> HallucinationRisk.score,
                 NameFlags(FALSE) \cup HallucinationRisk.flags)
  BY DEF CheckOSV
<1> DEFINE score == CASE found = "malware"    -> 100
                      [] found = "vulnerable" -> Cap(HallucinationRisk.score + 20)
                      [] OTHER                -> HallucinationRisk.score
           flags == NameFlags(FALSE) \cup HallucinationRisk.flags
<1>2. /\ UNCHANGED <<package, ai, admin>> /\ sentinel.pc = "osv"
      /\ sentinel.again /\ ai /\ ~package.placeholder /\ ~package.known /\ Cleared
  BY DEF CheckOSV, packageVars, SentinelInv, Placed, Judged
<1>3. HallucinationRisk.score \in 0..100 /\ HallucinationRisk.flags \subseteq SentinelFlags
  BY RiskBounds
<1>4. score \in 0..100
  BY <1>3 DEF Cap
<1>5. flags \in SUBSET SentinelFlags
  BY <1>3, NameFlagsTyped
<1>6. sentinel.status = "absent" => flags \cap BlockFlags # {}
  BY RiskBounds DEF BlockFlags
<1>7. sentinel.status = "exists" => sentinel.count \in {0, package.downloads}
  BY <1>2 DEF SentinelInv, Found
<1>8. Conclude(score, flags)
  BY <1>1
<1> HIDE DEF score, flags
<1> QED BY <1>2, <1>4, <1>5, <1>6, <1>7, <1>8, ConclusionKeeps

(* No step of Sentinel breaks what it relies on. *)
LEMMA SentinelKeeps ==
  ASSUME Before, SentinelNext
  PROVE  RegistryTyped' /\ SentinelTyped' /\ SentinelInv' /\ UNCHANGED <<package, ai, admin>>
<1>1. KnownIncident \/ Judge \/ Corroborate \/ Resolve \/ CheckOSV => RegistryTyped'
  BY DEF Before, RegistryTyped, Counted, KnownIncident, Judge, Corroborate, Resolve, CheckOSV,
     packageVars
<1>2. UNCHANGED <<package, ai, admin>>
  BY DEF SentinelNext, KnownIncident, AskDocument, AskCount, Judge, Corroborate, Resolve,
     CheckOSV, packageVars
<1> QED BY <1>1, <1>2, KnownIncidentKeeps, AskDocumentKeeps, AskCountKeeps, JudgeKeeps,
           CorroborateKeeps, ResolveKeeps, CheckOSVKeeps DEF SentinelNext

-----------------------------------------------------------------------------
(* Shield. *)

LEMMA ReleaseStays ==
  ASSUME UNCHANGED release
  PROVE  Current' = Current /\ Resolvable' = Resolvable /\ \A i : Of(i)' = Of(i)
  BY DEF Current, Resolvable, Newest, Of

LEMMA ReleaseTyped ==
  ASSUME WorldTyped
  PROVE  /\ Len(release.timeline) \in Nat
         /\ Resolvable \subseteq 1..Len(release.timeline)
         /\ \A i \in 1..Len(release.timeline) :
              Of(i) \in Versions /\ IsFiniteSet(Of(i).imports)
  BY DEF WorldTyped, Releases, Resolvable, Of

LEMMA CurrentResolvable ==
  ASSUME WorldTyped
  PROVE  Current = 0 \/ Current \in Resolvable
<1>1. Resolvable # {} => Newest(Resolvable) \in Resolvable
  BY ReleaseTyped, NewestIsGreatest
<1>2. Resolvable = {} => Newest(Resolvable) = 0
  BY DEF Newest
<1> QED BY <1>1, <1>2 DEF Current

(* The predecessor found is the last survivor: those out of the window are *)
(* older than any in it.                                                   *)
LEMMA PreviousNearest ==
  ASSUME WorldTyped, Current # 0, PreviousVersion # 0
  PROVE  /\ Current \in Resolvable /\ PreviousVersion \in Resolvable
         /\ \A i \in Resolvable : i <= PreviousVersion \/ i >= Current
<1> DEFINE Window == {i \in Resolvable : i < Current /\ i >= Current - MaxWalkback}
<1>1. Window # {}
  BY DEF PreviousVersion, Newest
<1>2. Window \in SUBSET (1..Len(release.timeline)) /\ Len(release.timeline) \in Nat
  BY ReleaseTyped
<1>3. PreviousVersion = Newest(Window)
  BY DEF PreviousVersion
<1> HIDE DEF Window
<1>4. PreviousVersion \in Window /\ \A i \in Window : i <= PreviousVersion
  BY <1>1, <1>2, <1>3, NewestIsGreatest
<1>5. Current \in Resolvable
  BY CurrentResolvable
<1>6. ASSUME NEW i \in Resolvable, i < Current
      PROVE  i <= PreviousVersion
  <2>1. i \in Int /\ Current \in Int /\ PreviousVersion \in Int
    BY <1>2, <1>4, <1>5, ReleaseTyped
  <2>2. CASE i >= Current - MaxWalkback
    BY <1>4, <1>6, <2>2 DEF Window
  <2>3. CASE i < Current - MaxWalkback
    <3>1. PreviousVersion >= Current - MaxWalkback
      BY <1>4 DEF Window
    <3> QED BY <2>1, <2>3, <3>1, WalkbackAssumption
  <2> QED BY <2>1, <2>2, <2>3, WalkbackAssumption
<1>7. PreviousVersion \in Resolvable
  BY <1>4 DEF Window
<1>8. \A i \in Resolvable : i \in Int /\ Current \in Int
  BY <1>5, ReleaseTyped
<1> QED BY <1>5, <1>6, <1>7, <1>8

LEMMA LeastOf ==
  ASSUME NEW m \in Nat, NEW n \in Nat
  PROVE  Least(m, n) \in 0..m
  BY DEF Least

LEMMA FullScore == Full \in Nat /\ 0 \in Scores
<1>1. Full \in Nat
  BY DEF Full
<1> QED BY <1>1 DEF Scores

LEMMA CombinedBounds ==
  ASSUME WorldTyped, ShieldTyped
  PROVE  Combined \in Scores /\ Flags \in SUBSET ShieldFlags
<1>1. /\ release.script \in Nat /\ release.regex \in Nat /\ release.ast \in Nat
      /\ release.injections \in Nat
  BY DEF WorldTyped, Releases
<1>2. shield.llm \in Confidences /\ shield.scanned \in BOOLEAN
  BY DEF ShieldTyped, ShieldLocals
<1> DEFINE primary == IF release.injections > 3 THEN 60 ELSE 20 * release.injections
           files   == IF shield.scanned THEN 300 * (release.regex + release.ast) ELSE 0
<1>3. primary \in Nat /\ files \in Nat
  BY <1>1
<1>4. InjectionScore = IF shield.llm = NoValue THEN 300 * primary
                  ELSE 120 * primary + 180 * shield.llm
  BY DEF InjectionScore
<1>5. Combined = Least(Full, 700 * release.script + InjectionScore + files)
  BY DEF Combined
<1>6. shield.llm = NoValue \/ shield.llm \in Nat
  BY <1>2 DEF Confidences
<1> HIDE DEF primary, files
<1>7. InjectionScore \in Nat
  BY <1>3, <1>4, <1>6
<1>8. 700 * release.script + InjectionScore + files \in Nat
  BY <1>1, <1>3, <1>7
<1>9. Combined \in Scores
  BY <1>5, <1>8, FullScore, LeastOf DEF Scores
<1>10. Flags \in SUBSET ShieldFlags
  BY <1>2 DEF Flags, ShieldFlags
<1> QED BY <1>9, <1>10

LEMMA DiffScoreBounds ==
  ASSUME WorldTyped, Current \in Resolvable, shield.previous \in Resolvable
  PROVE  DiffScore \in 0..100
<1> DEFINE now == Of(Current)  before == Of(shield.previous)
           n == Cardinality(now.imports \ before.imports)
<1>1. IsFiniteSet(now.imports)
  BY ReleaseTyped
<1>2. IsFiniteSet(now.imports \ before.imports)
  BY <1>1, FS_Subset
<1>3. n \in Nat
  BY <1>2, FS_CardinalityType
<1> DEFINE a == IF now.network /\ ~before.network THEN 25 ELSE 0
           b == IF now.env /\ ~before.env THEN 30 ELSE 0
<1>4. DiffScore = Least(100, Least(60, 20 * n) + a + b)
  BY DEF DiffScore
<1>5. a \in Nat /\ b \in Nat
  OBVIOUS
<1> HIDE DEF a, b, n
<1>6. Least(60, 20 * n) \in Nat
  BY <1>3, LeastOf
<1>7. Least(60, 20 * n) + a + b \in Nat
  BY <1>5, <1>6
<1> QED BY <1>4, <1>7, LeastOf

Inspected == WorldTyped /\ RegistryTyped /\ ShieldTyped /\ ShieldInv

LEMMA PositionsStay ==
  ASSUME UNCHANGED release
  PROVE  Positions' = Positions /\ ShieldLocals' = ShieldLocals
  BY DEF Positions, ShieldLocals

LEMMA ConclusionTyped ==
  ASSUME ShieldTyped, NEW score \in Scores, NEW flags \in SUBSET ShieldFlags
  PROVE  /\ Conclusion(score, flags) \in ShieldLocals
         /\ Conclusion(score, flags).pc = "done"
         /\ Conclusion(score, flags).previous = shield.previous
         /\ Conclusion(score, flags).diffed = shield.diffed
         /\ Conclusion(score, flags).flags = flags
<1> USE DEF ShieldTyped, ShieldLocals, Conclusion
<1>1. Conclusion(score, flags) \in ShieldLocals
  BY DEF Inspecting
<1>2. /\ Conclusion(score, flags).pc = "done"
      /\ Conclusion(score, flags).previous = shield.previous
      /\ Conclusion(score, flags).diffed = shield.diffed
      /\ Conclusion(score, flags).flags = flags
  OBVIOUS
<1> QED BY <1>1, <1>2

(* A scan that ends without a comparison ends well when there was no       *)
(* predecessor, or nothing to see in it.                                   *)
LEMMA UndiffedKeeps ==
  ASSUME Inspected, UNCHANGED <<admin, release>>, NEW score \in Scores,
         NEW flags \in SUBSET ShieldFlags, shield' = Conclusion(score, flags),
         shield.previous # 0 =>
           /\ Of(Current).manifest = Of(shield.previous).manifest
           /\ admin.shield_native_trigger_check =>
                Of(Current).gyp = Of(shield.previous).gyp
  PROVE  ShieldTyped' /\ ShieldInv'
<1> USE DEF Inspected
<1>1. ShieldTyped'
  BY ConclusionTyped, PositionsStay DEF ShieldTyped
<1>2. /\ shield'.pc = "done" /\ shield'.previous = shield.previous
  BY ConclusionTyped
<1>3. Current' = Current /\ Resolvable' = Resolvable /\ \A i : Of(i)' = Of(i)
  BY ReleaseStays
<1>4. Nearest' /\ Compared'
  BY <1>2, <1>3 DEF ShieldInv, Nearest, Compared
<1>5. SkipsAreSafe'
  BY <1>2, <1>3, <1>4 DEF Nearest, SkipsAreSafe, Of
<1> QED BY <1>1, <1>4, <1>5 DEF ShieldInv

(* A step that stays short of the end, and of choosing a predecessor. *)
LEMMA EarlyKeeps ==
  ASSUME UNCHANGED <<admin, release>>, shield'.previous = 0,
         shield'.pc \in {"files", "llm", "previous"}
  PROVE  ShieldInv'
  BY DEF ShieldInv, Nearest, Compared, SkipsAreSafe

LEMMA FetchKeeps ==
  ASSUME Inspected, Fetch
  PROVE  RegistryTyped' /\ ShieldTyped' /\ ShieldInv'
<1> USE DEF Inspected
<1>1. PICK answer \in Answers :
        /\ Remember(answer)
        /\ shield' = IF answer # "exists" THEN Conclusion(0, {})
                     ELSE IF Purged THEN Conclusion(0, {"requested_version_unresolved"})
                     ELSE [shield EXCEPT !.pc = "files"]
  BY DEF Fetch
<1>2. UNCHANGED <<package, ai, admin, release>> /\ shield.previous = 0
  BY DEF Fetch, ShieldInv, Compared
<1>3. RegistryTyped'
  BY <1>1, <1>2, RememberKeeps
<1>4. 0 \in Scores /\ {} \in SUBSET ShieldFlags
      /\ {"requested_version_unresolved"} \in SUBSET ShieldFlags
  BY FullScore DEF ShieldFlags
<1>5. CASE shield' = Conclusion(0, {})
  BY <1>2, <1>3, <1>4, <1>5, UndiffedKeeps
<1>6. CASE shield' = Conclusion(0, {"requested_version_unresolved"})
  BY <1>2, <1>3, <1>4, <1>6, UndiffedKeeps
<1>7. CASE shield' = [shield EXCEPT !.pc = "files"]
  <2>1. shield' \in ShieldLocals /\ shield'.previous = 0 /\ shield'.pc = "files"
    BY <1>2, <1>7 DEF ShieldTyped, ShieldLocals, Inspecting
  <2> QED BY <1>2, <1>3, <2>1, EarlyKeeps, PositionsStay DEF ShieldTyped
<1> QED BY <1>1, <1>5, <1>6, <1>7

LEMMA ScanFilesKeeps ==
  ASSUME Inspected, ScanFiles
  PROVE  ShieldTyped' /\ ShieldInv'
<1> USE DEF Inspected
<1> DEFINE next == IF admin.llm /\ release.injections > 1 THEN "llm" ELSE "previous"
<1>1. PICK ok \in BOOLEAN :
        shield' = [shield EXCEPT !.scanned = ok /\ admin.package_file_scan /\ Current # 0,
                                 !.pc = next]
  BY DEF ScanFiles
<1>2. UNCHANGED <<admin, release>> /\ shield.previous = 0
  BY DEF ScanFiles, packageVars, ShieldInv, Compared
<1>3. PICK scanned \in BOOLEAN : shield' = [shield EXCEPT !.scanned = scanned, !.pc = next]
  BY <1>1, Zenon DEF WorldTyped, Admins
<1>4. next \in {"llm", "previous"}
  OBVIOUS
<1> HIDE DEF next
<1>5. shield' \in ShieldLocals /\ shield'.previous = 0 /\ shield'.pc = next
  BY <1>2, <1>3, <1>4 DEF ShieldTyped, ShieldLocals, Inspecting
<1> QED BY <1>2, <1>4, <1>5, EarlyKeeps, PositionsStay DEF ShieldTyped

LEMMA AskModelKeeps ==
  ASSUME Inspected, AskModel
  PROVE  ShieldTyped' /\ ShieldInv'
<1> USE DEF Inspected
<1>1. PICK confidence \in {0, 90} :
        shield' = [shield EXCEPT !.llm = confidence, !.pc = "previous"]
  BY DEF AskModel
<1>2. UNCHANGED <<admin, release>> /\ shield.previous = 0
  BY DEF AskModel, packageVars, ShieldInv, Compared
<1>3. confidence \in Confidences
  BY DEF Confidences
<1>4. shield' \in ShieldLocals /\ shield'.previous = 0 /\ shield'.pc = "previous"
  BY <1>1, <1>2, <1>3 DEF ShieldTyped, ShieldLocals, Inspecting
<1> QED BY <1>2, <1>4, EarlyKeeps, PositionsStay DEF ShieldTyped

LEMMA NoDiffKeeps ==
  ASSUME Inspected, UNCHANGED <<admin, release>>, shield' = NoDiff,
         shield.previous # 0 =>
           /\ Of(Current).manifest = Of(shield.previous).manifest
           /\ admin.shield_native_trigger_check =>
                Of(Current).gyp = Of(shield.previous).gyp
  PROVE  ShieldTyped' /\ ShieldInv'
<1>1. Combined \in Scores /\ Flags \in SUBSET ShieldFlags
  BY CombinedBounds DEF Inspected
<1>2. shield' = Conclusion(Combined, Flags)
  BY DEF NoDiff
<1> QED BY <1>1, <1>2, UndiffedKeeps

LEMMA FindPreviousKeeps ==
  ASSUME Inspected, FindPrevious
  PROVE  RegistryTyped' /\ ShieldTyped' /\ ShieldInv'
<1> USE DEF Inspected
<1>1. UNCHANGED <<package, ai, admin, release>> /\ shield.previous = 0
  BY DEF FindPrevious, ShieldInv, Compared
<1>2. \/ shield' = NoDiff /\ UNCHANGED registry
      \/ /\ Current # 0
         /\ \E answer \in Answers :
              Remember(answer) /\ shield' \in {NoDiff, Gate(PreviousVersion)}
  BY DEF FindPrevious, Gate
<1>3. RegistryTyped'
  <2>1. CASE UNCHANGED registry
    BY <1>1, <2>1 DEF RegistryTyped, Counted
  <2>2. CASE \E answer \in Answers : Remember(answer)
    BY <1>1, <2>2, RememberKeeps
  <2> QED BY <1>2, <2>1, <2>2
<1>4. CASE shield' = NoDiff
  BY <1>1, <1>3, <1>4, NoDiffKeeps
<1>5. CASE Current # 0 /\ PreviousVersion # 0 /\ shield' = Gate(PreviousVersion)
  <2>1. /\ Current \in Resolvable /\ PreviousVersion \in Resolvable
        /\ \A i \in Resolvable : i <= PreviousVersion \/ i >= Current
    BY <1>5, PreviousNearest
  <2>2. PreviousVersion \in Positions
    BY <2>1, ReleaseTyped DEF Positions
  <2>3. PICK pc \in {"gated", "diff"} :
          /\ shield' = [shield EXCEPT !.previous = PreviousVersion, !.pc = pc]
          /\ pc = "gated" => Of(Current).manifest = Of(PreviousVersion).manifest
    BY <1>5, Zenon DEF Gate
  <2>4. /\ shield' \in ShieldLocals /\ shield'.previous = PreviousVersion
        /\ shield'.pc = pc
    BY <2>2, <2>3 DEF ShieldTyped, ShieldLocals, Inspecting
  <2>5. ShieldTyped'
    BY <1>1, <2>4, PositionsStay DEF ShieldTyped
  <2>6. Current' = Current /\ Resolvable' = Resolvable /\ \A i : Of(i)' = Of(i)
    BY <1>1, ReleaseStays
  <2>7. Nearest'
    BY <2>1, <2>4, <2>6 DEF Nearest
  <2>8. Compared' /\ SkipsAreSafe'
    BY <1>5, <2>3, <2>4, <2>6 DEF Compared, SkipsAreSafe, Of
  <2> QED BY <1>3, <2>5, <2>7, <2>8 DEF ShieldInv
<1>6. CASE PreviousVersion = 0 /\ shield' = Gate(PreviousVersion)
  <2>1. shield' = NoDiff
    BY <1>6 DEF Gate
  <2> QED BY <1>4, <2>1
<1> QED BY <1>2, <1>4, <1>5, <1>6

(* Two listings that were read and agree speak for the versions. *)
LEMMA ListingsAgree ==
  ASSUME WorldTyped, NEW i \in Resolvable, NEW j \in Resolvable,
         NEW a \in Listing(i), NEW b \in Listing(j), ~Transition(a, b)
  PROVE  Of(i).gyp = Of(j).gyp
<1>1. Of(i).gyp \in BOOLEAN /\ Of(j).gyp \in BOOLEAN
  BY ReleaseTyped DEF Versions
<1>2. a # "unknown" /\ b # "unknown" /\ a = b
  BY DEF Transition
<1> QED BY <1>1, <1>2 DEF Listing

LEMMA NativeTriggerKeeps ==
  ASSUME Inspected, NativeTrigger
  PROVE  ShieldTyped' /\ ShieldInv'
<1> USE DEF Inspected
<1>1. UNCHANGED <<admin, release>> /\ shield.pc = "gated" /\ shield.previous # 0
  BY DEF NativeTrigger, packageVars, ShieldInv, Compared
<1>2. /\ Of(Current).manifest = Of(shield.previous).manifest
      /\ Current \in Resolvable /\ shield.previous \in Resolvable
  BY <1>1 DEF ShieldInv, Compared, Nearest
<1>3. PICK now \in Listing(Current), before \in Listing(shield.previous) :
        shield' = IF admin.shield_native_trigger_check /\ Transition(now, before)
                    THEN [shield EXCEPT !.pc = "diff"] ELSE NoDiff
  BY Zenon DEF NativeTrigger
<1>4. CASE shield' = [shield EXCEPT !.pc = "diff"]
  <2>1. /\ shield' \in ShieldLocals /\ shield'.previous = shield.previous
        /\ shield'.pc = "diff"
    BY <1>4 DEF ShieldTyped, ShieldLocals, Inspecting
  <2>2. ShieldTyped'
    BY <1>1, <2>1, PositionsStay DEF ShieldTyped
  <2>3. Current' = Current /\ Resolvable' = Resolvable /\ \A i : Of(i)' = Of(i)
    BY <1>1, ReleaseStays
  <2>4. ShieldInv'
    BY <1>1, <2>1, <2>3 DEF ShieldInv, Nearest, Compared, SkipsAreSafe
  <2> QED BY <2>2, <2>4
<1>5. CASE /\ ~ (admin.shield_native_trigger_check /\ Transition(now, before))
           /\ shield' = NoDiff
  <2>1. admin.shield_native_trigger_check => ~Transition(now, before)
    BY <1>5
  <2>2. admin.shield_native_trigger_check => Of(Current).gyp = Of(shield.previous).gyp
    BY <1>2, <2>1, ListingsAgree
  <2> QED BY <1>1, <1>2, <1>5, <2>2, NoDiffKeeps
<1> QED BY <1>3, <1>4, <1>5

LEMMA BlendBounds ==
  ASSUME NEW c \in Scores, NEW d \in Nat, d <= 100
  PROVE  Blended(c, d) \in Scores
<1>1. c \in Nat /\ c <= Full
  BY FullScore DEF Scores
<1>2. c <= 100000
  BY <1>1 DEF Full
<1> DEFINE sum == 75 * c + 25 * 1000 * d
<1>3. sum \in Nat /\ sum <= 10000000
  BY <1>1, <1>2
<1> HIDE DEF sum
<1>4. sum \div 100 \in Nat /\ sum \div 100 <= 100000
  BY <1>3
<1>5. sum \div 100 <= Full
  BY <1>4 DEF Full
<1>6. sum \div 100 \in Scores
  BY <1>4, <1>5, FullScore DEF Scores
<1> QED BY <1>6 DEF sum, Blended

LEMMA DiffKeeps ==
  ASSUME Inspected, Diff
  PROVE  RegistryTyped' /\ ShieldTyped' /\ ShieldInv'
<1> USE DEF Inspected
<1>1. UNCHANGED <<package, ai, admin, release>> /\ shield.previous # 0
  BY DEF Diff, ShieldInv, Compared
<1>2. Current \in Resolvable /\ shield.previous \in Resolvable
  BY <1>1 DEF ShieldInv, Nearest
<1>3. PICK answer \in Answers, downloaded \in BOOLEAN :
        LET score == IF answer = "exists" /\ downloaded THEN DiffScore ELSE 0
        IN  /\ Remember(answer)
            /\ shield' = [Conclusion(Blended(Combined, score), Flags) EXCEPT !.diffed = TRUE]
  BY Zenon DEF Diff
<1> DEFINE score == IF answer = "exists" /\ downloaded THEN DiffScore ELSE 0
           blend == Blended(Combined, score)
<1>4. score \in Nat /\ score <= 100
  BY <1>2, DiffScoreBounds
<1> HIDE DEF score
<1>5. blend \in Scores /\ Flags \in SUBSET ShieldFlags
  <2>1. Combined \in Scores /\ Flags \in SUBSET ShieldFlags
    BY CombinedBounds
  <2>2. blend \in Scores
    BY <1>4, <2>1, BlendBounds
  <2> QED BY <2>1, <2>2, Zenon
<1> HIDE DEF blend
<1> DEFINE conclusion == Conclusion(blend, Flags)
<1>6. /\ conclusion \in ShieldLocals /\ conclusion.pc = "done"
      /\ conclusion.previous = shield.previous
  BY <1>5, ConclusionTyped
<1>7. shield' = [conclusion EXCEPT !.diffed = TRUE]
  BY <1>3 DEF blend, score
<1> HIDE DEF conclusion
<1>8. /\ shield' \in ShieldLocals /\ shield'.pc = "done" /\ shield'.diffed
      /\ shield'.previous = shield.previous
  BY <1>6, <1>7 DEF ShieldLocals
<1>9. ShieldTyped'
  BY <1>1, <1>8, PositionsStay DEF ShieldTyped
<1>10. Current' = Current /\ Resolvable' = Resolvable /\ \A i : Of(i)' = Of(i)
  BY <1>1, ReleaseStays
<1>11. ShieldInv'
  BY <1>1, <1>8, <1>10 DEF ShieldInv, Nearest, Compared, SkipsAreSafe
<1>12. RegistryTyped'
  BY <1>1, <1>3, RememberKeeps
<1> QED BY <1>9, <1>11, <1>12

LEMMA ShieldKeeps ==
  ASSUME Inspected, ShieldNext
  PROVE  /\ RegistryTyped' /\ ShieldTyped' /\ ShieldInv' /\ shield.pc # "done"
         /\ UNCHANGED <<package, ai, admin, release>>
<1>1. UNCHANGED <<package, ai, admin, release>> /\ shield.pc # "done"
  BY DEF ShieldNext, Fetch, ScanFiles, AskModel, FindPrevious, NativeTrigger, Diff, packageVars
<1>2. ScanFiles \/ AskModel \/ NativeTrigger => RegistryTyped'
  BY DEF Inspected, RegistryTyped, Counted, ScanFiles, AskModel, NativeTrigger, packageVars
<1> QED BY <1>1, <1>2, FetchKeeps, ScanFilesKeeps, AskModelKeeps, FindPreviousKeeps,
           NativeTriggerKeeps, DiffKeeps DEF ShieldNext

-----------------------------------------------------------------------------
(* Contextify and the aggregator. *)

LEMMA FitTyped ==
  ASSUME WorldTyped, NEW s \in Similarities
  PROVE  /\ Fit(s).score \in Misfits
         /\ Fit(s).flags \in SUBSET {"unfamiliar_in_mature_project"}
<1>1. s \in Int /\ project.domains \in Nat
  BY SettingsAssumption DEF WorldTyped
<1> QED BY <1>1 DEF Fit, Misfits

LEMMA ContextifyKeeps ==
  ASSUME WorldTyped, RegistryTyped, ContextifyTyped, LoadFingerprint \/ CompareDescription
  PROVE  /\ RegistryTyped' /\ ContextifyTyped' /\ contextify.pc # "done"
         /\ UNCHANGED <<package, ai, admin, sentinel, release, shield, project, verdict>>
<1>1. CASE LoadFingerprint
  <2>1. RegistryTyped'
    BY <1>1 DEF LoadFingerprint, packageVars, RegistryTyped, Counted
  <2>2. ContextifyTyped'
    <3>1. \/ contextify' = [contextify EXCEPT !.pc = "embed"]
          \/ contextify' = [contextify EXCEPT !.pc = "done", !.score = 5]
      BY <1>1, Zenon DEF LoadFingerprint
    <3>2. CASE contextify' = [contextify EXCEPT !.pc = "embed"]
      BY <3>2 DEF ContextifyTyped
    <3>3. CASE contextify' = [contextify EXCEPT !.pc = "done", !.score = 5]
      <4>1. 5 \in Misfits
        BY DEF Misfits
      <4> QED BY <3>3, <4>1 DEF ContextifyTyped
    <3> QED BY <3>1, <3>2, <3>3
  <2> QED BY <1>1, <2>1, <2>2 DEF LoadFingerprint, packageVars
<1>2. CASE CompareDescription
  <2>1. UNCHANGED <<package, ai, admin, sentinel, release, shield, project, verdict>>
        /\ contextify.pc = "embed"
    BY <1>2 DEF CompareDescription
  <2>2. PICK answer \in Answers, s \in Similarities :
          /\ Remember(answer)
          /\ contextify' = [pc |-> "done", score |-> Fit(s).score, similarity |-> s,
                            flags |-> Fit(s).flags]
    BY <1>2 DEF CompareDescription
  <2>3. RegistryTyped'
    BY <2>1, <2>2, RememberKeeps
  <2>4. ContextifyTyped'
    BY <2>2, FitTyped DEF ContextifyTyped
  <2> QED BY <2>1, <2>3, <2>4
<1> QED BY <1>1, <1>2

LEMMA WeightsTyped ==
  ASSUME WorldTyped
  PROVE  /\ Weights.context \in Int /\ Weights.sentinel \in Int /\ Weights.shield \in Int
<1> DEFINE w == Least(500, IF project.weight < 0 THEN 0 ELSE project.weight)
           shared == SentinelWeight + ShieldWeight
<1>1. /\ ContextWeight \in Nat /\ SentinelWeight \in Nat /\ ShieldWeight \in Nat
  BY SettingsAssumption
<1>2. w \in Int /\ shared \in Nat
  BY <1>1 DEF WorldTyped, Least
<1> HIDE DEF w, shared
<1>3. (1000 - w) * SentinelWeight \in Int /\ (1000 - w) * ShieldWeight \in Int
  BY <1>1, <1>2
<1>4. shared # 0 =>
        /\ ((1000 - w) * SentinelWeight) \div shared \in Int
        /\ ((1000 - w) * ShieldWeight) \div shared \in Int
  BY <1>2, <1>3
<1>5. (1000 - w) \div 2 \in Int
  BY <1>2
<1>6. \/ Weights = [context |-> ContextWeight, sentinel |-> SentinelWeight,
                    shield |-> ShieldWeight]
      \/ Weights = [context |-> w, sentinel |-> (1000 - w) \div 2,
                    shield |-> (1000 - w) \div 2]
      \/ /\ shared # 0
         /\ Weights = [context  |-> w,
                       sentinel |-> ((1000 - w) * SentinelWeight) \div shared,
                       shield   |-> ((1000 - w) * ShieldWeight) \div shared]
  <2>1. CASE project.weight = NoValue
    BY <2>1 DEF Weights
  <2>2. CASE project.weight # NoValue /\ shared = 0
    BY <2>2 DEF Weights, w, shared
  <2>3. CASE project.weight # NoValue /\ shared # 0
    BY <2>3 DEF Weights, w, shared
  <2> QED BY <2>1, <2>2, <2>3
<1> QED BY <1>1, <1>2, <1>4, <1>5, <1>6

LEMMA WeightedTyped ==
  ASSUME WorldTyped, SentinelTyped, ShieldTyped, ContextifyTyped
  PROVE  WeightedScore \in Int /\ WeightedScore <= FullVerdict
<1> DEFINE sum == 1000 * (Weights.context * contextify.score
                             + Weights.sentinel * sentinel.score)
                    + Weights.shield * shield.score
           alien == contextify.similarity # NoValue /\ contextify.similarity < 5
           dropper == "base64_decode" \in shield.flags
                        /\ "unfamiliar_in_mature_project" \in contextify.flags
           raised == IF alien THEN 20 * 1000000 ELSE 0
           extra == IF dropper THEN 1500 ELSE 0
           rounded == Rounded(Least(100 * 1000000, sum + raised))
<1>1. WeightedScore = Least(FullVerdict, rounded + extra)
  BY DEF WeightedScore
<1>2. /\ contextify.score \in Int /\ sentinel.score \in Int
  BY DEF ContextifyTyped, Misfits, SentinelTyped
<1>3. shield.score \in Int
  BY FullScore DEF ShieldTyped, ShieldLocals, Scores
<1>4. /\ Weights.context * contextify.score \in Int
      /\ Weights.sentinel * sentinel.score \in Int
      /\ Weights.shield * shield.score \in Int
  BY <1>2, <1>3, WeightsTyped
<1>5. sum \in Int
  BY <1>4
<1>6. raised \in Int /\ extra \in Int
  OBVIOUS
<1> HIDE DEF sum, raised, extra
<1>7. Least(100 * 1000000, sum + raised) \in Int
  BY <1>5, <1>6 DEF Least
<1>8. rounded \in Int
  BY <1>7 DEF Rounded
<1> HIDE DEF rounded
<1>9. FullVerdict \in Int
  BY DEF FullVerdict
<1> QED BY <1>1, <1>6, <1>8, <1>9 DEF Least

LEMMA FloorTyped == Floor \in Nat /\ Floor <= FullVerdict
<1>1. WarnThreshold \in Nat /\ WarnThreshold <= 100
  BY SettingsAssumption
<1>2. BlockThreshold \in Nat /\ BlockThreshold <= 100
  BY SettingsAssumption
<1>3. Floor \in {100 * BlockThreshold, 100 * WarnThreshold, 0}
  BY DEF Floor
<1> QED BY <1>1, <1>2, <1>3 DEF FullVerdict

LEMMA AggregateKeeps ==
  ASSUME WorldTyped, RegistryTyped, SentinelTyped, ShieldTyped, ContextifyTyped, Aggregate
  PROVE  VerdictTyped' /\ Decided'
<1> DEFINE score == Aggregated(WeightedScore, Floor)
<1>1. /\ sentinel.pc = "done" /\ shield.pc = "done" /\ contextify.pc = "done"
      /\ UNCHANGED <<sentinel, shield, contextify>>
      /\ verdict' = [score |-> score, decision |-> GetDecision(score)]
  BY Zenon DEF Aggregate
<1>2. WeightedScore \in Int /\ WeightedScore <= FullVerdict
  BY WeightedTyped
<1>3. FullVerdict \in Nat
  BY DEF FullVerdict
<1>4. score \in 0..FullVerdict /\ score >= Floor
  BY <1>2, <1>3, FloorTyped DEF Aggregated
<1> HIDE DEF score
<1>5. VerdictTyped'
  BY <1>1, <1>4 DEF VerdictTyped, GetDecision
<1>6. verdict'.score = score /\ verdict'.decision = GetDecision(score) /\ Floor' = Floor
  BY <1>1 DEF Floor
<1>7. Decided'
  BY <1>1, <1>4, <1>6 DEF Decided
<1> QED BY <1>5, <1>7

-----------------------------------------------------------------------------
(* The invariant. *)

LEMMA InitHolds == Init => IInv
<1> SUFFICES ASSUME Init PROVE IInv
  OBVIOUS
<1>1. PICK w \in Worlds :
        /\ package = w.package /\ ai = w.ai /\ admin = w.admin
        /\ release = w.release /\ project = w.project
  BY DEF Init
<1>2. WorldTyped
  BY <1>1, WorldsAssumption DEF WorldTyped
<1>3. /\ registry = [document |-> FALSE, count |-> NoValue]
      /\ sentinel = [pc |-> "start", again |-> FALSE, status |-> "undetermined",
                     count |-> NoValue, target |-> NoValue, score |-> 0, flags |-> {}]
      /\ shield = [pc |-> "start", scanned |-> FALSE, llm |-> NoValue, previous |-> 0,
                   diffed |-> FALSE, score |-> 0, flags |-> {}]
      /\ contextify = [pc |-> "start", score |-> 0, similarity |-> NoValue, flags |-> {}]
      /\ verdict = Pending
  BY DEF Init, PackageInit, SentinelInit, ShieldInit
<1>4. RegistryTyped
  BY <1>3 DEF RegistryTyped, Counted
<1>5. SentinelTyped
  BY <1>3 DEF SentinelTyped, Scanning, Statuses, Counted
<1>6. ShieldTyped
  <2>1. 0 \in Scores /\ 0 \in Positions /\ NoValue \in Confidences
    BY <1>2, FullScore, ReleaseTyped DEF Positions, Confidences
  <2> QED BY <1>3, <2>1 DEF ShieldTyped, ShieldLocals, Inspecting
<1>7. ContextifyTyped
  <2>1. 0 \in Misfits
    BY DEF Misfits
  <2> QED BY <1>3, <2>1 DEF ContextifyTyped
<1>8. VerdictTyped
  <2>1. 0 \in 0..FullVerdict
    BY DEF FullVerdict
  <2> QED BY <1>3, <2>1 DEF VerdictTyped, Pending
<1>9. SentinelInv
  BY <1>3 DEF SentinelInv, Found, Placed, Judged, Flagged, OutageIsNotAbsence
<1>10. ShieldInv
  BY <1>3 DEF ShieldInv, Nearest, Compared, SkipsAreSafe
<1>11. Decided
  BY <1>3 DEF Decided
<1> QED BY <1>2, <1>4, <1>5, <1>6, <1>7, <1>8, <1>9, <1>10, <1>11, TypeParts DEF IInv

(* What stays when the values it is about stay. *)
LEMMA WorldStays ==
  ASSUME WorldTyped, UNCHANGED <<package, ai, admin, release, project>>
  PROVE  WorldTyped'
  BY DEF WorldTyped

LEMMA SentinelStays ==
  ASSUME SentinelTyped, SentinelInv, UNCHANGED <<package, ai, admin, sentinel>>
  PROVE  SentinelTyped' /\ SentinelInv'
<1>1. Cleared' = Cleared /\ Unlike' = Unlike /\ Hits' = Hits
  BY DEF Cleared, Unlike, Hits, Disparity
<1>2. SentinelTyped'
  BY DEF SentinelTyped, Counted
<1> QED BY <1>1, <1>2 DEF SentinelInv, Found, Placed, Judged, Flagged, OutageIsNotAbsence

LEMMA ShieldStays ==
  ASSUME ShieldTyped, ShieldInv, UNCHANGED <<admin, release, shield>>
  PROVE  ShieldTyped' /\ ShieldInv'
<1>1. Current' = Current /\ Resolvable' = Resolvable /\ \A i : Of(i)' = Of(i)
  BY ReleaseStays
<1> QED BY <1>1, PositionsStay DEF ShieldTyped, ShieldInv, Nearest, Compared, SkipsAreSafe

LEMMA ContextifyStays ==
  ASSUME ContextifyTyped, UNCHANGED contextify
  PROVE  ContextifyTyped'
  BY DEF ContextifyTyped

(* A step taken before the verdict is there. *)
LEMMA UndecidedKeeps ==
  ASSUME VerdictTyped, Decided, UNCHANGED verdict,
         \/ sentinel.pc # "done" \/ shield.pc # "done" \/ contextify.pc # "done"
         \/ UNCHANGED <<sentinel, shield, contextify>>
  PROVE  VerdictTyped' /\ Decided'
<1>1. VerdictTyped'
  BY DEF VerdictTyped
<1>2. CASE UNCHANGED <<sentinel, shield, contextify>>
  BY <1>1, <1>2 DEF Decided, Floor, GetDecision
<1>3. CASE verdict = Pending
  BY <1>1, <1>3 DEF Decided
<1> QED BY <1>2, <1>3 DEF Decided

LEMMA NextKeeps == IInv /\ [Next]_vars => IInv'
<1> SUFFICES ASSUME IInv, [Next]_vars PROVE IInv'
  OBVIOUS
<1>1. /\ WorldTyped /\ RegistryTyped /\ SentinelTyped /\ ShieldTyped /\ ContextifyTyped
      /\ VerdictTyped /\ SentinelInv /\ ShieldInv /\ Decided
  BY TypeParts DEF IInv
<1> DEFINE Goal == /\ WorldTyped' /\ RegistryTyped' /\ SentinelTyped' /\ ShieldTyped'
                   /\ ContextifyTyped' /\ VerdictTyped' /\ SentinelInv' /\ ShieldInv'
                   /\ Decided'
<1>2. ASSUME SentinelNext, UNCHANGED <<release, shield, project, contextify, verdict>>
      PROVE  Goal
  <2>1. /\ RegistryTyped' /\ SentinelTyped' /\ SentinelInv' /\ sentinel.pc # "done"
        /\ UNCHANGED <<package, ai, admin>>
    <3>1. sentinel.pc # "done"
      BY <1>2 DEF SentinelNext, KnownIncident, AskDocument, AskCount, Judge, Corroborate,
         Resolve, CheckOSV
    <3> QED BY <1>1, <1>2, <3>1, SentinelKeeps DEF Before
  <2> QED BY <1>1, <1>2, <2>1, WorldStays, ShieldStays, ContextifyStays, UndecidedKeeps
<1>3. ASSUME ShieldNext, UNCHANGED <<sentinel, project, contextify, verdict>>
      PROVE  Goal
  <2>1. /\ RegistryTyped' /\ ShieldTyped' /\ ShieldInv' /\ shield.pc # "done"
        /\ UNCHANGED <<package, ai, admin, release>>
    BY <1>1, <1>3, ShieldKeeps DEF Inspected
  <2> QED BY <1>1, <1>3, <2>1, WorldStays, SentinelStays, ContextifyStays, UndecidedKeeps
<1>4. ASSUME LoadFingerprint \/ CompareDescription
      PROVE  Goal
  <2>1. /\ RegistryTyped' /\ ContextifyTyped' /\ contextify.pc # "done"
        /\ UNCHANGED <<package, ai, admin, sentinel, release, shield, project, verdict>>
    BY <1>1, <1>4, ContextifyKeeps
  <2> QED BY <1>1, <2>1, WorldStays, SentinelStays, ShieldStays, UndecidedKeeps
<1>5. ASSUME Aggregate
      PROVE  Goal
  <2>1. UNCHANGED <<packageVars, sentinel, release, shield, project, contextify>>
    BY <1>5 DEF Aggregate
  <2>2. UNCHANGED <<package, ai, admin, registry>>
    BY <2>1 DEF packageVars
  <2>3. RegistryTyped'
    BY <1>1, <2>2 DEF RegistryTyped, Counted
  <2>4. VerdictTyped' /\ Decided'
    BY <1>1, <1>5, AggregateKeeps
  <2> QED BY <1>1, <2>1, <2>2, <2>3, <2>4, WorldStays, SentinelStays, ShieldStays,
             ContextifyStays
<1>6. ASSUME Expire, UNCHANGED <<sentinel, release, shield, project, contextify, verdict>>
      PROVE  Goal
  <2>1. UNCHANGED <<package, ai, admin>> /\ registry' = [registry EXCEPT !.document = FALSE]
    BY <1>6 DEF Expire
  <2>2. RegistryTyped'
    BY <1>1, <2>1 DEF RegistryTyped, Counted
  <2> QED BY <1>1, <1>6, <2>1, <2>2, WorldStays, SentinelStays, ShieldStays,
             ContextifyStays, UndecidedKeeps
<1>7. ASSUME UNCHANGED vars
      PROVE  Goal
  <2>1. UNCHANGED <<package, ai, admin, registry, sentinel, release, shield, project,
                    contextify, verdict>>
    BY <1>7 DEF vars, packageVars
  <2>2. RegistryTyped'
    BY <1>1, <2>1 DEF RegistryTyped, Counted
  <2> QED BY <1>1, <2>1, <2>2, WorldStays, SentinelStays, ShieldStays, ContextifyStays,
             UndecidedKeeps
<1>8. Goal
  BY <1>2, <1>3, <1>4, <1>5, <1>6, <1>7, Zenon DEF Next
<1>9. TypeOK'
  BY <1>8, TypeParts, PTL
<1> QED BY <1>8, <1>9 DEF IInv

LEMMA Invariant == Spec => []IInv
  BY InitHolds, NextKeeps, PTL DEF Spec

-----------------------------------------------------------------------------
(* What follows from it. *)

(* A flag that forces a verdict leaves no way to a lesser one: the floor   *)
(* is at its threshold, whatever the pillars weigh.                        *)
LEMMA FloorDecides ==
  ASSUME VerdictTyped, Decided, verdict # Pending
  PROVE  /\ sentinel.flags \cap BlockFlags # {} => verdict.decision = "BLOCK"
         /\ \/ "typosquat_detected" \in sentinel.flags
            \/ "requested_version_unresolved" \in shield.flags
            => verdict.decision # "ALLOW"
<1>1. WarnThreshold \in Nat /\ BlockThreshold \in Nat /\ verdict.score \in Int
  <2>1. WarnThreshold \in Nat
    BY SettingsAssumption
  <2>2. BlockThreshold \in Nat
    BY SettingsAssumption
  <2>3. FullVerdict \in Nat
    BY DEF FullVerdict
  <2> QED BY <2>1, <2>2, <2>3 DEF VerdictTyped
<1>2. verdict.decision = GetDecision(verdict.score) /\ verdict.score >= Floor
  BY DEF Decided
<1>3. ASSUME sentinel.flags \cap BlockFlags # {}
      PROVE  verdict.decision = "BLOCK"
  <2>1. Floor = 100 * BlockThreshold
    BY <1>3 DEF Floor
  <2> QED BY <1>1, <1>2, <2>1 DEF GetDecision
<1>4. ASSUME \/ "typosquat_detected" \in sentinel.flags
             \/ "requested_version_unresolved" \in shield.flags
      PROVE  verdict.decision # "ALLOW"
  <2>1. Floor \in {100 * BlockThreshold, 100 * WarnThreshold}
    BY <1>4 DEF Floor
  <2> QED BY <1>1, <1>2, <2>1 DEF GetDecision
<1> QED BY <1>3, <1>4

LEMMA IInvImplies ==
  IInv => TypeOK /\ OutageIsNotAbsence /\ SkipsAreSafe /\ SquatsNotAllowed /\ KnownBadIsStopped
<1> SUFFICES ASSUME IInv
             PROVE  /\ TypeOK /\ OutageIsNotAbsence /\ SkipsAreSafe
                    /\ SquatsNotAllowed /\ KnownBadIsStopped
  OBVIOUS
<1>1. VerdictTyped /\ Decided /\ SentinelInv
  BY TypeParts DEF IInv
<1>2. TypeOK /\ OutageIsNotAbsence /\ SkipsAreSafe
  BY DEF IInv, SentinelInv, ShieldInv
<1>3. SquatsNotAllowed
  <2> SUFFICES ASSUME verdict.decision = "ALLOW" PROVE Cleared
    BY DEF SquatsNotAllowed, Cleared
  <2>1. verdict # Pending
    BY DEF Pending
  <2>2. sentinel.flags \cap (BlockFlags \cup {"typosquat_detected"}) = {}
    BY <1>1, <2>1, FloorDecides
  <2> QED BY <1>1, <2>1, <2>2 DEF Decided, SentinelInv, Judged
<1>4. KnownBadIsStopped
  BY <1>1, FloorDecides DEF KnownBadIsStopped, Decided, SentinelInv, Flagged
<1> QED BY <1>2, <1>3, <1>4

(* The registry's silence is never taken for a package's absence, except  *)
(* at the second lookup, the one made for an AI suggestion.                *)
THEOREM OutageSafe == Spec => []OutageIsNotAbsence
  BY Invariant, IInvImplies, PTL

(* A name like a popular one is allowed only of a package whose downloads *)
(* and age can bear the comparison, or when the popular one's count was    *)
(* lost.                                                                   *)
THEOREM SquatsSafe == Spec => []SquatsNotAllowed
  BY Invariant, IInvImplies, PTL

(* For any weights, thresholds and policies a forcing flag decides. *)
THEOREM KnownBadSafe == Spec => []KnownBadIsStopped
  BY Invariant, IInvImplies, PTL

(* For any timeline of versions, purged or not, the comparison that was    *)
(* left out would have shown nothing.                                      *)
THEOREM SkipsSafe == Spec => []SkipsAreSafe
  BY Invariant, IInvImplies, PTL

(* Every variable keeps its type. *)
THEOREM TypeCorrect == Spec => []TypeOK
  BY Invariant, IInvImplies, PTL
=============================================================================
