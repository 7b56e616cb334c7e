-------------------------------- MODULE Shield --------------------------------
(***************************************************************************)
(* The Shield pillar (src/daemon/pillars/shield.py): which version it      *)
(* looks at, what it downloads, when it compares that version with the one *)
(* before (utils/diff_analyzer.py), and how the parts add up.  What the    *)
(* patterns find in a version is data of the release.  Scores are in       *)
(* thousandths of a point.                                                 *)
(***************************************************************************)
EXTENDS ScannedPackage, Sequences

CONSTANT MaxWalkback   \* _MAX_PREDECESSOR_WALKBACK

ASSUME WalkbackAssumption == MaxWalkback \in Nat \ {0}

VARIABLES
  release,  \* every version ever published, oldest first, and what the
            \* patterns find in the one that is looked at
  shield    \* the locals of Shield.score

\* What a version imports is a finite set: see WorldsAssumption in Assessment.
Versions ==
  [resolvable : BOOLEAN, manifest : STRING, gyp : BOOLEAN, imports : SUBSET STRING,
   network : BOOLEAN, env : BOOLEAN]

Releases ==
  [timeline : Seq(Versions), requested : Nat, script : Nat, regex : Nat, ast : Nat,
   base64 : {"none", "script", "file"}, injections : Nat]

ShieldFlags == {"requested_version_unresolved", "base64_decode"}

Resolvable == {i \in DOMAIN release.timeline : release.timeline[i].resolvable}

Newest(versions) ==
  IF versions = {} THEN 0 ELSE CHOOSE i \in versions : \A j \in versions : j <= i

\* The version asked for, else dist-tags.latest.
Current == IF release.requested \in Resolvable THEN release.requested ELSE Newest(Resolvable)
Purged  == release.requested # 0 /\ Resolvable # {} /\ release.requested \notin Resolvable

\* get_previous_version: the nearest survivor among the versions before.
PreviousVersion ==
  Newest({i \in Resolvable : i < Current /\ i >= Current - MaxWalkback})

Of(i) == release.timeline[i]

\* _scan_injection, then the blend with what the local model says.
InjectionScore ==
  LET primary == IF release.injections > 3 THEN 60 ELSE 20 * release.injections
  IN  IF shield.llm = NoValue THEN 300 * primary ELSE 120 * primary + 180 * shield.llm

Least(m, n) == IF m < n THEN m ELSE n

Full == 100 * 1000

Combined ==
  Least(Full, 700 * release.script + InjectionScore
                + IF shield.scanned THEN 300 * (release.regex + release.ast) ELSE 0)

\* Seen in the lifecycle scripts, or in a file of a tarball that came.
Flags ==
  IF release.base64 = "script" \/ (release.base64 = "file" /\ shield.scanned)
    THEN {"base64_decode"} ELSE {}

\* diff_package_versions, both tarballs at hand.
DiffScore ==
  LET now == Of(Current)  before == Of(shield.previous)
  IN  Least(100, Least(60, 20 * Cardinality(now.imports \ before.imports))
                   + (IF now.network /\ ~before.network THEN 25 ELSE 0)
                   + (IF now.env /\ ~before.env THEN 30 ELSE 0))

-----------------------------------------------------------------------------
ShieldInit ==
  shield = [pc |-> "start", scanned |-> FALSE, llm |-> NoValue, previous |-> 0,
            diffed |-> FALSE, score |-> 0, flags |-> {}]

Conclusion(score, flags) == [shield EXCEPT !.pc = "done", !.score = score, !.flags = flags]
NoDiff                   == Conclusion(Combined, Flags)

\* Without a document there is nothing to look at; a document without the
\* requested version is not looked at instead of it.
Fetch ==
  /\ shield.pc = "start"
  /\ \E answer \in Answers :
       /\ Remember(answer)
       /\ shield' =
            IF answer # "exists" THEN Conclusion(0, {})
            ELSE IF Purged THEN Conclusion(0, {"requested_version_unresolved"})
            ELSE [shield EXCEPT !.pc = "files"]
  /\ UNCHANGED <<package, ai, admin, release>>

ScanFiles ==
  /\ shield.pc = "files"
  /\ \E ok \in BOOLEAN :
       shield' = [shield EXCEPT !.scanned = ok /\ admin.package_file_scan /\ Current # 0,
                    !.pc = IF admin.llm /\ release.injections > 1 THEN "llm" ELSE "previous"]
  /\ UNCHANGED <<packageVars, release>>

\* A model that cannot be reached gives 0, like one that finds nothing.
AskModel ==
  /\ shield.pc = "llm"
  /\ \E confidence \in {0, 90} :
       shield' = [shield EXCEPT !.llm = confidence, !.pc = "previous"]
  /\ UNCHANGED <<packageVars, release>>

\* The manifests, which are at hand, come before any download.
Gate(previous) ==
  IF previous = 0 THEN NoDiff
  ELSE [shield EXCEPT !.previous = previous,
          !.pc = IF admin.shield_manifest_gating
                      /\ Of(Current).manifest = Of(previous).manifest
                   THEN "gated" ELSE "diff"]

FindPrevious ==
  /\ shield.pc = "previous"
  /\ IF Current = 0 THEN shield' = NoDiff /\ UNCHANGED registry
     ELSE \E answer \in Answers :
            /\ Remember(answer)
            /\ shield' = Gate(IF answer = "exists" THEN PreviousVersion ELSE 0)
  /\ UNCHANGED <<package, ai, admin, release>>

\* What the listing of a tarball tells of its binding.gyp, if it can be read.
Listing(i) == {IF Of(i).gyp THEN "present" ELSE "absent", "unknown"}

\* Mutant: a listing that cannot be read shows no transition.
Transition_FailsOpen(now, before) == {now, before} = {"present", "absent"}
Transition(now, before) == now = "unknown" \/ before = "unknown" \/ now # before

NativeTrigger ==
  /\ shield.pc = "gated"
  /\ \E now \in Listing(Current), before \in Listing(shield.previous) :
       shield' = IF admin.shield_native_trigger_check /\ Transition(now, before)
                   THEN [shield EXCEPT !.pc = "diff"] ELSE NoDiff
  /\ UNCHANGED <<packageVars, release>>

\* A comparison that fails has a score of 0 and is blended like any other.
Blended(risk, difference) == (75 * risk + 25 * 1000 * difference) \div 100

Diff ==
  /\ shield.pc = "diff"
  /\ \E answer \in Answers, downloaded \in BOOLEAN :
       LET score == IF answer = "exists" /\ downloaded THEN DiffScore ELSE 0
       IN  /\ Remember(answer)
           /\ shield' = [Conclusion(Blended(Combined, score), Flags) EXCEPT !.diffed = TRUE]
  /\ UNCHANGED <<package, ai, admin, release>>

ShieldNext == Fetch \/ ScanFiles \/ AskModel \/ FindPrevious \/ NativeTrigger \/ Diff
=============================================================================
