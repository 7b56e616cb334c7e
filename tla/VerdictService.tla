--------------------------- MODULE VerdictService ---------------------------
(***************************************************************************)
(* What POST /scan promises its callers, with no word of how.              *)
(*                                                                         *)
(* A caller asks about an npm package on behalf of a project; the service  *)
(* gives a question at most one verdict, fixed once, for one of these      *)
(* reasons:                                                                *)
(*   - a list of the project's policy names the package: that list rules;  *)
(*   - the package is in the local trust list with a valid MAC: ALLOW;     *)
(*   - it is there without one (a row from before MACs): WARN;             *)
(*   - an assessment was published for exactly this package and version,   *)
(*     less than TTL ago: the verdict of that assessment;                  *)
(*   - otherwise the package is assessed and the assessment published.     *)
(* ScanDaemon implements this module: the scan cache, its invalidation and *)
(* purge, the offline mirror and the audit log are invisible here.         *)
(***************************************************************************)
EXTENDS Integers

CONSTANTS
  Requests,   \* questions put to the service
  Inputs,     \* what can be asked: [name, version, ai_suggested]
  Names,      \* package names
  Policies,   \* what the policy of a project that asks can be
  TTL,        \* lifetime of a published assessment
  MaxTime,    \* bound of the clock
  None        \* the version of a question that names none

VARIABLES
  clock,      \* 0 .. MaxTime
  trusted,    \* what each package's row of the trust list is worth
  asked,      \* what each question asks
  published,  \* every assessment ever published
  phase,      \* of each question: "idle", "pending", "answered" or "lost"
  verdict     \* the verdict fixed for each question, "none" before

vars == <<clock, trusted, asked, published, phase, verdict>>

TrustStatus == {"unknown", "verified", "legacy_no_mac", "tampered"}

(* The package version a question is about. *)
Subject(q) == <<q.name, IF q.version = None THEN "latest" ELSE q.version>>

(* What the lists of policy p rule for name n; the block list comes first. *)
Ruling(p, n) == IF n \in p.block_list THEN "BLOCK"
                ELSE IF n \in p.trust_list THEN "ALLOW" ELSE "none"

(* The verdicts that assessments of k still alive at time t support. *)
Supported(k, t) ==
  {a.decision : a \in {b \in published : b.key = k /\ b.at + TTL > t}}

Init ==
  /\ clock = 0
  /\ trusted \in [Names -> TrustStatus]
  /\ asked \in [Requests -> Inputs]
  /\ published = {}
  /\ phase = [r \in Requests |-> "idle"]
  /\ verdict = [r \in Requests |-> "none"]

Undecided(r) == phase[r] = "pending" /\ verdict[r] = "none"

Submit(r) ==
  /\ phase[r] = "idle"
  /\ phase' = [phase EXCEPT ![r] = "pending"]
  /\ \E p \in Policies :
       verdict' = [verdict EXCEPT ![r] = Ruling(p, asked[r].name)]
  /\ UNCHANGED <<clock, trusted, asked, published>>

DecideByTrust(r) ==
  /\ Undecided(r)
  /\ \/ /\ trusted[asked[r].name] = "verified"
        /\ verdict' = [verdict EXCEPT ![r] = "ALLOW"]
     \/ /\ trusted[asked[r].name] = "legacy_no_mac"
        /\ verdict' = [verdict EXCEPT ![r] = "WARN"]
  /\ UNCHANGED <<clock, trusted, asked, published, phase>>

DecideByAssessment(r) ==
  /\ Undecided(r)
  /\ \E d \in Supported(Subject(asked[r]), clock) :
       verdict' = [verdict EXCEPT ![r] = d]
  /\ UNCHANGED <<clock, trusted, asked, published, phase>>

Publish(r) ==
  /\ Undecided(r)
  /\ \E d \in {"ALLOW", "WARN", "BLOCK"} :
       /\ published' = published \cup {[key |-> Subject(asked[r]), by |-> r,
                                        decision |-> d, at |-> clock]}
       /\ verdict' = [verdict EXCEPT ![r] = d]
  /\ UNCHANGED <<clock, trusted, asked, phase>>

Answer(r) ==
  /\ phase[r] = "pending" /\ verdict[r] # "none"
  /\ phase' = [phase EXCEPT ![r] = "answered"]
  /\ UNCHANGED <<clock, trusted, asked, published, verdict>>

(* A failure costs some pending questions their answer, nothing else. *)
Lose(S) ==
  /\ \A r \in S : phase[r] = "pending"
  /\ phase' = [r \in Requests |-> IF r \in S THEN "lost" ELSE phase[r]]
  /\ UNCHANGED <<clock, trusted, asked, published, verdict>>

(* The world around the service: time and the trust list. *)
Environment ==
  \/ /\ clock < MaxTime /\ clock' = clock + 1
     /\ UNCHANGED <<trusted, asked, published, phase, verdict>>
  \/ /\ \E n \in Names, s \in TrustStatus :
          trusted' = [trusted EXCEPT ![n] = s]
     /\ UNCHANGED <<clock, asked, published, phase, verdict>>

Next ==
  \/ \E r \in Requests : \/ Submit(r) \/ DecideByTrust(r)
                         \/ DecideByAssessment(r) \/ Publish(r) \/ Answer(r)
  \/ \E S \in SUBSET Requests : Lose(S)
  \/ Environment

Spec == Init /\ [][Next]_vars
=============================================================================
