------------------------ MODULE ScanDaemonRefinement ------------------------
(***************************************************************************)
(* ScanDaemon implements VerdictService, for every instance.               *)
(***************************************************************************)
EXTENDS ScanDaemonProofs

(* A scan's verdict is stored before any later step of its handler.        *)
ScansPublished ==
  \A r \in Requests :
    pc[r] \in Decided \ {"store_result"} /\ response[r].source = "scan" =>
      \E p \in published : p.by = r

(* A handler that is past store_result has stored its row. *)
LEMMA ScansPublishedStays ==
  IInv /\ ScansPublished /\ [Next]_vars => ScansPublished'
<1> SUFFICES ASSUME IInv, ScansPublished, [Next]_vars, NEW r \in Requests,
                    pc'[r] \in Decided \ {"store_result"}, response'[r].source = "scan"
             PROVE  \E p \in published' : p.by = r
  BY DEF ScansPublished
<1> USE DEF IInv, Typed, TypeOK, At, Goto, Decided
<1>1. CASE UNCHANGED vars
  BY <1>1 DEF vars, handlers, history, ScansPublished
<1>2. CASE StoreResult(r)
  <2>1. RowOf(r) \in published' /\ RowOf(r).by = r
    BY <1>2 DEF StoreResult, RowOf
  <2> QED
    BY <2>1
<1>3. CASE Next /\ ~StoreResult(r)
  <2>1. published \subseteq published'
    BY <1>3, StepsKeep
  <2>2. pc[r] \in Decided \ {"store_result"} /\ response[r].source = "scan"
    <3> USE DEF files, handlers, history
    <3>1. CASE pc'[r] = pc[r]
      <4>1. response[r] # NoRow
        BY <3>1, NullsAssumption DEF LocalsOK
      <4> QED
        BY <1>3, <3>1, <4>1, StepsKeep
    <3>2. CASE Arrive(r)
      BY <3>2 DEF Arrive, Reply
    <3>3. CASE CheckTrust(r)
      BY <3>3 DEF CheckTrust, Reply
    <3>4. CASE GetCachedResult(r)
      BY <3>4 DEF GetCachedResult
    <3>5. CASE RunPillars(r)
      BY <3>5 DEF RunPillars
    <3>6. CASE MirrorRead(r) \/ MirrorWrite(r) \/ AuditScan(r) \/ Respond(r)
      BY <3>6 DEF MirrorRead, MirrorWrite, AuditScan, Respond
    <3>7. CASE ScanFails(r) \/ Crash
      BY <3>1, <3>7 DEF ScanFails, Crash
    <3>8. ASSUME NEW q \in Requests \ {r}, Arrive(q) \/ Handler(q) \/ ScanFails(q)
          PROVE  pc'[r] = pc[r]
      BY <3>8 DEF Handler, Arrive, CheckTrust, GetCachedResult, RunPillars, StoreResult,
         MirrorRead, MirrorWrite, AuditScan, Respond, ScanFails
    <3>9. ASSUME \/ \E n \in Names : Trust(n) \/ Tamper(n)
                 \/ \E n \in Names, v \in Versions \cup {"*"} : InvalidatePackage(n, v)
                 \/ ClearExpired \/ Tick \/ Restart
          PROVE  pc'[r] = pc[r]
      BY <3>9 DEF Trust, Tamper, InvalidatePackage, ClearExpired, Tick, Restart
    <3> QED
      BY <1>3, <3>1, <3>2, <3>3, <3>4, <3>5, <3>6, <3>7, <3>8, <3>9 DEF Next, Handler
  <2> QED
    BY <2>1, <2>2 DEF ScansPublished
<1> QED
  BY <1>1, <1>2, <1>3

(* A daemon just started is a service nobody has asked. *)
LEMMA InitRefines == Init => Promise!Init
<1> SUFFICES ASSUME Init PROVE Promise!Init
  OBVIOUS
<1>1. Phase = [r \in Requests |-> "idle"]
  BY DEF Init, Phase, PhaseOf, Running
<1>2. Verdict = [r \in Requests |-> "none"]
  BY DEF Init, Verdict, VerdictOf
<1> QED
  BY <1>1, <1>2 DEF Init, Promise!Init, TrustStatus, Promise!TrustStatus

-----------------------------------------------------------------------------
(* A step of one handler moves one phase and one verdict. *)
LEMMA PhaseStep ==
  ASSUME NEW r \in Requests, \A q \in Requests \ {r} : pc'[q] = pc[q]
  PROVE  Phase' = [Phase EXCEPT ![r] = PhaseOf(r)']
<1>1. \A q \in Requests \ {r} : PhaseOf(q)' = PhaseOf(q)
  BY DEF PhaseOf
<1> QED
  BY <1>1 DEF Phase

(* A step that changes one handler's response changes one caller's verdict. *)
LEMMA VerdictStep ==
  ASSUME NEW r \in Requests, published' = published,
         \A q \in Requests \ {r} : response'[q] = response[q]
  PROVE  Verdict' = [Verdict EXCEPT ![r] = VerdictOf(r)']
<1>1. \A q \in Requests \ {r} : VerdictOf(q)' = VerdictOf(q)
  BY DEF VerdictOf
<1> QED
  BY <1>1 DEF Verdict

(* Steps that move no handler change no phase. *)
LEMMA PhaseSame == ASSUME pc' = pc PROVE Phase' = Phase
  BY DEF Phase, PhaseOf

(* Steps that build no response and store no row change no verdict. *)
LEMMA VerdictSame ==
  ASSUME response' = response, published' = published PROVE Verdict' = Verdict
  BY DEF Verdict, VerdictOf

(* What a caller sees at each await of the handler. *)
LEMMA PhaseValues ==
  ASSUME NEW r \in Requests
  PROVE  /\ pc[r] = "idle" => PhaseOf(r) = "idle"
         /\ pc[r] \in Running => PhaseOf(r) = "pending"
         /\ pc[r] = "done" => PhaseOf(r) = "answered"
         /\ pc[r] \in {"failed", "lost"} => PhaseOf(r) = "lost"
         /\ Phase[r] = PhaseOf(r) /\ Verdict[r] = VerdictOf(r)
  BY DEF PhaseOf, Phase, Verdict, Running

(* A handler that has no response, or a scan's not stored yet, looks       *)
(* undecided.                                                              *)
LEMMA LooksUndecided ==
  ASSUME IInv, NEW r \in Requests, pc[r] \in Undecided \cup {"store_result"}
  PROVE  Promise!Undecided(r)
<1>1. \A p \in published : p.by # r
  BY DEF IInv, Owned, PublishedOwned
<1>2. response[r] = NoRow \/ response[r].source = "scan"
  BY DEF IInv, Typed, LocalsOK, Undecided
<1>3. VerdictOf(r) = "none"
  BY <1>1, <1>2 DEF VerdictOf
<1>4. pc[r] \in Running
  BY DEF Undecided, Running
<1> QED
  BY <1>3, <1>4, PhaseValues DEF Promise!Undecided

(* The name and the key of a question are those of the scan's.             *)
LEMMA SameSubject ==
  ASSUME NEW r \in Requests PROVE Promise!Subject(input[r]) = KeyOf(r)
  BY DEF Promise!Subject, KeyOf, PkgKey

(* Accepting a scan, its policy's lists included, is Submit. *)
LEMMA ArriveSubmits ==
  ASSUME IInv, NEW r \in Requests, Arrive(r) PROVE Promise!Submit(r)
<1> USE DEF IInv, Typed, TypeOK
<1>1. pc[r] = "idle" /\ Phase[r] = "idle" /\ response[r] = NoRow
  BY PhaseValues DEF Arrive, At, LocalsOK
<1>2. PICK pol \in Policies :
        LET n == input[r].name
        IN  \/ /\ Blocks(pol, n)
               /\ Reply(r, "BLOCK", "policy_block") /\ Goto(r, "audit")
            \/ /\ Trusts(pol, n)
               /\ Reply(r, "ALLOW", "policy_trust") /\ Goto(r, "mirror_read")
            \/ /\ ~Blocks(pol, n) /\ ~Trusts(pol, n)
               /\ Goto(r, "check_trust") /\ UNCHANGED response
  BY DEF Arrive
<1>3. /\ UNCHANGED <<now, trust_cache, input, published>>
      /\ \A q \in Requests \ {r} : pc'[q] = pc[q] /\ response'[q] = response[q]
      /\ pc'[r] \in Running
  BY <1>2 DEF Arrive, Reply, Goto, files, history, Running
<1>4. Phase' = [Phase EXCEPT ![r] = "pending"]
  BY <1>3, PhaseStep DEF PhaseOf, Running
<1>5. VerdictOf(r)' = Promise!Ruling(pol, input[r].name)
  <2>1. CASE Blocks(pol, input[r].name)
    <3>1. response'[r] = [decision |-> "BLOCK", source |-> "policy_block", by |-> r]
      BY <1>2, <2>1 DEF Reply, Trusts
    <3>2. response'[r] # NoRow
      BY <3>1, NullsAssumption DEF Responses, Decisions
    <3> QED
      BY <2>1, <3>1, <3>2 DEF VerdictOf, Promise!Ruling, Blocks
  <2>2. CASE Trusts(pol, input[r].name)
    <3>1. response'[r] = [decision |-> "ALLOW", source |-> "policy_trust", by |-> r]
      BY <1>2, <2>2 DEF Reply, Trusts
    <3>2. response'[r] # NoRow
      BY <3>1, NullsAssumption DEF Responses, Decisions
    <3> QED
      BY <2>2, <3>1, <3>2 DEF VerdictOf, Promise!Ruling, Blocks, Trusts
  <2>3. CASE ~Blocks(pol, input[r].name) /\ ~Trusts(pol, input[r].name)
    BY <1>1, <1>2, <2>3 DEF VerdictOf, Promise!Ruling, Blocks, Trusts
  <2> QED
    BY <2>1, <2>2, <2>3
<1>6. Verdict' = [Verdict EXCEPT ![r] = Promise!Ruling(pol, input[r].name)]
  BY <1>3, <1>5, VerdictStep
<1> QED
  BY <1>1, <1>3, <1>4, <1>6 DEF Promise!Submit

(* A pending handler that stays pending without touching its verdict is    *)
(* not seen.                                                               *)
LEMMA PhaseStays ==
  ASSUME NEW r \in Requests, pc[r] \in Running, pc'[r] \in Running,
         \A q \in Requests \ {r} : pc'[q] = pc[q]
  PROVE  Phase' = Phase
<1>1. PhaseOf(r)' = "pending" /\ PhaseOf(r) = "pending"
  BY DEF PhaseOf, Running
<1>2. \A q \in Requests \ {r} : PhaseOf(q)' = PhaseOf(q)
  BY DEF PhaseOf
<1> QED
  BY <1>1, <1>2 DEF Phase

(* check_trust decides by the trust list, or nothing happens for the caller. *)
LEMMA TrustRefines ==
  ASSUME IInv, NEW r \in Requests, CheckTrust(r)
  PROVE  Promise!DecideByTrust(r) \/ UNCHANGED Promise!vars
<1> USE DEF IInv, Typed, TypeOK
<1>1. /\ UNCHANGED <<now, trust_cache, input, published>>
      /\ \A q \in Requests \ {r} : pc'[q] = pc[q] /\ response'[q] = response[q]
      /\ pc[r] = "check_trust" /\ pc'[r] \in Running
  BY DEF CheckTrust, At, Reply, Goto, files, history, Running
<1>2. Phase' = Phase
  BY <1>1, PhaseStays DEF Running
<1>3. Promise!Undecided(r)
  BY <1>1, LooksUndecided DEF Undecided
<1>4. Verdict' = [Verdict EXCEPT ![r] = VerdictOf(r)']
  BY <1>1, VerdictStep
<1>5. CASE trust_cache[input[r].name] = "verified"
  <2>1. response'[r] = [decision |-> "ALLOW", source |-> "trusted", by |-> r]
    BY <1>5 DEF CheckTrust, Reply
  <2>2. response'[r] # NoRow
    BY <2>1, NullsAssumption DEF Responses, Decisions
  <2>3. VerdictOf(r)' = "ALLOW"
    BY <2>1, <2>2 DEF VerdictOf
  <2> QED
    BY <1>1, <1>2, <1>3, <1>4, <1>5, <2>3 DEF Promise!DecideByTrust
<1>6. CASE trust_cache[input[r].name] = "legacy_no_mac"
  <2>1. response'[r] = [decision |-> "WARN", source |-> "trust_legacy_no_mac", by |-> r]
    BY <1>6 DEF CheckTrust, Reply
  <2>2. response'[r] # NoRow
    BY <2>1, NullsAssumption DEF Responses, Decisions
  <2>3. VerdictOf(r)' = "WARN"
    BY <2>1, <2>2 DEF VerdictOf
  <2> QED
    BY <1>1, <1>2, <1>3, <1>4, <1>6, <2>3 DEF Promise!DecideByTrust
<1>7. CASE trust_cache[input[r].name] \in {"unknown", "tampered"}
  <2>1. response' = response
    BY <1>7 DEF CheckTrust
  <2> QED
    BY <1>1, <1>2, <2>1, VerdictSame DEF Promise!vars
<1> QED
  BY <1>5, <1>6, <1>7 DEF CheckTrust

(* A cache hit decides by a published assessment; a miss is invisible. *)
LEMMA HitRefines ==
  ASSUME IInv, NEW r \in Requests, GetCachedResult(r)
  PROVE  Promise!DecideByAssessment(r) \/ UNCHANGED Promise!vars
<1> USE DEF IInv, Typed, TypeOK
<1>1. /\ UNCHANGED <<now, trust_cache, input, published>>
      /\ \A q \in Requests \ {r} : pc'[q] = pc[q] /\ response'[q] = response[q]
      /\ pc[r] = "get_cached_result" /\ pc'[r] \in Running
  BY DEF GetCachedResult, At, Goto, files, history, Running
<1>2. Phase' = Phase
  BY <1>1, PhaseStays DEF Running
<1>3. Promise!Undecided(r)
  BY <1>1, LooksUndecided DEF Undecided
<1>4. CASE Live(scan_cache[KeyOf(r)])
  <2> DEFINE row == scan_cache[KeyOf(r)]
  <2>1. row \in published /\ row.key = KeyOf(r) /\ row.at + CacheTTL > now
    BY <1>4, KeyType DEF Live, Owned, CachePublished
  <2>2. row.decision \in Promise!Supported(Promise!Subject(input[r]), now)
    BY <2>1, SameSubject DEF Promise!Supported
  <2>3. response'[r] = [decision |-> row.decision, by |-> row.by, source |-> "cache"]
    BY <1>4 DEF GetCachedResult
  <2>4. row.by \in Requests /\ row.decision \in Decisions
    BY <2>1 DEF Rows
  <2>5. response'[r] # NoRow
    BY <2>3, <2>4, NullsAssumption DEF Responses
  <2>6. VerdictOf(r)' = row.decision
    BY <2>3, <2>5 DEF VerdictOf
  <2>7. Verdict' = [Verdict EXCEPT ![r] = row.decision]
    BY <1>1, <2>6, VerdictStep
  <2> QED
    BY <1>1, <1>2, <1>3, <2>2, <2>7 DEF Promise!DecideByAssessment
<1>5. CASE ~Live(scan_cache[KeyOf(r)])
  <2>1. response' = response
    BY <1>5 DEF GetCachedResult
  <2> QED
    BY <1>1, <1>2, <2>1, VerdictSame DEF Promise!vars
<1> QED
  BY <1>4, <1>5

(* The pillars' answer is invisible until it is stored. *)
LEMMA PillarsRefine ==
  ASSUME IInv, NEW r \in Requests, RunPillars(r) PROVE UNCHANGED Promise!vars
<1> USE DEF IInv, Typed, TypeOK
<1>1. /\ UNCHANGED <<now, trust_cache, input, published>>
      /\ \A q \in Requests \ {r} : pc'[q] = pc[q] /\ response'[q] = response[q]
      /\ pc[r] = "pillars" /\ pc'[r] = "store_result"
      /\ response'[r].source = "scan"
  BY DEF RunPillars, At, Reply, Goto, files, history
<1>2. Phase' = Phase
  BY <1>1, PhaseStays DEF Running
<1>3. \A p \in published : p.by # r
  BY <1>1 DEF Owned, PublishedOwned, Undecided
<1>4. response[r] = NoRow
  BY <1>1 DEF LocalsOK, Undecided
<1>5. VerdictOf(r)' = "none" /\ VerdictOf(r) = "none"
  BY <1>1, <1>3, <1>4 DEF VerdictOf
<1>6. \A q \in Requests \ {r} : VerdictOf(q)' = VerdictOf(q)
  BY <1>1 DEF VerdictOf
<1>7. Verdict' = Verdict
  BY <1>5, <1>6 DEF Verdict
<1> QED
  BY <1>1, <1>2, <1>7 DEF Promise!vars

(* store_result publishes the assessment and fixes the verdict in one step. *)
LEMMA StorePublishes ==
  ASSUME IInv, NEW r \in Requests, StoreResult(r) PROVE Promise!Publish(r)
<1> USE DEF IInv, Typed, TypeOK
<1>1. /\ UNCHANGED <<now, trust_cache, input, response>>
      /\ published' = published \cup {RowOf(r)}
      /\ \A q \in Requests \ {r} : pc'[q] = pc[q]
      /\ pc[r] = "store_result" /\ pc'[r] \in Running
  BY DEF StoreResult, AfterStore, At, Goto, Running
<1>2. Phase' = Phase
  BY <1>1, PhaseStays DEF Running
<1>3. response[r] \in Responses /\ response[r].source = "scan"
  BY <1>1 DEF LocalsOK, Decided
<1>4. response[r] # NoRow /\ response[r].decision \in {"ALLOW", "WARN", "BLOCK"}
  BY <1>3, NullsAssumption DEF Responses, Decisions
<1>5. RowOf(r) = [key |-> Promise!Subject(input[r]), by |-> r,
                  decision |-> response[r].decision, at |-> now]
  BY SameSubject DEF RowOf
<1>6. RowOf(r) \in published' /\ RowOf(r).by = r
  BY <1>1 DEF RowOf
<1>7. VerdictOf(r)' = response[r].decision
  BY <1>1, <1>4, <1>6 DEF VerdictOf
<1>8. \A q \in Requests \ {r} :
        (\A p \in published' : p.by # q) <=> (\A p \in published : p.by # q)
  BY <1>1, <1>6
<1>9. \A q \in Requests \ {r} : VerdictOf(q)' = VerdictOf(q)
  BY <1>1, <1>8 DEF VerdictOf
<1>10. Verdict' = [Verdict EXCEPT ![r] = response[r].decision]
  BY <1>7, <1>9 DEF Verdict
<1>11. Promise!Undecided(r)
  BY <1>1, LooksUndecided
<1> QED
  BY <1>1, <1>2, <1>4, <1>5, <1>10, <1>11 DEF Promise!Publish

(* Mirror and audit log are invisible.                                     *)
LEMMA BackstageStutters ==
  ASSUME IInv, NEW r \in Requests, MirrorRead(r) \/ MirrorWrite(r) \/ AuditScan(r)
  PROVE  UNCHANGED Promise!vars
<1>1. /\ UNCHANGED <<now, trust_cache, input, response, published>>
      /\ \A q \in Requests \ {r} : pc'[q] = pc[q]
      /\ pc[r] \in Running /\ pc'[r] \in Running
  BY DEF MirrorRead, MirrorWrite, AuditScan, At, Goto, files, history, Running,
     IInv, Typed, TypeOK
<1>2. Phase' = Phase
  BY <1>1, PhaseStays
<1> QED
  BY <1>1, <1>2, VerdictSame DEF Promise!vars

(* The reply answers, with a verdict that has been fixed. *)
LEMMA RespondAnswers ==
  ASSUME IInv, ScansPublished, NEW r \in Requests, Respond(r) PROVE Promise!Answer(r)
<1> USE DEF IInv, Typed, TypeOK
<1>1. /\ UNCHANGED <<now, trust_cache, input, response, published>>
      /\ \A q \in Requests \ {r} : pc'[q] = pc[q]
      /\ pc[r] = "respond" /\ pc'[r] = "done"
  BY DEF Respond, At, Goto, files, history
<1>2. Phase' = [Phase EXCEPT ![r] = "answered"]
  <2>1. PhaseOf(r)' = "answered"
    BY <1>1 DEF PhaseOf, Running
  <2> QED
    BY <1>1, <2>1, PhaseStep
<1>3. Phase[r] = "pending"
  BY <1>1, PhaseValues DEF Running
<1>4. response[r] \in Responses /\ response[r] # NoRow
  BY <1>1, NullsAssumption DEF LocalsOK, Decided
<1>5. response[r].source = "scan" => \E p \in published : p.by = r
  BY <1>1 DEF ScansPublished, Decided
<1>6. Verdict[r] # "none"
  BY <1>4, <1>5 DEF Verdict, VerdictOf, Responses, Decisions
<1> QED
  BY <1>1, <1>2, <1>3, <1>6, VerdictSame DEF Promise!Answer

(* A 500 loses one question. *)
LEMMA FailureLoses ==
  ASSUME IInv, NEW r \in Requests, ScanFails(r) PROVE Promise!Lose({r})
<1>1. /\ UNCHANGED <<now, trust_cache, input, response, published>>
      /\ \A q \in Requests \ {r} : pc'[q] = pc[q]
      /\ pc[r] \in Running /\ pc'[r] = "failed"
  BY DEF ScanFails, Goto, files, history, Running, IInv, Typed, TypeOK
<1>2. PhaseOf(r)' = "lost"
  BY <1>1 DEF PhaseOf, Running
<1>3. Phase' = [Phase EXCEPT ![r] = "lost"]
  BY <1>1, <1>2, PhaseStep
<1>4. Phase' = [q \in Requests |-> IF q \in {r} THEN "lost" ELSE Phase[q]]
  BY <1>3 DEF Phase
<1>5. Phase[r] = "pending"
  BY <1>1, PhaseValues
<1> QED
  BY <1>1, <1>4, <1>5, VerdictSame DEF Promise!Lose

(* The death of the daemon loses the questions in flight. *)
LEMMA CrashLoses ==
  ASSUME IInv, Crash PROVE Promise!Lose({r \in Requests : pc[r] \in Running})
<1> DEFINE S == {r \in Requests : pc[r] \in Running}
<1>1. /\ UNCHANGED <<now, trust_cache, input, response, published>>
      /\ pc' = [r \in Requests |-> IF pc[r] \in Running THEN "lost" ELSE pc[r]]
  BY DEF Crash, files, history
<1>2. \A r \in S : Phase[r] = "pending"
  BY PhaseValues
<1>3. \A r \in S : PhaseOf(r)' = "lost"
  BY <1>1 DEF PhaseOf, Running
<1>4. \A r \in Requests \ S : PhaseOf(r)' = PhaseOf(r)
  BY <1>1 DEF PhaseOf
<1>5. Phase' = [r \in Requests |-> IF r \in S THEN "lost" ELSE Phase[r]]
  BY <1>3, <1>4 DEF Phase
<1> QED
  BY <1>1, <1>2, <1>5, VerdictSame DEF Promise!Lose

(* The endpoints for trust are the environment's; purges and invalidations are invisible. *)
LEMMA EnvironmentRefines ==
  ASSUME IInv,
         \/ \E n \in Names : Trust(n) \/ Tamper(n)
         \/ \E n \in Names, v \in Versions \cup {"*"} : InvalidatePackage(n, v)
         \/ ClearExpired \/ Tick \/ Restart
  PROVE  Promise!Environment \/ UNCHANGED Promise!vars
<1>1. UNCHANGED <<pc, response, published, input>>
  BY DEF Trust, Tamper, InvalidatePackage, ClearExpired, Tick, Restart, handlers, history
<1>2. Phase' = Phase /\ Verdict' = Verdict
  BY <1>1, PhaseSame, VerdictSame
<1>3. ASSUME NEW n \in Names, Trust(n) \/ Tamper(n) PROVE Promise!Environment
  BY <1>1, <1>2, <1>3 DEF Trust, Tamper, Promise!Environment, Promise!TrustStatus
<1>4. CASE Tick
  BY <1>1, <1>2, <1>4 DEF Tick, files, Promise!Environment
<1>5. ASSUME \/ \E n \in Names, v \in Versions \cup {"*"} : InvalidatePackage(n, v)
             \/ ClearExpired \/ Restart
      PROVE  UNCHANGED Promise!vars
  BY <1>1, <1>2, <1>5 DEF InvalidatePackage, ClearExpired, Restart, files, Promise!vars
<1> QED
  BY <1>3, <1>4, <1>5

(* Every step of the daemon is a step of the service or none. *)
LEMMA StepRefines ==
  IInv /\ ScansPublished /\ [Next]_vars => [Promise!Next]_(Promise!vars)
<1> SUFFICES ASSUME IInv, ScansPublished, [Next]_vars
             PROVE  Promise!Next \/ UNCHANGED Promise!vars
  OBVIOUS
<1>1. CASE UNCHANGED vars
  <2>1. UNCHANGED <<now, trust_cache, input, published, pc, response>>
    BY <1>1 DEF vars, files, handlers, history
  <2> QED
    BY <2>1, PhaseSame, VerdictSame DEF Promise!vars
<1>2. ASSUME NEW r \in Requests, Arrive(r) \/ Handler(r) \/ ScanFails(r)
      PROVE  Promise!Next \/ UNCHANGED Promise!vars
  BY <1>2, ArriveSubmits, TrustRefines, HitRefines, PillarsRefine, StorePublishes,
     BackstageStutters, RespondAnswers, FailureLoses DEF Handler, Promise!Next
<1>3. CASE Crash
  BY <1>3, CrashLoses DEF Promise!Next
<1>4. ASSUME \/ \E n \in Names : Trust(n) \/ Tamper(n)
             \/ \E n \in Names, v \in Versions \cup {"*"} : InvalidatePackage(n, v)
             \/ ClearExpired \/ Tick \/ Restart
      PROVE  Promise!Next \/ UNCHANGED Promise!vars
  BY <1>4, EnvironmentRefines DEF Promise!Next
<1> QED
  BY <1>1, <1>2, <1>3, <1>4 DEF Next

(* The daemon keeps the promise of POST /scan: caches, mirror, log,        *)
(* invalidations, failures and crashes show a caller nothing that          *)
(* VerdictService does not allow.                                          *)
THEOREM Refinement == Spec => ImplementsVerdictService
<1>1. Init => ScansPublished
  BY DEF Init, ScansPublished, Decided
<1>2. IInv /\ ScansPublished /\ [Next]_vars => ScansPublished'
  BY ScansPublishedStays
<1>3. Init => Promise!Init
  BY InitRefines
<1>4. IInv /\ ScansPublished /\ [Next]_vars => [Promise!Next]_(Promise!vars)
  BY StepRefines
<1> QED
  BY <1>1, <1>2, <1>3, <1>4, Invariance, PTL DEF Spec, ImplementsVerdictService, Promise!Spec
=============================================================================
