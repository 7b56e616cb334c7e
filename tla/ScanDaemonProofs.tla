-------------------------- MODULE ScanDaemonProofs --------------------------
(***************************************************************************)
(* Safety of ScanDaemon for any number of requests, any packages, any      *)
(* policies and any thresholds.                                            *)
(***************************************************************************)
EXTENDS ScanDaemon, TLAPS

(* Where a handler stands says which of its locals are set. *)
Undecided == {"check_trust", "get_cached_result", "pillars"}
Decided == {"store_result", "mirror_read", "mirror_write", "audit", "respond", "done"}

LocalsOK ==
  \A r \in Requests :
    /\ pc[r] = "idle" => policy[r] = None /\ response[r] = NoRow
    /\ pc[r] # "idle" => policy[r] \in Policies
    /\ pc[r] \in Undecided => response[r] = NoRow
    /\ pc[r] \in Decided => response[r] \in Responses
    /\ pc[r] = "store_result" => response[r].source = "scan"
    /\ pc[r] \in {"mirror_read", "mirror_write"} =>
         response[r].decision = "ALLOW" /\ response[r].source # "cache"

Typed == TypeOK /\ LocalsOK

(* The key a request looks up and stores under (_pkg_key) is a key of its own package. *)
LEMMA KeyType ==
  ASSUME TypeOK, NEW r \in Requests
  PROVE  /\ KeyOf(r) \in Keys
         /\ input[r].name \in Names
         /\ KeyOf(r)[1] = input[r].name
  BY NamesAssumption, VersionsAssumption DEF TypeOK, KeyOf, PkgKey, Keys

(* get_decision answers one of the three verdicts. *)
LEMMA DecisionType ==
  ASSUME NEW s PROVE GetDecision(s) \in Decisions
  BY DEF GetDecision, Decisions

(* A daemon just started has its variables typed and its handlers' locals unset. *)
LEMMA InitTyped == Init => Typed
  BY SettingsAssumption, NullsAssumption
  DEF Init, Typed, TypeOK, LocalsOK, Running, Idle, Mirrors, Evictions, Undecided, Decided

(* Each step keeps the types, and leaves a handler's locals as its await   *)
(* says.                                                                   *)
LEMMA NextTyped == Typed /\ [Next]_vars => Typed'
<1> SUFFICES ASSUME Typed, [Next]_vars PROVE Typed'
  OBVIOUS
<1> USE DEF Typed, files, handlers, history, Decisions
<1>1. ASSUME NEW r \in Requests, Arrive(r) PROVE Typed'
  <2>1. PICK pol \in Policies :
          /\ policy' = [policy EXCEPT ![r] = pol]
          /\ \/ Reply(r, "BLOCK", "policy_block") /\ Goto(r, "audit")
             \/ Reply(r, "ALLOW", "policy_trust") /\ Goto(r, "mirror_read")
             \/ Goto(r, "check_trust") /\ UNCHANGED response
    BY <1>1 DEF Arrive
  <2>2. pc[r] = "idle"
    BY <1>1 DEF Arrive, At
  <2>3. TypeOK'
    BY <1>1, <2>1 DEF Arrive, Reply, Goto, TypeOK, Running, Idle, Responses
  <2>4. LocalsOK'
    BY <1>1, <2>1, <2>2 DEF Arrive, Reply, Goto, TypeOK, LocalsOK, Running, Idle,
         Undecided, Decided, Responses
  <2> QED
    BY <2>3, <2>4
<1>2. ASSUME NEW r \in Requests, CheckTrust(r) PROVE Typed'
  BY <1>2 DEF CheckTrust, At, Reply, Goto, TypeOK, LocalsOK, Running, Idle,
       Undecided, Decided, Responses
<1>3. ASSUME NEW r \in Requests, GetCachedResult(r) PROVE Typed'
  BY <1>3, KeyType DEF GetCachedResult, Live, At, Goto, TypeOK, LocalsOK, Running,
       Idle, Undecided, Decided, Responses, Rows
<1>4. ASSUME NEW r \in Requests, RunPillars(r) PROVE Typed'
  BY <1>4, DecisionType DEF RunPillars, At, Reply, Goto, TypeOK, LocalsOK, Running,
       Idle, Undecided, Decided, Responses
<1>5. ASSUME NEW r \in Requests, StoreResult(r) PROVE Typed'
  BY <1>5, KeyType DEF StoreResult, RowOf, AfterStore, At, Goto, TypeOK, LocalsOK,
       Running, Idle, Undecided, Decided, Responses, Rows
<1>6. ASSUME NEW r \in Requests, MirrorRead(r) PROVE Typed'
  <2>1. [k \in Keys |-> NoRow] \in Mirrors
    BY DEF Mirrors
  <2>2. /\ snapshot' = [snapshot EXCEPT ![r] = offline_cache]
           \/ snapshot' = [snapshot EXCEPT ![r] = [k \in Keys |-> NoRow]]
        /\ pc[r] = "mirror_read"
        /\ pc' = [pc EXCEPT ![r] = "mirror_write"]
        /\ UNCHANGED <<now, up, files, input, policy, response, history>>
    BY <1>6 DEF MirrorRead, At, Goto
  <2>3. TypeOK'
    BY <2>1, <2>2 DEF TypeOK, Running, Idle
  <2>4. LocalsOK'
    BY <2>2 DEF TypeOK, LocalsOK, Undecided, Decided
  <2> QED
    BY <2>3, <2>4
<1>7. ASSUME NEW r \in Requests, MirrorWrite(r) PROVE Typed'
  BY <1>7, KeyType DEF MirrorWrite, At, Goto, TypeOK, LocalsOK, Running, Idle,
       Undecided, Decided, Mirrors, Entries
<1>8. ASSUME NEW r \in Requests, AuditScan(r) PROVE Typed'
  <2>1. RecordOf(r) \in AuditRecords
    BY <1>8, KeyType DEF AuditScan, RecordOf, At, LocalsOK, Decided, AuditRecords,
         Responses
  <2>2. TypeOK'
    BY <1>8, <2>1 DEF AuditScan, At, Goto, TypeOK, Running, Idle
  <2>3. LocalsOK'
    BY <1>8 DEF AuditScan, At, Goto, TypeOK, LocalsOK, Undecided, Decided
  <2> QED
    BY <2>2, <2>3
<1>9. ASSUME NEW r \in Requests, Respond(r) PROVE Typed'
  BY <1>9 DEF Respond, At, Goto, TypeOK, LocalsOK, Running, Idle, Undecided, Decided
<1>10. ASSUME NEW r \in Requests, ScanFails(r) PROVE Typed'
  BY <1>10 DEF ScanFails, Goto, TypeOK, LocalsOK, Running, Idle, Undecided, Decided
<1>11. ASSUME NEW n \in Names, Trust(n) \/ Tamper(n) PROVE Typed'
  BY <1>11 DEF Trust, Tamper, TypeOK, LocalsOK, TrustStatus
<1>12. ASSUME NEW n \in Names, NEW v \in Versions \cup {"*"}, InvalidatePackage(n, v)
       PROVE  Typed'
  <2>1. \A k : Found(k) \in Evictions
    BY DEF Found, Evictions, TypeOK, Rows
  <2> QED
    BY <1>12, <2>1 DEF InvalidatePackage, TypeOK, LocalsOK
<1>13. ASSUME ClearExpired PROVE Typed'
  BY <1>13 DEF ClearExpired, TypeOK, LocalsOK
<1>14. ASSUME Tick PROVE Typed'
  BY <1>14, SettingsAssumption DEF Tick, TypeOK, LocalsOK
<1>15. ASSUME Crash PROVE Typed'
  <2>1. [k \in Keys |-> NoRow] \in Mirrors
    BY DEF Mirrors
  <2>2. TypeOK'
    BY <1>15, <2>1 DEF Crash, TypeOK, Idle
  <2>3. LocalsOK'
    BY <1>15 DEF Crash, TypeOK, LocalsOK, Running, Idle, Undecided, Decided
  <2> QED
    BY <2>2, <2>3
<1>16. ASSUME Restart PROVE Typed'
  BY <1>16 DEF Restart, TypeOK, LocalsOK
<1>17. CASE UNCHANGED vars
  BY <1>17 DEF vars, TypeOK, LocalsOK
<1> QED
  BY <1>1, <1>2, <1>3, <1>4, <1>5, <1>6, <1>7, <1>8, <1>9, <1>10, <1>11, <1>12,
     <1>13, <1>14, <1>15, <1>16, <1>17 DEF Next, Handler

(* Every variable of the scan path keeps its type, and no handler reads a  *)
(* local it has not set: router.py builds a response before any path uses  *)
(* one.                                                                    *)
THEOREM TypeCorrect == Spec => [](TypeOK /\ LocalsOK)
<1>1. Typed /\ [Next]_vars => Typed'
  BY NextTyped
<1>2. Init => Typed
  BY InitTyped
<1> QED
  BY <1>1, <1>2, PTL DEF Spec, Typed

-----------------------------------------------------------------------------
(* The inductive invariant: what each piece of shared state owes to the    *)
(* request that put it there.                                              *)

(* A verdict is the request's own, or one that a scan published.           *)
ResponsesOwned ==
  \A r \in Requests : response[r] # NoRow =>
    /\ response[r].source # "cache" => response[r].by = r
    /\ response[r].source = "cache" =>
         \E p \in published : /\ p.key = KeyOf(r) /\ p.by = response[r].by
                              /\ p.decision = response[r].decision

(* A published row is the verdict of a scan that is past storing it.       *)
PublishedOwned ==
  \A p \in published :
    /\ p.key = KeyOf(p.by)
    /\ pc[p.by] \notin Undecided \cup {"idle", "store_result"}
    /\ response[p.by] # NoRow
    /\ response[p.by].source = "scan" /\ response[p.by].decision = p.decision

CachePublished ==
  \A k \in Keys : scan_cache[k] # NoRow =>
    scan_cache[k] \in published /\ scan_cache[k].key = k

(* The entries key k may have: each the ALLOW of a request about k.        *)
Deserving(k) ==
  {e \in Entries : /\ KeyOf(e.by) = k
                   /\ response[e.by] # NoRow /\ response[e.by].decision = "ALLOW"
                   /\ response[e.by].source # "cache"
                   /\ e.at <= now}

(* Copies of the offline cache in flight count as much as the file.        *)
MirrorsDeserved ==
  \A k \in Keys :
    /\ offline_cache[k] \in Deserving(k) \cup {NoRow}
    /\ \A r \in Requests : snapshot[r][k] \in Deserving(k) \cup {NoRow}

BlockedAnswered ==
  \A r \in Requests :
    policy[r] # None /\ Blocks(policy[r], input[r].name) =>
      /\ response[r] # NoRow /\ response[r].decision = "BLOCK"
      /\ response[r].source = "policy_block"

(* What an invalidation found stored is published, and out of the cache.   *)
AvoidGone ==
  \A r \in Requests :
    /\ \A q \in avoid[r].stored : \E p \in published : p.by = q
    /\ scan_cache[KeyOf(r)] # NoRow => scan_cache[KeyOf(r)].by \notin avoid[r].stored
    /\ response[r] # NoRow /\ response[r].source = "cache" =>
         response[r].by \notin avoid[r].stored

Owned == /\ ResponsesOwned /\ PublishedOwned /\ CachePublished /\ MirrorsDeserved
         /\ BlockedAnswered /\ AvoidGone /\ AuditAgrees

IInv == Typed /\ Owned

(* What every step keeps: bodies, verdicts once given, published rows; and *)
(* a handler that has left the front half never gets back to it.           *)
LEMMA StepsKeep ==
  ASSUME Typed, Next
  PROVE  /\ input' = input
         /\ \A r \in Requests : KeyOf(r)' = KeyOf(r)
         /\ \A r \in Requests : response[r] # NoRow => response'[r] = response[r]
         /\ published \subseteq published'
         /\ now \in Nat /\ now' \in Nat /\ now <= now'
         /\ \A r \in Requests : pc[r] \notin Undecided \cup {"idle", "store_result"}
              => pc'[r] \notin Undecided \cup {"idle", "store_result"}
         /\ \A r \in Requests : policy[r] # None => policy'[r] = policy[r]
<1> USE DEF Typed, files, handlers, history
<1>1. ASSUME NEW r \in Requests, Arrive(r)
      PROVE  /\ UNCHANGED <<input, now, published>>
             /\ pc[r] = "idle" /\ policy[r] = None /\ response[r] = NoRow
             /\ \A q \in Requests \ {r} :
                  response'[q] = response[q] /\ pc'[q] = pc[q] /\ policy'[q] = policy[q]
  BY <1>1 DEF Arrive, At, Reply, Goto, TypeOK, LocalsOK
<1>2. ASSUME NEW r \in Requests, CheckTrust(r) \/ GetCachedResult(r) \/ RunPillars(r)
      PROVE  /\ UNCHANGED <<input, now, published, policy>>
             /\ pc[r] \in Undecided /\ response[r] = NoRow
             /\ \A q \in Requests \ {r} : response'[q] = response[q] /\ pc'[q] = pc[q]
  BY <1>2 DEF CheckTrust, GetCachedResult, RunPillars, At, Reply, Goto, TypeOK,
       LocalsOK, Undecided
<1>3. ASSUME NEW r \in Requests,
             StoreResult(r) \/ MirrorRead(r) \/ MirrorWrite(r) \/ AuditScan(r)
             \/ Respond(r) \/ ScanFails(r)
      PROVE  /\ UNCHANGED <<input, now, response, policy>>
             /\ published \subseteq published'
             /\ pc'[r] \notin Undecided \cup {"idle", "store_result"}
             /\ \A q \in Requests \ {r} : pc'[q] = pc[q]
  BY <1>3 DEF StoreResult, AfterStore, MirrorRead, MirrorWrite, AuditScan, Respond,
       ScanFails, At, Goto, TypeOK, Undecided
<1>4. ASSUME \/ \E n \in Names : Trust(n) \/ Tamper(n)
             \/ \E n \in Names, v \in Versions \cup {"*"} : InvalidatePackage(n, v)
             \/ ClearExpired \/ Restart
      PROVE  UNCHANGED <<input, now, response, policy, published, pc>>
  BY <1>4 DEF Trust, Tamper, InvalidatePackage, ClearExpired, Restart
<1>5. ASSUME Tick
      PROVE  UNCHANGED <<input, response, policy, published, pc>> /\ now' = now + 1
  BY <1>5 DEF Tick
<1>6. ASSUME Crash
      PROVE  /\ UNCHANGED <<input, now, response, policy, published>>
             /\ \A r \in Requests : pc'[r] \in {"lost", pc[r]}
  BY <1>6 DEF Crash, TypeOK
<1>7. now \in Nat
  BY SettingsAssumption DEF TypeOK
<1>8. input' = input /\ published \subseteq published' /\ now' \in Nat /\ now <= now'
  BY <1>1, <1>2, <1>3, <1>4, <1>5, <1>6, <1>7 DEF Next, Handler
<1>9. \A r \in Requests : KeyOf(r)' = KeyOf(r)
  BY <1>8 DEF KeyOf
<1>10. ASSUME NEW r \in Requests, response[r] # NoRow PROVE response'[r] = response[r]
  BY <1>1, <1>2, <1>3, <1>4, <1>5, <1>6, <1>10 DEF Next, Handler
<1>11. ASSUME NEW r \in Requests, pc[r] \notin Undecided \cup {"idle", "store_result"}
       PROVE  pc'[r] \notin Undecided \cup {"idle", "store_result"}
  BY <1>1, <1>2, <1>3, <1>4, <1>5, <1>6, <1>11 DEF Next, Handler, Undecided
<1>12. ASSUME NEW r \in Requests, policy[r] # None PROVE policy'[r] = policy[r]
  BY <1>1, <1>2, <1>3, <1>4, <1>5, <1>6, <1>12 DEF Next, Handler
<1> QED
  BY <1>7, <1>8, <1>9, <1>10, <1>11, <1>12

(* A daemon just started has empty caches and log: nothing in them needs a reason. *)
LEMMA InitOwned == Init => Owned
  BY DEF Init, Owned, ResponsesOwned, PublishedOwned, CachePublished, MirrorsDeserved,
     BlockedAnswered, AvoidGone, AuditAgrees

(* A handler gives its verdict in one of four steps. *)
LEMMA VerdictSteps ==
  ASSUME IInv, Next, NEW r \in Requests, response[r] = NoRow, response'[r] # NoRow
  PROVE  \/ Arrive(r) /\ response'[r].source \in {"policy_block", "policy_trust"}
         \/ CheckTrust(r) /\ response'[r].source \in {"trusted", "trust_legacy_no_mac"}
         \/ GetCachedResult(r) /\ response'[r].source = "cache"
         \/ RunPillars(r) /\ response'[r].source = "scan"
<1> USE DEF files, handlers, history, Reply, IInv, Typed, TypeOK
<1>1. \A q \in Requests : Arrive(q) \/ CheckTrust(q) \/ GetCachedResult(q) \/ RunPillars(q)
        => \A t \in Requests \ {q} : response'[t] = response[t]
  BY DEF Arrive, CheckTrust, GetCachedResult, RunPillars
<1>2. \A q \in Requests : StoreResult(q) \/ MirrorRead(q) \/ MirrorWrite(q) \/ AuditScan(q)
        \/ Respond(q) \/ ScanFails(q) => response' = response
  BY DEF StoreResult, MirrorRead, MirrorWrite, AuditScan, Respond, ScanFails
<1>3. ASSUME \/ \E n \in Names : Trust(n) \/ Tamper(n)
             \/ \E n \in Names, v \in Versions \cup {"*"} : InvalidatePackage(n, v)
             \/ ClearExpired \/ Tick \/ Crash \/ Restart
      PROVE  response' = response
  BY <1>3 DEF Trust, Tamper, InvalidatePackage, ClearExpired, Tick, Crash, Restart
<1>4. Arrive(r) \/ CheckTrust(r) \/ GetCachedResult(r) \/ RunPillars(r)
  BY <1>1, <1>2, <1>3 DEF Next, Handler
<1>5. Arrive(r) => response'[r].source \in {"policy_block", "policy_trust"}
  BY DEF Arrive
<1>6. CheckTrust(r) => response'[r].source \in {"trusted", "trust_legacy_no_mac"}
  BY DEF CheckTrust
<1>7. GetCachedResult(r) => response'[r].source = "cache"
  BY DEF GetCachedResult
<1>8. RunPillars(r) => response'[r].source = "scan"
  BY DEF RunPillars
<1> QED
  BY <1>4, <1>5, <1>6, <1>7, <1>8

(* A verdict is its request's own, or that of a scan it was served from the cache. *)
LEMMA ResponsesStay == IInv /\ Next => ResponsesOwned'
<1> SUFFICES ASSUME IInv, Next, NEW r \in Requests, response'[r] # NoRow
             PROVE  /\ response'[r].source # "cache" => response'[r].by = r
                    /\ response'[r].source = "cache" =>
                         \E p \in published' : /\ p.key = KeyOf(r)'
                                               /\ p.by = response'[r].by
                                               /\ p.decision = response'[r].decision
  BY DEF ResponsesOwned
<1> USE DEF IInv, Owned, ResponsesOwned
<1>1. CASE response[r] # NoRow
  BY <1>1, StepsKeep
<1>2. CASE response[r] = NoRow
  <2>1. Arrive(r) \/ CheckTrust(r) \/ RunPillars(r) => response'[r].by = r
    <3>1. response \in [Requests -> Responses \cup {NoRow}]
      BY DEF Typed, TypeOK
    <3>2. Arrive(r) => response'[r].by = r
      BY ONLY <1>2, <3>1, r \in Requests, response'[r] # NoRow DEF Arrive, Reply
    <3>3. CheckTrust(r) => response'[r].by = r
      BY ONLY <1>2, <3>1, r \in Requests, response'[r] # NoRow DEF CheckTrust, Reply
    <3>4. RunPillars(r) => response'[r].by = r
      BY ONLY <3>1, r \in Requests DEF RunPillars, Reply
    <3> QED
      BY ONLY <3>2, <3>3, <3>4
  <2>2. GetCachedResult(r) =>
          \E p \in published : /\ p.key = KeyOf(r) /\ p.by = response'[r].by
                               /\ p.decision = response'[r].decision
    BY <1>2, KeyType DEF GetCachedResult, Live, CachePublished, Typed, TypeOK
  <2> QED
    BY <1>2, <2>1, <2>2, VerdictSteps, StepsKeep
<1> QED
  BY <1>1, <1>2

(* A stored row is its scan's verdict, and that scan never stores again. *)
LEMMA PublishedStays == IInv /\ Next => PublishedOwned'
<1> SUFFICES ASSUME IInv, Next, NEW p \in published'
             PROVE  /\ p.key = KeyOf(p.by)'
                    /\ pc'[p.by] \notin Undecided \cup {"idle", "store_result"}
                    /\ response'[p.by] # NoRow
                    /\ response'[p.by].source = "scan"
                    /\ response'[p.by].decision = p.decision
  BY DEF PublishedOwned
<1> USE DEF IInv, Owned, PublishedOwned
<1>1. CASE p \in published
  <2>1. p.by \in Requests
    BY <1>1 DEF Typed, TypeOK, Rows
  <2> QED
    BY <1>1, <2>1, StepsKeep
<1>2. CASE p \notin published
  <2>1. PICK r \in Requests : StoreResult(r) /\ p = RowOf(r)
    <3>1. \/ published' = published
          \/ \E r \in Requests : StoreResult(r)
      BY DEF Next, Handler, Arrive, CheckTrust, GetCachedResult, RunPillars, MirrorRead,
         MirrorWrite, AuditScan, Respond, ScanFails, Trust, Tamper, ClearExpired,
         InvalidatePackage, Tick, Crash, Restart, history
    <3> QED
      BY <1>2, <3>1 DEF StoreResult
  <2>2. /\ p.by = r /\ p.key = KeyOf(r) /\ p.decision = response[r].decision
        /\ response' = response
    BY <2>1 DEF StoreResult, RowOf
  <2>3. pc[r] = "store_result" /\ pc'[r] \in {"mirror_read", "audit"}
    BY <2>1 DEF StoreResult, AfterStore, At, Goto, Typed, TypeOK
  <2>4. response[r] # NoRow /\ response[r].source = "scan"
    BY <2>3, NullsAssumption DEF Typed, LocalsOK, Decided
  <2> QED
    BY <2>2, <2>3, <2>4, StepsKeep DEF Undecided
<1> QED
  BY <1>1, <1>2

(* The scan cache holds rows that scans stored, each under its own key. *)
LEMMA CacheStays == IInv /\ Next => CachePublished'
<1> SUFFICES ASSUME IInv, Next, NEW k \in Keys, scan_cache'[k] # NoRow
             PROVE  scan_cache'[k] \in published' /\ scan_cache'[k].key = k
  BY DEF CachePublished
<1> USE DEF IInv, Owned, CachePublished
<1>1. CASE scan_cache'[k] = scan_cache[k]
  BY <1>1, StepsKeep
<1>2. CASE scan_cache'[k] # scan_cache[k]
  <2>1. PICK r \in Requests : StoreResult(r)
    BY <1>2 DEF Next, Handler, Arrive, CheckTrust, GetCachedResult, RunPillars, MirrorRead,
       MirrorWrite, AuditScan, Respond, ScanFails, Trust, Tamper, ClearExpired,
       InvalidatePackage, Tick, Crash, Restart, files
  <2> QED
    BY <1>2, <2>1 DEF StoreResult, RowOf, Typed, TypeOK
<1> QED
  BY <1>1, <1>2

(* The offline cache, and every copy a record_allow thread holds, has deserved entries only. *)
LEMMA MirrorsStay == IInv /\ Next => MirrorsDeserved'
<1> SUFFICES ASSUME IInv, Next PROVE MirrorsDeserved'
  OBVIOUS
<1> USE DEF IInv, Owned
<1>1. ASSUME NEW k \in Keys PROVE Deserving(k) \subseteq Deserving(k)'
  <2> SUFFICES ASSUME NEW e \in Deserving(k) PROVE e \in Deserving(k)'
    OBVIOUS
  <2>1. e \in Entries /\ e.by \in Requests /\ e.at \in Nat
    BY SettingsAssumption DEF Entries, Deserving
  <2>2. KeyOf(e.by)' = k
    BY <2>1, StepsKeep DEF Deserving
  <2>3. response'[e.by] = response[e.by] /\ response[e.by] # NoRow
    BY <2>1, StepsKeep DEF Deserving
  <2>4. e.at <= now'
    BY <2>1, StepsKeep DEF Deserving
  <2> QED
    BY <2>1, <2>2, <2>3, <2>4 DEF Deserving
<1>2. ASSUME NEW r \in Requests, MirrorWrite(r)
      PROVE  [by |-> r, at |-> now] \in Deserving(KeyOf(r))'
  <2>1. /\ response[r] # NoRow /\ response[r].decision = "ALLOW"
        /\ response[r].source # "cache" /\ response' = response
    BY <1>2, NullsAssumption DEF MirrorWrite, At, Typed, LocalsOK, Decided
  <2>2. [by |-> r, at |-> now] \in Entries
    BY DEF Typed, TypeOK, Entries
  <2>3. now \in Nat /\ now' = now /\ input' = input
    BY <1>2, SettingsAssumption DEF MirrorWrite, Typed, TypeOK
  <2> QED
    BY <2>1, <2>2, <2>3 DEF Deserving, KeyOf
<1>3. /\ offline_cache \in [Keys -> Entries \cup {NoRow}]
      /\ snapshot \in [Requests -> [Keys -> Entries \cup {NoRow}]]
  BY DEF Typed, TypeOK, Mirrors
<1>4. ASSUME NEW k \in Keys
      PROVE  /\ offline_cache'[k] \in Deserving(k)' \cup {NoRow}
             /\ \A q \in Requests : snapshot'[q][k] \in Deserving(k)' \cup {NoRow}
  <2>1. /\ offline_cache[k] \in Deserving(k)' \cup {NoRow}
        /\ \A q \in Requests : snapshot[q][k] \in Deserving(k)' \cup {NoRow}
    BY <1>1 DEF MirrorsDeserved
  <2>2. CASE \E r \in Requests : MirrorRead(r)
    BY <1>3, <2>1, <2>2 DEF MirrorRead, files
  <2>3. CASE \E r \in Requests : MirrorWrite(r)
    <3>1. PICK r \in Requests : MirrorWrite(r)
      BY <2>3
    <3>2. KeyOf(r) \in Keys /\ KeyOf(r)' = KeyOf(r)
      BY KeyType, StepsKeep DEF Typed
    <3>3. [by |-> r, at |-> now] \in Deserving(KeyOf(r))'
      BY <1>2, <3>1
    <3>4. /\ \/ offline_cache' = [snapshot[r] EXCEPT ![KeyOf(r)] = [by |-> r, at |-> now]]
             \/ offline_cache' = offline_cache
          /\ snapshot' = [snapshot EXCEPT ![r] = [x \in Keys |-> NoRow]]
      BY <3>1 DEF MirrorWrite
    <3>5. offline_cache'[k] \in Deserving(k)' \cup {NoRow}
      <4>1. CASE k = KeyOf(r)
        BY <1>3, <2>1, <3>2, <3>3, <3>4, <4>1
      <4>2. CASE k # KeyOf(r)
        BY <1>3, <2>1, <3>4, <4>2
      <4> QED
        BY <4>1, <4>2
    <3>6. \A q \in Requests : snapshot'[q][k] \in Deserving(k)' \cup {NoRow}
      BY <1>3, <2>1, <3>4
    <3> QED
      BY <3>5, <3>6
  <2>4. CASE Crash
    BY <1>3, <2>1, <2>4 DEF Crash, files
  <2>5. CASE UNCHANGED <<offline_cache, snapshot>>
    BY <2>1, <2>5
  <2> QED
    BY <2>2, <2>3, <2>4, <2>5
    DEF Next, Handler, Arrive, CheckTrust, GetCachedResult, RunPillars, StoreResult,
        AuditScan, Respond, ScanFails, Trust, Tamper, ClearExpired,
        InvalidatePackage, Tick, Restart, files, handlers
<1> QED
  BY <1>4 DEF MirrorsDeserved

(* A request whose policy blocks its package is answered by that policy. *)
LEMMA BlockedStays == IInv /\ Next => BlockedAnswered'
<1> SUFFICES ASSUME IInv, Next, NEW r \in Requests, policy'[r] # None,
                    Blocks(policy'[r], input'[r].name)
             PROVE  /\ response'[r] # NoRow /\ response'[r].decision = "BLOCK"
                    /\ response'[r].source = "policy_block"
  BY DEF BlockedAnswered, Blocks
<1>1. CASE policy[r] # None
  <2>1. policy'[r] = policy[r] /\ input' = input
    BY <1>1, StepsKeep DEF IInv
  <2> QED
    BY <1>1, <2>1, StepsKeep DEF IInv, Owned, BlockedAnswered
<1>2. CASE policy[r] = None
  <2>1. PICK q \in Requests : Arrive(q)
    BY <1>2 DEF Next, Handler, CheckTrust, GetCachedResult, RunPillars, StoreResult,
       MirrorRead, MirrorWrite, AuditScan, Respond, ScanFails, Trust, Tamper,
       ClearExpired, InvalidatePackage, Tick, Crash, Restart, handlers
  <2>2. q = r
    BY <1>2, <2>1 DEF Arrive, IInv, Typed, TypeOK
  <2>3. /\ response \in [Requests -> Responses \cup {NoRow}]
        /\ policy \in [Requests -> Policies \cup {None}]
    BY DEF IInv, Typed, TypeOK
  <2>4. Reply(r, "BLOCK", "policy_block")
    BY <2>1, <2>2, <2>3 DEF Arrive, Trusts
  <2>5. response'[r] = [decision |-> "BLOCK", source |-> "policy_block", by |-> r]
    BY <2>3, <2>4 DEF Reply
  <2>6. response'[r] \in Responses
    BY <2>5 DEF Responses, Decisions
  <2> QED
    BY <2>5, <2>6, NullsAssumption
<1> QED
  BY <1>1, <1>2

(* An invalidation whose target is the key of r empties that key's row.    *)
LEMMA InvalidationHits ==
  ASSUME TypeOK, NEW r \in Requests, NEW n \in Names, NEW v \in Versions \cup {"*"},
         KeyOf(r)[1] = n, v \in {"*", KeyOf(r)[2]}
  PROVE  KeyOf(r) \in Targets(n, v)
<1>1. KeyOf(r) \in Keys
  BY KeyType
<1>2. CASE v = "*"
  BY <1>1, <1>2, AlikeAssumption DEF Targets
<1>3. CASE v # "*"
  BY <1>1, <1>3, VersionsAssumption DEF Targets, PkgKey, Keys
<1> QED
  BY <1>2, <1>3

(* What an invalidation evicted is not in the scan cache and is not served again. *)
LEMMA AvoidStays == IInv /\ Next => AvoidGone'
<1> SUFFICES ASSUME IInv, Next, NEW r \in Requests
             PROVE  /\ \A q \in avoid'[r].stored : \E p \in published' : p.by = q
                    /\ scan_cache'[KeyOf(r)] # NoRow =>
                         scan_cache'[KeyOf(r)].by \notin avoid'[r].stored
                    /\ response'[r] # NoRow /\ response'[r].source = "cache" =>
                         response'[r].by \notin avoid'[r].stored
  BY StepsKeep DEF AvoidGone, IInv
<1>1. /\ \A q \in avoid[r].stored : \E p \in published : p.by = q
      /\ scan_cache[KeyOf(r)] # NoRow => scan_cache[KeyOf(r)].by \notin avoid[r].stored
      /\ response[r] # NoRow /\ response[r].source = "cache" =>
           response[r].by \notin avoid[r].stored
  BY DEF IInv, Owned, AvoidGone
<1>2. KeyOf(r) \in Keys
  BY KeyType DEF IInv, Typed
<1>3. CASE \E n \in Names, v \in Versions \cup {"*"} : InvalidatePackage(n, v)
  <2>1. PICK n \in Names, v \in Versions \cup {"*"} : InvalidatePackage(n, v)
    BY <1>3
  <2>2. /\ scan_cache' = [k \in Keys |-> IF k \in Targets(n, v) THEN NoRow
                                         ELSE scan_cache[k]]
        /\ avoid'[r] = IF pc[r] = "idle" /\ KeyOf(r)[1] = n /\ v \in {"*", KeyOf(r)[2]}
                       THEN Found(KeyOf(r)) ELSE avoid[r]
        /\ response' = response /\ published' = published
    BY <2>1 DEF InvalidatePackage, handlers
  <2>3. CASE pc[r] = "idle" /\ KeyOf(r)[1] = n /\ v \in {"*", KeyOf(r)[2]}
    <3>1. KeyOf(r) \in Targets(n, v)
      BY <2>3, InvalidationHits DEF IInv, Typed
    <3>2. scan_cache'[KeyOf(r)] = NoRow /\ response'[r] = NoRow
      BY <1>2, <2>2, <2>3, <3>1 DEF IInv, Typed, LocalsOK
    <3>3. \A q \in avoid'[r].stored : \E p \in published' : p.by = q
      BY <2>2, <2>3 DEF Found
    <3> QED
      BY <3>2, <3>3
  <2>4. CASE ~(pc[r] = "idle" /\ KeyOf(r)[1] = n /\ v \in {"*", KeyOf(r)[2]})
    BY <1>1, <1>2, <2>2, <2>4
  <2> QED
    BY <2>3, <2>4
<1>4. CASE ~\E n \in Names, v \in Versions \cup {"*"} : InvalidatePackage(n, v)
  <2>1. avoid' = avoid
    BY <1>4 DEF Next, Handler, Arrive, CheckTrust, GetCachedResult, RunPillars, StoreResult,
       MirrorRead, MirrorWrite, AuditScan, Respond, ScanFails, Trust, Tamper,
       ClearExpired, Tick, Crash, Restart, history
  <2>2. \A q \in avoid'[r].stored : \E p \in published' : p.by = q
    BY <1>1, <2>1, StepsKeep DEF IInv
  <2>3. ASSUME scan_cache'[KeyOf(r)] # NoRow
        PROVE  scan_cache'[KeyOf(r)].by \notin avoid[r].stored
    <3>1. CASE scan_cache'[KeyOf(r)] = scan_cache[KeyOf(r)]
      BY <1>1, <2>3, <3>1
    <3>2. CASE scan_cache'[KeyOf(r)] # scan_cache[KeyOf(r)]
      <4>1. PICK q \in Requests : StoreResult(q)
        BY <1>2, <1>4, <2>3, <3>2 DEF Next, Handler, Arrive, CheckTrust, GetCachedResult,
           RunPillars, MirrorRead, MirrorWrite, AuditScan, Respond, ScanFails,
           Trust, Tamper, ClearExpired, Tick, Crash, Restart, files
      <4>2. scan_cache'[KeyOf(r)] = RowOf(q) /\ pc[q] = "store_result"
        BY <1>2, <3>2, <4>1 DEF StoreResult, At, IInv, Typed, TypeOK
      <4>3. \A p \in published : p.by # q
        BY <4>2 DEF IInv, Owned, PublishedOwned
      <4> QED
        BY <1>1, <4>2, <4>3 DEF RowOf
    <3> QED
      BY <3>1, <3>2
  <2>4. ASSUME response'[r] # NoRow, response'[r].source = "cache"
        PROVE  response'[r].by \notin avoid[r].stored
    <3>1. CASE response[r] # NoRow
      BY <1>1, <2>4, <3>1, StepsKeep DEF IInv
    <3>2. CASE response[r] = NoRow
      <4>1. GetCachedResult(r)
        BY <2>4, <3>2, VerdictSteps
      <4>2. Live(scan_cache[KeyOf(r)]) /\ response'[r].by = scan_cache[KeyOf(r)].by
        BY <2>4, <3>2, <4>1 DEF GetCachedResult, IInv, Typed, TypeOK
      <4> QED
        BY <1>1, <4>2 DEF Live
    <3> QED
      BY <3>1, <3>2
  <2> QED
    BY <2>1, <2>2, <2>3, <2>4
<1> QED
  BY <1>3, <1>4

(* The record of a request is right when it is appended. *)
LEMMA RecordRight ==
  ASSUME IInv, NEW r \in Requests, AuditScan(r)
  PROVE  /\ response[r] # NoRow
         /\ response[r].source = "cache" <=> response[r].by # r
<1>1. response[r] \in Responses
  BY DEF AuditScan, At, IInv, Typed, LocalsOK, Decided
<1>2. response[r] # NoRow
  BY <1>1, NullsAssumption
<1>3. ASSUME response[r].source = "cache" PROVE response[r].by # r
  <2>1. PICK p \in published : p.by = response[r].by
    BY <1>2, <1>3 DEF IInv, Owned, ResponsesOwned
  <2>2. response[p.by].source = "scan"
    BY DEF IInv, Owned, PublishedOwned
  <2> QED
    BY <1>3, <2>1, <2>2
<1>4. response[r].source # "cache" => response[r].by = r
  BY <1>2 DEF IInv, Owned, ResponsesOwned
<1> QED
  BY <1>2, <1>3, <1>4

(* The record that _audit_scan appends agrees with the reply, then and later. *)
LEMMA AuditStays == IInv /\ Next => AuditAgrees'
<1> SUFFICES ASSUME IInv, Next, NEW a \in audit'
             PROVE  /\ a.key = KeyOf(a.req)'
                    /\ response'[a.req] # NoRow /\ a.verdict = response'[a.req].decision
                    /\ a.cached <=> response'[a.req].by # a.req
                    /\ pc'[a.req] \in {"respond", "done", "lost"}
  BY DEF AuditAgrees
<1>1. CASE a \in audit
  <2>1. /\ a.req \in Requests /\ a.key = KeyOf(a.req)
        /\ response[a.req] # NoRow /\ a.verdict = response[a.req].decision
        /\ a.cached <=> response[a.req].by # a.req
        /\ pc[a.req] \in {"respond", "done", "lost"}
    BY <1>1 DEF IInv, Owned, AuditAgrees, Typed, TypeOK, AuditRecords
  <2>2. KeyOf(a.req)' = KeyOf(a.req) /\ response'[a.req] = response[a.req]
    BY <2>1, StepsKeep DEF IInv
  <2>3. pc'[a.req] \in {"respond", "done", "lost"}
    BY <2>1 DEF Next, Handler, Arrive, CheckTrust, GetCachedResult, RunPillars, StoreResult,
       MirrorRead, MirrorWrite, AuditScan, Respond, ScanFails, Trust, Tamper,
       ClearExpired, InvalidatePackage, Tick, Crash, Restart, handlers, At, Goto,
       IInv, Typed, TypeOK
  <2> QED
    BY <2>1, <2>2, <2>3
<1>2. CASE a \notin audit
  <2>1. PICK r \in Requests : AuditScan(r) /\ a = RecordOf(r)
    <3>1. \/ audit' = audit
          \/ \E r \in Requests : AuditScan(r)
      BY DEF Next, Handler, Arrive, CheckTrust, GetCachedResult, RunPillars, StoreResult,
         MirrorRead, MirrorWrite, Respond, ScanFails, Trust, Tamper, ClearExpired,
         InvalidatePackage, Tick, Crash, Restart, files
    <3> QED
      BY <1>2, <3>1 DEF AuditScan
  <2>2. /\ a.req = r /\ a.key = KeyOf(r) /\ a.verdict = response[r].decision
        /\ a.cached <=> response[r].source = "cache"
    BY <2>1 DEF RecordOf
  <2>3. response' = response /\ KeyOf(r)' = KeyOf(r) /\ pc'[r] = "respond"
    BY <2>1, StepsKeep DEF AuditScan, Goto, IInv, Typed, TypeOK
  <2>4. response[r] # NoRow /\ (response[r].source = "cache" <=> response[r].by # r)
    BY <2>1, RecordRight
  <2> QED
    BY <2>2, <2>3, <2>4
<1> QED
  BY <1>1, <1>2

(* Every step of the daemon keeps the second half of IInv. *)
LEMMA NextOwned == IInv /\ Next => Owned'
  BY ResponsesStay, PublishedStays, CacheStays, MirrorsStay, BlockedStays, AvoidStays,
     AuditStays DEF Owned

(* A stuttering step keeps it too. *)
LEMMA StutterOwned == IInv /\ UNCHANGED vars => Owned'
  BY DEF IInv, Owned, ResponsesOwned, PublishedOwned, CachePublished, MirrorsDeserved,
     Deserving, BlockedAnswered, AvoidGone, AuditAgrees, KeyOf, Blocks, vars, files,
     handlers, history

(* IInv is an invariant for every instance. *)
THEOREM Invariance == Spec => []IInv
<1>1. Init => IInv
  BY InitTyped, InitOwned DEF IInv
<1>2. IInv /\ [Next]_vars => IInv'
  BY NextTyped, NextOwned, StutterOwned DEF IInv
<1> QED
  BY <1>1, <1>2, PTL DEF Spec

(* IInv implies the safety properties of the two caches. *)
LEMMA IInvSafe == IInv => OfflineOnlyAllows /\ BlockListPrevails /\ HitsAreGenuine
<1> SUFFICES ASSUME IInv PROVE OfflineOnlyAllows /\ BlockListPrevails /\ HitsAreGenuine
  OBVIOUS
<1> USE DEF IInv, Owned
<1>1. OfflineOnlyAllows
  BY DEF OfflineOnlyAllows, MirrorsDeserved, Deserving
<1>2. BlockListPrevails
  <2> SUFFICES ASSUME NEW r \in Requests, policy[r] # None,
                      input[r].name \in policy[r].block_list
               PROVE  /\ response[r] # NoRow /\ response[r].decision = "BLOCK"
                      /\ \A k \in Keys :
                           /\ scan_cache[k] # NoRow => scan_cache[k].by # r
                           /\ offline_cache[k] # NoRow => offline_cache[k].by # r
    BY DEF BlockListPrevails
  <2>1. /\ response[r] # NoRow /\ response[r].decision = "BLOCK"
        /\ response[r].source = "policy_block"
    BY DEF BlockedAnswered, Blocks
  <2>2. \A k \in Keys : scan_cache[k] # NoRow => scan_cache[k].by # r
    BY <2>1 DEF CachePublished, PublishedOwned
  <2>3. \A k \in Keys : offline_cache[k] # NoRow => offline_cache[k].by # r
    BY <2>1 DEF MirrorsDeserved, Deserving
  <2> QED
    BY <2>1, <2>2, <2>3
<1>3. HitsAreGenuine
  BY DEF HitsAreGenuine, ResponsesOwned, AvoidGone
<1> QED
  BY <1>1, <1>2, <1>3

(* The offline cache only ever holds the package versions that some scan   *)
(* answered ALLOW, however the read-modify-writes of record_allow          *)
(* interleave and wherever the daemon dies.                                *)
THEOREM OfflineSafe == Spec => []OfflineOnlyAllows
  BY Invariance, IInvSafe, PTL

(* A policy's block list decides whatever the trust list, the scan cache   *)
(* or the pillars say, and what it decides reaches neither cache.          *)
THEOREM BlockListSafe == Spec => []BlockListPrevails
  BY Invariance, IInvSafe, PTL

(* A cache hit is the verdict of a scan of the same package version that   *)
(* no invalidation known to the request had found stored.                  *)
THEOREM HitsSafe == Spec => []HitsAreGenuine
  BY Invariance, IInvSafe, PTL

(* audit.log never contradicts the reply of the request it records.        *)
THEOREM AuditSafe == Spec => []AuditAgrees
<1>1. IInv => AuditAgrees
  BY DEF IInv, Owned
<1> QED
  BY Invariance, <1>1, PTL

(* A live row is evicted by a matching invalidation only: clear_expired    *)
(* and get_cached_result split time at the same instant.                   *)
THEOREM EvictionSafe == Spec => OnlyInvalidationEvicts
<1> DEFINE Evicts(k) == \E n \in Names, v \in Versions \cup {"*"} :
                          k \in Targets(n, v) /\ InvalidatePackage(n, v)
<1>1. ASSUME IInv, [Next]_vars, NEW k \in Keys, Live(scan_cache[k]), scan_cache'[k] = NoRow
      PROVE  Evicts(k)
  <2> USE DEF IInv, Typed, TypeOK
  <2>1. scan_cache[k] \in Rows /\ now \in Nat /\ scan_cache[k].at \in Nat
    BY <1>1, SettingsAssumption DEF Live, Rows
  <2>2. scan_cache'[k] # scan_cache[k]
    BY <1>1 DEF Live
  <2>3. ~ClearExpired
    BY <1>1, <2>1, SettingsAssumption DEF ClearExpired, Live, Expired
  <2>4. ASSUME NEW r \in Requests PROVE ~StoreResult(r)
    <3>1. StoreResult(r) => scan_cache'[k] \in {scan_cache[k], RowOf(r)}
      BY DEF StoreResult
    <3>2. StoreResult(r) => response[r] \in Responses
      BY <1>1 DEF StoreResult, At, LocalsOK, Decided
    <3>3. StoreResult(r) => RowOf(r) \in Rows
      BY <1>1, <3>2, KeyType DEF RowOf, Rows, Responses
    <3> QED
      BY <1>1, <2>2, <3>1, <3>3, NullsAssumption
  <2>5. PICK n \in Names, v \in Versions \cup {"*"} : InvalidatePackage(n, v)
    BY <1>1, <2>2, <2>3, <2>4 DEF Next, Handler, Arrive, CheckTrust, GetCachedResult,
       RunPillars, MirrorRead, MirrorWrite, AuditScan, Respond, ScanFails, Trust, Tamper,
       Tick, Crash, Restart, vars, files
  <2>6. k \in Targets(n, v)
    BY <2>2, <2>5 DEF InvalidatePackage
  <2> QED
    BY <2>5, <2>6
<1>2. IInv /\ [Next]_vars =>
        [\A k \in Keys : Live(scan_cache[k]) /\ scan_cache'[k] = NoRow => Evicts(k)]_vars
  BY <1>1
<1> QED
  BY <1>2, Invariance, PTL DEF Spec, OnlyInvalidationEvicts
=============================================================================
