----------------------------- MODULE ScanDaemon -----------------------------
(***************************************************************************)
(* The scan path of the daemon: concurrent POST /scan handlers of          *)
(* daemon/router.py over the state they share -- the SQLite scan cache and *)
(* trust list (daemon/database.py), the offline mirror                     *)
(* (utils/offline_cache.py) and the audit log (utils/audit_log.py) -- with *)
(* the maintenance endpoints and crashes of the daemon.                    *)
(*                                                                         *)
(* A handler is an asyncio task: it runs without interruption from one     *)
(* await to the next, and every other handler may run at the await.  Each  *)
(* action below is the code between two awaits that matter, and pc says    *)
(* which await a handler stands at.                                        *)
(*                                                                         *)
(* What the three pillars find is left open: any assessment may come back, *)
(* at any time, for any package.  So is what the policy of a project says: *)
(* its file may have been edited before any request.                       *)
(***************************************************************************)
EXTENDS Integers, FiniteSets

CONSTANTS
  Requests,        \* scan requests, each served by a handler of its own
  Inputs,          \* request bodies: [name, version, ai_suggested]
  Names,           \* npm package names
  Versions,        \* versions a body may name, and the string "latest"
  Policies,        \* what the policy of a request's project may resolve to
  Assessments,     \* what the pillars may report
  Alike,           \* Alike[n]: the names m for which "m@v" LIKE "n@%"
  WarnThreshold,   \* settings.warn_threshold
  BlockThreshold,  \* settings.block_threshold
  CacheTTL,        \* lifetime of a scan_cache row (3600 s)
  OfflineTTL,      \* lifetime of an offline-cache entry (24 h)
  IOFails,         \* whether operations on offline cache and audit log may fail
  MaxTime,         \* bound of the clock
  None,            \* no version asked for; no policy resolved yet
  NoRow            \* no row in a table; no response built yet

ASSUME NamesAssumption ==
  Inputs \subseteq [name : Names, version : Versions \cup {None},
                    ai_suggested : BOOLEAN]
ASSUME VersionsAssumption == "latest" \in Versions /\ None \notin Versions
ASSUME PoliciesAssumption ==
  Policies \subseteq [block_list : SUBSET Names, trust_list : SUBSET Names,
                      min_monthly_downloads : Nat,
                      require_repository_link : BOOLEAN]
ASSUME AssessmentsAssumption ==
  Assessments \subseteq [score : 0..100, monthly_downloads : Nat,
                         has_repository : BOOLEAN]
ASSUME AlikeAssumption ==
  Alike \in [Names -> SUBSET Names] /\ \A n \in Names : n \in Alike[n]
ASSUME SettingsAssumption ==
  /\ WarnThreshold \in 1..100 /\ BlockThreshold \in 1..100
  /\ CacheTTL \in Nat /\ OfflineTTL \in Nat /\ MaxTime \in Nat
  /\ IOFails \in BOOLEAN

VARIABLES
  now,           \* wall clock, in units that make CacheTTL a whole number
  up,            \* is the daemon process alive
  trust_cache,   \* what check_trust finds for each name
  scan_cache,    \* row of each package key, or NoRow
  offline_cache, \* entry of each key in offline-cache.json, or NoRow
  audit,         \* scan records in audit.log
  pc,            \* await at which each handler stands
  input,         \* body of each request
  policy,        \* policy_dict of each handler
  response,      \* response each handler has built, or NoRow
  snapshot,      \* contents of offline-cache.json a record_allow has read
  published,     \* history: every row ever stored in scan_cache
  avoid          \* history: what the last invalidation of its package found,
                 \*   for each request that arrives after it

files == <<trust_cache, scan_cache, offline_cache, audit>>
handlers == <<pc, input, policy, response, snapshot>>
history == <<published, avoid>>
vars == <<now, up, files, handlers, history>>

Keys == Names \X Versions
Decisions == {"ALLOW", "WARN", "BLOCK"}
TrustStatus == {"unknown", "verified", "legacy_no_mac", "tampered"}
(* The awaits of a handler, and the four ways it is not running. *)
Running == {"check_trust", "get_cached_result", "pillars", "store_result",
            "mirror_read", "mirror_write", "audit", "respond"}
Idle == {"idle", "done", "failed", "lost"}

(* A row of scan_cache; "by", the request whose scan stored it, is history. *)
Rows == [key : Keys, by : Requests, decision : Decisions, at : 0..MaxTime]
(* An entry of offline-cache.json: always an ALLOW, so only when and whose. *)
Entries == [by : Requests, at : 0..MaxTime]
Mirrors == [Keys -> Entries \cup {NoRow}]
(* "by" is the request whose scan the verdict comes from: its own, or the   *)
(* one that stored the row a cache hit serves.                              *)
Responses == [decision : Decisions, by : Requests,
              source : {"policy_block", "policy_trust", "trusted",
                        "trust_legacy_no_mac", "scan", "cache"}]
AuditRecords == [req : Requests, key : Keys, verdict : Decisions,
                 cached : BOOLEAN]
Evictions == [stored : SUBSET Requests, assessed : SUBSET Requests]

ASSUME NullsAssumption ==
  /\ NoRow \notin Rows /\ NoRow \notin Entries /\ NoRow \notin Responses
  /\ None \notin Policies

PkgKey_WithoutVersion(name, version) == <<name, "latest">>

PkgKey(name, version) ==
  <<name, IF version = None THEN "latest" ELSE version>>

KeyOf(r) == PkgKey(input[r].name, input[r].version)

GetDecision(score) == IF score >= BlockThreshold THEN "BLOCK"
                      ELSE IF score >= WarnThreshold THEN "WARN" ELSE "ALLOW"

Capped(score) == IF score > 100 THEN 100 ELSE score

(* Policy penalties on top of the aggregated score. *)
Penalised(a, pol, body) ==
  LET low == body.ai_suggested /\ a.monthly_downloads < pol.min_monthly_downloads
      s   == IF low THEN Capped(a.score + 15) ELSE a.score
  IN  IF pol.require_repository_link /\ ~a.has_repository
        THEN Capped(s + 10) ELSE s

(* The WHERE clause of get_cached_result, and of clear_expired. *)
Live(row) == row # NoRow /\ row.at + CacheTTL > now
Expired_OneUnitEarly(row) == row # NoRow /\ row.at + CacheTTL <= now + 1
Expired(row) == row # NoRow /\ row.at + CacheTTL <= now

(* The npm shim's view of an offline entry: too old only beyond its TTL. *)
Installable(k) ==
  offline_cache[k] # NoRow /\ now - offline_cache[k].at <= OfflineTTL

-----------------------------------------------------------------------------
Init ==
  /\ now = 0
  /\ up = TRUE
  /\ trust_cache \in [Names -> TrustStatus]
  /\ scan_cache = [k \in Keys |-> NoRow]
  /\ offline_cache = [k \in Keys |-> NoRow]
  /\ audit = {}
  /\ pc = [r \in Requests |-> "idle"]
  /\ input \in [Requests -> Inputs]
  /\ policy = [r \in Requests |-> None]
  /\ response = [r \in Requests |-> NoRow]
  /\ snapshot = [r \in Requests |-> [k \in Keys |-> NoRow]]
  /\ published = {}
  /\ avoid = [r \in Requests |-> [stored |-> {}, assessed |-> {}]]

Goto(r, label) == pc' = [pc EXCEPT ![r] = label]

At(r, label) == up /\ pc[r] = label

Reply(r, decision, source) ==
  response' = [response EXCEPT
                 ![r] = [decision |-> decision, source |-> source, by |-> r]]

Blocks_UnlessTrusted(pol, n) == n \in pol.block_list /\ n \notin pol.trust_list

Blocks(pol, n) == n \in pol.block_list
Trusts(pol, n) == n \in pol.trust_list /\ ~Blocks(pol, n)

(* Entry of scan: the policy is resolved -- the file may say anything, and *)
(* something else at the next request -- and its two lists decide, before  *)
(* the first await.                                                        *)
Arrive(r) ==
  /\ At(r, "idle")
  /\ LET n == input[r].name
     IN  \E pol \in Policies :
         /\ policy' = [policy EXCEPT ![r] = pol]
         /\ \/ /\ Blocks(pol, n)
               /\ Reply(r, "BLOCK", "policy_block") /\ Goto(r, "audit")
            \/ /\ Trusts(pol, n)
               /\ Reply(r, "ALLOW", "policy_trust") /\ Goto(r, "mirror_read")
            \/ /\ ~Blocks(pol, n) /\ ~Trusts(pol, n)
               /\ Goto(r, "check_trust") /\ UNCHANGED response
  /\ UNCHANGED <<now, up, files, input, snapshot, history>>

(* A tampered row counts as no row. *)
CheckTrust(r) ==
  /\ At(r, "check_trust")
  /\ LET status == trust_cache[input[r].name]
     IN  \/ /\ status = "verified"
            /\ Reply(r, "ALLOW", "trusted") /\ Goto(r, "mirror_read")
         \/ /\ status = "legacy_no_mac"
            /\ Reply(r, "WARN", "trust_legacy_no_mac") /\ Goto(r, "audit")
         \/ /\ status \in {"unknown", "tampered"}
            /\ Goto(r, "get_cached_result") /\ UNCHANGED response
  /\ UNCHANGED <<now, up, files, input, policy, snapshot, history>>

(* A hit is served as stored: neither the policy's penalties nor the       *)
(* offline mirror are looked at again.                                     *)
GetCachedResult(r) ==
  /\ At(r, "get_cached_result")
  /\ LET row == scan_cache[KeyOf(r)]
     IN  \/ /\ Live(row)
            /\ response' = [response EXCEPT
                              ![r] = [decision |-> row.decision, by |-> row.by,
                                      source |-> "cache"]]
            /\ Goto(r, "audit")
         \/ /\ ~Live(row)
            /\ Goto(r, "pillars") /\ UNCHANGED response
  /\ UNCHANGED <<now, up, files, input, policy, snapshot, history>>

(* The pillars answer; penalties and decision follow without an await. *)
RunPillars(r) ==
  /\ At(r, "pillars")
  /\ \E a \in Assessments :
       Reply(r, GetDecision(Penalised(a, policy[r], input[r])), "scan")
  /\ Goto(r, "store_result")
  /\ UNCHANGED <<now, up, files, input, policy, snapshot, history>>

RowOf_StoresExpiry(r) ==
  [key |-> KeyOf(r), by |-> r, decision |-> response[r].decision,
   at |-> now + CacheTTL]

RowOf(r) == [key |-> KeyOf(r), by |-> r, decision |-> response[r].decision,
             at |-> now]

(* The await after store_result: only an ALLOW is mirrored. *)
AfterStore_MirrorsAll(decision) == "mirror_read"
AfterStore_RetriesWarn(decision) ==
  CASE decision = "ALLOW" -> "mirror_read"
    [] decision = "WARN"  -> "store_result"
    [] OTHER              -> "audit"

AfterStore(decision) == IF decision = "ALLOW" THEN "mirror_read" ELSE "audit"

StoreResult(r) ==
  /\ At(r, "store_result")
  /\ scan_cache' = [scan_cache EXCEPT ![KeyOf(r)] = RowOf(r)]
  /\ published' = published \cup {RowOf(r)}
  /\ Goto(r, AfterStore(response[r].decision))
  /\ UNCHANGED <<now, up, trust_cache, offline_cache, audit,
                 input, policy, response, snapshot, avoid>>

(* The database stays locked beyond its timeout, or a pillar raises (none  *)
(* catches all its errors): the scan ends in a 500.                        *)
ScanFails(r) ==
  /\ up /\ pc[r] \in {"check_trust", "get_cached_result", "pillars", "store_result"}
  /\ Goto(r, "failed")
  /\ UNCHANGED <<now, up, files, input, policy, response, snapshot, history>>

(* record_allow, in a thread of the executor: nothing keeps the threads of *)
(* two handlers from both reading before either writes.  A file that can   *)
(* not be read counts as empty, one that can not be written stays.         *)
MirrorRead(r) ==
  /\ At(r, "mirror_read")
  /\ \/ snapshot' = [snapshot EXCEPT ![r] = offline_cache]
     \/ /\ IOFails
        /\ snapshot' = [snapshot EXCEPT ![r] = [k \in Keys |-> NoRow]]
  /\ Goto(r, "mirror_write")
  /\ UNCHANGED <<now, up, files, input, policy, response, history>>

MirrorWrite(r) ==
  /\ At(r, "mirror_write")
  /\ \/ offline_cache' = [snapshot[r] EXCEPT ![KeyOf(r)] = [by |-> r, at |-> now]]
     \/ IOFails /\ UNCHANGED offline_cache
  /\ snapshot' = [snapshot EXCEPT ![r] = [k \in Keys |-> NoRow]]
  /\ Goto(r, "audit")
  /\ UNCHANGED <<now, up, trust_cache, scan_cache, audit,
                 input, policy, response, history>>

RecordOf_NeverCached(r) ==
  [req |-> r, key |-> KeyOf(r), verdict |-> response[r].decision,
   cached |-> FALSE]

RecordOf(r) ==
  [req |-> r, key |-> KeyOf(r), verdict |-> response[r].decision,
   cached |-> response[r].source = "cache"]

(* Direct dependencies, transitive scan and disk footprint only read; they *)
(* are the time a handler spends here.  An audit write that fails is       *)
(* swallowed.                                                              *)
AuditScan(r) ==
  /\ At(r, "audit")
  /\ \/ audit' = audit \cup {RecordOf(r)}
     \/ IOFails /\ UNCHANGED audit
  /\ Goto(r, "respond")
  /\ UNCHANGED <<now, up, trust_cache, scan_cache, offline_cache,
                 input, policy, response, snapshot, history>>

Respond(r) ==
  /\ At(r, "respond")
  /\ Goto(r, "done")
  /\ UNCHANGED <<now, up, files, input, policy, response, snapshot, history>>

Handler(r) ==
  \/ CheckTrust(r) \/ GetCachedResult(r) \/ RunPillars(r) \/ StoreResult(r)
  \/ MirrorRead(r) \/ MirrorWrite(r) \/ AuditScan(r) \/ Respond(r)

-----------------------------------------------------------------------------
(* POST /trust: upsert of a row whose MAC is computed with the token.      *)
Trust(n) ==
  /\ up
  /\ trust_cache' = [trust_cache EXCEPT ![n] = "verified"]
  /\ UNCHANGED <<now, up, scan_cache, offline_cache, audit,
                 handlers, history>>

(* A row edited outside the daemon, or whose token was replaced: its MAC   *)
(* does not verify any more.                                               *)
Tamper(n) ==
  /\ trust_cache' = [trust_cache EXCEPT ![n] = "tampered"]
  /\ UNCHANGED <<now, up, scan_cache, offline_cache, audit,
                 handlers, history>>

(* DELETE /cache *)
ClearExpired ==
  /\ up
  /\ scan_cache' = [k \in Keys |-> IF Expired(scan_cache[k]) THEN NoRow
                                   ELSE scan_cache[k]]
  /\ UNCHANGED <<now, up, trust_cache, offline_cache, audit,
                 handlers, history>>

Targets_StarIsLiteral(n, v) == {PkgKey(n, v)} \cap Keys

(* The keys that POST /cache/invalidate deletes. *)
Targets(n, v) ==
  IF v = "*" THEN {k \in Keys : k[1] \in Alike[n]} ELSE {PkgKey(n, v)}

(* What an invalidation of k finds: scans already stored, and scans whose  *)
(* verdict is made but not stored yet.                                     *)
Found(k) ==
  [stored   |-> {row.by : row \in {p \in published : p.key = k}},
   assessed |-> {r \in Requests : pc[r] = "store_result" /\ KeyOf(r) = k}]

InvalidatePackage(n, v) ==
  /\ up
  /\ scan_cache' = [k \in Keys |-> IF k \in Targets(n, v) THEN NoRow
                                   ELSE scan_cache[k]]
  /\ avoid' = [r \in Requests |->
                 IF pc[r] = "idle" /\ KeyOf(r)[1] = n /\ v \in {"*", KeyOf(r)[2]}
                 THEN Found(KeyOf(r)) ELSE avoid[r]]
  /\ UNCHANGED <<now, up, trust_cache, offline_cache, audit,
                 handlers, published>>

Tick ==
  /\ now < MaxTime
  /\ now' = now + 1
  /\ UNCHANGED <<up, files, handlers, history>>

(* The process dies between two steps of its handlers; files survive. *)
Crash ==
  /\ up
  /\ up' = FALSE
  /\ pc' = [r \in Requests |-> IF pc[r] \in Running THEN "lost" ELSE pc[r]]
  /\ snapshot' = [r \in Requests |-> [k \in Keys |-> NoRow]]
  /\ UNCHANGED <<now, files, input, policy, response, history>>

Restart ==
  /\ ~up
  /\ up' = TRUE
  /\ UNCHANGED <<now, files, handlers, history>>

Next ==
  \/ \E r \in Requests : Arrive(r) \/ Handler(r) \/ ScanFails(r)
  \/ \E n \in Names : Trust(n) \/ Tamper(n)
  \/ \E n \in Names, v \in Versions \cup {"*"} : InvalidatePackage(n, v)
  \/ ClearExpired \/ Tick \/ Crash \/ Restart

Spec == Init /\ [][Next]_vars

(* The event loop runs every ready task, and what a task awaits ends: each *)
(* network call has a timeout, a database call at most waits for a lock.   *)
FairSpec == Spec /\ \A r \in Requests : WF_vars(Handler(r))

-----------------------------------------------------------------------------
TypeOK ==
  /\ now \in 0..MaxTime
  /\ up \in BOOLEAN
  /\ trust_cache \in [Names -> TrustStatus]
  /\ scan_cache \in [Keys -> Rows \cup {NoRow}]
  /\ offline_cache \in Mirrors
  /\ audit \subseteq AuditRecords
  /\ pc \in [Requests -> Running \cup Idle]
  /\ input \in [Requests -> Inputs]
  /\ policy \in [Requests -> Policies \cup {None}]
  /\ response \in [Requests -> Responses \cup {NoRow}]
  /\ snapshot \in [Requests -> Mirrors]
  /\ published \subseteq Rows
  /\ avoid \in [Requests -> Evictions]

(* "Only ALLOW verdicts are written here": whatever the interleaving of    *)
(* record_allow threads, lost updates and crashes included, an entry of    *)
(* the offline cache was written by a request about that very package      *)
(* version whose own verdict, not a cached one, was ALLOW.                 *)
OfflineOnlyAllows ==
  \A k \in Keys : offline_cache[k] # NoRow =>
    LET r == offline_cache[k].by
    IN  /\ KeyOf(r) = k
        /\ response[r] # NoRow /\ response[r].decision = "ALLOW"
        /\ response[r].source # "cache"
        /\ offline_cache[k].at <= now

(* What a policy forbids stays forbidden: a package on the block list a    *)
(* request's project resolved to is answered BLOCK, and that request       *)
(* neither feeds the scan cache nor the offline cache.                     *)
BlockListPrevails ==
  \A r \in Requests :
    policy[r] # None /\ input[r].name \in policy[r].block_list =>
      /\ response[r] # NoRow /\ response[r].decision = "BLOCK"
      /\ \A k \in Keys : /\ scan_cache[k] # NoRow => scan_cache[k].by # r
                         /\ offline_cache[k] # NoRow => offline_cache[k].by # r

(* A cache hit serves what some scan of the same package version found,    *)
(* and never what was stored before an invalidation the request came after.*)
HitsAreGenuine ==
  \A r \in Requests :
    response[r] # NoRow /\ response[r].source = "cache" =>
      /\ \E p \in published : /\ p.key = KeyOf(r) /\ p.by = response[r].by
                              /\ p.decision = response[r].decision
      /\ response[r].by \notin avoid[r].stored

(* audit.log agrees with the replies: at most one record a request, made   *)
(* when its verdict is final, with the verdict and the key replied.        *)
AuditAgrees ==
  \A a \in audit :
    /\ a.key = KeyOf(a.req)
    /\ response[a.req] # NoRow /\ a.verdict = response[a.req].decision
    /\ a.cached <=> response[a.req].by # a.req
    /\ pc[a.req] \in {"respond", "done", "lost"}

(* A row that is still live leaves the scan cache only by an invalidation  *)
(* whose pattern it matches: the purge of DELETE /cache never takes one,   *)
(* nor does any other step of a scan.                                      *)
OnlyInvalidationEvicts ==
  [][\A k \in Keys : Live(scan_cache[k]) /\ scan_cache'[k] = NoRow =>
       \E n \in Names, v \in Versions \cup {"*"} :
         k \in Targets(n, v) /\ InvalidatePackage(n, v)]_vars

(* A scan the daemon accepted ends, in a reply, a 500 or with the daemon.  *)
EveryScanEnds ==
  \A r \in Requests : pc[r] \in Running ~> pc[r] \in Idle

(* How a caller sees the handler of r, and the verdict it has for r: one   *)
(* that a scan has reached but not stored yet does not exist for callers.  *)
PhaseOf(r) ==
  CASE pc[r] = "idle"               -> "idle"
    [] pc[r] \in Running            -> "pending"
    [] pc[r] = "done"               -> "answered"
    [] pc[r] \in {"failed", "lost"} -> "lost"

VerdictOf(r) ==
  IF \/ response[r] = NoRow
     \/ response[r].source = "scan" /\ \A p \in published : p.by # r
  THEN "none" ELSE response[r].decision

Phase == [r \in Requests |-> PhaseOf(r)]
Verdict == [r \in Requests |-> VerdictOf(r)]

(* The promise of the API: scans are answered as VerdictService says.      *)
Promise == INSTANCE VerdictService WITH
  TTL <- CacheTTL, clock <- now, trusted <- trust_cache, asked <- input,
  phase <- Phase, verdict <- Verdict

ImplementsVerdictService == Promise!Spec

-----------------------------------------------------------------------------
(* What the documents say and the code does not keep to; the runs that     *)
(* check these end in a violation.                                         *)

(* router.py, cache_invalidate: "to force a fresh scan on the next install *)
(* attempt".  A request that arrives after an invalidation is served no    *)
(* verdict reached before it.                                              *)
InvalidationForcesFreshScan ==
  \A r \in Requests :
    response[r] # NoRow /\ response[r].source = "cache" =>
      response[r].by \notin avoid[r].assessed

(* offline_cache.py: "if the daemon is down we want the user to see a      *)
(* missing verdict for risky packages, not silently install them".  Once a *)
(* scan has found a package version risky, an ALLOW that an earlier scan   *)
(* of it put into the offline cache does not let it install.               *)
RiskyNotInstallable ==
  \A k \in Keys :
    LET row == scan_cache[k]  entry == offline_cache[k]
    IN  row # NoRow /\ row.decision # "ALLOW" /\ pc[row.by] = "done"
          /\ Installable(k) => \/ response[entry.by].source # "scan"
                               \/ entry.at > row.at
=============================================================================
