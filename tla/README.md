# CIDAS in TLA+

CIDAS screens npm packages before they are installed. A daemon answers
"may this package be installed?" with ALLOW, WARN or BLOCK; an npm shim and a
VS Code extension ask it. This directory models the daemon (its scan path, the
assessment of a package, the registry client, the resolver, its start), the shim,
the extension and the watchdog, checks them with TLC, and proves with TLAPS every
safety property the passing runs check.

## 1. The system

| part | code | state | operations |
|---|---|---|---|
| scan endpoint | `daemon/router.py` | the locals of each handler | `POST /scan`, `/trust`, `/cache/invalidate`, `/audit/override`; `DELETE /cache`; the GETs read only |
| scan cache, trust list | `daemon/database.py` | SQLite tables `scan_cache`, `trust_cache`, `schema_version` | lookup, upsert, purge, invalidate, trust, verify; migrations at start-up |
| offline cache | `daemon/utils/offline_cache.py` | `~/.cidas/offline-cache.json` | `record_allow`: read the file, change a key, replace the file |
| audit log | `daemon/utils/audit_log.py` | `~/.cidas/audit.log` and three rotated files | append, rotate, read |
| project policy | `daemon/utils/policy.py`, `config.py` | `.cidas/policy.json`, `~/.cidas/config.json` | discover, validate, merge |
| three pillars, aggregator | `daemon/pillars/` | none | score, gates, weighted sum, thresholds |
| registry client | `daemon/utils/npm_registry.py` | single-flight caches, token bucket | fetch with retries, confirm an absence |
| transitive resolver | `daemon/utils/transitive.py` | the set `visited` shared by coroutines | resolve |
| authentication | `daemon/auth.py` | token file, token in memory | create, load, require |
| drift monitor | `daemon/utils/drift_monitor.py` | none (reads the log) | check |
| npm shim | `intercept/npm-shim.js` | one process per install | scan, fall back on the offline cache, prompt, run npm |
| extension | `extension/src/` | previous dependencies, offline flag, status bar | on change, scan, poll, notify |
| watchdog | `daemon/watchdog.sh`, `scripts/start-daemon.sh` | failure count, PID file | probe, restart |
| evaluation | `daemon/eval/` | none | offline experiments |

How they interact. The shim and the extension call the daemon over HTTP with a
bearer token. The daemon is one asyncio process: a handler runs without
interruption between two awaits, any other handler may run at an await, and
file work runs in threads of an executor, truly in parallel. The handlers share
the database, the offline cache, the audit log and the registry client's caches.
The shim reads the offline cache, and appends to the audit log, from processes of
its own; the drift monitor reads the log; the policy files and the trust table may
be edited by anyone between two requests. The watchdog kills nothing and restarts
what it finds silent.

What is hard: handlers that interleave at awaits with lookups whose answers are
used later (a cache miss, a policy); unlocked read-modify-write of a file; an
invalidation that meets scans in flight; a daemon that dies between two writes;
writes that fail and are swallowed; expiry boundaries; single-flight fetches that
fail; retries and a rate limit; coroutines over one shared set; rotation under
another process's append. `PROJECT.json` lists each hazard at its line.

What makes each part correct:

- scan endpoint: a verdict has a reason the policy, the trust list or a scan of
  that very package version gives it; block lists prevail; every scan ends.
- scan cache: a hit is somebody's verdict on the same key, unexpired and not
  evicted before the request came; purges take expired rows only.
- offline cache: it only ever holds packages some scan allowed.
- audit log: at most one record a request, never in contradiction with the reply.
- registry client: one fetch per name and lifetime, no failure cached, an
  absence confirmed by two answers, never more requests than the rate allows.
- resolver: nothing near the root is lost or expanded twice, in whatever order
  the answers come.
- authentication and trust list: a row counts as verified only under the token
  that signed it; migrations may be interrupted and repeated.
- shim: what the daemon blocked is not installed; what happens when it is silent.
- extension: every added dependency is scanned; the status shown is the last one.
- watchdog: a dead daemon comes back; at most one daemon holds the port.

## 2. Modules

| module | what it is | extends |
|---|---|---|
| `VerdictService` | abstract: what `POST /scan` promises its callers | |
| `ScanDaemon` | concurrent scan handlers over the shared files, the maintenance endpoints, crashes | |
| `ScanDaemonProofs` | its invariants and action property, proved | `ScanDaemon` |
| `ScanDaemonRefinement` | that it implements `VerdictService`, proved | `ScanDaemonProofs` |
| `RegistryClient` | the npm registry client: single-flight caches, retries, token bucket | |
| `RegistryClientProofs` | its invariants, proved | `RegistryClient` |
| `TransitiveResolver` | the coroutines of `resolve_transitive` | |
| `TransitiveResolverProofs` | its invariants, proved | `TransitiveResolver` |
| `ScannedPackage` | the package of one scan, and what the registry client keeps of it | |
| `Sentinel`, `Shield` | the two pillars that look things up | `ScannedPackage` |
| `Assessment` | the three pillars side by side, Contextify and the aggregator | `Sentinel`, `Shield` |
| `AssessmentProofs` | its invariants, proved | `Assessment` |
| `DaemonLifecycle` | start script, token file, migrations, port, watchdog | |
| `DaemonLifecycleProofs` | what its starts leave of the database and of the token, proved | `DaemonLifecycle` |
| `AuditLog` | `audit.log` and its rotation, under appends of several processes | |
| `NpmShim` | one process per npm command | `AuditLog` |
| `InstallPath` | shims, the daemon that answers them, and the log both write | `NpmShim` |
| `InstallPathProofs` | the log under rotation, the screening and the record of an install, proved | `InstallPath` |
| `Extension` | the editor: overlapping changes, scans, status bar, offline indicator | |
| `ExtensionProofs` | its invariants, proved | `Extension` |
| `MC...` | small instances for TLC, one per root module | |

The root modules do not share variables. Each takes from another what a comment in
it names. What the registry client answers is a step of `Assessment`, where an
absence is true because `AbsenceIsReal` says so of `RegistryClient`. The outcome of an
assessment is any member of a set in `ScanDaemon`. That lookups end (`EveryCallEnds`)
justifies the fairness of a scan's steps. A verdict, and the offline cache it
may fill, are a choice of the daemon in `InstallPath`. The token a shim holds, accepted
or not, comes from `DaemonLifecycle`, which says when it may be the wrong one.

### VerdictService

Six variables: the clock, the trust list, the questions, the assessments ever
published, and for each question its phase and its verdict. A verdict is fixed
once, by a list of the asker's policy, by the trust list, by a published assessment
of the same package and version younger than its lifetime, or by an assessment of
one's own, which is published at the same moment. Caches, invalidation, mirror
and log do not appear: nobody who asks can tell them apart from luck.

### ScanDaemon

| state | in the code |
|---|---|
| `trust_cache` | what `check_trust` would find for each name: no row, a good MAC, no MAC, a bad MAC |
| `scan_cache` | the row of each `name@version` (`_pkg_key`); `at` is `scanned_at` |
| `offline_cache` | `offline-cache.json`: entries are always ALLOW, so only who wrote it (history) and when |
| `audit` | the scan records of `audit.log` |
| `pc`, `policy`, `response`, `snapshot` | where each handler stands and its locals; `snapshot` is the file contents a `record_allow` thread has read |
| `input` | the body of each request |
| `published`, `avoid` | history: all rows ever stored, and what the last invalidation found before a request arrived |

Each action is the code between two awaits that matter, in the order of `scan`:

| action | code |
|---|---|
| `Arrive` | policy resolution and its two lists, up to `await check_trust` or the first await of the list's reply |
| `CheckTrust` | the trust row read, and the four ways it may turn out; a tampered row falls through |
| `GetCachedResult` | the lookup: a live row is served as it is, else the pillars run |
| `RunPillars` | any assessment; then penalties, cap and thresholds without an await |
| `StoreResult` | the upsert of `store_result`, then on to the mirror for an ALLOW |
| `MirrorRead`, `MirrorWrite` | the two halves of `record_allow`, each in a thread; a failed read counts as an empty file, a failed write leaves it |
| `AuditScan`, `Respond` | the appended record (or a swallowed failure), the reply |
| `ScanFails` | the database locked too long, or a pillar that raises: a 500 |
| `Trust`, `Tamper` | `POST /trust`; an edit of the table, or a new token |
| `ClearExpired`, `InvalidatePackage` | `DELETE /cache`, `POST /cache/invalidate` |
| `Tick`, `Crash`, `Restart` | time; the process dies between any two steps and comes back, files survive |

The dependencies, transitive risks and disk footprint a reply carries are fetched
between storing and recording a verdict; they change no shared state and no
decision, so they are the time a handler spends before `AuditScan`. The policy a
request finds is chosen at `Arrive`: policy files may change at any time, which is
also why a project has no identity in the model. Scores are integers 0..100.

Properties: see the comments over each in `ScanDaemon.tla`. `OfflineOnlyAllows`,
`BlockListPrevails`, `HitsAreGenuine` and `AuditAgrees` are invariants,
`OnlyInvalidationEvicts` an action property, `EveryScanEnds` a liveness property and
`ImplementsVerdictService` the refinement: phase and verdict are computed from
`pc`, `response` and `published`; a verdict a scan has reached but not yet stored
does not exist for the callers.

### RegistryClient

| state | in the code |
|---|---|
| `cache` | `_metadata_cache` and `_download_cache`: which fetch a url's entry holds |
| `fetch` | every task made of `_get`: attempt, 429s so far, sleep left, age of its entry, outcome |
| `caller` | every coroutine in `get_package_metadata` or `get_download_count`: the future it awaits, its result |
| `tokens` | `_NPM_RATE_LIMITER`, in whole tokens |
| `ask`, `listed`, `lies` | what is asked, what the registry really has, and the 404s it has given nevertheless |
| `excess` | history: the most by which the requests of any period ending now exceed its ticks |

| action | code |
|---|---|
| `Call` (`Join`, `Start`) | the lookup under the cache lock, which joins a fresh entry or starts a task |
| `Receive` | the future is done: drop the entry if it failed and is the caller's own, confirm an absence, or return |
| `Acquire` | one turn of `acquire`'s loop: a token, or a sleep until one is due |
| `Answer` | one response or error of the registry: 404, document, 429, timeout or dropped connection, other failure |
| `Tick` | time: the bucket earns a token, entries age, sleeps pass |

The bodies under the two cache locks and the limiter's lock hold no `await`, so a lock
is never contended and is not state. A tick is the time of one token (half a second,
also the unit of the backoff). The bucket refills when it is looked at; refilling at
every tick gives the same number of whole tokens, capped once or at each. `own`
says whether the caller may drop the entry: the code compares the start time it
remembers with the entry's, so a joiner may only when the two clock readings are
equal, which the model allows. Which error a failed answer is (`undetermined`, or an
exception that reaches the caller) is left open. A caller is never cancelled: nothing
in the daemon cancels the tasks it gathers. `excess` is a meter: one up for a
request, one down for a tick, never under zero; that it stays within the capacity
says that in every period of n ticks there are at most n + `Capacity` requests.

A download count that could not be fetched becomes the number 0 and, unlike an
undetermined document, stays cached: `NotCached` says so, and `FailuresNotKept`
excepts it.

### TransitiveResolver

A call of `resolve_transitive` is its path from the root. `ready` is the event loop's
queue, first come first served: `gather` puts the children behind what is ready
already, an answered lookup goes to the end, and a lookup the registry client can
answer from its cache does not give way at all (so `Start` may expand at once).
`visited` is the shared set, `emitted` the reported dependencies, `failed` the packages
whose lookup failed. The return through the parents only joins lists and is not a
step.

The loop over the answered dependencies (`Unvisited`) is a recursive function rather
than `SelectSeq`, so that it can be reasoned about.

`NothingLost` is stated for a `max_depth` of up to 2, and depends on that order. A package first met at the last level is marked
and never expanded; were it also nearer to the root, its dependencies would be
lost. At the router's depth of 2 that cannot happen, because all calls of level 1
start before any of level 2. From depth 3 it can: in `root -> b, c; b -> d -> e;
c -> e -> f`, when `b` and `d` answer before `c`, `f` is lost at distance 3. Raising
`max_depth` would need the depth in the mark.

### Assessment

A behaviour is one scan of one package: `package`, `ai`, `admin`, `release` and
`project` are the world it finds and never change, `registry` is what the client has
of it in its two caches, `sentinel`, `shield` and `contextify` are the locals of the three
coroutines `asyncio.gather` runs, and `verdict` is what the aggregator returns. What
string metrics, patterns, embeddings and syntax trees find is data of the world; every
decision made on it is modelled.

| action | code |
|---|---|
| `KnownIncident`, `AskDocument`, `AskCount` | `Sentinel.score` up to `check_registry_existence` |
| `Judge`, `Corroborate`, `Resolve` (`Settle`) | placeholder versions, similar names and whether the package has the downloads and the age for one, the score of each outcome |
| `CheckOSV` | the AI path after its second lookup: advisories and `compute_hallucination_risk` |
| `Fetch`, `ScanFiles`, `AskModel` | `Shield.score` up to the local model's opinion of an injected README |
| `FindPrevious` (`Gate`), `NativeTrigger`, `Diff` | the predecessor, whether its manifest or its native build says to compare, the comparison |
| `LoadFingerprint`, `CompareDescription` | `Contextify.score` |
| `Aggregate` | gates, weighted sum, modifiers, caps, thresholds |
| `Expire` | ten seconds are over and the kept document with them |

Scores are integers: hundredths of a point of the verdict, thousandths in Shield, so
that weights and the quarter of a comparison stay exact. The registry is asked from
several coroutines: whoever asks first decides what the others find, until it
expires. A document that could not be had is not kept; a count that could not be
had is kept as 0.

### DaemonLifecycle

| state | in the code |
|---|---|
| `proc` | each uvicorn process: where in start-up it is, its token, its open descriptor, its migration step |
| `file`, `tmp`, `content` | the two names `daemon.token` and `daemon.token.tmp`, and the files they name |
| `db` | the SQLite file: version row, columns added so far, the keys that have a verdict, one trust row |
| `starter`, `venv` | each run of `start-daemon.sh`, and the virtual environment |
| `failures` | the watchdog's count |
| `held` | the token a client read some time ago |

`TokenFound` to `ReplaceToken` are `get_or_create_token` at start-up, one system call
each; `CreateTables` to `RecordV3` are `init_db`, one commit each; `Bind` is uvicorn;
`Scan` and `Trust` are requests, whose handlers read the token file again; `CheckPort`
to `StopWaiting` are the script; `Probe` and `RestartDone` the watchdog; `Crash`,
`Hang`, `RemoveToken` and a failing `Install` are bounded together by `MaxMishaps`. The
30 s the script waits for its child and the ten seconds between two probes are any
time. There is one inode more than processes, so a start always finds one for its
temporary file, however many start at once.

Three keys stand for all verdicts: the old key of a plain name, the old key of a scoped
name, and one with a version. The purge of version 2 deletes by `NOT LIKE '%@%'`, so
only the first kind goes (`WithAt` are the other two). `SchemaReady` therefore says that
a daemon serves without old keys of plain names, and `KeyedRowsKept` that no key with
an @ is ever lost. `TokensAgree` excepts two starts that draw a token at once: each renames the
temporary file of the other, and a daemon may serve with a token no file holds.

### AuditLog, NpmShim and InstallPath

| state | in the code |
|---|---|
| `files` | the lines of `audit.log` and its three rotated files; a line may be torn, and swallow the next |
| `turn`, `step`, `slot` | the daemon's lock with its queue, and its thread inside `_append_sync` and `_rotate` |
| `fd` | the file each shim has opened, which a rename moves |
| `shim`, `request` | each npm command, and its HTTP request |
| `config`, `token`, `offline` | the administrator's file, the token, the offline cache |
| `handler`, `up` | the daemon's side of each request |
| `answers`, `serial`, `written`, `rotations` | history |

`Start` to `Passthrough` are the main function of `npm-shim.js`: the bypass, the
packages one after the other, the request and its 60 s, the prompt, npm.
`Take`, `Decide` and `Respond` are the daemon's part of a request: token, verdict and
mirror, record, reply. A shim that has given up leaves its handler running. When the
daemon dies, a request it has not begun to answer is lost, which the shim hears of as an
error (`Unanswered`); an answer under way may arrive, or be cut off after its headers,
which no handler of the shim hears of, and node exits (`CutOff`). `Passthrough` ends with
npm's status, with 0 when a signal ended npm, and with 0 when npm could not be started
("unstarted"). So an exit code of 0 does not say that npm ran. `ZeroMeansCleared` says
what it does say: npm was called, after every package had its turn and none was
answered BLOCK, or the loop was stranded at the prompt or in an answer before npm.
`Stat`, `Unlink`, `Shift` and `Write` are the steps of an append in the daemon's thread,
each of which may fail. A crash loses queue and lock, not the files. `rotations` counts
the rotations begun, and a record is dated (`born`) when its file is opened: a rotation
cut short begins again and counts again. `RotationKeepsNewest` allows a loss after three
rotations, not four: a record opened while a rotation runs can be in the first file
already when the next one moves it. `answers` has an entry for every place an argument
may take (`MaxArgs`), "none" until the package had its turn.

### Extension

`events` is the handler of each change of `package.json`, `call` the `fetch` each
activity awaits, `prevDeps`, `offline`, `token`, `item` and `timer` the variables of the
modules. A handler is `ReadFile`, `OnChange`, then for each added dependency
`DepScanned`, `Choose` and `Posted`; `Started`, `OpenDashboard`, `ScanPackage` and
`PackageScanned` are the commands, `Poll` the health polling, `TimerFires` the reset of
the status bar. A wait of unknown length (a notification, a prompt) ends when its user
acts, which nobody has to.

## 3. Runs

| run | shows | bounds |
|---|---|---|
| `scan_safety` | the invariants, the action property and the refinement of `ScanDaemon` | two requests for one package at two versions or the same, three policies (strict, trusting, both lists), three assessments (clean; ALLOW made WARN by penalties; BLOCK), clock 0..1, lifetimes 1 and 2, all I/O may fail, any number of crashes |
| `scan_liveness` | every accepted scan ends | as above, clock 0, no I/O failures, no symmetry |
| `invalidation_races_scan` | violated: an invalidation does not force a fresh scan | clock 0..2, no I/O failures |
| `risky_stays_mirrored` | violated: an ALLOW entry survives a later WARN or BLOCK | the same |
| `registry` | the client's invariants, and that every call ends | two callers of one document, lifetime of 1 tick, a bucket of 1, 1 retry of a 429, two wrong 404s |
| `resolver` | nothing within two levels is lost, nothing is expanded twice | all 4,913 graphs of a root with two dependencies and three packages with up to two each, `max_depth` 1 to 3, any failures |
| `assessment` | an outage is no absence, squats and known bad packages do not pass, no comparison is wrongly skipped | 41 packages by both kinds of request, nine releases of up to five versions, four administrators, four projects, four similarities; every lookup may fail |
| `outage_blocks` | violated: an outage blocks an AI suggestion | the same |
| `lifecycle` | schema, trust rows, tokens and stored verdicts survive any start; a dead daemon is replaced | two processes, the watchdog and a user, four tokens, one mishap on one of three machines or none on a first installation |
| `install` | what npm installs was screened and is logged; rotation, lock, exit codes; commands end | two commands of four kinds, up to three arguments, none, two or five overrides, a rotation at every line, one failure or crash |
| `unauthenticated_install` | violated: a reply of 401 lets npm run | the same |
| `extension` | no dependency is missed, status bar and indicator are true, handlers end | two changes over two packages, any number of commands, polls and restarts of the daemon |

Two requests are enough for every race of the scan path: one reads or writes between
two steps of the other, and a third party is always a maintenance endpoint, which
may run any number of times. Two versions give two keys, so that a key can be
confused with another. Clock 0..1 with a lifetime of 1 has a row live, on its
boundary and expired. Requests are symmetric; the liveness run does not use it.

Two callers of the registry client start up to four fetches with their confirmations,
enough for an entry to be dropped, popped or replaced by the other caller at any
point of a fetch; with a bucket of one, two fetches already race for a token. The
lifetime is shorter than a fetch may take, so entries expire under way. Download
counts, which are not confirmed, are in the theorems and in `Assessment`. Four
packages hold what makes a resolution hard: two parents of one dependency, a
dependency of the root met again below, cycles and self-loops.

`assessment` has each kind of name with each side of the thresholds it is compared
at, and for releases one purged version, three in a row (the walk back stops there),
a requested version that is gone, and native builds that come with nothing else.
`lifecycle` starts on a bare machine, a clone without its environment, a database of
version 1 and a lost token. A failure at any step of a start is one mishap; more
would start the same recovery again. In `install` a limit of one line makes a rotation
of every append, so five appends move a record through all files and out. In
`extension` two changes overlap in every way two handlers can.

Deadlock is checked where something is always possible: `ScanDaemon` (a crash or a
trust edit), the registry client (time) and `DaemonLifecycle` (a probe). A resolution,
an assessment and an npm command end, and the editor may be left alone.

Fairness. Everywhere it is weak, and asked of program steps only, never of a user,
a failure, a restart or an endpoint.

- `ScanDaemon`: the steps of each handler. The event loop runs every ready task,
  and all a handler awaits ends, network calls by their timeouts and the database by
  its lock timeout. A scan therefore ends with a reply, a 500 or the daemon.
- `RegistryClient`: `Receive` and `Acquire` (the event loop), `Answer` (the 5 s timeout
  of every request), `Tick` (the clock). `Acquire` needs no strong fairness although
  other fetches may take the token first: each asks a bounded number of times.
- `DaemonLifecycle`: each starting process, each script, the watchdog's loop.
- `InstallPath`: each shim (its timeout, npm ending) and the log's thread. Not the
  daemon's handlers: a command ends whatever they do.
- `Extension`: the event loop, and that every `fetch` settles.

## 4. Findings

Four runs are violated: places where the code does not do what its own comments and
documents say. `PROJECT.json` quotes them.

- `store_result` does not know of an invalidation that happened since the lookup.
- Entries of the offline cache are never withdrawn.
- The shim does not look at the HTTP status: a 401 is JSON without a decision.
- An AI suggestion is looked up twice, and an unanswered second lookup is an absence.

Met on the way, and left without a run of their own:

- `record_allow` reads, changes and replaces the file without a lock
  (`offline_cache.py:94`): overlapping calls lose an ALLOW, which errs on the safe side.
- `resolve_transitive` skips an occurrence whose package has started meanwhile
  (`transitive.py:68`), though its docstring (`:31`) reports each occurrence: the list
  depends on the order of the registry's answers.
- `NothingLost` holds for a `max_depth` of 2, the router's; at 3 it would not
  (`TransitiveResolver`, above).
- A download count that fails reads 0. As the popular package's it clears a squat,
  where `config.py:137` says a failed lookup fails toward flagging.
- The AI path adds `typosquat_detected` for a name that was not corroborated
  (`sentinel.py:529`), which the gate makes a WARN.
- Malware confirmed by OSV scores 100 in Sentinel but has no gate: with Sentinel's
  weight alone the verdict can stay under both thresholds.
- A comparison that failed is blended like one that found nothing, and takes a
  quarter off the score, though `shield.py:527` says it is left unchanged.
- A local model that cannot be reached counts as one that sees no injection.
- `watchdog.sh:2` "keeps alive" a daemon; one that hangs with its socket open is
  never replaced, because the script finds the port taken.
- A cut installation leaves a virtual environment the script takes for a good one;
  `DaemonComesBack` excepts it.
- Packages called `i` or `install` are not screened (`npm-shim.js:413`).
- npm killed by a signal, or that cannot be started (a stale path in `real-npm`), has no
  status, and the shim exits 0 (`npm-shim.js:293`).
- The end of the input at the prompt, and an answer cut off after its headers
  (`npm-shim.js:272`), leave a promise nobody settles: node exits 0 without npm, without
  the packages that follow, and without the 1 of a BLOCK before it.
- An old key of a scoped package (`@scope/name`) survives the purge of version 2
  (`database.py:129`), though the docstring (`:112`) has the rows before version 2 purged.
  Nothing reads it again, since a lookup asks for `name@version`.
- `POST /cache/invalidate` with version `*` deletes by `LIKE`, so the `_` of a name matches
  any character and other packages may lose their rows, which costs a scan.
- Nothing compares the two thresholds: with the warning's above the block's nothing is a
  WARN.
- `POST /trust` leaves no record, though `docs/threat-model.md:115` says so;
  `GET /audit` never matches a scoped name; "Proceed" after a BLOCK is not
  reported by the extension.
- The extension keeps a token file it did not find (`daemonClient.ts:24`), and
  a dependency added while the daemon is offline counts as scanned.
- A WARN or BLOCK notification nobody answers holds up the scans of the dependencies
  after it in the same change (`interceptor.ts:84`); `ScansEnd` excepts it.

## 5. Proofs

All theorems hold for any values of the constants under the named assumptions of
the modules, which say of what kind they are; TLC evaluates them in every run.

`ScanDaemonProofs` proves, for any requests, packages, policies, thresholds,
lifetimes and clock bound (assumptions `NamesAssumption` to `NullsAssumption` of
`ScanDaemon`, all about the kind of the constants):

- `TypeCorrect`: `Spec => [](TypeOK /\ LocalsOK)`;
- `Invariance`: `Spec => []IInv`;
- `OfflineSafe`, `BlockListSafe`, `HitsSafe`, `AuditSafe`: the four invariants;
- `EvictionSafe`: the action property.

The invariants are not inductive. That the offline cache holds only allowed
packages depends on the copies of it in flight (`MirrorsDeserved` speaks of
`snapshot` as of the file) and on a handler at the mirror having ALLOW as its own
verdict (`LocalsOK`). That a hit serves a published verdict depends on the cache
holding published rows only (`CachePublished`), and that it is not an evicted one
on the evicted rows not coming back: their scans are past storing
(`PublishedOwned`), which is what separates them from the scans of
`InvalidationForcesFreshScan`, that are not. That an audit record says `cached`
exactly when the verdict is another request's needs that no scan serves
itself (`PublishedOwned` again). Each conjunct of `IInv` has its lemma
(`ResponsesStay` to `AuditStays`), over two common ones: `StepsKeep`, what no step
undoes, and `VerdictSteps`, the four steps that fix a verdict.

`ScanDaemonRefinement` proves `Refinement`, `Spec => ImplementsVerdictService`: the
initial states map to initial states, and under `IInv` every step of the daemon is a
step of the service or a stutter. The verdict the service sees is computed from
`response`, so one more invariant is needed (`ScansPublished`): a handler that is past
storing its own assessment has it among the published ones.

`RegistryClientProofs` proves the five invariants of the client for any callers,
urls, lifetimes, capacity and retry limit (`UrlsAssumption`, `LimitsAssumption`). `IInv`
adds: entries and callers refer to fetches of their own url that were started
(`References`); a fetch is done exactly when it has an outcome (`FetchesDone`);
a fetch under way is awaited by the caller that started it
(`FetchesAttended`), which is why a failure cannot outstay that caller; a fetch told
absent, of a url the registry has, was lied to, and a confirmation after the first lie was
lied to again (`LiesCounted`); a fetch under way and fresh is the one in the cache
unless a confirmation popped it (`FlightCached`); tokens and `excess` together
never exceed the capacity (`BucketShared`), which is the whole of the rate limit.

`TransitiveResolverProofs` proves `OnceSafe` and `TypeCorrect` for any graph and depth,
and `Complete` (`NothingLost`) for any graph, any failures and the depths up to 2. For
the first, what was expanded is marked (`ExpandedVisited`), and the check and the mark
are one step. For the last, `Levels` says that either the root's call is under way alone
(`AtRoot`), or its lookup failed, or the walk is `Below` it: every call was reported and
one of the first level is of a direct dependency (`Reported`); calls begin in the order
of their depth (`InOrder`); and each direct dependency is `Pursued`, waiting to begin
while it is not visited, and once visited waiting for its answer, failed, or with all
its dependencies reported. `FirstFirst` is where the order matters: a direct
dependency cannot be visited from the last level, since its own call would stand
behind a deeper one. What the loop leaves of a list (`UnvisitedIs`) and what is within
reach (`WithinIs`) are recursive functions; `Recursion` shows they exist, and induction
is by a smallest counterexample (`Inductive`).

`AssessmentProofs` proves, for any package and administrator, a timeline of any
length, any policy, weights, thresholds and target (`WorldsAssumption`,
`SettingsAssumption`, `TargetAssumption`, `WalkbackAssumption`): `TypeCorrect`, `OutageSafe`,
`SquatsSafe`, `KnownBadSafe` and `SkipsSafe`. Three invariants carry them. `SentinelInv`:
what Sentinel has found out is true of the package (`Found`); at each place the flags,
the second lookup and the similarity are what the path to it made them (`Placed`); a
name is past corroboration only if it is `Cleared`, or it is flagged (`Judged`), and
whatever forces a verdict is flagged at the end (`Flagged`). The path matters: a name
whose candidate count was lost may only be cleared because a count of 0 falls
short of every target (`UnlikeCleared`). `ShieldInv`: the predecessor is the last
survivor (`Nearest`), which needs that a non-empty set of versions has a newest
(`NewestIsGreatest`, by well-founded induction) and that whatever is outside the walk
back is older than anything in it (`PreviousNearest`); before a comparison is skipped
the manifests agree (`Compared`). `Decided`: a verdict is the last step and not under
the gates' floor, from which `FloorDecides` concludes for any two thresholds, in
either order.

`ExtensionProofs` proves the three invariants of the extension, for any packages and
any number of overlapping changes: `TypeCorrect`, `MissedSafe` and `BarSafe`. `NoneMissed`
is not inductive alone: a handler comes to its comparison with nothing to do
(`TodoPlaced`), so that overwriting its list forgets nothing. `LoopSafe` says once
what the loop over the dependencies does for the three places that enter it;
`MissedKept`, `BarKept` and `BarSet` what each part of the invariant needs of a step.

`DaemonLifecycleProofs` proves, for any number of processes, scripts and tokens
(`LifecycleAssumption`), `TypeCorrect`, `SchemaSafe`, `TrustSafe`, `KeyedSafe` and `OneToken`.
A process that migrates
does so from what it once read, while others commit: `Migrated` says what remains true
for it at each place, which it does because the file only moves forward (`Forward`),
so one lemma (`Moved`) serves every step. Version 3 is recorded only once all columns
are there, and a key without an @ means a version below 2 (`DbSound`). For the types, `Drawn`
says what a process has in hand at each place, and `FreeLeft` counts: a process
that opens the temporary file has none open, so with one inode more than processes one
has neither a name nor a descriptor. `TokensAgree` needs `Undisputed`: while nobody
disputes the token, at most one process draws one and then the file has none
(`DrawsAlone`), whoever went on holds the one in the file (`HoldersAgree`), and the
temporary file is the drawing process's own until it is renamed (`OwnTmp`).

`InstallPathProofs` proves, for any number of npm processes, commands of any length,
lists, configurations and faults (`LogAssumption`, `ShimAssumption`, `InstallAssumption`),
`TypeCorrect`, `KeptIsNewest`, `ScreenedBeforeNpm`, `ZeroExplained` and `LoggedBeforeNpm`, all
from one `Invariance`. Where a record is (`At`) is a file, a descriptor that will write to
it, or nowhere any more; the further back, the older (`NewerFirst`), and a record is not
further back than rotations were begun since it was opened (`Aged`). Both need that no
rename meets a file (`Shifting`) and, because a descriptor moves with the file it was
opened on, that an open file behind the first is not empty (`HasLines`). Of a shim,
`PackageOf` says which of its packages have their answer at each place, that a BLOCK is
remembered and a WARN to be confirmed waited for; `StatusOf` when it has an exit code, and that a
stranded loop has ended;
`AskingOf` and `Working` that shim and daemon speak of the same package. `LoggedBeforeNpm`
counts: what must have its record by now (`Owed`: an append that is over, an answer the
shim has heard, a bypass) and has none, together with the files that end in a torn
line, is at most twice the faults (`Costs`), for a torn line can swallow the next.

Only model-checked: the liveness properties `EveryScanEnds`, `EveryCallEnds`, `LockIsReleased`,
`ShimsEnd`, `DaemonComesBack`, `ScansEnd` and `IndicatorSettles` (fairness is out of the
prover's reach). The resolver's `max_depth` is 2 in the daemon; the runs also take 1
and 3, so that a package can come up for expansion twice.

## 6. Not modelled, and the plan

What a pattern, a distance, an embedding or a syntax tree finds in a text is data.
The drift monitor compares histograms by logarithms of reals, on one read of the
log, and keeps no state; that its window is empty after a rotation
(`drift_monitor.py:346`) is a consequence of `AuditLog`'s rotation no property states. The
disk checker reads sizes and changes no verdict. The evaluation scripts are not part
of the running system. Of the extension, `SentinelHook` (imports in an open editor; it
splits scoped names at the slash) and the panels are left out; of the shim, the
integrity check and `--sign`; of a scan, what is attached to a reply after its
verdict. Logging, wording and latency are left out.

The plan's modules are all there, and every invariant and action property of a passing
run has its theorem. What remains, in this order:

1. The order in which a name at two versions in the transitive list is screened
   (`router.py:119`).
2. A refinement of `ScanDaemon`'s `RunPillars` by `Assessment`, in place of the
   agreement by comment.
3. An abstract specification of the install path (a package is asked about, judged,
   installed, recorded), with `InstallPath` shown to implement it.
