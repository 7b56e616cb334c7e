--------------------------- MODULE DaemonLifecycle ---------------------------
(***************************************************************************)
(* How a daemon comes up and is kept up: scripts/start-daemon.sh, the      *)
(* lifespan of daemon/main.py (token file, schema migrations, port), and   *)
(* daemon/watchdog.sh.  Several starters may run at once, a process may    *)
(* die between any two steps, and the files survive it.                    *)
(***************************************************************************)
EXTENDS Integers, FiniteSets, FiniteSetsExt

CONSTANTS
  Daemons,       \* process slots for uvicorn
  Starters,      \* runs of start-daemon.sh, one of them the watchdog's own
  WatchdogsOwn,  \* that one
  Tokens,        \* secrets, numbered in the order they are drawn
  Threshold,     \* FAILURE_THRESHOLD
  MaxMishaps     \* bound: crashes, hangs, failed installs, removed files

ASSUME LifecycleAssumption ==
  /\ IsFiniteSet(Daemons)
  /\ WatchdogsOwn \in Starters
  /\ Tokens \subseteq Nat \ {0} /\ Tokens # {}
  /\ Threshold \in Nat \ {0}
  /\ MaxMishaps \in Nat

None   == 0          \* no file, no token read, no row
Empty  == -1         \* a token file without a token in it
Inodes == 1 .. Cardinality(Daemons) + 1   \* there is always one left

VARIABLES
  proc,      \* each daemon process: where it stands and its locals
  file, tmp, \* daemon.token and daemon.token.tmp: the inode each names, or None
  content,   \* what each inode holds
  db,        \* the SQLite file
  starter,   \* each run of start-daemon.sh
  venv,      \* "absent", "partial" or "ready"
  failures,  \* the watchdog's count; Threshold while it restarts
  held,      \* the token a long-lived client once read
  mishaps,
  disputed   \* history: two processes drew a token at once, or the file was removed

disk == <<file, tmp, content>>
vars == <<proc, disk, db, starter, venv, failures, held, mishaps, disputed>>

Off == [pc |-> "off", mem |-> None, fd |-> None, k |-> 0]

\* trust_cache is one row; by is history: the token POST /trust used for it.
NoRow     == [mac |-> None, status |-> "none", by |-> None]
LegacyRow == [mac |-> None, status |-> "legacy_no_mac", by |-> None]
Rows      == [mac : Tokens \cup {None}, status : {"none", "ok", "legacy_no_mac"},
              by : Tokens \cup {None}]

\* Keys in scan_cache: version 1's, of a plain and of a scoped package, and today's.
Keys   == {"name", "@scope/name", "name@version"}
WithAt == {"@scope/name", "name@version"}            \* LIKE '%@%'

\* What a start may find of the database: nothing; version 1, from before there was
\* a token; version 2, with a verdict from before the MACs; what this version leaves.
Databases ==
  { [version |-> 0, columns |-> -1, rows |-> {}, row |-> NoRow],
    [version |-> 0, columns |-> 0, rows |-> {"name", "@scope/name"}, row |-> LegacyRow],
    [version |-> 2, columns |-> 0, rows |-> WithAt, row |-> LegacyRow],
    [version |-> 3, columns |-> 3, rows |-> WithAt, row |-> NoRow] }

\* The token may be there already, and the virtual environment, which is elsewhere.
Init ==
  /\ db \in Databases /\ file \in {None, 1} /\ venv \in {"absent", "ready"}
  /\ tmp = None
  /\ content = [i \in Inodes |-> IF file = i THEN Min(Tokens) ELSE Empty]
  /\ proc = [d \in Daemons |-> Off]
  /\ starter = [s \in Starters |-> [pc |-> "idle", child |-> {}]]
  /\ failures = 0
  /\ held = None
  /\ mishaps \in 0 .. MaxMishaps
  /\ disputed = FALSE

Go(d, pc) == proc' = [proc EXCEPT ![d].pc = pc]

FileToken == IF file = None THEN None ELSE content[file]

Drawing == {d \in Daemons : proc[d].pc \in {"open", "write", "replace"}}

\* secrets.token_hex: none that anybody still has.
Fresh ==
  Tokens \ ( {proc[d].mem : d \in Daemons} \cup {content[i] : i \in Inodes}
             \cup {held, db.row.mac, db.row.by} )

\* os.open of the shared temporary name, truncating what is there.
FreeInode == Min(Inodes \ ({file, tmp} \cup {proc[d].fd : d \in Daemons}))
Forget(i) == [j \in Inodes |-> IF j = i /\ \A d \in Daemons : proc[d].fd # i
                                 THEN Empty ELSE content[j]]   \* no name, no descriptor
TmpInode  == IF tmp = None THEN FreeInode ELSE tmp

---------------------------------------------------------------------------
(* get_or_create_token at start-up                                         *)

\* Mutant: a start always draws a new token.
ReadToken_AlwaysDraws(d) == [pc |-> "open", mem |-> None]

ReadToken(d) ==
  IF FileToken \in {None, Empty}
    THEN [pc |-> "open", mem |-> None]
    ELSE [pc |-> "create", mem |-> FileToken]

TokenFound(d) ==
  /\ proc[d].pc = "token"
  /\ LET r == ReadToken(d) IN
       /\ proc' = [proc EXCEPT ![d].pc = r.pc, ![d].mem = r.mem]
       /\ disputed' = (disputed \/ (r.pc = "open" /\ Drawing # {}))
  /\ UNCHANGED <<disk, db, starter, venv, failures, held, mishaps>>

OpenTmp(d) ==
  /\ proc[d].pc = "open"
  /\ Fresh # {}
  /\ LET i == TmpInode IN
       /\ tmp' = i
       /\ content' = [content EXCEPT ![i] = Empty]
       /\ proc' = [proc EXCEPT ![d].pc = "write", ![d].fd = i, ![d].mem = Min(Fresh)]
  /\ UNCHANGED <<file, db, starter, venv, failures, held, mishaps, disputed>>

\* The write reaches the file when it is closed.
WriteTmp(d) ==
  /\ proc[d].pc = "write"
  /\ content' = [content EXCEPT ![proc[d].fd] = proc[d].mem]
  /\ proc' = [proc EXCEPT ![d].pc = "replace", ![d].fd = None]
  /\ UNCHANGED <<file, tmp, db, starter, venv, failures, held, mishaps, disputed>>

\* os.replace raises when another process has already renamed the file.
ReplaceToken(d) ==
  /\ proc[d].pc = "replace"
  /\ IF tmp = None
       THEN /\ proc' = [proc EXCEPT ![d] = Off]
            /\ UNCHANGED disk
       ELSE /\ file' = tmp
            /\ tmp' = None
            /\ content' = Forget(file)
            /\ Go(d, "create")
  /\ UNCHANGED <<db, starter, venv, failures, held, mishaps, disputed>>

---------------------------------------------------------------------------
(* init_db: each step is committed before the next                         *)

Schema(d, pc, newdb) ==
  /\ Go(d, pc)
  /\ db' = newdb
  /\ UNCHANGED <<disk, starter, venv, failures, held, mishaps, disputed>>

NextStep(current) == IF current < 2 THEN "v2" ELSE IF current < 3 THEN "alter" ELSE "bind"

\* Tables that are there keep their columns; then the version is read.
CreateTables(d) ==
  /\ proc[d].pc = "create"
  /\ proc' = [proc EXCEPT ![d].pc = NextStep(db.version)]
  /\ db' = IF db.columns = -1 THEN [db EXCEPT !.columns = 3] ELSE db
  /\ UNCHANGED <<disk, starter, venv, failures, held, mishaps, disputed>>

Newest(v) == IF db.version < v THEN v ELSE db.version   \* MAX(version)

\* Mutants: the purge records the newest version at once; it empties the table.
PurgedDb_RecordsV3 == [db EXCEPT !.version = 3, !.rows = @ \cap WithAt]
PurgedDb_AllRows   == [db EXCEPT !.version = Newest(2), !.rows = {}]

\* The purge, of keys without an @, and its version row are one transaction.
PurgedDb == [db EXCEPT !.version = Newest(2), !.rows = @ \cap WithAt]

MigrateV2(d) ==
  /\ proc[d].pc = "v2"
  /\ Schema(d, "alter", PurgedDb)

\* Mutants: a count off by one; the old rows are marked again by every migration.
AlteredDb_OneMore(k) == IF db.columns > k THEN db ELSE [db EXCEPT !.columns = k + 2]
AlteredDb_MarksAgain(k) ==
  IF db.columns > k
    THEN IF k = 2 /\ db.row # NoRow THEN [db EXCEPT !.row.status = "legacy_no_mac"] ELSE db
    ELSE [db EXCEPT !.columns = k + 1]

\* Three ALTERs, each on its own; a column that exists raises, which is passed over.
AlteredDb(k) == IF db.columns > k THEN db ELSE [db EXCEPT !.columns = k + 1]

AlterTable(d) ==
  /\ proc[d].pc = "alter"
  /\ proc' = [proc EXCEPT ![d].pc = IF proc[d].k = 2 THEN "record" ELSE "alter",
                          ![d].k = (proc[d].k + 1) % 3]
  /\ db' = AlteredDb(proc[d].k)
  /\ UNCHANGED <<disk, starter, venv, failures, held, mishaps, disputed>>

RecordV3(d) ==
  /\ proc[d].pc = "record"
  /\ Schema(d, "bind", [db EXCEPT !.version = Newest(3)])

---------------------------------------------------------------------------
(* the port                                                                *)

Listening == {d \in Daemons : proc[d].pc \in {"serving", "hung"}}
Healthy   == \E d \in Daemons : proc[d].pc = "serving"

\* uvicorn binds after the lifespan's start-up; a taken port ends the process.
Bind(d) ==
  /\ proc[d].pc = "bind"
  /\ proc' = [proc EXCEPT ![d] = IF Listening = {} THEN [@ EXCEPT !.pc = "serving"]
                                                  ELSE Off]
  /\ UNCHANGED <<disk, db, starter, venv, failures, held, mishaps, disputed>>

---------------------------------------------------------------------------
(* requests                                                                *)

ClientReads ==
  /\ held = None
  /\ FileToken \notin {None, Empty}
  /\ held' = FileToken
  /\ UNCHANGED <<proc, disk, db, starter, venv, failures, mishaps, disputed>>

Authenticated(d) == proc[d].pc = "serving" /\ held = proc[d].mem

\* The handlers call get_or_create_token again: memory follows the file, and a
\* file that is gone is written anew.
Refresh(d, t) ==
  /\ proc' = [proc EXCEPT ![d].mem = t]
  /\ IF FileToken \in {None, Empty}
       THEN /\ Fresh # {} /\ t = Min(Fresh)
            /\ file' = TmpInode
            /\ tmp' = None
            /\ content' = [Forget(file) EXCEPT ![TmpInode] = t]
            /\ disputed' = (disputed \/ Drawing # {})
       ELSE t = FileToken /\ UNCHANGED <<disk, disputed>>

Scan(d) ==
  /\ Authenticated(d)
  /\ \E t \in Fresh \cup {FileToken} : Refresh(d, t)
  /\ UNCHANGED <<db, starter, venv, failures, held, mishaps>>

\* INSERT ... ON CONFLICT DO UPDATE; a name@version key is stored by any scan.
Upsert(old, t) == [mac |-> t, status |-> "ok", by |-> t]

Trust(d) ==
  /\ Authenticated(d)
  /\ \E t \in Fresh \cup {FileToken} :
       /\ Refresh(d, t)
       /\ db' = [db EXCEPT !.row = Upsert(db.row, t), !.rows = @ \cup {"name@version"}]
  /\ UNCHANGED <<starter, venv, failures, held, mishaps>>

CheckTrust(row, t) ==
  CASE row = NoRow -> "unknown"
    [] row # NoRow /\ (row.status = "legacy_no_mac" \/ row.mac = None) -> "legacy"
    [] OTHER -> IF row.mac = t THEN "verified" ELSE "tampered"

---------------------------------------------------------------------------
(* start-daemon.sh                                                         *)

To(s, pc) == starter' = [starter EXCEPT ![s].pc = pc]

Launch(s) == /\ starter[s].pc = "idle"
             /\ To(s, "check")

UserStarts(s) ==
  /\ s # WatchdogsOwn
  /\ Launch(s)
  /\ UNCHANGED <<proc, disk, db, venv, failures, held, mishaps, disputed>>

\* lsof sees a port that is listened on, whoever holds it and in whatever state.
PortTaken == Listening # {}

CheckPort(s) ==
  /\ starter[s].pc = "check"
  /\ To(s, IF PortTaken THEN "idle" ELSE "venv")
  /\ UNCHANGED <<proc, disk, db, venv, failures, held, mishaps, disputed>>

\* A directory is enough for the next run to skip the installation.
MakeVenv(s) ==
  /\ starter[s].pc = "venv"
  /\ venv = "absent"
  /\ venv' = "partial"
  /\ To(s, "install")
  /\ UNCHANGED <<proc, disk, db, failures, held, mishaps, disputed>>

Install(s) ==
  /\ starter[s].pc = "install"
  /\ \/ /\ venv' = "ready"
        /\ To(s, "spawn")
        /\ UNCHANGED mishaps
     \/ /\ mishaps < MaxMishaps                 \* pip fails: set -e
        /\ mishaps' = mishaps + 1
        /\ To(s, "idle")
        /\ UNCHANGED venv
  /\ UNCHANGED <<proc, disk, db, failures, held, disputed>>

Spawn(s) ==
  /\ \/ starter[s].pc = "spawn"
     \/ starter[s].pc = "venv" /\ venv # "absent"
  /\ IF venv = "ready"
       THEN \E d \in Daemons :
              /\ proc[d].pc = "off"
              /\ \A x \in Starters : d \notin starter[x].child
              /\ Go(d, "token")
              /\ starter' = [starter EXCEPT ![s].pc = "wait", ![s].child = {d}]
       ELSE To(s, "wait") /\ UNCHANGED proc     \* no uvicorn: the child is dead
  /\ UNCHANGED <<disk, db, venv, failures, held, mishaps, disputed>>

\* The health endpoint answers, the child is dead, or 30 s are over.
StopWaiting(s) ==
  /\ starter[s].pc = "wait"
  /\ starter' = [starter EXCEPT ![s] = [pc |-> "idle", child |-> {}]]
  /\ UNCHANGED <<proc, disk, db, venv, failures, held, mishaps, disputed>>

---------------------------------------------------------------------------
(* watchdog.sh                                                             *)

\* Mutant: the count is reset when it reaches the threshold, and nothing else happens.
AfterProbe_NeverActs(ok) == IF ok \/ failures + 1 = Threshold THEN 0 ELSE failures + 1

AfterProbe(ok) == IF ok THEN 0 ELSE failures + 1

Probe ==
  /\ failures < Threshold
  /\ failures' = AfterProbe(Healthy)
  /\ IF failures' = Threshold
       THEN Launch(WatchdogsOwn)
       ELSE UNCHANGED starter
  /\ UNCHANGED <<proc, disk, db, venv, held, mishaps, disputed>>

RestartDone ==
  /\ failures = Threshold
  /\ starter[WatchdogsOwn].pc = "idle"
  /\ failures' = 0
  /\ UNCHANGED <<proc, disk, db, starter, venv, held, mishaps, disputed>>

---------------------------------------------------------------------------
(* what goes wrong                                                         *)

Mishap == mishaps < MaxMishaps /\ mishaps' = mishaps + 1

\* The process is killed, or raises while starting up.
Crash(d) ==
  /\ Mishap
  /\ proc[d].pc # "off"
  /\ proc' = [proc EXCEPT ![d] = Off]
  /\ UNCHANGED <<disk, db, starter, venv, failures, held, disputed>>

\* It no longer answers but its socket still listens.
Hang(d) ==
  /\ Mishap
  /\ proc[d].pc = "serving"
  /\ Go(d, "hung")
  /\ UNCHANGED <<disk, db, starter, venv, failures, held, disputed>>

RemoveToken ==
  /\ Mishap
  /\ file # None
  /\ file' = None
  /\ content' = Forget(file)
  /\ disputed' = TRUE
  /\ UNCHANGED <<proc, tmp, db, starter, venv, failures, held>>

StartUp(d) ==
  \/ TokenFound(d) \/ OpenTmp(d) \/ WriteTmp(d) \/ ReplaceToken(d)
  \/ CreateTables(d) \/ MigrateV2(d) \/ AlterTable(d) \/ RecordV3(d)
  \/ Bind(d)

Script(s) == CheckPort(s) \/ MakeVenv(s) \/ Install(s) \/ Spawn(s) \/ StopWaiting(s)

Watchdog == Probe \/ RestartDone

Next ==
  \/ \E d \in Daemons : StartUp(d) \/ Scan(d) \/ Trust(d) \/ Crash(d) \/ Hang(d)
  \/ \E s \in Starters : UserStarts(s) \/ Script(s)
  \/ Watchdog \/ ClientReads \/ RemoveToken

Spec == Init /\ [][Next]_vars

\* The processes and scripts that run do run on; nobody has to start one by hand,
\* send a request, or be unlucky.
Fairness ==
  /\ \A d \in Daemons : WF_vars(StartUp(d))
  /\ \A s \in Starters : WF_vars(Script(s))
  /\ WF_vars(Watchdog)

FairSpec == Spec /\ Fairness

---------------------------------------------------------------------------
(* properties                                                              *)

\* Every variable keeps its type.
TypeOK ==
  /\ proc \in [Daemons -> [pc : {"off", "token", "open", "write", "replace", "create", "v2",
                                 "alter", "record", "bind", "serving", "hung"},
                           mem : Tokens \cup {None}, fd : Inodes \cup {None}, k : 0 .. 2]]
  /\ {file, tmp} \subseteq Inodes \cup {None}
  /\ content \in [Inodes -> Tokens \cup {Empty}]
  /\ db \in [version : {0, 2, 3}, columns : -1 .. 3, rows : SUBSET Keys, row : Rows]
  /\ starter \in [Starters -> [pc : {"idle", "check", "venv", "install", "spawn", "wait"},
                               child : SUBSET Daemons]]
  /\ venv \in {"absent", "partial", "ready"}
  /\ failures \in 0 .. Threshold
  /\ held \in Tokens \cup {None}
  /\ mishaps \in 0 .. MaxMishaps
  /\ disputed \in BOOLEAN

\* Whoever answers requests does so on a database of version 3 with all its columns
\* and without a verdict under a key that has no @, whatever crashes and other starts
\* it went through (init_db commits after every step, database.py:123 to 157).  An old
\* key of a scoped package has one, and stays.
SchemaReady ==
  \A d \in Daemons : proc[d].pc = "serving" =>
    db.version = 3 /\ db.columns = 3 /\ db.rows \subseteq WithAt

\* No start takes a name@version verdict away, nor anything else the purge's pattern
\* spares, also when it still migrates while another already serves (database.py:129).
KeyedRowsKept == [][db.rows \cap WithAt \subseteq db'.rows]_vars

\* A trust row verifies with the token it was added under and no other, and one that
\* was there before the MACs never does until it is added again, also when a second
\* start migrates after that (database.py:143 to 152, 256 to 265, 309 to 318).
TrustVerdicts ==
  \A t \in Tokens : (CheckTrust(db.row, t) = "verified") = (db.row.by = t)

\* Clients, which read the file, and the daemon that serves have the same token. A
\* start that will lose the port must therefore not touch a token that is there.
\* Excepted: two starts that draw a token at once, and a file that was removed.
TokensAgree ==
  \A d \in Daemons : proc[d].pc = "serving" /\ ~disputed => proc[d].mem = FileToken

\* The installation was cut short, and no run of the script is still at it.
HalfInstalled == venv = "partial" /\ \A s \in Starters : starter[s].pc # "install"

\* A daemon that dies, at whatever step, is replaced: something listens again and
\* again, unless the virtual environment was left half made (watchdog.sh:78 to 94).
DaemonComesBack == []<>(Listening # {} \/ HalfInstalled)
=============================================================================
