------------------------ MODULE DaemonLifecycleProofs ------------------------
(***************************************************************************)
(* What every start leaves of the database and of the token file, for any  *)
(* number of processes that start, migrate, crash and serve at once.       *)
(***************************************************************************)
EXTENDS DaemonLifecycle, FiniteSetTheorems, WellFoundedInduction, TLAPS

Pcs == {"off", "token", "open", "write", "replace", "create", "v2", "alter", "record", "bind",
        "serving", "hung"}
Past == {"bind", "serving", "hung"}

Db(version, columns, rows, row) ==
  [version |-> version, columns |-> columns, rows |-> rows, row |-> row]

Process(pc, mem, fd, k) == [pc |-> pc, mem |-> mem, fd |-> fd, k |-> k]

(* The database and the processes are made of the fields their initial values have.  What *)
(* a process remembers, and through which file, is of no account here.                    *)
DbShape ==
  /\ db = Db(db.version, db.columns, db.rows, db.row)
  /\ db.version \in {0, 2, 3} /\ db.columns \in -1 .. 3
ProcShape ==
  /\ proc = [d \in Daemons |-> proc[d]]
  /\ \A d \in Daemons :
       /\ proc[d] = Process(proc[d].pc, proc[d].mem, proc[d].fd, proc[d].k)
       /\ proc[d].pc \in Pcs /\ proc[d].k \in 0 .. 2
       /\ proc[d].pc # "alter" => proc[d].k = 0

(* What the file is known to be, and what a process between two commits knows of it. *)
DbSound ==
  /\ db.version >= 2 => db.rows \subseteq WithAt
  /\ db.version = 3 => db.columns = 3
Migrated(pc, k, base) ==
  /\ pc = "v2" => base.columns >= 0
  /\ pc = "alter" => base.version >= 2 /\ base.columns >= k
  /\ pc = "record" => base.version >= 2 /\ base.columns = 3
  /\ pc \in Past => base.version = 3
MigratedAll == \A d \in Daemons : Migrated(proc[d].pc, proc[d].k, db)

(* A row is missing, or from before the MACs, or signed by whom it was added by. *)
RowSound == db.row \in {NoRow, LegacyRow} \/ \E t : db.row = Upsert(db.row, t)

IInv == DbShape /\ ProcShape /\ DbSound /\ MigratedAll /\ RowSound

(* Of the processes, only d changes, and into p. *)
Becomes(d, p) ==
  /\ proc' = [e \in Daemons |-> proc'[e]]
  /\ proc'[d] = p
  /\ \A e \in Daemons \ {d} : proc'[e] = proc[e]

(* The file only ever moves forward. *)
Forward == /\ db'.version >= db.version /\ db'.columns >= db.columns

-----------------------------------------------------------------------------
LEMMA Rewritten ==
  ASSUME DbShape, RowSound,
         NEW version \in {0, 2, 3}, NEW columns \in -1 .. 3, NEW rows,
         db' = Db(version, columns, rows, db.row)
  PROVE  /\ DbShape' /\ RowSound' /\ db'.row = db.row /\ db'.rows = rows
         /\ db'.version = version /\ db'.columns = columns
<1>1. /\ db'.row = db.row /\ db'.rows = rows
      /\ db'.version = version /\ db'.columns = columns
  BY DEF Db
<1>2. DbShape'
  BY <1>1 DEF DbShape, Db
<1>3. RowSound'
  BY <1>1 DEF RowSound, Upsert
<1> QED BY <1>1, <1>2, <1>3

(* A process that moves, or is moved, while the file moves forward or stays. *)
LEMMA Moved ==
  ASSUME IInv, NEW d \in Daemons, NEW pc \in Pcs, NEW mem, NEW fd, NEW k \in 0 .. 2,
         pc # "alter" => k = 0,
         Becomes(d, Process(pc, mem, fd, k)),
         DbShape', DbSound', RowSound', Forward,
         Migrated(pc, k, db')
  PROVE  IInv'
<1>1. /\ proc'[d] = Process(pc, mem, fd, k)
      /\ \A e \in Daemons \ {d} : proc'[e] = proc[e]
      /\ proc' = [e \in Daemons |-> proc'[e]]
  BY DEF Becomes
<1>2. proc'[d].pc = pc /\ proc'[d].k = k /\ proc'[d].mem = mem /\ proc'[d].fd = fd
  BY <1>1 DEF Process
<1>3. ProcShape'
  BY <1>1, <1>2 DEF IInv, ProcShape
<1>4. ASSUME NEW e \in Daemons
      PROVE  Migrated(proc'[e].pc, proc'[e].k, db')
  <2>1. CASE e = d
    BY <1>2, <2>1
  <2>2. CASE e # d
    <3>1. proc'[e] = proc[e] /\ proc[e].k \in 0 .. 2
      BY <1>1, <2>2 DEF IInv, ProcShape
    <3>2. Migrated(proc[e].pc, proc[e].k, db) /\ DbShape
      BY DEF IInv, MigratedAll
    <3> QED BY <3>1, <3>2 DEF Migrated, Forward, DbShape
  <2> QED BY <2>1, <2>2
<1>5. MigratedAll'
  BY <1>4 DEF MigratedAll
<1> QED BY <1>3, <1>5 DEF IInv

LEMMA DbStays ==
  ASSUME IInv, db' = db
  PROVE  DbShape' /\ DbSound' /\ RowSound' /\ Forward
BY DEF IInv, DbShape, DbSound, RowSound, Forward

LEMMA ProcStays ==
  ASSUME IInv, UNCHANGED <<proc, db>>
  PROVE  IInv'
BY DEF IInv, DbShape, DbSound, RowSound, ProcShape, MigratedAll

(* What a process is before its step, and what the assignments of a step make of it. *)
LEMMA Before ==
  ASSUME IInv, NEW d \in Daemons
  PROVE  /\ proc[d] = Process(proc[d].pc, proc[d].mem, proc[d].fd, proc[d].k)
         /\ proc[d].pc \in Pcs /\ proc[d].k \in 0 .. 2
         /\ proc[d].pc # "alter" => proc[d].k = 0
         /\ Migrated(proc[d].pc, proc[d].k, db)
BY DEF IInv, ProcShape, MigratedAll

LEMMA Assigned ==
  ASSUME IInv, NEW d \in Daemons, NEW pc, NEW mem, NEW fd, NEW k, NEW p
  PROVE  /\ proc' = [proc EXCEPT ![d] = p] => Becomes(d, p)
         /\ proc' = [proc EXCEPT ![d].pc = pc] =>
              Becomes(d, Process(pc, proc[d].mem, proc[d].fd, proc[d].k))
         /\ proc' = [proc EXCEPT ![d].mem = mem] =>
              Becomes(d, Process(proc[d].pc, mem, proc[d].fd, proc[d].k))
         /\ proc' = [proc EXCEPT ![d].pc = pc, ![d].mem = mem] =>
              Becomes(d, Process(pc, mem, proc[d].fd, proc[d].k))
         /\ proc' = [proc EXCEPT ![d].pc = pc, ![d].k = k] =>
              Becomes(d, Process(pc, proc[d].mem, proc[d].fd, k))
         /\ proc' = [proc EXCEPT ![d].pc = pc, ![d].fd = fd] =>
              Becomes(d, Process(pc, proc[d].mem, fd, proc[d].k))
         /\ proc' = [proc EXCEPT ![d].pc = pc, ![d].fd = fd, ![d].mem = mem] =>
              Becomes(d, Process(pc, mem, fd, proc[d].k))
<1>1. /\ proc[d] = Process(proc[d].pc, proc[d].mem, proc[d].fd, proc[d].k)
      /\ proc = [e \in Daemons |-> proc[e]]
  BY Before DEF IInv, ProcShape
<1>2. proc' = [proc EXCEPT ![d] = p] => Becomes(d, p)
  BY <1>1 DEF Becomes
<1>3. proc' = [proc EXCEPT ![d].pc = pc] =>
      Becomes(d, Process(pc, proc[d].mem, proc[d].fd, proc[d].k))
  BY <1>1 DEF Becomes, Process
<1>4. proc' = [proc EXCEPT ![d].mem = mem] =>
      Becomes(d, Process(proc[d].pc, mem, proc[d].fd, proc[d].k))
  BY <1>1 DEF Becomes, Process
<1>5. proc' = [proc EXCEPT ![d].pc = pc, ![d].mem = mem] =>
      Becomes(d, Process(pc, mem, proc[d].fd, proc[d].k))
  BY <1>1 DEF Becomes, Process
<1>6. proc' = [proc EXCEPT ![d].pc = pc, ![d].k = k] =>
      Becomes(d, Process(pc, proc[d].mem, proc[d].fd, k))
  BY <1>1 DEF Becomes, Process
<1>7. proc' = [proc EXCEPT ![d].pc = pc, ![d].fd = fd] =>
      Becomes(d, Process(pc, proc[d].mem, fd, proc[d].k))
  BY <1>1 DEF Becomes, Process
<1>8. proc' = [proc EXCEPT ![d].pc = pc, ![d].fd = fd, ![d].mem = mem] =>
      Becomes(d, Process(pc, mem, fd, proc[d].k))
  BY <1>1 DEF Becomes, Process
<1> QED BY <1>2, <1>3, <1>4, <1>5, <1>6, <1>7, <1>8

-----------------------------------------------------------------------------
(* The token at start-up, and the end of a process: the database is not touched. *)

LEMMA TokenSafe ==
  ASSUME IInv, NEW d \in Daemons,
         TokenFound(d) \/ OpenTmp(d) \/ WriteTmp(d) \/ ReplaceToken(d) \/ Crash(d)
  PROVE  IInv'
<1>1. db' = db
  BY DEF TokenFound, OpenTmp, WriteTmp, ReplaceToken, Crash
<1>2. ASSUME NEW pc \in {"off", "open", "create", "write", "replace"}, NEW mem, NEW fd,
             Becomes(d, Process(pc, mem, fd, 0))
      PROVE  IInv'
  <2>1. pc \in Pcs /\ pc # "alter" /\ Migrated(pc, 0, db')
    BY DEF Pcs, Migrated, Past
  <2>2. DbShape' /\ DbSound' /\ RowSound' /\ Forward
    BY <1>1, DbStays
  <2>3. 0 \in 0 .. 2
    OBVIOUS
  <2> QED BY <1>2, <2>1, <2>2, <2>3, Moved
<1>4. CASE TokenFound(d)
  <2>1. proc[d].k = 0
    BY <1>4, Before DEF TokenFound
  <2> DEFINE r == ReadToken(d)
  <2>2. proc' = [proc EXCEPT ![d].pc = r.pc, ![d].mem = r.mem]
    BY <1>4 DEF TokenFound
  <2>3. r.pc \in {"open", "create"}
    BY DEF ReadToken
  <2> HIDE DEF r
  <2>4. Becomes(d, Process(r.pc, r.mem, proc[d].fd, 0))
    BY <2>1, <2>2, Assigned
  <2> QED BY <1>2, <2>3, <2>4
<1>5. CASE OpenTmp(d)
  <2>1. proc[d].k = 0
    BY <1>5, Before DEF OpenTmp
  <2>2. PICK i, t : proc' = [proc EXCEPT ![d].pc = "write", ![d].fd = i, ![d].mem = t]
    BY <1>5 DEF OpenTmp
  <2>3. Becomes(d, Process("write", t, i, 0))
    BY <2>1, <2>2, Assigned
  <2> QED BY <1>2, <2>3
<1>6. CASE WriteTmp(d)
  <2>1. proc[d].k = 0
    BY <1>6, Before DEF WriteTmp
  <2>2. proc' = [proc EXCEPT ![d].pc = "replace", ![d].fd = None]
    BY <1>6 DEF WriteTmp
  <2>3. Becomes(d, Process("replace", proc[d].mem, None, 0))
    BY <2>1, <2>2, Assigned
  <2> QED BY <1>2, <2>3
<1>7. Off = Process("off", None, None, 0)
  BY DEF Off, Process
<1>8. CASE ReplaceToken(d)
  <2>1. proc[d].k = 0
    BY <1>8, Before DEF ReplaceToken
  <2>2. CASE tmp = None
    <3>1. proc' = [proc EXCEPT ![d] = Process("off", None, None, 0)]
      BY <1>7, <1>8, <2>2 DEF ReplaceToken
    <3> QED BY <1>2, <3>1, Assigned
  <2>3. CASE tmp # None
    <3>1. proc' = [proc EXCEPT ![d].pc = "create"]
      BY <1>8, <2>3 DEF ReplaceToken, Go
    <3>2. Becomes(d, Process("create", proc[d].mem, proc[d].fd, 0))
      BY <2>1, <3>1, Assigned
    <3> QED BY <1>2, <3>2
  <2> QED BY <2>2, <2>3
<1>9. CASE Crash(d)
  BY <1>2, <1>7, <1>9, Assigned DEF Crash
<1> QED BY <1>4, <1>5, <1>6, <1>8, <1>9

-----------------------------------------------------------------------------
(* init_db: each commit finds what the earlier ones left, whoever made them. *)

LEMMA CreateSafe ==
  ASSUME IInv, NEW d \in Daemons, CreateTables(d)
  PROVE  IInv'
<1>1. DbShape /\ DbSound /\ RowSound
  BY DEF IInv
<1>2. /\ proc' = [proc EXCEPT ![d].pc = NextStep(db.version)] /\ proc[d].pc = "create"
      /\ db' = IF db.columns = -1 THEN [db EXCEPT !.columns = 3] ELSE db
  BY DEF CreateTables
<1>3. Becomes(d, Process(NextStep(db.version), proc[d].mem, proc[d].fd, 0))
  <2>1. proc[d].k = 0
    BY <1>2, Before
  <2> QED BY <1>2, <2>1, Assigned
<1>4. DbShape' /\ DbSound' /\ RowSound' /\ Forward /\ db'.columns >= 0 /\ db'.version = db.version
  <2>1. CASE db.columns = -1
    <3>1. db' = Db(db.version, 3, db.rows, db.row)
      BY <1>1, <1>2, <2>1 DEF DbShape, Db
    <3>2. db.version \in {0, 2, 3} /\ 3 \in -1 .. 3
      BY <1>1 DEF DbShape
    <3>3. /\ DbShape' /\ RowSound' /\ db'.version = db.version /\ db'.columns = 3
          /\ db'.rows = db.rows
      BY <1>1, <3>1, <3>2, Rewritten
    <3> QED BY <1>1, <2>1, <3>2, <3>3 DEF DbSound, Forward
  <2>2. CASE db.columns # -1
    <3>1. db' = db /\ db.columns >= 0
      BY <1>1, <1>2, <2>2 DEF DbShape
    <3> QED BY <3>1, DbStays
  <2> QED BY <2>1, <2>2
<1>5. /\ NextStep(db.version) \in Pcs /\ 0 \in 0 .. 2
      /\ Migrated(NextStep(db.version), 0, db')
  <2>1. db.version \in {0, 2, 3}
    BY <1>1 DEF DbShape
  <2> QED BY <1>4, <2>1 DEF NextStep, Pcs, Migrated, Past
<1> QED BY <1>3, <1>4, <1>5, Moved

LEMMA PurgeSafe ==
  ASSUME IInv, NEW d \in Daemons, MigrateV2(d)
  PROVE  IInv'
<1>1. DbShape /\ DbSound /\ RowSound /\ db.version \in {0, 2, 3} /\ db.columns \in -1 .. 3
  BY DEF IInv, DbShape
<1>2. proc[d].pc = "v2" /\ proc' = [proc EXCEPT ![d].pc = "alter"] /\ db' = PurgedDb
  BY DEF MigrateV2, Schema, Go
<1>3. proc[d].k = 0 /\ db.columns >= 0
  BY <1>2, Before DEF Migrated
<1>4. Becomes(d, Process("alter", proc[d].mem, proc[d].fd, 0))
  BY <1>2, <1>3, Assigned
<1>5. db' = Db(Newest(2), db.columns, db.rows \cap WithAt, db.row)
  BY <1>1, <1>2 DEF PurgedDb, DbShape, Db
<1>6. Newest(2) \in {2, 3} /\ Newest(2) >= db.version /\ (Newest(2) = 3 => db.version = 3)
  BY <1>1 DEF Newest
<1>7. /\ DbShape' /\ RowSound' /\ db'.version = Newest(2) /\ db'.columns = db.columns
      /\ db'.rows = db.rows \cap WithAt
  BY <1>1, <1>5, <1>6, Rewritten
<1>8. DbSound' /\ Forward
  BY <1>1, <1>6, <1>7 DEF DbSound, Forward
<1>9. "alter" \in Pcs /\ 0 \in 0 .. 2 /\ Migrated("alter", 0, db')
  BY <1>3, <1>6, <1>7 DEF Pcs, Migrated, Past
<1> QED BY <1>4, <1>7, <1>8, <1>9, Moved

LEMMA AlterSafe ==
  ASSUME IInv, NEW d \in Daemons, AlterTable(d)
  PROVE  IInv'
<1>1. DbShape /\ DbSound /\ RowSound /\ db.version \in {0, 2, 3} /\ db.columns \in -1 .. 3
  BY DEF IInv, DbShape
<1> DEFINE k  == proc[d].k
           pc == IF k = 2 THEN "record" ELSE "alter"
<1>2. /\ proc[d].pc = "alter" /\ db' = AlteredDb(k)
      /\ proc' = [proc EXCEPT ![d].pc = pc, ![d].k = (k + 1) % 3]
  BY DEF AlterTable
<1>3. k \in 0 .. 2 /\ db.version >= 2 /\ db.columns >= k
  BY <1>2, Before DEF Migrated
<1> HIDE DEF k, pc
<1>4. (k + 1) % 3 = IF k = 2 THEN 0 ELSE k + 1
  BY <1>3
<1>5. Becomes(d, Process(pc, proc[d].mem, proc[d].fd, (k + 1) % 3))
  BY <1>2, Assigned
<1> DEFINE columns == IF db.columns > k THEN db.columns ELSE k + 1
<1>6. columns \in -1 .. 3 /\ columns >= k + 1 /\ columns >= db.columns
      /\ (db.columns = 3 => columns = 3)
  BY <1>1, <1>3
<1>7. db' = Db(db.version, columns, db.rows, db.row)
  BY <1>1, <1>2 DEF AlteredDb, DbShape, Db
<1> HIDE DEF columns
<1>8. /\ DbShape' /\ RowSound' /\ db'.version = db.version /\ db'.columns = columns
      /\ db'.rows = db.rows
  BY <1>1, <1>6, <1>7, Rewritten
<1>9. DbSound' /\ Forward
  BY <1>1, <1>6, <1>8 DEF DbSound, Forward
<1>10. /\ pc \in Pcs /\ (k + 1) % 3 \in 0 .. 2 /\ (pc # "alter" => (k + 1) % 3 = 0)
       /\ Migrated(pc, (k + 1) % 3, db')
  BY <1>3, <1>4, <1>6, <1>8 DEF pc, Pcs, Migrated, Past
<1> QED BY <1>5, <1>8, <1>9, <1>10, Moved

LEMMA RecordSafe ==
  ASSUME IInv, NEW d \in Daemons, RecordV3(d)
  PROVE  IInv'
<1>1. DbShape /\ DbSound /\ RowSound /\ db.version \in {0, 2, 3} /\ db.columns \in -1 .. 3
  BY DEF IInv, DbShape
<1>2. /\ proc[d].pc = "record" /\ proc' = [proc EXCEPT ![d].pc = "bind"]
      /\ db' = [db EXCEPT !.version = Newest(3)]
  BY DEF RecordV3, Schema, Go
<1>3. proc[d].k = 0 /\ db.columns = 3 /\ db.version >= 2
  BY <1>2, Before DEF Migrated
<1>4. Becomes(d, Process("bind", proc[d].mem, proc[d].fd, 0))
  BY <1>2, <1>3, Assigned
<1>5. Newest(3) = 3
  BY <1>1 DEF Newest
<1>6. db' = Db(3, db.columns, db.rows, db.row)
  BY <1>1, <1>2, <1>5 DEF DbShape, Db
<1>7. /\ DbShape' /\ RowSound' /\ db'.version = 3 /\ db'.columns = db.columns
      /\ db'.rows = db.rows
  BY <1>1, <1>6, Rewritten
<1>8. DbSound' /\ Forward
  BY <1>1, <1>3, <1>7 DEF DbSound, Forward
<1>9. "bind" \in Pcs /\ 0 \in 0 .. 2 /\ Migrated("bind", 0, db')
  BY <1>7 DEF Pcs, Migrated, Past
<1> QED BY <1>4, <1>7, <1>8, <1>9, Moved

-----------------------------------------------------------------------------
(* The port, the requests and the scripts. *)

LEMMA PortSafe ==
  ASSUME IInv, NEW d \in Daemons, Bind(d) \/ Hang(d)
  PROVE  IInv'
<1>1. db' = db /\ proc[d].pc \in {"bind", "serving"}
  BY DEF Bind, Hang
<1>2. proc[d].k = 0 /\ db.version = 3
  BY <1>1, Before DEF Migrated, Past
<1>3. DbShape' /\ DbSound' /\ RowSound' /\ Forward
  BY <1>1, DbStays
<1>4. ASSUME NEW pc \in {"off", "serving", "hung"}, NEW mem, NEW fd,
             Becomes(d, Process(pc, mem, fd, 0))
      PROVE  IInv'
  <2>1. pc \in Pcs /\ pc # "alter" /\ 0 \in 0 .. 2 /\ Migrated(pc, 0, db')
    BY <1>1, <1>2 DEF Pcs, Migrated, Past
  <2> QED BY <1>3, <1>4, <2>1, Moved
<1>5. CASE Hang(d)
  <2>1. proc' = [proc EXCEPT ![d].pc = "hung"]
    BY <1>5 DEF Hang, Go
  <2>2. Becomes(d, Process("hung", proc[d].mem, proc[d].fd, 0))
    BY <1>2, <2>1, Assigned
  <2> QED BY <1>4, <2>2
<1>6. CASE Bind(d) /\ Listening = {}
  <2>1. proc' = [proc EXCEPT ![d].pc = "serving"]
    BY <1>6 DEF Bind
  <2>2. Becomes(d, Process("serving", proc[d].mem, proc[d].fd, 0))
    BY <1>2, <2>1, Assigned
  <2> QED BY <1>4, <2>2
<1>7. CASE Bind(d) /\ Listening # {}
  <2>1. proc' = [proc EXCEPT ![d] = Process("off", None, None, 0)]
    BY <1>7 DEF Bind, Off, Process
  <2> QED BY <1>4, <2>1, Assigned
<1> QED BY <1>5, <1>6, <1>7

(* A request may replace the token in memory, and the row of the trust list. *)
LEMMA RequestSafe ==
  ASSUME IInv, NEW d \in Daemons, Scan(d) \/ Trust(d)
  PROVE  IInv'
<1>1. DbShape /\ DbSound /\ RowSound
  BY DEF IInv
<1>2. PICK t : /\ proc' = [proc EXCEPT ![d].mem = t]
               /\ \/ db' = db
                  \/ db' = [db EXCEPT !.row = Upsert(db.row, t), !.rows = @ \cup {"name@version"}]
  <2>1. CASE Scan(d)
    BY <2>1 DEF Scan, Refresh
  <2>2. CASE Trust(d)
    BY <2>2 DEF Trust, Refresh
  <2> QED BY <2>1, <2>2
<1>3. Becomes(d, Process(proc[d].pc, t, proc[d].fd, proc[d].k))
  BY <1>2, Assigned
<1>4. /\ DbShape' /\ DbSound' /\ RowSound' /\ Forward
      /\ db'.version = db.version /\ db'.columns = db.columns
  <2>1. CASE db' = db
    BY <2>1, DbStays
  <2>2. CASE db' = [db EXCEPT !.row = Upsert(db.row, t), !.rows = @ \cup {"name@version"}]
    <3>1. db' = Db(db.version, db.columns, db.rows \cup {"name@version"}, Upsert(db.row, t))
      BY <1>1, <2>2 DEF DbShape, Db
    <3>2. /\ db'.version = db.version /\ db'.columns = db.columns 
          /\ db'.rows = db.rows \cup {"name@version"} /\ db'.row = Upsert(db.row, t)
      BY <3>1 DEF Db
    <3>3. Upsert(db.row, t) = Upsert(db'.row, t)
      BY DEF Upsert
    <3>4. RowSound'
      BY <3>2, <3>3 DEF RowSound
    <3>5. db' = Db(db'.version, db'.columns, db'.rows, db'.row)
      BY <3>1, <3>2, Zenon
    <3>6. DbShape'
      BY <1>1, <3>2, <3>5 DEF DbShape
    <3>7. DbSound' /\ Forward
      BY <1>1, <3>2 DEF DbShape, DbSound, Forward, WithAt
    <3> QED BY <3>2, <3>4, <3>6, <3>7
  <2> QED BY <1>2, <2>1, <2>2
<1>5. /\ proc[d].pc \in Pcs /\ proc[d].k \in 0 .. 2 /\ (proc[d].pc # "alter" => proc[d].k = 0)
      /\ Migrated(proc[d].pc, proc[d].k, db)
  BY Before
<1>6. Migrated(proc[d].pc, proc[d].k, db')
  BY <1>4, <1>5 DEF Migrated
<1> QED BY <1>3, <1>4, <1>5, <1>6, Moved

LEMMA ScriptSafe ==
  ASSUME IInv, NEW s \in Starters, Script(s)
  PROVE  IInv'
<1>1. CASE UNCHANGED <<proc, db>>
  BY <1>1, ProcStays
<1>2. CASE Spawn(s) /\ venv = "ready"
  <2>1. PICK d \in Daemons : proc[d].pc = "off" /\ Go(d, "token") /\ db' = db
    BY <1>2 DEF Spawn
  <2>2. proc[d].k = 0
    BY <2>1, Before
  <2>3. Becomes(d, Process("token", proc[d].mem, proc[d].fd, 0))
    BY <2>1, <2>2, Assigned DEF Go
  <2>4. DbShape' /\ DbSound' /\ RowSound' /\ Forward
    BY <2>1, DbStays
  <2>5. "token" \in Pcs /\ 0 \in 0 .. 2 /\ Migrated("token", 0, db')
    BY DEF Pcs, Migrated, Past
  <2> QED BY <2>3, <2>4, <2>5, Moved
<1> QED BY <1>1, <1>2 DEF Script, CheckPort, MakeVenv, Install, Spawn, StopWaiting

-----------------------------------------------------------------------------

LEMMA InitSafe == Init => IInv
<1> SUFFICES ASSUME Init PROVE IInv
  OBVIOUS
<1>1. db \in Databases
  BY DEF Init
<1>2. /\ db = Db(db.version, db.columns, db.rows, db.row)
      /\ db.version \in {0, 2, 3} /\ db.columns \in {-1, 0, 3}
      /\ db.version >= 2 => db.rows \subseteq WithAt
      /\ db.version = 3 => db.columns = 3
      /\ db.row \in {NoRow, LegacyRow}
  BY <1>1 DEF Databases, Db
<1>3. DbShape /\ DbSound /\ RowSound
  BY <1>2 DEF DbShape, DbSound, RowSound
<1>4. proc = [d \in Daemons |-> Process("off", None, None, 0)]
  BY DEF Init, Off, Process
<1>5. \A d \in Daemons : proc[d] = Process("off", None, None, 0)
  BY <1>4
<1>6. ProcShape
  BY <1>4, <1>5 DEF ProcShape, Process, Pcs
<1>7. MigratedAll
  BY <1>5 DEF MigratedAll, Migrated, Process, Past
<1> QED BY <1>3, <1>6, <1>7 DEF IInv

LEMMA NextSafe == IInv /\ [Next]_vars => IInv'
<1> SUFFICES ASSUME IInv, [Next]_vars PROVE IInv'
  OBVIOUS
<1>1. ASSUME NEW d \in Daemons,
             TokenFound(d) \/ OpenTmp(d) \/ WriteTmp(d) \/ ReplaceToken(d) \/ Crash(d)
      PROVE  IInv'
  BY <1>1, TokenSafe
<1>2. ASSUME NEW d \in Daemons, CreateTables(d)
      PROVE  IInv'
  BY <1>2, CreateSafe
<1>3. ASSUME NEW d \in Daemons, MigrateV2(d)
      PROVE  IInv'
  BY <1>3, PurgeSafe
<1>4. ASSUME NEW d \in Daemons, AlterTable(d)
      PROVE  IInv'
  BY <1>4, AlterSafe
<1>5. ASSUME NEW d \in Daemons, RecordV3(d)
      PROVE  IInv'
  BY <1>5, RecordSafe
<1>6. ASSUME NEW d \in Daemons, Bind(d) \/ Hang(d)
      PROVE  IInv'
  BY <1>6, PortSafe
<1>7. ASSUME NEW d \in Daemons, Scan(d) \/ Trust(d)
      PROVE  IInv'
  BY <1>7, RequestSafe
<1>8. ASSUME NEW s \in Starters, Script(s)
      PROVE  IInv'
  BY <1>8, ScriptSafe
<1>9. CASE UNCHANGED <<proc, db>>
  BY <1>9, ProcStays
<1>10. ASSUME NEW s \in Starters, UserStarts(s)
       PROVE  IInv'
  BY <1>10, ProcStays DEF UserStarts
<1>11. CASE Watchdog \/ ClientReads \/ RemoveToken
  BY <1>11, ProcStays DEF Watchdog, Probe, RestartDone, ClientReads, RemoveToken
<1>12. CASE UNCHANGED vars
  BY <1>9, <1>12 DEF vars
<1> QED BY <1>1, <1>2, <1>3, <1>4, <1>5, <1>6, <1>7, <1>8, <1>10, <1>11, <1>12 DEF Next, StartUp

LEMMA Invariance == Spec => []IInv
  BY InitSafe, NextSafe, PTL DEF Spec

-----------------------------------------------------------------------------
(* What the invariant says of those who use the database. *)

(* A daemon that serves does so on a database of version 3 with all its columns and no    *)
(* verdict under a key without an @, for any number of starts that migrate beside it and  *)
(* that crash between two commits (init_db).                                              *)
THEOREM SchemaSafe == Spec => []SchemaReady
<1>1. IInv => SchemaReady
  <2> SUFFICES ASSUME IInv, NEW d \in Daemons, proc[d].pc = "serving"
               PROVE  db.version = 3 /\ db.columns = 3 /\ db.rows \subseteq WithAt
    BY DEF SchemaReady
  <2>1. db.version = 3
    BY Before DEF Migrated, Past
  <2> QED BY <2>1 DEF IInv, DbSound
<1> QED BY <1>1, Invariance, PTL

(* A row of the trust list verifies with the token it was added under and with no other,  *)
(* for any tokens and through any migrations (_add_trust_sync, _check_trust_sync).        *)
THEOREM TrustSafe == Spec => []TrustVerdicts
<1>1. IInv => TrustVerdicts
  <2> SUFFICES ASSUME IInv, NEW t \in Tokens
               PROVE  (CheckTrust(db.row, t) = "verified") <=> (db.row.by = t)
    BY DEF TrustVerdicts
  <2>1. t # None
    BY LifecycleAssumption DEF None
  <2>2. CASE db.row = NoRow
    BY <2>1, <2>2 DEF CheckTrust, NoRow
  <2>3. CASE db.row = LegacyRow
    BY <2>1, <2>3 DEF CheckTrust, NoRow, LegacyRow
  <2>4. ASSUME NEW u, db.row = Upsert(db.row, u)
        PROVE  (CheckTrust(db.row, t) = "verified") <=> (db.row.by = t)
    <3>1. db.row.mac = u /\ db.row.by = u /\ db.row.status = "ok" /\ db.row # NoRow
      BY <2>4 DEF Upsert, NoRow
    <3> QED BY <2>1, <3>1 DEF CheckTrust
  <2> QED BY <2>2, <2>3, <2>4 DEF IInv, RowSound
<1> QED BY <1>1, Invariance, PTL

(* A verdict whose key has an @ is never purged, so none of today's, whichever starts      *)
(* migrate while others already serve (init_db).                                          *)
THEOREM KeyedSafe == Spec => KeyedRowsKept
<1>1. IInv /\ [Next]_vars => (db.rows \cap WithAt \subseteq db'.rows)
  <2> SUFFICES ASSUME IInv, [Next]_vars PROVE db.rows \cap WithAt \subseteq db'.rows
    OBVIOUS
  <2>1. DbShape
    BY DEF IInv
  <2>2. CASE db' = db
    BY <2>2
  <2>3. ASSUME NEW d \in Daemons, Trust(d)
        PROVE  db.rows \cap WithAt \subseteq db'.rows
    BY <2>1, <2>3 DEF Trust, DbShape, Db
  <2>4. ASSUME NEW d \in Daemons, CreateTables(d)
        PROVE  db.rows \cap WithAt \subseteq db'.rows
    BY <2>1, <2>4 DEF CreateTables, DbShape, Db
  <2>5. ASSUME NEW d \in Daemons, MigrateV2(d)
        PROVE  db.rows \cap WithAt \subseteq db'.rows
    BY <2>1, <2>5 DEF MigrateV2, Schema, PurgedDb, DbShape, Db
  <2>6. ASSUME NEW d \in Daemons, AlterTable(d)
        PROVE  db.rows \cap WithAt \subseteq db'.rows
    BY <2>1, <2>6 DEF AlterTable, AlteredDb, DbShape, Db
  <2>7. ASSUME NEW d \in Daemons, RecordV3(d)
        PROVE  db.rows \cap WithAt \subseteq db'.rows
    BY <2>1, <2>7 DEF RecordV3, Schema, DbShape, Db
  <2>8. \/ db' = db
        \/ \E d \in Daemons : \/ Trust(d) \/ CreateTables(d) \/ MigrateV2(d)
                             \/ AlterTable(d) \/ RecordV3(d)
    BY DEF Next, StartUp, Script, Watchdog, TokenFound, OpenTmp, WriteTmp, ReplaceToken, Bind,
       Scan, Crash, Hang, UserStarts, CheckPort, MakeVenv, Install, Spawn, StopWaiting, Probe,
       RestartDone, ClientReads, RemoveToken, vars
  <2> QED BY <2>2, <2>3, <2>4, <2>5, <2>6, <2>7, <2>8
<1> QED BY <1>1, Invariance, PTL DEF Spec, KeyedRowsKept

-----------------------------------------------------------------------------
(* The types, part by part.                                                               *)

Processes == [pc : Pcs, mem : Tokens \cup {None}, fd : Inodes \cup {None}, k : 0 .. 2]
Dbs == [version : {0, 2, 3}, columns : -1 .. 3, rows : SUBSET Keys, row : Rows]

ProcTyped == proc \in [Daemons -> Processes]
DiskTyped == /\ {file, tmp} \subseteq Inodes \cup {None}
             /\ content \in [Inodes -> Tokens \cup {Empty}]
ScriptsTyped ==
  /\ starter \in [Starters -> [pc : {"idle", "check", "venv", "install", "spawn", "wait"},
                               child : SUBSET Daemons]]
  /\ venv \in {"absent", "partial", "ready"} /\ failures \in 0 .. Threshold
RestTyped == held \in Tokens \cup {None} /\ mishaps \in 0 .. MaxMishaps /\ disputed \in BOOLEAN

LEMMA TypeParts ==
  /\ TypeOK <=> ProcTyped /\ DiskTyped /\ db \in Dbs /\ ScriptsTyped /\ RestTyped
  /\ TypeOK' <=> ProcTyped' /\ DiskTyped' /\ db' \in Dbs /\ ScriptsTyped' /\ RestTyped'
BY DEF TypeOK, ProcTyped, DiskTyped, ScriptsTyped, RestTyped, Processes, Pcs, Dbs

(* Only a process that writes has the temporary file open, and one that writes or renames *)
(* has drawn a token.                                                                     *)
DrawnOf(pc, mem, fd) ==
  /\ pc # "write" => fd = None
  /\ pc = "write" => fd \in Inodes
  /\ pc \in {"write", "replace"} => mem \in Tokens
Drawn == \A d \in Daemons : DrawnOf(proc[d].pc, proc[d].mem, proc[d].fd)

(* The smallest of some numbers is one of them. *)
LEMMA MinIn ==
  ASSUME NEW S, S \subseteq Nat, S # {}
  PROVE  Min(S) \in S
<1>1. PICK m \in S : \A n \in S : ~(<<n, m>> \in OpToRel(<, Nat))
  BY NatLessThanWellFounded, WFMin
<1>2. \A n \in S : ~(n < m) BY <1>1 DEF OpToRel
<1>3. \A n \in S : m <= n BY <1>2
<1> QED BY <1>3 DEF Min

LEMMA FreshToken ==
  ASSUME Fresh # {}
  PROVE  Min(Fresh) \in Tokens
BY MinIn, LifecycleAssumption DEF Fresh

(* One inode more than there are processes: one of them has no name and is open nowhere,  *)
(* when the temporary file does not exist and some process has no file open.              *)
LEMMA FreeLeft ==
  ASSUME ProcTyped, NEW d \in Daemons, proc[d].fd = None, tmp = None
  PROVE  FreeInode \in Inodes /\ FreeInode # file
<1> DEFINE N      == Cardinality(Daemons)
           Others == Daemons \ {d}
           Open   == {proc[e].fd : e \in Others}
<1>1. IsFiniteSet(Daemons) /\ N \in Nat
  BY LifecycleAssumption, FS_CardinalityType
<1>2. IsFiniteSet(Others) /\ Cardinality(Others) = N - 1
  BY <1>1, FS_RemoveElement
<1>3. IsFiniteSet(Open) /\ Cardinality(Open) <= N - 1
  <2>1. [e \in Others |-> proc[e].fd] \in Surjection(Others, Open) BY DEF Surjection
  <2> QED BY <1>2, <2>1, FS_Surjection
<1>4. IsFiniteSet(Open \cup {file}) /\ Cardinality(Open \cup {file}) <= N
  <2>1. Cardinality(Open) \in Nat BY <1>3, FS_CardinalityType
  <2>2. /\ IsFiniteSet(Open \cup {file})
        /\ Cardinality(Open \cup {file}) \in {Cardinality(Open), Cardinality(Open) + 1}
    BY <1>3, FS_AddElement
  <2> QED BY <1>1, <1>3, <2>1, <2>2
<1>5. Cardinality(Inodes) = N + 1 /\ Inodes \subseteq Nat \ {None}
  <2>1. 1 \in Int /\ N + 1 \in Int /\ ~(1 > N + 1) BY <1>1
  <2>2. Cardinality(1 .. N + 1) = (N + 1) - 1 + 1 BY <2>1, FS_Interval
  <2> QED BY <1>1, <2>2 DEF Inodes, None
<1>6. ~(Inodes \subseteq Open \cup {file})
  <2> SUFFICES ASSUME Inodes \subseteq Open \cup {file}
               PROVE  FALSE
    OBVIOUS
  <2>1. Cardinality(Inodes) <= Cardinality(Open \cup {file}) BY <1>4, FS_Subset
  <2> QED BY <1>1, <1>4, <1>5, <2>1, FS_CardinalityType
<1> DEFINE Free == Inodes \ ({file, tmp} \cup {proc[e].fd : e \in Daemons})
<1>7. Free # {}
  <2>1. PICK i \in Inodes : i \notin Open \cup {file} BY <1>6
  <2>2. i # None BY <1>5
  <2> QED BY <2>1, <2>2
<1>8. Min(Free) \in Free BY <1>5, <1>7, MinIn
<1> QED BY <1>8 DEF FreeInode

(* A process moves into what it may be; the others stay. *)
LEMMA MovedTyped ==
  ASSUME ProcTyped, Drawn, NEW d \in Daemons, NEW pc \in Pcs, NEW mem \in Tokens \cup {None},
         NEW fd \in Inodes \cup {None}, NEW k \in 0 .. 2, DrawnOf(pc, mem, fd),
         Becomes(d, Process(pc, mem, fd, k))
  PROVE  ProcTyped' /\ Drawn'
<1>1. /\ proc'[d] = Process(pc, mem, fd, k)
      /\ \A e \in Daemons \ {d} : proc'[e] = proc[e]
      /\ proc' = [e \in Daemons |-> proc'[e]]
  BY DEF Becomes
<1>2. proc'[d] \in Processes /\ DrawnOf(proc'[d].pc, proc'[d].mem, proc'[d].fd)
  BY <1>1 DEF Process, Processes
<1>3. \A e \in Daemons : proc'[e] \in Processes
  BY <1>1, <1>2 DEF ProcTyped
<1>4. ProcTyped' BY <1>1, <1>3 DEF ProcTyped, Processes, Inodes, Pcs
<1>5. Drawn' BY <1>1, <1>2 DEF Drawn, DrawnOf, Inodes
<1> QED BY <1>4, <1>5

LEMMA FieldsOf ==
  ASSUME ProcTyped, Drawn, NEW d \in Daemons
  PROVE  /\ proc[d].pc \in Pcs /\ proc[d].mem \in Tokens \cup {None}
         /\ proc[d].fd \in Inodes \cup {None} /\ proc[d].k \in 0 .. 2
         /\ DrawnOf(proc[d].pc, proc[d].mem, proc[d].fd)
BY DEF ProcTyped, Processes, Drawn

LEMMA FileTokenTyped ==
  ASSUME DiskTyped
  PROVE  FileToken \in Tokens \cup {None, Empty}
BY DEF DiskTyped, FileToken

(* get_or_create_token at start-up and the end of a process. *)
LEMMA TokenTyped ==
  ASSUME IInv, ProcTyped, DiskTyped, Drawn, NEW d \in Daemons,
         TokenFound(d) \/ OpenTmp(d) \/ WriteTmp(d) \/ ReplaceToken(d) \/ Crash(d)
  PROVE  ProcTyped' /\ DiskTyped' /\ Drawn'
<1>1. CASE TokenFound(d)
  <2> DEFINE r == ReadToken(d)
  <2>1. proc' = [proc EXCEPT ![d].pc = r.pc, ![d].mem = r.mem] /\ UNCHANGED disk
    BY <1>1 DEF TokenFound
  <2>2. proc[d].pc = "token" BY <1>1 DEF TokenFound
  <2>3. r.pc \in {"open", "create"} /\ r.mem \in Tokens \cup {None}
    BY FileTokenTyped DEF ReadToken
  <2> HIDE DEF r
  <2>4. Becomes(d, Process(r.pc, r.mem, proc[d].fd, proc[d].k)) BY <2>1, Assigned
  <2>5. DrawnOf(r.pc, r.mem, proc[d].fd) /\ r.pc \in Pcs
    BY <2>2, <2>3, FieldsOf DEF DrawnOf, Pcs
  <2>6. DiskTyped' BY <2>1 DEF disk, DiskTyped, Inodes
  <2> QED BY <2>3, <2>4, <2>5, <2>6, FieldsOf, MovedTyped
<1>2. CASE OpenTmp(d)
  <2> DEFINE i == TmpInode
             t == Min(Fresh)
  <2>1. /\ tmp' = i /\ content' = [content EXCEPT ![i] = Empty] /\ file' = file
        /\ proc' = [proc EXCEPT ![d].pc = "write", ![d].fd = i, ![d].mem = t]
        /\ proc[d].pc = "open" /\ Fresh # {}
    BY <1>2 DEF OpenTmp
  <2>2. i \in Inodes
    <3>1. proc[d].fd = None BY <2>1, FieldsOf DEF DrawnOf
    <3> QED BY <3>1, FreeLeft DEF TmpInode, DiskTyped
  <2>3. t \in Tokens BY <2>1, FreshToken
  <2> HIDE DEF i, t
  <2>4. Becomes(d, Process("write", t, i, proc[d].k)) BY <2>1, Assigned
  <2>5. DrawnOf("write", t, i) /\ "write" \in Pcs BY <2>2, <2>3 DEF DrawnOf, Pcs
  <2>6. DiskTyped' BY <2>1, <2>2 DEF DiskTyped, Inodes
  <2> QED BY <2>2, <2>3, <2>4, <2>5, <2>6, FieldsOf, MovedTyped
<1>3. CASE WriteTmp(d)
  <2>1. /\ content' = [content EXCEPT ![proc[d].fd] = proc[d].mem] /\ UNCHANGED <<file, tmp>>
        /\ proc' = [proc EXCEPT ![d].pc = "replace", ![d].fd = None] /\ proc[d].pc = "write"
    BY <1>3 DEF WriteTmp
  <2>2. proc[d].mem \in Tokens BY <2>1, FieldsOf DEF DrawnOf
  <2>3. Becomes(d, Process("replace", proc[d].mem, None, proc[d].k)) BY <2>1, Assigned
  <2>4. DrawnOf("replace", proc[d].mem, None) /\ "replace" \in Pcs BY <2>2 DEF DrawnOf, Pcs
  <2>5. DiskTyped' BY <2>1, <2>2 DEF DiskTyped, Inodes
  <2> QED BY <2>2, <2>3, <2>4, <2>5, FieldsOf, MovedTyped
<1>4. ASSUME proc' = [proc EXCEPT ![d] = Off]
      PROVE  ProcTyped' /\ Drawn'
  <2>1. Becomes(d, Process("off", None, None, 0)) BY <1>4, Assigned DEF Off, Process
  <2>2. DrawnOf("off", None, None) /\ "off" \in Pcs /\ 0 \in 0 .. 2 BY DEF DrawnOf, Pcs
  <2> QED BY <2>1, <2>2, MovedTyped
<1>5. CASE ReplaceToken(d) /\ tmp # None
  <2>1. /\ file' = tmp /\ tmp' = None /\ content' = Forget(file)
        /\ proc' = [proc EXCEPT ![d].pc = "create"] /\ proc[d].pc = "replace"
    BY <1>5 DEF ReplaceToken, Go
  <2>2. Becomes(d, Process("create", proc[d].mem, proc[d].fd, proc[d].k)) BY <2>1, Assigned
  <2>3. DrawnOf("create", proc[d].mem, proc[d].fd) /\ "create" \in Pcs
    BY <2>1, FieldsOf DEF DrawnOf, Pcs
  <2>4. DiskTyped' BY <2>1 DEF DiskTyped, Forget, Inodes
  <2> QED BY <2>2, <2>3, <2>4, FieldsOf, MovedTyped
<1>6. CASE Crash(d) \/ (ReplaceToken(d) /\ tmp = None)
  <2>1. proc' = [proc EXCEPT ![d] = Off] /\ UNCHANGED disk
    BY <1>6 DEF Crash, ReplaceToken
  <2>2. DiskTyped' BY <2>1 DEF disk, DiskTyped, Inodes
  <2> QED BY <1>4, <2>1, <2>2
<1> QED BY <1>1, <1>2, <1>3, <1>5, <1>6

(* init_db writes no row; what else it writes of the database is of its type. *)
LEMMA DbTyped ==
  ASSUME db \in Dbs, NEW version \in {0, 2, 3}, NEW columns \in -1 .. 3, NEW rows \in SUBSET Keys,
         NEW row \in Rows
  PROVE  /\ Db(version, columns, rows, row) \in Dbs
         /\ db.version \in {0, 2, 3} /\ db.columns \in -1 .. 3
         /\ db.rows \in SUBSET Keys /\ db.row \in Rows
BY DEF Db, Dbs

LEMMA SchemaTyped ==
  ASSUME IInv, ProcTyped, Drawn, db \in Dbs, NEW d \in Daemons,
         CreateTables(d) \/ MigrateV2(d) \/ AlterTable(d) \/ RecordV3(d)
  PROVE  ProcTyped' /\ Drawn' /\ db' \in Dbs
<1>0. /\ DbShape /\ db.version \in {0, 2, 3} /\ db.columns \in -1 .. 3
      /\ db.rows \in SUBSET Keys /\ db.row \in Rows
  BY DEF IInv, DbShape, Dbs
<1>1. ASSUME NEW pc \in Pcs \ {"write", "replace"}, NEW k \in 0 .. 2,
             Becomes(d, Process(pc, proc[d].mem, proc[d].fd, k)), proc[d].pc # "write"
      PROVE  ProcTyped' /\ Drawn'
  <2>1. DrawnOf(pc, proc[d].mem, proc[d].fd) BY <1>1, FieldsOf DEF DrawnOf
  <2> QED BY <1>1, <2>1, FieldsOf, MovedTyped
<1>2. CASE CreateTables(d)
  <2>1. /\ proc' = [proc EXCEPT ![d].pc = NextStep(db.version)] /\ proc[d].pc = "create"
        /\ db' = IF db.columns = -1 THEN [db EXCEPT !.columns = 3] ELSE db
    BY <1>2 DEF CreateTables
  <2>2. NextStep(db.version) \in Pcs \ {"write", "replace"} BY DEF NextStep, Pcs
  <2>3. db' \in Dbs
    <3>1. CASE db.columns = -1
      <4>1. db' = Db(db.version, 3, db.rows, db.row)
        BY <1>0, <2>1, <3>1 DEF DbShape, Db
      <4> QED BY <1>0, <4>1, DbTyped
    <3>2. CASE db.columns # -1 BY <2>1, <3>2
    <3> QED BY <3>1, <3>2
  <2> QED BY <1>1, <2>1, <2>2, <2>3, FieldsOf, Assigned
<1>3. CASE MigrateV2(d)
  <2>1. proc[d].pc = "v2" /\ proc' = [proc EXCEPT ![d].pc = "alter"] /\ db' = PurgedDb
    BY <1>3 DEF MigrateV2, Schema, Go
  <2>2. "alter" \in Pcs \ {"write", "replace"} BY DEF Pcs
  <2>3. Newest(2) \in {0, 2, 3} BY <1>0 DEF Newest
  <2>4. db' = Db(Newest(2), db.columns, db.rows \cap WithAt, db.row)
    BY <1>0, <2>1 DEF PurgedDb, DbShape, Db
  <2>5. db.rows \cap WithAt \in SUBSET Keys BY <1>0
  <2>6. db' \in Dbs BY <1>0, <2>3, <2>4, <2>5, DbTyped
  <2> QED BY <1>1, <2>1, <2>2, <2>6, FieldsOf, Assigned
<1>4. CASE AlterTable(d)
  <2> DEFINE pc == IF proc[d].k = 2 THEN "record" ELSE "alter"
             k  == (proc[d].k + 1) % 3
             columns == IF db.columns > proc[d].k THEN db.columns ELSE proc[d].k + 1
  <2>1. /\ proc[d].pc = "alter" /\ db' = AlteredDb(proc[d].k)
        /\ proc' = [proc EXCEPT ![d].pc = pc, ![d].k = k]
    BY <1>4 DEF AlterTable
  <2>2. proc[d].k \in 0 .. 2 BY FieldsOf
  <2>3. pc \in Pcs \ {"write", "replace"} /\ k \in 0 .. 2 BY <2>2 DEF Pcs
  <2>4. columns \in -1 .. 3 BY <1>0, <2>2
  <2>5. db' = Db(db.version, columns, db.rows, db.row)
    BY <1>0, <2>1 DEF AlteredDb, DbShape, Db
  <2> HIDE DEF pc, k, columns
  <2>6. db' \in Dbs BY <1>0, <2>4, <2>5, DbTyped
  <2> QED BY <1>1, <2>1, <2>3, <2>6, Assigned
<1>5. CASE RecordV3(d)
  <2>1. /\ proc[d].pc = "record" /\ proc' = [proc EXCEPT ![d].pc = "bind"]
        /\ db' = [db EXCEPT !.version = Newest(3)]
    BY <1>5 DEF RecordV3, Schema, Go
  <2>2. "bind" \in Pcs \ {"write", "replace"} BY DEF Pcs
  <2>3. Newest(3) \in {0, 2, 3} BY <1>0 DEF Newest
  <2>4. db' = Db(Newest(3), db.columns, db.rows, db.row)
    BY <1>0, <2>1 DEF DbShape, Db
  <2>5. db' \in Dbs BY <1>0, <2>3, <2>4, DbTyped
  <2> QED BY <1>1, <2>1, <2>2, <2>5, FieldsOf, Assigned
<1> QED BY <1>2, <1>3, <1>4, <1>5

LEMMA PortTyped ==
  ASSUME IInv, ProcTyped, Drawn, NEW d \in Daemons, Bind(d) \/ Hang(d)
  PROVE  ProcTyped' /\ Drawn'
<1>1. ASSUME NEW pc \in {"serving", "hung"}, proc' = [proc EXCEPT ![d].pc = pc],
             proc[d].pc \in {"bind", "serving"}
      PROVE  ProcTyped' /\ Drawn'
  <2>1. DrawnOf(pc, proc[d].mem, proc[d].fd) /\ pc \in Pcs BY <1>1, FieldsOf DEF DrawnOf, Pcs
  <2>2. Becomes(d, Process(pc, proc[d].mem, proc[d].fd, proc[d].k)) BY <1>1, Assigned
  <2> QED BY <2>1, <2>2, FieldsOf, MovedTyped
<1>2. CASE proc' = [proc EXCEPT ![d] = Off]
  <2>1. Becomes(d, Process("off", None, None, 0)) BY <1>2, Assigned DEF Off, Process
  <2>2. DrawnOf("off", None, None) /\ "off" \in Pcs /\ 0 \in 0 .. 2 BY DEF DrawnOf, Pcs
  <2> QED BY <2>1, <2>2, MovedTyped
<1>3. CASE Hang(d) BY <1>1, <1>3 DEF Hang, Go
<1>4. CASE Bind(d) /\ Listening = {}
  <2>1. proc' = [proc EXCEPT ![d].pc = "serving"] /\ proc[d].pc = "bind" BY <1>4 DEF Bind
  <2> QED BY <1>1, <2>1
<1>5. CASE Bind(d) /\ Listening # {}
  BY <1>2, <1>5 DEF Bind
<1> QED BY <1>3, <1>4, <1>5

(* A request may write the token file anew, and a row under the token it has then. *)
LEMMA RequestTyped ==
  ASSUME IInv, ProcTyped, DiskTyped, Drawn, db \in Dbs, disputed \in BOOLEAN,
         NEW d \in Daemons, Scan(d) \/ Trust(d)
  PROVE  ProcTyped' /\ DiskTyped' /\ Drawn' /\ db' \in Dbs /\ disputed' \in BOOLEAN
<1>1. PICK t : /\ Refresh(d, t)
               /\ \/ db' = db
                  \/ db' = [db EXCEPT !.row = Upsert(db.row, t), !.rows = @ \cup {"name@version"}]
  BY DEF Scan, Trust
<1>2. proc[d].pc = "serving" BY DEF Scan, Trust, Authenticated
<1>3. t \in Tokens /\ DiskTyped' /\ disputed' \in BOOLEAN
  <2>1. CASE FileToken \in {None, Empty}
    <3>1. /\ t = Min(Fresh) /\ Fresh # {} /\ file' = TmpInode /\ tmp' = None
          /\ content' = [Forget(file) EXCEPT ![TmpInode] = t]
          /\ disputed' = (disputed \/ Drawing # {})
      BY <1>1, <2>1 DEF Refresh
    <3>2. t \in Tokens BY <3>1, FreshToken
    <3>3. TmpInode \in Inodes
      <4>1. proc[d].fd = None BY <1>2, FieldsOf DEF DrawnOf
      <4> QED BY <4>1, FreeLeft DEF TmpInode, DiskTyped
    <3>4. Forget(file) \in [Inodes -> Tokens \cup {Empty}] BY DEF DiskTyped, Forget
    <3>5. DiskTyped' BY <3>1, <3>2, <3>3, <3>4 DEF DiskTyped, Inodes
    <3> QED BY <3>1, <3>2, <3>5
  <2>2. CASE FileToken \notin {None, Empty}
    <3>1. t = FileToken /\ UNCHANGED <<disk, disputed>> BY <1>1, <2>2 DEF Refresh
    <3>2. DiskTyped' BY <3>1 DEF disk, DiskTyped, Inodes
    <3> QED BY <2>2, <3>1, <3>2, FileTokenTyped
  <2> QED BY <2>1, <2>2
<1>4. ProcTyped' /\ Drawn'
  <2>1. Becomes(d, Process(proc[d].pc, t, proc[d].fd, proc[d].k))
    BY <1>1, Assigned DEF Refresh
  <2>2. DrawnOf(proc[d].pc, t, proc[d].fd) BY <1>2, FieldsOf DEF DrawnOf
  <2> QED BY <1>3, <2>1, <2>2, FieldsOf, MovedTyped
<1>5. db' \in Dbs
  <2>1. CASE db' = db BY <2>1
  <2>2. CASE db' = [db EXCEPT !.row = Upsert(db.row, t), !.rows = @ \cup {"name@version"}]
    <3>1. db' = Db(db.version, db.columns, db.rows \cup {"name@version"}, Upsert(db.row, t))
      BY <2>2 DEF IInv, DbShape, Db
    <3>2. Upsert(db.row, t) \in Rows BY <1>3 DEF Upsert, Rows
    <3>3. /\ db.version \in {0, 2, 3} /\ db.columns \in -1 .. 3
          /\ db.rows \cup {"name@version"} \in SUBSET Keys
      BY DEF Dbs, Keys
    <3> QED BY <3>1, <3>2, <3>3, DbTyped
  <2> QED BY <1>1, <2>1, <2>2
<1> QED BY <1>3, <1>4, <1>5

(* The scripts, their child processes and the watchdog's count. *)
LEMMA ScriptsSafe ==
  ASSUME IInv, ProcTyped, Drawn, ScriptsTyped, NEW s \in Starters, Script(s) \/ UserStarts(s)
  PROVE  ProcTyped' /\ Drawn' /\ ScriptsTyped'
<1> DEFINE At == {"idle", "check", "venv", "install", "spawn", "wait"}
<1>1. ASSUME NEW pc \in At, To(s, pc)
      PROVE  starter' \in [Starters -> [pc : At, child : SUBSET Daemons]]
  BY <1>1 DEF To, ScriptsTyped
<1>2. UNCHANGED proc => ProcTyped' /\ Drawn'
  BY DEF ProcTyped, Drawn, DrawnOf, Processes, Pcs, Inodes
<1>3. failures' = failures BY DEF Script, CheckPort, MakeVenv, Install, Spawn, StopWaiting, UserStarts
<1>4. CASE UserStarts(s)
  <2>1. To(s, "check") /\ UNCHANGED <<proc, venv>> BY <1>4 DEF UserStarts, Launch
  <2> QED BY <1>1, <1>2, <1>3, <2>1 DEF ScriptsTyped
<1>5. CASE CheckPort(s)
  <2>1. (To(s, "idle") \/ To(s, "venv")) /\ UNCHANGED <<proc, venv>> BY <1>5 DEF CheckPort
  <2> QED BY <1>1, <1>2, <1>3, <2>1 DEF ScriptsTyped
<1>6. CASE MakeVenv(s)
  <2>1. To(s, "install") /\ UNCHANGED proc /\ venv' = "partial" BY <1>6 DEF MakeVenv
  <2> QED BY <1>1, <1>2, <1>3, <2>1 DEF ScriptsTyped
<1>7. CASE Install(s)
  <2>1. (To(s, "idle") \/ To(s, "spawn")) /\ UNCHANGED proc /\ venv' \in {"ready", venv}
    BY <1>7 DEF Install
  <2> QED BY <1>1, <1>2, <1>3, <2>1 DEF ScriptsTyped
<1>8. CASE Spawn(s) /\ venv # "ready"
  <2>1. To(s, "wait") /\ UNCHANGED <<proc, venv>> BY <1>8 DEF Spawn
  <2> QED BY <1>1, <1>2, <1>3, <2>1 DEF ScriptsTyped
<1>9. CASE Spawn(s) /\ venv = "ready"
  <2>1. PICK d \in Daemons :
          /\ proc[d].pc = "off" /\ Go(d, "token") /\ UNCHANGED venv
          /\ starter' = [starter EXCEPT ![s].pc = "wait", ![s].child = {d}]
    BY <1>9 DEF Spawn
  <2>2. Becomes(d, Process("token", proc[d].mem, proc[d].fd, proc[d].k))
    BY <2>1, Assigned DEF Go
  <2>3. DrawnOf("token", proc[d].mem, proc[d].fd) /\ "token" \in Pcs
    BY <2>1, FieldsOf DEF DrawnOf, Pcs
  <2>4. ProcTyped' /\ Drawn' BY <2>2, <2>3, FieldsOf, MovedTyped
  <2>5. starter' \in [Starters -> [pc : At, child : SUBSET Daemons]]
    BY <2>1 DEF ScriptsTyped
  <2> QED BY <1>3, <2>1, <2>4, <2>5 DEF ScriptsTyped
<1>10. CASE StopWaiting(s)
  <2>1. starter' = [starter EXCEPT ![s] = [pc |-> "idle", child |-> {}]] /\ UNCHANGED <<proc, venv>>
    BY <1>10 DEF StopWaiting
  <2>2. starter' \in [Starters -> [pc : At, child : SUBSET Daemons]]
    BY <2>1 DEF ScriptsTyped
  <2> QED BY <1>2, <1>3, <2>1, <2>2 DEF ScriptsTyped
<1> QED BY <1>4, <1>5, <1>6, <1>7, <1>8, <1>9, <1>10 DEF Script

LEMMA WatchdogTyped ==
  ASSUME ScriptsTyped, Watchdog
  PROVE  ScriptsTyped'
<1>1. CASE Probe
  <2>1. failures < Threshold /\ failures' \in {0, failures + 1} /\ venv' = venv
    BY <1>1 DEF Probe, AfterProbe
  <2>2. failures' \in 0 .. Threshold BY <2>1, LifecycleAssumption DEF ScriptsTyped
  <2>3. starter' = starter \/ To(WatchdogsOwn, "check") BY <1>1 DEF Probe, Launch
  <2> QED BY <2>1, <2>2, <2>3 DEF ScriptsTyped, To
<1>2. CASE RestartDone
  BY <1>2, LifecycleAssumption DEF RestartDone, ScriptsTyped
<1> QED BY <1>1, <1>2 DEF Watchdog

Typed == TypeOK /\ Drawn

LEMMA InitTyped == Init => Typed
<1> SUFFICES ASSUME Init
             PROVE  Typed
  OBVIOUS
<1>1. \A d \in Daemons : proc[d] = Off BY DEF Init
<1>2. ProcTyped BY DEF Init, ProcTyped, Processes, Off, Pcs
<1>3. Drawn BY <1>1 DEF Drawn, DrawnOf, Off
<1>4. 1 \in Inodes
  <2>1. Cardinality(Daemons) \in Nat BY LifecycleAssumption, FS_CardinalityType
  <2> QED BY <2>1 DEF Inodes
<1>5. Min(Tokens) \in Tokens BY MinIn, LifecycleAssumption
<1>6. DiskTyped BY <1>4, <1>5 DEF Init, DiskTyped
<1>7. db \in Dbs
  <2>1. db \in Databases BY DEF Init
  <2>2. NoRow \in Rows /\ LegacyRow \in Rows BY DEF NoRow, LegacyRow, Rows
  <2>3. /\ Db(0, -1, {}, NoRow) \in Dbs /\ Db(0, 0, {"name", "@scope/name"}, LegacyRow) \in Dbs
        /\ Db(2, 0, WithAt, LegacyRow) \in Dbs /\ Db(3, 3, WithAt, NoRow) \in Dbs
    BY <2>2 DEF Db, Dbs, Keys, WithAt
  <2> QED BY <2>1, <2>3 DEF Databases, Db
<1>8. ScriptsTyped BY LifecycleAssumption DEF Init, ScriptsTyped
<1>9. RestTyped BY DEF Init, RestTyped
<1> QED BY <1>2, <1>3, <1>6, <1>7, <1>8, <1>9, TypeParts DEF Typed

LEMMA NextTyped == IInv /\ Typed /\ [Next]_vars => Typed'
<1> SUFFICES ASSUME IInv, ProcTyped, DiskTyped, Drawn, db \in Dbs, ScriptsTyped, RestTyped,
                    [Next]_vars
             PROVE  ProcTyped' /\ DiskTyped' /\ Drawn' /\ db' \in Dbs /\ ScriptsTyped' /\ RestTyped'
  BY TypeParts DEF Typed
<1>1. UNCHANGED proc => ProcTyped' /\ Drawn'
  BY DEF ProcTyped, Drawn, DrawnOf, Processes, Pcs, Inodes
<1>2. UNCHANGED disk => DiskTyped' BY DEF disk, DiskTyped, Inodes
<1>3. UNCHANGED <<starter, venv, failures>> => ScriptsTyped' BY DEF ScriptsTyped
<1>4. Mishap => mishaps' \in 0 .. MaxMishaps BY LifecycleAssumption DEF Mishap, RestTyped
<1>5. CASE \E d \in Daemons :
             TokenFound(d) \/ OpenTmp(d) \/ WriteTmp(d) \/ ReplaceToken(d) \/ Crash(d)
  <2>1. PICK d \in Daemons :
          TokenFound(d) \/ OpenTmp(d) \/ WriteTmp(d) \/ ReplaceToken(d) \/ Crash(d)
    BY <1>5
  <2>2. /\ UNCHANGED <<db, starter, venv, failures, held>> /\ disputed' \in BOOLEAN
        /\ mishaps' = mishaps \/ Mishap
    BY <2>1 DEF TokenFound, OpenTmp, WriteTmp, ReplaceToken, Crash, RestTyped
  <2>3. RestTyped' BY <1>4, <2>2 DEF RestTyped
  <2> QED BY <1>3, <2>1, <2>2, <2>3, TokenTyped
<1>6. CASE \E d \in Daemons : CreateTables(d) \/ MigrateV2(d) \/ AlterTable(d) \/ RecordV3(d)
  <2>1. PICK d \in Daemons : CreateTables(d) \/ MigrateV2(d) \/ AlterTable(d) \/ RecordV3(d)
    BY <1>6
  <2>2. UNCHANGED <<disk, starter, venv, failures, held, mishaps, disputed>>
    BY <2>1 DEF CreateTables, MigrateV2, AlterTable, RecordV3, Schema
  <2>3. RestTyped' BY <2>2 DEF RestTyped
  <2> QED BY <1>2, <1>3, <2>1, <2>2, <2>3, SchemaTyped
<1>7. CASE \E d \in Daemons : Bind(d) \/ Hang(d)
  <2>1. PICK d \in Daemons : Bind(d) \/ Hang(d) BY <1>7
  <2>2. /\ UNCHANGED <<disk, db, starter, venv, failures, held, disputed>>
        /\ mishaps' = mishaps \/ Mishap
    BY <2>1 DEF Bind, Hang
  <2>3. RestTyped' BY <1>4, <2>2 DEF RestTyped
  <2> QED BY <1>2, <1>3, <2>1, <2>2, <2>3, PortTyped
<1>8. CASE \E d \in Daemons : Scan(d) \/ Trust(d)
  <2>1. PICK d \in Daemons : Scan(d) \/ Trust(d) BY <1>8
  <2>2. UNCHANGED <<starter, venv, failures, held, mishaps>> BY <2>1 DEF Scan, Trust
  <2>3. ProcTyped' /\ DiskTyped' /\ Drawn' /\ db' \in Dbs /\ disputed' \in BOOLEAN
    BY <2>1, RequestTyped DEF RestTyped
  <2> QED BY <1>3, <2>2, <2>3 DEF RestTyped
<1>9. CASE \E s \in Starters : Script(s) \/ UserStarts(s)
  <2>1. PICK s \in Starters : Script(s) \/ UserStarts(s) BY <1>9
  <2>2. /\ UNCHANGED <<disk, db, held, disputed>> /\ mishaps' \in 0 .. MaxMishaps
    BY <2>1, LifecycleAssumption DEF Script, CheckPort, MakeVenv, Install, Spawn, StopWaiting,
       UserStarts, RestTyped
  <2>3. RestTyped' BY <2>2 DEF RestTyped
  <2> QED BY <1>2, <2>1, <2>2, <2>3, ScriptsSafe
<1>10. CASE Watchdog
  <2>1. UNCHANGED <<proc, disk, db, held, mishaps, disputed>>
    BY <1>10 DEF Watchdog, Probe, RestartDone
  <2>2. RestTyped' BY <2>1 DEF RestTyped
  <2> QED BY <1>1, <1>2, <1>10, <2>1, <2>2, WatchdogTyped
<1>11. CASE ClientReads
  <2>1. /\ UNCHANGED <<proc, disk, db, starter, venv, failures, mishaps, disputed>>
        /\ held' = FileToken /\ FileToken \notin {None, Empty}
    BY <1>11 DEF ClientReads
  <2>2. RestTyped' BY <2>1, FileTokenTyped DEF RestTyped
  <2> QED BY <1>1, <1>2, <1>3, <2>1, <2>2
<1>12. CASE RemoveToken
  <2>1. /\ UNCHANGED <<proc, tmp, db, starter, venv, failures, held>> /\ Mishap
        /\ file' = None /\ content' = Forget(file) /\ disputed' = TRUE
    BY <1>12 DEF RemoveToken
  <2>2. DiskTyped' BY <2>1 DEF DiskTyped, Forget, Inodes
  <2>3. RestTyped' BY <1>4, <2>1 DEF RestTyped
  <2> QED BY <1>1, <1>3, <2>1, <2>2, <2>3
<1>13. CASE UNCHANGED vars
  <2>1. UNCHANGED <<proc, disk, db, starter, venv, failures, held, mishaps, disputed>>
    BY <1>13 DEF vars
  <2> QED BY <1>1, <1>2, <1>3, <2>1 DEF RestTyped
<1> QED BY <1>5, <1>6, <1>7, <1>8, <1>9, <1>10, <1>11, <1>12, <1>13 DEF Next, StartUp

(* A token, a row and a process keep their types, for any number of starts at once: there *)
(* is always a file for the next temporary name, and what is read from daemon.token is a  *)
(* token or is drawn anew (get_or_create_token, init_db, start-daemon.sh, watchdog.sh).   *)
THEOREM TypeCorrect == Spec => []TypeOK
<1>1. Typed => TypeOK BY DEF Typed
<1> QED BY <1>1, InitTyped, NextTyped, Invariance, PTL DEF Spec

-----------------------------------------------------------------------------
(* One process at a time draws a token, unless the history disputes it: nobody who goes   *)
(* on with a token has another than the file, and the one that draws finds the file       *)
(* without a token and the temporary file its own until it renames it.                    *)

Holding == {"create", "v2", "alter", "record", "bind", "serving", "hung"}
DrawsAlone == /\ \A d, e \in Drawing : d = e
              /\ Drawing # {} => FileToken \in {None, Empty}
HoldersAgree == \A d \in Daemons : proc[d].pc \in Holding =>
  proc[d].mem = FileToken /\ FileToken \in Tokens
OwnTmp == /\ tmp # None => tmp # file
          /\ \A d \in Daemons :
               /\ proc[d].pc = "write" => proc[d].fd = tmp
               /\ proc[d].pc = "replace" => tmp # None /\ content[tmp] = proc[d].mem
Undisputed == ~disputed => DrawsAlone /\ HoldersAgree /\ OwnTmp

(* What a process comes to holds of the others as before. *)
LEMMA Changes ==
  ASSUME NEW d \in Daemons, NEW pc, NEW mem, NEW fd, NEW k, Becomes(d, Process(pc, mem, fd, k))
  PROVE  /\ proc'[d].pc = pc /\ proc'[d].mem = mem /\ proc'[d].fd = fd
         /\ \A e \in Daemons \ {d} : proc'[e] = proc[e]
         /\ Drawing' \ {d} = Drawing \ {d}
         /\ d \in Drawing' <=> pc \in {"open", "write", "replace"}
<1>1. /\ proc'[d].pc = pc /\ proc'[d].mem = mem /\ proc'[d].fd = fd
      /\ \A e \in Daemons \ {d} : proc'[e] = proc[e]
  BY DEF Becomes, Process
<1> QED BY <1>1 DEF Drawing

(* A process that neither begins to draw nor writes, and goes on only with the token it   *)
(* held, or the one in the file.                                                          *)
LEMMA AgreeKept ==
  ASSUME Undisputed, NEW d \in Daemons, NEW pc, NEW mem, NEW fd, NEW k,
         Becomes(d, Process(pc, mem, fd, k)), UNCHANGED <<disk, disputed>>,
         pc \notin {"open", "write", "replace"},
         pc \in Holding => proc[d].pc \in Holding \/ FileToken \in Tokens,
         pc \in Holding => mem = FileToken \/ (mem = proc[d].mem /\ proc[d].pc \in Holding)
  PROVE  Undisputed'
<1> SUFFICES ASSUME ~disputed
             PROVE  DrawsAlone' /\ HoldersAgree' /\ OwnTmp'
  BY DEF Undisputed
<1>1. DrawsAlone /\ HoldersAgree /\ OwnTmp BY DEF Undisputed
<1>2. /\ proc'[d].pc = pc /\ proc'[d].mem = mem
      /\ \A e \in Daemons \ {d} : proc'[e] = proc[e]
      /\ Drawing' \subseteq Drawing
  BY Changes
<1>3. FileToken' = FileToken /\ tmp' = tmp /\ file' = file /\ content' = content
  BY DEF FileToken, disk
<1>4. DrawsAlone' BY <1>1, <1>2, <1>3 DEF DrawsAlone
<1>5. HoldersAgree' BY <1>1, <1>2, <1>3 DEF HoldersAgree
<1>6. OwnTmp' BY <1>1, <1>2, <1>3 DEF OwnTmp
<1> QED BY <1>4, <1>5, <1>6

LEMMA TokenAgrees ==
  ASSUME IInv, ProcTyped, DiskTyped, Drawn, Undisputed, disputed \in BOOLEAN, NEW d \in Daemons,
         TokenFound(d) \/ OpenTmp(d) \/ WriteTmp(d) \/ ReplaceToken(d) \/ Crash(d)
  PROVE  Undisputed'
<1>0. disputed' = disputed \/ TokenFound(d)
  BY DEF OpenTmp, WriteTmp, ReplaceToken, Crash
<1>1. CASE TokenFound(d)
  <2> DEFINE r == ReadToken(d)
  <2>1. /\ proc' = [proc EXCEPT ![d].pc = r.pc, ![d].mem = r.mem] /\ UNCHANGED disk
        /\ disputed' = (disputed \/ (r.pc = "open" /\ Drawing # {}))
        /\ proc[d].pc = "token"
    BY <1>1 DEF TokenFound
  <2>2. \/ r.pc = "open" /\ FileToken \in {None, Empty}
        \/ r.pc = "create" /\ r.mem = FileToken /\ FileToken \in Tokens
    BY FileTokenTyped DEF ReadToken
  <2> HIDE DEF r
  <2>3. Becomes(d, Process(r.pc, r.mem, proc[d].fd, proc[d].k)) BY <2>1, Assigned
  <2>4. CASE r.pc = "create"
    <3>1. disputed' = disputed BY <2>1, <2>4
    <3> QED BY <2>1, <2>2, <2>3, <2>4, <3>1, AgreeKept
  <2>5. CASE r.pc = "open"
    <3> SUFFICES ASSUME ~disputed'
                 PROVE  DrawsAlone' /\ HoldersAgree' /\ OwnTmp'
      BY DEF Undisputed
    <3>1. ~disputed /\ Drawing = {} BY <2>1, <2>5
    <3>2. HoldersAgree /\ OwnTmp BY <3>1 DEF Undisputed
    <3>3. /\ proc'[d].pc = "open" /\ \A e \in Daemons \ {d} : proc'[e] = proc[e]
          /\ Drawing' \ {d} = Drawing \ {d}
      BY <2>3, <2>5, Changes
    <3>4. FileToken' = FileToken /\ tmp' = tmp /\ file' = file /\ content' = content
      BY <2>1 DEF FileToken, disk
    <3>5. DrawsAlone' BY <2>2, <2>5, <3>1, <3>3, <3>4 DEF DrawsAlone
    <3>6. HoldersAgree' BY <3>2, <3>3, <3>4 DEF HoldersAgree, Holding
    <3>7. OwnTmp' BY <3>2, <3>3, <3>4 DEF OwnTmp
    <3> QED BY <3>5, <3>6, <3>7
  <2> QED BY <2>2, <2>4, <2>5
<1>2. CASE Crash(d)
  <2>1. Becomes(d, Process("off", None, None, 0)) /\ UNCHANGED disk
    BY <1>2, Assigned DEF Crash, Off, Process
  <2>2. disputed' = disputed BY <1>2 DEF Crash
  <2> QED BY <2>1, <2>2, AgreeKept DEF Holding
<1> SUFFICES ASSUME ~disputed, OpenTmp(d) \/ WriteTmp(d) \/ ReplaceToken(d)
             PROVE  DrawsAlone' /\ HoldersAgree' /\ OwnTmp'
  BY <1>0, <1>1, <1>2 DEF Undisputed
\* The one that draws: no other does, and nobody holds a token.
<1>3. DrawsAlone /\ HoldersAgree /\ OwnTmp BY DEF Undisputed
<1>4. d \in Drawing BY DEF OpenTmp, WriteTmp, ReplaceToken, Drawing
<1>5. Drawing = {d} /\ FileToken \in {None, Empty} BY <1>3, <1>4 DEF DrawsAlone
<1>6. FileToken \notin Tokens BY <1>5, LifecycleAssumption DEF None, Empty
<1>7. \A e \in Daemons \ {d} : proc[e].pc \notin Holding \cup {"open", "write", "replace"}
  BY <1>3, <1>5, <1>6 DEF HoldersAgree, Drawing
<1>8. CASE OpenTmp(d)
  <2> DEFINE i == TmpInode
             t == Min(Fresh)
  <2>1. /\ tmp' = i /\ content' = [content EXCEPT ![i] = Empty] /\ file' = file
        /\ proc' = [proc EXCEPT ![d].pc = "write", ![d].fd = i, ![d].mem = t]
        /\ proc[d].pc = "open"
    BY <1>8 DEF OpenTmp
  <2>2. i \in Inodes /\ i # file
    <3>1. proc[d].fd = None BY <2>1, FieldsOf DEF DrawnOf
    <3> QED BY <1>3, <3>1, FreeLeft DEF TmpInode, DiskTyped, OwnTmp
  <2> HIDE DEF i, t
  <2>3. Becomes(d, Process("write", t, i, proc[d].k)) BY <2>1, Assigned
  <2>4. /\ proc'[d].pc = "write" /\ proc'[d].fd = i
        /\ \A e \in Daemons \ {d} : proc'[e] = proc[e]
        /\ Drawing' \ {d} = Drawing \ {d}
    BY <2>3, Changes
  <2>5. FileToken' = FileToken BY <2>1, <2>2 DEF FileToken, DiskTyped
  <2>6. DrawsAlone' BY <1>5, <2>4, <2>5 DEF DrawsAlone
  <2>7. HoldersAgree' BY <1>7, <2>4 DEF HoldersAgree, Holding
  <2>8. \A e \in Daemons \ {d} : proc'[e].pc \notin {"write", "replace"} BY <1>7, <2>4
  <2>9. tmp' = i /\ file' = file BY <2>1
  <2>10. OwnTmp' BY <2>2, <2>4, <2>8, <2>9 DEF OwnTmp
  <2> QED BY <2>6, <2>7, <2>10
<1>9. CASE WriteTmp(d)
  <2>1. /\ content' = [content EXCEPT ![proc[d].fd] = proc[d].mem] /\ UNCHANGED <<file, tmp>>
        /\ proc' = [proc EXCEPT ![d].pc = "replace", ![d].fd = None] /\ proc[d].pc = "write"
    BY <1>9 DEF WriteTmp
  <2>2. tmp = proc[d].fd /\ tmp \in Inodes /\ tmp # None /\ tmp # file
    <3>1. tmp = proc[d].fd /\ proc[d].fd \in Inodes BY <1>3, <2>1, FieldsOf DEF DrawnOf, OwnTmp
    <3>2. tmp # None BY <3>1 DEF Inodes, None
    <3> QED BY <1>3, <3>1, <3>2 DEF OwnTmp
  <2>3. Becomes(d, Process("replace", proc[d].mem, None, proc[d].k)) BY <2>1, Assigned
  <2>4. /\ proc'[d].pc = "replace" /\ proc'[d].mem = proc[d].mem
        /\ \A e \in Daemons \ {d} : proc'[e] = proc[e]
        /\ Drawing' \ {d} = Drawing \ {d}
    BY <2>3, Changes
  <2>5. FileToken' = FileToken BY <2>1, <2>2 DEF FileToken, DiskTyped
  <2>6. DrawsAlone' BY <1>5, <2>4, <2>5 DEF DrawsAlone
  <2>7. HoldersAgree' BY <1>7, <2>4 DEF HoldersAgree, Holding
  <2>8. content'[tmp] = proc[d].mem BY <2>1, <2>2 DEF DiskTyped
  <2>9. \A e \in Daemons \ {d} : proc'[e].pc \notin {"write", "replace"} BY <1>7, <2>4
  <2>10. tmp' = tmp /\ file' = file BY <2>1
  <2>11. OwnTmp' BY <2>2, <2>4, <2>8, <2>9, <2>10 DEF OwnTmp
  <2> QED BY <2>6, <2>7, <2>11
<1>10. CASE ReplaceToken(d)
  <2>1. proc[d].pc = "replace" /\ tmp # None /\ content[tmp] = proc[d].mem /\ tmp # file
    BY <1>3, <1>10 DEF ReplaceToken, OwnTmp
  <2>2. /\ file' = tmp /\ tmp' = None /\ content' = Forget(file)
        /\ proc' = [proc EXCEPT ![d].pc = "create"]
    BY <1>10, <2>1 DEF ReplaceToken, Go
  <2>3. Becomes(d, Process("create", proc[d].mem, proc[d].fd, proc[d].k)) BY <2>2, Assigned
  <2>4. /\ proc'[d].pc = "create" /\ proc'[d].mem = proc[d].mem
        /\ \A e \in Daemons \ {d} : proc'[e] = proc[e]
        /\ Drawing' \ {d} = Drawing \ {d} /\ d \notin Drawing'
    BY <2>3, Changes
  <2>5. FileToken' = proc[d].mem
    <3>1. tmp \in Inodes BY <2>1 DEF DiskTyped
    <3> QED BY <2>1, <2>2, <3>1 DEF FileToken, Forget
  <2>6. proc[d].mem \in Tokens BY <2>1, FieldsOf DEF DrawnOf
  <2>7. DrawsAlone' BY <1>5, <2>4 DEF DrawsAlone
  <2>8. HoldersAgree' BY <1>7, <2>4, <2>5, <2>6 DEF HoldersAgree
  <2>9. OwnTmp' BY <1>7, <2>2, <2>4 DEF OwnTmp
  <2> QED BY <2>7, <2>8, <2>9
<1> QED BY <1>8, <1>9, <1>10

(* Whoever has a token already goes on with it, or takes the one in the file. *)
LEMMA HolderAgrees ==
  ASSUME IInv, ProcTyped, DiskTyped, Drawn, Undisputed, NEW d \in Daemons,
         \/ CreateTables(d) \/ MigrateV2(d) \/ AlterTable(d) \/ RecordV3(d)
         \/ Bind(d) \/ Hang(d) \/ Scan(d) \/ Trust(d)
  PROVE  Undisputed'
<1>1. ASSUME NEW pc \in Holding \cup {"off"}, NEW mem, NEW fd, NEW k, proc[d].pc \in Holding,
             Becomes(d, Process(pc, mem, fd, k)), UNCHANGED <<disk, disputed>>,
             pc \in Holding => mem = FileToken \/ mem = proc[d].mem
      PROVE  Undisputed'
  <2>1. pc \notin {"open", "write", "replace"} BY DEF Holding
  <2> QED BY <1>1, <2>1, AgreeKept
<1>2. CASE CreateTables(d) \/ MigrateV2(d) \/ AlterTable(d) \/ RecordV3(d)
  <2>1. UNCHANGED <<disk, disputed>> /\ proc[d].pc \in Holding
    BY <1>2 DEF CreateTables, MigrateV2, AlterTable, RecordV3, Schema, Holding
  <2>2. ASSUME NEW pc \in Holding, NEW k,
               \/ proc' = [proc EXCEPT ![d].pc = pc]
               \/ proc' = [proc EXCEPT ![d].pc = pc, ![d].k = k]
        PROVE  Undisputed'
    <3>1. \/ Becomes(d, Process(pc, proc[d].mem, proc[d].fd, proc[d].k))
          \/ Becomes(d, Process(pc, proc[d].mem, proc[d].fd, k))
      BY <2>2, Assigned
    <3> QED BY <1>1, <2>1, <3>1
  <2>3. CASE CreateTables(d)
    <3>1. NextStep(db.version) \in Holding BY DEF NextStep, Holding
    <3> QED BY <2>2, <2>3, <3>1 DEF CreateTables
  <2>4. CASE MigrateV2(d)
    <3>1. "alter" \in Holding BY DEF Holding
    <3> QED BY <2>2, <2>4, <3>1 DEF MigrateV2, Schema, Go
  <2>5. CASE AlterTable(d)
    <3> DEFINE pc == IF proc[d].k = 2 THEN "record" ELSE "alter"
               k  == (proc[d].k + 1) % 3
    <3>1. proc' = [proc EXCEPT ![d].pc = pc, ![d].k = k] BY <2>5 DEF AlterTable
    <3>2. pc \in Holding BY DEF Holding
    <3> HIDE DEF pc, k
    <3> QED BY <2>2, <3>1, <3>2
  <2>6. CASE RecordV3(d)
    <3>1. "bind" \in Holding BY DEF Holding
    <3> QED BY <2>2, <2>6, <3>1 DEF RecordV3, Schema, Go
  <2> QED BY <1>2, <2>3, <2>4, <2>5, <2>6
<1>3. CASE Bind(d) \/ Hang(d)
  <2>1. UNCHANGED <<disk, disputed>> /\ proc[d].pc \in Holding
    BY <1>3 DEF Bind, Hang, Holding
  <2>2. PICK pc \in Holding :
          proc' = [proc EXCEPT ![d].pc = pc] \/ proc' = [proc EXCEPT ![d] = Off]
    <3>1. CASE Bind(d) /\ Listening = {} BY <3>1 DEF Bind, Holding
    <3>2. CASE Bind(d) /\ Listening # {} BY <3>2 DEF Bind, Holding
    <3>3. CASE Hang(d) BY <3>3 DEF Hang, Go, Holding
    <3> QED BY <1>3, <3>1, <3>2, <3>3
  <2>3. \/ Becomes(d, Process(pc, proc[d].mem, proc[d].fd, proc[d].k))
        \/ Becomes(d, Process("off", None, None, 0))
    BY <2>2, Assigned DEF Off, Process
  <2>4. "off" \notin Holding BY DEF Holding
  <2> QED BY <1>1, <2>1, <2>3, <2>4
<1>4. CASE Scan(d) \/ Trust(d)
  <2>1. PICK t : Refresh(d, t) BY <1>4 DEF Scan, Trust
  <2>2. proc[d].pc \in Holding BY <1>4 DEF Scan, Trust, Authenticated, Holding
  <2>3. CASE disputed
    <3>1. disputed' BY <2>1, <2>3 DEF Refresh
    <3> QED BY <3>1 DEF Undisputed
  <2>4. CASE ~disputed
    <3>1. FileToken \in Tokens BY <2>2, <2>4 DEF Undisputed, HoldersAgree
    <3>2. FileToken \notin {None, Empty} BY <3>1, LifecycleAssumption DEF None, Empty
    <3>3. t = FileToken /\ UNCHANGED <<disk, disputed>> /\ proc' = [proc EXCEPT ![d].mem = t]
      BY <2>1, <3>2 DEF Refresh
    <3>4. Becomes(d, Process(proc[d].pc, t, proc[d].fd, proc[d].k)) BY <3>3, Assigned
    <3> QED BY <1>1, <2>2, <3>3, <3>4
  <2> QED BY <2>3, <2>4
<1> QED BY <1>2, <1>3, <1>4

LEMMA NextAgrees == IInv /\ Typed /\ Undisputed /\ [Next]_vars => Undisputed'
<1> SUFFICES ASSUME IInv, ProcTyped, DiskTyped, Drawn, disputed \in BOOLEAN, Undisputed,
                    [Next]_vars
             PROVE  Undisputed'
  BY TypeParts DEF Typed, RestTyped
<1>1. ASSUME UNCHANGED <<proc, disk, disputed>>
      PROVE  Undisputed'
  BY <1>1 DEF disk, Undisputed, DrawsAlone, HoldersAgree, OwnTmp, Drawing, FileToken
<1>2. CASE \E d \in Daemons : StartUp(d) \/ Scan(d) \/ Trust(d) \/ Crash(d) \/ Hang(d)
  BY <1>2, TokenAgrees, HolderAgrees DEF StartUp
<1>3. CASE \E s \in Starters : UserStarts(s) \/ Script(s)
  <2>1. PICK s \in Starters : UserStarts(s) \/ Script(s) BY <1>3
  <2>2. CASE Spawn(s) /\ venv = "ready"
    <3>1. PICK d \in Daemons : Go(d, "token") /\ UNCHANGED <<disk, disputed>>
      BY <2>2 DEF Spawn
    <3>2. Becomes(d, Process("token", proc[d].mem, proc[d].fd, proc[d].k))
      BY <3>1, Assigned DEF Go
    <3>3. "token" \notin Holding BY DEF Holding
    <3> QED BY <3>1, <3>2, <3>3, AgreeKept
  <2>3. CASE ~(Spawn(s) /\ venv = "ready")
    <3>1. UNCHANGED <<proc, disk, disputed>>
      BY <2>1, <2>3 DEF UserStarts, Script, CheckPort, MakeVenv, Install, Spawn, StopWaiting
    <3> QED BY <1>1, <3>1
  <2> QED BY <2>2, <2>3
<1>4. CASE Watchdog \/ ClientReads \/ UNCHANGED vars
  <2>1. UNCHANGED <<proc, disk, disputed>>
    BY <1>4 DEF Watchdog, Probe, RestartDone, ClientReads, vars
  <2> QED BY <1>1, <2>1
<1>5. CASE RemoveToken BY <1>5 DEF RemoveToken, Undisputed
<1> QED BY <1>2, <1>3, <1>4, <1>5 DEF Next

(* While no two starts drew a token at once and nobody removed the file, the daemon that  *)
(* serves and the clients that read daemon.token have the same one: a start that will     *)
(* lose the port leaves it alone (get_or_create_token).                                   *)
THEOREM OneToken == Spec => []TokensAgree
<1>1. Init => Undisputed
  <2> SUFFICES ASSUME Init
               PROVE  DrawsAlone /\ HoldersAgree /\ OwnTmp
    BY DEF Undisputed
  <2>1. \A d \in Daemons : proc[d].pc = "off" BY DEF Init, Off
  <2>2. Drawing = {} BY <2>1 DEF Drawing
  <2> QED BY <2>1, <2>2 DEF DrawsAlone, HoldersAgree, OwnTmp, Holding, Init
<1>2. Undisputed => TokensAgree
  BY DEF Undisputed, HoldersAgree, TokensAgree, Holding
<1> QED BY <1>1, <1>2, InitTyped, NextTyped, NextAgrees, Invariance, PTL DEF Spec
=============================================================================
