--------------------------- MODULE InstallPathProofs ---------------------------
(***************************************************************************)
(* The audit log under rotation, the screening of a command and the record *)
(* of what was installed, for any number of npm processes, commands of any *)
(* length and any number of faults and overrides.                          *)
(***************************************************************************)
EXTENDS InstallPath, SequenceTheorems, FiniteSetTheorems, TLAPS

---------------------------------------------------------------------------
(* the inductive invariant                                                 *)

\* What a shim has asked, and what the daemon works on, is one of its packages; a reply
\* is an answer.
AskingOf(s) ==
  /\ shim[s].pc \in {"asked", "prompt"} => shim[s].i \in Packages(s)
  /\ shim[s].pc # "asked" => request[s] = Idle
  /\ request[s].at = "replied" => request[s].reply # "none"
Working == \A s \in Shims : \A i \in Turns : handler[<<s, i>>] # "none" => i \in Packages(s)

\* How far a command has come: what is answered, and that a BLOCK is remembered and a
\* WARN to be confirmed is waited for.
Judged(s, k) == answers[s][k] \notin {"none", "BLOCK"} /\ ~ShouldPrompt(s, answers[s][k])
PackageOf(s, k) ==
  /\ shim[s].pc = "asked" /\ k < shim[s].i => answers[s][k] # "none"
  /\ shim[s].pc \in {"next", "prompt"} /\ k <= shim[s].i => answers[s][k] # "none"
  /\ answers[s][k] = "BLOCK" => shim[s].blocked
  /\ ShouldPrompt(s, answers[s][k]) => shim[s].pc \in {"prompt", "done"} /\ k = shim[s].i
  /\ shim[s].pc \in {"npm", "ran", "unstarted"} /\ Screened(s) => Judged(s, k)
ScreeningOf(s) ==
  /\ shim[s].pc = "start" => shim[s].i = 0
  /\ shim[s].pc \in {"bypass", "logging"} => ~Screened(s)
  /\ shim[s].pc \in {"next", "asked", "prompt"} => Screened(s)
  /\ shim[s].pc = "prompt" => answers[s][shim[s].i] \in {"WARN", "WARN!"}
  /\ \A k \in Packages(s) : PackageOf(s, k)

\* A command has no status before it ends, and ends where it is stranded.
StatusOf(s) ==
  /\ shim[s].pc \notin {"ran", "unstarted", "done"} => shim[s].exit = -1
  /\ shim[s].exit = 0 => Stranded(s) \/ shim[s].pc \in {"ran", "unstarted"}
  /\ \A k \in Turns : answers[s][k] \in {"eof", "cut"} => shim[s].pc = "done"
ShimInv(s) == AskingOf(s) /\ ScreeningOf(s) /\ StatusOf(s)

\* Where a record is: in a file, or about to be written to it; Gone, when it was
\* written and no file has it, or when its file has lost its name.
Places == 0 .. Gone
Filed(k, r) == \E i \in DOMAIN files[k] : files[k][i].rec = r
Held(k, r)  == \E s \in Shims : fd[s].slot = k /\ fd[s].rec = r
At(k, r)    == \/ k \in Slots /\ Filed(k, r)
               \/ Held(k, r)
               \/ k = Gone /\ r \in written \ Kept

\* The further back, the older.
NewerFirst == \A j \in Places, k \in Places : \A q, r :
  j < k /\ At(j, q) /\ At(k, r) => r.n < q.n

\* One rotation moves a record one place; in the middle of one, what it has not come to
\* yet is a rotation older.
Aged == \A k \in Places : \A r : At(k, r) =>
  /\ rotations >= r.born + k - 1
  /\ step = "shift" /\ k <= slot => rotations >= r.born + k

\* No rename overwrites a file; an open file behind the first has its lines.
Shifting == step = "shift" => files[slot + 1] = <<>>
HasLines == \A s \in Shims : fd[s].slot \in 1 .. MAX_ROTATED => files[fd[s].slot] # <<>>

\* A shim that logs has the record of its bypass open.
Logging == \A s \in Shims :
  shim[s].pc = "logging" => fd[s] # Closed /\ fd[s].rec.job = <<s, 0>>

\* What must have its record by now: a request whose append is over, up to the answer
\* that npm ran on, and a bypass past its logging.
Appended(r) == handler[r] \in Verdicts /\ r \notin Range(turn)
Heard(s, k) ==
  \/ request[s].at = "replied" /\ request[s].reply \in Verdicts /\ k = shim[s].i
  \/ answers[s][k] \in Verdicts \cup {"confirmed"}
Bypassed(s) == shim[s].pc \in {"npm", "ran"} /\ shim[s].cmd.install /\ shim[s].cmd.bypass
Owed == {r \in Requests : Appended(r) \/ Heard(r[1], r[2])}
        \cup {<<s, 0>> : s \in {t \in Shims : Bypassed(t)}}
Unlogged == {j \in Owed : \A r \in written : r.job # j}
TornTails == {k \in Slots : Glued(k)}

\* A fault costs at most the record it cuts short and the one that follows in its file.
Costs == /\ IsFiniteSet(Unlogged)
         /\ Cardinality(Unlogged) + Cardinality(TornTails) <= 2 * faults

LogInv == Shifting /\ HasLines /\ NewerFirst /\ Aged
ShimsInv == (\A s \in Shims : ShimInv(s)) /\ Working
IInv     == TypeOK /\ LogInv /\ ShimsInv /\ Logging /\ Costs

---------------------------------------------------------------------------
(* the log: what its steps do to its types                                 *)

\* The steps of the log, whoever takes them.
LogStep ==
  \/ DaemonLogs \/ LogCrash \/ \E job \in Jobs : Enqueue(job)
  \/ \E s \in Shims : ShimOpens(s, <<s, 0>>) \/ ShimWrites(s) \/ ShimWriteFails(s)

LEMMA RecordGrows ==
  ASSUME serial \in Nat, rotations \in Nat, serial' \in Nat, rotations' \in Nat,
         serial <= serial', rotations <= rotations'
  PROVE  Record \subseteq Record' /\ Line \subseteq Line' /\ Seq(Line) \subseteq Seq(Line')
<1>1. Record \subseteq Record' BY DEF Record, Jobs, Requests
<1>2. Line \subseteq Line' BY <1>1 DEF Line
<1> QED BY <1>1, <1>2, SeqMonotonic

LEMMA StampTyped ==
  ASSUME LogTyped, NEW job \in Jobs \cup (Shims \X {0}), serial' = serial + 1,
         rotations' = rotations
  PROVE  Stamp(job) \in Record'
BY DEF LogTyped, Stamp, Record, Jobs, Requests

LEMMA FilesTyped ==
  ASSUME LogTyped, NEW k \in Slots
  PROVE  /\ files[k] \in Seq(Line) /\ Len(files[k]) \in Nat /\ DOMAIN files[k] = 1 .. Len(files[k])
         /\ files[k] # <<>> => Len(files[k]) \in DOMAIN files[k]
         /\ \A i \in DOMAIN files[k] : files[k][i] \in Line
<1>1. files[k] \in Seq(Line) BY DEF LogTyped
<1>2. Len(files[k]) \in Nat /\ DOMAIN files[k] = 1 .. Len(files[k])
  BY <1>1, LenProperties
<1>3. files[k] # <<>> => Len(files[k]) \in 1 .. Len(files[k]) BY <1>1, <1>2, EmptySeq
<1>4. \A i \in DOMAIN files[k] : files[k][i] \in Line BY <1>1, <1>2, ElementOfSeq
<1> QED BY <1>1, <1>2, <1>3, <1>4

\* A line put at the end of a file.
LEMMA AppendTyped ==
  ASSUME LogTyped, NEW k \in Slots, NEW rec \in Record',
         NEW state \in {"whole", "torn", "swallowed"},
         serial' \in Nat, rotations' \in Nat, serial <= serial', rotations <= rotations',
         files' = AppendTo(k, rec, state)
  PROVE  files' \in [Slots -> Seq(Line')]
<1>1. files \in [Slots -> Seq(Line')] BY RecordGrows DEF LogTyped
<1>2. [rec |-> rec, state |-> state] \in Line' BY DEF Line
<1>3. Append(files[k], [rec |-> rec, state |-> state]) \in Seq(Line')
  BY <1>1, <1>2, AppendProperties
<1> QED BY <1>1, <1>3 DEF AppendTo

LEMMA WrittenTyped ==
  ASSUME LogTyped, NEW k \in Slots \cup {Gone}, NEW rec \in Record', Written(k, rec),
         serial' \in Nat, rotations' \in Nat, serial <= serial', rotations <= rotations'
  PROVE  files' \in [Slots -> Seq(Line')] /\ written' \subseteq Record'
<1>1. written' \subseteq Record' BY RecordGrows DEF LogTyped, Written
<1>2. CASE k = Gone
  BY <1>1, <1>2, RecordGrows DEF Written, LogTyped
<1>3. CASE k # Gone
  BY <1>1, <1>3, AppendTyped DEF Written
<1> QED BY <1>2, <1>3

LEMMA MovedTyped ==
  ASSUME LogTyped, NEW k \in Slots, NEW to \in Slots \cup {Gone}, fd' = Moved(k, to),
         serial' = serial, rotations' \in Nat, rotations <= rotations'
  PROVE  fd' \in [Shims -> [slot : Slots \cup {Gone}, rec : Record'] \cup {Closed}]
<1>1. Record \subseteq Record' BY RecordGrows DEF LogTyped
<1> SUFFICES ASSUME NEW s \in Shims
             PROVE  fd'[s] \in [slot : Slots \cup {Gone}, rec : Record'] \cup {Closed}
  BY DEF Moved
<1>2. CASE fd[s].slot = k
  <2>1. fd[s] \in [slot : Slots \cup {Gone}, rec : Record]
    BY <1>2 DEF LogTyped, Closed, Slots, MAX_ROTATED
  <2> QED BY <1>1, <1>2, <2>1 DEF Moved
<1>3. CASE fd[s].slot # k
  <2>1. fd[s] \in [slot : Slots \cup {Gone}, rec : Record] \cup {Closed} BY DEF LogTyped
  <2> QED BY <1>1, <1>3, <2>1 DEF Moved
<1> QED BY <1>2, <1>3

LEMMA LogStepTyped ==
  ASSUME LogTyped, LogStep
  PROVE  LogTyped'
<1> USE DEF MAX_ROTATED
<1> USE LogAssumption
<1>1. CASE \E job \in Jobs : Enqueue(job)
  <2>1. PICK job \in Jobs : Enqueue(job) BY <1>1
  <2>2. turn' \in Seq(Jobs) BY <2>1, AppendProperties DEF LogTyped, Enqueue
  <2> QED BY <2>1, <2>2, RecordGrows DEF LogTyped, Enqueue, Line, Record, Jobs, Requests
<1>2. CASE Stat
  BY <1>2 DEF LogTyped, Stat, Line, Record, Jobs, Requests
<1>3. CASE Unlink
  <2>1. Record \subseteq Record' /\ Seq(Line) \subseteq Seq(Line')
    BY <1>3, RecordGrows DEF LogTyped, Unlink
  <2>2. files' \in [Slots -> Seq(Line')]
    BY <1>3, <2>1, EmptySeq DEF LogTyped, Unlink
  <2>3. fd' \in [Shims -> [slot : Slots \cup {Gone}, rec : Record'] \cup {Closed}]
    BY <1>3, MovedTyped DEF LogTyped, Unlink, Slots
  <2> QED BY <1>3, <2>1, <2>2, <2>3 DEF LogTyped, Unlink, Jobs, Requests
<1>4. CASE Shift
  <2>1. Record = Record' /\ Line = Line'
    BY <1>4 DEF Shift, Line, Record, Jobs, Requests
  <2>2. slot \in Slots /\ slot + 1 \in Slots BY DEF LogTyped, Slots
  <2>3. files' \in [Slots -> Seq(Line')]
    BY <1>4, <2>1, <2>2, EmptySeq DEF LogTyped, Shift
  <2>4. fd' \in [Shims -> [slot : Slots \cup {Gone}, rec : Record'] \cup {Closed}]
    BY <1>4, <2>1, <2>2, MovedTyped DEF LogTyped, Shift
  <2>5. step' \in {"shift", "write"} /\ slot' \in 0 .. MAX_ROTATED - 1
    BY <1>4 DEF LogTyped, Shift, NextShift
  <2> QED BY <1>4, <2>1, <2>3, <2>4, <2>5 DEF LogTyped, Shift, Jobs, Requests
<1>5. CASE Write \/ Fails \/ WriteTorn
  <2>1. turn # <<>> /\ Release /\ UNCHANGED <<fd, rotations>> BY <1>5 DEF Write, Fails, WriteTorn
  <2>2. Head(turn) \in Jobs /\ turn' \in Seq(Jobs)
    BY <2>1, HeadTailProperties DEF LogTyped, Release
  <2>3. serial' \in {serial, serial + 1} /\ faults' \in 0 .. MaxFaults
    BY <1>5 DEF Write, Fails, WriteTorn, Fault, LogTyped
  <2>4. Record \subseteq Record' /\ Seq(Line) \subseteq Seq(Line')
    BY <2>1, <2>3, RecordGrows DEF LogTyped
  <2>5. files' \in [Slots -> Seq(Line')] /\ written' \subseteq Record'
    <3>1. CASE Fails
      BY <3>1, <2>4 DEF LogTyped, Fails
    <3>2. CASE Write \/ WriteTorn
      <4>1. serial' = serial + 1 /\ Stamp(Holder) \in Record'
        BY <3>2, <2>1, <2>2, StampTyped DEF Write, WriteTorn, Holder
      <4>2. CASE Write
        BY <4>1, <4>2, <2>1, WrittenTyped DEF LogTyped, Write, Slots
      <4>3. CASE WriteTorn
        BY <4>1, <4>3, <2>1, <2>4, AppendTyped DEF LogTyped, WriteTorn, Slots
      <4> QED BY <3>2, <4>2, <4>3
    <3> QED BY <1>5, <3>1, <3>2
  <2> QED BY <2>1, <2>2, <2>3, <2>4, <2>5 DEF LogTyped, Release, Jobs, Requests
<1>6. CASE LogCrash
  <2>1. turn' \in Seq(Jobs) BY <1>6, EmptySeq DEF LogCrash
  <2>2. faults' \in 0 .. MaxFaults BY <1>6 DEF LogTyped, LogCrash, Fault
  <2>3. Record = Record' /\ Line = Line'
    BY <1>6 DEF LogCrash, Line, Record, Jobs, Requests
  <2> QED BY <1>6, <2>1, <2>2, <2>3 DEF LogTyped, LogCrash
<1>7. CASE \E s \in Shims : ShimOpens(s, <<s, 0>>)
  <2>1. PICK s \in Shims : ShimOpens(s, <<s, 0>>) BY <1>7
  <2>2. Stamp(<<s, 0>>) \in Record' BY <2>1, StampTyped DEF ShimOpens
  <2>3. Record \subseteq Record' /\ Seq(Line) \subseteq Seq(Line')
    BY <2>1, RecordGrows DEF LogTyped, ShimOpens
  <2>4. fd' \in [Shims -> [slot : Slots \cup {Gone}, rec : Record'] \cup {Closed}]
    BY <2>1, <2>2, <2>3 DEF LogTyped, ShimOpens, Slots
  <2> QED BY <2>1, <2>3, <2>4 DEF LogTyped, ShimOpens, Jobs, Requests
<1>8. CASE \E s \in Shims : ShimWrites(s) \/ ShimWriteFails(s)
  <2>1. PICK s \in Shims : ShimWrites(s) \/ ShimWriteFails(s) BY <1>8
  <2>2. Record = Record' /\ Line = Line'
    BY <2>1 DEF ShimWrites, ShimWriteFails, Line, Record, Jobs, Requests
  <2>3. fd[s].slot \in Slots \cup {Gone} /\ fd[s].rec \in Record
    BY <2>1 DEF LogTyped, ShimWrites, ShimWriteFails
  <2>4. files' \in [Slots -> Seq(Line')] /\ written' \subseteq Record'
    <3>1. CASE ShimWrites(s)
      <4>1. /\ Written(fd[s].slot, fd[s].rec) /\ fd[s].rec \in Record'
            /\ serial' = serial /\ rotations' = rotations
        BY <2>2, <2>3, <3>1 DEF ShimWrites
      <4>2. serial' \in Nat /\ rotations' \in Nat /\ serial <= serial' /\ rotations <= rotations'
        BY <4>1 DEF LogTyped
      <4> HIDE DEF MAX_ROTATED
      <4> QED BY <2>3, <4>1, <4>2, WrittenTyped
    <3>2. CASE ShimWriteFails(s)
      BY <2>2, <3>2 DEF LogTyped, ShimWriteFails
    <3> QED BY <2>1, <3>1, <3>2
  <2>5. fd' \in [Shims -> [slot : Slots \cup {Gone}, rec : Record'] \cup {Closed}]
    BY <2>1, <2>2 DEF LogTyped, ShimWrites, ShimWriteFails
  <2> QED BY <2>1, <2>2, <2>4, <2>5
          DEF LogTyped, ShimWrites, ShimWriteFails, Fault, Jobs, Requests
<1> QED BY <1>1, <1>2, <1>3, <1>4, <1>5, <1>6, <1>7, <1>8 DEF LogStep, DaemonLogs

---------------------------------------------------------------------------
(* the log: what its steps do to the place of a record                     *)

LEMMA KeptFiled ==
  \A r : /\ r \in Kept <=> \E k \in Slots : Filed(k, r)
         /\ r \in Kept' <=> \E k \in Slots : Filed(k, r)'
BY DEF Kept, Filed

LEMMA AtTyped ==
  ASSUME LogTyped, NEW k \in Places, NEW r, At(k, r)
  PROVE  r \in Record /\ r.n \in Int /\ r.n <= serial /\ r.born \in Int /\ r.born <= rotations
<1>1. CASE k \in Slots /\ Filed(k, r)
  <2>1. PICK i \in DOMAIN files[k] : files[k][i].rec = r BY <1>1 DEF Filed
  <2>2. r \in Record BY <1>1, <2>1, FilesTyped DEF Line
  <2> QED BY <2>2 DEF LogTyped, Record
<1>2. CASE Held(k, r)
  <2>1. PICK s \in Shims : fd[s].slot = k /\ fd[s].rec = r BY <1>2 DEF Held
  <2>2. fd[s] # Closed BY <2>1 DEF Places, Closed, Gone, MAX_ROTATED
  <2>3. r \in Record BY <2>1, <2>2 DEF LogTyped
  <2> QED BY <2>3 DEF LogTyped, Record
<1>3. CASE r \in written
  BY <1>3 DEF LogTyped, Record
<1> QED BY <1>1, <1>2, <1>3 DEF At

\* What is put at the end of a file, and nothing else, is in it afterwards.
LEMMA AppendFiles ==
  ASSUME LogTyped, NEW k \in Slots, NEW rec, NEW state, files' = AppendTo(k, rec, state)
  PROVE  /\ \A j \in Slots : \A r : Filed(j, r)' <=> Filed(j, r) \/ (j = k /\ r = rec)
         /\ \A j \in Slots : files'[j] # <<>> <=> files[j] # <<>> \/ j = k
         /\ files'[k] # <<>> /\ Last(files'[k]).state = state
         /\ \A j \in Slots : j # k => files'[j] = files[j]
<1> DEFINE line == [rec |-> rec, state |-> state]
           S == Line \cup {line}
<1>1. files[k] \in Seq(S) /\ line \in S /\ Len(files[k]) \in Nat
  BY FilesTyped, SeqMonotonic
<1>2. /\ Len(Append(files[k], line)) = Len(files[k]) + 1
      /\ \A i \in 1 .. Len(files[k]) : Append(files[k], line)[i] = files[k][i]
      /\ Append(files[k], line)[Len(files[k]) + 1] = line
      /\ Append(files[k], line) \in Seq(S)
  BY <1>1, AppendProperties
<1>3. DOMAIN Append(files[k], line) = 1 .. Len(files[k]) + 1
  BY <1>2, LenProperties
<1>4. files'[k] = Append(files[k], line) BY DEF AppendTo, LogTyped
<1>5. \A j \in Slots : j # k => files'[j] = files[j] BY DEF AppendTo, LogTyped
<1>6. DOMAIN files[k] = 1 .. Len(files[k]) BY FilesTyped
<1>7. files'[k] # <<>> /\ Last(files'[k]).state = state
  BY <1>1, <1>2, <1>4, EmptySeq DEF Last
<1>8. \A r : Filed(k, r)' <=> Filed(k, r) \/ r = rec
  <2> TAKE r
  <2>1. Filed(k, r)' => Filed(k, r) \/ r = rec
    <3> SUFFICES ASSUME NEW i \in DOMAIN files'[k], files'[k][i].rec = r
                 PROVE  Filed(k, r) \/ r = rec
      BY DEF Filed
    <3>1. CASE i = Len(files[k]) + 1 BY <1>2, <1>4, <3>1
    <3>2. CASE i # Len(files[k]) + 1
      <4>1. i \in 1 .. Len(files[k]) BY <1>1, <1>3, <1>4, <3>2
      <4> QED BY <1>2, <1>4, <1>6, <4>1 DEF Filed
    <3> QED BY <3>1, <3>2
  <2>2. Filed(k, r) => Filed(k, r)'
    <3> SUFFICES ASSUME NEW i \in 1 .. Len(files[k]), files[k][i].rec = r
                 PROVE  Filed(k, r)'
      BY <1>6 DEF Filed
    <3>1. i \in DOMAIN files'[k] BY <1>1, <1>3, <1>4
    <3> QED BY <1>2, <1>4, <3>1 DEF Filed
  <2>3. Filed(k, rec)'
    <3>1. Len(files[k]) + 1 \in DOMAIN files'[k] BY <1>1, <1>3, <1>4
    <3> QED BY <1>2, <1>4, <3>1 DEF Filed
  <2> QED BY <2>1, <2>2, <2>3
<1>9. \A j \in Slots : j # k => \A r : Filed(j, r)' <=> Filed(j, r)
  BY <1>5 DEF Filed
<1> QED BY <1>5, <1>7, <1>8, <1>9

\* A line written to a file, or to one without a name.
LEMMA WrittenEffect ==
  ASSUME LogTyped, NEW k \in Slots \cup {Gone}, NEW rec, Written(k, rec)
  PROVE  /\ \A j \in Slots : \A r : Filed(j, r)' => Filed(j, r) \/ (j = k /\ r = rec)
         /\ \A j \in Slots : files'[j] # <<>> <=> files[j] # <<>> \/ j = k
         /\ \A r : r \in written' \ Kept' => r \in written \ Kept \/ (k = Gone /\ r = rec)
<1>1. CASE k = Gone
  <2>1. files' = files /\ written' = written \cup {rec} BY <1>1 DEF Written
  <2>2. k \notin Slots BY <1>1 DEF Slots, Gone, MAX_ROTATED
  <2>3. Kept' = Kept /\ \A j \in Slots : \A r : Filed(j, r)' <=> Filed(j, r)
    BY <2>1 DEF Filed, Kept
  <2> QED BY <1>1, <2>1, <2>2, <2>3
<1>2. CASE k # Gone
  <2>1. PICK state : files' = AppendTo(k, rec, state) BY <1>2 DEF Written
  <2>2. /\ \A j \in Slots : \A r : Filed(j, r)' <=> Filed(j, r) \/ (j = k /\ r = rec)
        /\ \A j \in Slots : files'[j] # <<>> <=> files[j] # <<>> \/ j = k
    BY <1>2, <2>1, AppendFiles
  <2>3. \A r : r \in Kept \/ r = rec => r \in Kept' BY <1>2, <2>2, KeptFiled
  <2>4. written' \subseteq written \cup {rec} BY DEF Written
  <2> QED BY <2>2, <2>3, <2>4
<1> QED BY <1>1, <1>2

\* The steps that move nothing: at most one record, the newest, comes to audit.log.
Adds(new) == \A k \in Places : \A r : At(k, r)' => At(k, r) \/ (k = 0 /\ r = new)

LEMMA AddsInOrder ==
  ASSUME LogTyped, NewerFirst, Aged, NEW new, new.n = serial + 1, new.born = rotations,
         Adds(new), rotations' = rotations,
         step' = "shift" => step = "shift" /\ slot' = slot
  PROVE  NewerFirst' /\ Aged'
<1> USE DEF Places, Gone, MAX_ROTATED
<1>1. rotations \in Nat /\ slot \in 0 .. 2 BY DEF LogTyped
<1>2. NewerFirst'
  <2> SUFFICES ASSUME NEW j \in Places, NEW k \in Places, NEW q, NEW r, j < k, At(j, q)', At(k, r)'
               PROVE  r.n < q.n
    BY DEF NewerFirst
  <2>1. At(k, r) BY DEF Adds
  <2>2. r.n \in Int /\ r.n <= serial BY <2>1, AtTyped
  <2>3. CASE At(j, q) BY <2>1, <2>3 DEF NewerFirst
  <2>4. CASE q = new BY <2>2, <2>4 DEF LogTyped
  <2> QED BY <2>3, <2>4 DEF Adds
<1>3. Aged'
  <2> SUFFICES ASSUME NEW k \in Places, NEW r, At(k, r)'
               PROVE  /\ rotations' >= r.born + k - 1
                      /\ step' = "shift" /\ k <= slot' => rotations' >= r.born + k
    BY DEF Aged
  <2>1. CASE At(k, r) BY <2>1 DEF Aged
  <2>2. CASE k = 0 /\ r = new BY <1>1, <2>2
  <2> QED BY <2>1, <2>2 DEF Adds
<1> QED BY <1>2, <1>3

LEMMA UnlinkEffect ==
  ASSUME LogTyped, Unlink
  PROVE  /\ \A k \in Places : \A r : At(k, r)' => (k # 3 /\ At(k, r)) \/ (k = 4 /\ At(3, r))
         /\ files'[3] = <<>> /\ \A k \in Slots : k # 3 => files'[k] = files[k]
         /\ \A s \in Shims : /\ fd'[s].slot # 3
                             /\ fd'[s].slot # 4 => fd'[s].slot = fd[s].slot
<1> USE DEF Places, Slots, Gone, MAX_ROTATED
<1>1. files'[3] = <<>> /\ \A k \in Slots : k # 3 => files'[k] = files[k]
  BY DEF LogTyped, Unlink
<1>2. \A s \in Shims : /\ fd[s].slot = 3 => fd'[s] = [fd[s] EXCEPT !.slot = 4]
                       /\ fd[s].slot # 3 => fd'[s] = fd[s]
  BY DEF LogTyped, Unlink, Moved
<1>3. \A s \in Shims : fd[s].slot = 3 => fd'[s].slot = 4 /\ fd'[s].rec = fd[s].rec
  <2> SUFFICES ASSUME NEW s \in Shims, fd[s].slot = 3
               PROVE  fd'[s].slot = 4 /\ fd'[s].rec = fd[s].rec
    OBVIOUS
  <2>1. fd[s] \in [slot : Slots \cup {Gone}, rec : Record] BY DEF LogTyped, Closed
  <2> QED BY <1>2, <2>1
<1>4. \A k \in Places : \A r : Held(k, r)' => (k # 3 /\ Held(k, r)) \/ (k = 4 /\ Held(3, r))
  BY <1>2, <1>3 DEF Held
<1>5. \A k \in Slots : \A r : Filed(k, r)' => k # 3 /\ Filed(k, r)
  BY <1>1 DEF Filed
<1>6. \A r : r \in written' \ Kept' => r \in written \ Kept \/ Filed(3, r)
  <2> SUFFICES ASSUME NEW r, r \in written', r \in Kept, r \notin Kept'
               PROVE  Filed(3, r)
    BY DEF Unlink
  <2>1. PICK k \in Slots : Filed(k, r) BY KeptFiled
  <2>2. k # 3 => Filed(k, r)' BY <1>1, <2>1 DEF Filed
  <2>3. ~Filed(k, r)' BY DEF Kept, Filed
  <2> QED BY <2>1, <2>2, <2>3
<1>7. \A k \in Places : \A r : At(k, r)' => (k # 3 /\ At(k, r)) \/ (k = 4 /\ At(3, r))
  BY <1>4, <1>5, <1>6 DEF At
<1>8. \A s \in Shims : fd'[s].slot # 3 /\ (fd'[s].slot # 4 => fd'[s].slot = fd[s].slot)
  <2> SUFFICES ASSUME NEW s \in Shims
               PROVE  fd'[s].slot # 3 /\ (fd'[s].slot # 4 => fd'[s].slot = fd[s].slot)
    OBVIOUS
  <2>1. CASE fd[s].slot = 3 BY <1>3, <2>1
  <2>2. CASE fd[s].slot # 3
    <3>1. fd'[s].slot = fd[s].slot BY <1>2, <2>2
    <3> QED BY <2>2, <3>1
  <2> QED BY <2>1, <2>2
<1> QED BY <1>1, <1>7, <1>8

LEMMA UnlinkInOrder ==
  ASSUME LogTyped, Unlink, LogInv
  PROVE  LogInv'
<1> USE DEF Places, Slots, Gone, MAX_ROTATED
<1>1. rotations \in Nat /\ rotations' = rotations + 1 /\ step' = "shift" /\ slot' = 2
  BY DEF LogTyped, Unlink
<1>2. Shifting' BY <1>1, UnlinkEffect DEF Shifting
<1>3. HasLines' BY UnlinkEffect DEF HasLines, LogInv
<1>4. NewerFirst'
  <2> SUFFICES ASSUME NEW j \in Places, NEW k \in Places, NEW q, NEW r, j < k, At(j, q)', At(k, r)'
               PROVE  r.n < q.n
    BY DEF NewerFirst
  <2>1. j # 3 /\ At(j, q) BY UnlinkEffect
  <2>2. At(k, r) \/ (k = 4 /\ At(3, r)) BY UnlinkEffect
  <2> QED BY <2>1, <2>2 DEF NewerFirst, LogInv
<1>5. Aged'
  <2> SUFFICES ASSUME NEW k \in Places, NEW r, At(k, r)'
               PROVE  /\ rotations' >= r.born + k - 1
                      /\ k <= 2 => rotations' >= r.born + k
    BY <1>1 DEF Aged
  <2>1. CASE At(k, r)
    <3>1. r.born \in Int /\ rotations >= r.born + k - 1 BY <2>1, AtTyped DEF Aged, LogInv
    <3> QED BY <1>1, <3>1
  <2>2. CASE k = 4 /\ At(3, r)
    <3>1. r.born \in Int /\ rotations >= r.born + 3 - 1 BY <2>2, AtTyped DEF Aged, LogInv
    <3> QED BY <1>1, <2>2, <3>1
  <2> QED BY <2>1, <2>2, UnlinkEffect
<1> QED BY <1>2, <1>3, <1>4, <1>5 DEF LogInv

LEMMA ShiftEffect ==
  ASSUME LogTyped, Shift, files[slot] # <<>>, files[slot + 1] = <<>>
  PROVE  /\ \A k \in Places : \A r :
              At(k, r)' => (k # slot /\ At(k, r)) \/ (k = slot + 1 /\ At(slot, r))
         /\ files' = [files EXCEPT ![slot + 1] = files[slot], ![slot] = <<>>]
         /\ \A s \in Shims : \/ fd'[s].slot = slot + 1
                             \/ fd'[s].slot # slot /\ fd'[s].slot = fd[s].slot
<1> USE DEF Places, Slots, Gone, MAX_ROTATED
<1>0. PICK k0 \in 0 .. 2 : k0 = slot /\ k0 \in Slots /\ k0 + 1 \in Slots BY DEF LogTyped
<1>1. /\ files' = [files EXCEPT ![k0 + 1] = files[k0], ![k0] = <<>>]
      /\ fd' = Moved(k0, k0 + 1) /\ written' = written
  BY <1>0 DEF Shift
<1>2. /\ files'[k0 + 1] = files[k0] /\ files'[k0] = <<>>
      /\ \A k \in Slots : k # k0 /\ k # k0 + 1 => files'[k] = files[k]
  BY <1>0, <1>1 DEF LogTyped
<1>3. \A s \in Shims : /\ fd[s].slot = k0 => fd'[s] = [fd[s] EXCEPT !.slot = k0 + 1]
                       /\ fd[s].slot # k0 => fd'[s] = fd[s]
  BY <1>1 DEF LogTyped, Moved
<1>4. \A s \in Shims : fd[s].slot = k0 => fd'[s].slot = k0 + 1 /\ fd'[s].rec = fd[s].rec
  <2> SUFFICES ASSUME NEW s \in Shims, fd[s].slot = k0
               PROVE  fd'[s].slot = k0 + 1 /\ fd'[s].rec = fd[s].rec
    OBVIOUS
  <2>1. fd[s] \in [slot : Slots \cup {Gone}, rec : Record] BY <1>0 DEF LogTyped, Closed
  <2> QED BY <1>3, <2>1
<1>5. \A s \in Shims : \/ fd'[s].slot = k0 + 1
                       \/ fd'[s].slot # k0 /\ fd'[s].slot = fd[s].slot
  <2> SUFFICES ASSUME NEW s \in Shims
               PROVE  \/ fd'[s].slot = k0 + 1
                      \/ fd'[s].slot # k0 /\ fd'[s].slot = fd[s].slot
    OBVIOUS
  <2>1. CASE fd[s].slot = k0 BY <1>4, <2>1
  <2>2. CASE fd[s].slot # k0
    <3>1. fd'[s].slot = fd[s].slot BY <1>3, <2>2
    <3> QED BY <2>2, <3>1
  <2> QED BY <2>1, <2>2
<1>6. \A k \in Places : \A r :
        Held(k, r)' => (k # k0 /\ Held(k, r)) \/ (k = k0 + 1 /\ Held(k0, r))
  <2> SUFFICES ASSUME NEW k \in Places, NEW r, NEW s \in Shims, fd'[s].slot = k, fd'[s].rec = r
               PROVE  (k # k0 /\ Held(k, r)) \/ (k = k0 + 1 /\ Held(k0, r))
    BY DEF Held
  <2>1. CASE fd[s].slot = k0 BY <1>4, <2>1 DEF Held
  <2>2. CASE fd[s].slot # k0
    <3>1. fd'[s] = fd[s] BY <1>3, <2>2
    <3> QED BY <2>2, <3>1 DEF Held
  <2> QED BY <2>1, <2>2
<1>7. \A k \in Slots : \A r :
        Filed(k, r)' => (k # k0 /\ Filed(k, r)) \/ (k = k0 + 1 /\ Filed(k0, r))
  BY <1>0, <1>2 DEF Filed
<1>8. \A r : r \in Kept => r \in Kept'
  <2> SUFFICES ASSUME NEW r, r \in Kept
               PROVE  \E k \in Slots : Filed(k, r)'
    BY KeptFiled
  <2>1. PICK k \in Slots : Filed(k, r) BY KeptFiled
  <2>2. k # k0 + 1 BY <1>0, <2>1 DEF Filed
  <2>3. CASE k = k0
    <3>1. Filed(k0 + 1, r)' BY <1>2, <2>1, <2>3 DEF Filed
    <3> QED BY <1>0, <3>1
  <2>4. CASE k # k0
    <3>1. Filed(k, r)' BY <1>2, <2>1, <2>2, <2>4 DEF Filed
    <3> QED BY <3>1
  <2> QED BY <2>3, <2>4
<1>9. \A k \in Places : \A r :
        At(k, r)' => (k # k0 /\ At(k, r)) \/ (k = k0 + 1 /\ At(k0, r))
  <2> SUFFICES ASSUME NEW k \in Places, NEW r, At(k, r)'
               PROVE  (k # k0 /\ At(k, r)) \/ (k = k0 + 1 /\ At(k0, r))
    OBVIOUS
  <2>1. CASE k \in Slots /\ Filed(k, r)' BY <1>0, <1>7, <2>1 DEF At
  <2>2. CASE Held(k, r)' BY <1>6, <2>2 DEF At
  <2>3. CASE k = Gone /\ r \in written' \ Kept'
    BY <1>0, <1>1, <1>8, <2>3 DEF At
  <2> QED BY <2>1, <2>2, <2>3 DEF At
<1> QED BY <1>0, <1>1, <1>5, <1>9

LEMMA ShiftInOrder ==
  ASSUME LogTyped, Shift, LogInv
  PROVE  LogInv'
<1> USE DEF Places, Slots, Gone, MAX_ROTATED
<1>1. /\ rotations \in Nat /\ rotations' = rotations /\ step = "shift" /\ slot \in 0 .. 2
      /\ step' = "shift" => slot' = slot - 1 /\ slot # 0
  BY DEF LogTyped, Shift, NextShift
<1>2. files[slot + 1] = <<>> BY <1>1 DEF Shifting, LogInv
<1>3. CASE files[slot] = <<>>
  <2>1. UNCHANGED <<files, fd, written>> BY <1>3 DEF Shift
  <2>2. \A k, r : At(k, r)' <=> At(k, r) BY <2>1 DEF At, Filed, Held, Kept
  <2>3. Shifting' BY <1>1, <1>3, <2>1 DEF Shifting
  <2>4. HasLines' BY <2>1 DEF HasLines, LogInv
  <2>5. NewerFirst' BY <2>2 DEF NewerFirst, LogInv
  <2>6. Aged' BY <1>1, <2>2 DEF Aged, LogInv
  <2> QED BY <2>3, <2>4, <2>5, <2>6 DEF LogInv
<1>4. CASE files[slot] # <<>>
  <2>1. /\ \A k \in Places : \A r :
             At(k, r)' => (k # slot /\ At(k, r)) \/ (k = slot + 1 /\ At(slot, r))
        /\ files' = [files EXCEPT ![slot + 1] = files[slot], ![slot] = <<>>]
        /\ \A s \in Shims : \/ fd'[s].slot = slot + 1
                            \/ fd'[s].slot # slot /\ fd'[s].slot = fd[s].slot
    BY <1>2, <1>4, ShiftEffect
  <2>2. /\ files'[slot + 1] = files[slot] /\ files'[slot] = <<>>
        /\ \A k \in Slots : k # slot /\ k # slot + 1 => files'[k] = files[k]
    BY <1>1, <2>1 DEF LogTyped
  <2>3. Shifting' BY <1>1, <2>2 DEF Shifting
  <2>4. HasLines'
    <3> SUFFICES ASSUME NEW s \in Shims, fd'[s].slot \in 1 .. 3
                 PROVE  files'[fd'[s].slot] # <<>>
      BY DEF HasLines
    <3>1. CASE fd'[s].slot = slot + 1 BY <1>4, <2>2, <3>1
    <3>2. CASE fd'[s].slot # slot + 1
      <4>1. fd'[s].slot # slot /\ fd'[s].slot = fd[s].slot BY <2>1, <3>2
      <4> QED BY <2>2, <3>2, <4>1 DEF HasLines, LogInv
    <3> QED BY <3>1, <3>2
  <2>5. \A r : ~At(slot + 1, r)
    <3> SUFFICES ASSUME NEW r, At(slot + 1, r)
                 PROVE  FALSE
      OBVIOUS
    <3>1. ~Filed(slot + 1, r) BY <1>2 DEF Filed
    <3>2. slot + 1 \in 1 .. 3 BY <1>1
    <3>3. ~Held(slot + 1, r) BY <1>2, <3>2 DEF Held, HasLines, LogInv
    <3> QED BY <3>1, <3>2, <3>3 DEF At
  <2>6. NewerFirst'
    <3> SUFFICES ASSUME NEW j \in Places, NEW k \in Places, NEW q, NEW r,
                        j < k, At(j, q)', At(k, r)'
                 PROVE  r.n < q.n
      BY DEF NewerFirst
    <3>1. PICK i \in Places : At(i, q) /\ ((j = i /\ i # slot) \/ (j = slot + 1 /\ i = slot))
      BY <1>1, <2>1
    <3>2. PICK l \in Places : At(l, r) /\ ((k = l /\ l # slot) \/ (k = slot + 1 /\ l = slot))
      BY <1>1, <2>1
    <3>3. i # slot + 1 /\ l # slot + 1 BY <2>5, <3>1, <3>2
    <3>4. i < l BY <1>1, <3>1, <3>2, <3>3
    <3> QED BY <3>1, <3>2, <3>4 DEF NewerFirst, LogInv
  <2>7. Aged'
    <3> SUFFICES ASSUME NEW k \in Places, NEW r, At(k, r)'
                 PROVE  /\ rotations >= r.born + k - 1
                        /\ step' = "shift" /\ k <= slot' => rotations >= r.born + k
      BY <1>1 DEF Aged
    <3>1. CASE k # slot /\ At(k, r)
      BY <1>1, <3>1 DEF Aged, LogInv
    <3>2. CASE k = slot + 1 /\ At(slot, r)
      <4>1. r.born \in Int /\ rotations >= r.born + slot
        BY <1>1, <3>2, AtTyped DEF Aged, LogInv
      <4> QED BY <1>1, <3>2, <4>1
    <3> QED BY <2>1, <3>1, <3>2
  <2> QED BY <2>3, <2>4, <2>6, <2>7 DEF LogInv
<1> QED BY <1>3, <1>4

\* The other steps that write, open or close leave every record where it is, or put
\* one, the newest, into audit.log.
LEMMA AddingSteps ==
  ASSUME LogTyped, LogInv, LogStep, ~Unlink, ~Shift
  PROVE  \E new : /\ new.n = serial + 1 /\ new.born = rotations
                  /\ Adds(new)
                  /\ \A k \in 1 .. MAX_ROTATED : files[k] # <<>> => files'[k] # <<>>
                  /\ \A k \in 1 .. MAX_ROTATED : files[k] = <<>> => files'[k] = <<>>
                  /\ \A s \in Shims : fd'[s].slot \in 1 .. MAX_ROTATED => fd'[s].slot = fd[s].slot
<1> USE DEF Places
<1>0. /\ 0 \in Slots /\ 0 # Gone /\ \A k \in 1 .. MAX_ROTATED : k \in Slots /\ k # 0
      /\ \A k \in Places : k \in Slots \/ k = Gone
      /\ \A s \in Shims : fd[s].slot = Gone => fd[s] # Closed
  BY DEF Slots, Gone, MAX_ROTATED, Closed
<1>1. CASE UNCHANGED <<files, fd, written>>
  <2>1. \A k, r : At(k, r)' <=> At(k, r) BY <1>1 DEF At, Filed, Held, Kept
  <2>2. Stamp(<<>>).n = serial + 1 /\ Stamp(<<>>).born = rotations BY DEF Stamp
  <2> QED BY <1>1, <2>1, <2>2 DEF Adds
<1>2. CASE Write
  <2> DEFINE new == Stamp(Holder)
  <2>1. new.n = serial + 1 /\ new.born = rotations BY DEF Stamp
  <2>2. Written(0, new) /\ fd' = fd BY <1>2 DEF Write
  <2> HIDE DEF new
  <2>3. Adds(new)
    <3> SUFFICES ASSUME NEW k \in Places, NEW r, At(k, r)'
                 PROVE  At(k, r) \/ (k = 0 /\ r = new)
      BY DEF Adds
    <3>1. CASE k \in Slots /\ Filed(k, r)' BY <1>0, <2>2, <3>1, WrittenEffect DEF At
    <3>2. CASE Held(k, r)' BY <2>2, <3>2 DEF At, Held
    <3>3. CASE k = Gone /\ r \in written' \ Kept' BY <1>0, <2>2, <3>3, WrittenEffect DEF At
    <3> QED BY <3>1, <3>2, <3>3 DEF At
  <2>4. \A k \in 1 .. MAX_ROTATED : files[k] # <<>> <=> files'[k] # <<>>
    BY <1>0, <2>2, WrittenEffect
  <2> QED BY <2>1, <2>2, <2>3, <2>4
<1>3. CASE WriteTorn
  <2> DEFINE new == Stamp(Holder)
  <2>1. new.n = serial + 1 /\ new.born = rotations BY DEF Stamp
  <2>2. files' = AppendTo(0, new, "torn") /\ fd' = fd /\ written' = written
    BY <1>3 DEF WriteTorn
  <2> HIDE DEF new
  <2>3. Adds(new)
    <3> SUFFICES ASSUME NEW k \in Places, NEW r, At(k, r)'
                 PROVE  At(k, r) \/ (k = 0 /\ r = new)
      BY DEF Adds
    <3>1. CASE k \in Slots /\ Filed(k, r)' BY <1>0, <2>2, <3>1, AppendFiles DEF At
    <3>2. CASE Held(k, r)' BY <2>2, <3>2 DEF At, Held
    <3>3. CASE k = Gone /\ r \in written' \ Kept'
      BY <1>0, <2>2, <3>3, AppendFiles, KeptFiled DEF At
    <3> QED BY <3>1, <3>2, <3>3 DEF At
  <2>4. \A k \in 1 .. MAX_ROTATED : files[k] # <<>> <=> files'[k] # <<>>
    BY <1>0, <2>2, AppendFiles
  <2> QED BY <2>1, <2>2, <2>3, <2>4
<1>4. CASE \E s \in Shims : ShimOpens(s, <<s, 0>>)
  <2>1. PICK s \in Shims : ShimOpens(s, <<s, 0>>) BY <1>4
  <2> DEFINE new == Stamp(<<s, 0>>)
  <2>2. new.n = serial + 1 /\ new.born = rotations BY DEF Stamp
  <2>3. /\ files' = files /\ written' = written
        /\ fd' = [fd EXCEPT ![s] = [slot |-> 0, rec |-> new]]
    BY <2>1 DEF ShimOpens
  <2> HIDE DEF new
  <2>4. fd'[s].slot = 0 /\ fd'[s].rec = new /\ \A t \in Shims \ {s} : fd'[t] = fd[t]
    BY <2>3 DEF LogTyped
  <2>5. \A k, r : Held(k, r)' => Held(k, r) \/ (k = 0 /\ r = new) BY <2>4 DEF Held
  <2>6. Adds(new) BY <2>3, <2>5 DEF Adds, At, Filed, Kept
  <2> QED BY <1>0, <2>2, <2>3, <2>4, <2>6
<1>5. CASE \E s \in Shims : ShimWrites(s) \/ ShimWriteFails(s)
  <2>1. PICK s \in Shims : ShimWrites(s) \/ ShimWriteFails(s) BY <1>5
  <2>2. /\ fd[s].slot \in Slots \cup {Gone}
        /\ fd'[s] = Closed /\ \A t \in Shims \ {s} : fd'[t] = fd[t]
    BY <2>1 DEF LogTyped, ShimWrites, ShimWriteFails
  <2>3. Closed.slot \notin Places /\ Closed.slot \notin 1 .. MAX_ROTATED
    BY DEF Closed, Gone, MAX_ROTATED
  <2>4. \A k \in Places : \A r : Held(k, r)' => Held(k, r) BY <2>2, <2>3 DEF Held
  <2>5. /\ \A k \in Places : \A r : At(k, r)' => At(k, r)
        /\ \A k \in 1 .. MAX_ROTATED : files'[k] # <<>> <=> files[k] # <<>>
    <3>1. CASE ShimWriteFails(s)
      <4>1. files' = files /\ written' = written BY <3>1 DEF ShimWriteFails
      <4> QED BY <2>4, <4>1 DEF At, Filed, Kept
    <3>2. CASE ShimWrites(s)
      <4>1. /\ \A j \in Slots : \A r : Filed(j, r)' =>
                 Filed(j, r) \/ (j = fd[s].slot /\ r = fd[s].rec)
            /\ \A j \in Slots : files'[j] # <<>> <=> files[j] # <<>> \/ j = fd[s].slot
            /\ \A r : r \in written' \ Kept' =>
                 r \in written \ Kept \/ (fd[s].slot = Gone /\ r = fd[s].rec)
        BY <2>2, <3>2, WrittenEffect DEF ShimWrites
      <4>2. Held(fd[s].slot, fd[s].rec) BY DEF Held
      <4>3. \A k \in Places : \A r : At(k, r)' => At(k, r)
        <5> SUFFICES ASSUME NEW k \in Places, NEW r, At(k, r)'
                     PROVE  At(k, r)
          OBVIOUS
        <5>1. CASE k \in Slots /\ Filed(k, r)' BY <4>1, <4>2, <5>1 DEF At
        <5>2. CASE Held(k, r)' BY <2>4, <5>2 DEF At
        <5>3. CASE k = Gone /\ r \in written' \ Kept' BY <4>1, <4>2, <5>3 DEF At
        <5> QED BY <5>1, <5>2, <5>3 DEF At
      <4>4. \A k \in 1 .. MAX_ROTATED : files'[k] # <<>> <=> files[k] # <<>>
        BY <1>0, <4>1 DEF HasLines, LogInv
      <4> QED BY <4>3, <4>4
    <3> QED BY <2>1, <3>1, <3>2
  <2>6. Stamp(<<>>).n = serial + 1 /\ Stamp(<<>>).born = rotations BY DEF Stamp
  <2> QED BY <2>2, <2>3, <2>5, <2>6 DEF Adds
<1>6. CASE Stat \/ Fails \/ LogCrash \/ \E job \in Jobs : Enqueue(job)
  BY <1>1, <1>6 DEF Stat, Fails, LogCrash, Enqueue
<1> QED BY <1>2, <1>3, <1>4, <1>5, <1>6 DEF LogStep, DaemonLogs

LEMMA LogStepInOrder ==
  ASSUME LogTyped, LogInv, LogStep
  PROVE  LogInv'
<1>1. CASE Unlink BY <1>1, UnlinkInOrder
<1>2. CASE Shift BY <1>2, ShiftInOrder
<1>3. CASE ~Unlink /\ ~Shift
  <2>1. PICK new : /\ new.n = serial + 1 /\ new.born = rotations
                   /\ Adds(new)
                   /\ \A k \in 1 .. MAX_ROTATED : files[k] # <<>> => files'[k] # <<>>
                   /\ \A k \in 1 .. MAX_ROTATED : files[k] = <<>> => files'[k] = <<>>
                   /\ \A s \in Shims : fd'[s].slot \in 1 .. MAX_ROTATED => fd'[s].slot = fd[s].slot
    BY <1>3, AddingSteps
  <2>2. rotations' = rotations /\ (step' = "shift" => step = "shift" /\ slot' = slot)
    BY <1>3 DEF LogStep, DaemonLogs, Stat, Write, Fails, WriteTorn, Release, LogCrash, Enqueue,
                ShimOpens, ShimWrites, ShimWriteFails
  <2>3. NewerFirst' /\ Aged' BY <2>1, <2>2, AddsInOrder DEF LogInv
  <2>4. Shifting'
    <3>1. slot \in 0 .. MAX_ROTATED - 1 BY DEF LogTyped
    <3>2. slot + 1 \in 1 .. MAX_ROTATED BY <3>1 DEF MAX_ROTATED
    <3> QED BY <2>1, <2>2, <3>2 DEF Shifting, LogInv
  <2>5. HasLines' BY <2>1 DEF HasLines, LogInv
  <2> QED BY <2>3, <2>4, <2>5 DEF LogInv
<1> QED BY <1>1, <1>2, <1>3

LEMMA LogInitOk ==
  ASSUME LogInit
  PROVE  LogTyped /\ LogInv
<1>1. LogTyped
  BY EmptySeq, LogAssumption DEF LogInit, LogTyped, Slots, MAX_ROTATED
<1>2. \A k \in Slots : \A r : ~Filed(k, r)
  BY EmptySeq DEF LogInit, Filed
<1>3. \A k \in Places : \A r : ~Held(k, r)
  BY DEF LogInit, Held, Places, Closed, Gone, MAX_ROTATED
<1>4. \A k \in Places : \A r : ~At(k, r) BY <1>2, <1>3 DEF At, LogInit
<1>5. NewerFirst /\ Aged BY <1>4 DEF NewerFirst, Aged
<1>6. Shifting /\ HasLines BY DEF LogInit, Shifting, HasLines, Closed, MAX_ROTATED
<1> QED BY <1>1, <1>5, <1>6 DEF LogInv

\* Every step of the whole is a step of the log or leaves it alone.
LEMMA NextLogs ==
  ASSUME DaemonTyped, Next
  PROVE  LogStep \/ UNCHANGED log
<1>1. CASE \E s \in Shims : ShimRuns(s) \/ Prompt(s)
  BY <1>1 DEF ShimRuns, Start, BypassRefused, BypassOpens, BypassLogged, Ask, Unanswered,
              CutOff, Receive, Passthrough, Prompt, LogStep
<1>2. CASE DaemonLogs BY <1>2 DEF LogStep
<1>3. CASE \E s \in Shims : Take(s) \/ \E i \in Turns : Decide(s, i) \/ Respond(s, i)
  <2>1. PICK s \in Shims : Take(s) \/ \E i \in Turns : Decide(s, i) \/ Respond(s, i) BY <1>3
  <2>2. CASE Take(s) BY <2>2 DEF Take
  <2>3. CASE \E i \in Turns : Decide(s, i)
    BY <2>3 DEF Decide, LogStep, Jobs, Requests
  <2>4. CASE \E i \in Turns : Respond(s, i) BY <2>4 DEF Respond
  <2> QED BY <2>1, <2>2, <2>3, <2>4
<1>4. CASE Override
  <2>1. <<User, overrides + 1>> \in Jobs
    BY <1>4, InstallAssumption DEF Override, DaemonTyped, Jobs
  <2> QED BY <1>4, <2>1 DEF Override, LogStep
<1>5. CASE Crash \/ Restart BY <1>5 DEF Crash, Restart, LogStep
<1> QED BY <1>1, <1>2, <1>3, <1>4, <1>5 DEF Next, Daemon

LEMMA NextLogSafe ==
  ASSUME LogTyped, DaemonTyped, LogInv, [Next]_vars
  PROVE  LogTyped' /\ LogInv'
<1>1. CASE LogStep BY <1>1, LogStepTyped, LogStepInOrder
<1>2. CASE UNCHANGED log
  <2> USE <1>2 DEF log
  <2>1. Record' = Record /\ Line' = Line BY DEF Record, Line, Jobs, Requests
  <2>2. LogTyped' BY <2>1 DEF LogTyped
  <2>3. \A k, r : At(k, r)' <=> At(k, r) BY DEF At, Filed, Held, Kept
  <2>4. NewerFirst' /\ Aged' BY <2>3 DEF NewerFirst, Aged, LogInv
  <2>5. Shifting' /\ HasLines' BY DEF Shifting, HasLines, LogInv
  <2> QED BY <2>2, <2>4, <2>5 DEF LogInv
<1>3. CASE Next BY <1>1, <1>2, <1>3, NextLogs
<1>4. CASE UNCHANGED vars BY <1>2, <1>4 DEF vars
<1> QED BY <1>3, <1>4

LEMMA KeepsNewest ==
  ASSUME LogTyped, LogInv
  PROVE  RotationKeepsNewest
<1> SUFFICES ASSUME NEW r, r \in written \ Kept
             PROVE  /\ rotations >= r.born + MAX_ROTATED
                    /\ \A q \in Kept : r.n < q.n
  BY DEF RotationKeepsNewest
<1>1. At(Gone, r) /\ Gone \in Places BY DEF At, Places, Gone, MAX_ROTATED
<1>2. rotations >= r.born + MAX_ROTATED
  <2>1. r.born \in Int /\ rotations \in Int BY <1>1, AtTyped DEF LogTyped
  <2>2. rotations >= r.born + Gone - 1 BY <1>1 DEF Aged, LogInv
  <2> QED BY <2>1, <2>2 DEF Gone, MAX_ROTATED
<1>3. ASSUME NEW q \in Kept
      PROVE  r.n < q.n
  <2>1. PICK k \in Slots : Filed(k, q) BY KeptFiled
  <2>2. At(k, q) /\ k \in Places /\ k < Gone
    BY <2>1 DEF At, Places, Slots, Gone, MAX_ROTATED
  <2> QED BY <1>1, <2>2 DEF NewerFirst, LogInv
<1> QED BY <1>2, <1>3

---------------------------------------------------------------------------
(* the shims                                                               *)

States  == {"start", "next", "asked", "prompt", "bypass", "logging", "npm", "ran",
            "unstarted", "done"}
ShimsOf == [pc : States, cmd : Commands, i : 0 .. MaxArgs, blocked : BOOLEAN, exit : {-1, 0, 1}]
RequestsOf == [at : {"none", "sent", "taken", "replied", "lost", "cut"},
               reply : Verdicts \cup {"none", "unauthorized"}]

LEMMA PackagesTyped ==
  ASSUME ShimTyped, NEW s \in Shims
  PROVE  /\ Packages(s) \subseteq Turns /\ Later(s) \subseteq Packages(s)
         /\ \A k \in Packages(s) : shim[s].cmd.args[k] \in Names
         /\ shim[s].i \in Nat /\ Packages(s) \subseteq Nat
         /\ \A k \in Packages(s) : k > 0 /\ (k \in Later(s) \/ k <= shim[s].i)
<1>1. /\ shim[s].cmd \in Commands /\ shim[s].cmd.args \in Seq(Names)
      /\ Len(shim[s].cmd.args) <= MaxArgs
  BY ShimAssumption DEF ShimTyped
<1>2. Len(shim[s].cmd.args) \in Nat /\ DOMAIN shim[s].cmd.args = 1 .. Len(shim[s].cmd.args)
  BY <1>1, LenProperties
<1>3. Packages(s) \subseteq Turns BY <1>1, <1>2, ShimAssumption DEF Packages, Turns
<1>4. \A k \in Packages(s) : shim[s].cmd.args[k] \in Names
  BY <1>1, <1>2, ElementOfSeq DEF Packages
<1>5. shim[s].i \in Nat /\ Turns \subseteq Nat /\ \A k \in Turns : k > 0
  BY ShimAssumption DEF ShimTyped, Turns
<1>6. \A k \in Packages(s) : k \in Nat /\ k > 0 BY <1>3, <1>5
<1>7. \A k \in Packages(s) : k \in Later(s) \/ k <= shim[s].i BY <1>5, <1>6 DEF Later
<1> QED BY <1>3, <1>4, <1>5, <1>6, <1>7 DEF Later

\* What a step does to the record of its shim; the others keep theirs.
Becomes(s, pc, i, blocked, exit) ==
  /\ shim'[s] = [pc |-> pc, cmd |-> shim[s].cmd, i |-> i, blocked |-> blocked, exit |-> exit]
  /\ \A t \in Shims \ {s} : shim'[t] = shim[t]
  /\ shim' = [t \in Shims |-> shim'[t]]

LEMMA BecomesTyped ==
  ASSUME ShimTyped, NEW s \in Shims, NEW pc \in States, NEW i \in 0 .. MaxArgs,
         NEW blocked \in BOOLEAN, NEW exit \in {-1, 0, 1}, Becomes(s, pc, i, blocked, exit)
  PROVE  shim' \in [Shims -> ShimsOf]
<1>1. shim'[s] \in ShimsOf
  <2>1. shim[s].cmd \in Commands BY DEF ShimTyped
  <2> QED BY <2>1 DEF Becomes, ShimsOf
<1>2. \A t \in Shims : shim'[t] \in ShimsOf
  BY <1>1 DEF ShimTyped, Becomes, ShimsOf, States
<1> QED BY <1>2 DEF Becomes

LEMMA GotoFields ==
  ASSUME ShimTyped, NEW s \in Shims, NEW pc,
         shim' = Goto(s, pc)
  PROVE  Becomes(s, pc, shim[s].i, shim[s].blocked, shim[s].exit)
<1>1. shim = [t \in Shims |-> shim[t]] /\ shim[s] \in ShimsOf
  BY DEF ShimTyped, ShimsOf, States
<1>2. /\ shim' = [t \in Shims |-> shim'[t]]
      /\ \A t \in Shims \ {s} : shim'[t] = shim[t]
  BY <1>1 DEF Goto
<1>3. shim'[s] = [shim[s] EXCEPT !.pc = pc]
  BY <1>1 DEF Goto
<1>4. shim'[s] = [pc |-> pc, cmd |-> shim[s].cmd, i |-> shim[s].i,
                  blocked |-> shim[s].blocked, exit |-> shim[s].exit]
  BY <1>1, <1>3 DEF ShimsOf
<1> QED BY <1>2, <1>4 DEF Becomes

LEMMA ExitFields ==
  ASSUME ShimTyped, NEW s \in Shims, NEW code,
         shim' = Exit(s, code)
  PROVE  Becomes(s, "done", shim[s].i, shim[s].blocked, code)
<1>1. shim = [t \in Shims |-> shim[t]] /\ shim[s] \in ShimsOf
  BY DEF ShimTyped, ShimsOf, States
<1>2. /\ shim' = [t \in Shims |-> shim'[t]]
      /\ \A t \in Shims \ {s} : shim'[t] = shim[t]
  BY <1>1 DEF Exit
<1>3. shim'[s] = [shim[s] EXCEPT !.pc = "done", !.exit = code]
  BY <1>1 DEF Exit
<1>4. shim'[s] = [pc |-> "done", cmd |-> shim[s].cmd, i |-> shim[s].i,
                  blocked |-> shim[s].blocked, exit |-> code]
  BY <1>1, <1>3 DEF ShimsOf
<1> QED BY <1>2, <1>4 DEF Becomes

LEMMA RanFields ==
  ASSUME ShimTyped, NEW s \in Shims, NEW pc, NEW code,
         shim' = [shim EXCEPT ![s].pc = pc, ![s].exit = code]
  PROVE  Becomes(s, pc, shim[s].i, shim[s].blocked, code)
<1>1. shim = [t \in Shims |-> shim[t]] /\ shim[s] \in ShimsOf
  BY DEF ShimTyped, ShimsOf, States
<1>2. /\ shim' = [t \in Shims |-> shim'[t]]
      /\ \A t \in Shims \ {s} : shim'[t] = shim[t]
  BY <1>1
<1>3. shim'[s] = [shim[s] EXCEPT !.pc = pc, !.exit = code]
  BY <1>1
<1>4. shim'[s] = [pc |-> pc, cmd |-> shim[s].cmd, i |-> shim[s].i,
                  blocked |-> shim[s].blocked, exit |-> code]
  BY <1>1, <1>3 DEF ShimsOf
<1> QED BY <1>2, <1>4 DEF Becomes

LEMMA AskFields ==
  ASSUME ShimTyped, NEW s \in Shims, NEW k,
         shim' = [shim EXCEPT ![s].pc = "asked", ![s].i = k]
  PROVE  Becomes(s, "asked", k, shim[s].blocked, shim[s].exit)
<1>1. shim = [t \in Shims |-> shim[t]] /\ shim[s] \in ShimsOf
  BY DEF ShimTyped, ShimsOf, States
<1>2. /\ shim' = [t \in Shims |-> shim'[t]]
      /\ \A t \in Shims \ {s} : shim'[t] = shim[t]
  BY <1>1
<1>3. shim'[s] = [shim[s] EXCEPT !.pc = "asked", !.i = k]
  BY <1>1
<1>4. shim'[s] = [pc |-> "asked", cmd |-> shim[s].cmd, i |-> k,
                  blocked |-> shim[s].blocked, exit |-> shim[s].exit]
  BY <1>1, <1>3 DEF ShimsOf
<1> QED BY <1>2, <1>4 DEF Becomes

LEMMA SetBlocked ==
  ASSUME NEW r \in ShimsOf, NEW b, NEW q, q = [r EXCEPT !.pc = "next", !.blocked = b]
  PROVE  q = [pc |-> "next", cmd |-> r.cmd, i |-> r.i, blocked |-> b, exit |-> r.exit]
<1>1. r = [pc |-> r.pc, cmd |-> r.cmd, i |-> r.i, blocked |-> r.blocked, exit |-> r.exit]
  BY DEF ShimsOf
<1> QED BY <1>1

LEMMA BlockFields ==
  ASSUME ShimTyped, NEW s \in Shims,
         shim' = [Goto(s, "next") EXCEPT ![s].blocked = TRUE]
  PROVE  Becomes(s, "next", shim[s].i, TRUE, shim[s].exit)
<1>1. shim = [t \in Shims |-> shim[t]] /\ shim[s] \in ShimsOf
  BY DEF ShimTyped, ShimsOf, States
<1>2. /\ shim' = [t \in Shims |-> shim'[t]]
      /\ \A t \in Shims \ {s} : shim'[t] = shim[t]
  BY <1>1 DEF Goto
<1>3. shim'[s] = [shim[s] EXCEPT !.pc = "next", !.blocked = TRUE]
  BY <1>1 DEF Goto
<1>4. shim'[s] = [pc |-> "next", cmd |-> shim[s].cmd, i |-> shim[s].i,
                  blocked |-> TRUE, exit |-> shim[s].exit]
  BY <1>1, <1>3, SetBlocked
<1> QED BY <1>2, <1>4 DEF Becomes

LEMMA NoteFields ==
  ASSUME ShimTyped, NEW s \in Shims, NEW what \in Answers, Note(s, what)
  PROVE  /\ answers' \in [Shims -> [Turns -> Answers]]
         /\ \A t \in Shims \ {s} : answers'[t] = answers[t]
         /\ \A k \in Turns : answers'[s][k] = IF k = shim[s].i THEN what ELSE answers[s][k]
BY DEF ShimTyped, Note

LEMMA OthersSafe ==
  ASSUME NEW t, ShimInv(t), shim'[t] = shim[t], request'[t] = request[t],
         answers'[t] = answers[t], config' = config
  PROVE  ShimInv(t)' /\ Packages(t)' = Packages(t)
<1>1. Packages(t)' = Packages(t) /\ (Screened(t)' <=> Screened(t)) BY DEF Packages, Screened
<1>2. \A x : ShouldPrompt(t, x)' <=> ShouldPrompt(t, x) BY DEF ShouldPrompt
<1>3. AskingOf(t)' BY <1>1 DEF AskingOf, ShimInv
<1>4. ScreeningOf(t)'
  BY <1>1, <1>2 DEF ScreeningOf, PackageOf, Judged, ShouldPrompt, Screened, ShimInv
<1>5. StatusOf(t)' BY DEF StatusOf, Stranded, ShimInv
<1> QED BY <1>1, <1>3, <1>4, <1>5 DEF ShimInv

\* A step of s that keeps its command.
LEMMA SameCommand ==
  ASSUME NEW s, shim'[s].cmd = shim[s].cmd, config' = config
  PROVE  /\ Packages(s)' = Packages(s) /\ (Screened(s)' <=> Screened(s))
         /\ \A x : ShouldPrompt(s, x)' <=> ShouldPrompt(s, x)
BY DEF Packages, Screened, ShouldPrompt

\* Start, a bypass, and npm: nothing is asked or answered.
LEMMA QuietSteps ==
  ASSUME ShimTyped, NEW s \in Shims, ShimInv(s),
         Start(s) \/ BypassRefused(s) \/ BypassOpens(s) \/ BypassLogged(s) \/ Passthrough(s)
  PROVE  ShimTyped' /\ ShimInv(s)' /\ shim'[s].cmd = shim[s].cmd
         /\ \A t \in Shims \ {s} : shim'[t] = shim[t]
<1>1. UNCHANGED <<request, answers, config, token, offline>>
  BY DEF Start, BypassRefused, BypassOpens, BypassLogged, Passthrough
<1>2. /\ shim[s].pc \in {"start", "bypass", "logging", "npm"}
      /\ shim[s].i \in 0 .. MaxArgs /\ shim[s].blocked \in BOOLEAN /\ shim[s].exit \in {-1, 0, 1}
      /\ shim[s].exit = -1
  <2>1. shim[s].pc \in {"start", "bypass", "logging", "npm"}
    BY DEF Start, BypassRefused, BypassOpens, BypassLogged, Passthrough
  <2> QED BY <2>1 DEF ShimTyped, ShimInv, StatusOf
<1>3. \E pc \in {"npm", "bypass", "next", "done", "logging", "ran", "unstarted"},
         exit \in {-1, 0, 1} :
        /\ Becomes(s, pc, shim[s].i, shim[s].blocked, exit)
        /\ pc = "next" => shim[s].pc = "start" /\ Screened(s)
        /\ pc \in {"bypass", "logging"} => ~Screened(s)
        /\ pc \in {"npm", "ran", "unstarted"} /\ Screened(s) =>
             Packages(s) = {} \/ shim[s].pc = "npm"
        /\ pc \notin {"ran", "unstarted", "done"} => exit = -1
        /\ exit = 0 => pc \in {"ran", "unstarted"}
  <2>1. CASE Start(s)
    <3>1. CASE shim' = Goto(s, "npm") /\ (~shim[s].cmd.install \/ Packages(s) = {})
      BY <1>2, <3>1, GotoFields DEF Screened
    <3>2. CASE shim' = Goto(s, "bypass") /\ shim[s].cmd.bypass
      BY <1>2, <3>2, GotoFields DEF Screened
    <3>3. CASE shim' = Exit(s, 1) BY <1>2, <3>3, ExitFields
    <3>4. CASE shim' = Goto(s, "next") /\ shim[s].cmd.install /\ ~shim[s].cmd.bypass
      <4>1. shim[s].pc = "start" BY <2>1 DEF Start
      <4> QED BY <1>2, <3>4, <4>1, GotoFields DEF Screened
    <3> QED BY <2>1, <3>1, <3>2, <3>3, <3>4 DEF Start, Started
  <2>2. CASE BypassRefused(s) BY <1>2, <2>2, ExitFields DEF BypassRefused
  <2>3. CASE BypassOpens(s)
    <3>1. ~Screened(s) /\ shim' = Goto(s, "logging")
      BY <2>3 DEF BypassOpens, ShimInv, ScreeningOf
    <3> QED BY <1>2, <3>1, GotoFields
  <2>4. CASE BypassLogged(s)
    <3>1. ~Screened(s) /\ shim' = Goto(s, "npm")
      BY <2>4 DEF BypassLogged, ShimInv, ScreeningOf
    <3> QED BY <1>2, <3>1, GotoFields
  <2>5. CASE Passthrough(s)
    <3>1. PICK pc \in {"ran", "unstarted"}, status \in {0, 1} :
            shim' = [shim EXCEPT ![s].pc = pc, ![s].exit = status]
      BY <2>5 DEF Passthrough
    <3>2. shim[s].pc = "npm" BY <2>5 DEF Passthrough
    <3> QED BY <1>2, <3>1, <3>2, RanFields
  <2> QED BY <2>1, <2>2, <2>3, <2>4, <2>5
<1>4. PICK pc \in {"npm", "bypass", "next", "done", "logging", "ran", "unstarted"}, exit \in {-1, 0, 1} :
        /\ Becomes(s, pc, shim[s].i, shim[s].blocked, exit)
        /\ pc = "next" => shim[s].pc = "start" /\ Screened(s)
        /\ pc \in {"bypass", "logging"} => ~Screened(s)
        /\ pc \in {"npm", "ran", "unstarted"} /\ Screened(s) =>
             Packages(s) = {} \/ shim[s].pc = "npm"
        /\ pc \notin {"ran", "unstarted", "done"} => exit = -1
        /\ exit = 0 => pc \in {"ran", "unstarted"}
  BY <1>3
<1>5. /\ shim'[s].pc = pc /\ shim'[s].cmd = shim[s].cmd /\ shim'[s].i = shim[s].i
      /\ shim'[s].blocked = shim[s].blocked /\ shim'[s].exit = exit
  BY <1>4 DEF Becomes
<1>6. ShimTyped'
  <2>1. shim' \in [Shims -> ShimsOf] BY <1>2, <1>4, BecomesTyped DEF States
  <2> QED BY <1>1, <2>1 DEF ShimTyped, ShimsOf, States
<1>7. AskingOf(s)'
  BY <1>1, <1>2, <1>4, <1>5, SameCommand DEF AskingOf, ShimInv
<1>8. StatusOf(s)' BY <1>1, <1>2, <1>4, <1>5 DEF StatusOf, ShimInv
<1>9. ScreeningOf(s)'
  <2>1. /\ shim'[s].pc = "start" => shim'[s].i = 0
        /\ shim'[s].pc \in {"bypass", "logging"} => ~Screened(s)'
        /\ shim'[s].pc \in {"next", "asked", "prompt"} => Screened(s)'
        /\ shim'[s].pc # "prompt"
    BY <1>1, <1>4, <1>5, SameCommand
  <2>2. ASSUME NEW k \in Packages(s)
        PROVE  PackageOf(s, k)'
    <3>2. PackageOf(s, k) BY DEF ShimInv, ScreeningOf
    <3>3. pc = "next" => shim[s].i = 0 BY <1>4 DEF ShimInv, ScreeningOf
    <3>4. ~ShouldPrompt(s, answers[s][k]) BY <1>2, <3>2 DEF PackageOf
    <3>5. pc \in {"npm", "ran", "unstarted"} /\ Screened(s) => Judged(s, k) BY <1>4, <3>2 DEF PackageOf
    <3>6. k \in Nat /\ k > 0 BY PackagesTyped
    <3>7. /\ ~ShouldPrompt(s, answers[s][k])' /\ (Judged(s, k)' <=> Judged(s, k))
          /\ Screened(s)' <=> Screened(s)
      BY <1>1, <1>5, <3>4, SameCommand DEF Judged, ShouldPrompt
    <3>8. answers'[s][k] = "BLOCK" => shim'[s].blocked
      BY <1>1, <1>5, <3>2, Zenon DEF PackageOf
    <3>9. shim'[s].pc # "asked" /\ shim'[s].pc # "prompt" BY <1>5
    <3>10. shim'[s].pc = "next" => ~(k <= shim'[s].i) BY <1>5, <3>3, <3>6
    <3>11. shim'[s].pc \in {"npm", "ran", "unstarted"} /\ Screened(s)' => Judged(s, k)'
      BY <1>5, <3>5, <3>7
    <3> QED BY <3>7, <3>8, <3>9, <3>10, <3>11 DEF PackageOf
  <2> QED BY <1>1, <1>5, <2>1, <2>2, SameCommand DEF ScreeningOf
<1> QED BY <1>4, <1>5, <1>6, <1>7, <1>8, <1>9 DEF ShimInv, Becomes

LEMMA AskSafe ==
  ASSUME ShimTyped, NEW s \in Shims, ShimInv(s), Ask(s)
  PROVE  ShimTyped' /\ ShimInv(s)' /\ shim'[s].cmd = shim[s].cmd
         /\ \A t \in Shims \ {s} : shim'[t] = shim[t] /\ request'[t] = request[t]
<1>1. shim[s].pc = "next" /\ UNCHANGED <<answers, config, token, offline>> BY DEF Ask
<1>2. /\ shim[s].i \in 0 .. MaxArgs /\ shim[s].blocked \in BOOLEAN /\ shim[s].exit = -1
      /\ Packages(s) \subseteq Turns /\ Later(s) \subseteq Packages(s) /\ Turns \subseteq Nat
      /\ MaxArgs \in Nat
  BY <1>1, PackagesTyped, ShimAssumption DEF ShimTyped, ShimInv, StatusOf, Turns
<1>0. answers' = answers BY <1>1
<1>3. \A k \in Packages(s) : /\ k <= shim[s].i => answers[s][k] # "none"
                             /\ answers[s][k] = "BLOCK" => shim[s].blocked
                             /\ ~ShouldPrompt(s, answers[s][k])
  BY <1>1 DEF ShimInv, ScreeningOf, PackageOf
<1>4. CASE \E k \in Later(s) : /\ \A j \in Later(s) : k <= j
                               /\ shim' = [shim EXCEPT ![s].pc = "asked", ![s].i = k]
                               /\ request' = [request EXCEPT ![s].at = "sent"]
  <2>1. PICK k \in Later(s) : /\ \A j \in Later(s) : k <= j
                              /\ shim' = [shim EXCEPT ![s].pc = "asked", ![s].i = k]
                              /\ request' = [request EXCEPT ![s].at = "sent"]
    BY <1>4
  <2>2. Becomes(s, "asked", k, shim[s].blocked, shim[s].exit) BY <2>1, AskFields
  <2>3. /\ shim'[s].pc = "asked" /\ shim'[s].cmd = shim[s].cmd /\ shim'[s].i = k
        /\ shim'[s].blocked = shim[s].blocked /\ shim'[s].exit = -1
    BY <1>2, <2>2 DEF Becomes
  <2>4. /\ request' \in [Shims -> RequestsOf] /\ request'[s].at = "sent"
        /\ \A t \in Shims \ {s} : request'[t] = request[t]
    BY <2>1 DEF ShimTyped, RequestsOf
  <2>5. ShimTyped'
    <3>1. shim' \in [Shims -> ShimsOf]
      BY <1>2, <2>2, BecomesTyped DEF States, Turns
    <3> QED BY <1>1, <2>4, <3>1 DEF ShimTyped, ShimsOf, States, RequestsOf
  <2>6. AskingOf(s)' BY <1>1, <1>2, <2>3, <2>4, SameCommand DEF AskingOf
  <2>7. StatusOf(s)' BY <1>0, <1>1, <2>3 DEF StatusOf, ShimInv
  <2>8. ASSUME NEW j \in Packages(s)
        PROVE  PackageOf(s, j)'
    <3>1. j < k => answers'[s][j] # "none"
      <4>1. j < k => j \notin Later(s) BY <1>2, <2>1
      <4>2. j \notin Later(s) => j <= shim[s].i BY PackagesTyped
      <4> QED BY <1>1, <1>3, <4>1, <4>2
    <3>2. answers'[s][j] = "BLOCK" => shim'[s].blocked BY <1>0, <1>3, <2>3, Zenon
    <3>3. ~ShouldPrompt(s, answers[s][j])' BY <1>1, <1>3, <2>3 DEF ShouldPrompt
    <3> QED BY <2>3, <3>1, <3>2, <3>3 DEF PackageOf
  <2>9. ScreeningOf(s)' BY <1>1, <2>3, <2>8, SameCommand DEF ScreeningOf, ShimInv
  <2> QED BY <2>2, <2>3, <2>4, <2>5, <2>6, <2>7, <2>9 DEF ShimInv, Becomes
<1>5. CASE Later(s) = {} /\ shim' = AfterLoop(s) /\ UNCHANGED request
  <2>1. /\ shim[s].blocked => Becomes(s, "done", shim[s].i, shim[s].blocked, 1)
        /\ ~shim[s].blocked => Becomes(s, "npm", shim[s].i, shim[s].blocked, shim[s].exit)
    BY <1>5, ExitFields, GotoFields DEF AfterLoop
  <2>2. PICK pc \in {"npm", "done"}, exit \in {-1, 1} :
          /\ Becomes(s, pc, shim[s].i, shim[s].blocked, exit)
          /\ pc = "npm" => ~shim[s].blocked /\ exit = -1
    <3>1. CASE shim[s].blocked BY <2>1, <3>1
    <3>2. CASE ~shim[s].blocked BY <1>2, <2>1, <3>2
    <3> QED BY <3>1, <3>2
  <2>3. /\ shim'[s].pc = pc /\ shim'[s].cmd = shim[s].cmd /\ shim'[s].i = shim[s].i
        /\ shim'[s].blocked = shim[s].blocked /\ shim'[s].exit = exit
    BY <2>2 DEF Becomes
  <2>4. ShimTyped'
    <3>1. shim' \in [Shims -> ShimsOf] BY <1>2, <2>2, BecomesTyped DEF States
    <3> QED BY <1>1, <1>5, <3>1 DEF ShimTyped, ShimsOf, States
  <2>5. AskingOf(s)' BY <1>1, <1>5, <2>3 DEF AskingOf, ShimInv
  <2>6. StatusOf(s)' BY <1>0, <1>1, <2>2, <2>3 DEF StatusOf, ShimInv
  <2>7. ASSUME NEW j \in Packages(s)
        PROVE  PackageOf(s, j)'
    <3>1. answers'[s][j] # "none"
      <4>1. j <= shim[s].i BY <1>5, PackagesTyped
      <4> QED BY <1>1, <1>3, <4>1
    <3>2. answers'[s][j] = "BLOCK" => shim'[s].blocked BY <1>0, <1>3, <2>3, Zenon
    <3>3. ~ShouldPrompt(s, answers[s][j])' BY <1>1, <1>3, <2>3 DEF ShouldPrompt
    <3>4. pc = "npm" => Judged(s, j)'
      <4>1. pc = "npm" => answers'[s][j] # "BLOCK" BY <1>0, <1>3, <2>2, Zenon
      <4> QED BY <3>1, <3>3, <4>1 DEF Judged
    <3> QED BY <2>2, <2>3, <3>1, <3>2, <3>3, <3>4 DEF PackageOf
  <2>8. ScreeningOf(s)' BY <1>1, <2>3, <2>7, SameCommand DEF ScreeningOf
  <2> QED BY <1>5, <2>2, <2>3, <2>4, <2>5, <2>6, <2>8 DEF ShimInv, Becomes
<1> QED BY <1>4, <1>5 DEF Ask

\* The package in turn has its answer, from wherever it comes.
Answering(s, what, pc, blocked, exit) ==
  /\ shim[s].pc \in {"asked", "prompt"}
  /\ what \in Answers \ {"none"} /\ Note(s, what)
  /\ pc \in {"next", "prompt", "done"} /\ blocked \in BOOLEAN /\ exit \in {-1, 0}
  /\ Becomes(s, pc, shim[s].i, blocked, exit)
  /\ shim[s].blocked => blocked
  /\ what = "BLOCK" => blocked
  /\ ShouldPrompt(s, what) => pc = "prompt"
  /\ pc = "prompt" => what \in {"WARN", "WARN!"}
  /\ pc = "done" <=> what \in {"eof", "cut"}
  /\ pc # "done" => exit = -1
  /\ request'[s] = Idle
  /\ \A t \in Shims \ {s} : request'[t] = request[t]
  /\ request' \in [Shims -> RequestsOf]
  /\ UNCHANGED <<config, token, offline>>

LEMMA AnswerSafe ==
  ASSUME ShimTyped, NEW s \in Shims, ShimInv(s),
         NEW what, NEW pc, NEW blocked, NEW exit, Answering(s, what, pc, blocked, exit)
  PROVE  ShimTyped' /\ ShimInv(s)' /\ shim'[s].cmd = shim[s].cmd
         /\ \A t \in Shims \ {s} : /\ shim'[t] = shim[t] /\ request'[t] = request[t]
                                   /\ answers'[t] = answers[t]
<1> USE DEF Answering
<1>1. /\ shim'[s].pc = pc /\ shim'[s].cmd = shim[s].cmd /\ shim'[s].i = shim[s].i
      /\ shim'[s].blocked = blocked /\ shim'[s].exit = exit
  BY DEF Becomes
<1>2. /\ answers' \in [Shims -> [Turns -> Answers]]
      /\ \A t \in Shims \ {s} : answers'[t] = answers[t]
      /\ \A k \in Turns : answers'[s][k] = IF k = shim[s].i THEN what ELSE answers[s][k]
  BY NoteFields
<1>3. /\ shim[s].i \in 0 .. MaxArgs /\ shim[s].i \in Packages(s)
      /\ Packages(s) \subseteq Turns /\ Turns \subseteq Nat /\ shim[s].i # 0
  BY PackagesTyped, ShimAssumption DEF ShimTyped, ShimInv, AskingOf, Turns
<1>4. ShimTyped'
  <2>1. shim' \in [Shims -> ShimsOf] BY <1>3, BecomesTyped DEF States
  <2> QED BY <1>2, <2>1 DEF ShimTyped, ShimsOf, States, RequestsOf
<1>5. AskingOf(s)' BY <1>1, <1>3, SameCommand DEF AskingOf, Idle
<1>6. StatusOf(s)'
  <2>1. \A k \in Turns : answers[s][k] \notin {"eof", "cut"} BY DEF ShimInv, StatusOf
  <2>2. pc = "done" => Stranded(s)' BY <1>1, <1>2, <1>3 DEF Stranded
  <2> QED BY <1>1, <1>2, <2>1, <2>2 DEF StatusOf
<1>7. ASSUME NEW k \in Packages(s)
      PROVE  PackageOf(s, k)'
  <2>1. PackageOf(s, k) BY DEF ShimInv, ScreeningOf
  <2>2. k <= shim'[s].i => answers'[s][k] # "none"
    <3>1. CASE k = shim[s].i BY <1>2, <1>3, <3>1
    <3>2. CASE k # shim[s].i
      <4>1. k <= shim[s].i => answers[s][k] # "none"
        BY <2>1, <3>2, PackagesTyped DEF PackageOf
      <4> QED BY <1>1, <1>2, <1>3, <3>2, <4>1
    <3> QED BY <3>1, <3>2
  <2>3. answers'[s][k] = "BLOCK" => shim'[s].blocked
    <3>1. answers'[s][k] = "BLOCK" => what = "BLOCK" \/ answers[s][k] = "BLOCK" BY <1>2, <1>3
    <3>2. answers[s][k] = "BLOCK" => shim[s].blocked BY <2>1 DEF PackageOf
    <3> QED BY <1>1, <3>1, <3>2, Zenon
  <2>4. ShouldPrompt(s, answers[s][k])' => pc = "prompt" /\ k = shim'[s].i
    <3>1. CASE k = shim[s].i
      <4>1. answers'[s][k] = what BY <1>2, <1>3, <3>1
      <4> QED BY <1>1, <3>1, <4>1 DEF ShouldPrompt
    <3>2. CASE k # shim[s].i
      <4>1. answers'[s][k] = answers[s][k] BY <1>2, <1>3, <3>2
      <4>2. ~ShouldPrompt(s, answers[s][k]) BY <2>1, <3>2 DEF PackageOf
      <4> QED BY <1>1, <4>1, <4>2 DEF ShouldPrompt
    <3> QED BY <3>1, <3>2
  <2>5. shim'[s].pc \in {"next", "prompt", "done"} BY <1>1
  <2>6. ShouldPrompt(s, answers[s][k])' => shim'[s].pc \in {"prompt", "done"} /\ k = shim'[s].i
    BY <1>1, <2>4
  <2> HIDE DEF ShouldPrompt
  <2> QED BY <2>2, <2>3, <2>5, <2>6 DEF PackageOf
<1>8. ScreeningOf(s)'
  <2>1. pc = "prompt" => answers'[s][shim'[s].i] \in {"WARN", "WARN!"} BY <1>1, <1>2, <1>3
  <2> QED BY <1>1, <1>7, <2>1, SameCommand DEF ScreeningOf, ShimInv
<1> QED BY <1>1, <1>2, <1>4, <1>5, <1>6, <1>8 DEF ShimInv, Becomes

LEMMA IdleFields ==
  ASSUME ShimTyped, NEW s \in Shims, request' = [request EXCEPT ![s] = Idle]
  PROVE  /\ request'[s] = Idle /\ \A t \in Shims \ {s} : request'[t] = request[t]
         /\ request' \in [Shims -> RequestsOf]
BY DEF ShimTyped, RequestsOf, Idle

LEMMA ShimStepSafe ==
  ASSUME ShimTyped, NEW s \in Shims, ShimInv(s), ShimRuns(s) \/ Prompt(s)
  PROVE  /\ ShimTyped' /\ ShimInv(s)' /\ shim'[s].cmd = shim[s].cmd /\ config' = config
         /\ \A t \in Shims \ {s} : /\ shim'[t] = shim[t] /\ request'[t] = request[t]
                                   /\ answers'[t] = answers[t]
<1>0. shim[s].blocked \in BOOLEAN BY DEF ShimTyped
<1>1. CASE Start(s) \/ BypassRefused(s) \/ BypassOpens(s) \/ BypassLogged(s) \/ Passthrough(s)
  <2>1. UNCHANGED <<request, answers, config>>
    BY <1>1 DEF Start, BypassRefused, BypassOpens, BypassLogged, Passthrough
  <2> QED BY <1>1, <2>1, QuietSteps
<1>2. CASE Ask(s)
  <2>1. UNCHANGED <<answers, config>> BY <1>2 DEF Ask
  <2> QED BY <1>2, <2>1, AskSafe
<1>3. CASE Unanswered(s)
  <2>1. /\ shim[s].pc = "asked" /\ shim' = Goto(s, "next")
        /\ request' = [request EXCEPT ![s] = Idle] /\ UNCHANGED <<config, token, offline>>
    BY <1>3 DEF Unanswered
  <2>2. PICK what \in {"cached", "unscreened"} : Note(s, what) BY <1>3 DEF Unanswered
  <2>3. /\ what \in Answers \ {"none"} /\ what # "BLOCK" /\ ~ShouldPrompt(s, what)
    BY DEF Answers, ShouldPrompt
  <2>4. shim[s].exit = -1 BY <2>1 DEF ShimInv, StatusOf
  <2>5. Becomes(s, "next", shim[s].i, shim[s].blocked, -1) BY <2>1, <2>4, GotoFields
  <2>6. Answering(s, what, "next", shim[s].blocked, -1)
    BY <1>0, <2>1, <2>2, <2>3, <2>5, IdleFields DEF Answering
  <2> QED BY <2>1, <2>6, AnswerSafe
<1>6. CASE CutOff(s)
  <2>1. /\ shim[s].pc = "asked" /\ shim' = Exit(s, 0) /\ Note(s, "cut")
        /\ request' = [request EXCEPT ![s] = Idle] /\ UNCHANGED <<config, token, offline>>
    BY <1>6 DEF CutOff
  <2>2. Becomes(s, "done", shim[s].i, shim[s].blocked, 0) BY <2>1, ExitFields
  <2>3. "cut" \in Answers \ {"none"} /\ ~ShouldPrompt(s, "cut") BY DEF Answers, ShouldPrompt
  <2>4. Answering(s, "cut", "done", shim[s].blocked, 0)
    BY <1>0, <2>1, <2>2, <2>3, IdleFields DEF Answering
  <2> QED BY <2>1, <2>4, AnswerSafe
<1>4. CASE Receive(s)
  <2>1. PICK reply : reply = request[s].reply OBVIOUS
  <2>2. /\ shim[s].pc = "asked" /\ request[s].at = "replied" /\ Note(s, reply)
        /\ request' = [request EXCEPT ![s] = Idle] /\ UNCHANGED <<config, token, offline>>
        /\ \/ ShouldPrompt(s, reply) /\ shim' = Goto(s, "prompt")
           \/ reply = "BLOCK" /\ shim' = [Goto(s, "next") EXCEPT ![s].blocked = TRUE]
           \/ reply # "BLOCK" /\ ~ShouldPrompt(s, reply) /\ shim' = Goto(s, "next")
    BY <1>4, <2>1 DEF Receive
  <2>3. reply \in Answers \ {"none"} /\ reply \notin {"eof", "cut"}
    <3>1. reply # "none" BY <2>1, <2>2 DEF ShimInv, AskingOf
    <3>2. reply \in Verdicts \cup {"none", "unauthorized"} BY <2>1 DEF ShimTyped
    <3> QED BY <3>1, <3>2 DEF Answers, Verdicts
  <2>4. shim[s].exit = -1 BY <2>2 DEF ShimInv, StatusOf
  <2>5. ShouldPrompt(s, reply) => reply \in {"WARN", "WARN!"} BY DEF ShouldPrompt
  <2>6. /\ request'[s] = Idle /\ \A t \in Shims \ {s} : request'[t] = request[t]
        /\ request' \in [Shims -> RequestsOf]
    BY <2>2, IdleFields
  <2>7. \E pc \in {"next", "prompt"}, blocked \in BOOLEAN : Answering(s, reply, pc, blocked, -1)
    <3>1. CASE ShouldPrompt(s, reply) /\ shim' = Goto(s, "prompt")
      <4>1. Becomes(s, "prompt", shim[s].i, shim[s].blocked, -1) BY <2>4, <3>1, GotoFields
      <4>2. Answering(s, reply, "prompt", shim[s].blocked, -1)
        BY <1>0, <2>2, <2>3, <2>5, <2>6, <3>1, <4>1 DEF Answering
      <4> QED BY <1>0, <4>2
    <3>2. CASE reply = "BLOCK" /\ shim' = [Goto(s, "next") EXCEPT ![s].blocked = TRUE]
      <4>1. Becomes(s, "next", shim[s].i, TRUE, -1) BY <2>4, <3>2, BlockFields
      <4>2. Answering(s, reply, "next", TRUE, -1)
        BY <2>2, <2>3, <2>5, <2>6, <3>2, <4>1 DEF Answering
      <4> QED BY <4>2
    <3>3. CASE reply # "BLOCK" /\ ~ShouldPrompt(s, reply) /\ shim' = Goto(s, "next")
      <4>1. Becomes(s, "next", shim[s].i, shim[s].blocked, -1) BY <2>4, <3>3, GotoFields
      <4>2. Answering(s, reply, "next", shim[s].blocked, -1)
        BY <1>0, <2>2, <2>3, <2>6, <3>3, <4>1 DEF Answering
      <4> QED BY <1>0, <4>2
    <3> QED BY <2>2, <3>1, <3>2, <3>3
  <2> QED BY <2>2, <2>7, AnswerSafe
<1>5. CASE Prompt(s)
  <2>1. /\ shim[s].pc = "prompt" /\ UNCHANGED <<request, config, token, offline>>
    BY <1>5 DEF Prompt
  <2>2. /\ request'[s] = Idle /\ \A t \in Shims \ {s} : request'[t] = request[t]
        /\ request' \in [Shims -> RequestsOf] /\ shim[s].exit = -1
    BY <2>1 DEF ShimInv, AskingOf, StatusOf, ShimTyped, RequestsOf
  <2>3. CASE shim' = Goto(s, "next") /\ Note(s, "confirmed")
    <3>1. Becomes(s, "next", shim[s].i, shim[s].blocked, -1) BY <2>2, <2>3, GotoFields
    <3>2. "confirmed" \in Answers \ {"none"} /\ ~ShouldPrompt(s, "confirmed")
      BY DEF Answers, ShouldPrompt
    <3>3. Answering(s, "confirmed", "next", shim[s].blocked, -1)
      BY <1>0, <2>1, <2>2, <2>3, <3>1, <3>2 DEF Answering
    <3> QED BY <2>1, <3>3, AnswerSafe
  <2>4. CASE shim' = Exit(s, 0) /\ Note(s, "eof")
    <3>1. Becomes(s, "done", shim[s].i, shim[s].blocked, 0) BY <2>2, <2>4, ExitFields
    <3>2. "eof" \in Answers \ {"none"} /\ ~ShouldPrompt(s, "eof")
      BY DEF Answers, ShouldPrompt
    <3>3. Answering(s, "eof", "done", shim[s].blocked, 0)
      BY <1>0, <2>1, <2>2, <2>4, <3>1, <3>2 DEF Answering
    <3> QED BY <2>1, <3>3, AnswerSafe
  <2>5. CASE shim' = Exit(s, 1) /\ UNCHANGED answers
    <3>1. Becomes(s, "done", shim[s].i, shim[s].blocked, 1) BY <2>2, <2>5, ExitFields
    <3>2. /\ shim'[s].pc = "done" /\ shim'[s].cmd = shim[s].cmd /\ shim'[s].i = shim[s].i
          /\ shim'[s].blocked = shim[s].blocked /\ shim'[s].exit = 1
          /\ \A t \in Shims \ {s} : shim'[t] = shim[t]
      BY <3>1 DEF Becomes
    <3>3. ShimTyped'
      <4>1. shim' \in [Shims -> ShimsOf]
        BY <1>0, <3>1, BecomesTyped DEF States, ShimTyped
      <4> QED BY <2>1, <2>5, <4>1 DEF ShimTyped, ShimsOf, States
    <3>4. AskingOf(s)' BY <2>1, <2>2, <3>2 DEF AskingOf, Idle
    <3>5. StatusOf(s)' BY <3>2 DEF StatusOf
    <3>6. ASSUME NEW k \in Packages(s)
          PROVE  PackageOf(s, k)'
      <4>0. answers' = answers BY <2>5
      <4>1. PackageOf(s, k) BY DEF ShimInv, ScreeningOf
      <4>2. answers'[s][k] = "BLOCK" => shim'[s].blocked
        BY <4>0, <3>2, <4>1, Zenon DEF PackageOf
      <4>3. ShouldPrompt(s, answers[s][k])' => k = shim'[s].i
        BY <2>1, <4>0, <3>2, <4>1 DEF PackageOf, ShouldPrompt
      <4> HIDE DEF ShouldPrompt
      <4> QED BY <3>2, <4>2, <4>3 DEF PackageOf
    <3>7. ScreeningOf(s)' BY <2>1, <3>2, <3>6, SameCommand DEF ScreeningOf
    <3> QED BY <2>1, <2>2, <2>5, <3>2, <3>3, <3>4, <3>5, <3>7 DEF ShimInv
  <2> QED BY <1>5, <2>3, <2>4, <2>5 DEF Prompt
<1> QED BY <1>1, <1>2, <1>3, <1>4, <1>5, <1>6 DEF ShimRuns

---------------------------------------------------------------------------
(* the daemon's side                                                       *)

\* A step that leaves the shims alone, but for their requests.
LEMMA RequestsOnly ==
  ASSUME \A s \in Shims : ShimInv(s), UNCHANGED <<shim, answers, config>>,
         \A s \in Shims : /\ request[s] = Idle => request'[s] = Idle
                          /\ request[s] # Idle => shim[s].pc = "asked"
                          /\ request'[s].at = "replied" => request'[s].reply # "none"
  PROVE  \A s \in Shims : ShimInv(s)' /\ Packages(s)' = Packages(s)
<1> TAKE s \in Shims
<1>1. ShimInv(s) OBVIOUS
<1>2. Packages(s)' = Packages(s) /\ (Screened(s)' <=> Screened(s)) BY DEF Packages, Screened
<1>3. \A x : ShouldPrompt(s, x)' <=> ShouldPrompt(s, x) BY DEF ShouldPrompt
<1>4. AskingOf(s)' BY <1>1, <1>2 DEF AskingOf, ShimInv
<1>5. ScreeningOf(s)'
  BY <1>1, <1>2, <1>3 DEF ScreeningOf, PackageOf, Judged, ShouldPrompt, Screened, ShimInv
<1>6. StatusOf(s)' BY <1>1 DEF StatusOf, Stranded, ShimInv
<1> QED BY <1>2, <1>4, <1>5, <1>6 DEF ShimInv

LEMMA TakeSafe ==
  ASSUME ShimTyped, DaemonTyped, ShimsInv, NEW s \in Shims, Take(s)
  PROVE  ShimTyped' /\ DaemonTyped' /\ ShimsInv'
<1> DEFINE i == shim[s].i
<1>1. /\ UNCHANGED <<shim, answers, config, token, offline, up, overrides>>
      /\ request[s].at = "sent" /\ request[s] # Idle
  BY DEF Take, Idle
<1>2. shim[s].pc = "asked" /\ i \in Packages(s)
  BY <1>1 DEF ShimsInv, ShimInv, AskingOf
<1>3. i \in Turns /\ <<s, i>> \in Requests BY <1>2, PackagesTyped DEF Requests
<1>4. /\ \A t \in Shims \ {s} : request'[t] = request[t]
      /\ request' \in [Shims -> RequestsOf]
      /\ request'[s].at = "replied" => request'[s].reply = "unauthorized"
  <2>1. CASE request' = [request EXCEPT ![s].at = "taken"]
    BY <2>1 DEF ShimTyped, RequestsOf
  <2>2. CASE request' = [request EXCEPT ![s] = [at |-> "replied", reply |-> "unauthorized"]]
    BY <2>2 DEF ShimTyped, RequestsOf
  <2> QED BY <2>1, <2>2 DEF Take
<1>5. \A t \in Shims : ShimInv(t)' /\ Packages(t)' = Packages(t)
  <2>1. \A t \in Shims : /\ request[t] = Idle => request'[t] = Idle
                         /\ request[t] # Idle => shim[t].pc = "asked"
                         /\ request'[t].at = "replied" => request'[t].reply # "none"
    BY <1>1, <1>2, <1>4 DEF ShimsInv, ShimInv, AskingOf
  <2> QED BY <1>1, <2>1, RequestsOnly DEF ShimsInv
<1>6. /\ handler' \in [Requests -> Verdicts \cup {"none", "deciding"}]
      /\ \A r \in Requests : handler'[r] # "none" => handler[r] # "none" \/ r = <<s, i>>
  <2>1. CASE handler' = [handler EXCEPT ![<<s, i>>] = "deciding"]
    BY <1>3, <2>1 DEF DaemonTyped
  <2>2. CASE handler' = handler BY <2>2 DEF DaemonTyped
  <2> QED BY <2>1, <2>2 DEF Take
<1>7. Working'
  <2> SUFFICES ASSUME NEW t \in Shims, NEW j \in Turns, handler'[<<t, j>>] # "none"
               PROVE  j \in Packages(t)
    BY <1>5 DEF Working
  <2>1. <<t, j>> \in Requests BY DEF Requests
  <2>2. handler[<<t, j>>] # "none" \/ <<t, j>> = <<s, i>> BY <1>6, <2>1
  <2>3. handler[<<t, j>>] # "none" => j \in Packages(t) BY DEF ShimsInv, Working
  <2>4. <<t, j>> = <<s, i>> => j \in Packages(t) BY <1>2
  <2> QED BY <2>2, <2>3, <2>4
<1> QED BY <1>1, <1>4, <1>5, <1>6, <1>7 DEF ShimTyped, DaemonTyped, ShimsInv, RequestsOf

LEMMA DecideSafe ==
  ASSUME ShimTyped, DaemonTyped, ShimsInv, NEW s \in Shims, NEW i \in Turns, Decide(s, i)
  PROVE  ShimTyped' /\ DaemonTyped' /\ ShimsInv'
<1>1. UNCHANGED <<shim, request, answers, config, token, up, overrides>> BY DEF Decide
<1>2. <<s, i>> \in Requests /\ handler[<<s, i>>] # "none" BY DEF Decide, Requests
<1>3. i \in Packages(s) BY <1>2 DEF ShimsInv, Working
<1>4. PICK verdict \in Verdicts :
        /\ handler' = [handler EXCEPT ![<<s, i>>] = verdict]
        /\ offline' = IF verdict = "ALLOW" THEN offline \cup {shim[s].cmd.args[i]} ELSE offline
  BY DEF Decide
<1>5. offline' \subseteq Names BY <1>3, <1>4, PackagesTyped DEF ShimTyped
<1>6. \A t \in Shims : ShimInv(t)' /\ Packages(t)' = Packages(t)
  <2>1. \A t \in Shims : /\ request[t] # Idle => shim[t].pc = "asked"
                         /\ request[t].at = "replied" => request[t].reply # "none"
    BY DEF ShimsInv, ShimInv, AskingOf
  <2> QED BY <1>1, <2>1, RequestsOnly DEF ShimsInv
<1>7. /\ handler' \in [Requests -> Verdicts \cup {"none", "deciding"}]
      /\ \A r \in Requests : handler'[r] # "none" => handler[r] # "none"
  BY <1>2, <1>4 DEF DaemonTyped
<1>8. Working' BY <1>6, <1>7 DEF Working, ShimsInv, Requests
<1> QED BY <1>1, <1>5, <1>6, <1>7, <1>8 DEF ShimTyped, DaemonTyped, ShimsInv

LEMMA RespondSafe ==
  ASSUME ShimTyped, DaemonTyped, ShimsInv, NEW s \in Shims, NEW i \in Turns, Respond(s, i)
  PROVE  ShimTyped' /\ DaemonTyped' /\ ShimsInv'
<1>1. /\ UNCHANGED <<shim, answers, config, token, offline, up, overrides>>
      /\ <<s, i>> \in Requests /\ handler[<<s, i>>] \in Verdicts
      /\ handler' = [handler EXCEPT ![<<s, i>>] = "none"]
  BY DEF Respond, Requests
<1>2. /\ request' \in [Shims -> RequestsOf]
      /\ \A t \in Shims \ {s} : request'[t] = request[t]
      /\ \/ request'[s] = request[s]
         \/ request[s].at = "taken" /\ request'[s].reply \in Verdicts
  <2>1. CASE request' = request BY <2>1 DEF ShimTyped, RequestsOf
  <2>2. CASE /\ request[s].at = "taken"
             /\ request' = [request EXCEPT ![s] = [at |-> "replied", reply |-> handler[<<s, i>>]]]
    BY <1>1, <2>2 DEF ShimTyped, RequestsOf
  <2> QED BY <2>1, <2>2 DEF Respond
<1>3. \A t \in Shims : ShimInv(t)' /\ Packages(t)' = Packages(t)
  <2>1. \A t \in Shims : /\ request[t] # Idle => shim[t].pc = "asked"
                         /\ request[t].at = "replied" => request[t].reply # "none"
    BY DEF ShimsInv, ShimInv, AskingOf
  <2>2. request[s].at = "taken" => request[s] # Idle BY DEF Idle
  <2>3. "none" \notin Verdicts BY DEF Verdicts
  <2> QED BY <1>1, <1>2, <2>1, <2>2, <2>3, RequestsOnly DEF ShimsInv
<1>4. /\ handler' \in [Requests -> Verdicts \cup {"none", "deciding"}]
      /\ \A r \in Requests : handler'[r] # "none" => handler[r] # "none"
  BY <1>1 DEF DaemonTyped
<1>5. Working' BY <1>3, <1>4 DEF Working, ShimsInv, Requests
<1> QED BY <1>1, <1>2, <1>3, <1>4, <1>5 DEF ShimTyped, DaemonTyped, ShimsInv, RequestsOf

LEMMA CrashSafe ==
  ASSUME ShimTyped, DaemonTyped, ShimsInv, Crash \/ Restart
  PROVE  ShimTyped' /\ DaemonTyped' /\ ShimsInv'
<1>1. /\ UNCHANGED <<shim, answers, config, token, offline, overrides>>
      /\ up' \in BOOLEAN /\ \E cut : request' = Dropped(cut)
      /\ handler' = handler \/ handler' = [r \in Requests |-> "none"]
  BY DEF Crash, Restart
<1>2. /\ request' \in [Shims -> RequestsOf]
      /\ \A t \in Shims : \/ request'[t] = request[t]
                          \/ /\ request[t].at \in {"sent", "taken", "replied"}
                             /\ request'[t].at \in {"lost", "cut"}
  <2>1. PICK cut : request' = Dropped(cut) BY <1>1
  <2> QED BY <2>1 DEF Dropped, ShimTyped, RequestsOf
<1>3. \A t \in Shims : ShimInv(t)' /\ Packages(t)' = Packages(t)
  <2>1. \A t \in Shims : /\ request[t] # Idle => shim[t].pc = "asked"
                         /\ request[t].at = "replied" => request[t].reply # "none"
    BY DEF ShimsInv, ShimInv, AskingOf
  <2>2. \A t \in Shims : request[t].at \in {"sent", "taken", "replied"} => request[t] # Idle
    BY DEF Idle
  <2> QED BY <1>1, <1>2, <2>1, <2>2, RequestsOnly DEF ShimsInv
<1>4. /\ handler' \in [Requests -> Verdicts \cup {"none", "deciding"}]
      /\ \A r \in Requests : handler'[r] # "none" => handler[r] # "none"
  BY <1>1 DEF DaemonTyped
<1>5. Working' BY <1>3, <1>4 DEF Working, ShimsInv, Requests
<1> QED BY <1>1, <1>2, <1>3, <1>4, <1>5 DEF ShimTyped, DaemonTyped, ShimsInv, RequestsOf

\* Each shim in turn, the daemon, the log: the invariant of the shims under any step.
LEMMA NextShims ==
  ASSUME LogTyped, ShimTyped, DaemonTyped, ShimsInv, [Next]_vars
  PROVE  ShimTyped' /\ DaemonTyped' /\ ShimsInv'
<1>1. CASE \E s \in Shims : (ShimRuns(s) \/ Prompt(s)) /\ UNCHANGED <<up, handler, overrides>>
  <2>1. PICK s \in Shims : (ShimRuns(s) \/ Prompt(s)) /\ UNCHANGED <<up, handler, overrides>>
    BY <1>1
  <2>2. ShimInv(s) BY DEF ShimsInv
  <2>3. /\ ShimTyped' /\ ShimInv(s)' /\ shim'[s].cmd = shim[s].cmd /\ config' = config
        /\ \A t \in Shims \ {s} : /\ shim'[t] = shim[t] /\ request'[t] = request[t]
                                  /\ answers'[t] = answers[t]
    BY <2>1, <2>2, ShimStepSafe
  <2>4. \A t \in Shims \ {s} : ShimInv(t)' /\ Packages(t)' = Packages(t)
    BY <2>3, OthersSafe DEF ShimsInv
  <2>5. Packages(s)' = Packages(s) BY <2>3 DEF Packages
  <2>6. Working' BY <2>1, <2>4, <2>5 DEF Working, ShimsInv
  <2>7. DaemonTyped' BY <2>1 DEF DaemonTyped
  <2> QED BY <2>3, <2>4, <2>6, <2>7 DEF ShimsInv
<1>2. CASE UNCHANGED <<shimVars, handler>> /\ DaemonTyped'
  <2> USE <1>2 DEF shimVars
  <2>1. \A t \in Shims : ShimInv(t)' /\ Packages(t)' = Packages(t)
    BY OthersSafe DEF ShimsInv
  <2>2. Working' BY <2>1 DEF Working, ShimsInv
  <2> QED BY <2>1, <2>2 DEF ShimsInv, ShimTyped
<1>3. CASE \E s \in Shims : Take(s) \/ \E i \in Turns : Decide(s, i) \/ Respond(s, i)
  BY <1>3, TakeSafe, DecideSafe, RespondSafe
<1>4. CASE Crash \/ Restart BY <1>4, CrashSafe
<1>5. CASE DaemonLogs /\ UNCHANGED <<shimVars, up, handler, overrides>>
  <2>1. DaemonTyped' BY <1>5 DEF DaemonTyped
  <2> QED BY <1>2, <1>5, <2>1
<1>6. CASE Override
  <2>1. DaemonTyped' BY <1>6, InstallAssumption DEF Override, DaemonTyped
  <2> QED BY <1>2, <1>6, <2>1 DEF Override
<1>7. CASE UNCHANGED vars
  <2>1. DaemonTyped' BY <1>7 DEF DaemonTyped, vars
  <2> QED BY <1>2, <1>7, <2>1 DEF vars
<1> QED BY <1>1, <1>3, <1>4, <1>5, <1>6, <1>7 DEF Next, Daemon

\* What a shim has open survives the renames, with its record.
LEMMA MovedKeeps ==
  ASSUME LogTyped, NEW k \in Slots, NEW to \in Slots \cup {Gone}, fd' = Moved(k, to),
         NEW s \in Shims, fd[s] # Closed
  PROVE  fd'[s] # Closed /\ fd'[s].rec = fd[s].rec
<1>1. fd[s] \in [slot : Slots \cup {Gone}, rec : Record] BY DEF LogTyped
<1>2. CASE fd[s].slot = k
  <2>1. fd'[s] = [fd[s] EXCEPT !.slot = to] BY <1>2 DEF Moved
  <2>2. fd'[s].slot = to /\ fd'[s].rec = fd[s].rec BY <1>1, <2>1
  <2> QED BY <2>2 DEF Closed, Slots, Gone, MAX_ROTATED
<1>3. CASE fd[s].slot # k BY <1>3 DEF Moved
<1> QED BY <1>2, <1>3

LEMMA LoggingBegins ==
  ASSUME ShimTyped, NEW s \in Shims, ShimRuns(s) \/ Prompt(s), shim'[s].pc = "logging"
  PROVE  BypassOpens(s)
<1>1. \A pc : shim' = Goto(s, pc) => shim'[s].pc = pc BY DEF Goto, ShimTyped
<1>2. \A code : shim' # Exit(s, code) BY DEF Exit, ShimTyped
<1>3. CASE Start(s) BY <1>1, <1>2, <1>3 DEF Start, Started
<1>4. CASE BypassRefused(s) BY <1>2, <1>4 DEF BypassRefused
<1>5. CASE BypassLogged(s) BY <1>1, <1>5 DEF BypassLogged
<1>6. CASE Ask(s) BY <1>1, <1>2, <1>6 DEF Ask, AfterLoop, ShimTyped
<1>7. CASE Unanswered(s) BY <1>1, <1>7 DEF Unanswered
<1>8. CASE Receive(s)
  <2>1. ASSUME shim' = [Goto(s, "next") EXCEPT ![s].blocked = TRUE]
        PROVE  FALSE
    <3>1. Becomes(s, "next", shim[s].i, TRUE, shim[s].exit) BY <2>1, BlockFields
    <3> QED BY <3>1 DEF Becomes
  <2> QED BY <1>1, <1>8, <2>1 DEF Receive
<1>9. CASE Passthrough(s) BY <1>9 DEF Passthrough, ShimTyped
<1>10. CASE Prompt(s) BY <1>1, <1>2, <1>10 DEF Prompt
<1>11. CASE CutOff(s) BY <1>2, <1>11 DEF CutOff
<1> QED BY <1>3, <1>4, <1>5, <1>6, <1>7, <1>8, <1>9, <1>10, <1>11 DEF ShimRuns

LEMMA NextLogging ==
  ASSUME LogTyped, ShimTyped, Logging, ShimsInv, [Next]_vars
  PROVE  Logging'
<1> SUFFICES ASSUME NEW s \in Shims, shim'[s].pc = "logging"
             PROVE  fd'[s] # Closed /\ fd'[s].rec.job = <<s, 0>>
  BY DEF Logging
<1>1. CASE \E t \in Shims : ShimRuns(t) \/ Prompt(t)
  <2>1. PICK t \in Shims : ShimRuns(t) \/ Prompt(t) BY <1>1
  <2>2. CASE t = s
    <3>1. BypassOpens(s) BY <2>1, <2>2, LoggingBegins
    <3>2. fd'[s] = [slot |-> 0, rec |-> Stamp(<<s, 0>>)]
      BY <3>1 DEF BypassOpens, ShimOpens, LogTyped
    <3> QED BY <3>2 DEF Stamp, Closed
  <2>3. CASE t # s
    <3>1. shim'[s] = shim[s] BY <2>1, <2>3, ShimStepSafe DEF ShimsInv
    <3>2. fd'[s] = fd[s]
      BY <2>1, <2>3 DEF ShimRuns, Start, BypassRefused, BypassOpens, BypassLogged, Ask,
           Unanswered, CutOff, Receive, Passthrough, Prompt, ShimOpens, ShimWrites, ShimWriteFails,
           log, LogTyped
    <3> QED BY <3>1, <3>2 DEF Logging
  <2> QED BY <2>2, <2>3
<1>2. CASE shim' = shim /\ fd' = fd BY <1>2 DEF Logging
<1>3. CASE DaemonLogs /\ shim' = shim
  <2>0. fd[s] # Closed /\ fd[s].rec.job = <<s, 0>> BY <1>3 DEF Logging
  <2>1. CASE Unlink
    <3>1. fd' = Moved(MAX_ROTATED, Gone) /\ MAX_ROTATED \in Slots
      BY <2>1 DEF Unlink, Slots, MAX_ROTATED
    <3> QED BY <2>0, <3>1, MovedKeeps
  <2>2. CASE Shift
    <3>1. slot \in Slots /\ slot + 1 \in Slots BY DEF LogTyped, Slots, MAX_ROTATED
    <3>2. fd' = Moved(slot, slot + 1) \/ fd' = fd BY <2>2 DEF Shift
    <3> QED BY <2>0, <3>1, <3>2, MovedKeeps
  <2>3. CASE Stat \/ Write \/ Fails \/ WriteTorn
    BY <1>2, <1>3, <2>3 DEF Stat, Write, Fails, WriteTorn
  <2> QED BY <1>3, <2>1, <2>2, <2>3 DEF DaemonLogs
<1>4. CASE \E t \in Shims : Take(t) \/ \E i \in Turns : Decide(t, i) \/ Respond(t, i)
  BY <1>2, <1>4 DEF Take, Decide, Respond, Enqueue, log
<1>5. CASE Override \/ Crash \/ Restart
  BY <1>2, <1>5 DEF Override, Crash, Restart, Enqueue, LogCrash, log, shimVars
<1>6. CASE UNCHANGED vars BY <1>2, <1>6 DEF vars, shimVars, log
<1> QED BY <1>1, <1>3, <1>4, <1>5, <1>6 DEF Next, Daemon, shimVars

---------------------------------------------------------------------------
(* the count of what is owed and not in the log                            *)

LEMMA OneMore ==
  ASSUME NEW U, IsFiniteSet(U), NEW V, NEW x, V \subseteq U \cup {x}
  PROVE  IsFiniteSet(V) /\ Cardinality(V) \in Nat /\ Cardinality(V) <= Cardinality(U) + 1
<1>1. /\ IsFiniteSet(U \cup {x}) /\ Cardinality(U) \in Nat
      /\ Cardinality(U \cup {x}) <= Cardinality(U) + 1
  BY FS_AddElement, FS_CardinalityType
<1>2. IsFiniteSet(V) /\ Cardinality(V) <= Cardinality(U \cup {x}) BY <1>1, FS_Subset
<1> QED BY <1>1, <1>2, FS_CardinalityType

LEMMA NoMore ==
  ASSUME NEW U, IsFiniteSet(U), NEW V, V \subseteq U
  PROVE  IsFiniteSet(V) /\ Cardinality(V) \in Nat /\ Cardinality(V) <= Cardinality(U)
BY FS_Subset, FS_CardinalityType

LEMMA OneLess ==
  ASSUME NEW U, IsFiniteSet(U), NEW V, NEW x \in U, V \subseteq U \ {x}
  PROVE  IsFiniteSet(V) /\ Cardinality(V) \in Nat /\ Cardinality(V) + 1 <= Cardinality(U)
<1>1. /\ IsFiniteSet(U \ {x}) /\ Cardinality(U) \in Nat
      /\ Cardinality(U \ {x}) = Cardinality(U) - 1
  BY FS_RemoveElement, FS_CardinalityType
<1>2. IsFiniteSet(V) /\ Cardinality(V) \in Nat /\ Cardinality(V) <= Cardinality(U \ {x})
  BY <1>1, NoMore
<1> QED BY <1>1, <1>2

LEMMA TornFinite == IsFiniteSet(TornTails) /\ Cardinality(TornTails) \in Nat
<1>1. IsFiniteSet(0 .. MAX_ROTATED)
  <2>1. MAX_ROTATED \in Int BY DEF MAX_ROTATED
  <2> QED BY <2>1, FS_Interval
<1>2. TornTails \subseteq 0 .. MAX_ROTATED BY DEF TornTails, Slots
<1> QED BY <1>1, <1>2, NoMore

\* The ways the two numbers may change together.
LEMMA CostsKept ==
  ASSUME LogTyped, Costs, Unlogged' \subseteq Unlogged, TornTails' \subseteq TornTails,
         faults' \in Nat, faults <= faults'
  PROVE  Costs'
<1>1. IsFiniteSet(Unlogged') /\ Cardinality(Unlogged') \in Nat
      /\ Cardinality(Unlogged') <= Cardinality(Unlogged)
  BY NoMore DEF Costs
<1>2. Cardinality(TornTails') \in Nat /\ Cardinality(TornTails') <= Cardinality(TornTails)
  BY TornFinite, NoMore
<1>3. Cardinality(Unlogged) \in Nat /\ Cardinality(TornTails) \in Nat
  BY TornFinite, FS_CardinalityType DEF Costs
<1>4. faults \in Nat /\ Cardinality(Unlogged) + Cardinality(TornTails) <= 2 * faults
  BY LogAssumption DEF Costs, LogTyped
<1> QED BY <1>1, <1>2, <1>3, <1>4 DEF Costs

LEMMA FaultPays ==
  ASSUME LogTyped, Costs, NEW j, Unlogged' \subseteq Unlogged \cup {j},
         NEW k, TornTails' \subseteq TornTails \cup {k}, faults' = faults + 1
  PROVE  Costs'
<1>1. IsFiniteSet(Unlogged') /\ Cardinality(Unlogged') \in Nat
      /\ Cardinality(Unlogged') <= Cardinality(Unlogged) + 1
  BY OneMore DEF Costs
<1>2. Cardinality(TornTails') \in Nat /\ Cardinality(TornTails') <= Cardinality(TornTails) + 1
  BY TornFinite, OneMore
<1>3. Cardinality(Unlogged) \in Nat /\ Cardinality(TornTails) \in Nat
  BY TornFinite, FS_CardinalityType DEF Costs
<1>4. faults \in Nat /\ Cardinality(Unlogged) + Cardinality(TornTails) <= 2 * faults
  BY LogAssumption DEF Costs, LogTyped
<1> QED BY <1>1, <1>2, <1>3, <1>4 DEF Costs

LEMMA TailPays ==
  ASSUME LogTyped, Costs, NEW j, Unlogged' \subseteq Unlogged \cup {j},
         NEW k \in TornTails, TornTails' \subseteq TornTails \ {k}, faults' = faults
  PROVE  Costs'
<1>1. IsFiniteSet(Unlogged') /\ Cardinality(Unlogged') \in Nat
      /\ Cardinality(Unlogged') <= Cardinality(Unlogged) + 1
  BY OneMore DEF Costs
<1>2. Cardinality(TornTails') \in Nat /\ Cardinality(TornTails') + 1 <= Cardinality(TornTails)
  BY TornFinite, OneLess
<1>3. Cardinality(Unlogged) \in Nat /\ Cardinality(TornTails) \in Nat
  BY TornFinite, FS_CardinalityType DEF Costs
<1>4. faults \in Nat /\ Cardinality(Unlogged) + Cardinality(TornTails) <= 2 * faults
  BY LogAssumption DEF Costs, LogTyped
<1> QED BY <1>1, <1>2, <1>3, <1>4 DEF Costs

LEMMA TailMoves ==
  ASSUME LogTyped, Costs, Unlogged' \subseteq Unlogged,
         NEW k \in TornTails, NEW l, TornTails' \subseteq (TornTails \ {k}) \cup {l},
         faults' = faults
  PROVE  Costs'
<1>1. IsFiniteSet(Unlogged') /\ Cardinality(Unlogged') \in Nat
      /\ Cardinality(Unlogged') <= Cardinality(Unlogged)
  BY NoMore DEF Costs
<1>2. /\ IsFiniteSet(TornTails \ {k}) /\ Cardinality(TornTails \ {k}) \in Nat
      /\ Cardinality(TornTails \ {k}) + 1 <= Cardinality(TornTails)
  BY TornFinite, OneLess
<1>3. Cardinality(TornTails') \in Nat /\ Cardinality(TornTails') <= Cardinality(TornTails \ {k}) + 1
  BY <1>2, OneMore
<1>4. Cardinality(Unlogged) \in Nat /\ Cardinality(TornTails) \in Nat
  BY TornFinite, FS_CardinalityType DEF Costs
<1>5. faults \in Nat /\ Cardinality(Unlogged) + Cardinality(TornTails) <= 2 * faults
  BY LogAssumption DEF Costs, LogTyped
<1> QED BY <1>1, <1>2, <1>3, <1>4, <1>5 DEF Costs

\* What may be owed after a step, and what of it the log has.
LEMMA OwedGrows ==
  ASSUME NEW j,
         \A s \in Shims : \A k \in Turns :
           Appended(<<s, k>>)' \/ Heard(s, k)' => Appended(<<s, k>>) \/ Heard(s, k) \/ <<s, k>> = j,
         \A s \in Shims : Bypassed(s)' => Bypassed(s) \/ <<s, 0>> = j
  PROVE  Owed' \subseteq Owed \cup {j}
<1> SUFFICES ASSUME NEW r \in Owed', r # j
             PROVE  r \in Owed
  OBVIOUS
<1>1. CASE r \in Requests /\ (Appended(r)' \/ Heard(r[1], r[2])')
  <2>1. r[1] \in Shims /\ r[2] \in Turns /\ r = <<r[1], r[2]>> BY <1>1 DEF Requests
  <2>2. Appended(r) \/ Heard(r[1], r[2]) BY <1>1, <2>1
  <2> QED BY <1>1, <2>2 DEF Owed
<1>2. CASE \E s \in Shims : Bypassed(s)' /\ r = <<s, 0>>
  BY <1>2 DEF Owed
<1> QED BY <1>1, <1>2 DEF Owed

LEMMA UnloggedGrows ==
  ASSUME NEW j, Owed' \subseteq Owed \cup {j}, written \subseteq written'
  PROVE  Unlogged' \subseteq Unlogged \cup {j}
BY DEF Unlogged

LEMMA LoggedIsNot ==
  ASSUME NEW rec, Owed' \subseteq Owed \cup {rec.job}, written' = written \cup {rec}
  PROVE  Unlogged' \subseteq Unlogged
BY DEF Unlogged

LEMMA TurnRanges ==
  ASSUME LogTyped
  PROVE  /\ \A j \in Jobs : turn' = Append(turn, j) => Range(turn) \cup {j} \subseteq Range(turn')
         /\ turn # <<>> /\ turn' = Tail(turn) => Range(turn) \subseteq Range(turn') \cup {Holder}
<1>1. turn \in Seq(Jobs) /\ Len(turn) \in Nat /\ DOMAIN turn = 1 .. Len(turn)
  BY LenProperties DEF LogTyped
<1>2. ASSUME NEW j \in Jobs, turn' = Append(turn, j)
      PROVE  Range(turn) \cup {j} \subseteq Range(turn')
  <2>1. /\ turn' \in Seq(Jobs) /\ Len(turn') = Len(turn) + 1
        /\ \A i \in 1 .. Len(turn) : turn'[i] = turn[i]
        /\ turn'[Len(turn) + 1] = j
    BY <1>1, <1>2, AppendProperties
  <2>2. DOMAIN turn' = 1 .. Len(turn) + 1 BY <2>1, LenProperties
  <2>3. \A i \in DOMAIN turn : i \in DOMAIN turn' /\ turn'[i] = turn[i] BY <1>1, <2>1, <2>2
  <2>4. Len(turn) + 1 \in DOMAIN turn' BY <1>1, <2>2
  <2> QED BY <2>1, <2>3, <2>4 DEF Range
<1>3. ASSUME turn # <<>>, turn' = Tail(turn)
      PROVE  Range(turn) \subseteq Range(turn') \cup {Holder}
  <2>1. /\ turn' \in Seq(Jobs) /\ Len(turn') = Len(turn) - 1
        /\ \A i \in 1 .. Len(turn') : turn'[i] = turn[i + 1]
    BY <1>1, <1>3, HeadTailProperties
  <2>2. DOMAIN turn' = 1 .. Len(turn) - 1 BY <2>1, LenProperties
  <2>3. Holder = turn[1] BY <1>1, <1>3 DEF Holder
  <2> SUFFICES ASSUME NEW i \in DOMAIN turn
               PROVE  turn[i] \in Range(turn') \cup {Holder}
    BY DEF Range
  <2>4. CASE i = 1 BY <2>3, <2>4
  <2>5. CASE i # 1
    <3>1. i - 1 \in DOMAIN turn' /\ i - 1 \in 1 .. Len(turn') BY <1>1, <2>1, <2>2, <2>5
    <3>2. turn'[i - 1] = turn[i] BY <1>1, <2>1, <3>1
    <3> QED BY <3>1, <3>2 DEF Range
  <2> QED BY <2>4, <2>5
<1> QED BY <1>2, <1>3

LEMMA ReleaseOwes ==
  ASSUME LogTyped, UNCHANGED <<shim, request, answers, handler>>, Release, turn # <<>>
  PROVE  Owed' \subseteq Owed \cup {Holder}
<1>1. Range(turn) \subseteq Range(turn') \cup {Holder} BY TurnRanges DEF Release
<1>2. \A s \in Shims : \A k \in Turns : /\ Heard(s, k)' <=> Heard(s, k)
                                        /\ Bypassed(s)' <=> Bypassed(s)
  BY DEF Heard, Bypassed
<1>3. \A r \in Requests : Appended(r)' => Appended(r) \/ r = Holder BY <1>1 DEF Appended
<1>4. \A s \in Shims : Bypassed(s)' <=> Bypassed(s) BY DEF Bypassed
<1> QED BY <1>2, <1>3, <1>4, OwedGrows DEF Requests

LEMMA OwedSame ==
  ASSUME UNCHANGED <<shim, request, answers, handler>>, Range(turn) \subseteq Range(turn')
  PROVE  Owed' \subseteq Owed
BY DEF Owed, Appended, Heard, Bypassed

\* The torn tails after a line is put at the end of a file.
LEMMA TailsAfterAppend ==
  ASSUME LogTyped, NEW k \in Slots, NEW rec, NEW state, files' = AppendTo(k, rec, state)
  PROVE  /\ TornTails' \subseteq TornTails \cup {k}
         /\ state # "torn" => TornTails' \subseteq TornTails \ {k}
<1>1. /\ files'[k] # <<>> /\ Last(files'[k]).state = state
      /\ \A j \in Slots : j # k => files'[j] = files[j]
  BY AppendFiles
<1>2. \A j \in Slots : j # k => (Glued(j)' <=> Glued(j)) BY <1>1 DEF Glued
<1>3. state # "torn" => ~Glued(k)' BY <1>1 DEF Glued
<1> QED BY <1>2, <1>3 DEF TornTails

\* A record of what is owed is written, or swallowed with the tail before it.
LEMMA WriteCosts ==
  ASSUME LogTyped, Costs, NEW k \in Slots \cup {Gone}, NEW rec, Written(k, rec),
         Owed' \subseteq Owed \cup {rec.job}, faults' = faults
  PROVE  Costs'
<1>0. faults' \in Nat /\ faults <= faults' BY LogAssumption DEF LogTyped
<1>1. CASE k = Gone
  <2>1. files' = files /\ written' = written \cup {rec} BY <1>1 DEF Written
  <2>2. TornTails' = TornTails BY <2>1 DEF TornTails, Glued
  <2> QED BY <1>0, <2>1, <2>2, LoggedIsNot, CostsKept
<1>2. CASE k # Gone /\ ~Glued(k)
  <2>1. files' = AppendTo(k, rec, "whole") /\ written' = written \cup {rec}
    BY <1>2 DEF Written
  <2>2. TornTails' \subseteq TornTails BY <1>2, <2>1, TailsAfterAppend
  <2> QED BY <1>0, <2>1, <2>2, LoggedIsNot, CostsKept
<1>3. CASE k # Gone /\ Glued(k)
  <2>1. files' = AppendTo(k, rec, "swallowed") /\ written' = written BY <1>3 DEF Written
  <2>2. TornTails' \subseteq TornTails \ {k} BY <1>3, <2>1, TailsAfterAppend
  <2>3. k \in TornTails BY <1>3 DEF TornTails
  <2> QED BY <2>1, <2>2, <2>3, UnloggedGrows, TailPays
<1> QED BY <1>1, <1>2, <1>3

LEMMA DaemonLogsCosts ==
  ASSUME LogTyped, LogInv, Costs, DaemonLogs, UNCHANGED <<shim, request, answers, handler>>
  PROVE  Costs'
<1>0. faults \in Nat BY LogAssumption DEF LogTyped
<1>1. CASE Stat
  <2>1. UNCHANGED <<files, turn, written, faults>> BY <1>1 DEF Stat
  <2>2. TornTails' = TornTails /\ Owed' \subseteq Owed
    BY <2>1, OwedSame DEF TornTails, Glued
  <2>3. Unlogged' \subseteq Unlogged BY <2>1, <2>2 DEF Unlogged
  <2> QED BY <1>0, <2>1, <2>2, <2>3, CostsKept
<1>2. CASE Unlink
  <2>1. UNCHANGED <<turn, written, faults>> /\ files' = [files EXCEPT ![MAX_ROTATED] = <<>>]
    BY <1>2 DEF Unlink
  <2>2. \A k \in Slots : Glued(k)' => Glued(k) BY <2>1 DEF Glued, LogTyped
  <2>3. TornTails' \subseteq TornTails BY <2>2 DEF TornTails
  <2>4. Owed' \subseteq Owed BY <2>1, OwedSame
  <2>5. Unlogged' \subseteq Unlogged BY <2>1, <2>4 DEF Unlogged
  <2> QED BY <1>0, <2>1, <2>3, <2>5, CostsKept
<1>3. CASE Shift
  <2>1. UNCHANGED <<turn, written, faults>> BY <1>3 DEF Shift
  <2>2. Owed' \subseteq Owed BY <2>1, OwedSame
  <2>3. Unlogged' \subseteq Unlogged BY <2>1, <2>2 DEF Unlogged
  <2>4. PICK k \in 0 .. 2 : k = slot BY DEF LogTyped, MAX_ROTATED
  <2>5. k \in Slots /\ k + 1 \in Slots BY DEF Slots, MAX_ROTATED
  <2>6. CASE files' = files
    <3>1. TornTails' = TornTails BY <2>6 DEF TornTails, Glued
    <3> QED BY <1>0, <2>1, <2>3, <3>1, CostsKept
  <2>7. CASE files' = [files EXCEPT ![k + 1] = files[k], ![k] = <<>>]
    <3>1. /\ files'[k + 1] = files[k] /\ files'[k] = <<>>
          /\ \A j \in Slots : j # k /\ j # k + 1 => files'[j] = files[j]
      BY <2>5, <2>7 DEF LogTyped
    <3>2. /\ Glued(k + 1)' => Glued(k)
          /\ ~Glued(k)'
          /\ \A j \in Slots : j # k /\ j # k + 1 => (Glued(j)' <=> Glued(j))
      BY <3>1 DEF Glued
    <3>3. CASE Glued(k)
      <4>1. k \in TornTails BY <2>5, <3>3 DEF TornTails
      <4>2. TornTails' \subseteq (TornTails \ {k}) \cup {k + 1} BY <3>2 DEF TornTails
      <4> QED BY <2>1, <2>3, <4>1, <4>2, TailMoves
    <3>4. CASE ~Glued(k)
      <4>1. TornTails' \subseteq TornTails BY <3>2, <3>4 DEF TornTails
      <4> QED BY <1>0, <2>1, <2>3, <4>1, CostsKept
    <3> QED BY <3>3, <3>4
  <2> QED BY <1>3, <2>4, <2>6, <2>7 DEF Shift
<1>4. CASE Write
  <2>1. turn # <<>> /\ Release /\ Written(0, Stamp(Holder)) /\ faults' = faults
    BY <1>4 DEF Write
  <2>2. Stamp(Holder).job = Holder BY DEF Stamp
  <2>3. Owed' \subseteq Owed \cup {Holder} BY <2>1, ReleaseOwes
  <2>4. 0 \in Slots BY DEF Slots, MAX_ROTATED
  <2> QED BY <2>1, <2>2, <2>3, <2>4, WriteCosts
<1>5. CASE Fails
  <2>1. turn # <<>> /\ Release /\ UNCHANGED <<files, written>> /\ faults' = faults + 1
    BY <1>5 DEF Fails, Fault
  <2>2. Unlogged' \subseteq Unlogged \cup {Holder} BY <2>1, ReleaseOwes, UnloggedGrows
  <2>3. TornTails' \subseteq TornTails \cup {0} BY <2>1 DEF TornTails, Glued
  <2> QED BY <2>1, <2>2, <2>3, FaultPays
<1>6. CASE WriteTorn
  <2>1. /\ turn # <<>> /\ Release /\ written' = written /\ faults' = faults + 1
        /\ files' = AppendTo(0, Stamp(Holder), "torn")
    BY <1>6 DEF WriteTorn, Fault
  <2>2. Unlogged' \subseteq Unlogged \cup {Holder} BY <2>1, ReleaseOwes, UnloggedGrows
  <2>3. 0 \in Slots BY DEF Slots, MAX_ROTATED
  <2>4. TornTails' \subseteq TornTails \cup {0} BY <2>1, <2>3, TailsAfterAppend
  <2> QED BY <2>1, <2>2, <2>4, FaultPays
<1> QED BY <1>1, <1>2, <1>3, <1>4, <1>5, <1>6 DEF DaemonLogs

\* What npm runs on was answered: a step of a shim owes nothing new, but for a bypass.
LEMMA ShimHears ==
  ASSUME ShimTyped, NEW s \in Shims, ShimInv(s), ShimRuns(s) \/ Prompt(s),
         NEW k \in Turns, Heard(s, k)'
  PROVE  Heard(s, k)
<1>0. shim[s].pc # "asked" => request[s] = Idle BY DEF ShimInv, AskingOf
<1>1. CASE Start(s) \/ BypassRefused(s) \/ BypassOpens(s) \/ BypassLogged(s) \/ Passthrough(s)
           \/ (Prompt(s) /\ UNCHANGED answers)
  <2>1. UNCHANGED <<request, answers>> /\ shim[s].pc # "asked"
    BY <1>1 DEF Start, BypassRefused, BypassOpens, BypassLogged, Passthrough, Prompt
  <2> QED BY <1>0, <2>1 DEF Heard, Idle
<1>2. CASE Ask(s)
  <2>1. answers' = answers /\ request'[s].at # "replied"
    BY <1>0, <1>2 DEF Ask, ShimTyped, Idle
  <2> QED BY <2>1 DEF Heard
<1>3. CASE Unanswered(s)
  <2>1. PICK what \in {"cached", "unscreened"} : Note(s, what) BY <1>3 DEF Unanswered
  <2>2. what \in Answers /\ what \notin Verdicts \cup {"confirmed"} BY DEF Answers, Verdicts
  <2>3. request'[s] = Idle BY <1>3, IdleFields DEF Unanswered
  <2> QED BY <2>1, <2>2, <2>3, NoteFields DEF Heard, Idle
<1>4. CASE Receive(s)
  <2>1. PICK reply \in Verdicts \cup {"none", "unauthorized"} : reply = request[s].reply
    BY DEF ShimTyped
  <2>2. Note(s, reply) /\ request[s].at = "replied" BY <1>4, <2>1 DEF Receive
  <2>3. reply \in Answers /\ reply # "confirmed" BY DEF Answers, Verdicts
  <2>4. request'[s] = Idle BY <1>4, IdleFields DEF Receive
  <2> QED BY <2>1, <2>2, <2>3, <2>4, NoteFields DEF Heard, Idle
<1>5. CASE Prompt(s) /\ ~UNCHANGED answers
  <2>1. PICK what \in {"confirmed", "eof"} : Note(s, what) BY <1>5 DEF Prompt
  <2>2. what \in Answers BY DEF Answers
  <2>3. answers[s][shim[s].i] \in Verdicts
    BY <1>5 DEF Prompt, ShimInv, ScreeningOf, Verdicts
  <2>4. request'[s].at # "replied" BY <1>0, <1>5 DEF Prompt, Idle
  <2> QED BY <2>1, <2>2, <2>3, <2>4, NoteFields DEF Heard
<1>6. CASE CutOff(s)
  <2>1. Note(s, "cut") /\ request'[s] = Idle BY <1>6, IdleFields DEF CutOff
  <2>2. "cut" \in Answers /\ "cut" \notin Verdicts \cup {"confirmed"} BY DEF Answers, Verdicts
  <2> QED BY <2>1, <2>2, NoteFields DEF Heard, Idle
<1> QED BY <1>1, <1>2, <1>3, <1>4, <1>5, <1>6 DEF ShimRuns

LEMMA ShimBypasses ==
  ASSUME ShimTyped, NEW s \in Shims, ShimInv(s), ShimRuns(s) \/ Prompt(s),
         Bypassed(s)', ~BypassLogged(s)
  PROVE  Bypassed(s)
<1>1. shim'[s].cmd = shim[s].cmd BY ShimStepSafe
<1>2. shim[s].cmd.install /\ shim[s].cmd.bypass /\ ~Screened(s)
  BY <1>1 DEF Bypassed, Screened
<1>3. shim[s].pc \notin {"next", "asked", "prompt"} BY <1>2 DEF ShimInv, ScreeningOf
<1>4. ~(Ask(s) \/ Unanswered(s) \/ CutOff(s) \/ Receive(s) \/ Prompt(s))
  BY <1>3 DEF Ask, Unanswered, CutOff, Receive, Prompt
<1>5. CASE Start(s)
  <2>1. shim' = Goto(s, "bypass") BY <1>2, <1>5 DEF Start, Started
  <2>2. shim'[s].pc = "bypass" BY <2>1 DEF Goto, ShimTyped
  <2> QED BY <2>2 DEF Bypassed
<1>6. CASE BypassRefused(s)
  <2>1. shim'[s].pc = "done" BY <1>6 DEF BypassRefused, Exit, ShimTyped
  <2> QED BY <2>1 DEF Bypassed
<1>7. CASE BypassOpens(s)
  <2>1. shim'[s].pc = "logging" BY <1>7 DEF BypassOpens, Goto, ShimTyped
  <2> QED BY <2>1 DEF Bypassed
<1>8. CASE Passthrough(s) BY <1>2, <1>8 DEF Passthrough, Bypassed
<1> QED BY <1>4, <1>5, <1>6, <1>7, <1>8 DEF ShimRuns

LEMMA ShimCosts ==
  ASSUME LogTyped, ShimTyped, ShimsInv, Logging, Costs, NEW s \in Shims,
         ShimRuns(s) \/ Prompt(s), UNCHANGED handler
  PROVE  Costs'
<1>0. faults \in Nat /\ ShimInv(s) BY LogAssumption DEF LogTyped, ShimsInv
<1>1. \A t \in Shims \ {s} : \A k \in Turns : /\ Heard(t, k)' <=> Heard(t, k)
                                              /\ Bypassed(t)' <=> Bypassed(t)
  BY <1>0, ShimStepSafe DEF Heard, Bypassed
<1>2. \A t \in Shims \ {s} : Bypassed(t)' <=> Bypassed(t)
  BY <1>0, ShimStepSafe DEF Bypassed
<1>3. \A k \in Turns : Heard(s, k)' => Heard(s, k) BY <1>0, ShimHears
<1>4. turn' = turn
  BY DEF ShimRuns, Start, BypassRefused, BypassOpens, BypassLogged, Ask, Unanswered, CutOff, Receive,
         Passthrough, Prompt, ShimOpens, ShimWrites, ShimWriteFails, log
<1>5. \A r \in Requests : Appended(r)' <=> Appended(r) BY <1>4 DEF Appended
<1>6. CASE BypassLogged(s)
  <2>1. Owed' \subseteq Owed \cup {<<s, 0>>}
    <3>1. \A t \in Shims : Bypassed(t)' => Bypassed(t) \/ <<t, 0>> = <<s, 0>> BY <1>2
    <3> QED BY <1>1, <1>3, <1>5, <3>1, OwedGrows DEF Requests
  <2>2. fd[s] # Closed /\ fd[s].rec.job = <<s, 0>> BY <1>6 DEF BypassLogged, Logging
  <2>3. CASE ShimWrites(s)
    <3>1. fd[s].slot \in Slots \cup {Gone} BY <2>2 DEF LogTyped
    <3>2. Written(fd[s].slot, fd[s].rec) /\ faults' = faults BY <2>3 DEF ShimWrites
    <3> QED BY <2>1, <2>2, <3>1, <3>2, WriteCosts
  <2>4. CASE ShimWriteFails(s)
    <3>1. UNCHANGED <<files, written>> /\ faults' = faults + 1
      BY <2>4 DEF ShimWriteFails, Fault
    <3>2. Unlogged' \subseteq Unlogged \cup {<<s, 0>>} BY <2>1, <3>1, UnloggedGrows
    <3>3. TornTails' \subseteq TornTails \cup {0} BY <3>1 DEF TornTails, Glued
    <3> QED BY <3>1, <3>2, <3>3, FaultPays
  <2> QED BY <1>6, <2>3, <2>4 DEF BypassLogged
<1>7. CASE ~BypassLogged(s)
  <2>1. Owed' \subseteq Owed \cup {<<>>}
    <3>1. \A t \in Shims : Bypassed(t)' => Bypassed(t) BY <1>0, <1>2, <1>7, ShimBypasses
    <3> QED BY <1>1, <1>3, <1>5, <3>1, OwedGrows DEF Requests
  <2>2. Owed' \subseteq Owed
    <3>1. <<>> \notin Owed' BY DEF Owed, Requests
    <3> QED BY <2>1, <3>1
  <2>3. UNCHANGED <<files, written, faults>>
    BY <1>7 DEF ShimRuns, Start, BypassRefused, BypassOpens, Ask, Unanswered, CutOff, Receive,
                Passthrough, Prompt, ShimOpens, log
  <2>4. Unlogged' \subseteq Unlogged BY <2>2, <2>3 DEF Unlogged
  <2>5. TornTails' \subseteq TornTails BY <2>3 DEF TornTails, Glued
  <2> QED BY <1>0, <2>3, <2>4, <2>5, CostsKept
<1> QED BY <1>6, <1>7

\* The daemon takes a request, decides and answers; a verdict is owed once its append is
\* over.
LEMMA ServeCosts ==
  ASSUME LogTyped, ShimTyped, DaemonTyped, Costs, NEW s \in Shims,
         Take(s) \/ \E i \in Turns : Decide(s, i) \/ Respond(s, i)
  PROVE  Costs'
<1>0. faults \in Nat BY LogAssumption DEF LogTyped
<1>1. UNCHANGED <<shim, answers, files, written, faults>>
  BY DEF Take, Decide, Respond, Enqueue, log
<1>2. \A t \in Shims : Bypassed(t)' <=> Bypassed(t) BY <1>1 DEF Bypassed
<1>3. \A r \in Requests :
        Appended(r)' \/ Heard(r[1], r[2])' => Appended(r) \/ Heard(r[1], r[2])
  <2>1. CASE Take(s)
    <3>1. turn' = turn BY <2>1 DEF Take, log
    <3>2. \A r \in Requests : handler'[r] \in Verdicts => handler'[r] = handler[r]
      BY <2>1 DEF Take, DaemonTyped, Verdicts
    <3>3. \A t \in Shims : request'[t] = request[t]
                           \/ request'[t].at # "replied" \/ request'[t].reply = "unauthorized"
      BY <2>1 DEF Take, ShimTyped
    <3>4. "unauthorized" \notin Verdicts BY DEF Verdicts
    <3> QED BY <1>1, <3>1, <3>2, <3>3, <3>4 DEF Appended, Heard, Requests
  <2>2. CASE \E i \in Turns : Decide(s, i)
    <3>1. PICK i \in Turns : Decide(s, i) BY <2>2
    <3>2. request' = request /\ turn' = Append(turn, <<s, i>>) /\ <<s, i>> \in Jobs
      BY <3>1 DEF Decide, Enqueue, Jobs, Requests
    <3>3. Range(turn) \cup {<<s, i>>} \subseteq Range(turn') BY <3>2, TurnRanges
    <3>4. \A r \in Requests : r # <<s, i>> => handler'[r] = handler[r]
      BY <3>1 DEF Decide, DaemonTyped
    <3>5. \A r \in Requests : Appended(r)' => Appended(r)
      BY <3>3, <3>4 DEF Appended
    <3>6. \A t \in Shims : \A k \in Turns : Heard(t, k)' <=> Heard(t, k)
      BY <1>1, <3>2 DEF Heard
    <3> QED BY <3>5, <3>6 DEF Requests
  <2>3. CASE \E i \in Turns : Respond(s, i)
    <3>1. PICK i \in Turns : Respond(s, i) BY <2>3
    <3>2. turn' = turn /\ Appended(<<s, i>>) BY <3>1 DEF Respond, Appended, log
    <3>3. \A r \in Requests : handler'[r] \in Verdicts => handler'[r] = handler[r]
      BY <3>1 DEF Respond, DaemonTyped, Verdicts
    <3>4. \A t \in Shims : request'[t] = request[t] \/ (t = s /\ i = shim[s].i)
      BY <3>1 DEF Respond, ShimTyped
    <3>5. \A t \in Shims : \A k \in Turns :
            Heard(t, k)' => Heard(t, k) \/ Appended(<<t, k>>)
      BY <1>1, <3>2, <3>4 DEF Heard
    <3>6. \A r \in Requests : Appended(r)' => Appended(r) BY <3>2, <3>3 DEF Appended
    <3> QED BY <3>5, <3>6 DEF Requests
  <2> QED BY <2>1, <2>2, <2>3
<1>4. Owed' \subseteq Owed BY <1>2, <1>3 DEF Owed
<1>5. Unlogged' \subseteq Unlogged BY <1>1, <1>4 DEF Unlogged
<1>6. TornTails' \subseteq TornTails BY <1>1 DEF TornTails, Glued
<1> QED BY <1>0, <1>1, <1>5, <1>6, CostsKept

\* The other steps owe nothing: an override, the end of the daemon, its start.
LEMMA RestCosts ==
  ASSUME LogTyped, ShimTyped, DaemonTyped, Costs,
         Override \/ Crash \/ Restart \/ UNCHANGED vars
  PROVE  Costs'
<1>0. faults \in Nat BY LogAssumption DEF LogTyped
<1>1. UNCHANGED <<shim, answers, files, written>> /\ faults' \in {faults, faults + 1}
  BY DEF Override, Crash, Restart, Enqueue, LogCrash, Fault, vars, shimVars, log
<1>2. \A t \in Shims : Bypassed(t)' <=> Bypassed(t) BY <1>1 DEF Bypassed
<1>3. \A r \in Requests : Appended(r)' => Appended(r)
  <2>1. CASE Override
    <3>1. <<User, overrides + 1>> \in Jobs
      BY <2>1, InstallAssumption DEF Override, DaemonTyped, Jobs
    <3>2. handler' = handler /\ turn' = Append(turn, <<User, overrides + 1>>)
      BY <2>1 DEF Override, Enqueue
    <3>3. Range(turn) \subseteq Range(turn') BY <3>1, <3>2, TurnRanges
    <3> QED BY <3>2, <3>3 DEF Appended
  <2>2. CASE Crash
    <3>1. \A r \in Requests : handler'[r] = "none" BY <2>2 DEF Crash
    <3> QED BY <3>1 DEF Appended, Verdicts
  <2>3. CASE Restart \/ UNCHANGED vars
    BY <2>3 DEF Restart, Appended, vars, log
  <2> QED BY <2>1, <2>2, <2>3
<1>4. \A t \in Shims : request'[t] = request[t] \/ request'[t].at \in {"lost", "cut"}
  <2>1. CASE \E cut : request' = Dropped(cut)
    <3>1. PICK cut : request' = Dropped(cut) BY <2>1
    <3> QED BY <3>1 DEF Dropped, ShimTyped
  <2>2. CASE request' = request BY <2>2
  <2> QED BY <2>1, <2>2 DEF Override, Crash, Restart, vars, shimVars
<1>5. \A t \in Shims : \A k \in Turns : Heard(t, k)' => Heard(t, k)
  BY <1>1, <1>4 DEF Heard
<1>6. Owed' \subseteq Owed BY <1>2, <1>3, <1>5 DEF Owed, Requests
<1>7. Unlogged' \subseteq Unlogged BY <1>1, <1>6 DEF Unlogged
<1>8. TornTails' \subseteq TornTails BY <1>1 DEF TornTails, Glued
<1> QED BY <1>0, <1>1, <1>7, <1>8, CostsKept

LEMMA NextCosts ==
  ASSUME LogTyped, LogInv, ShimTyped, DaemonTyped, ShimsInv, Logging, Costs, [Next]_vars
  PROVE  Costs'
<1>1. CASE \E s \in Shims : (ShimRuns(s) \/ Prompt(s)) /\ UNCHANGED <<up, handler, overrides>>
  BY <1>1, ShimCosts
<1>2. CASE DaemonLogs /\ UNCHANGED <<shimVars, up, handler, overrides>>
  BY <1>2, DaemonLogsCosts DEF shimVars
<1>3. CASE \E s \in Shims : Take(s) \/ \E i \in Turns : Decide(s, i) \/ Respond(s, i)
  BY <1>3, ServeCosts
<1>4. CASE Override \/ Crash \/ Restart \/ UNCHANGED vars
  BY <1>4, RestCosts
<1> QED BY <1>1, <1>2, <1>3, <1>4 DEF Next, Daemon

---------------------------------------------------------------------------
(* the invariant holds                                                     *)

\* At first no command has begun and no line is written, in whatever configuration.
LEMMA InitSafe == Init => IInv
<1> SUFFICES ASSUME Init
             PROVE  IInv
  OBVIOUS
<1>1. LogTyped /\ LogInv BY LogInitOk DEF Init
<1>2. PICK cmd \in [Shims -> Commands] :
        shim = [s \in Shims |-> [pc |-> "start", cmd |-> cmd[s], i |-> 0, blocked |-> FALSE,
                                 exit |-> -1]]
  BY DEF Init, ShimInit
<1>3. \A s \in Shims : /\ shim[s].pc = "start" /\ shim[s].i = 0 /\ shim[s].exit = -1
                       /\ request[s] = Idle
                       /\ \A k \in Turns : answers[s][k] = "none"
  BY <1>2 DEF Init, ShimInit
<1>4. \A r \in Requests : handler[r] = "none" BY DEF Init
<1>5. ShimTyped
  <2>1. shim \in [Shims -> ShimsOf]
    BY <1>2, ShimAssumption DEF ShimsOf, States
  <2>2. request \in [Shims -> RequestsOf] BY DEF Init, ShimInit, Idle, RequestsOf
  <2>3. answers \in [Shims -> [Turns -> Answers]] BY DEF Init, ShimInit, Answers
  <2> QED BY <2>1, <2>2, <2>3 DEF ShimTyped, ShimsOf, States, RequestsOf, Init, ShimInit
<1>6. DaemonTyped BY DEF DaemonTyped, Init
<1>7. ShimsInv
  <2>1. Working BY <1>4 DEF Working, Requests
  <2> SUFFICES ASSUME NEW s \in Shims
               PROVE  ShimInv(s)
    BY <2>1 DEF ShimsInv
  <2>2. AskingOf(s) BY <1>3 DEF AskingOf, Idle
  <2>3. \A k \in Packages(s) : answers[s][k] = "none" BY <1>3, <1>5, PackagesTyped
  <2>4. ScreeningOf(s) BY <1>3, <2>3 DEF ScreeningOf, PackageOf, ShouldPrompt
  <2>5. StatusOf(s) BY <1>3 DEF StatusOf
  <2> QED BY <2>2, <2>4, <2>5 DEF ShimInv
<1>8. Logging BY <1>3 DEF Logging
<1>9. Costs
  <2>1. \A r \in Requests : ~Appended(r) BY <1>4 DEF Appended, Verdicts
  <2>2. \A s \in Shims : ~Bypassed(s) /\ \A k \in Turns : ~Heard(s, k)
    BY <1>3 DEF Bypassed, Heard, Idle, Verdicts
  <2>3. Owed = {} BY <2>1, <2>2 DEF Owed, Requests
  <2>4. Unlogged = {} BY <2>3 DEF Unlogged
  <2>5. TornTails = {} BY DEF TornTails, Glued, Init, LogInit
  <2>6. faults = 0 BY DEF Init, LogInit
  <2> QED BY <2>4, <2>5, <2>6, FS_EmptySet DEF Costs
<1> QED BY <1>1, <1>5, <1>6, <1>7, <1>8, <1>9 DEF IInv, TypeOK

LEMMA NextSafe == IInv /\ [Next]_vars => IInv'
<1> SUFFICES ASSUME IInv, [Next]_vars
             PROVE  IInv'
  OBVIOUS
<1>0. LogTyped /\ ShimTyped /\ DaemonTyped /\ LogInv /\ ShimsInv /\ Logging /\ Costs
  BY DEF IInv, TypeOK
<1>1. LogTyped' /\ LogInv' BY <1>0, NextLogSafe
<1>2. ShimTyped' /\ DaemonTyped' /\ ShimsInv' BY <1>0, NextShims
<1>3. Logging' BY <1>0, NextLogging
<1>4. Costs' BY <1>0, NextCosts
<1> QED BY <1>1, <1>2, <1>3, <1>4 DEF IInv, TypeOK

THEOREM Invariance == Spec => []IInv
BY InitSafe, NextSafe, PTL DEF Spec

---------------------------------------------------------------------------
(* what it comes to                                                        *)

\* The files, the threads under the lock, the shims and the handlers keep to their
\* shapes: a handler's append has a place in the lock's queue, a rename stays within the
\* four names of _rotate_sync.
THEOREM TypeCorrect == Spec => []TypeOK
<1>1. IInv => TypeOK BY DEF IInv
<1> QED BY <1>1, Invariance, PTL

\* _rotate_sync and the shims' appendFileSync between its renames: what a rotation loses
\* is older than all that is kept, and had three rotations begun after it was opened.
THEOREM KeptIsNewest == Spec => []RotationKeepsNewest
<1>1. IInv => RotationKeepsNewest BY KeepsNewest DEF IInv, TypeOK
<1> QED BY <1>1, Invariance, PTL

\* _main: npm installs what was to be screened only when every package had its turn, none
\* came to BLOCK, and every WARN that asks for it was confirmed, whatever the daemon did.
THEOREM ScreenedBeforeNpm == Spec => []OnlyScreenedInstalls
<1>1. IInv => OnlyScreenedInstalls
  <2> SUFFICES ASSUME IInv, NEW s \in Shims, Ran(s), Screened(s), NEW k \in Packages(s)
               PROVE  Judged(s, k)
    BY DEF OnlyScreenedInstalls, Judged
  <2>1. ShimInv(s) BY DEF IInv, ShimsInv
  <2>2. PackageOf(s, k) BY <2>1 DEF ShimInv, ScreeningOf
  <2> QED BY <2>2 DEF PackageOf, Ran
<1> QED BY <1>1, Invariance, PTL

\* _main, _scan, _promptProceed and _passthrough: what exits with 0 has called npm after
\* every package had its turn and none came to BLOCK, or was stranded before it did.
THEOREM ZeroExplained == Spec => []ZeroMeansCleared
<1>1. IInv => ZeroMeansCleared
  <2> SUFFICES ASSUME IInv, NEW s \in Shims, shim[s].exit = 0
               PROVE  IF Stranded(s)
                        THEN shim[s].pc = "done"
                        ELSE /\ shim[s].pc \in {"ran", "unstarted"}
                             /\ Screened(s) =>
                                  \A k \in Packages(s) : answers[s][k] \notin {"none", "BLOCK"}
    BY DEF ZeroMeansCleared
  <2>1. ShimInv(s) /\ ShimTyped BY DEF IInv, ShimsInv, TypeOK
  <2>2. CASE Stranded(s)
    <3>1. shim[s].i \in Turns BY <2>1, <2>2, ShimAssumption DEF Stranded, ShimTyped, Turns
    <3> QED BY <2>1, <2>2, <3>1 DEF Stranded, ShimInv, StatusOf
  <2>3. CASE ~Stranded(s)
    <3>1. shim[s].pc \in {"ran", "unstarted"} BY <2>1, <2>3 DEF ShimInv, StatusOf
    <3>2. \A k \in Packages(s) : PackageOf(s, k) BY <2>1 DEF ShimInv, ScreeningOf
    <3> QED BY <2>3, <3>1, <3>2 DEF PackageOf, Judged
  <2> QED BY <2>2, <2>3
<1> QED BY <1>1, Invariance, PTL

\* append and _writeAuditLog: of the packages npm installed on an answer or a bypass, at
\* most two for each failed write or crash are without a record.
THEOREM LoggedBeforeNpm == Spec => []InstalledIsLogged
<1>1. IInv => InstalledIsLogged
  <2> DEFINE missing == {j \in Accountable : \A r \in written : r.job # j}
  <2> SUFFICES ASSUME IInv
               PROVE  Cardinality(missing) <= 2 * faults
    BY DEF InstalledIsLogged
  <2>1. \A r \in Requests : answers[r[1]][r[2]] \in Verdicts \cup {"confirmed"} => r \in Owed
    BY DEF Owed, Heard
  <2>2. \A s \in Shims : Ran(s) /\ shim[s].cmd.install /\ shim[s].cmd.bypass => <<s, 0>> \in Owed
    BY DEF Owed, Bypassed, Ran
  <2>3. missing \subseteq Unlogged BY <2>1, <2>2 DEF Accountable, Unlogged
  <2>4. /\ IsFiniteSet(Unlogged) /\ Cardinality(Unlogged) + Cardinality(TornTails) <= 2 * faults
        /\ faults \in Nat
    BY LogAssumption DEF IInv, Costs, TypeOK, LogTyped
  <2>5. Cardinality(missing) \in Nat /\ Cardinality(missing) <= Cardinality(Unlogged)
    BY <2>3, <2>4, NoMore
  <2>6. Cardinality(Unlogged) \in Nat /\ Cardinality(TornTails) \in Nat
    BY <2>4, TornFinite, FS_CardinalityType
  <2> QED BY <2>4, <2>5, <2>6
<1> QED BY <1>1, Invariance, PTL
=============================================================================
