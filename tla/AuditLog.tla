------------------------------- MODULE AuditLog -------------------------------
(***************************************************************************)
(* ~/.cidas/audit.log and its three rotated files (utils/audit_log.py).    *)
(* The daemon appends one record at a time, each in a thread under one     *)
(* lock, and rotates; the npm shims append on their own (npm-shim.js,      *)
(* _writeAuditLog).  A file is the sequence of its lines.                  *)
(***************************************************************************)
EXTENDS Integers, Sequences, SequencesExt

CONSTANTS
  Shims,       \* processes outside the daemon that append
  MaxBytes,    \* _MAX_BYTES, in lines
  MaxFaults    \* bound on failing writes and crashes of the daemon

ASSUME LogAssumption ==
  /\ MaxBytes \in Nat \ {0}
  /\ MaxFaults \in Nat

MAX_ROTATED == 3
Slots  == 0 .. MAX_ROTATED      \* 0 is audit.log, n is audit.log.n
NoRec  == [job |-> <<>>, n |-> 0, born |-> 0]
Gone   == MAX_ROTATED + 1       \* no name any more
Closed == [slot |-> -1, rec |-> NoRec]

VARIABLES
  files,      \* what each slot holds; no lines is no file
  turn,       \* the calls of append in the order of the lock, its holder first
  step,       \* where the holder's thread stands
  slot,       \* the slot it shifts next, in "shift"
  fd,         \* the file each shim has open, by its slot, which a rename changes,
              \* and the record it will write
  serial,     \* history: records begun so far, numbered when their file is opened
  rotations,  \* history: rotations begun
  written,    \* history: the records written whole, on a line of their own
  faults

log == <<files, turn, step, slot, fd, serial, rotations, written, faults>>

LogInit ==
  /\ files = [k \in Slots |-> <<>>]
  /\ turn = <<>>
  /\ step = "stat"
  /\ slot = 0
  /\ fd = [s \in Shims |-> Closed]
  /\ serial = 0
  /\ rotations = 0
  /\ written = {}
  /\ faults = 0

\* A record of job, numbered and dated.
Stamp(job) == [job |-> job, n |-> serial + 1, born |-> rotations]

\* A write cut short ends without a newline: the next line is unreadable too.
Glued(k) == files[k] # <<>> /\ Last(files[k]).state = "torn"
AppendTo(k, rec, state) == [files EXCEPT ![k] = Append(@, [rec |-> rec, state |-> state])]

\* rec is written to slot k; Gone is a file without a name.
Written(k, rec) ==
  /\ files' = IF k = Gone THEN files
              ELSE AppendTo(k, rec, IF Glued(k) THEN "swallowed" ELSE "whole")
  /\ written' = IF k # Gone /\ Glued(k) THEN written ELSE written \cup {rec}

Holder == Head(turn)
Release == turn' = Tail(turn) /\ step' = "stat" /\ slot' = 0

---------------------------------------------------------------------------
(* append, called by a handler of the daemon                               *)

Enqueue(job) ==
  /\ turn' = Append(turn, job)
  /\ UNCHANGED <<files, step, slot, fd, serial, rotations, written, faults>>

TooLong == Len(files[0]) >= MaxBytes

Stat ==
  /\ turn # <<>> /\ step = "stat"
  /\ step' = IF TooLong THEN "unlink" ELSE "write"
  /\ UNCHANGED <<files, turn, slot, fd, serial, rotations, written, faults>>

\* What a shim has open stays open under its new name, or without one.
Moved(k, to) == [s \in Shims |-> IF fd[s].slot = k THEN [fd[s] EXCEPT !.slot = to] ELSE fd[s]]

Unlink ==
  /\ turn # <<>> /\ step = "unlink"
  /\ files' = [files EXCEPT ![MAX_ROTATED] = <<>>]
  /\ fd' = Moved(MAX_ROTATED, Gone)
  /\ step' = "shift"
  /\ slot' = MAX_ROTATED - 1
  /\ rotations' = rotations + 1
  /\ UNCHANGED <<turn, serial, written, faults>>

\* Mutant: one slot too many.
NextShift_PastTheLog == IF slot = -1 THEN step' = "write" /\ slot' = 0
                                     ELSE slot' = slot - 1 /\ UNCHANGED step

\* From the oldest to audit.log itself.
NextShift == IF slot = 0 THEN step' = "write" /\ slot' = 0
                         ELSE slot' = slot - 1 /\ UNCHANGED step

\* Mutant: from audit.log to the oldest.
Shift_LogFirst ==
  /\ turn # <<>> /\ step = "shift"
  /\ LET k == MAX_ROTATED - 1 - slot IN
     IF files[k] # <<>>
       THEN /\ files' = [files EXCEPT ![k + 1] = files[k], ![k] = <<>>]
            /\ fd' = Moved(k, k + 1)
       ELSE UNCHANGED <<files, fd>>
  /\ NextShift
  /\ UNCHANGED <<turn, serial, rotations, written, faults>>

Shift ==
  /\ turn # <<>> /\ step = "shift"
  /\ IF files[slot] # <<>>
       THEN /\ files' = [files EXCEPT ![slot + 1] = files[slot], ![slot] = <<>>]
            /\ fd' = Moved(slot, slot + 1)
       ELSE UNCHANGED <<files, fd>>
  /\ NextShift
  /\ UNCHANGED <<turn, serial, rotations, written, faults>>

\* Mutant: waits while the file is too long, which a shim may have made it.
Write_WhenShort ==
  /\ turn # <<>> /\ step = "write" /\ ~TooLong
  /\ Written(0, Stamp(Holder))
  /\ serial' = serial + 1
  /\ Release
  /\ UNCHANGED <<fd, rotations, faults>>

Write ==
  /\ turn # <<>> /\ step = "write"
  /\ Written(0, Stamp(Holder))
  /\ serial' = serial + 1
  /\ Release
  /\ UNCHANGED <<fd, rotations, faults>>

Fault == faults < MaxFaults /\ faults' = faults + 1

\* An OSError anywhere is swallowed by append; the lock is released.
Fails ==
  /\ turn # <<>> /\ step # "stat"
  /\ Fault
  /\ Release
  /\ UNCHANGED <<files, fd, serial, rotations, written>>

\* The disk is full in the middle of a line.
WriteTorn ==
  /\ turn # <<>> /\ step = "write"
  /\ Fault
  /\ files' = AppendTo(0, Stamp(Holder), "torn")
  /\ serial' = serial + 1
  /\ Release
  /\ UNCHANGED <<fd, rotations, written>>

DaemonLogs == Stat \/ Unlink \/ Shift \/ Write \/ Fails \/ WriteTorn

\* The threads die with the daemon.
LogCrash ==
  /\ Fault
  /\ turn' = <<>>
  /\ step' = "stat"
  /\ slot' = 0
  /\ UNCHANGED <<files, fd, serial, rotations, written>>

---------------------------------------------------------------------------
(* fs.appendFileSync in a shim: it opens, creating the file, and writes    *)

ShimOpens(s, job) ==
  /\ fd[s] = Closed
  /\ fd' = [fd EXCEPT ![s] = [slot |-> 0, rec |-> Stamp(job)]]
  /\ serial' = serial + 1
  /\ UNCHANGED <<files, turn, step, slot, rotations, written, faults>>

\* The file it opened need not be audit.log any more.
ShimWrites(s) ==
  /\ fd[s] # Closed
  /\ Written(fd[s].slot, fd[s].rec)
  /\ fd' = [fd EXCEPT ![s] = Closed]
  /\ UNCHANGED <<turn, step, slot, serial, rotations, faults>>

\* An error is a warning.
ShimWriteFails(s) ==
  /\ fd[s] # Closed
  /\ Fault
  /\ fd' = [fd EXCEPT ![s] = Closed]
  /\ UNCHANGED <<files, turn, step, slot, serial, rotations, written>>

---------------------------------------------------------------------------
(* properties                                                              *)

\* What a reader of all four files finds.
Kept == UNION {{files[k][i].rec : i \in DOMAIN files[k]} : k \in Slots}

\* A rotation, also one cut short and begun again, under appends of the shims to
\* files being renamed, loses records from the oldest on and only those, and none
\* before the third rotation begun after it was opened (_rotate_sync); a record opened
\* while a rotation runs does not outlive three more.
RotationKeepsNewest == \A r \in written \ Kept :
  /\ rotations >= r.born + MAX_ROTATED
  /\ \A q \in Kept : r.n < q.n
=============================================================================
