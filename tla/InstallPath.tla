----------------------------- MODULE InstallPath -----------------------------
(***************************************************************************)
(* npm commands, the daemon that answers them and records every verdict,   *)
(* and the audit log both write: NpmShim (which extends AuditLog) with the *)
(* daemon's side of a request.  How a verdict is reached is in ScanDaemon. *)
(***************************************************************************)
EXTENDS NpmShim, FiniteSets

CONSTANTS
  User,          \* whoever overrides a verdict in the editor
  MaxOverrides   \* bound on those overrides

ASSUME InstallAssumption == MaxOverrides \in Nat

VARIABLES
  up,         \* the daemon serves
  handler,    \* its handler of each request: "none", "deciding", or the verdict it
              \* is recording
  overrides   \* overrides recorded so far

vars == <<shimVars, log, up, handler, overrides>>

Verdicts == {"ALLOW", "WARN", "WARN!", "BLOCK"}
Requests == Shims \X Turns
Jobs     == Requests \cup ({User} \X (1 .. MaxOverrides))

Init ==
  /\ ShimInit
  /\ LogInit
  /\ up \in BOOLEAN
  /\ handler = [r \in Requests |-> "none"]
  /\ overrides \in 0 .. MaxOverrides   \* how many are left

\* require_token, then a handler of its own, which outlives the shim's patience.
Take(s) ==
  /\ up
  /\ request[s].at = "sent"
  /\ IF token = "good"
       THEN /\ request' = [request EXCEPT ![s].at = "taken"]
            /\ handler' = [handler EXCEPT ![<<s, shim[s].i>>] = "deciding"]
       ELSE /\ request' = [request EXCEPT ![s] = [at |-> "replied", reply |-> "unauthorized"]]
            /\ UNCHANGED handler
  /\ UNCHANGED <<shim, answers, config, token, offline, log, up, overrides>>

\* A verdict; an ALLOW goes to the offline cache; then the audit record, awaited.
Decide(s, i) ==
  /\ handler[<<s, i>>] = "deciding"
  /\ \E verdict \in Verdicts :
       /\ handler' = [handler EXCEPT ![<<s, i>>] = verdict]
       /\ offline' = IF verdict = "ALLOW" THEN offline \cup {shim[s].cmd.args[i]} ELSE offline
  /\ Enqueue(<<s, i>>)
  /\ UNCHANGED <<shim, request, answers, config, token, up, overrides>>

\* Mutant: the append is not awaited.
Respond_NotAwaited(s, i) ==
  /\ handler[<<s, i>>] \in Verdicts
  /\ handler' = [handler EXCEPT ![<<s, i>>] = "none"]
  /\ request' = IF request[s].at = "taken" /\ shim[s].i = i
                THEN [request EXCEPT ![s] = [at |-> "replied", reply |-> handler[<<s, i>>]]]
                ELSE request
  /\ UNCHANGED <<shim, answers, config, token, offline, log, up, overrides>>

\* The reply, if somebody still waits for it.
Respond(s, i) ==
  /\ handler[<<s, i>>] \in Verdicts
  /\ <<s, i>> \notin Range(turn)
  /\ handler' = [handler EXCEPT ![<<s, i>>] = "none"]
  /\ request' = IF request[s].at = "taken" /\ shim[s].i = i
                THEN [request EXCEPT ![s] = [at |-> "replied", reply |-> handler[<<s, i>>]]]
                ELSE request
  /\ UNCHANGED <<shim, answers, config, token, offline, log, up, overrides>>

\* POST /audit/override.
Override ==
  /\ up
  /\ overrides < MaxOverrides
  /\ overrides' = overrides + 1
  /\ Enqueue(<<User, overrides + 1>>)
  /\ UNCHANGED <<shimVars, up, handler>>

\* A connection does not outlive either end: a request is lost, an answer has arrived
\* whole or is cut off.
Dropped(cut) == [s \in Shims |->
  CASE request[s].at \in {"sent", "taken"}    -> [request[s] EXCEPT !.at = "lost"]
    [] request[s].at = "replied" /\ s \in cut -> [request[s] EXCEPT !.at = "cut"]
    [] OTHER                                  -> request[s]]

Crash ==
  /\ up
  /\ up' = FALSE
  /\ LogCrash
  /\ handler' = [r \in Requests |-> "none"]
  /\ \E cut \in SUBSET {s \in Shims : request[s].at = "replied"} : request' = Dropped(cut)
  /\ UNCHANGED <<shim, answers, config, token, offline, overrides>>

Restart ==
  /\ ~up
  /\ up' = TRUE
  /\ request' = Dropped({})
  /\ UNCHANGED <<shim, answers, config, token, offline, log, handler, overrides>>

Daemon == (DaemonLogs /\ UNCHANGED <<shimVars, up, handler, overrides>>)
          \/ \E s \in Shims : Take(s) \/ \E i \in Turns : Decide(s, i) \/ Respond(s, i)

Next ==
  \/ \E s \in Shims : (ShimRuns(s) \/ Prompt(s)) /\ UNCHANGED <<up, handler, overrides>>
  \/ Daemon \/ Override \/ Crash \/ Restart

\* A process and a thread of the executor are scheduled, a socket's timeout fires, npm
\* ends; nobody has to type anything.
Fairness ==
  /\ \A s \in Shims : WF_vars(ShimRuns(s) /\ UNCHANGED <<up, handler, overrides>>)
  /\ WF_vars(DaemonLogs /\ UNCHANGED <<shimVars, up, handler, overrides>>)

Spec     == Init /\ [][Next]_vars
FairSpec == Spec /\ Fairness

---------------------------------------------------------------------------
(* properties                                                              *)

Record  == [job : Jobs \cup (Shims \X {0}), n : 1 .. serial, born : 0 .. rotations]
Line    == [rec : Record, state : {"whole", "torn", "swallowed"}]
Answers == Verdicts \cup {"none", "unauthorized", "cached", "unscreened", "confirmed", "eof",
                          "cut"}

LogTyped ==
  /\ files \in [Slots -> Seq(Line)] /\ written \subseteq Record
  /\ turn \in Seq(Jobs)
  /\ step \in {"stat", "unlink", "shift", "write"} /\ slot \in 0 .. MAX_ROTATED - 1
  /\ fd \in [Shims -> [slot : Slots \cup {Gone}, rec : Record] \cup {Closed}]
  /\ serial \in Nat /\ rotations \in Nat /\ faults \in 0 .. MaxFaults

ShimTyped ==
  /\ shim \in [Shims ->
       [pc : {"start", "next", "asked", "prompt", "bypass", "logging", "npm", "ran",
              "unstarted", "done"},
        cmd : Commands, i : 0 .. MaxArgs, blocked : BOOLEAN, exit : {-1, 0, 1}]]
  /\ request \in [Shims -> [at : {"none", "sent", "taken", "replied", "lost", "cut"},
                            reply : Verdicts \cup {"none", "unauthorized"}]]
  /\ answers \in [Shims -> [Turns -> Answers]]
  /\ config \in Configs /\ token \in {"none", "good", "stale"} /\ offline \subseteq Names

DaemonTyped ==
  /\ handler \in [Requests -> Verdicts \cup {"none", "deciding"}]
  /\ overrides \in 0 .. MaxOverrides /\ up \in BOOLEAN

\* The variables hold what their comments say.
TypeOK == LogTyped /\ ShimTyped /\ DaemonTyped

\* A command whose packages are to be screened.
Screened(s) == shim[s].cmd.install /\ ~shim[s].cmd.bypass

\* When npm installs what was to be screened, every package had its turn, none of
\* them was answered BLOCK (not even before one that was allowed), and a WARN that
\* asks for confirmation on a terminal was confirmed (_main).
OnlyScreenedInstalls == \A s \in Shims : Ran(s) /\ Screened(s) =>
  \A k \in Packages(s) : /\ answers[s][k] \notin {"none", "BLOCK"}
                         /\ ~ShouldPrompt(s, answers[s][k])

\* A loop that waits for what will not come, until node exits 0.
Stranded(s) == shim[s].i # 0 /\ answers[s][shim[s].i] \in {"eof", "cut"}

\* A command that exits 0 has called npm, of what was to be screened every package had
\* its turn, and none was answered BLOCK: whether npm ended well, was killed, or could
\* not be started (_main, _passthrough).  Excepted is a loop that was stranded at the
\* prompt or in an answer, after which npm is not called (_promptProceed, _scan).
ZeroMeansCleared == \A s \in Shims : shim[s].exit = 0 =>
  IF Stranded(s)
    THEN shim[s].pc = "done"
    ELSE /\ shim[s].pc \in {"ran", "unstarted"}
         /\ Screened(s) => \A k \in Packages(s) : answers[s][k] \notin {"none", "BLOCK"}

\* Packages npm installed that the log should tell of: answered, or bypassed.
Accountable ==
  {r \in Requests : /\ Ran(r[1]) /\ Screened(r[1])
                   /\ answers[r[1]][r[2]] \in Verdicts \cup {"confirmed"}}
  \cup {<<s, 0>> : s \in {t \in Shims : Ran(t) /\ shim[t].cmd.install /\ shim[t].cmd.bypass}}

\* What was installed on an answer or a bypass has its record, whatever rotations and
\* appends of other processes came between; a failed write costs its own record
\* and, when it left half a line, the next (_append_sync, _writeAuditLog).
InstalledIsLogged ==
  Cardinality({j \in Accountable : \A r \in written : r.job # j}) <= 2 * faults

\* Whoever holds the log's lock gives it back, whatever fails, so every append has its
\* turn (append: "Failures are logged but never raised").
LockIsReleased == []<>(turn = <<>> \/ step = "stat")

\* Whatever the daemon does, a command ends or waits for its user to type (_scan's
\* timeout).
ShimsEnd == <>(\A s \in Shims : Ended(s) \/ shim[s].pc = "prompt")

\* What the shim says when it has no token, "Refusing to install without
\* authenticated screening": no package is installed on an answer to a request the
\* daemon did not authenticate.
AuthenticatedScreening == \A s \in Shims :
  Ran(s) => \A k \in Turns : answers[s][k] # "unauthorized"
=============================================================================
