------------------------------ MODULE Extension ------------------------------
(***************************************************************************)
(* The VS Code extension (extension/src): every change of package.json     *)
(* starts a handler that scans the added dependencies one after the other; *)
(* commands and health probes run among them.  One JavaScript thread: an   *)
(* action is the code between two awaits.                                  *)
(***************************************************************************)
EXTENDS Integers, FiniteSets

CONSTANTS
  Packages,
  MaxSaves,   \* bound on the changes of package.json
  NoPackage

ASSUME ExtensionAssumption == MaxSaves \in Nat /\ NoPackage \notin Packages

Unreadable == {NoPackage}   \* what a file that cannot be read, or is empty, reads as

VARIABLES
  events,    \* the handler of each change: [pc, raw, todo]
  prevDeps,  \* _prevDeps of that file
  call,      \* the fetch each activity awaits
  item,      \* the status bar item
  timer,     \* its reset timer is pending
  offline,   \* _offline, which the offline item shows: the listener is told of every flip
  tokenFile, \* daemon.token, as the daemon would judge it
  token,     \* _tokenCache
  up,        \* the daemon serves
  asked      \* history: the dependencies a scan was begun for

vars == <<events, prevDeps, call, item, timer, offline, tokenFile, token, up, asked>>

Events     == 1 .. MaxSaves
Startup    == 0
Polling    == -1
Command    == -2
Activities == -2 .. MaxSaves
Decisions  == {"ALLOW", "WARN", "BLOCK"}
NoEvent    == [pc |-> "off", raw |-> {}, todo |-> {}]

\* activate: the first poll is sent, then _checkDaemonHealth's probe.
Init ==
  /\ events = [t \in Events |-> NoEvent]
  /\ prevDeps = {}
  /\ call = [a \in Activities |-> IF a \in {Startup, Polling} THEN "sent" ELSE "none"]
  /\ item = "scanning"
  /\ timer = FALSE
  /\ offline = FALSE
  /\ tokenFile \in {"none", "good"}
  /\ token = "unread"
  /\ up \in (IF tokenFile = "good" THEN BOOLEAN ELSE {FALSE})
  /\ asked = {}

---------------------------------------------------------------------------
(* statusBar.ts                                                            *)

\* Mutant: the pending timer is not cleared.
SetState_KeepsTimer(state) ==
  item' = state /\ timer' = (timer \/ state \in {"warned", "blocked"})

\* setState clears the timer; a verdict starts it again.
SetState(state) == item' = state /\ timer' = (state \in {"warned", "blocked"})

TimerFires ==
  /\ timer
  /\ SetState("idle")
  /\ UNCHANGED <<events, prevDeps, call, offline, tokenFile, token, up, asked>>

\* Mutant: the decision is taken for a state.
Shown_Untranslated(decision) == decision

Shown(decision) == CASE decision = "WARN"  -> "warned"
                     [] decision = "BLOCK" -> "blocked"
                     [] OTHER              -> "idle"

---------------------------------------------------------------------------
(* daemonClient.ts                                                         *)

\* _readToken: what the first call finds, a missing file included, is kept.
ReadToken == IF token = "unread" THEN tokenFile ELSE token

Send(a, what) == call' = [call EXCEPT ![a] = what]

\* An authenticated request; "bare" without a token the daemon accepts.
SendAuthed(a) == Send(a, IF ReadToken = "good" THEN "sent" ELSE "bare") /\ token' = ReadToken

Pending(a)   == call[a] \in {"sent", "bare"}
Settled(a)   == ~Pending(a) /\ call[a] # "none"

\* The response, or the error, of a scan or a poll: no connection, 401, 500, a verdict.
Answer(a) ==
  /\ Pending(a) /\ a # Startup
  /\ \/ ~up /\ Send(a, "failed")
     \/ up /\ a = Polling /\ Send(a, "ok")
     \/ up /\ a # Polling /\ Send(a, "refused")
     \/ up /\ a # Polling /\ call[a] = "sent" /\ \E d \in Decisions : Send(a, d)
  /\ UNCHANGED <<events, prevDeps, item, timer, offline, tokenFile, token, up, asked>>

\* scan: anything but a verdict counts as an offline daemon, and allows.
Verdict(a) == IF call[a] \in Decisions THEN call[a] ELSE "ALLOW"

\* Mutant: a flag once set is only cleared by a scan.
Observed_Sticks(a) == call[a] \in {"failed", "refused"} \/ (a = Polling /\ offline)

\* _setOffline, of a scan and of a poll.
Observed(a) == call[a] \in {"failed", "refused"}

\* startHealthPolling: the answer is taken up, and the interval sends the next probe;
\* how long it waits is part of how long that one is on its way.
Poll ==
  /\ Settled(Polling)
  /\ Send(Polling, "sent")
  /\ offline' = Observed(Polling)
  /\ UNCHANGED <<events, prevDeps, item, timer, tokenFile, token, up, asked>>

---------------------------------------------------------------------------
(* extension.ts                                                            *)

\* _checkDaemonHealth: the answer to its probe, taken up at once.
Started ==
  /\ Pending(Startup)
  /\ Send(Startup, "none")
  /\ offline' = ~up
  /\ SetState(IF up THEN "idle" ELSE "error")
  /\ UNCHANGED <<events, prevDeps, tokenFile, token, up, asked>>

\* _cmdOpenDashboard, with the answer to its probe.
OpenDashboard ==
  /\ offline' = ~up
  /\ IF up THEN UNCHANGED <<item, timer>> ELSE SetState("error")
  /\ UNCHANGED <<events, prevDeps, call, tokenFile, token, up, asked>>

\* _cmdScanPackage: its verdict goes to the status bar and a panel.
ScanPackage ==
  /\ call[Command] = "none"
  /\ SetState("scanning")
  /\ SendAuthed(Command)
  /\ UNCHANGED <<events, prevDeps, offline, tokenFile, up, asked>>

PackageScanned ==
  /\ Settled(Command)
  /\ Send(Command, "none")
  /\ offline' = Observed(Command)
  /\ SetState(Shown(Verdict(Command)))
  /\ UNCHANGED <<events, prevDeps, tokenFile, token, up, asked>>

---------------------------------------------------------------------------
(* interceptor.ts                                                          *)

Step(t, pc) == events' = [events EXCEPT ![t].pc = pc]

\* Somebody saves package.json; with autoScan off nothing else happens.
Save(t) ==
  /\ events[t].pc = "off" /\ \A u \in 1 .. t - 1 : events[u].pc # "off"
  /\ Step(t, "reading") \/ Step(t, "done")
  /\ UNCHANGED <<prevDeps, call, item, timer, offline, tokenFile, token, up, asked>>

\* readFile reads what is there by now, {} when malformed; its promise is taken up
\* later.
ReadFile(t) ==
  /\ events[t].pc = "reading"
  /\ \E raw \in (SUBSET Packages) \cup {Unreadable} :
       events' = [events EXCEPT ![t].pc = "read", ![t].raw = raw]
  /\ UNCHANGED <<prevDeps, call, item, timer, offline, tokenFile, token, up, asked>>

\* The loop over the added dependencies, from its head: _scanDep of the next one, up to
\* the request, or the end; Last is what the bar was left with.
Loop(t, todo, Last) ==
  IF todo = {}
    THEN /\ events' = [events EXCEPT ![t] = [NoEvent EXCEPT !.pc = "done"]]
         /\ Last /\ Send(t, "none")
         /\ UNCHANGED <<token, asked>>
    ELSE \E dep \in todo :
           /\ events' = [events EXCEPT ![t] = [pc |-> "asking", raw |-> {}, todo |-> todo \ {dep}]]
           /\ asked' = asked \cup {dep}
           /\ SetState("scanning")
           /\ SendAuthed(t)

\* Mutant: _prevDeps is set before the comparison.
Added_AfterSet(raw) == raw \ raw

Added(raw) == raw \ prevDeps

\* What was read is compared with what the last handler left, and replaces it.
OnChange(t) ==
  /\ events[t].pc = "read"
  /\ LET raw == events[t].raw IN
     IF raw = Unreadable
       THEN Loop(t, {}, UNCHANGED <<item, timer>>) /\ UNCHANGED prevDeps
       ELSE Loop(t, Added(raw), UNCHANGED <<item, timer>>) /\ prevDeps' = raw
  /\ UNCHANGED <<offline, tokenFile, up>>

\* Mutant: an error is thrown, and the handler with it waits for nothing.
Fetched_Throws(t) == events[t].pc = "asking" /\ call[t] \in Decisions

Fetched(t) == events[t].pc = "asking" /\ Settled(t)

\* A warning or a block opens a notification, and the loop waits until it is closed.
DepScanned(t) ==
  /\ Fetched(t)
  /\ offline' = Observed(t)
  /\ IF Verdict(t) = "ALLOW"
       THEN Loop(t, events[t].todo, SetState(Shown(Verdict(t))))
       ELSE Step(t, "notify") /\ SetState(Shown(Verdict(t))) /\ UNCHANGED <<call, token, asked>>
  /\ UNCHANGED <<prevDeps, tokenFile, up>>

\* notificationUI.ts: it is closed (Show Details only asks once more).  Of a warning,
\* going on and cancelling are reported first; of a block nothing is.
Choose(t) ==
  /\ events[t].pc = "notify"
  /\ \/ Loop(t, events[t].todo, UNCHANGED <<item, timer>>)
     \/ /\ call[t] = "WARN"
        /\ Step(t, "posting") /\ Send(t, "none") /\ token' = ReadToken
        /\ UNCHANGED <<item, timer, asked>>
  /\ UNCHANGED <<prevDeps, offline, tokenFile, up>>

\* _postAuditEvent: whatever comes back.
Posted(t) ==
  /\ events[t].pc = "posting"
  /\ Loop(t, events[t].todo, UNCHANGED <<item, timer>>)
  /\ UNCHANGED <<prevDeps, offline, tokenFile, up>>

---------------------------------------------------------------------------
(* the daemon                                                              *)

\* Its first start creates the token.
DaemonStarts == ~up /\ up' = TRUE /\ tokenFile' = "good"
                /\ UNCHANGED <<events, prevDeps, call, item, timer, offline, token, asked>>
DaemonStops  == up /\ up' = FALSE
                /\ UNCHANGED <<events, prevDeps, call, item, timer, offline, tokenFile, token, asked>>

---------------------------------------------------------------------------

Handler(t) == ReadFile(t) \/ OnChange(t) \/ DepScanned(t) \/ Posted(t)
Resumes    == Started \/ PackageScanned

Next ==
  \/ \E t \in Events : Save(t) \/ Handler(t) \/ Choose(t)
  \/ \E a \in Activities : Answer(a)
  \/ Resumes \/ Poll \/ TimerFires \/ OpenDashboard \/ ScanPackage
  \/ DaemonStarts \/ DaemonStops

Spec == Init /\ [][Next]_vars

\* The event loop takes up what is settled, fetch has timeouts, the interval fires.
Fairness ==
  /\ \A t \in Events : WF_vars(Handler(t))
  /\ \A a \in Activities : WF_vars(Answer(a))
  /\ WF_vars(Poll) /\ WF_vars(Started) /\ WF_vars(PackageScanned)

FairSpec == Spec /\ Fairness

---------------------------------------------------------------------------
(* properties                                                              *)

\* The variables hold what their comments say.
TypeOK ==
  /\ prevDeps \subseteq Packages
  /\ asked \subseteq Packages
  /\ events \in [Events -> [pc : {"off", "reading", "read", "asking", "notify", "posting",
                                  "done"},
                            raw : (SUBSET Packages) \cup {Unreadable}, todo : SUBSET Packages]]
  /\ call \in [Activities -> Decisions \cup {"none", "sent", "bare", "ok", "failed", "refused"}]
  /\ item \in {"idle", "scanning", "warned", "blocked", "error"}
  /\ timer \in BOOLEAN /\ offline \in BOOLEAN /\ up \in BOOLEAN
  /\ tokenFile \in {"none", "good"} /\ token \in {"unread", "none", "good"}

\* Every dependency a handler takes note of was scanned or waits for its turn, however the
\* handlers of overlapping changes read, resume and overwrite _prevDeps (_onChange).
NoneMissed == prevDeps \subseteq asked \cup UNION {events[t].todo : t \in Events}

\* The status bar says "scanning" only while something is being scanned or probed, and
\* the timer that will clear it is only ever that of the verdict it shows (setState,
\* _scheduleReset).
BarIsTrue ==
  /\ item = "scanning" => \/ \E t \in Events : events[t].pc = "asking"
                          \/ call[Startup] # "none" \/ call[Command] # "none"
  /\ timer => item \in {"warned", "blocked"}

\* Every change's handler ends or has a notification open: no fetch, no other handler
\* and no command keeps it from the rest of its dependencies (_onChange).
ScansEnd == []<>(\A t \in Events : events[t].pc \in {"off", "done", "notify"})

\* The offline item shows where the daemon ends up, late answers or not: hidden when it
\* stays up and refuses no scan, shown when it stays down ("must stay visible until the
\* daemon recovers", statusBar.ts).
IndicatorSettles ==
  /\ <>[](up /\ \A a \in Activities : call[a] # "refused") => <>[]~offline
  /\ <>[](~up) => <>[]offline
=============================================================================
