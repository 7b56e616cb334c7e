------------------------------- MODULE NpmShim -------------------------------
(***************************************************************************)
(* intercept/npm-shim.js: one process per npm command.  It asks the daemon *)
(* about each package in turn, falls back on the offline cache, prompts,   *)
(* logs a bypass, and runs npm or not.  The daemon is in InstallPath.      *)
(***************************************************************************)
EXTENDS AuditLog

CONSTANTS
  Commands,     \* what a process may be given: [install, args, bypass, tty]
  MaxArgs,      \* bound on the arguments of a command
  Names,        \* package arguments
  Mistaken,     \* those that read "i" or "install"
  Configs       \* ~/.cidas/config.json: [bypass_disabled, confirm]

ASSUME ShimAssumption ==
  /\ Mistaken \subseteq Names
  /\ MaxArgs \in Nat
  /\ Commands \subseteq
       [install : BOOLEAN, args : Seq(Names), bypass : BOOLEAN, tty : BOOLEAN]
  /\ \A c \in Commands : Len(c.args) <= MaxArgs
  /\ Configs \subseteq [bypass_disabled : BOOLEAN, confirm : BOOLEAN]

Turns == 1 .. MaxArgs      \* the place of a package among the arguments

VARIABLES
  shim,     \* each process: [pc, cmd, i, blocked, exit]; i is the package's turn
  request,  \* its request: [at, reply]; at is none, sent, taken (by the daemon), replied,
            \* lost without an answer, or cut off within it
  answers,  \* history: what the package of each turn came to, "none" before it has
  config,   \* the admin configuration
  token,    \* daemon.token: "none", "good", or "stale", one the daemon refuses
  offline   \* the packages with an ALLOW in offline-cache.json that is not too old

shimVars == <<shim, request, answers, config, token, offline>>

Idle == [at |-> "none", reply |-> "none"]

ShimInit ==
  /\ \E cmd \in [Shims -> Commands] :
       shim = [s \in Shims |-> [pc |-> "start", cmd |-> cmd[s], i |-> 0, blocked |-> FALSE,
                                exit |-> -1]]
  /\ request = [s \in Shims |-> Idle]
  /\ answers = [s \in Shims |-> [k \in Turns |-> "none"]]
  /\ config \in Configs
  /\ token \in {"none", "good", "stale"}
  /\ offline \in SUBSET Names

\* Where the packages stand in args.slice(1), which has no flags here: not at the
\* words of the command itself.
Packages(s) ==
  {k \in DOMAIN shim[s].cmd.args : shim[s].cmd.args[k] \notin Mistaken}
Later(s)    == {k \in Packages(s) : k > shim[s].i}
Current(s)  == shim[s].cmd.args[shim[s].i]

Goto(s, pc)   == [shim EXCEPT ![s].pc = pc]
\* Mutant: process.exit() without the code.
Exit_WithoutCode(s, code) == [shim EXCEPT ![s].pc = "done", ![s].exit = 0]
Exit(s, code) == [shim EXCEPT ![s].pc = "done", ![s].exit = code]

\* _main up to the loop: nothing to screen, a bypass, no token, or the first package.
Started(s) == LET cmd == shim[s].cmd IN
  CASE ~cmd.install \/ (~cmd.bypass /\ Packages(s) = {}) -> Goto(s, "npm")
    [] cmd.install /\ cmd.bypass                           -> Goto(s, "bypass")
    [] OTHER -> IF token = "none" THEN Exit(s, 1) ELSE Goto(s, "next")

Start(s) ==
  /\ shim[s].pc = "start"
  /\ shim' = Started(s)
  /\ UNCHANGED <<request, answers, config, token, offline, log>>

\* _handleBypass: refused, or logged before npm runs.
BypassRefused(s) ==
  /\ shim[s].pc = "bypass"
  /\ config.bypass_disabled
  /\ shim' = Exit(s, 1)
  /\ UNCHANGED <<request, answers, config, token, offline, log>>

BypassOpens(s) ==
  /\ shim[s].pc = "bypass"
  /\ ~config.bypass_disabled
  /\ ShimOpens(s, <<s, 0>>)
  /\ shim' = Goto(s, "logging")
  /\ UNCHANGED <<request, answers, config, token, offline>>

BypassLogged(s) ==
  /\ shim[s].pc = "logging"
  /\ ShimWrites(s) \/ ShimWriteFails(s)
  /\ shim' = Goto(s, "npm")
  /\ UNCHANGED <<request, answers, config, token, offline>>

\* Mutant: the last package decides.
AfterLoop_LastDecides(s) ==
  IF shim[s].i # 0 /\ answers[s][shim[s].i] = "BLOCK" THEN Exit(s, 1) ELSE Goto(s, "npm")

\* After the last package: a block is remembered to the end of the loop.
AfterLoop(s) == IF shim[s].blocked THEN Exit(s, 1) ELSE Goto(s, "npm")

Ask(s) ==
  /\ shim[s].pc = "next"
  /\ \/ \E k \in Later(s) :
          /\ \A j \in Later(s) : k <= j
          /\ shim' = [shim EXCEPT ![s].pc = "asked", ![s].i = k]
          /\ request' = [request EXCEPT ![s].at = "sent"]
     \/ /\ Later(s) = {}
        /\ shim' = AfterLoop(s)
        /\ UNCHANGED request
  /\ UNCHANGED <<answers, config, token, offline, log>>

Note(s, what) == answers' = [answers EXCEPT ![s][shim[s].i] = what]

\* Mutant: no timeout.
Unanswered_RefusedOnly(s) ==
  /\ shim[s].pc = "asked"
  /\ request[s].at \in {"sent", "lost"}
  /\ shim' = Goto(s, "next")
  /\ request' = [request EXCEPT ![s] = Idle]
  /\ Note(s, IF Current(s) \in offline THEN "cached" ELSE "unscreened")
  /\ UNCHANGED <<config, token, offline, log>>

\* Refused, dropped before it was answered, not JSON, or 60 s over: the offline cache,
\* or a warning.
Unanswered(s) ==
  /\ shim[s].pc = "asked"
  /\ request[s].at \notin {"replied", "cut"}
  /\ shim' = Goto(s, "next")
  /\ request' = [request EXCEPT ![s] = Idle]
  /\ Note(s, IF Current(s) \in offline THEN "cached" ELSE "unscreened")
  /\ UNCHANGED <<config, token, offline, log>>

\* An answer cut off after its headers: res has no handler but for data and end, and
\* req no longer fails, so the promise is never settled; node exits because nothing is
\* left to wait for.
CutOff(s) ==
  /\ shim[s].pc = "asked"
  /\ request[s].at = "cut"
  /\ shim' = Exit(s, 0)
  /\ request' = [request EXCEPT ![s] = Idle]
  /\ Note(s, "cut")
  /\ UNCHANGED <<config, token, offline, log>>

\* _shouldPromptForWarn; "WARN!" is a WARN with requires_confirmation.
ShouldPrompt(s, reply) ==
  /\ reply \in {"WARN", "WARN!"}
  /\ shim[s].cmd.tty
  /\ reply = "WARN!" \/ config.confirm

\* Any JSON is an answer; one whose decision is neither BLOCK nor WARN allows.
Receive(s) ==
  /\ shim[s].pc = "asked"
  /\ request[s].at = "replied"
  /\ LET reply == request[s].reply IN
       /\ \/ ShouldPrompt(s, reply) /\ shim' = Goto(s, "prompt")
          \/ reply = "BLOCK" /\ shim' = [Goto(s, "next") EXCEPT ![s].blocked = TRUE]
          \/ reply # "BLOCK" /\ ~ShouldPrompt(s, reply) /\ shim' = Goto(s, "next")
       /\ Note(s, reply)
  /\ request' = [request EXCEPT ![s] = Idle]
  /\ UNCHANGED <<config, token, offline, log>>

\* "proceed"; anything else, or Ctrl-C; or the end of the input, after which this
\* promise is never settled either.
Prompt(s) ==
  /\ shim[s].pc = "prompt"
  /\ \/ shim' = Goto(s, "next") /\ Note(s, "confirmed")
     \/ shim' = Exit(s, 1)      /\ UNCHANGED answers
     \/ shim' = Exit(s, 0)      /\ Note(s, "eof")
  /\ UNCHANGED <<request, config, token, offline, log>>

\* npm's own status, or 0 when a signal ended it; 0 too when it could not be started.
Passthrough(s) ==
  /\ shim[s].pc = "npm"
  /\ \/ \E status \in {0, 1} : shim' = [shim EXCEPT ![s].pc = "ran", ![s].exit = status]
     \/ shim' = [shim EXCEPT ![s].pc = "unstarted", ![s].exit = 0]
  /\ UNCHANGED <<request, answers, config, token, offline, log>>

ShimRuns(s) == Start(s) \/ BypassRefused(s) \/ BypassOpens(s) \/ BypassLogged(s)
               \/ Ask(s) \/ Unanswered(s) \/ CutOff(s) \/ Receive(s) \/ Passthrough(s)

Ran(s)   == shim[s].pc = "ran"
Ended(s) == shim[s].pc \in {"done", "ran", "unstarted"}
=============================================================================
