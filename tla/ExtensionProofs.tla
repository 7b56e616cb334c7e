--------------------------- MODULE ExtensionProofs ---------------------------
(***************************************************************************)
(* The safety of the extension, for any packages and any number of         *)
(* overlapping changes.                                                    *)
(***************************************************************************)
EXTENDS Extension, TLAPS

Handlers ==
  [pc : {"off", "reading", "read", "asking", "notify", "posting", "done"},
   raw : (SUBSET Packages) \cup {Unreadable}, todo : SUBSET Packages]
Calls  == Decisions \cup {"none", "sent", "bare", "ok", "failed", "refused"}
Items  == {"idle", "scanning", "warned", "blocked", "error"}
Tokens == {"unread", "none", "good"}

DepsTyped  == prevDeps \subseteq Packages /\ asked \subseteq Packages
EventsTyped == events \in [Events -> Handlers]
CallTyped  == call \in [Activities -> Calls]
BarTyped   == item \in Items /\ timer \in BOOLEAN
RestTyped  ==
  /\ offline \in BOOLEAN /\ up \in BOOLEAN
  /\ tokenFile \in {"none", "good"} /\ token \in Tokens

LEMMA TypeParts ==
  TypeOK <=> DepsTyped /\ EventsTyped /\ CallTyped /\ BarTyped /\ RestTyped
  BY DEF TypeOK, DepsTyped, EventsTyped, CallTyped, BarTyped, RestTyped, Handlers, Calls,
     Items, Tokens

(* A handler has dependencies to do only while it goes through them. *)
TodoPlaced ==
  \A t \in Events : events[t].pc \in {"off", "reading", "read", "done"} => events[t].todo = {}

IInv == TypeOK /\ TodoPlaced /\ NoneMissed /\ BarIsTrue

-----------------------------------------------------------------------------
LEMMA Indices ==
  /\ Startup \in Activities /\ Polling \in Activities /\ Command \in Activities
  /\ Startup # Command /\ Polling # Command /\ Polling # Startup
  /\ \A t \in Events : t \in Activities /\ t # Startup /\ t # Command /\ t # Polling
  BY ExtensionAssumption DEF Events, Activities, Startup, Polling, Command

LEMMA SetStateTyped ==
  ASSUME NEW state \in Items, SetState(state)
  PROVE  BarTyped' /\ item' = state /\ (timer' => item' \in {"warned", "blocked"})
<1>1. item' = state /\ timer' = (state \in {"warned", "blocked"})
  BY DEF SetState
<1>2. timer' \in BOOLEAN
  BY <1>1
<1>3. timer' => state \in {"warned", "blocked"}
  BY <1>1, Zenon
<1> QED BY <1>1, <1>2, <1>3, Zenon DEF BarTyped

LEMMA ShownTyped ==
  ASSUME NEW a \in Activities, CallTyped
  PROVE  /\ Verdict(a) \in Decisions
         /\ Shown(Verdict(a)) \in {"idle", "warned", "blocked"}
  BY DEF CallTyped, Calls, Verdict, Shown, Decisions

LEMMA SendTyped ==
  ASSUME NEW a \in Activities, NEW what \in Calls, CallTyped, Send(a, what)
  PROVE  CallTyped' /\ call'[a] = what /\ \A b \in Activities \ {a} : call'[b] = call[b]
  BY DEF Send, CallTyped

LEMMA SendAuthedTyped ==
  ASSUME NEW a \in Activities, CallTyped, RestTyped, SendAuthed(a)
  PROVE  /\ CallTyped' /\ call'[a] # "none" /\ token' \in Tokens
         /\ \A b \in Activities \ {a} : call'[b] = call[b]
<1>1. PICK what \in {"sent", "bare"} : Send(a, what)
  BY DEF SendAuthed
<1>2. what \in Calls /\ what # "none"
  BY DEF Calls
<1>3. token' \in Tokens
  BY DEF SendAuthed, ReadToken, RestTyped, Tokens
<1> QED BY <1>1, <1>2, <1>3, SendTyped

-----------------------------------------------------------------------------
(* What each part of the invariant needs of a step. *)

LEMMA BarSet ==
  ASSUME NEW state \in Items \ {"scanning"}, SetState(state)
  PROVE  BarTyped' /\ BarIsTrue'
<1>1. BarTyped' /\ item' = state /\ (timer' => item' \in {"warned", "blocked"})
  BY SetStateTyped
<1> QED BY <1>1 DEF BarIsTrue

LEMMA BarKept ==
  ASSUME BarTyped, BarIsTrue, UNCHANGED <<item, timer>>,
         \A t \in Events : events[t].pc = "asking" => events'[t].pc = "asking",
         call[Startup] # "none" => call'[Startup] # "none",
         call[Command] # "none" => call'[Command] # "none"
  PROVE  BarTyped' /\ BarIsTrue'
<1>1. BarTyped'
  BY DEF BarTyped
<1>2. (timer => item \in {"warned", "blocked"})'
  BY Zenon DEF BarIsTrue
<1>3. ASSUME item' = "scanning"
      PROVE  \/ \E t \in Events : events'[t].pc = "asking"
             \/ call'[Startup] # "none" \/ call'[Command] # "none"
  BY <1>3, Zenon DEF BarIsTrue
<1> QED BY <1>1, <1>2, <1>3, Zenon DEF BarIsTrue

(* Whatever a handler took note of and has not scanned is still in some todo. *)
LEMMA MissedKept ==
  ASSUME NoneMissed, NEW t \in Events, asked \subseteq asked',
         \A u \in Events \ {t} : events'[u].todo = events[u].todo,
         events[t].todo \subseteq asked' \cup events'[t].todo,
         prevDeps' \subseteq prevDeps \cup asked' \cup events'[t].todo
  PROVE  NoneMissed'
<1> SUFFICES ASSUME NEW dep \in prevDeps', dep \notin asked'
             PROVE  \E u \in Events : dep \in events'[u].todo
  BY DEF NoneMissed
<1>1. CASE dep \in events'[t].todo
  BY <1>1
<1>2. CASE dep \notin events'[t].todo
  <2>1. dep \in prevDeps /\ dep \notin asked /\ dep \notin events[t].todo
    BY <1>2
  <2>2. PICK u \in Events : dep \in events[u].todo
    BY <2>1 DEF NoneMissed
  <2> QED BY <2>1, <2>2
<1> QED BY <1>1, <1>2

(* A step that leaves the handlers and what they know alone. *)
LEMMA HandlersKept ==
  ASSUME IInv, UNCHANGED <<events, prevDeps, asked>>
  PROVE  EventsTyped' /\ DepsTyped' /\ TodoPlaced' /\ NoneMissed'
<1>1. EventsTyped /\ DepsTyped /\ TodoPlaced /\ NoneMissed
  BY TypeParts DEF IInv
<1> QED BY <1>1 DEF EventsTyped, DepsTyped, TodoPlaced, NoneMissed

LEMMA Parts ==
  IInv <=> /\ DepsTyped /\ EventsTyped /\ CallTyped /\ BarTyped /\ RestTyped
           /\ TodoPlaced /\ NoneMissed /\ BarIsTrue
  BY TypeParts DEF IInv

LEMMA PrimedParts ==
  IInv' <=> /\ DepsTyped' /\ EventsTyped' /\ CallTyped' /\ BarTyped' /\ RestTyped'
            /\ TodoPlaced' /\ NoneMissed' /\ BarIsTrue'
  BY Parts, PTL

-----------------------------------------------------------------------------
(* The handlers.  The loop drops none of the dependencies it is given. *)

LEMMA LoopSafe ==
  ASSUME IInv, NEW t \in Events, NEW todo \in SUBSET Packages, NEW ACTION Last,
         Loop(t, todo, Last), events[t].todo \subseteq todo,
         prevDeps' \subseteq Packages /\ prevDeps' \subseteq prevDeps \cup todo,
         offline' \in BOOLEAN, UNCHANGED <<tokenFile, up>>
  PROVE  /\ DepsTyped' /\ EventsTyped' /\ CallTyped' /\ RestTyped'
         /\ TodoPlaced' /\ NoneMissed'
         /\ \/ BarTyped' /\ BarIsTrue'
            \/ /\ Last
               /\ \A u \in Events \ {t} : events'[u] = events[u]
               /\ \A a \in Activities \ {t} : call'[a] = call[a]
<1>1. /\ DepsTyped /\ EventsTyped /\ CallTyped /\ RestTyped
      /\ TodoPlaced /\ NoneMissed
  BY Parts
<1>2. /\ EventsTyped' /\ CallTyped' /\ token' \in Tokens /\ asked' \subseteq Packages
      /\ asked \subseteq asked' /\ todo \subseteq asked' \cup events'[t].todo
      /\ \A u \in Events \ {t} : events'[u] = events[u]
      /\ \A a \in Activities \ {t} : call'[a] = call[a]
      /\ \/ events'[t].pc = "done" /\ events'[t].todo = {} /\ Last
         \/ events'[t].pc = "asking" /\ SetState("scanning")
  <2>1. t \in Activities
    BY Indices
  <2>2. CASE todo = {}
    <3>1. /\ events' = [events EXCEPT ![t] = [NoEvent EXCEPT !.pc = "done"]]
          /\ Last /\ Send(t, "none") /\ UNCHANGED <<token, asked>>
      BY <2>2 DEF Loop
    <3>2. [NoEvent EXCEPT !.pc = "done"] = [pc |-> "done", raw |-> {}, todo |-> {}]
      BY DEF NoEvent
    <3>3. [pc |-> "done", raw |-> {}, todo |-> {}] \in Handlers
      BY DEF Handlers
    <3>4. events' = [events EXCEPT ![t] = [pc |-> "done", raw |-> {}, todo |-> {}]]
      BY <3>1, <3>2
    <3>5. /\ EventsTyped' /\ events'[t] = [pc |-> "done", raw |-> {}, todo |-> {}]
          /\ \A u \in Events \ {t} : events'[u] = events[u]
      BY <1>1, <3>3, <3>4 DEF EventsTyped
    <3>6. CallTyped' /\ \A a \in Activities \ {t} : call'[a] = call[a]
      BY <1>1, <2>1, <3>1, SendTyped DEF Calls
    <3>7. token' \in Tokens /\ asked' = asked
      BY <1>1, <3>1 DEF RestTyped
    <3> QED BY <1>1, <2>2, <3>1, <3>5, <3>6, <3>7 DEF DepsTyped
  <2>3. CASE todo # {}
    <3>1. PICK dep \in todo :
            /\ events' = [events EXCEPT ![t] = [pc |-> "asking", raw |-> {},
                                                todo |-> todo \ {dep}]]
            /\ asked' = asked \cup {dep}
            /\ SetState("scanning")
            /\ SendAuthed(t)
      BY <2>3 DEF Loop
    <3>2. [pc |-> "asking", raw |-> {}, todo |-> todo \ {dep}] \in Handlers
      BY DEF Handlers
    <3>3. /\ EventsTyped'
          /\ events'[t] = [pc |-> "asking", raw |-> {}, todo |-> todo \ {dep}]
          /\ \A u \in Events \ {t} : events'[u] = events[u]
      BY <1>1, <3>1, <3>2 DEF EventsTyped
    <3>4. /\ CallTyped' /\ token' \in Tokens
          /\ \A a \in Activities \ {t} : call'[a] = call[a]
      BY <1>1, <2>1, <3>1, SendAuthedTyped
    <3> QED BY <1>1, <3>1, <3>3, <3>4 DEF DepsTyped
  <2> QED BY <2>2, <2>3
<1>3. DepsTyped' /\ RestTyped'
  BY <1>1, <1>2 DEF DepsTyped, RestTyped
<1>4. TodoPlaced'
  BY <1>1, <1>2 DEF TodoPlaced
<1>5. NoneMissed'
  <2>1. \A u \in Events \ {t} : events'[u].todo = events[u].todo
    BY <1>2
  <2>2. /\ events[t].todo \subseteq asked' \cup events'[t].todo
        /\ prevDeps' \subseteq prevDeps \cup asked' \cup events'[t].todo
    BY <1>2
  <2> QED BY <1>1, <1>2, <2>1, <2>2, MissedKept
<1>6. CASE events'[t].pc = "asking" /\ SetState("scanning")
  <2>1. BarTyped' /\ item' = "scanning" /\ (timer' => item' \in {"warned", "blocked"})
    BY <1>6, SetStateTyped DEF Items
  <2>2. BarIsTrue'
    BY <1>6, <2>1, Zenon DEF BarIsTrue
  <2> QED BY <1>2, <1>3, <1>4, <1>5, <2>1, <2>2
<1>7. CASE events'[t].pc = "done" /\ events'[t].todo = {} /\ Last
  BY <1>2, <1>3, <1>4, <1>5, <1>7
<1> QED BY <1>2, <1>6, <1>7

(* The loop entered from where nothing is being scanned, and the bar left as it is. *)
LEMMA QuietLoopSafe ==
  ASSUME IInv, NEW t \in Events, NEW todo \in SUBSET Packages, events[t].pc # "asking",
         Loop(t, todo, UNCHANGED <<item, timer>>), events[t].todo \subseteq todo,
         prevDeps' \subseteq Packages /\ prevDeps' \subseteq prevDeps \cup todo,
         UNCHANGED <<offline, tokenFile, up>>
  PROVE  IInv'
<1>1. offline' \in BOOLEAN /\ BarTyped /\ BarIsTrue
  BY Parts DEF RestTyped
<1>2. /\ DepsTyped' /\ EventsTyped' /\ CallTyped' /\ RestTyped'
      /\ TodoPlaced' /\ NoneMissed'
      /\ \/ BarTyped' /\ BarIsTrue'
         \/ /\ UNCHANGED <<item, timer>>
            /\ \A u \in Events \ {t} : events'[u] = events[u]
            /\ \A a \in Activities \ {t} : call'[a] = call[a]
  BY <1>1, LoopSafe
<1>3. ASSUME UNCHANGED <<item, timer>>,
             \A u \in Events \ {t} : events'[u] = events[u],
             \A a \in Activities \ {t} : call'[a] = call[a]
      PROVE  BarTyped' /\ BarIsTrue'
  <2>1. \A u \in Events : events[u].pc = "asking" => events'[u].pc = "asking"
    BY <1>3
  <2>2. call'[Startup] = call[Startup] /\ call'[Command] = call[Command]
    BY <1>3, Indices
  <2> QED BY <1>1, <1>3, <2>1, <2>2, BarKept
<1>4. BarTyped' /\ BarIsTrue'
  BY <1>2, <1>3
<1> QED BY <1>2, <1>4, PrimedParts

LEMMA OnChangeSafe ==
  ASSUME IInv, NEW t \in Events, OnChange(t)
  PROVE  IInv'
<1>1. EventsTyped /\ DepsTyped /\ TodoPlaced
  BY Parts
<1>2. events[t].pc = "read" /\ UNCHANGED <<offline, tokenFile, up>>
  BY DEF OnChange
<1>3. events[t].todo = {} /\ events[t].raw \in (SUBSET Packages) \cup {Unreadable}
  BY <1>1, <1>2 DEF TodoPlaced, EventsTyped, Handlers
<1>4. CASE events[t].raw = Unreadable
  <2>1. Loop(t, {}, UNCHANGED <<item, timer>>) /\ prevDeps' = prevDeps
    BY <1>4 DEF OnChange
  <2>2. {} \in SUBSET Packages /\ prevDeps' \subseteq Packages
    BY <1>1, <2>1 DEF DepsTyped
  <2> QED BY <1>2, <1>3, <2>1, <2>2, QuietLoopSafe
<1>5. CASE events[t].raw # Unreadable
  <2> DEFINE raw == events[t].raw
  <2>1. Loop(t, Added(raw), UNCHANGED <<item, timer>>) /\ prevDeps' = raw
    BY <1>5 DEF OnChange
  <2>2. raw \subseteq Packages
    BY <1>3, <1>5
  <2>3. /\ Added(raw) \in SUBSET Packages /\ prevDeps' \subseteq Packages
        /\ prevDeps' \subseteq prevDeps \cup Added(raw)
    BY <2>1, <2>2 DEF Added
  <2> QED BY <1>2, <1>3, <2>1, <2>3, QuietLoopSafe
<1> QED BY <1>4, <1>5

(* The steps of a handler that leave its dependencies as they are. *)
LEMMA StepKeeps ==
  ASSUME IInv, NEW t \in Events, NEW pc \in {"notify", "posting"}, Step(t, pc),
         UNCHANGED <<prevDeps, asked>>
  PROVE  /\ DepsTyped' /\ EventsTyped' /\ TodoPlaced' /\ NoneMissed'
         /\ \A u \in Events \ {t} : events'[u] = events[u]
<1>1. EventsTyped /\ DepsTyped /\ TodoPlaced /\ NoneMissed
  BY Parts
<1>2. /\ EventsTyped' /\ events'[t].pc = pc /\ events'[t].todo = events[t].todo
      /\ \A u \in Events \ {t} : events'[u] = events[u]
  BY <1>1 DEF Step, EventsTyped, Handlers
<1>3. TodoPlaced'
  BY <1>1, <1>2 DEF TodoPlaced
<1>4. DepsTyped'
  BY <1>1 DEF DepsTyped
<1>5. \A u \in Events \ {t} : events'[u].todo = events[u].todo
  BY <1>2
<1>6. NoneMissed'
  BY <1>1, <1>2, <1>5, MissedKept
<1> QED BY <1>2, <1>3, <1>4, <1>6

LEMMA DepScannedSafe ==
  ASSUME IInv, NEW t \in Events, DepScanned(t)
  PROVE  IInv'
<1>1. EventsTyped /\ DepsTyped /\ CallTyped /\ RestTyped
  BY Parts
<1>2. offline' \in BOOLEAN /\ UNCHANGED <<prevDeps, tokenFile, up>>
  <2>1. offline' = Observed(t) /\ UNCHANGED <<prevDeps, tokenFile, up>>
    BY DEF DepScanned
  <2>2. Observed(t) \in BOOLEAN
    BY DEF Observed
  <2> QED BY <2>1, <2>2
<1>3. Shown(Verdict(t)) \in Items \ {"scanning"}
  BY <1>1, Indices, ShownTyped DEF Items
<1>4. CASE Verdict(t) = "ALLOW"
  <2>1. Loop(t, events[t].todo, SetState(Shown(Verdict(t))))
    BY <1>4 DEF DepScanned
  <2>2. /\ events[t].todo \in SUBSET Packages
        /\ prevDeps' \subseteq Packages /\ prevDeps' \subseteq prevDeps \cup events[t].todo
    BY <1>1, <1>2 DEF EventsTyped, Handlers, DepsTyped
  <2>3. /\ DepsTyped' /\ EventsTyped' /\ CallTyped' /\ RestTyped'
        /\ TodoPlaced' /\ NoneMissed'
        /\ \/ BarTyped' /\ BarIsTrue'
           \/ /\ SetState(Shown(Verdict(t)))
              /\ \A u \in Events \ {t} : events'[u] = events[u]
              /\ \A a \in Activities \ {t} : call'[a] = call[a]
    BY <1>2, <2>1, <2>2, LoopSafe
  <2>4. BarTyped' /\ BarIsTrue'
    BY <1>3, <2>3, BarSet
  <2> QED BY <2>3, <2>4, PrimedParts
<1>5. CASE Verdict(t) # "ALLOW"
  <2>1. Step(t, "notify") /\ SetState(Shown(Verdict(t))) /\ UNCHANGED <<call, token, asked>>
    BY <1>5 DEF DepScanned
  <2>2. DepsTyped' /\ EventsTyped' /\ TodoPlaced' /\ NoneMissed'
    BY <1>2, <2>1, StepKeeps
  <2>3. CallTyped' /\ RestTyped'
    BY <1>1, <1>2, <2>1 DEF CallTyped, RestTyped
  <2>4. BarTyped' /\ BarIsTrue'
    BY <1>3, <2>1, BarSet
  <2> QED BY <2>2, <2>3, <2>4, PrimedParts
<1> QED BY <1>4, <1>5

LEMMA ChooseSafe ==
  ASSUME IInv, NEW t \in Events, Choose(t) \/ Posted(t)
  PROVE  IInv'
<1>1. /\ EventsTyped /\ DepsTyped /\ CallTyped /\ RestTyped /\ BarTyped /\ BarIsTrue
      /\ events[t].pc \in {"notify", "posting"} /\ UNCHANGED <<prevDeps, offline, tokenFile, up>>
  BY Parts DEF Choose, Posted
<1>2. CASE Loop(t, events[t].todo, UNCHANGED <<item, timer>>)
  <2>1. /\ events[t].todo \in SUBSET Packages
        /\ prevDeps' \subseteq Packages /\ prevDeps' \subseteq prevDeps \cup events[t].todo
    BY <1>1 DEF EventsTyped, Handlers, DepsTyped
  <2> QED BY <1>1, <1>2, <2>1, QuietLoopSafe
<1>3. CASE /\ Step(t, "posting") /\ Send(t, "none") /\ token' = ReadToken
           /\ UNCHANGED <<item, timer, asked>>
  <2>1. /\ DepsTyped' /\ EventsTyped' /\ TodoPlaced' /\ NoneMissed'
        /\ \A u \in Events \ {t} : events'[u] = events[u]
    BY <1>1, <1>3, StepKeeps
  <2>2. CallTyped' /\ \A a \in Activities \ {t} : call'[a] = call[a]
    BY <1>1, <1>3, Indices, SendTyped DEF Calls
  <2>3. RestTyped'
    BY <1>1, <1>3 DEF RestTyped, ReadToken, Tokens
  <2>4. call'[Startup] = call[Startup] /\ call'[Command] = call[Command]
    BY <2>2, Indices
  <2>5. \A u \in Events : events[u].pc = "asking" => events'[u].pc = "asking"
    BY <1>1, <2>1
  <2>6. BarTyped' /\ BarIsTrue'
    BY <1>1, <1>3, <2>4, <2>5, BarKept
  <2> QED BY <2>1, <2>2, <2>3, <2>6, PrimedParts
<1> QED BY <1>2, <1>3 DEF Choose, Posted

(* Save and readFile: nothing to do before, nothing to do after. *)
LEMMA ReadingSafe ==
  ASSUME IInv, NEW t \in Events, Save(t) \/ ReadFile(t)
  PROVE  IInv'
<1>1. /\ DepsTyped /\ EventsTyped /\ CallTyped /\ BarTyped /\ RestTyped
      /\ TodoPlaced /\ NoneMissed /\ BarIsTrue
      /\ events[t].pc \in {"off", "reading"}
      /\ UNCHANGED <<prevDeps, call, item, timer, offline, tokenFile, token, up, asked>>
  BY Parts DEF Save, ReadFile
<1>2. events[t].todo = {}
  BY <1>1 DEF TodoPlaced
<1>3. /\ EventsTyped' /\ events'[t].todo = events[t].todo
      /\ \A u \in Events \ {t} : events'[u] = events[u]
  <2>1. CASE Save(t)
    BY <1>1, <2>1 DEF Save, Step, EventsTyped, Handlers
  <2>2. CASE ReadFile(t)
    <3>1. PICK raw \in (SUBSET Packages) \cup {Unreadable} :
            events' = [events EXCEPT ![t].pc = "read", ![t].raw = raw]
      BY <2>2 DEF ReadFile
    <3> QED BY <1>1, <3>1 DEF EventsTyped, Handlers
  <2> QED BY <2>1, <2>2
<1>4. TodoPlaced'
  BY <1>1, <1>2, <1>3 DEF TodoPlaced
<1>5. \A u \in Events \ {t} : events'[u].todo = events[u].todo
  BY <1>3
<1>6. NoneMissed'
  <2>1. asked' = asked /\ prevDeps' = prevDeps
    BY <1>1
  <2>2. asked \subseteq asked' /\ events[t].todo \subseteq asked' \cup events'[t].todo
        /\ prevDeps' \subseteq prevDeps \cup asked' \cup events'[t].todo
    BY <1>3, <2>1
  <2> QED BY <1>1, <1>5, <2>2, MissedKept
<1>7. BarTyped' /\ BarIsTrue'
  <2>1. UNCHANGED <<item, timer>> /\ call' = call
    BY <1>1
  <2>2. \A u \in Events : events[u].pc = "asking" => events'[u].pc = "asking"
    BY <1>1, <1>3
  <2> QED BY <1>1, <2>1, <2>2, BarKept
<1>8. DepsTyped' /\ CallTyped' /\ RestTyped'
  BY <1>1 DEF DepsTyped, CallTyped, RestTyped
<1> QED BY <1>3, <1>4, <1>6, <1>7, <1>8, PrimedParts

-----------------------------------------------------------------------------
(* The answers, the commands, the probes and the daemon. *)

LEMMA AnswerSafe ==
  ASSUME IInv, NEW a \in Activities, Answer(a)
  PROVE  IInv'
<1>1. /\ CallTyped /\ RestTyped /\ BarTyped /\ BarIsTrue /\ a # Startup
      /\ UNCHANGED <<events, prevDeps, item, timer, offline, tokenFile, token, up, asked>>
  BY Parts DEF Answer
<1>2. PICK what \in Calls \ {"none"} : Send(a, what)
  <2>1. CASE \E d \in Decisions : Send(a, d)
    BY <2>1 DEF Decisions, Calls
  <2>2. CASE \E what \in {"failed", "ok", "refused"} : Send(a, what)
    BY <2>2 DEF Calls
  <2> QED BY <2>1, <2>2 DEF Answer
<1>3. CallTyped' /\ call'[a] # "none" /\ \A b \in Activities \ {a} : call'[b] = call[b]
  BY <1>1, <1>2, SendTyped
<1>4. /\ call[Startup] # "none" => call'[Startup] # "none"
      /\ call[Command] # "none" => call'[Command] # "none"
  BY <1>3, Indices
<1>5. BarTyped' /\ BarIsTrue'
  BY <1>1, <1>4, BarKept
<1>6. EventsTyped' /\ DepsTyped' /\ TodoPlaced' /\ NoneMissed'
  BY <1>1, HandlersKept
<1>7. RestTyped'
  BY <1>1 DEF RestTyped
<1> QED BY <1>3, <1>5, <1>6, <1>7, PrimedParts

LEMMA PollSafe ==
  ASSUME IInv, Poll
  PROVE  IInv'
<1>1. /\ CallTyped /\ RestTyped /\ BarTyped /\ BarIsTrue
      /\ Send(Polling, "sent") /\ offline' = Observed(Polling)
      /\ UNCHANGED <<events, prevDeps, item, timer, tokenFile, token, up, asked>>
  BY Parts DEF Poll
<1>2. CallTyped' /\ \A b \in Activities \ {Polling} : call'[b] = call[b]
  BY <1>1, Indices, SendTyped DEF Calls
<1>3. call'[Startup] = call[Startup] /\ call'[Command] = call[Command]
  BY <1>2, Indices
<1>4. BarTyped' /\ BarIsTrue'
  BY <1>1, <1>3, BarKept
<1>5. EventsTyped' /\ DepsTyped' /\ TodoPlaced' /\ NoneMissed'
  BY <1>1, HandlersKept
<1>6. RestTyped'
  BY <1>1 DEF RestTyped, Observed
<1> QED BY <1>2, <1>4, <1>5, <1>6, PrimedParts

(* The probe of activate and the command's scan: what they show is not "scanning". *)
LEMMA ResumesSafe ==
  ASSUME IInv, Resumes
  PROVE  IInv'
<1>1. CallTyped /\ RestTyped
  BY Parts
<1>2. PICK a \in Activities : Send(a, "none")
  BY Indices DEF Resumes, Started, PackageScanned
<1>3. CallTyped'
  BY <1>1, <1>2, SendTyped DEF Calls
<1>4. UNCHANGED <<events, prevDeps, tokenFile, token, up, asked>> /\ offline' \in BOOLEAN
  <2>1. Observed(Command) \in BOOLEAN /\ (~up) \in BOOLEAN
    BY DEF Observed
  <2> QED BY <2>1 DEF Resumes, Started, PackageScanned
<1>5. EventsTyped' /\ DepsTyped' /\ TodoPlaced' /\ NoneMissed'
  BY <1>4, HandlersKept
<1>6. RestTyped'
  BY <1>1, <1>4 DEF RestTyped
<1>7. BarTyped' /\ BarIsTrue'
  <2>1. CASE Started
    <3>1. PICK state \in {"idle", "error"} : SetState(state)
      BY <2>1 DEF Started
    <3> QED BY <3>1, BarSet DEF Items
  <2>2. CASE PackageScanned
    <3>1. SetState(Shown(Verdict(Command)))
      BY <2>2 DEF PackageScanned
    <3>2. Shown(Verdict(Command)) \in Items \ {"scanning"}
      BY <1>1, Indices, ShownTyped DEF Items
    <3> QED BY <3>1, <3>2, BarSet
  <2> QED BY <2>1, <2>2 DEF Resumes
<1> QED BY <1>3, <1>5, <1>6, <1>7, PrimedParts

LEMMA ScanPackageSafe ==
  ASSUME IInv, ScanPackage
  PROVE  IInv'
<1>1. /\ CallTyped /\ RestTyped /\ SetState("scanning") /\ SendAuthed(Command)
      /\ UNCHANGED <<events, prevDeps, offline, tokenFile, up, asked>>
  BY Parts DEF ScanPackage
<1>2. CallTyped' /\ call'[Command] # "none" /\ token' \in Tokens
  BY <1>1, Indices, SendAuthedTyped
<1>3. EventsTyped' /\ DepsTyped' /\ TodoPlaced' /\ NoneMissed'
  BY <1>1, HandlersKept
<1>4. RestTyped'
  BY <1>1, <1>2 DEF RestTyped
<1>5. BarTyped' /\ item' = "scanning" /\ (timer' => item' \in {"warned", "blocked"})
  BY <1>1, SetStateTyped DEF Items
<1>6. BarIsTrue'
  BY <1>2, <1>5, Zenon DEF BarIsTrue
<1> QED BY <1>2, <1>3, <1>4, <1>5, <1>6, PrimedParts

(* The steps that send nothing and that no handler takes. *)
LEMMA AsideSafe ==
  ASSUME IInv, TimerFires \/ OpenDashboard \/ DaemonStarts \/ DaemonStops \/ UNCHANGED vars
  PROVE  IInv'
<1>1. /\ CallTyped /\ RestTyped /\ BarTyped /\ BarIsTrue
      /\ UNCHANGED <<events, prevDeps, call, token, asked>>
  BY Parts DEF TimerFires, OpenDashboard, DaemonStarts, DaemonStops, vars
<1>2. offline' \in BOOLEAN /\ up' \in BOOLEAN /\ tokenFile' \in {"none", "good"}
  BY <1>1 DEF RestTyped, TimerFires, OpenDashboard, DaemonStarts, DaemonStops, vars
<1>3. UNCHANGED <<item, timer>> \/ \E state \in {"idle", "error"} : SetState(state)
  BY DEF TimerFires, OpenDashboard, DaemonStarts, DaemonStops, vars
<1>4. BarTyped' /\ BarIsTrue'
  <2>1. CASE UNCHANGED <<item, timer>>
    BY <1>1, <2>1, BarKept
  <2>2. ASSUME NEW state \in {"idle", "error"}, SetState(state)
        PROVE  BarTyped' /\ BarIsTrue'
    BY <2>2, BarSet DEF Items
  <2> QED BY <1>3, <2>1, <2>2
<1>5. EventsTyped' /\ DepsTyped' /\ TodoPlaced' /\ NoneMissed'
  BY <1>1, HandlersKept
<1>6. CallTyped' /\ RestTyped'
  BY <1>1, <1>2 DEF CallTyped, RestTyped
<1> QED BY <1>4, <1>5, <1>6, PrimedParts

-----------------------------------------------------------------------------

LEMMA InitSafe == Init => IInv
<1> SUFFICES ASSUME Init PROVE IInv
  OBVIOUS
<1>1. \A t \in Events : events[t] = NoEvent
  BY DEF Init
<1>2. NoEvent \in Handlers /\ NoEvent.todo = {}
  BY DEF NoEvent, Handlers
<1>3. EventsTyped
  BY <1>2 DEF Init, EventsTyped
<1>4. TodoPlaced
  BY <1>1, <1>2 DEF TodoPlaced
<1>5. DepsTyped /\ NoneMissed
  BY DEF Init, DepsTyped, NoneMissed
<1>6. CallTyped /\ call[Startup] # "none"
  BY Indices DEF Init, CallTyped, Calls
<1>7. BarTyped /\ BarIsTrue
  BY <1>6 DEF Init, BarTyped, BarIsTrue, Items
<1>8. RestTyped
  BY DEF Init, RestTyped, Tokens
<1> QED BY <1>3, <1>4, <1>5, <1>6, <1>7, <1>8, Parts

LEMMA NextSafe == IInv /\ [Next]_vars => IInv'
<1> SUFFICES ASSUME IInv, [Next]_vars PROVE IInv'
  OBVIOUS
<1>1. ASSUME NEW t \in Events, Save(t) \/ ReadFile(t)
      PROVE  IInv'
  BY <1>1, ReadingSafe
<1>2. ASSUME NEW t \in Events, OnChange(t)
      PROVE  IInv'
  BY <1>2, OnChangeSafe
<1>3. ASSUME NEW t \in Events, DepScanned(t)
      PROVE  IInv'
  BY <1>3, DepScannedSafe
<1>4. ASSUME NEW t \in Events, Choose(t) \/ Posted(t)
      PROVE  IInv'
  BY <1>4, ChooseSafe
<1>5. ASSUME NEW a \in Activities, Answer(a)
      PROVE  IInv'
  BY <1>5, AnswerSafe
<1>6. CASE Resumes
  BY <1>6, ResumesSafe
<1>7. CASE Poll
  BY <1>7, PollSafe
<1>8. CASE ScanPackage
  BY <1>8, ScanPackageSafe
<1>9. CASE TimerFires \/ OpenDashboard \/ DaemonStarts \/ DaemonStops \/ UNCHANGED vars
  BY <1>9, AsideSafe
<1> QED BY <1>1, <1>2, <1>3, <1>4, <1>5, <1>6, <1>7, <1>8, <1>9 DEF Next, Handler

LEMMA Invariance == Spec => []IInv
  BY InitSafe, NextSafe, PTL DEF Spec

(* The variables hold what their comments say, however many changes overlap. *)
THEOREM TypeCorrect == Spec => []TypeOK
  BY Invariance, PTL DEF IInv

(* No dependency a handler took note of is dropped: it was scanned, or it waits in the    *)
(* loop of some handler, in whatever order overlapping changes read package.json, resume  *)
(* and overwrite _prevDeps (_onChange).                                                   *)
THEOREM MissedSafe == Spec => []NoneMissed
  BY Invariance, PTL DEF IInv

(* The status bar says "scanning" only while a scan or the first probe is under way, and  *)
(* the reset timer runs only while the verdict it will clear is shown (setState).         *)
THEOREM BarSafe == Spec => []BarIsTrue
  BY Invariance, PTL DEF IInv
=============================================================================
