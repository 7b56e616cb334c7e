------------------------ MODULE RegistryClientProofs ------------------------
(***************************************************************************)
(* The safety of the registry client, for any callers, urls, lifetimes,    *)
(* capacity and numbers of retries and of false answers.                   *)
(***************************************************************************)
EXTENDS RegistryClient, TLAPS

InFlight(f) == fetch[f].phase \in {"acquire", "request"}

(* The caller that started f is still waiting for it. *)
Attended(f) ==
  /\ caller[f[1]].pc = IF f[2] = 1 THEN "lookup" ELSE "confirm"
  /\ caller[f[1]].on = f /\ caller[f[1]].own

(* Callers and cache entries refer to fetches of their own url; nobody has *)
(* started a fetch whose turn has not come.                                *)
References ==
  /\ \A c \in Callers : Waiting(c) =>
       /\ caller[c].on \in Fetches /\ UrlOf(caller[c].on) = Url(c)
       /\ fetch[caller[c].on].phase # "unstarted"
  /\ \A c \in Callers : caller[c].pc = "confirm" => caller[c].on = <<c, 2>>
  /\ \A c \in Callers : caller[c].pc = "idle" => fetch[<<c, 1>>].phase = "unstarted"
  /\ \A c \in Callers : caller[c].pc \in {"idle", "lookup"} =>
       fetch[<<c, 2>>].phase = "unstarted"
  /\ \A u \in Urls : cache[u] # NoFetch =>
       UrlOf(cache[u]) = u /\ fetch[cache[u]].phase # "unstarted"

(* A fetch has an outcome when it is done, and is attended until then. *)
FetchesDone == \A f \in Fetches : fetch[f].phase = "done" <=> fetch[f].status # "none"
FetchesAttended == \A f \in Fetches : InFlight(f) => Attended(f)

(* What false absences cost: a lookup's one, a confirmation's another. *)
LiesCounted ==
  /\ \A f \in Fetches : fetch[f].status = "absent" /\ UrlOf(f) \in listed =>
       lies[UrlOf(f)] >= f[2]
  /\ \A c \in Callers : fetch[<<c, 2>>].phase # "unstarted" /\ Url(c) \in listed =>
       lies[Url(c)] >= 1

Confirmed(u) ==
  \E c \in Callers : Url(c) = u /\ fetch[<<c, 2>>].phase # "unstarted"

(* The lookup in flight is the one in the cache, until its lifetime ends   *)
(* or a confirmation takes its place.                                      *)
FlightCached ==
  \A f \in Fetches :
    f[2] = 1 /\ InFlight(f) /\ fetch[f].age < TTL[UrlOf(f)] /\ ~Confirmed(UrlOf(f)) =>
      cache[UrlOf(f)] = f

(* The bucket and the excess share one capacity. *)
BucketShared == excess + tokens <= Capacity

IInv == /\ TypeOK /\ References /\ FetchesDone /\ FetchesAttended
        /\ FailuresNotKept /\ LiesCounted /\ AbsenceIsReal /\ FlightCached /\ BucketShared

-----------------------------------------------------------------------------
(* A fetch is named by the caller that starts it and its turn. *)
LEMMA FetchPair ==
  ASSUME NEW f \in Fetches
  PROVE  f[1] \in Callers /\ f[2] \in {1, 2} /\ f = <<f[1], f[2]>>
  BY DEF Fetches

(* Nobody's url changes. *)
LEMMA UrlTyped ==
  ASSUME TypeOK, NEW c \in Callers
  PROVE  Url(c) \in Urls /\ TTL[Url(c)] \in Nat
  BY UrlsAssumption DEF TypeOK, Asks, Url

(* A start gives c a fetch of its own, which the cache holds from then on. *)
LEMMA StartStep ==
  ASSUME TypeOK, NEW c \in Callers, NEW k \in {1, 2}, Start(c, k)
  PROVE  /\ <<c, k>> \in Fetches
         /\ fetch' \in [Fetches -> FetchStates]
         /\ cache' \in [Urls -> Fetches \cup {NoFetch}]
         /\ caller' \in [Callers -> CallerStates]
<1>1. <<c, k>> \in Fetches /\ Url(c) \in Urls
  BY UrlTyped DEF Fetches
<1>2. [Unstarted EXCEPT !.phase = "acquire"] \in FetchStates
  BY LimitsAssumption DEF Unstarted, FetchStates
<1>3. [pc |-> IF k = 1 THEN "lookup" ELSE "confirm", on |-> <<c, k>>, own |-> TRUE,
       result |-> "none"] \in CallerStates
  BY <1>1 DEF CallerStates
<1> QED
  BY <1>1, <1>2, <1>3 DEF Start, TypeOK

(* What an answer makes of its fetch, and what it costs in false ones. *)
LEMMA AnswerStep ==
  ASSUME TypeOK, NEW f \in Fetches, Answer(f)
  PROVE  \E s \in FetchStates :
           /\ fetch' = [fetch EXCEPT ![f] = s]
           /\ s.phase \in {"acquire", "done"}
           /\ s.age = fetch[f].age
           /\ s.phase = "acquire" => s.status = fetch[f].status
           /\ lies' \in [Urls -> Nat] /\ \A u \in Urls : lies'[u] >= lies[u]
           /\ s.phase = "done" /\ s.status = "absent" /\ UrlOf(f) \in listed =>
                lies'[UrlOf(f)] = lies[UrlOf(f)] + 1
<1> DEFINE s == fetch'[f]
<1>1. fetch[f] \in FetchStates /\ UrlOf(f) \in Urls /\ lies \in [Urls -> Nat]
  BY FetchPair, UrlTyped DEF TypeOK, UrlOf
<1>2. ASSUME NEW outcome \in Outcomes, Finish(f, outcome)
      PROVE  /\ fetch' = [fetch EXCEPT ![f] = s] /\ s \in FetchStates
             /\ s.phase = "done" /\ s.age = fetch[f].age /\ s.status = outcome
  <2>1. fetch' = [fetch EXCEPT ![f] = [fetch[f] EXCEPT !.phase = "done", !.status = outcome]]
    BY <1>2 DEF Finish, TypeOK
  <2> QED
    BY <1>1, <2>1 DEF FetchStates, TypeOK
<1>3. fetch[f].limited \in 0..MaxRetries /\ \A d \in Delays(f) : d \in Nat
  <2>1. fetch[f].limited \in 0..MaxRetries /\ MaxRetries \in Nat
    BY <1>1, LimitsAssumption DEF FetchStates
  <2>2. fetch[f].limited + 1 \in Nat
    BY <2>1
  <2> QED
    BY <2>1, <2>2, LimitsAssumption DEF Delays
<1>4. CASE NotFound(f)
  <2>1. Finish(f, "absent") /\ "absent" \in Outcomes
    BY <1>4 DEF NotFound, Outcomes
  <2>2. CASE UrlOf(f) \notin listed /\ lies' = lies
    BY <1>1, <1>2, <2>1, <2>2
  <2>3. CASE UrlOf(f) \in listed /\ lies' = [lies EXCEPT ![UrlOf(f)] = @ + 1]
    <3>1. /\ lies' \in [Urls -> Nat] /\ lies'[UrlOf(f)] = lies[UrlOf(f)] + 1
          /\ \A u \in Urls : lies'[u] >= lies[u]
      BY <1>1, <2>3
    <3> QED
      BY <1>1, <1>2, <2>1, <3>1
  <2> QED
    BY <1>4, <2>2, <2>3 DEF NotFound
<1>5. CASE Found(f)
  <2>1. Finish(f, "exists") /\ "exists" \in Outcomes /\ lies' = lies
    BY <1>5 DEF Found, Outcomes
  <2> QED
    BY <1>1, <1>2, <2>1
<1>6. CASE RateLimited(f)
  <2>1. CASE fetch[f].limited < MaxRetries
    <3>1. PICK d \in Delays(f) :
            fetch' = [fetch EXCEPT ![f].phase = "acquire", ![f].wake = d,
                                   ![f].limited = @ + 1]
      BY <1>6, <2>1 DEF RateLimited
    <3>2. fetch' = [fetch EXCEPT ![f] = [fetch[f] EXCEPT !.phase = "acquire", !.wake = d,
                                                         !.limited = @ + 1]]
      BY <3>1 DEF TypeOK
    <3>3. fetch[f].limited + 1 \in 0..MaxRetries /\ d \in Nat
      BY <1>3, <2>1, LimitsAssumption
    <3>4. /\ fetch' = [fetch EXCEPT ![f] = s] /\ s \in FetchStates
          /\ s.phase = "acquire" /\ s.age = fetch[f].age /\ s.status = fetch[f].status
      BY <1>1, <3>2, <3>3 DEF FetchStates, TypeOK
    <3>5. lies' = lies
      BY <1>6 DEF RateLimited
    <3> QED
      BY <1>1, <3>4, <3>5
  <2>2. CASE ~(fetch[f].limited < MaxRetries)
    <3>1. Finish(f, "undetermined") /\ "undetermined" \in Outcomes /\ lies' = lies
      BY <1>6, <2>2 DEF RateLimited, Outcomes
    <3> QED
      BY <1>1, <1>2, <3>1
  <2> QED
    BY <2>1, <2>2
<1>7. CASE Unreachable(f)
  <2>1. CASE fetch[f].attempt = 1
    <3>1. fetch' = [fetch EXCEPT ![f] = [fetch[f] EXCEPT !.phase = "acquire", !.attempt = 2]]
      BY <1>7, <2>1 DEF Unreachable, TypeOK
    <3>2. /\ fetch' = [fetch EXCEPT ![f] = s] /\ s \in FetchStates
          /\ s.phase = "acquire" /\ s.age = fetch[f].age /\ s.status = fetch[f].status
      BY <1>1, <3>1 DEF FetchStates, TypeOK
    <3> QED
      BY <1>1, <1>7, <3>2 DEF Unreachable
  <2>2. CASE fetch[f].attempt # 1
    <3>1. Finish(f, "undetermined") /\ "undetermined" \in Outcomes /\ lies' = lies
      BY <1>7, <2>2 DEF Unreachable, Outcomes
    <3> QED
      BY <1>1, <1>2, <3>1
  <2> QED
    BY <2>1, <2>2
<1>8. CASE Failed(f)
  <2>1. PICK outcome \in {"undetermined", "raised"} : Finish(f, outcome) /\ lies' = lies
    BY <1>8 DEF Failed
  <2>2. outcome \in Outcomes
    BY DEF Outcomes
  <2> QED
    BY <1>1, <1>2, <2>1, <2>2
<1> QED
  BY <1>4, <1>5, <1>6, <1>7, <1>8 DEF Answer

(* A tick ages fetches and lets them sleep, no more. *)
LEMMA TickStep ==
  ASSUME TypeOK, Tick, NEW f \in Fetches
  PROVE  /\ fetch'[f] \in FetchStates
         /\ fetch'[f].phase = fetch[f].phase /\ fetch'[f].status = fetch[f].status
         /\ fetch'[f].age >= fetch[f].age
<1>1. fetch[f] \in FetchStates /\ TTL[UrlOf(f)] \in Nat
  BY FetchPair, UrlTyped DEF TypeOK, UrlOf
<1>2. fetch[f].age \in Nat /\ fetch[f].wake \in Nat
  BY <1>1 DEF FetchStates
<1>3. fetch'[f] = Older(f)
  BY DEF Tick
<1>4. CASE fetch[f].phase = "unstarted"
  BY <1>1, <1>2, <1>3, <1>4 DEF Older
<1>5. CASE fetch[f].phase # "unstarted"
  <2> DEFINE a == IF fetch[f].age < TTL[UrlOf(f)] THEN fetch[f].age + 1 ELSE fetch[f].age
             w == IF fetch[f].wake > 0 THEN fetch[f].wake - 1 ELSE 0
  <2>1. fetch'[f] = [fetch[f] EXCEPT !.age = a, !.wake = w]
    BY <1>3, <1>5 DEF Older
  <2>2. a \in Nat /\ w \in Nat /\ a >= fetch[f].age
    BY <1>1, <1>2
  <2> HIDE DEF a, w
  <2> QED
    BY <1>1, <2>1, <2>2 DEF FetchStates
<1> QED
  BY <1>4, <1>5

(* A turn of the limiter's loop. *)
LEMMA AcquireStep ==
  ASSUME TypeOK, NEW f \in Fetches, Acquire(f)
  PROVE  \E s \in FetchStates :
           /\ fetch' = [fetch EXCEPT ![f] = s]
           /\ fetch[f].phase = "acquire" /\ s.phase \in {"acquire", "request"}
           /\ s.age = fetch[f].age /\ s.status = fetch[f].status
<1>1. fetch[f] \in FetchStates /\ fetch[f].phase = "acquire"
  BY DEF TypeOK, Acquire
<1>2. CASE fetch' = [fetch EXCEPT ![f].phase = "request"]
  <2>1. fetch' = [fetch EXCEPT ![f] = [fetch[f] EXCEPT !.phase = "request"]]
    BY <1>2 DEF TypeOK
  <2>2. [fetch[f] EXCEPT !.phase = "request"] \in FetchStates
    BY <1>1 DEF FetchStates
  <2> QED
    BY <1>1, <2>1, <2>2 DEF FetchStates
<1>3. CASE fetch' = [fetch EXCEPT ![f].wake = 1]
  <2>1. fetch' = [fetch EXCEPT ![f] = [fetch[f] EXCEPT !.wake = 1]]
    BY <1>3 DEF TypeOK
  <2>2. [fetch[f] EXCEPT !.wake = 1] \in FetchStates
    BY <1>1 DEF FetchStates
  <2> QED
    BY <1>1, <2>1, <2>2 DEF FetchStates
<1> QED
  BY <1>2, <1>3 DEF Acquire

(* What Receive does to the caller that returns. *)
LEMMA ReturnStep ==
  ASSUME TypeOK, NEW c \in Callers, NEW outcome, outcome \in Outcomes, Return(c, outcome)
  PROVE  /\ caller' \in [Callers -> CallerStates]
         /\ \A d \in Callers \ {c} : caller'[d] = caller[d]
         /\ caller'[c].pc = "done" /\ caller'[c].result = outcome
         /\ caller'[c].on = caller[c].on
<1>1. caller' = [caller EXCEPT ![c] = [caller[c] EXCEPT !.pc = "done", !.result = outcome]]
  BY DEF Return, TypeOK
<1>2. caller[c] \in CallerStates
  BY DEF TypeOK
<1> QED
  BY <1>1, <1>2 DEF CallerStates, TypeOK

(* The outcome a caller hears. *)
LEMMA HeardOutcome ==
  ASSUME TypeOK, References, FetchesDone, NEW c \in Callers, Receive(c)
  PROVE  /\ caller[c].on \in Fetches /\ UrlOf(caller[c].on) = Url(c)
         /\ fetch[caller[c].on].phase = "done"
         /\ fetch[caller[c].on].status \in Outcomes
<1>1. /\ caller[c].on \in Fetches /\ UrlOf(caller[c].on) = Url(c)
      /\ fetch[caller[c].on].phase = "done"
  BY DEF References, Receive
<1> QED
  BY <1>1 DEF TypeOK, FetchStates, FetchesDone

(* A client nobody has called is typed. *)
LEMMA InitTyped == Init => TypeOK
<1> SUFFICES ASSUME Init PROVE TypeOK
  OBVIOUS
<1>1. Unstarted \in FetchStates
  BY LimitsAssumption DEF Unstarted, FetchStates
<1>2. tokens \in 0..Capacity
  BY LimitsAssumption DEF Init
<1> QED
  BY <1>1, <1>2 DEF Init, TypeOK, CallerStates

(* Every step keeps the types. *)
LEMMA NextTyped ==
  TypeOK /\ References /\ FetchesDone /\ [Next]_vars => TypeOK'
<1> SUFFICES ASSUME TypeOK, References, FetchesDone, [Next]_vars PROVE TypeOK'
  OBVIOUS
<1>1. ASSUME NEW c \in Callers, Call(c) PROVE TypeOK'
  <2>1. CASE Join(c)
    <3>1. cache[Url(c)] \in Fetches \cup {NoFetch}
      BY UrlTyped DEF TypeOK
    <3>2. caller' \in [Callers -> CallerStates]
      <4>1. PICK own \in {FALSE, fetch[cache[Url(c)]].age = 0} :
              caller' = [caller EXCEPT ![c] = [pc |-> "lookup", on |-> cache[Url(c)],
                                               own |-> own, result |-> "none"]]
        BY <2>1 DEF Join
      <4>2. [pc |-> "lookup", on |-> cache[Url(c)], own |-> own, result |-> "none"]
              \in CallerStates
        BY <3>1 DEF CallerStates
      <4> QED
        BY <4>1, <4>2 DEF TypeOK
    <3> QED
      BY <1>1, <2>1, <3>2 DEF Call, Join, TypeOK
  <2>2. CASE Start(c, 1)
    BY <1>1, <2>2, StartStep DEF Call, TypeOK
  <2> QED
    BY <1>1, <2>1, <2>2 DEF Call
<1>2. ASSUME NEW c \in Callers, Receive(c) PROVE TypeOK'
  <2> DEFINE outcome == fetch[caller[c].on].status
  <2>1. outcome \in Outcomes /\ Url(c) \in Urls
    BY <1>2, HeardOutcome, UrlTyped
  <2>2. CASE Start(c, 2)
    BY <1>2, <2>2, StartStep DEF Receive, TypeOK
  <2>3. CASE ~Start(c, 2)
    <3>1. Return(c, outcome) /\ UNCHANGED fetch
      BY <1>2, <2>3 DEF Receive
    <3>2. cache' = cache \/ cache' = [cache EXCEPT ![Url(c)] = NoFetch]
      BY <1>2, <2>3 DEF Receive
    <3>3. cache' \in [Urls -> Fetches \cup {NoFetch}]
      BY <2>1, <3>2 DEF TypeOK
    <3> QED
      BY <1>2, <2>1, <3>1, <3>3, ReturnStep DEF Receive, TypeOK
  <2> QED
    BY <2>2, <2>3
<1>3. ASSUME NEW f \in Fetches, Acquire(f) PROVE TypeOK'
  <2>1. fetch' \in [Fetches -> FetchStates]
    BY <1>3, AcquireStep DEF TypeOK
  <2>2. tokens' \in 0..Capacity /\ excess' \in Nat
    BY <1>3, LimitsAssumption DEF Acquire, TypeOK
  <2> QED
    BY <1>3, <2>1, <2>2 DEF Acquire, TypeOK
<1>4. ASSUME NEW f \in Fetches, Answer(f) PROVE TypeOK'
  <2>1. fetch' \in [Fetches -> FetchStates]
    BY <1>4, AnswerStep DEF TypeOK
  <2>2. lies' \in [Urls -> Nat]
    BY <1>4, AnswerStep
  <2> QED
    BY <1>4, <2>1, <2>2 DEF Answer, TypeOK
<1>5. CASE Tick
  <2>1. fetch' \in [Fetches -> FetchStates]
    <3>1. DOMAIN fetch' = Fetches /\ fetch' = [f \in Fetches |-> fetch'[f]]
      BY <1>5 DEF Tick
    <3> QED
      BY <1>5, <3>1, TickStep
  <2>2. tokens' \in 0..Capacity /\ excess' \in Nat
    BY <1>5, LimitsAssumption DEF Tick, Refill, TypeOK
  <2> QED
    BY <1>5, <2>1, <2>2 DEF Tick, TypeOK
<1>6. CASE UNCHANGED vars
  BY <1>6 DEF vars, TypeOK
<1> QED
  BY <1>1, <1>2, <1>3, <1>4, <1>5, <1>6 DEF Next

-----------------------------------------------------------------------------
(* What may happen to a fetch in one step: it is started, it is left as it *)
(* was but for its age, it moves on in flight, or an answer finishes it.   *)
LEMMA FetchSteps ==
  ASSUME TypeOK, References, FetchesDone, Next, NEW f \in Fetches
  PROVE  \/ /\ Start(f[1], f[2]) /\ fetch[f].phase = "unstarted"
            /\ fetch'[f].phase = "acquire" /\ fetch'[f].status = "none"
         \/ /\ fetch'[f].phase = fetch[f].phase /\ fetch'[f].status = fetch[f].status
            /\ fetch'[f].age >= fetch[f].age
         \/ /\ InFlight(f) /\ InFlight(f)' /\ fetch'[f].status = fetch[f].status
            /\ fetch'[f].age = fetch[f].age
         \/ InFlight(f) /\ Answer(f) /\ fetch'[f].phase = "done"
<1>1. fetch[f] \in FetchStates /\ fetch[f].age \in Nat
  BY DEF TypeOK, FetchStates
<1>2. CASE fetch' = fetch
  BY <1>1, <1>2
<1>3. ASSUME NEW c \in Callers, NEW k \in {1, 2}, Start(c, k),
             fetch[<<c, k>>].phase = "unstarted"
      PROVE  \/ /\ Start(f[1], f[2]) /\ fetch[f].phase = "unstarted"
                /\ fetch'[f].phase = "acquire" /\ fetch'[f].status = "none"
             \/ fetch'[f] = fetch[f]
  <2>1. CASE f = <<c, k>>
    BY <1>3, <2>1 DEF Start, TypeOK, Unstarted
  <2>2. CASE f # <<c, k>>
    BY <1>3, <2>2 DEF Start, TypeOK
  <2> QED
    BY <2>1, <2>2
<1>4. ASSUME NEW c \in Callers, Call(c), fetch' # fetch
      PROVE  Start(c, 1) /\ fetch[<<c, 1>>].phase = "unstarted"
  BY <1>4 DEF Call, Join, References
<1>5. ASSUME NEW c \in Callers, Receive(c), fetch' # fetch
      PROVE  Start(c, 2) /\ fetch[<<c, 2>>].phase = "unstarted"
  BY <1>5 DEF Receive, ToConfirm, References
<1>6. ASSUME NEW g \in Fetches, Acquire(g)
      PROVE  \/ fetch'[f] = fetch[f]
             \/ /\ InFlight(f) /\ InFlight(f)' /\ fetch'[f].status = fetch[f].status
                /\ fetch'[f].age = fetch[f].age
  BY <1>6, AcquireStep DEF TypeOK, InFlight
<1>7. ASSUME NEW g \in Fetches, Answer(g)
      PROVE  \/ fetch'[f] = fetch[f]
             \/ /\ InFlight(f) /\ InFlight(f)' /\ fetch'[f].status = fetch[f].status
                /\ fetch'[f].age = fetch[f].age
             \/ InFlight(f) /\ Answer(f) /\ fetch'[f].phase = "done"
  <2>1. fetch[g].phase = "request"
    BY <1>7 DEF Answer
  <2> QED
    BY <1>7, <2>1, AnswerStep DEF TypeOK, InFlight
<1>8. CASE Tick
  BY <1>8, TickStep
<1>9. CASE \E c \in Callers : Call(c) \/ Receive(c)
  <2>1. PICK c \in Callers : Call(c) \/ Receive(c)
    BY <1>9
  <2>2. CASE fetch' # fetch
    <3>1. PICK k \in {1, 2} : Start(c, k) /\ fetch[<<c, k>>].phase = "unstarted"
      BY <1>4, <1>5, <2>1, <2>2
    <3>2. \/ /\ Start(f[1], f[2]) /\ fetch[f].phase = "unstarted"
             /\ fetch'[f].phase = "acquire" /\ fetch'[f].status = "none"
          \/ fetch'[f] = fetch[f]
      BY <1>3, <3>1
    <3> QED
      BY <1>1, <3>2
  <2> QED
    BY <1>2, <2>2
<1>10. CASE \E g \in Fetches : Acquire(g)
  BY <1>1, <1>6, <1>10
<1>11. CASE \E g \in Fetches : Answer(g)
  BY <1>1, <1>7, <1>11
<1> QED
  BY <1>8, <1>9, <1>10, <1>11 DEF Next

(* What no step undoes. *)
LEMMA StepsKeep ==
  ASSUME TypeOK, References, FetchesDone, Next
  PROVE  /\ listed' = listed
         /\ ask' = ask
         /\ \A f \in Fetches : fetch[f].phase # "unstarted" =>
              fetch'[f].phase # "unstarted"
         /\ \A f \in Fetches : fetch[f].phase = "done" =>
              fetch'[f].phase = "done" /\ fetch'[f].status = fetch[f].status
         /\ \A u \in Urls : lies[u] \in Nat /\ lies'[u] \in Nat /\ lies'[u] >= lies[u]
<1>1. listed' = listed /\ ask' = ask
  BY DEF Next, Call, Receive, Acquire, Answer, Tick
<1>2. \A u \in Urls : lies'[u] \in Nat /\ lies'[u] >= lies[u]
  <2>1. CASE lies' = lies
    BY <2>1 DEF TypeOK
  <2>2. CASE lies' # lies
    <3>1. PICK f \in Fetches : Answer(f)
      BY <2>2 DEF Next, Call, Receive, Acquire, Tick
    <3> QED
      BY <3>1, AnswerStep
  <2> QED
    BY <2>1, <2>2
<1>3. ASSUME NEW f \in Fetches
      PROVE  /\ fetch[f].phase # "unstarted" => fetch'[f].phase # "unstarted"
             /\ fetch[f].phase = "done" =>
                  fetch'[f].phase = "done" /\ fetch'[f].status = fetch[f].status
  BY FetchSteps DEF InFlight
<1>4. \A u \in Urls : lies[u] \in Nat
  BY DEF TypeOK
<1> QED
  BY <1>1, <1>2, <1>3, <1>4

(* Only its own calls move a caller. *)
LEMMA CallerSteps ==
  ASSUME TypeOK, References, FetchesDone, Next, NEW c \in Callers
  PROVE  \/ caller'[c] = caller[c]
         \/ Call(c) /\ Fresh(Url(c)) /\ Join(c)
         \/ Call(c) /\ ~Fresh(Url(c)) /\ Start(c, 1)
         \/ Receive(c) /\ ToConfirm(c, fetch[caller[c].on].status) /\ Start(c, 2)
         \/ /\ Receive(c) /\ Return(c, fetch[caller[c].on].status)
            /\ ~ToConfirm(c, fetch[caller[c].on].status)
<1>1. ASSUME NEW d \in Callers, Receive(d), NEW outcome, Return(d, outcome)
      PROVE  \A e \in Callers \ {d} : caller'[e] = caller[e]
  BY <1>1 DEF Return, TypeOK
<1>2. ASSUME NEW d \in Callers, NEW k \in {1, 2}, Join(d) \/ Start(d, k)
      PROVE  \A e \in Callers \ {d} : caller'[e] = caller[e]
  BY <1>2 DEF Join, Start, TypeOK
<1>3. ASSUME Receive(c), ToConfirm(c, fetch[caller[c].on].status)
      PROVE  Start(c, 2)
  BY <1>3 DEF Receive, ToConfirm, NotCached
<1>4. ASSUME NEW d \in Callers, Call(d)
      PROVE  (Fresh(Url(d)) /\ Join(d)) \/ (~Fresh(Url(d)) /\ Start(d, 1))
  BY <1>4 DEF Call
<1>5. ASSUME NEW d \in Callers, Receive(d)
      PROVE  Start(d, 2) \/ Return(d, fetch[caller[d].on].status)
  BY <1>5 DEF Receive
<1>6. ASSUME Receive(c), ~ToConfirm(c, fetch[caller[c].on].status)
      PROVE  Return(c, fetch[caller[c].on].status)
  BY <1>6 DEF Receive
<1>7. CASE Call(c) \/ Receive(c)
  BY <1>3, <1>4, <1>6, <1>7
<1>8. CASE \E d \in Callers \ {c} : Call(d) \/ Receive(d)
  <2> PICK d \in Callers \ {c} : Call(d) \/ Receive(d)
    BY <1>8
  <2>1. \/ Join(d) \/ \E k \in {1, 2} : Start(d, k)
        \/ Receive(d) /\ Return(d, fetch[caller[d].on].status)
    BY <1>4, <1>5
  <2> QED
    BY <1>1, <1>2, <2>1
<1>9. CASE \A d \in Callers : ~Call(d) /\ ~Receive(d)
  BY <1>9 DEF Next, Acquire, Answer, Tick
<1> QED
  BY <1>7, <1>8, <1>9

(* Only calls change the cache: a start replaces the entry of its url, and *)
(* a caller told of a failure removes its own.                             *)
LEMMA CacheSteps ==
  ASSUME TypeOK, References, FetchesDone, Next, NEW u \in Urls
  PROVE  \/ cache'[u] = cache[u]
         \/ \E c \in Callers, k \in {1, 2} :
              /\ Start(c, k) /\ Url(c) = u /\ cache'[u] = <<c, k>>
              /\ k = 1 => ~Fresh(u)
         \/ /\ cache'[u] = NoFetch
            /\ \E c \in Callers :
                 /\ Receive(c) /\ Url(c) = u
                 /\ caller[c].own /\ cache[u] = caller[c].on
<1>1. ASSUME NEW c \in Callers, NEW k \in {1, 2}, Start(c, k)
      PROVE  \/ cache'[u] = cache[u]
             \/ Url(c) = u /\ cache'[u] = <<c, k>>
  BY <1>1 DEF Start, TypeOK
<1>2. CASE \E c \in Callers : Call(c)
  <2> PICK c \in Callers : Call(c)
    BY <1>2
  <2>1. CASE Fresh(Url(c)) /\ Join(c)
    BY <2>1 DEF Join
  <2>2. CASE ~Fresh(Url(c)) /\ Start(c, 1)
    BY <1>1, <2>2
  <2> QED
    BY <2>1, <2>2 DEF Call
<1>3. CASE \E c \in Callers : Receive(c)
  <2> PICK c \in Callers : Receive(c)
    BY <1>3
  <2>1. CASE Start(c, 2)
    BY <1>1, <2>1
  <2>2. CASE cache' = IF caller[c].own /\ cache[Url(c)] = caller[c].on
                        THEN [cache EXCEPT ![Url(c)] = NoFetch] ELSE cache
    BY <2>2 DEF TypeOK
  <2>3. CASE cache' = cache
    BY <2>3
  <2> QED
    BY <2>1, <2>2, <2>3 DEF Receive
<1>4. CASE \A c \in Callers : ~Call(c) /\ ~Receive(c)
  BY <1>4 DEF Next, Acquire, Answer, Tick
<1> QED
  BY <1>2, <1>3, <1>4

(* References stay right: what a caller or the cache points at was started *)
(* for its url.                                                            *)
LEMMA ReferencesStay == TypeOK /\ References /\ FetchesDone /\ Next => References'
<1> SUFFICES ASSUME TypeOK, References, FetchesDone, Next PROVE References'
  OBVIOUS
<1>1. ASSUME NEW c \in Callers, NEW k \in {1, 2}, Start(c, k)
      PROVE  /\ <<c, k>> \in Fetches /\ UrlOf(<<c, k>>) = Url(c)
             /\ fetch'[<<c, k>>].phase = "acquire"
             /\ caller'[c].pc = IF k = 1 THEN "lookup" ELSE "confirm"
             /\ caller'[c].on = <<c, k>>
  <2>1. <<c, k>> \in Fetches /\ UrlOf(<<c, k>>) = Url(c)
    BY DEF Fetches, UrlOf
  <2>2. fetch'[<<c, k>>].phase = "acquire"
    BY <1>1, <2>1 DEF Start, TypeOK, Unstarted
  <2>3. /\ caller'[c].pc = IF k = 1 THEN "lookup" ELSE "confirm"
        /\ caller'[c].on = <<c, k>>
    BY <1>1 DEF Start, TypeOK
  <2> QED
    BY <2>1, <2>2, <2>3
<1>2. ASSUME NEW c \in Callers, Join(c), Fresh(Url(c))
      PROVE  /\ caller'[c].pc = "lookup" /\ caller'[c].on = cache[Url(c)]
             /\ caller'[c].on \in Fetches
  <2>1. cache[Url(c)] \in Fetches
    BY <1>2, UrlTyped DEF Fresh, TypeOK
  <2> QED
    BY <1>2, <2>1 DEF Join, TypeOK
<1>3. ASSUME NEW c \in Callers, Receive(c), Return(c, fetch[caller[c].on].status)
      PROVE  caller'[c].pc = "done"
  BY <1>3, HeardOutcome, ReturnStep
<1>10. ASSUME NEW c \in Callers
      PROVE  \/ caller'[c] = caller[c]
             \/ caller[c].pc = "idle" /\ caller'[c].pc = "lookup"
             \/ caller'[c].pc = "confirm" /\ caller'[c].on = <<c, 2>>
             \/ caller'[c].pc = "done"
  <2>1. Call(c) => caller[c].pc = "idle"
    BY DEF Call
  <2>2. Start(c, 1) => caller'[c].pc = "lookup"
    BY <1>1
  <2>3. Start(c, 2) => caller'[c].pc = "confirm" /\ caller'[c].on = <<c, 2>>
    BY DEF Start, TypeOK
  <2> QED
    BY <1>2, <1>3, <2>1, <2>2, <2>3, CallerSteps
<1>4. ASSUME NEW c \in Callers, Waiting(c)'
      PROVE  /\ caller'[c].on \in Fetches /\ UrlOf(caller'[c].on) = Url(c)
             /\ fetch'[caller'[c].on].phase # "unstarted"
  <2>1. CASE caller'[c] = caller[c]
    <3>1. Waiting(c)
      BY <1>4, <2>1 DEF Waiting
    <3> QED
      BY <2>1, <3>1, StepsKeep DEF References
  <2>2. CASE Fresh(Url(c)) /\ Join(c)
    <3>1. /\ UrlOf(cache[Url(c)]) = Url(c) /\ fetch[cache[Url(c)]].phase # "unstarted"
      BY <2>2, UrlTyped DEF References, Fresh
    <3> QED
      BY <1>2, <2>2, <3>1, StepsKeep
  <2>3. ASSUME NEW k \in {1, 2}, Start(c, k)
        PROVE  /\ caller'[c].on \in Fetches /\ UrlOf(caller'[c].on) = Url(c)
               /\ fetch'[caller'[c].on].phase # "unstarted"
    BY <1>1, <2>3, StepsKeep
  <2>4. CASE Receive(c) /\ Return(c, fetch[caller[c].on].status)
    BY <1>3, <1>4, <2>4 DEF Waiting
  <2> QED
    BY <2>1, <2>2, <2>3, <2>4, CallerSteps
<1>5. ASSUME NEW c \in Callers
      PROVE  caller'[c].pc = "confirm" => caller'[c].on = <<c, 2>>
  BY <1>10 DEF References
<1>6. ASSUME NEW c \in Callers, NEW k \in {1, 2}, fetch'[<<c, k>>].phase # "unstarted",
             fetch[<<c, k>>].phase = "unstarted"
      PROVE  Start(c, k)
  <2>1. <<c, k>> \in Fetches
    BY DEF Fetches
  <2> QED
    BY <1>6, <2>1, FetchSteps DEF InFlight
<1>7. ASSUME NEW c \in Callers, caller'[c].pc = "idle"
      PROVE  fetch'[<<c, 1>>].phase = "unstarted"
  <2>1. caller[c].pc = "idle" /\ ~Start(c, 1)
    BY <1>1, <1>2, <1>3, <1>7, CallerSteps
  <2> QED
    BY <1>6, <2>1 DEF References
<1>8. ASSUME NEW c \in Callers, caller'[c].pc \in {"idle", "lookup"}
      PROVE  fetch'[<<c, 2>>].phase = "unstarted"
  <2>1. caller[c].pc \in {"idle", "lookup"} /\ ~Start(c, 2)
    <3>1. Start(c, 2) => caller'[c].pc = "confirm"
      BY DEF Start, TypeOK
    <3> QED
      BY <1>8, <1>10, <3>1
  <2> QED
    BY <1>6, <2>1 DEF References
<1>9. ASSUME NEW u \in Urls, cache'[u] # NoFetch
      PROVE  UrlOf(cache'[u]) = u /\ fetch'[cache'[u]].phase # "unstarted"
  <2>1. CASE cache'[u] = cache[u]
    <3>1. cache[u] \in Fetches
      BY <1>9, <2>1 DEF TypeOK
    <3> QED
      BY <1>9, <2>1, <3>1, StepsKeep DEF References
  <2>2. ASSUME NEW c \in Callers, NEW k \in {1, 2}, Start(c, k), Url(c) = u,
               cache'[u] = <<c, k>>
        PROVE  UrlOf(cache'[u]) = u /\ fetch'[cache'[u]].phase # "unstarted"
    BY <1>1, <2>2, StepsKeep
  <2> QED
    BY <1>9, <2>1, <2>2, CacheSteps
<1> QED
  BY <1>4, <1>5, <1>7, <1>8, <1>9, StepsKeep DEF References, UrlOf, Url

(* Outcomes are there when, and only when, the fetch is done. *)
LEMMA DoneStays == TypeOK /\ References /\ FetchesDone /\ Next => FetchesDone'
<1> SUFFICES ASSUME TypeOK, References, FetchesDone, Next, NEW f \in Fetches
             PROVE  fetch'[f].phase = "done" <=> fetch'[f].status # "none"
  BY DEF FetchesDone
<1>1. fetch[f].phase = "done" <=> fetch[f].status # "none"
  BY DEF FetchesDone
<1>2. ASSUME Answer(f), fetch'[f].phase = "done" PROVE fetch'[f].status # "none"
  <2>1. ASSUME NEW outcome \in Outcomes, Finish(f, outcome) PROVE fetch'[f].status # "none"
    BY <2>1 DEF Finish, TypeOK, FetchStates, Outcomes
  <2>2. ASSUME NEW d, fetch' = [fetch EXCEPT ![f].phase = "acquire", ![f].wake = d,
                                             ![f].limited = @ + 1]
        PROVE  fetch'[f].phase # "done"
    BY <2>2 DEF TypeOK, FetchStates
  <2>3. ASSUME fetch' = [fetch EXCEPT ![f].phase = "acquire", ![f].attempt = 2]
        PROVE  fetch'[f].phase # "done"
    BY <2>3 DEF TypeOK, FetchStates
  <2> QED
    BY <1>2, <2>1, <2>2, <2>3
    DEF Answer, NotFound, Found, RateLimited, Unreachable, Failed, Outcomes
<1> QED
  BY <1>1, <1>2, FetchSteps DEF InFlight

(* Who started a fetch waits until it is done: callers are not cancelled.  *)
LEMMA AttendedStays ==
  TypeOK /\ References /\ FetchesDone /\ FetchesAttended /\ Next => FetchesAttended'
<1> SUFFICES ASSUME TypeOK, References, FetchesDone, FetchesAttended, Next,
                    NEW f \in Fetches, InFlight(f)'
             PROVE  Attended(f)'
  BY DEF FetchesAttended
<1>1. f[1] \in Callers /\ f[2] \in {1, 2} /\ f = <<f[1], f[2]>>
  BY FetchPair
<1>2. CASE Start(f[1], f[2])
  BY <1>1, <1>2 DEF Start, Attended, TypeOK
<1>3. CASE InFlight(f)
  <2>1. Attended(f) /\ fetch[f].phase # "done"
    BY <1>3 DEF FetchesAttended, InFlight
  <2>2. ~Receive(f[1]) /\ ~Call(f[1])
    BY <2>1 DEF Receive, Call, Attended
  <2>3. caller'[f[1]] = caller[f[1]]
    BY <1>1, <2>2, CallerSteps
  <2> QED
    BY <2>1, <2>3 DEF Attended
<1> QED
  BY <1>2, <1>3, FetchSteps DEF InFlight

(* A failure found in the cache is dropped when its caller is told of it.  *)
LEMMA FailuresStay == IInv /\ Next => FailuresNotKept'
<1> DEFINE Bad(u, status) == \/ status = "raised"
                             \/ status = "undetermined" /\ u \notin Downloads
<1> SUFFICES ASSUME IInv, Next, NEW u \in Urls, cache'[u] # NoFetch,
                    fetch'[cache'[u]].phase = "done", Bad(u, fetch'[cache'[u]].status)
             PROVE  LET c == cache'[u][1]
                    IN  /\ caller'[c].pc \in {"lookup", "confirm"}
                        /\ caller'[c].on = cache'[u] /\ caller'[c].own
  BY DEF FailuresNotKept, Waiting
<1> USE DEF IInv
<1>1. ASSUME NEW c \in Callers, NEW k \in {1, 2}, Start(c, k), cache'[u] = <<c, k>>
      PROVE  FALSE
  <2>1. <<c, k>> \in Fetches
    BY DEF Fetches
  <2> QED
    BY <1>1, <2>1 DEF Start, TypeOK, Unstarted
<1>2. cache'[u] = cache[u]
  BY <1>1, CacheSteps
<1> DEFINE g == cache[u]
<1>3. g \in Fetches /\ g[1] \in Callers /\ UrlOf(g) = u
  BY <1>2, FetchPair DEF TypeOK, References
<1>4. CASE fetch[g].phase = "done"
  <2>1. Waiting(g[1]) /\ caller[g[1]].on = g /\ caller[g[1]].own /\ Bad(u, fetch[g].status)
    BY <1>2, <1>3, <1>4, StepsKeep DEF FailuresNotKept
  <2>2. ~Receive(g[1])
    <3> SUFFICES ASSUME Receive(g[1]) PROVE FALSE
      OBVIOUS
    <3>1. NotCached(u, fetch[g].status) /\ ~ToConfirm(g[1], fetch[g].status) /\ Url(g[1]) = u
      BY <1>3, <2>1 DEF NotCached, ToConfirm, UrlOf
    <3>2. cache' = [cache EXCEPT ![u] = NoFetch]
      BY <2>1, <3>1 DEF Receive
    <3> QED
      BY <1>2, <3>2 DEF TypeOK
  <2>3. ~Call(g[1])
    BY <2>1 DEF Call, Waiting
  <2>4. caller'[g[1]] = caller[g[1]]
    BY <1>3, <2>2, <2>3, CallerSteps
  <2> QED
    BY <1>2, <2>1, <2>4 DEF Waiting
<1>5. CASE fetch[g].phase # "done"
  <2>1. InFlight(g) /\ Answer(g)
    BY <1>2, <1>3, <1>5, FetchSteps DEF InFlight
  <2>2. Attended(g) /\ caller' = caller
    BY <1>3, <2>1 DEF FetchesAttended, Answer
  <2> QED
    BY <1>2, <2>2 DEF Attended
<1> QED
  BY <1>4, <1>5

(* A confirmation is started on an absence, which cost a false 404. *)
LEMMA ConfirmationStarts ==
  ASSUME IInv, Next, NEW c \in Callers, fetch[<<c, 2>>].phase = "unstarted",
         fetch'[<<c, 2>>].phase # "unstarted", Url(c) \in listed
  PROVE  lies[Url(c)] >= 1
<1> USE DEF IInv
<1>1. <<c, 2>> \in Fetches
  BY DEF Fetches
<1>2. Start(c, 2)
  BY <1>1, FetchSteps DEF InFlight
<1>3. caller'[c].pc = "confirm"
  BY <1>2 DEF Start, TypeOK
<1>4. caller[c].pc # "confirm"
  BY DEF References, Waiting
<1>5. ~Join(c) /\ ~Start(c, 1)
  BY <1>3 DEF Join, Start, TypeOK
<1>6. Receive(c) /\ ToConfirm(c, fetch[caller[c].on].status)
  <2>1. ASSUME Receive(c), Return(c, fetch[caller[c].on].status) PROVE FALSE
    BY <1>3, <2>1, HeardOutcome, ReturnStep
  <2> QED
    BY <1>3, <1>4, <1>5, <2>1, CallerSteps
<1>7. caller[c].on \in Fetches /\ UrlOf(caller[c].on) = Url(c)
  BY <1>6, HeardOutcome
<1>8. lies[Url(c)] >= caller[c].on[2] /\ lies[Url(c)] \in Nat /\ caller[c].on[2] \in {1, 2}
  BY <1>6, <1>7, FetchPair, UrlTyped DEF LiesCounted, ToConfirm, TypeOK
<1> QED
  BY <1>8

(* Each turn of a caller that ends in a false absence costs one false 404. *)
LEMMA LiesStay == IInv /\ Next => LiesCounted'
<1> SUFFICES ASSUME IInv, Next PROVE LiesCounted'
  OBVIOUS
<1> USE DEF IInv
<1>1. ASSUME NEW f \in Fetches, fetch'[f].status = "absent", UrlOf(f) \in listed
      PROVE  lies'[UrlOf(f)] >= f[2]
  <2>1. /\ f[1] \in Callers /\ f[2] \in {1, 2} /\ f = <<f[1], f[2]>>
        /\ UrlOf(f) \in Urls /\ UrlOf(f) = Url(f[1])
    BY FetchPair, UrlTyped DEF UrlOf
  <2>2. CASE fetch[f].status = "absent"
    BY <1>1, <2>1, <2>2, StepsKeep DEF LiesCounted
  <2>3. CASE InFlight(f) /\ Answer(f) /\ fetch'[f].phase = "done"
    <3>1. lies'[UrlOf(f)] = lies[UrlOf(f)] + 1
      BY <1>1, <2>3, AnswerStep DEF TypeOK
    <3>2. f[2] = 2 => lies[UrlOf(f)] >= 1
      BY <1>1, <2>1, <2>3 DEF LiesCounted, InFlight
    <3> QED
      BY <2>1, <3>1, <3>2, StepsKeep
  <2> QED
    BY <1>1, <2>2, <2>3, FetchSteps
<1>2. ASSUME NEW c \in Callers, fetch'[<<c, 2>>].phase # "unstarted", Url(c) \in listed
      PROVE  lies'[Url(c)] >= 1
  <2>1. lies[Url(c)] >= 1
    BY <1>2, ConfirmationStarts DEF LiesCounted
  <2> QED
    BY <2>1, UrlTyped, StepsKeep
<1> QED
  BY <1>1, <1>2, StepsKeep DEF LiesCounted, UrlOf, Url

(* A caller is told of an absence by a fetch that found one; if it asked   *)
(* for confirmation, by its confirmation.                                  *)
LEMMA AbsenceStays == IInv /\ Next => AbsenceIsReal'
<1> SUFFICES ASSUME IInv, Next, NEW c \in Callers, caller'[c].result = "absent",
                    Url(c) \in listed
             PROVE  lies'[Url(c)] >= IF ask[c].confirm THEN 2 ELSE 1
  BY StepsKeep DEF IInv, AbsenceIsReal, Url
<1> USE DEF IInv
<1>1. Url(c) \in Urls /\ lies[Url(c)] \in Nat /\ lies'[Url(c)] \in Nat
      /\ lies'[Url(c)] >= lies[Url(c)]
  BY UrlTyped, StepsKeep
<1>2. CASE caller'[c] = caller[c]
  <2>1. lies[Url(c)] >= IF ask[c].confirm THEN 2 ELSE 1
    BY <1>2 DEF AbsenceIsReal
  <2> QED
    BY <1>1, <2>1
<1>3. ~Join(c) /\ ~Start(c, 1) /\ ~Start(c, 2)
  BY DEF Join, Start, TypeOK
<1>4. CASE /\ Receive(c) /\ Return(c, fetch[caller[c].on].status)
           /\ ~ToConfirm(c, fetch[caller[c].on].status)
  <2>1. caller[c].on \in Fetches /\ UrlOf(caller[c].on) = Url(c)
        /\ fetch[caller[c].on].status = "absent"
    BY <1>4, HeardOutcome, ReturnStep
  <2>2. lies[Url(c)] >= caller[c].on[2] /\ caller[c].on[2] \in {1, 2}
    BY <2>1, FetchPair DEF LiesCounted
  <2>3. ask[c].confirm => caller[c].on[2] = 2
    BY <1>4, <2>1 DEF ToConfirm, Receive, Waiting, References
  <2> QED
    BY <1>1, <2>2, <2>3
<1> QED
  BY <1>2, <1>3, <1>4, CallerSteps

(* A fresh lookup in flight keeps its place in the cache. *)
LEMMA FlightStays == IInv /\ Next => FlightCached'
<1> SUFFICES ASSUME IInv, Next, NEW f \in Fetches, f[2] = 1, InFlight(f)',
                    fetch'[f].age < TTL[UrlOf(f)],
                    \A c \in Callers : Url(c) = UrlOf(f) =>
                      fetch'[<<c, 2>>].phase = "unstarted"
             PROVE  cache'[UrlOf(f)] = f
  BY StepsKeep DEF IInv, FlightCached, Confirmed, UrlOf, Url
<1> USE DEF IInv
<1>1. f[1] \in Callers /\ f = <<f[1], f[2]>> /\ UrlOf(f) \in Urls /\ TTL[UrlOf(f)] \in Nat
      /\ f # NoFetch
  BY FetchPair, UrlTyped, UrlsAssumption DEF UrlOf, Fetches
<1>2. CASE Start(f[1], f[2])
  BY <1>1, <1>2 DEF Start, UrlOf, TypeOK
<1>3. CASE InFlight(f) /\ fetch'[f].age >= fetch[f].age
  <2>1. \A c \in Callers : <<c, 2>> \in Fetches
    BY DEF Fetches
  <2>2. ~Confirmed(UrlOf(f))
    BY <2>1, StepsKeep DEF Confirmed
  <2>3. fetch[f].age \in Nat /\ fetch'[f].age \in Nat
    BY NextTyped DEF TypeOK, FetchStates
  <2>4. fetch[f].age < TTL[UrlOf(f)]
    BY <1>1, <1>3, <2>3
  <2>5. cache[UrlOf(f)] = f /\ Fresh(UrlOf(f))
    BY <1>1, <1>3, <2>2, <2>4 DEF FlightCached, Fresh
  <2>6. ASSUME NEW c \in Callers, NEW k \in {1, 2}, Start(c, k), Url(c) = UrlOf(f)
        PROVE  k = 1
    <3>1. <<c, k>> \in Fetches
      BY DEF Fetches
    <3>2. fetch'[<<c, k>>].phase = "acquire"
      BY <2>6, <3>1 DEF Start, TypeOK, Unstarted
    <3> QED
      BY <2>6, <3>2
  <2>7. ASSUME NEW c \in Callers, Receive(c), cache[UrlOf(f)] = caller[c].on PROVE FALSE
    BY <1>3, <2>5, <2>7 DEF Receive, InFlight
  <2> QED
    BY <1>1, <2>5, <2>6, <2>7, CacheSteps
<1> QED
  BY <1>2, <1>3, FetchSteps DEF TypeOK, FetchStates, InFlight

(* A token taken is a request more, a tick one less. *)
LEMMA BucketStays == TypeOK /\ BucketShared /\ Next => BucketShared'
<1> SUFFICES ASSUME TypeOK, BucketShared, Next PROVE BucketShared'
  OBVIOUS
<1>1. tokens \in Nat /\ excess \in Nat /\ Capacity \in Nat /\ tokens <= Capacity
      /\ excess + tokens <= Capacity
  BY LimitsAssumption DEF TypeOK, BucketShared
<1>2. CASE UNCHANGED <<tokens, excess>>
  BY <1>2 DEF BucketShared
<1>3. CASE tokens' = tokens - 1 /\ excess' = excess + 1
  BY <1>1, <1>3 DEF BucketShared
<1>4. CASE Tick
  BY <1>1, <1>4 DEF Tick, Refill, BucketShared
<1> QED
  BY <1>2, <1>3, <1>4 DEF Next, Call, Receive, Acquire, Answer

(* A client nobody has called satisfies the invariant. *)
LEMMA InitInvariant == Init => IInv
<1> SUFFICES ASSUME Init PROVE IInv
  OBVIOUS
<1>1. TypeOK
  BY InitTyped
<1>2. References /\ FetchesDone /\ FetchesAttended /\ FailuresNotKept
  BY DEF Init, References, FetchesDone, FetchesAttended, FailuresNotKept, InFlight, Waiting,
     Unstarted, Fetches
<1>3. LiesCounted /\ AbsenceIsReal /\ FlightCached
  BY DEF Init, LiesCounted, AbsenceIsReal, FlightCached, InFlight, Unstarted, Fetches
<1>4. BucketShared
  BY LimitsAssumption DEF Init, BucketShared
<1> QED
  BY <1>1, <1>2, <1>3, <1>4 DEF IInv

(* A stuttering step keeps the invariant. *)
LEMMA StutterKeeps == IInv /\ UNCHANGED vars => IInv'
<1> SUFFICES ASSUME IInv, UNCHANGED vars PROVE IInv'
  OBVIOUS
<1> USE DEF IInv, vars
<1>1. TypeOK' /\ BucketShared'
  BY DEF TypeOK, BucketShared
<1>2. References' /\ FailuresNotKept'
  BY DEF References, FailuresNotKept, Waiting, Url, UrlOf
<1>3. FetchesDone' /\ FetchesAttended'
  BY DEF FetchesDone, FetchesAttended, InFlight, Attended
<1>4. LiesCounted' /\ AbsenceIsReal'
  BY DEF LiesCounted, AbsenceIsReal, Url, UrlOf
<1>5. FlightCached'
  BY DEF FlightCached, InFlight, Confirmed, Url, UrlOf
<1> QED
  BY <1>1, <1>2, <1>3, <1>4, <1>5

(* IInv is an invariant for every instance. *)
THEOREM Invariance == Spec => []IInv
<1>1. Init => IInv
  BY InitInvariant
<1>2. IInv /\ [Next]_vars => IInv'
  <2>1. IInv /\ Next => IInv'
    BY NextTyped, ReferencesStay, DoneStays, AttendedStays, FailuresStay, LiesStay,
       AbsenceStays, FlightStays, BucketStays DEF IInv
  <2> QED
    BY <2>1, StutterKeeps
<1> QED
  BY <1>1, <1>2, PTL DEF Spec

(* Every variable keeps its type: no task waits for a fetch that is not    *)
(* one, the bucket never holds more than its capacity.                     *)
THEOREM TypeCorrect == Spec => []TypeOK
<1>1. IInv => TypeOK
  BY DEF IInv
<1> QED
  BY Invariance, <1>1, PTL

(* No failed fetch outlives its caller in the cache.                       *)
THEOREM FailuresSafe == Spec => []FailuresNotKept
<1>1. IInv => FailuresNotKept
  BY DEF IInv
<1> QED
  BY Invariance, <1>1, PTL

(* A false absence takes a false 404, one that was to be confirmed two.    *)
THEOREM AbsenceSafe == Spec => []AbsenceIsReal
<1>1. IInv => AbsenceIsReal
  BY DEF IInv
<1> QED
  BY Invariance, <1>1, PTL

(* No period sees more requests than its ticks and one full bucket.        *)
THEOREM RateSafe == Spec => []RateRespected
<1>1. IInv => RateRespected
  <2> SUFFICES ASSUME IInv PROVE RateRespected
    OBVIOUS
  <2>1. tokens \in Nat /\ excess \in Nat /\ excess + tokens <= Capacity
    BY LimitsAssumption DEF IInv, TypeOK, BucketShared
  <2> QED
    BY <2>1, LimitsAssumption DEF RateRespected
<1> QED
  BY Invariance, <1>1, PTL

(* Lookups of one url do not overlap within its lifetime.                  *)
THEOREM FlightSafe == Spec => []SingleFlight
<1>1. IInv => SingleFlight
  <2> SUFFICES ASSUME IInv, NEW f \in Fetches, NEW g \in Fetches, f # g,
                      UrlOf(f) = UrlOf(g), f[2] = 1, g[2] = 1, InFlight(f), InFlight(g),
                      ~Confirmed(UrlOf(f)),
                      ~(fetch[f].age >= TTL[UrlOf(f)]), ~(fetch[g].age >= TTL[UrlOf(g)])
               PROVE  FALSE
    BY DEF SingleFlight, InFlight, Confirmed
  <2>1. /\ fetch[f].age \in Nat /\ fetch[g].age \in Nat
        /\ TTL[UrlOf(f)] \in Nat /\ TTL[UrlOf(g)] \in Nat
    BY FetchPair, UrlTyped DEF IInv, TypeOK, FetchStates, UrlOf
  <2>2. cache[UrlOf(f)] = f /\ cache[UrlOf(g)] = g
    BY <2>1 DEF IInv, FlightCached
  <2> QED
    BY <2>2
<1> QED
  BY Invariance, <1>1, PTL
=============================================================================
