--------------------------- MODULE RegistryClient ---------------------------
(***************************************************************************)
(* The npm registry client (daemon/utils/npm_registry.py): single-flight   *)
(* caches with a short lifetime in front of _get, which retries, tells a   *)
(* confirmed absence from an undetermined outcome, and asks one shared     *)
(* token bucket before every request.                                      *)
(*                                                                         *)
(* A caller -- a pillar, the disk checker, the dependency lookups -- and   *)
(* each fetch are asyncio tasks.  The bodies the two cache locks and the   *)
(* limiter's lock protect contain no await: a lock is never contended and  *)
(* each body is part of the step around it.  A caller that finds a fetch   *)
(* already finished goes on at once in the code, and in a step of its own  *)
(* here.                                                                   *)
(*                                                                         *)
(* One tick is the time in which the bucket earns one token.  Ages stop at *)
(* the lifetime, and nothing else of the clock is kept.                    *)
(***************************************************************************)
EXTENDS Integers

CONSTANTS
  Callers,      \* calls of get_package_metadata and get_download_count
  Urls,         \* what can be fetched: registry documents and counts
  Downloads,    \* those of Urls that are download counts
  TTL,          \* lifetime of a cache entry, in ticks, for each of Urls
  Capacity,     \* tokens the bucket holds
  MaxRetries,   \* _MAX_RATE_LIMIT_RETRIES
  RetryAfter,   \* delays a Retry-After header may ask for, in ticks
  MaxLies,      \* bound on the 404s the registry gives for what it has
  NoFetch       \* no cache entry

ASSUME UrlsAssumption ==
  Downloads \subseteq Urls /\ TTL \in [Urls -> Nat] /\ NoFetch \notin Callers \X {1, 2}
ASSUME LimitsAssumption ==
  /\ Capacity \in Nat \ {0} /\ MaxRetries \in Nat /\ MaxLies \in Nat
  /\ RetryAfter \subseteq Nat

VARIABLES
  ask,      \* what each caller wants, and whether an absence is to be confirmed
  listed,   \* what the registry really has
  lies,     \* 404s given so far for something it has
  tokens,   \* tokens in the bucket
  excess,   \* history: the most requests by which any period that ends now
            \*   exceeds its number of ticks
  cache,    \* the fetch each url's cache entry holds, or NoFetch
  fetch,    \* every fetch a caller may start
  caller    \* where each caller stands

vars == <<ask, listed, lies, tokens, excess, cache, fetch, caller>>

(* A caller starts at most two fetches: the lookup, and its confirmation.  *)
Fetches == Callers \X {1, 2}

Outcomes == {"exists", "absent", "undetermined", "raised"}

Asks == {a \in [url : Urls, confirm : BOOLEAN] : a.confirm => a.url \notin Downloads}

Url(c) == ask[c].url
UrlOf(f) == Url(f[1])

(* phase: what the fetch waits for -- a token ("acquire", once wake ticks  *)
(* of its sleep are over), an answer ("request") -- or "done".             *)
FetchStates == [phase : {"unstarted", "acquire", "request", "done"},
                attempt : {1, 2}, limited : 0..MaxRetries, wake : Nat,
                age : Nat, status : Outcomes \cup {"none"}]

Unstarted == [phase |-> "unstarted", attempt |-> 1, limited |-> 0, wake |-> 0,
              age |-> 0, status |-> "none"]

(* own: would the caller's own start time match the entry's, so that it    *)
(* may drop it.                                                            *)
CallerStates == [pc : {"idle", "lookup", "confirm", "done"},
                 on : Fetches \cup {NoFetch}, own : BOOLEAN,
                 result : Outcomes \cup {"none"}]

Waiting(c) == caller[c].pc \in {"lookup", "confirm"}

Init ==
  /\ ask \in [Callers -> Asks]
  /\ listed \in SUBSET Urls
  /\ lies = [u \in Urls |-> 0]
  /\ tokens = Capacity
  /\ excess = 0
  /\ cache = [u \in Urls |-> NoFetch]
  /\ fetch = [f \in Fetches |-> Unstarted]
  /\ caller = [c \in Callers |->
                 [pc |-> "idle", on |-> NoFetch, own |-> FALSE, result |-> "none"]]

-----------------------------------------------------------------------------
Fresh_DoneOnly(u) ==
  /\ cache[u] # NoFetch /\ fetch[cache[u]].age < TTL[u]
  /\ fetch[cache[u]].phase = "done"

(* An entry serves callers from the start of its fetch, answered or not.   *)
Fresh(u) == cache[u] # NoFetch /\ fetch[cache[u]].age < TTL[u]

Join(c) ==
  /\ \E own \in {FALSE, fetch[cache[Url(c)]].age = 0} :
       caller' = [caller EXCEPT ![c] = [pc |-> "lookup", on |-> cache[Url(c)],
                                        own |-> own, result |-> "none"]]
  /\ UNCHANGED <<fetch, cache>>

Start(c, k) ==
  /\ fetch' = [fetch EXCEPT ![<<c, k>>] = [Unstarted EXCEPT !.phase = "acquire"]]
  /\ cache' = [cache EXCEPT ![Url(c)] = <<c, k>>]
  /\ caller' = [caller EXCEPT
                  ![c] = [pc |-> IF k = 1 THEN "lookup" ELSE "confirm",
                          on |-> <<c, k>>, own |-> TRUE, result |-> "none"]]

Call(c) ==
  /\ caller[c].pc = "idle"
  /\ \/ Fresh(Url(c)) /\ Join(c)
     \/ ~Fresh(Url(c)) /\ Start(c, 1)
  /\ UNCHANGED <<ask, listed, lies, tokens, excess>>

NotCached_RaisedOnly(u, outcome) == outcome = "raised"

(* The outcomes a caller takes back out of the cache.  A failed download   *)
(* count is not one of them: it has become the number 0.                   *)
NotCached(u, outcome) ==
  outcome = "raised" \/ (outcome = "undetermined" /\ u \notin Downloads)

(* Absences are confirmed once, and only for who asks for it. *)
ToConfirm(c, outcome) ==
  outcome = "absent" /\ ask[c].confirm /\ caller[c].pc = "lookup"

Return(c, outcome) ==
  caller' = [caller EXCEPT ![c].pc = "done", ![c].result = outcome]

(* The future a caller awaits is done.  To confirm an absence, whatever    *)
(* entry the cache has now is popped, and no await separates that from the *)
(* second lookup, which therefore starts a fetch.                          *)
Receive(c) ==
  /\ Waiting(c) /\ fetch[caller[c].on].phase = "done"
  /\ LET outcome == fetch[caller[c].on].status
         u == Url(c)
     IN  \/ /\ NotCached(u, outcome)
            /\ cache' = IF caller[c].own /\ cache[u] = caller[c].on
                          THEN [cache EXCEPT ![u] = NoFetch] ELSE cache
            /\ Return(c, outcome) /\ UNCHANGED fetch
         \/ ToConfirm(c, outcome) /\ Start(c, 2)
         \/ /\ ~NotCached(u, outcome) /\ ~ToConfirm(c, outcome)
            /\ Return(c, outcome) /\ UNCHANGED <<cache, fetch>>
  /\ UNCHANGED <<ask, listed, lies, tokens, excess>>

-----------------------------------------------------------------------------
(* _TokenBucketLimiter.acquire, one turn of its loop: a token is taken, or *)
(* the task sleeps until one is due and tries again.                       *)
Acquire(f) ==
  /\ fetch[f].phase = "acquire" /\ fetch[f].wake = 0
  /\ \/ /\ tokens > 0
        /\ tokens' = tokens - 1 /\ excess' = excess + 1
        /\ fetch' = [fetch EXCEPT ![f].phase = "request"]
     \/ /\ tokens = 0
        /\ fetch' = [fetch EXCEPT ![f].wake = 1]
        /\ UNCHANGED <<tokens, excess>>
  /\ UNCHANGED <<ask, listed, lies, cache, caller>>

Finish(f, outcome) ==
  fetch' = [fetch EXCEPT ![f].phase = "done", ![f].status = outcome]

NotFound(f) ==
  /\ \/ UrlOf(f) \notin listed /\ UNCHANGED lies
     \/ /\ UrlOf(f) \in listed /\ lies[UrlOf(f)] < MaxLies
        /\ lies' = [lies EXCEPT ![UrlOf(f)] = @ + 1]
  /\ Finish(f, "absent")

Found(f) == UrlOf(f) \in listed /\ Finish(f, "exists") /\ UNCHANGED lies

(* Retry-After, or a backoff that grows by half a second, which is a tick. *)
Delays(f) == RetryAfter \cup {fetch[f].limited + 1}

RateLimited_ForEver(f) ==
  /\ \E d \in Delays(f) :
       fetch' = [fetch EXCEPT ![f].phase = "acquire", ![f].wake = d]
  /\ UNCHANGED lies

RateLimited_OneMore(f) ==
  /\ IF fetch[f].limited <= MaxRetries
       THEN \E d \in Delays(f) :
              fetch' = [fetch EXCEPT ![f].phase = "acquire", ![f].wake = d,
                                     ![f].limited = @ + 1]
       ELSE Finish(f, "undetermined")
  /\ UNCHANGED lies

(* HTTP 429: the retries are counted over both attempts. *)
RateLimited(f) ==
  /\ IF fetch[f].limited < MaxRetries
       THEN \E d \in Delays(f) :
              fetch' = [fetch EXCEPT ![f].phase = "acquire", ![f].wake = d,
                                     ![f].limited = @ + 1]
       ELSE Finish(f, "undetermined")
  /\ UNCHANGED lies

Unreachable_Absent(f) ==
  /\ IF fetch[f].attempt = 1
       THEN fetch' = [fetch EXCEPT ![f].phase = "acquire", ![f].attempt = 2]
       ELSE Finish(f, "absent")
  /\ UNCHANGED lies

(* A timeout or a transport error, which the second attempt may not have.  *)
Unreachable(f) ==
  /\ IF fetch[f].attempt = 1
       THEN fetch' = [fetch EXCEPT ![f].phase = "acquire", ![f].attempt = 2]
       ELSE Finish(f, "undetermined")
  /\ UNCHANGED lies

(* Another HTTP error, or an answer that is not JSON. *)
Failed(f) ==
  \E outcome \in {"undetermined", "raised"} : Finish(f, outcome) /\ UNCHANGED lies

Answer(f) ==
  /\ fetch[f].phase = "request"
  /\ NotFound(f) \/ Found(f) \/ RateLimited(f) \/ Unreachable(f) \/ Failed(f)
  /\ UNCHANGED <<ask, listed, tokens, excess, cache, caller>>

Refill_NoCap(n) == n + 1

(* The bucket is refilled when it is next looked at: the same, since       *)
(* capping at every tick or once gives the same number of tokens.          *)
Refill(n) == IF n < Capacity THEN n + 1 ELSE n

Older(f) ==
  LET state == fetch[f]
      limit == TTL[UrlOf(f)]
  IN  IF state.phase = "unstarted" THEN state
      ELSE [state EXCEPT !.age = IF @ < limit THEN @ + 1 ELSE @,
                         !.wake = IF @ > 0 THEN @ - 1 ELSE 0]

Tick ==
  /\ tokens' = Refill(tokens)
  /\ excess' = IF excess > 0 THEN excess - 1 ELSE 0
  /\ fetch' = [f \in Fetches |-> Older(f)]
  /\ UNCHANGED <<ask, listed, lies, cache, caller>>

Next ==
  \/ \E c \in Callers : Call(c) \/ Receive(c)
  \/ \E f \in Fetches : Acquire(f) \/ Answer(f)
  \/ Tick

Spec == Init /\ [][Next]_vars

(* The event loop runs ready tasks, requests have a timeout, time passes.  *)
FairSpec ==
  /\ Spec /\ WF_vars(Tick)
  /\ \A c \in Callers : WF_vars(Receive(c))
  /\ \A f \in Fetches : WF_vars(Acquire(f)) /\ WF_vars(Answer(f))

-----------------------------------------------------------------------------
TypeOK ==
  /\ ask \in [Callers -> Asks]
  /\ listed \subseteq Urls
  /\ lies \in [Urls -> Nat]
  /\ tokens \in 0..Capacity
  /\ excess \in Nat
  /\ cache \in [Urls -> Fetches \cup {NoFetch}]
  /\ fetch \in [Fetches -> FetchStates]
  /\ caller \in [Callers -> CallerStates]

(* "A failed fetch must not poison the cache for the TTL window": such an  *)
(* outcome is only found in the cache while the caller whose fetch it was  *)
(* -- and who alone may drop it -- has still to be told.                   *)
FailuresNotKept ==
  \A u \in Urls :
    cache[u] # NoFetch /\ fetch[cache[u]].phase = "done"
        /\ \/ fetch[cache[u]].status = "raised"
           \/ fetch[cache[u]].status = "undetermined" /\ u \notin Downloads
      => LET c == cache[u][1]
         IN  Waiting(c) /\ caller[c].on = cache[u] /\ caller[c].own

(* No retry that was given up, no timeout and no error passes for an       *)
(* absence: whoever is told that something the registry has is absent was  *)
(* lied to, and with confirm_absence (Sentinel's BLOCK floor) lied to      *)
(* twice, other callers' fetches and pops notwithstanding.                 *)
AbsenceIsReal ==
  \A c \in Callers :
    caller[c].result = "absent" /\ Url(c) \in listed =>
      lies[Url(c)] >= IF ask[c].confirm THEN 2 ELSE 1

(* "Paces every _get call": in any period, however many tasks sleep for    *)
(* the next token, no more requests than its ticks and one full bucket.    *)
RateRespected == excess <= Capacity

(* Single flight: of one url, no two fetches within its lifetime are under *)
(* way at once, unless the later one confirms an absence or follows such   *)
(* a confirmation.                                                         *)
SingleFlight ==
  \A f, g \in Fetches :
    f # g /\ UrlOf(f) = UrlOf(g) /\ f[2] = 1 /\ g[2] = 1
        /\ fetch[f].phase \in {"acquire", "request"}
        /\ fetch[g].phase \in {"acquire", "request"}
      => \/ fetch[f].age >= TTL[UrlOf(f)] \/ fetch[g].age >= TTL[UrlOf(g)]
         \/ \E c \in Callers :
              Url(c) = UrlOf(f) /\ fetch[<<c, 2>>].phase # "unstarted"

(* Every call returns or raises: 429s, dropped connections and the race of *)
(* the sleepers for tokens cannot keep it for ever.                        *)
EveryCallEnds == \A c \in Callers : Waiting(c) ~> caller[c].pc = "done"
=============================================================================
