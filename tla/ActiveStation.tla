--------------------------- MODULE ActiveStation ---------------------------
(***************************************************************************)
(* Which station profile a contact is submitted to, wavelog/station.rs and *)
(* the requests of wavelog/client.rs: a pinned profile, or the one Wavelog *)
(* flags active, looked up with retries and cached for a while.            *)
(*                                                                         *)
(* The POST worker is the only caller: it resolves the station of a QSO,   *)
(* then submits it with retries, all attempts to the station resolved.     *)
(* Meanwhile the operator switches stations in Wavelog.  Time passes in    *)
(* ticks of five seconds, and only while the worker waits: for a QSO, for  *)
(* an answer, or between two attempts.                                     *)
(***************************************************************************)
EXTENDS Integers

CONSTANTS
    Stations,        \* the station profiles of the API key
    Ttl,             \* ttl of the cache (DEFAULT_ACTIVE_TTL: 60 ticks)
    RequestTimeout,  \* DEFAULT_REQUEST_TIMEOUT (1 tick)
    RetrySleeps,     \* RETRY_SLEEPS, rounded up to ticks: <<0, 1, 1>>
    None             \* no station

ASSUME StationAssumption == {None, "pending"} \cap Stations = {}
ASSUME TimeAssumption ==
    /\ Ttl \in Nat \ {0} /\ RequestTimeout \in Nat \ {0}
    /\ RetrySleeps \in [1..3 -> Nat]

VARIABLES
    pinned,     \* StationSource::Fixed's id, None for StationSource::Active
    active,     \* external: the station flagged active
    since,      \* history: ticks since each station was last active, up to a bound
    cache,      \* CachedActive: the id, and the age of fetched_at up to Ttl
    pc,         \* the worker: idle, lookup, post, or asleep before an attempt
    attempt,    \* the number of the attempt
    timer,      \* ticks left of the request or of the sleep
    reply,      \* external: the station Wavelog answers with
    station     \* the station resolved for this QSO

requestVars == <<pc, attempt, timer, reply>>
vars == <<pinned, active, since, cache, requestVars, station>>

MaxAttempts == 3    \* the length of RETRY_SLEEPS

\* The longest n attempts of one request take, the sleeps before them included.
Spent(n) ==
    CASE n = 1 -> RetrySleeps[1] + RequestTimeout
      [] n = 2 -> RetrySleeps[1] + RetrySleeps[2] + 2 * RequestTimeout
      [] n = 3 -> RetrySleeps[1] + RetrySleeps[2] + RetrySleeps[3] + 3 * RequestTimeout

\* How long ago the station of a submission may have been active: it was when
\* Wavelog served the lookup, whose answer took a request's time to arrive and
\* was used up to Ttl later, and every attempt of the submission is to it.
Horizon == RequestTimeout + Ttl + Spent(MaxAttempts)
Beyond  == Horizon

Unwritten == [id |-> None, age |-> Ttl]
NoReply   == "pending"

Init ==
    /\ pinned \in Stations \cup {None}
    /\ active \in Stations \cup {None}
    /\ since = [s \in Stations |-> IF s = active THEN 0 ELSE Beyond]
    /\ cache = Unwritten
    /\ pc = "idle" /\ attempt = 1 /\ timer = 0 /\ reply = NoReply
    /\ station = None

-----------------------------------------------------------------------------
(* Requests.                                                               *)
Begin(what, n) == pc' = what /\ attempt' = n /\ timer' = RequestTimeout /\ reply' = NoReply

\* The n-th attempt at a lookup or a submission, after its sleep.
Attempt(what, n) ==
    IF RetrySleeps[n] = 0 THEN Begin(what, n)
    ELSE /\ pc' = IF what = "lookup" THEN "lookup_later" ELSE "post_later"
         /\ attempt' = n /\ timer' = RetrySleeps[n] /\ reply' = NoReply

Idle == pc' = "idle" /\ attempt' = 1 /\ timer' = 0 /\ reply' = NoReply

\* The cached id is young enough.  (The mistake: one is kept for good.)
KeptForGood == cache.id # None
Fresh       == cache.id # None /\ cache.age < Ttl

\* A QSO comes: its station is pinned, cached, or must be looked up.
Resolve ==
    /\ pc = "idle"
    /\ IF pinned # None THEN station' = pinned /\ Begin("post", 1)
       ELSE IF Fresh THEN station' = cache.id /\ Begin("post", 1)
       ELSE station' = None /\ Attempt("lookup", 1)
    /\ UNCHANGED <<pinned, active, since, cache>>

\* Wavelog serves the lookup: list_stations.
Serve ==
    /\ pc = "lookup" /\ reply = NoReply
    /\ reply' = active
    /\ UNCHANGED <<pinned, active, since, cache, pc, attempt, timer, station>>

\* The answer arrives: cached from now on, and used.  Without a station in it
\* the lookup fails for good and the cache is left as it was.
Found ==
    /\ pc = "lookup" /\ reply \in Stations
    /\ cache' = [id |-> reply, age |-> 0]
    /\ station' = reply
    /\ Begin("post", 1)
    /\ UNCHANGED <<pinned, active, since>>

NoActiveStation ==
    /\ pc = "lookup" /\ reply = None
    /\ Idle
    /\ UNCHANGED <<pinned, active, since, cache, station>>

\* What is left when every attempt has failed: nothing.  (The mistake: a lookup
\* falls back on the expired id.)
FallBack ==
    IF pc = "lookup" /\ cache.id # None THEN station' = cache.id /\ Begin("post", 1)
    ELSE Idle /\ UNCHANGED station
GiveUp == Idle /\ UNCHANGED station

\* A transport error, a timeout or a 5xx: the next attempt, or the QSO is left
\* on disk.
Fails ==
    /\ pc \in {"lookup", "post"}
    /\ IF attempt < MaxAttempts THEN Attempt(pc, attempt + 1) /\ UNCHANGED station
       ELSE GiveUp
    /\ UNCHANGED <<pinned, active, since, cache>>

\* The submission is answered, or either request refused (a 4xx, a body that
\* cannot be read): no retry.
Answered ==
    /\ pc \in {"lookup", "post"}
    /\ GiveUp
    /\ UNCHANGED <<pinned, active, since, cache>>

Wake ==
    /\ pc \in {"lookup_later", "post_later"} /\ timer = 0
    /\ Begin(IF pc = "lookup_later" THEN "lookup" ELSE "post", attempt)
    /\ UNCHANGED <<pinned, active, since, cache, station>>

-----------------------------------------------------------------------------
(* The operator and the clock.                                             *)
Switch ==
    /\ active' \in (Stations \cup {None}) \ {active}
    /\ since' = [s \in Stations |-> IF s = active' THEN 0 ELSE since[s]]
    /\ UNCHANGED <<pinned, cache, requestVars, station>>

Older(n, bound) == IF n < bound THEN n + 1 ELSE bound

Tick ==
    /\ pc = "idle" \/ timer > 0
    /\ timer' = IF timer > 0 THEN timer - 1 ELSE 0
    /\ since' = [s \in Stations |-> IF s = active THEN 0 ELSE Older(since[s], Beyond)]
    /\ cache' = [cache EXCEPT !.age = Older(@, Ttl)]
    /\ UNCHANGED <<pinned, active, pc, attempt, reply, station>>

Program == Resolve \/ Found \/ NoActiveStation \/ Fails \/ Answered \/ Wake
Next == Program \/ Serve \/ Switch \/ Tick

Spec == Init /\ [][Next]_vars

\* Time passes, every request ends, and a QSO is logged again and again.
Fairness == SF_vars(Tick) /\ WF_vars(Program)
FairSpec == Spec /\ Fairness

-----------------------------------------------------------------------------
(* Properties.                                                             *)

TypeOK ==
    /\ pinned \in Stations \cup {None} /\ active \in Stations \cup {None}
    /\ since \in [Stations -> 0..Beyond]
    /\ cache \in [id : Stations \cup {None}, age : 0..Ttl]
    /\ pc \in {"idle", "lookup", "lookup_later", "post", "post_later"}
    /\ attempt \in 1..MaxAttempts
    /\ timer \in Nat
    /\ reply \in Stations \cup {None, NoReply}
    /\ station \in Stations \cup {None}

\* A contact is only ever submitted to the pinned station, or to one that was
\* active at most a cache lifetime and the time of the requests ago: neither a
\* failed lookup, nor a retry, nor a switch in between submits it elsewhere.
StationFresh ==
    pc = "post" => IF pinned # None THEN station = pinned
                   ELSE station \in Stations /\ since[station] < Horizon

\* Once the operator stays with a station, every contact ends up there.
Follows ==
    \A s \in Stations : pinned = None /\ <>[](active = s) => <>[](pc = "post" => station = s)

=============================================================================
