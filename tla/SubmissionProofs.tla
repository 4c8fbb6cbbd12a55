-------------------------- MODULE SubmissionProofs --------------------------
(***************************************************************************)
(* Proofs about Submission: how stale the station of a contact can be, for *)
(* any lifetime of the cache and any times of the requests, and what is    *)
(* read from any datagram and any record, of any length.                   *)
(***************************************************************************)
EXTENDS Submission, SequenceTheorems, WellFoundedInduction, TLAPS

-----------------------------------------------------------------------------
(* The station of a contact.                                               *)

\* What is known of the times.
LEMMA Times ==
    /\ Ttl \in Nat /\ Ttl > 0 /\ RequestTimeout \in Nat
    /\ \A n \in 1..3 : RetrySleeps[n] \in Nat /\ Spent(n) \in Nat /\ Spent(n) <= Spent(3)
    /\ Spent(1) >= RequestTimeout
    /\ \A n \in 1..2 : Spent(n + 1) = Spent(n) + RetrySleeps[n + 1] + RequestTimeout
    /\ Horizon = RequestTimeout + Ttl + Spent(3) /\ Horizon \in Nat /\ MaxAttempts = 3
<1>1. /\ Ttl \in Nat /\ Ttl > 0 /\ RequestTimeout \in Nat
      /\ RetrySleeps[1] \in Nat /\ RetrySleeps[2] \in Nat /\ RetrySleeps[3] \in Nat
  BY TimeAssumption
<1>2. /\ Spent(1) = RetrySleeps[1] + RequestTimeout
      /\ Spent(2) = RetrySleeps[1] + RetrySleeps[2] + 2 * RequestTimeout
      /\ Spent(3) = RetrySleeps[1] + RetrySleeps[2] + RetrySleeps[3] + 3 * RequestTimeout
  BY DEF Spent
<1>3. Horizon = RequestTimeout + Ttl + Spent(3) /\ MaxAttempts = 3
  BY DEF Horizon, MaxAttempts
<1>4. Spent(1) \in Nat /\ Spent(2) \in Nat /\ Spent(3) \in Nat
      /\ Spent(1) <= Spent(3) /\ Spent(2) <= Spent(3)
  BY <1>1, <1>2
<1>5. \A n \in 1..3 : RetrySleeps[n] \in Nat /\ Spent(n) \in Nat /\ Spent(n) <= Spent(3)
  <2> TAKE n \in 1..3
  <2>1. n = 1 \/ n = 2 \/ n = 3
    OBVIOUS
  <2> QED BY <1>1, <1>4, <2>1
<1>6. \A n \in 1..2 : Spent(n + 1) = Spent(n) + RetrySleeps[n + 1] + RequestTimeout
  <2> TAKE n \in 1..2
  <2>1. (n = 1 /\ n + 1 = 2) \/ (n = 2 /\ n + 1 = 3)
    OBVIOUS
  <2> QED BY <1>1, <1>2, <2>1
<1> QED BY <1>1, <1>2, <1>3, <1>4, <1>5, <1>6

\* How long ago, at the latest, the station was active that is submitted to when
\* the n-th attempt has ended, or when the sleep before it has.
Late(where, n) ==
    RequestTimeout + Ttl - 1 + Spent(n) - (IF where = "post" THEN 0 ELSE RequestTimeout)

\* Each attempt and each sleep is paid for.
LEMMA LateTimes ==
    /\ \A n \in 1..3 : /\ Late("post", n) \in Int /\ Late("post_later", n) \in Int
                       /\ Late("post", n) < Horizon
                       /\ Late("post", n) = Late("post_later", n) + RequestTimeout
    /\ \A n \in 1..2 : Late("post_later", n + 1) = Late("post", n) + RetrySleeps[n + 1]
    /\ RequestTimeout + Ttl - 1 + RequestTimeout <= Late("post", 1)
<1>1. \A n \in 1..3 : /\ Late("post", n) = RequestTimeout + Ttl - 1 + Spent(n)
                     /\ Late("post_later", n) = RequestTimeout + Ttl - 1 + Spent(n) - RequestTimeout
  BY Times DEF Late
<1>2. ASSUME NEW n \in 1..3
      PROVE  /\ Late("post", n) \in Int /\ Late("post_later", n) \in Int
             /\ Late("post", n) < Horizon
             /\ Late("post", n) = Late("post_later", n) + RequestTimeout
  BY <1>1, Times
<1>3. ASSUME NEW n \in 1..2
      PROVE  Late("post_later", n + 1) = Late("post", n) + RetrySleeps[n + 1]
  <2>1. n \in 1..3 /\ n + 1 \in 1..3
    OBVIOUS
  <2>2. Spent(n + 1) = Spent(n) + RetrySleeps[n + 1] + RequestTimeout
    BY Times
  <2>3. Spent(n) \in Nat /\ RetrySleeps[n + 1] \in Nat /\ RequestTimeout \in Nat /\ Ttl \in Nat
    BY <2>1, Times
  <2>4. /\ Late("post_later", n + 1) = RequestTimeout + Ttl - 1 + Spent(n + 1) - RequestTimeout
        /\ Late("post", n) = RequestTimeout + Ttl - 1 + Spent(n)
    BY <1>1, <2>1
  <2> QED BY <2>2, <2>3, <2>4
<1>4. RequestTimeout + Ttl - 1 + RequestTimeout <= Late("post", 1)
  BY <1>1, Times
<1> QED BY <1>2, <1>3, <1>4

-----------------------------------------------------------------------------
(* The invariant: every bound on how long ago a station was active leaves  *)
(* room for the time that the request under way may still take.            *)

\* The station flagged active is, the cache holds what was active when its
\* lookup was answered, and an answer what was active when it was served.
ActiveNow == active \in Stations => since[active] = 0

CacheBound ==
    cache.id # None /\ cache.age < Ttl => since[cache.id] <= RequestTimeout + cache.age

LookupBound ==
    /\ pc = "lookup" => timer <= RequestTimeout
    /\ pc = "lookup" /\ reply \in Stations => since[reply] + timer <= RequestTimeout

\* The station of the contact that is submitted or will be again.
PostBound ==
    pc \in {"post", "post_later"} /\ pinned = None =>
        station \in Stations /\ since[station] + timer <= Late(pc, attempt)

Pinned ==
    pinned # None =>
        /\ pc \notin {"lookup", "lookup_later"}
        /\ pc \in {"post", "post_later"} => station = pinned

IInv == TypeOK /\ ActiveNow /\ CacheBound /\ LookupBound /\ PostBound /\ Pinned

\* It holds at first.
LEMMA InitIInv == Init => IInv
<1> SUFFICES ASSUME Init PROVE IInv
  OBVIOUS
<1>1. Ttl \in 0..Ttl /\ 0 \in 0..Beyond /\ Beyond \in 0..Beyond /\ 1 \in 1..MaxAttempts
  BY Times DEF Beyond
<1>2. TypeOK
  BY <1>1 DEF Init, TypeOK, Unwritten
<1> QED BY <1>2 DEF Init, IInv, ActiveNow, CacheBound, LookupBound, PostBound, Pinned, Unwritten

\* A request begins: at once, after a sleep, or not at all.
LEMMA BeginTyped ==
    ASSUME NEW what \in {"lookup", "post"}, NEW n \in 1..3,
           \/ Begin(what, n) \/ Attempt(what, n)
    PROVE  /\ pc' \in {what, IF what = "lookup" THEN "lookup_later" ELSE "post_later"}
           /\ attempt' = n /\ reply' = NoReply
           /\ timer' = IF pc' = what THEN RequestTimeout ELSE RetrySleeps[n]
           /\ timer' \in Nat
  BY Times DEF Begin, Attempt

\* What the steps of the worker leave as it is, and what holds of the rest.
LEMMA WorkerStep ==
    ASSUME IInv, UNCHANGED <<pinned, active, since, cache>>,
           pc' \in {"idle", "lookup", "lookup_later", "post", "post_later"},
           attempt' \in 1..3, timer' \in Nat, reply' = NoReply, station' \in Stations \cup {None},
           pc' = "lookup" => timer' <= RequestTimeout, PostBound', Pinned'
    PROVE  IInv'
<1>1. TypeOK'
  BY Times DEF IInv, TypeOK
<1>2. reply' \notin Stations
  BY StationAssumption DEF NoReply
<1> QED BY <1>1, <1>2 DEF IInv, ActiveNow, CacheBound, LookupBound

\* A contact comes.
LEMMA ResolveKeeps == ASSUME IInv, Resolve PROVE IInv'
<1>0. /\ pinned \in Stations \cup {None} /\ cache.id \in Stations \cup {None}
      /\ cache.age \in 0..Ttl /\ since \in [Stations -> 0..Beyond]
      /\ Beyond \in Nat
  BY Times DEF IInv, TypeOK, Beyond
<1>1. UNCHANGED <<pinned, active, since, cache>>
  BY DEF Resolve
<1>2. CASE pinned # None
  <2>1. station' = pinned /\ Begin("post", 1)
    BY <1>2 DEF Resolve
  <2>2. pc' = "post" /\ attempt' = 1 /\ timer' = RequestTimeout /\ reply' = NoReply
    BY <2>1 DEF Begin
  <2> QED BY <1>0, <1>1, <1>2, <2>1, <2>2, Times, WorkerStep DEF PostBound, Pinned
<1>3. CASE pinned = None /\ Fresh
  <2>1. station' = cache.id /\ Begin("post", 1)
    BY <1>3 DEF Resolve
  <2>2. pc' = "post" /\ attempt' = 1 /\ timer' = RequestTimeout /\ reply' = NoReply
    BY <2>1 DEF Begin
  <2>3. cache.id \in Stations /\ since[cache.id] <= RequestTimeout + cache.age /\ cache.age < Ttl
    BY <1>0, <1>3 DEF IInv, CacheBound, Fresh
  <2>4. since[cache.id] + RequestTimeout <= Late("post", 1)
    BY <1>0, <2>3, Times, LateTimes
  <2>5. PostBound'
    BY <1>1, <2>1, <2>2, <2>3, <2>4 DEF PostBound
  <2> QED BY <1>0, <1>1, <1>3, <2>1, <2>2, <2>3, <2>5, Times, WorkerStep DEF Pinned
<1>4. CASE pinned = None /\ ~Fresh
  <2>1. station' = None /\ Attempt("lookup", 1)
    BY <1>4 DEF Resolve
  <2>2. /\ pc' \in {"lookup", "lookup_later"} /\ attempt' = 1 /\ reply' = NoReply
        /\ timer' \in Nat /\ (pc' = "lookup" => timer' = RequestTimeout)
    BY <2>1, Times DEF Attempt, Begin
  <2>3. PostBound' /\ Pinned'
    BY <1>1, <1>4, <2>2 DEF PostBound, Pinned
  <2> QED BY <1>1, <2>1, <2>2, <2>3, Times, WorkerStep
<1> QED BY <1>2, <1>3, <1>4

\* The worker has done what it can for the contact.
LEMMA IdleKeeps ==
    ASSUME IInv, Idle, UNCHANGED <<pinned, active, since, cache, station>> PROVE IInv'
<1>1. pc' = "idle" /\ attempt' = 1 /\ timer' = 0 /\ reply' = NoReply
  BY DEF Idle
<1>2. station' \in Stations \cup {None}
  BY DEF IInv, TypeOK
<1> QED BY <1>1, <1>2, Times, WorkerStep DEF PostBound, Pinned

\* Wavelog serves a lookup, and its answer is cached.
LEMMA LookupKeeps == ASSUME IInv, Serve \/ Found PROVE IInv'
<1>0. /\ pinned \in Stations \cup {None} /\ since \in [Stations -> 0..Beyond] /\ timer \in Nat
      /\ Beyond \in Nat /\ NoReply \notin Stations /\ None \notin Stations
      /\ active \in Stations \cup {None}
  BY Times, StationAssumption DEF IInv, TypeOK, Beyond, NoReply
<1>1. CASE Serve
  <2>1. pc = "lookup" /\ reply' = active /\ UNCHANGED <<pinned, active, since, cache, pc, attempt, timer, station>>
    BY <1>1 DEF Serve
  <2>2. TypeOK'
    BY <2>1 DEF IInv, TypeOK
  <2>3. LookupBound'
    BY <1>0, <2>1, Times DEF IInv, LookupBound, ActiveNow
  <2> QED BY <2>1, <2>2, <2>3 DEF IInv, ActiveNow, CacheBound, PostBound, Pinned
<1>2. CASE Found
  <2>1. /\ pc = "lookup" /\ reply \in Stations /\ cache' = [id |-> reply, age |-> 0]
        /\ station' = reply /\ pc' = "post" /\ attempt' = 1 /\ timer' = RequestTimeout
        /\ reply' = NoReply /\ UNCHANGED <<pinned, active, since>>
    BY <1>2 DEF Found, Begin
  <2>2. since[reply] <= RequestTimeout /\ since[reply] \in Nat
    BY <1>0, <2>1, Times DEF IInv, LookupBound
  <2>3. TypeOK'
    <3>1. 0 \in 0..Ttl /\ RequestTimeout \in Nat /\ 1 \in 1..MaxAttempts
      BY Times
    <3> QED BY <2>1, <3>1 DEF IInv, TypeOK
  <2>4. CacheBound'
    BY <2>1, <2>2, Times DEF CacheBound
  <2>5. PostBound'
    <3>1. since[reply] + RequestTimeout <= Late("post", 1)
      BY <2>2, Times, LateTimes
    <3> QED BY <2>1, <3>1 DEF PostBound
  <2>6. ActiveNow' /\ LookupBound' /\ Pinned'
    BY <2>1 DEF IInv, ActiveNow, LookupBound, Pinned
  <2> QED BY <2>3, <2>4, <2>5, <2>6 DEF IInv
<1> QED BY <1>1, <1>2

\* An attempt fails and the next one begins, at once or after a sleep.
LEMMA RetryKeeps ==
    ASSUME IInv, pc \in {"lookup", "post"}, attempt < MaxAttempts, Attempt(pc, attempt + 1),
           UNCHANGED <<pinned, active, since, cache, station>>
    PROVE  IInv'
<1> DEFINE n == attempt + 1
<1>0. attempt \in 1..2 /\ n \in 1..3
  <2>1. attempt \in 1..3 /\ attempt < 3
    BY Times DEF IInv, TypeOK
  <2> QED BY <2>1
<1>1. station \in Stations \cup {None} /\ timer \in Nat
      /\ \A s \in Stations : since[s] \in Nat
  BY Times DEF IInv, TypeOK, Beyond
<1>2. RetrySleeps[n] \in Nat /\ RequestTimeout \in Nat
  BY <1>0, Times
<1>3. /\ pc' = pc \/ pc' = (IF pc = "lookup" THEN "lookup_later" ELSE "post_later")
      /\ attempt' = n /\ reply' = NoReply
      /\ timer' = (IF pc' = pc THEN RequestTimeout ELSE RetrySleeps[n])
      /\ pc' = pc => RetrySleeps[n] = 0
  BY DEF Begin, Attempt
<1> HIDE DEF n
<1>4. timer' \in Nat
  BY <1>2, <1>3
<1>5. PostBound'
  <2> SUFFICES ASSUME pc = "post", pinned = None
               PROVE  /\ station \in Stations
                      /\ since[station] + timer' <= Late(pc', n)
    BY <1>3 DEF PostBound
  <2>1. station \in Stations /\ since[station] + timer <= Late("post", attempt)
    BY DEF IInv, PostBound
  <2>2. since[station] \in Nat
    BY <1>1, <2>1
  <2>3. /\ Late("post_later", n) = Late("post", attempt) + RetrySleeps[n]
        /\ Late("post", n) = Late("post_later", n) + RequestTimeout
        /\ Late("post", attempt) \in Int /\ Late("post_later", n) \in Int
    <3>1. attempt \in 1..3
      BY <1>0
    <3> QED BY <1>0, <3>1, LateTimes DEF n
  <2>4. CASE pc' = "post"
    <3>1. timer' = RequestTimeout /\ RetrySleeps[n] = 0
      BY <1>3, <2>4
    <3> QED BY <1>1, <1>2, <2>1, <2>2, <2>3, <2>4, <3>1
  <2>5. CASE pc' = "post_later"
    <3>1. timer' = RetrySleeps[n]
      BY <1>3, <2>5
    <3> QED BY <1>1, <1>2, <2>1, <2>2, <2>3, <2>5, <3>1
  <2> QED BY <1>3, <2>4, <2>5
<1>6. Pinned'
  BY <1>3 DEF IInv, Pinned
<1>7. pc' = "lookup" => timer' <= RequestTimeout
  BY <1>2, <1>3
<1> QED BY <1>0, <1>1, <1>3, <1>4, <1>5, <1>6, <1>7, WorkerStep

\* The sleep before an attempt is over.
LEMMA WakeKeeps == ASSUME IInv, Wake PROVE IInv'
<1>0. attempt \in 1..3 /\ station \in Stations \cup {None} /\ RequestTimeout \in Nat
      /\ \A s \in Stations : since[s] \in Nat
  BY Times DEF IInv, TypeOK, Beyond
<1>1. /\ pc \in {"lookup_later", "post_later"} /\ timer = 0
      /\ pc' = (IF pc = "lookup_later" THEN "lookup" ELSE "post")
      /\ attempt' = attempt /\ timer' = RequestTimeout /\ reply' = NoReply
      /\ UNCHANGED <<pinned, active, since, cache, station>>
  BY DEF Wake, Begin
<1>2. PostBound'
  <2> SUFFICES ASSUME pc = "post_later", pinned = None
               PROVE  /\ station \in Stations
                      /\ since[station] + RequestTimeout <= Late("post", attempt)
    BY <1>1 DEF PostBound
  <2>1. station \in Stations /\ since[station] + 0 <= Late("post_later", attempt)
    BY <1>1 DEF IInv, PostBound
  <2>2. /\ Late("post", attempt) = Late("post_later", attempt) + RequestTimeout
        /\ Late("post_later", attempt) \in Int
    BY <1>0, LateTimes
  <2>3. since[station] \in Nat
    BY <1>0, <2>1
  <2> QED BY <1>0, <2>1, <2>2, <2>3
<1>3. Pinned'
  BY <1>1 DEF IInv, Pinned
<1>4. pc' = "lookup" => timer' <= RequestTimeout
  BY <1>0, <1>1
<1> QED BY <1>0, <1>1, <1>2, <1>3, <1>4, WorkerStep

\* The operator switches stations: none was active longer ago than before.
LEMMA SwitchKeeps == ASSUME IInv, Switch PROVE IInv'
<1>0. /\ \A s \in Stations : since[s] \in 0..Beyond /\ since[s] \in Nat
      /\ 0 \in 0..Beyond /\ timer \in Nat /\ RequestTimeout \in Nat
      /\ cache.id \in Stations \cup {None} /\ cache.age \in Nat
  BY Times DEF IInv, TypeOK, Beyond
<1>1. /\ active' \in Stations \cup {None}
      /\ since' = [s \in Stations |-> IF s = active' THEN 0 ELSE since[s]]
      /\ UNCHANGED <<pinned, cache, pc, attempt, timer, reply, station>>
  BY DEF Switch, requestVars
<1>2. \A s \in Stations : since'[s] \in Nat /\ since'[s] <= since[s]
  BY <1>0, <1>1
<1>3. since' \in [Stations -> 0..Beyond]
  BY <1>0, <1>1
<1>4. TypeOK'
  BY <1>1, <1>3 DEF IInv, TypeOK
<1>5. ActiveNow'
  BY <1>1 DEF ActiveNow
<1>6. CacheBound'
  <2> SUFFICES ASSUME cache.id # None, cache.age < Ttl
               PROVE  since'[cache.id] <= RequestTimeout + cache.age
    BY <1>1 DEF CacheBound
  <2>1. cache.id \in Stations /\ since[cache.id] <= RequestTimeout + cache.age
    BY <1>0 DEF IInv, CacheBound
  <2>2. since'[cache.id] <= since[cache.id] /\ since'[cache.id] \in Nat /\ since[cache.id] \in Nat
    BY <1>0, <1>2, <2>1
  <2> QED BY <1>0, <2>1, <2>2
<1>7. LookupBound'
  <2>1. pc = "lookup" => timer <= RequestTimeout
    BY DEF IInv, LookupBound
  <2>2. ASSUME pc = "lookup", reply \in Stations PROVE since'[reply] + timer <= RequestTimeout
    <3>1. since[reply] + timer <= RequestTimeout
      BY <2>2 DEF IInv, LookupBound
    <3>2. since'[reply] <= since[reply] /\ since'[reply] \in Nat /\ since[reply] \in Nat
      BY <1>0, <1>2, <2>2
    <3> QED BY <1>0, <3>1, <3>2
  <2> QED BY <1>1, <2>1, <2>2 DEF LookupBound
<1>8. PostBound'
  <2> SUFFICES ASSUME pc \in {"post", "post_later"}, pinned = None
               PROVE  station \in Stations /\ since'[station] + timer <= Late(pc, attempt)
    BY <1>1 DEF PostBound
  <2>1. station \in Stations /\ since[station] + timer <= Late(pc, attempt)
    BY DEF IInv, PostBound
  <2>2. since'[station] <= since[station] /\ since'[station] \in Nat /\ since[station] \in Nat
    BY <1>0, <1>2, <2>1
  <2>3. Late(pc, attempt) \in Int
    <3>1. attempt \in 1..3
      BY Times DEF IInv, TypeOK
    <3> QED BY <3>1, LateTimes
  <2> QED BY <1>0, <2>1, <2>2, <2>3
<1>9. Pinned'
  BY <1>1 DEF IInv, Pinned
<1> QED BY <1>4, <1>5, <1>6, <1>7, <1>8, <1>9 DEF IInv

\* Time passes: a request under way has that much less of it left.
LEMMA TickKeeps == ASSUME IInv, Tick PROVE IInv'
<1>0. /\ \A s \in Stations : since[s] \in 0..Beyond /\ since[s] \in Nat
      /\ Beyond \in Nat /\ timer \in Nat /\ RequestTimeout \in Nat
      /\ cache \in [id : Stations \cup {None}, age : 0..Ttl]
  BY Times DEF IInv, TypeOK, Beyond
<1>1. /\ pc = "idle" \/ timer > 0
      /\ timer' = (IF timer > 0 THEN timer - 1 ELSE 0)
      /\ since' = [s \in Stations |-> IF s = active THEN 0 ELSE Older(since[s], Beyond)]
      /\ cache' = [cache EXCEPT !.age = Older(@, Ttl)]
      /\ UNCHANGED <<pinned, active, pc, attempt, reply, station>>
  BY DEF Tick
<1>2. \A s \in Stations :
          since'[s] \in 0..Beyond /\ since'[s] \in Nat /\ since'[s] <= since[s] + 1
  BY <1>0, <1>1 DEF Older
<1>3. /\ cache' \in [id : Stations \cup {None}, age : 0..Ttl] /\ cache'.id = cache.id
      /\ cache'.age < Ttl => cache'.age = cache.age + 1
  BY <1>0, <1>1, Times DEF Older
<1>4. since' \in [Stations -> 0..Beyond]
  BY <1>0, <1>1, <1>2
<1>5. TypeOK'
  <2>1. timer' \in Nat
    BY <1>0, <1>1
  <2> QED BY <1>1, <1>3, <1>4, <2>1 DEF IInv, TypeOK
<1>6. ActiveNow'
  BY <1>1 DEF ActiveNow
<1>7. CacheBound'
  <2> SUFFICES ASSUME cache'.id # None, cache'.age < Ttl
               PROVE  since'[cache'.id] <= RequestTimeout + cache'.age
    BY DEF CacheBound
  <2>1. cache.id \in Stations /\ cache'.age = cache.age + 1 /\ cache.age \in Nat /\ cache.age < Ttl
    BY <1>0, <1>3, Times
  <2>2. since[cache.id] <= RequestTimeout + cache.age
    BY <2>1, <1>3 DEF IInv, CacheBound
  <2>3. since'[cache.id] <= since[cache.id] + 1 /\ since'[cache.id] \in Nat /\ since[cache.id] \in Nat
    BY <1>0, <1>2, <2>1
  <2> QED BY <1>3, <2>1, <2>2, <2>3, Times
<1>8. LookupBound'
  <2>1. ASSUME pc = "lookup" PROVE timer <= RequestTimeout /\ timer' = timer - 1
    BY <1>0, <1>1, <2>1 DEF IInv, LookupBound
  <2>2. ASSUME pc = "lookup", reply \in Stations PROVE since'[reply] + timer' <= RequestTimeout
    <3>1. since[reply] + timer <= RequestTimeout /\ timer' = timer - 1
      BY <2>1, <2>2 DEF IInv, LookupBound
    <3>2. since'[reply] <= since[reply] + 1 /\ since'[reply] \in Nat /\ since[reply] \in Nat
      BY <1>0, <1>2, <2>2
    <3> QED BY <1>0, <3>1, <3>2
  <2>3. pc = "lookup" => timer' <= RequestTimeout
    BY <1>0, <2>1
  <2> QED BY <1>1, <2>2, <2>3 DEF LookupBound
<1>9. PostBound'
  <2> SUFFICES ASSUME pc \in {"post", "post_later"}, pinned = None
               PROVE  station \in Stations /\ since'[station] + timer' <= Late(pc, attempt)
    BY <1>1 DEF PostBound
  <2>1. station \in Stations /\ since[station] + timer <= Late(pc, attempt)
    BY DEF IInv, PostBound
  <2>2. timer' = timer - 1
    BY <1>0, <1>1
  <2>3. since'[station] <= since[station] + 1 /\ since'[station] \in Nat /\ since[station] \in Nat
    BY <1>0, <1>2, <2>1
  <2>4. Late(pc, attempt) \in Int
    <3>1. attempt \in 1..3
      BY Times DEF IInv, TypeOK
    <3> QED BY <3>1, LateTimes
  <2> QED BY <1>0, <2>1, <2>2, <2>3, <2>4
<1>10. Pinned'
  BY <1>1 DEF IInv, Pinned
<1> QED BY <1>5, <1>6, <1>7, <1>8, <1>9, <1>10 DEF IInv

\* Every step keeps the invariant.
LEMMA StepIInv == ASSUME IInv, [Next]_vars PROVE IInv'
<1>1. CASE NoActiveStation \/ Answered
  BY <1>1, IdleKeeps DEF NoActiveStation, Answered, GiveUp
<1>2. CASE Fails
  BY <1>2, IdleKeeps, RetryKeeps DEF Fails, GiveUp
<1>3. CASE UNCHANGED vars
  BY <1>3 DEF vars, requestVars, IInv, TypeOK, ActiveNow, CacheBound, LookupBound, PostBound, Pinned
<1> QED
  BY <1>1, <1>2, <1>3, ResolveKeeps, LookupKeeps, WakeKeeps, SwitchKeeps, TickKeeps
     DEF Next, Program

\* The invariant always holds.
LEMMA IInvAlways == Spec => []IInv
<1>1. IInv /\ [Next]_vars => IInv'
  BY StepIInv
<1> QED BY InitIInv, <1>1, PTL DEF Spec

\* Every variable of the worker and of the cache keeps its type.
THEOREM StationTypeCorrect == Spec => []TypeOK
<1>1. IInv => TypeOK
  BY DEF IInv
<1> QED BY IInvAlways, <1>1, PTL

\* A contact is submitted to the pinned station, or to one that was active at
\* most a cache lifetime and the time of the requests ago (wavelog/station.rs,
\* ActiveStationCache::resolve; wavelog/client.rs, with_retries).
THEOREM StationFreshAlways == Spec => []StationFresh
<1>1. IInv => StationFresh
  <2> SUFFICES ASSUME IInv, pc = "post"
               PROVE  IF pinned # None THEN station = pinned
                      ELSE station \in Stations /\ since[station] < Horizon
    BY DEF StationFresh
  <2>1. CASE pinned # None
    BY <2>1 DEF IInv, Pinned
  <2>2. CASE pinned = None
    <3>1. station \in Stations /\ since[station] + timer <= Late("post", attempt)
      BY <2>2 DEF IInv, PostBound
    <3>2. since[station] \in Nat /\ timer \in Nat /\ attempt \in 1..3
      BY <3>1, Times DEF IInv, TypeOK, Beyond
    <3>3. Late("post", attempt) < Horizon /\ Late("post", attempt) \in Int /\ Horizon \in Nat
      BY <3>2, Times, LateTimes
    <3> QED BY <2>2, <3>1, <3>2, <3>3
  <2> QED BY <2>1, <2>2
<1> QED BY IInvAlways, <1>1, PTL

-----------------------------------------------------------------------------
(* Induction and sequences.                                                *)

\* A set of naturals that is not empty has a least element.
LEMMA Least ==
    ASSUME NEW T \in SUBSET Nat, T # {}
    PROVE  \E n \in T : \A m \in T : n <= m
<1> DEFINE R == {ss \in Nat \X Nat : ss[1] < ss[2]}
<1>1. IsWellFoundedOn(R, Nat)
  BY NatLessThanWellFounded DEF OpToRel
<1>2. PICK x \in T : \A y \in T : ~(<<y, x>> \in R)
  <2> HIDE DEF R
  <2> QED BY <1>1, WFMin
<1>3. \A y \in T : x <= y
  <2> TAKE y \in T
  <2>1. x \in Nat /\ y \in Nat
    OBVIOUS
  <2>2. y < x => <<y, x>> \in R
    BY <2>1
  <2> HIDE DEF R
  <2>3. ~(y < x)
    BY <1>2, <2>2
  <2> QED BY <2>1, <2>3
<1> QED BY <1>3

\* Induction, for a property given by the set of those that have it.
LEMMA Induction ==
    ASSUME NEW S, 0 \in S, \A n \in Nat : n \in S => n + 1 \in S
    PROVE  Nat \subseteq S
<1> SUFFICES ASSUME Nat \ S # {} PROVE FALSE
  OBVIOUS
<1>1. PICK n \in Nat \ S : \A m \in Nat \ S : n <= m
  BY Least
<1>2. n # 0 /\ n - 1 \in Nat
  BY <1>1
<1>3. n - 1 \in S
  BY <1>1, <1>2
<1>4. (n - 1) + 1 \in S
  BY <1>2, <1>3
<1> QED BY <1>1, <1>2, <1>4

\* What a text of the wire is, and where a sequence stands in another.
Wire(s) == s \in Seq(Byte) /\ Utf8(s) /\ Len(s) < Half

Stands(f, d, pos) == pos + Len(f) <= Len(d) /\ \A i \in 1..Len(f) : d[pos + i] = f[i]

\* A part of a sequence, element by element.
LEMMA Part ==
    ASSUME NEW S, NEW d \in Seq(S), NEW p \in Nat, NEW n \in Nat, p + n <= Len(d)
    PROVE  /\ SubSeq(d, p + 1, p + n) \in Seq(S)
           /\ Len(SubSeq(d, p + 1, p + n)) = n
           /\ \A i \in 1..n : SubSeq(d, p + 1, p + n)[i] = d[p + i]
<1> DEFINE t == SubSeq(d, p + 1, p + n)
<1>1. \A i \in (p + 1)..(p + n) : d[i] \in S
  OBVIOUS
<1>2. /\ t \in Seq(S)
      /\ Len(t) = IF p + 1 <= p + n THEN (p + n) - (p + 1) + 1 ELSE 0
      /\ \A i \in 1..((p + n) - (p + 1) + 1) : t[i] = d[(p + 1) + i - 1]
  <2>1. p + 1 \in Int /\ p + n \in Int
    OBVIOUS
  <2> QED BY ONLY <1>1, <2>1, SubSeqProperties
<1> HIDE DEF t
<1>3. (p + n) - (p + 1) + 1 = n /\ (IF p + 1 <= p + n THEN n ELSE 0) = n
      /\ \A i \in Int : (p + 1) + i - 1 = p + i
  OBVIOUS
<1>4. t \in Seq(S) /\ Len(t) = n /\ \A i \in 1..n : t[i] = d[p + i]
  BY <1>2, <1>3
<1> QED BY <1>4 DEF t

\* Standing somewhere, for a prefix, a concatenation and a part.
LEMMA StandsFacts ==
    ASSUME NEW S, NEW f \in Seq(S), NEW g \in Seq(S), NEW d \in Seq(S), NEW pos \in Nat
    PROVE  /\ IsPrefix(f, d) <=> Stands(f, d, 0)
           /\ Stands(f \o g, d, pos) <=> Stands(f, d, pos) /\ Stands(g, d, pos + Len(f))
           /\ Stands(f, d, pos) <=> pos + Len(f) <= Len(d) /\ f = SubSeq(d, pos + 1, pos + Len(f))
<1>0. Len(f) \in Nat /\ Len(g) \in Nat /\ Len(d) \in Nat
  OBVIOUS
<1>1. Stands(f \o g, d, pos) <=> Stands(f, d, pos) /\ Stands(g, d, pos + Len(f))
  <2>1. /\ Len(f \o g) = Len(f) + Len(g)
        /\ \A i \in 1..Len(f) : (f \o g)[i] = f[i]
        /\ \A i \in 1..Len(g) : (f \o g)[Len(f) + i] = g[i]
    OBVIOUS
  <2>2. ASSUME Stands(f \o g, d, pos) PROVE Stands(f, d, pos) /\ Stands(g, d, pos + Len(f))
    <3>1. ASSUME NEW i \in 1..Len(f) PROVE d[pos + i] = f[i]
      <4>1. i \in 1..Len(f \o g)
        BY <2>1
      <4> QED BY <2>1, <2>2, <4>1 DEF Stands
    <3>2. ASSUME NEW i \in 1..Len(g) PROVE d[pos + Len(f) + i] = g[i]
      <4>1. Len(f) + i \in 1..Len(f \o g) /\ pos + Len(f) + i = pos + (Len(f) + i)
        BY <2>1
      <4> QED BY <2>1, <2>2, <4>1 DEF Stands
    <3> QED BY <2>1, <2>2, <3>1, <3>2 DEF Stands
  <2>3. ASSUME Stands(f, d, pos), Stands(g, d, pos + Len(f)) PROVE Stands(f \o g, d, pos)
    <3>1. ASSUME NEW i \in 1..Len(f \o g) PROVE d[pos + i] = (f \o g)[i]
      <4>1. CASE i <= Len(f)
        BY <2>1, <2>3, <4>1 DEF Stands
      <4>2. CASE i > Len(f)
        <5>1. i - Len(f) \in 1..Len(g) /\ Len(f) + (i - Len(f)) = i
              /\ pos + Len(f) + (i - Len(f)) = pos + i
          BY <2>1, <4>2
        <5> QED BY <2>1, <2>3, <5>1 DEF Stands
      <4> QED BY <4>1, <4>2
    <3> QED BY <2>1, <2>3, <3>1 DEF Stands
  <2> QED BY <2>2, <2>3
<1>2. ASSUME NEW p \in Nat
      PROVE  Stands(f, d, p) <=> p + Len(f) <= Len(d) /\ f = SubSeq(d, p + 1, p + Len(f))
  <2> SUFFICES ASSUME p + Len(f) <= Len(d)
               PROVE  (\A i \in 1..Len(f) : d[p + i] = f[i]) <=> f = SubSeq(d, p + 1, p + Len(f))
    BY DEF Stands
  <2> DEFINE t == SubSeq(d, p + 1, p + Len(f))
  <2>1. t \in Seq(S) /\ Len(t) = Len(f) /\ \A i \in 1..Len(f) : t[i] = d[p + i]
    <3> DEFINE n == Len(f)
    <3>1. n \in Nat /\ p + n <= Len(d)
      BY <1>0
    <3> HIDE DEF n
    <3>2. /\ SubSeq(d, p + 1, p + n) \in Seq(S)
          /\ Len(SubSeq(d, p + 1, p + n)) = n
          /\ \A i \in 1..n : SubSeq(d, p + 1, p + n)[i] = d[p + i]
      BY <3>1, Part
    <3> QED BY <3>2 DEF n
  <2> HIDE DEF t
  <2>2. (\A i \in 1..Len(f) : f[i] = t[i]) => f = t
    BY <2>1, SeqEqual
  <2>3. CASE f = t
    BY <2>1, <2>3
  <2>4. CASE \A i \in 1..Len(f) : d[p + i] = f[i]
    <3>1. \A i \in 1..Len(f) : f[i] = t[i]
      BY <2>1, <2>4
    <3> QED BY <2>2, <2>4, <3>1
  <2> QED BY <2>3, <2>4 DEF t
<1>3. IsPrefix(f, d) <=> Stands(f, d, 0)
  <2>1. SubSeq(f, 1, Len(f)) = f
    OBVIOUS
  <2>2. 0 + Len(f) = Len(f) /\ 0 + 1 = 1
    BY <1>0
  <2> QED BY <1>2, <2>1, <2>2 DEF IsPrefix
<1> QED BY <1>1, <1>2, <1>3

-----------------------------------------------------------------------------
(* Datagrams.                                                              *)

\* A word and its two bytes.
LEMMA WordFacts ==
    /\ \A w \in Words : /\ Encoded(w) \in Seq(Byte) /\ Len(Encoded(w)) = 2
                        /\ 4 * Encoded(w)[1] + Encoded(w)[2] = w
    /\ \A hi, lo \in Byte : 4 * hi + lo \in Words /\ Encoded(4 * hi + lo) = <<hi, lo>>
<1>1. ASSUME NEW w \in Words
      PROVE /\ Encoded(w) \in Seq(Byte) /\ Len(Encoded(w)) = 2 /\ 4 * Encoded(w)[1] + Encoded(w)[2] = w
  <2>1. w \div 4 \in Byte /\ w % 4 \in Byte /\ 4 * (w \div 4) + (w % 4) = w
    BY DEF Words, Byte
  <2> QED BY <2>1 DEF Encoded
<1>2. ASSUME NEW hi \in Byte, NEW lo \in Byte
      PROVE  4 * hi + lo \in Words /\ Encoded(4 * hi + lo) = <<hi, lo>>
  <2>1. 4 * hi + lo \in Words /\ (4 * hi + lo) \div 4 = hi /\ (4 * hi + lo) % 4 = lo
    BY DEF Words, Byte
  <2> QED BY <2>1 DEF Encoded
<1> QED BY <1>1, <1>2

\* What the cursor makes of the next word.
LEMMA ReadWord ==
    ASSUME NEW d \in Seq(Byte), NEW pos \in Nat
    PROVE  /\ ReadU32(d, pos).ok <=> pos + 2 <= Len(d)
           /\ pos + 2 <= Len(d) => /\ ReadU32(d, pos).value = 4 * d[pos + 1] + d[pos + 2]
                                   /\ ReadU32(d, pos).pos = pos + 2
                                   /\ DOMAIN ReadU32(d, pos) = {"ok", "value", "pos"}
<1>1. CASE pos + 2 > Len(d)
  BY <1>1 DEF ReadU32, Take, WordSize, Failure
<1>2. CASE pos + 2 <= Len(d)
  <2> DEFINE t == SubSeq(d, pos + 1, pos + 2)
             r == [ok |-> TRUE, value |-> t, pos |-> pos + 2]
  <2>1. t[1] = d[pos + 1] /\ t[2] = d[pos + 2]
    <3>1. 1 \in 1..2 /\ 2 \in 1..2
      OBVIOUS
    <3> HIDE DEF t
    <3>2. \A i \in 1..2 : t[i] = d[pos + i]
      BY <1>2, Part DEF t
    <3> QED BY <3>1, <3>2
  <2>2. Take(d, pos, WordSize) = r
    BY <1>2 DEF Take, WordSize
  <2>3. r.ok = TRUE /\ r.value = t /\ r.pos = pos + 2
    OBVIOUS
  <2>4. DOMAIN r = {"ok", "value", "pos"}
    OBVIOUS
  <2> HIDE DEF r, t
  <2>5. ReadU32(d, pos) = [r EXCEPT !.value = 4 * r.value[1] + r.value[2]]
    BY <2>2, <2>3 DEF ReadU32
  <2>6. ReadU32(d, pos).ok = TRUE /\ ReadU32(d, pos).pos = pos + 2
        /\ ReadU32(d, pos).value = 4 * r.value[1] + r.value[2]
        /\ DOMAIN ReadU32(d, pos) = {"ok", "value", "pos"}
    BY <2>3, <2>4, <2>5
  <2> QED BY <1>2, <2>1, <2>3, <2>6
<1> QED BY <1>1, <1>2

\* What it makes of the next n bytes.
LEMMA TakePart ==
    ASSUME NEW d \in Seq(Byte), NEW pos \in Nat, NEW n \in Nat
    PROVE  /\ Take(d, pos, n).ok <=> pos + n <= Len(d)
           /\ pos + n <= Len(d) => /\ Take(d, pos, n).value = SubSeq(d, pos + 1, pos + n)
                                   /\ Take(d, pos, n).pos = pos + n
<1>1. CASE pos + n > Len(d)
  BY <1>1 DEF Take, Failure
<1>2. CASE pos + n <= Len(d)
  BY <1>2 DEF Take
<1> QED BY <1>1, <1>2

\* Where an encoding of a text stands the cursor reads that text, and goes on
\* after it.
LEMMA StringRead ==
    ASSUME NEW d \in Seq(Byte), NEW pos \in Nat, NEW s, Wire(s),
           NEW f \in Encodings(s), Stands(f, d, pos)
    PROVE  /\ ReadQString(d, pos).ok
           /\ ReadQString(d, pos).value = s
           /\ ReadQString(d, pos).pos = pos + Len(f)
           /\ Len(f) \in Nat
           /\ s \in Texts(d)
<1>0. s \in Seq(Byte) /\ Utf8(s) /\ Len(s) \in Nat /\ Len(s) < 8 /\ Len(d) \in Nat
  BY DEF Wire, Half
<1>1. Len(s) \in Words /\ 15 \in Words
  <2>1. \A n \in Nat : n < 8 => n \in Words
    BY DEF Words
  <2>2. 15 \in Words
    BY DEF Words
  <2> QED BY <1>0, <2>1, <2>2
<1>2. PICK w : w = ReadU32(d, pos)
  OBVIOUS
<1>3. PICK t : t = Take(d, w.pos, Signed(w.value))
  OBVIOUS
<1>4. ASSUME NEW len \in Words, Stands(Encoded(len), d, pos)
      PROVE  w.ok /\ w.value = len /\ w.pos = pos + 2 /\ DOMAIN w = {"ok", "value", "pos"}
  <2>1. Len(Encoded(len)) = 2 /\ 4 * Encoded(len)[1] + Encoded(len)[2] = len
    BY WordFacts
  <2>2. pos + 2 <= Len(d) /\ d[pos + 1] = Encoded(len)[1] /\ d[pos + 2] = Encoded(len)[2]
    BY <1>4, <2>1 DEF Stands
  <2> QED BY <1>2, <2>1, <2>2, ReadWord
<1>5. ReadQString(d, pos) = IF ~w.ok THEN w
        ELSE IF Signed(w.value) = -1 THEN [w EXCEPT !.value = <<>>]
        ELSE IF Signed(w.value) < 0 THEN Failure(w.pos)
        ELSE IF t.ok /\ Utf8(t.value) THEN t
        ELSE Failure(w.pos)
  BY <1>2, <1>3 DEF ReadQString
<1>6. CASE f = Encoded(Len(s)) \o s
  <2>1. Encoded(Len(s)) \in Seq(Byte) /\ Len(Encoded(Len(s))) = 2
    BY <1>1, WordFacts
  <2>2. Len(f) = 2 + Len(s)
    <3>1. \A g \in Seq(Byte) : Len(g \o s) = Len(g) + Len(s)
      BY <1>0
    <3> QED BY <1>6, <2>1, <3>1
  <2>3. Stands(Encoded(Len(s)), d, pos) /\ Stands(s, d, pos + 2)
    BY <1>0, <1>6, <2>1, StandsFacts
  <2>4. w.ok /\ w.value = Len(s) /\ w.pos = pos + 2
    BY <1>1, <1>4, <2>3
  <2>5. Signed(w.value) = Len(s)
    BY <1>0, <2>4 DEF Signed, Half
  <2>6. pos + 2 \in Nat /\ pos + 2 + Len(s) <= Len(d) /\ s = SubSeq(d, pos + 2 + 1, pos + 2 + Len(s))
    BY <1>0, <2>3, StandsFacts
  <2>7. t = Take(d, pos + 2, Len(s))
    BY <1>3, <2>4, <2>5
  <2>8. t.ok /\ t.value = s /\ t.pos = pos + 2 + Len(s)
    BY <1>0, <2>6, <2>7, TakePart
  <2>9. ReadQString(d, pos) = t
    BY <1>0, <1>5, <2>4, <2>5, <2>8
  <2>10. s \in Texts(d)
    <3>1. PICK i \in 1..(Len(d) + 1), j \in 0..Len(d) : s = SubSeq(d, i, j)
      <4>1. pos + 2 + 1 \in 1..(Len(d) + 1) /\ pos + 2 + Len(s) \in 0..Len(d)
        BY <1>0, <2>6
      <4> QED BY <2>6, <4>1
    <3> QED BY <1>0, <3>1 DEF Texts, Half
  <2> QED BY <1>0, <2>2, <2>8, <2>9, <2>10
<1>7. CASE s = <<>> /\ f = Encoded(15)
  <2>1. Len(f) = 2 /\ w.ok /\ w.value = 15 /\ w.pos = pos + 2 /\ DOMAIN w = {"ok", "value", "pos"}
    BY <1>1, <1>4, <1>7, WordFacts
  <2>2. Signed(w.value) = -1
    BY <2>1 DEF Signed, Half
  <2>3. ReadQString(d, pos) = [w EXCEPT !.value = <<>>]
    BY <1>5, <2>1, <2>2
  <2>4. s \in Texts(d)
    <3>1. PICK i \in 1..(Len(d) + 1), j \in 0..Len(d) : s = SubSeq(d, i, j)
      <4>1. SubSeq(d, 1, 0) = <<>> /\ 1 \in 1..(Len(d) + 1) /\ 0 \in 0..Len(d)
        BY <1>0
      <4> QED BY <1>7, <4>1
    <3> QED BY <1>0, <3>1 DEF Texts, Half
  <2>5. ReadQString(d, pos).value = <<>> /\ ReadQString(d, pos).ok /\ ReadQString(d, pos).pos = w.pos
    BY <2>1, <2>3
  <2>6. ReadQString(d, pos).pos = pos + Len(f) /\ Len(f) \in Nat
    BY <2>1, <2>5
  <2>7. ReadQString(d, pos).value = s
    BY <1>7, <2>5
  <2> QED BY <2>4, <2>5, <2>6, <2>7
<1>8. f = Encoded(Len(s)) \o s \/ (s = <<>> /\ f = Encoded(15))
  BY DEF Encodings, Half
<1> QED BY <1>6, <1>7, <1>8

\* Where the cursor reads a string, an encoding of it stands there.
LEMMA StringFound ==
    ASSUME NEW d \in Seq(Byte), NEW pos \in Nat, ReadQString(d, pos).ok
    PROVE  LET s == ReadQString(d, pos).value
           IN  Wire(s) /\ \E f \in Encodings(s) : f \in Seq(Byte) /\ Stands(f, d, pos)
<1>1. PICK w : w = ReadU32(d, pos)
  OBVIOUS
<1>2. PICK len : len = Signed(w.value)
  OBVIOUS
<1>3. PICK t : t = Take(d, w.pos, len)
  OBVIOUS
<1>4. PICK q : q = ReadQString(d, pos)
  OBVIOUS
<1>5. q = IF ~w.ok THEN w
        ELSE IF len = -1 THEN [w EXCEPT !.value = <<>>]
        ELSE IF len < 0 THEN Failure(w.pos)
        ELSE IF t.ok /\ Utf8(t.value) THEN t
        ELSE Failure(w.pos)
  BY <1>1, <1>2, <1>3, <1>4 DEF ReadQString
<1>6. ~Failure(w.pos).ok /\ q.ok
  BY <1>4 DEF Failure
<1>7. w.ok
  BY <1>5, <1>6
<1>8. /\ pos + 2 <= Len(d) /\ w.value = 4 * d[pos + 1] + d[pos + 2] /\ w.pos = pos + 2
      /\ DOMAIN w = {"ok", "value", "pos"}
  BY <1>1, <1>7, ReadWord
<1>9. w.value \in Words /\ Encoded(w.value) = <<d[pos + 1], d[pos + 2]>>
  <2>1. Len(d) \in Nat
    OBVIOUS
  <2>2. d[pos + 1] \in Byte /\ d[pos + 2] \in Byte
    BY <1>8, <2>1
  <2>3. \A hi, lo \in Byte : 4 * hi + lo \in Words /\ Encoded(4 * hi + lo) = <<hi, lo>>
    BY WordFacts
  <2> QED BY <1>8, <2>2, <2>3
<1>10. Stands(Encoded(w.value), d, pos) /\ Encoded(w.value) \in Seq(Byte) /\ Len(Encoded(w.value)) = 2
  <2>1. Encoded(w.value) \in Seq(Byte) /\ Len(Encoded(w.value)) = 2
    BY <1>9, WordFacts
  <2>2. Encoded(w.value)[1] = d[pos + 1] /\ Encoded(w.value)[2] = d[pos + 2]
    BY <1>9
  <2>3. \A i \in 1..2 : i = 1 \/ i = 2
    OBVIOUS
  <2> QED BY <1>8, <2>1, <2>2, <2>3 DEF Stands
<1>11. len \in Int /\ len < 8 /\ (len = -1 => w.value = 15) /\ (len >= 0 => w.value = len)
  <2>1. w.value \in Int /\ 0 <= w.value /\ w.value <= 15
    BY <1>9 DEF Words
  <2> QED BY <1>2, <2>1 DEF Signed, Half
<1>12. CASE len = -1
  <2>1. q.value = <<>>
    BY <1>5, <1>7, <1>8, <1>12
  <2>2. Wire(<<>>)
    BY DEF Wire, Utf8, Half
  <2>3. Encoded(15) \in Encodings(<<>>) /\ w.value = 15
    BY <1>11, <1>12 DEF Encodings, Half
  <2> QED BY <1>4, <1>10, <2>1, <2>2, <2>3
<1>13. CASE len # -1
  <2>1. len >= 0 /\ t.ok /\ Utf8(t.value) /\ q = t
    BY <1>5, <1>6, <1>7, <1>11, <1>13
  <2>2. len \in Nat /\ w.value = len /\ pos + 2 \in Nat
    BY <1>11, <2>1
  <2>3. t = Take(d, pos + 2, len)
    BY <1>3, <1>8
  <2>4. pos + 2 + len <= Len(d) /\ t.value = SubSeq(d, pos + 2 + 1, pos + 2 + len)
    BY <2>1, <2>2, <2>3, TakePart
  <2>5. t.value \in Seq(Byte) /\ Len(t.value) = len
    BY <2>2, <2>4, Part
  <2>6. PICK s : s = t.value
    OBVIOUS
  <2>7. Stands(s, d, pos + 2)
    BY <2>2, <2>4, <2>5, <2>6, StandsFacts
  <2>8. Stands(Encoded(len), d, pos) /\ Encoded(len) \in Seq(Byte) /\ Len(Encoded(len)) = 2
    BY <1>10, <2>2
  <2>9. s \in Seq(Byte) /\ Encoded(len) \o s \in Seq(Byte)
    BY <2>5, <2>6, <2>8
  <2>10. Stands(Encoded(len) \o s, d, pos)
    BY <2>7, <2>8, <2>9, StandsFacts
  <2>11. Encoded(len) \o s \in Encodings(s)
    BY <2>5, <2>6 DEF Encodings
  <2>12. Wire(s)
    BY <1>11, <2>1, <2>5, <2>6 DEF Wire, Half
  <2> QED BY <1>4, <2>1, <2>6, <2>9, <2>10, <2>11, <2>12
<1> QED BY <1>12, <1>13

\* A word stands where its value is read.
LEMMA WordStands ==
    ASSUME NEW d \in Seq(Byte), NEW pos \in Nat, NEW w \in Words
    PROVE  Stands(Encoded(w), d, pos) <=> pos + 2 <= Len(d) /\ 4 * d[pos + 1] + d[pos + 2] = w
<1>1. Encoded(w) \in Seq(Byte) /\ Len(Encoded(w)) = 2 /\ 4 * Encoded(w)[1] + Encoded(w)[2] = w
  BY WordFacts
<1>2. Len(d) \in Nat
  OBVIOUS
<1>3. SUFFICES ASSUME pos + 2 <= Len(d)
               PROVE  Stands(Encoded(w), d, pos) <=> 4 * d[pos + 1] + d[pos + 2] = w
  BY <1>1 DEF Stands
<1>4. ASSUME Stands(Encoded(w), d, pos) PROVE 4 * d[pos + 1] + d[pos + 2] = w
  <2>1. d[pos + 1] = Encoded(w)[1] /\ d[pos + 2] = Encoded(w)[2]
    BY <1>1, <1>4 DEF Stands
  <2> QED BY <1>1, <2>1
<1>5. ASSUME 4 * d[pos + 1] + d[pos + 2] = w PROVE Stands(Encoded(w), d, pos)
  <2>1. d[pos + 1] \in Byte /\ d[pos + 2] \in Byte
    BY <1>2, <1>3
  <2>2. Encoded(w) = <<d[pos + 1], d[pos + 2]>>
    BY <1>5, <2>1, WordFacts
  <2>3. Encoded(w)[1] = d[pos + 1] /\ Encoded(w)[2] = d[pos + 2]
    BY <2>2
  <2>4. \A i \in 1..2 : i = 1 \/ i = 2
    OBVIOUS
  <2> QED BY <1>1, <1>3, <2>3, <2>4 DEF Stands
<1> QED BY <1>4, <1>5

\* A datagram begins with the header of a logged QSO.
HasHeader(d) == 6 <= Len(d) /\ 4 * d[1] + d[2] = 9 /\ 4 * d[5] + d[6] = 12

\* That is what a header says, whatever its schema.
LEMMA HeaderStands ==
    ASSUME NEW d \in Seq(Byte)
    PROVE  (\E schema \in Words : IsPrefix(Header(schema), d)) <=> HasHeader(d)
<1>1. 9 \in Words /\ 12 \in Words /\ Len(d) \in Nat
  <2>1. 9 \in Words /\ 12 \in Words
    BY DEF Words
  <2> QED BY <2>1
<1>2. \A w \in Words : Encoded(w) \in Seq(Byte) /\ Len(Encoded(w)) = 2
  BY WordFacts
<1>3. ASSUME NEW schema \in Words
      PROVE  IsPrefix(Header(schema), d)
               <=> /\ Stands(Encoded(9), d, 0)
                   /\ Stands(Encoded(schema), d, 2)
                   /\ Stands(Encoded(12), d, 4)
  <2>1. PICK a \in Seq(Byte), b \in Seq(Byte), c \in Seq(Byte) :
             /\ a = Encoded(9) /\ b = Encoded(schema) /\ c = Encoded(12)
             /\ Len(a) = 2 /\ Len(b) = 2
    BY <1>1, <1>2
  <2>2. Header(schema) = (a \o b) \o c
    BY <2>1 DEF Header, Magic, MsgTypeLoggedAdif
  <2>3. PICK g \in Seq(Byte) : g = a \o b /\ Len(g) = 4
    <3>1. a \o b \in Seq(Byte) /\ Len(a \o b) = Len(a) + Len(b)
      BY ConcatProperties
    <3>2. Len(a \o b) = 4
      BY <2>1, <3>1
    <3> QED BY <3>1, <3>2
  <2>4. g \o c \in Seq(Byte)
    BY <2>1, <2>3
  <2>5. 0 + Len(g) = 4 /\ 0 + Len(a) = 2 /\ 0 \in Nat
    BY <2>1, <2>3
  <2>6. IsPrefix(g \o c, d) <=> Stands(g \o c, d, 0)
    BY <2>4, StandsFacts
  <2>0. \A x, y \in Seq(Byte) : Stands(x \o y, d, 0) <=> Stands(x, d, 0) /\ Stands(y, d, 0 + Len(x))
    BY StandsFacts
  <2>7. Stands(g \o c, d, 0) <=> Stands(g, d, 0) /\ Stands(c, d, 4)
    BY <2>0, <2>5
  <2>8. Stands(a \o b, d, 0) <=> Stands(a, d, 0) /\ Stands(b, d, 2)
    BY <2>0, <2>5
  <2> QED BY <2>1, <2>2, <2>3, <2>6, <2>7, <2>8
<1>4. ASSUME NEW schema \in Words, IsPrefix(Header(schema), d) PROVE HasHeader(d)
  <2>1. Stands(Encoded(9), d, 0) /\ Stands(Encoded(12), d, 4)
    BY <1>3, <1>4
  <2>2. 0 + 1 = 1 /\ 0 + 2 = 2 /\ 4 + 1 = 5 /\ 4 + 2 = 6 /\ 0 \in Nat /\ 4 \in Nat
    OBVIOUS
  <2>3. 4 * d[0 + 1] + d[0 + 2] = 9 /\ 4 + 2 <= Len(d) /\ 4 * d[4 + 1] + d[4 + 2] = 12
    BY <1>1, <2>1, <2>2, WordStands
  <2> QED BY <2>2, <2>3 DEF HasHeader
<1>5. ASSUME HasHeader(d) PROVE \E schema \in Words : IsPrefix(Header(schema), d)
  <2>1. d[3] \in Byte /\ d[4] \in Byte
    BY <1>1, <1>5 DEF HasHeader
  <2>2. PICK schema \in Words : schema = 4 * d[3] + d[4]
    BY <2>1, WordFacts
  <2>3. /\ 0 + 1 = 1 /\ 0 + 2 = 2 /\ 2 + 1 = 3 /\ 2 + 2 = 4 /\ 4 + 1 = 5 /\ 4 + 2 = 6
        /\ 0 \in Nat /\ 2 \in Nat /\ 4 \in Nat
    OBVIOUS
  <2>4. 2 <= Len(d) /\ 4 <= Len(d) /\ 6 <= Len(d)
    BY <1>1, <1>5 DEF HasHeader
  <2>5. Stands(Encoded(9), d, 0)
    BY <1>1, <1>5, <2>3, <2>4, WordStands DEF HasHeader
  <2>6. Stands(Encoded(12), d, 4)
    BY <1>1, <1>5, <2>3, <2>4, WordStands DEF HasHeader
  <2>7. Stands(Encoded(schema), d, 2)
    BY <2>2, <2>3, <2>4, WordStands
  <2> QED BY <1>3, <2>5, <2>6, <2>7
<1> QED BY <1>4, <1>5

\* The parser gives the second string after such a header, if it can read both.
LEMMA Parsed ==
    ASSUME NEW d \in Seq(Byte), NEW id, id = ReadQString(d, 6),
           NEW adif, adif = ReadQString(d, id.pos)
    PROVE  /\ ParseLoggedAdif(d).kind = "Some" <=> HasHeader(d) /\ id.ok /\ adif.ok
           /\ ParseLoggedAdif(d).kind = "Some" => ParseLoggedAdif(d).adif = adif.value
<1>0. Len(d) \in Nat /\ 0 \in Nat /\ 2 \in Nat /\ 4 \in Nat
      /\ 0 + 1 = 1 /\ 0 + 2 = 2 /\ 2 + 2 = 4 /\ 4 + 1 = 5 /\ 4 + 2 = 6
  OBVIOUS
<1>1. PICK magic : magic = ReadU32(d, 0)
  OBVIOUS
<1>2. PICK schema : schema = ReadU32(d, magic.pos)
  OBVIOUS
<1>3. PICK type : type = ReadU32(d, schema.pos)
  OBVIOUS
<1>4. PICK name : name = ReadQString(d, type.pos)
  OBVIOUS
<1>5. PICK text : text = ReadQString(d, name.pos)
  OBVIOUS
<1>6. ParseLoggedAdif(d) =
        IF ~magic.ok \/ magic.value # 9 \/ ~schema.ok \/ ~type.ok THEN Malformed
        ELSE IF type.value # 12 THEN Ignored
        ELSE IF ~name.ok \/ ~text.ok THEN Malformed
        ELSE [kind |-> "Some", adif |-> text.value]
  BY <1>1, <1>2, <1>3, <1>4, <1>5 DEF ParseLoggedAdif, Magic, MsgTypeLoggedAdif
<1>7. Malformed.kind # "Some" /\ Ignored.kind # "Some"
  BY DEF Malformed, Ignored
<1>8. (magic.ok <=> 2 <= Len(d)) /\ (2 <= Len(d) => magic.value = 4 * d[1] + d[2] /\ magic.pos = 2)
  BY <1>0, <1>1, ReadWord
<1>9. 2 <= Len(d) => (schema.ok <=> 4 <= Len(d)) /\ (4 <= Len(d) => schema.pos = 4)
  <2>1. SUFFICES ASSUME 2 <= Len(d) PROVE (schema.ok <=> 4 <= Len(d)) /\ (4 <= Len(d) => schema.pos = 4)
    OBVIOUS
  <2>2. schema = ReadU32(d, 2)
    BY <1>2, <1>8, <2>1
  <2> QED BY <1>0, <2>2, ReadWord
<1>10. 4 <= Len(d) => (type.ok <=> 6 <= Len(d))
          /\ (6 <= Len(d) => type.value = 4 * d[5] + d[6] /\ type.pos = 6)
  <2>1. SUFFICES ASSUME 4 <= Len(d)
                 PROVE  /\ type.ok <=> 6 <= Len(d)
                        /\ 6 <= Len(d) => type.value = 4 * d[5] + d[6] /\ type.pos = 6
    OBVIOUS
  <2>2. 2 <= Len(d)
    BY <1>0, <2>1
  <2>3. type = ReadU32(d, 4)
    BY <1>3, <1>9, <2>1, <2>2
  <2>4. (type.ok <=> 4 + 2 <= Len(d))
          /\ (4 + 2 <= Len(d) => type.value = 4 * d[4 + 1] + d[4 + 2] /\ type.pos = 4 + 2)
    BY <2>3, ReadWord
  <2> QED BY <1>0, <2>4
<1>11. 6 <= Len(d) => name = id /\ text = adif
  BY <1>0, <1>4, <1>5, <1>10
<1>12. CASE ~HasHeader(d)
  <2>1. ~magic.ok \/ magic.value # 9 \/ ~schema.ok \/ ~type.ok \/ type.value # 12
    BY <1>0, <1>8, <1>9, <1>10, <1>12 DEF HasHeader
  <2>2. ParseLoggedAdif(d) = Malformed \/ ParseLoggedAdif(d) = Ignored
    BY <1>6, <2>1
  <2> QED BY <1>7, <1>12, <2>2
<1>13. CASE HasHeader(d)
  <2>1. 6 <= Len(d) /\ 4 <= Len(d) /\ 2 <= Len(d) /\ 4 * d[1] + d[2] = 9 /\ 4 * d[5] + d[6] = 12
    BY <1>0, <1>13 DEF HasHeader
  <2>2. magic.ok /\ magic.value = 9 /\ schema.ok /\ type.ok /\ type.value = 12
    BY <1>8, <1>9, <1>10, <2>1
  <2>3. ParseLoggedAdif(d) = IF ~id.ok \/ ~adif.ok THEN Malformed
                             ELSE [kind |-> "Some", adif |-> adif.value]
    BY <1>6, <1>11, <2>1, <2>2
  <2>4. CASE id.ok /\ adif.ok
    <3>1. ParseLoggedAdif(d) = [kind |-> "Some", adif |-> adif.value]
      BY <2>3, <2>4
    <3> QED BY <1>13, <2>4, <3>1
  <2>5. CASE ~id.ok \/ ~adif.ok
    BY <1>7, <1>13, <2>3, <2>5
  <2> QED BY <2>4, <2>5
<1> QED BY <1>12, <1>13

\* What stands in a datagram is a text of the wire.
LEMMA TextFacts ==
    ASSUME NEW d \in Seq(Byte), NEW s \in Texts(d)
    PROVE  Wire(s)
<1>1. PICK i \in 1..(Len(d) + 1), j \in 0..Len(d) : s = SubSeq(d, i, j)
  BY DEF Texts
<1>2. Utf8(s) /\ Len(s) < Half
  BY DEF Texts
<1>3. s \in Seq(Byte)
  <2>1. i \in Int /\ j \in Int /\ Len(d) \in Nat /\ 1 <= i /\ j <= Len(d)
    OBVIOUS
  <2>2. \A k \in i..j : d[k] \in Byte
    BY <2>1
  <2> QED BY <1>1, <2>1, <2>2, SubSeqProperties
<1> QED BY <1>2, <1>3 DEF Wire

\* An encoding is a sequence of bytes.
LEMMA EncodingFacts ==
    ASSUME NEW s, Wire(s), NEW f \in Encodings(s)
    PROVE  f \in Seq(Byte)
<1>1. s \in Seq(Byte) /\ Len(s) \in Nat /\ Len(s) < 8
  BY DEF Wire, Half
<1>2. Len(s) \in Words /\ 15 \in Words
  <2>1. \A n \in Nat : n < 8 => n \in Words
    BY DEF Words
  <2>2. 15 \in Words
    BY DEF Words
  <2> QED BY <1>1, <2>1, <2>2
<1>3. Encoded(Len(s)) \in Seq(Byte) /\ Encoded(15) \in Seq(Byte)
  BY <1>2, WordFacts
<1>4. f = Encoded(Len(s)) \o s \/ f = Encoded(15)
  BY DEF Encodings, Half
<1>5. \A g \in Seq(Byte) : g \o s \in Seq(Byte)
  BY <1>1
<1> QED BY <1>3, <1>4, <1>5

\* After the header positions are shifted by its length.
LEMMA Body ==
    ASSUME NEW d \in Seq(Byte), 6 <= Len(d), NEW body, body = SubSeq(d, 7, Len(d))
    PROVE  /\ body \in Seq(Byte)
           /\ \A p \in Nat, f \in Seq(Byte) : Stands(f, body, p) <=> Stands(f, d, 6 + p)
<1>1. PICK n \in Nat : 6 + n = Len(d)
  <2>1. Len(d) \in Nat
    OBVIOUS
  <2>2. Len(d) - 6 \in Nat /\ 6 + (Len(d) - 6) = Len(d)
    BY <2>1
  <2> QED BY <2>2
<1>2. body = SubSeq(d, 6 + 1, 6 + n)
  BY <1>1
<1>3. body \in Seq(Byte) /\ Len(body) = n /\ \A i \in 1..n : body[i] = d[6 + i]
  BY <1>1, <1>2, Part
<1>4. ASSUME NEW p \in Nat, NEW f \in Seq(Byte)
      PROVE  Stands(f, body, p) <=> Stands(f, d, 6 + p)
  <2>1. Len(f) \in Nat
    OBVIOUS
  <2>2. p + Len(f) <= Len(body) <=> (6 + p) + Len(f) <= Len(d)
    BY <1>1, <1>3, <2>1
  <2>3. SUFFICES ASSUME p + Len(f) <= n
                 PROVE  \A i \in 1..Len(f) : body[p + i] = d[(6 + p) + i]
    BY <1>1, <1>3, <2>1, <2>2 DEF Stands
  <2>4. TAKE i \in 1..Len(f)
  <2>5. p + i \in 1..n /\ 6 + (p + i) = (6 + p) + i
    BY <2>1, <2>3
  <2> QED BY <1>3, <2>5
<1> QED BY <1>3, <1>4

\* The parser reads from any datagram exactly what it says was logged: each
\* reading is parsed (StringRead, twice), and what is parsed is a reading
\* (StringFound, twice).
LEMMA DatagramRead ==
    ASSUME NEW d \in Seq(Byte)
    PROVE  Readings(d) = IF ParseLoggedAdif(d).kind = "Some" THEN {ParseLoggedAdif(d).adif} ELSE {}
<1>1. PICK name : name = ReadQString(d, 6)
  OBVIOUS
<1>2. PICK text : text = ReadQString(d, name.pos)
  OBVIOUS
<1>3. /\ ParseLoggedAdif(d).kind = "Some" <=> HasHeader(d) /\ name.ok /\ text.ok
      /\ ParseLoggedAdif(d).kind = "Some" => ParseLoggedAdif(d).adif = text.value
  BY <1>1, <1>2, Parsed
<1>4. PICK body : body = SubSeq(d, 7, Len(d))
  OBVIOUS
<1>5. Readings(d) = IF HasHeader(d)
                    THEN {adif \in Texts(body) : \E id \in Texts(body) :
                             \E f \in Encodings(id), e \in Encodings(adif) : IsPrefix(f \o e, body)}
                    ELSE {}
  <2>1. 3 * WordSize + 1 = 7
    BY DEF WordSize
  <2> QED BY <1>4, <2>1, HeaderStands DEF Readings
<1>6. CASE ~HasHeader(d)
  BY <1>3, <1>5, <1>6
<1>7. CASE HasHeader(d)
  <2>1. /\ body \in Seq(Byte)
        /\ \A p \in Nat, f \in Seq(Byte) : Stands(f, body, p) <=> Stands(f, d, 6 + p)
    BY <1>4, <1>7, Body DEF HasHeader
  <2>2. 0 \in Nat /\ 6 \in Nat /\ 6 + 0 = 6 /\ \A n \in Nat : 0 + n = n /\ 6 + n \in Nat
    OBVIOUS
  <2>3. ASSUME NEW a \in Readings(d)
        PROVE  name.ok /\ text.ok /\ a = text.value
    <3>0. PICK id \in Texts(body) : \E f \in Encodings(id), e \in Encodings(a) : IsPrefix(f \o e, body)
      BY <1>5, <1>7
    <3>1. PICK f \in Encodings(id), e \in Encodings(a) : IsPrefix(f \o e, body)
      BY <3>0
    <3>2. a \in Texts(body)
      BY <1>5, <1>7
    <3>3. Wire(a) /\ Wire(id)
      BY <2>1, <3>2, TextFacts
    <3>4. f \in Seq(Byte) /\ e \in Seq(Byte)
      BY <3>3, EncodingFacts
    <3>5. f \o e \in Seq(Byte) /\ Len(f) \in Nat
      BY <3>4
    <3>6. Stands(f \o e, body, 0)
      BY <2>1, <3>1, <3>5, StandsFacts
    <3>7. Stands(f, body, 0) /\ Stands(e, body, Len(f))
      BY <2>1, <2>2, <3>4, <3>5, <3>6, StandsFacts
    <3>8. Stands(f, d, 6) /\ Stands(e, d, 6 + Len(f))
      BY <2>1, <2>2, <3>4, <3>5, <3>7
    <3>9. name.ok /\ name.pos = 6 + Len(f)
      BY <1>1, <2>2, <3>3, <3>8, StringRead
    <3>10. text.ok /\ text.value = a
      BY <1>2, <2>2, <3>3, <3>5, <3>8, <3>9, StringRead
    <3> QED BY <3>9, <3>10
  <2>4. ASSUME name.ok, text.ok PROVE text.value \in Readings(d)
    <3>1. PICK i : i = name.value
      OBVIOUS
    <3>2. Wire(i) /\ \E f \in Encodings(i) : f \in Seq(Byte) /\ Stands(f, d, 6)
      BY <1>1, <2>2, <2>4, <3>1, StringFound
    <3>3. PICK f \in Encodings(i) : f \in Seq(Byte) /\ Stands(f, d, 6)
      BY <3>2
    <3>4. name.pos = 6 + Len(f) /\ Len(f) \in Nat
      BY <1>1, <2>2, <3>2, <3>3, StringRead
    <3>5. PICK a : a = text.value
      OBVIOUS
    <3>6. Wire(a) /\ \E e \in Encodings(a) : e \in Seq(Byte) /\ Stands(e, d, 6 + Len(f))
      BY <1>2, <2>2, <2>4, <3>4, <3>5, StringFound
    <3>7. PICK e \in Encodings(a) : e \in Seq(Byte) /\ Stands(e, d, 6 + Len(f))
      BY <3>6
    <3>8. Stands(f, body, 0) /\ Stands(e, body, Len(f))
      BY <2>1, <2>2, <3>3, <3>4, <3>7
    <3>9. i \in Texts(body) /\ a \in Texts(body)
      BY <2>1, <2>2, <3>2, <3>3, <3>4, <3>6, <3>7, <3>8, StringRead
    <3>10. Stands(f \o e, body, 0)
      BY <2>1, <2>2, <3>3, <3>4, <3>7, <3>8, StandsFacts
    <3>11. f \o e \in Seq(Byte)
      BY <3>3, <3>7
    <3>12. IsPrefix(f \o e, body)
      BY <2>1, <2>2, <3>10, <3>11, StandsFacts
    <3> QED BY <1>5, <1>7, <3>5, <3>9, <3>12
  <2> QED BY <1>3, <1>7, <2>3, <2>4
<1> QED BY <1>6, <1>7

-----------------------------------------------------------------------------
(* One step of the inspector.                                              *)

\* The search for a symbol, one position further.
LEMMA FindStep ==
    ASSUME NEW s, NEW from \in Nat, NEW ch, Len(s) \in Nat
    PROVE  /\ from > Len(s) => Find(s, from, ch) = 0
           /\ from <= Len(s) /\ s[from] = ch => Find(s, from, ch) = from
           /\ from <= Len(s) /\ s[from] # ch => Find(s, from, ch) = Find(s, from + 1, ch)
<1>1. PICK at : at = {i \in from..Len(s) : s[i] = ch}
  OBVIOUS
<1>2. Find(s, from, ch) = IF at = {} THEN 0 ELSE CHOOSE i \in at : \A j \in at : i <= j
  BY <1>1 DEF Find
<1>3. from > Len(s) => at = {}
  BY <1>1
<1>4. ASSUME from <= Len(s), s[from] = ch PROVE Find(s, from, ch) = from
  <2>1. from \in at /\ at \subseteq Nat /\ \A j \in at : from <= j
    BY <1>1, <1>4
  <2>2. \A i \in at : (\A j \in at : i <= j) => i = from
    BY <2>1
  <2> QED BY <1>2, <2>1, <2>2
<1>5. ASSUME from <= Len(s), s[from] # ch PROVE Find(s, from, ch) = Find(s, from + 1, ch)
  <2>1. at = {i \in (from + 1)..Len(s) : s[i] = ch}
    BY <1>1, <1>5
  <2> QED BY <1>2, <2>1 DEF Find
<1> QED BY <1>2, <1>3, <1>4, <1>5

\* What is found is in range.
LEMMA FindRange ==
    ASSUME NEW s, NEW from \in Nat, NEW ch, Len(s) \in Nat, Find(s, from, ch) # 0
    PROVE  Find(s, from, ch) \in from..Len(s)
<1>1. PICK at : at = {i \in from..Len(s) : s[i] = ch}
  OBVIOUS
<1>2. Find(s, from, ch) = IF at = {} THEN 0 ELSE CHOOSE i \in at : \A j \in at : i <= j
  BY <1>1 DEF Find
<1>3. at # {} /\ at \subseteq Nat
  BY <1>1, <1>2
<1>4. \E i \in at : \A j \in at : i <= j
  BY <1>3, Least
<1>5. Find(s, from, ch) \in at
  BY <1>2, <1>3, <1>4
<1> QED BY <1>1, <1>5

\* One step of the inspector at position c, where f gives the outcome from a
\* later position.
ScanFrom(s, name, c, f) ==
    LET open   == Find(s, c, "<")
        close  == Find(s, open + 1, ">")
        header == SubSeq(s, open + 1, close - 1)
        start  == close + 1
        end    == start + LengthIn(header)
    IN  IF ~Boundary(s, c) THEN Panic
        ELSE IF open = 0 \/ close = 0 THEN Absent
        ELSE IF ~HasLength(header) THEN f[start]
        ELSE IF end > Len(s) + 1 THEN Absent
        ELSE IF TagPart(header) # <<name>> THEN f[AfterValue(start, end)]
        ELSE IF Boundary(s, end) THEN SubSeq(s, start, end - 1)
        ELSE Panic

\* A length is a natural number.
LEMMA LengthInRange ==
    ASSUME NEW header, HasLength(header)
    PROVE  LengthIn(header) \in Nat
<1>1. PICK n \in DOMAIN Numeral : n = (CHOOSE m \in DOMAIN Numeral : LengthPart(header) = <<Numeral[m]>>)
  BY DEF HasLength
<1>2. DOMAIN Numeral = 1..Len(Numeral) /\ Len(Numeral) \in Nat
  BY NumeralAssumption
<1>3. n - 1 \in Nat
  BY <1>2
<1> QED BY <1>1, <1>3 DEF LengthIn

\* A step looks only at later outcomes.
LEMMA LooksAhead ==
    ASSUME NEW s, NEW name, Len(s) \in Nat, NEW c \in 1..(Len(s) + 1), NEW f, NEW g,
           \A b \in (c + 1)..(Len(s) + 1) : f[b] = g[b]
    PROVE  ScanFrom(s, name, c, f) = ScanFrom(s, name, c, g)
<1>1. PICK open : open = Find(s, c, "<")
  OBVIOUS
<1>2. PICK close : close = Find(s, open + 1, ">")
  OBVIOUS
<1>3. PICK header : header = SubSeq(s, open + 1, close - 1)
  OBVIOUS
<1>4. PICK end : end = (close + 1) + LengthIn(header)
  OBVIOUS
<1>5. \A h : ScanFrom(s, name, c, h) =
        IF ~Boundary(s, c) THEN Panic
        ELSE IF open = 0 \/ close = 0 THEN Absent
        ELSE IF ~HasLength(header) THEN h[close + 1]
        ELSE IF end > Len(s) + 1 THEN Absent
        ELSE IF TagPart(header) # <<name>> THEN h[end]
        ELSE IF Boundary(s, end) THEN SubSeq(s, close + 1, end - 1)
        ELSE Panic
  BY <1>1, <1>2, <1>3, <1>4 DEF ScanFrom, AfterValue
<1>6. CASE open = 0 \/ close = 0
  BY <1>5, <1>6
<1>7. CASE open # 0 /\ close # 0
  <2>1. open \in c..Len(s)
    BY <1>1, <1>7, FindRange
  <2>2. close \in (open + 1)..Len(s)
    <3>1. open + 1 \in Nat
      BY <2>1
    <3> QED BY <1>2, <1>7, <3>1, FindRange
  <2>3. close + 1 \in (c + 1)..(Len(s) + 1)
    BY <2>1, <2>2
  <2>4. HasLength(header) /\ ~(end > Len(s) + 1) => end \in (c + 1)..(Len(s) + 1)
    <3>1. HasLength(header) => LengthIn(header) \in Nat
      BY LengthInRange
    <3> QED BY <1>4, <2>3, <3>1
  <2>5. f[close + 1] = g[close + 1]
    BY <2>3
  <2>6. HasLength(header) /\ ~(end > Len(s) + 1) => f[end] = g[end]
    BY <2>4
  <2> QED BY <1>5, <2>5, <2>6
<1> QED BY <1>6, <1>7

\* The inspector's search is well defined: the outcome at a position is given
\* by those at the later ones.
LEMMA Scans ==
    ASSUME NEW s, NEW name, Len(s) \in Nat
    PROVE  \E f : /\ AdifField(s, name) = f[1]
                  /\ \A c \in 1..(Len(s) + 1) : f[c] = ScanFrom(s, name, c, f)
<1> DEFINE n == Len(s) + 1
           D(f) == [c \in 1..n |-> ScanFrom(s, name, c, f)]
           T == {k \in Nat : k <= n => \E f : \A c \in (n + 1 - k)..n : f[c] = ScanFrom(s, name, c, f)}
<1>1. 0 \in T
  <2>1. (n + 1 - 0)..n = {} /\ 0 \in Nat
    OBVIOUS
  <2> QED BY <2>1
<1>2. ASSUME NEW k \in Nat, k \in T PROVE k + 1 \in T
  <2>1. SUFFICES ASSUME k + 1 <= n
                 PROVE \E f : \A c \in (n - k)..n : f[c] = ScanFrom(s, name, c, f)
    <3>1. n + 1 - (k + 1) = n - k /\ k + 1 \in Nat
      OBVIOUS
    <3> HIDE DEF n
    <3> QED BY <3>1
  <2>2. k <= n /\ n - k \in 1..n /\ n \in Nat
    BY <2>1
  <2> HIDE DEF n
  <2>3. PICK f : \A c \in (n + 1 - k)..n : f[c] = ScanFrom(s, name, c, f)
    BY <1>2, <2>2
  <2> DEFINE g == [c \in (n - k)..n |-> IF c = n - k THEN ScanFrom(s, name, c, f) ELSE f[c]]
  <2>4. \A c \in (n - k)..n : g[c] = IF c = n - k THEN ScanFrom(s, name, c, f) ELSE f[c]
    OBVIOUS
  <2> HIDE DEF g
  <2>5. ASSUME NEW c \in (n - k)..n PROVE g[c] = ScanFrom(s, name, c, g)
    <3>1. c \in 1..n
      BY <2>2
    <3>2. \A b \in (c + 1)..n : f[b] = g[b]
      BY <2>2, <2>4
    <3>3. ScanFrom(s, name, c, f) = ScanFrom(s, name, c, g)
      BY <3>1, <3>2, LooksAhead DEF n
    <3>4. c # n - k => c \in (n + 1 - k)..n
      BY <2>2
    <3> QED BY <2>3, <2>4, <3>3, <3>4
  <2> QED BY <2>5
<1>3. n \in T
  <2>1. n \in Nat
    OBVIOUS
  <2> HIDE DEF T, n
  <2>2. Nat \subseteq T
    BY <1>1, <1>2, Induction
  <2> QED BY <2>1, <2>2
<1>4. PICK f : \A c \in 1..n : f[c] = ScanFrom(s, name, c, f)
  <2>1. n <= n /\ n + 1 - n = 1
    OBVIOUS
  <2> HIDE DEF n
  <2> QED BY <1>3, <2>1
<1>5. \E g : g = D(g)
  <2> DEFINE g == [c \in 1..n |-> f[c]]
  <2>1. \A c \in 1..n : g[c] = f[c]
    OBVIOUS
  <2>2. ASSUME NEW c \in 1..n PROVE f[c] = ScanFrom(s, name, c, g)
    <3>1. \A b \in (c + 1)..n : f[b] = g[b]
      BY <2>1
    <3> HIDE DEF g
    <3>2. ScanFrom(s, name, c, f) = ScanFrom(s, name, c, g)
      BY <3>1, LooksAhead
    <3> QED BY <1>4, <3>2
  <2>3. g = D(g)
    <3> DEFINE h == D(g)
    <3>1. \A c \in 1..n : h[c] = f[c]
      BY <2>2
    <3> QED BY <2>2
  <2> QED BY <2>3
<1> DEFINE h == CHOOSE g : g = D(g)
<1>6. h = D(h)
  BY <1>5
<1>7. AdifField(s, name) = h[1]
  BY DEF AdifField, ScanFrom
<1>8. \A c \in 1..n : h[c] = ScanFrom(s, name, c, h)
  <2> HIDE DEF h
  <2> QED BY <1>6
<1> HIDE DEF h
<1> QED BY <1>7, <1>8

\* A record without a character of several bytes never makes the inspector panic,
\* whatever its tags and lengths say (wsjtx/protocol.rs, adif_field: the only
\* indexing that can fail is a slice that begins or ends inside a character).
THEOREM AsciiNeverPanics ==
    ASSUME NEW S, "panic" \notin S, "trail" \notin S, NEW s \in Seq(S), NEW name
    PROVE  AdifField(s, name) # Panic
<1>0. Len(s) \in Nat /\ DOMAIN s = 1..Len(s) /\ \A i \in 1..Len(s) : s[i] \in S
  OBVIOUS
<1>1. \A i \in Nat : i > 0 => Boundary(s, i)
  <2>1. TAKE i \in Nat
  <2>2. HAVE i > 0
  <2>3. i > Len(s) \/ i \in 1..Len(s)
    BY <1>0, <2>2
  <2> QED BY <1>0, <2>3 DEF Boundary
<1>2. PICK f : /\ AdifField(s, name) = f[1]
               /\ \A c \in 1..(Len(s) + 1) : f[c] = ScanFrom(s, name, c, f)
  BY <1>0, Scans
<1>3. ASSUME NEW c \in 1..(Len(s) + 1), \A b \in (c + 1)..(Len(s) + 1) : f[b] # Panic
      PROVE  f[c] # Panic
  <2>1. PICK open : open = Find(s, c, "<")
    OBVIOUS
  <2>2. PICK close : close = Find(s, open + 1, ">")
    OBVIOUS
  <2>3. PICK header : header = SubSeq(s, open + 1, close - 1)
    OBVIOUS
  <2>4. PICK end : end = (close + 1) + LengthIn(header)
    OBVIOUS
  <2>5. f[c] =
        IF ~Boundary(s, c) THEN Panic
        ELSE IF open = 0 \/ close = 0 THEN Absent
        ELSE IF ~HasLength(header) THEN f[close + 1]
        ELSE IF end > Len(s) + 1 THEN Absent
        ELSE IF TagPart(header) # <<name>> THEN f[end]
        ELSE IF Boundary(s, end) THEN SubSeq(s, close + 1, end - 1)
        ELSE Panic
    BY <1>2, <2>1, <2>2, <2>3, <2>4 DEF ScanFrom, AfterValue
  <2>6. Boundary(s, c) /\ Absent # Panic
    BY <1>0, <1>1 DEF Absent, Panic
  <2>7. CASE open = 0 \/ close = 0
    BY <2>5, <2>6, <2>7
  <2>8. CASE open # 0 /\ close # 0
    <3>1. open \in c..Len(s)
      BY <1>0, <2>1, <2>8, FindRange
    <3>2. close \in (open + 1)..Len(s)
      <4>1. open + 1 \in Nat
        BY <3>1
      <4> QED BY <1>0, <2>2, <2>8, <4>1, FindRange
    <3>3. close + 1 \in (c + 1)..(Len(s) + 1)
      BY <1>0, <3>1, <3>2
    <3>4. ~HasLength(header) => f[c] # Panic
      BY <1>3, <2>5, <2>6, <2>8, <3>3
    <3>5. ASSUME HasLength(header), ~(end > Len(s) + 1) PROVE f[c] # Panic
      <4>1. LengthIn(header) \in Nat
        BY <3>5, LengthInRange
      <4>2. end \in (c + 1)..(Len(s) + 1) /\ end >= close + 1
        BY <1>0, <2>4, <3>3, <3>5, <4>1
      <4>3. f[end] # Panic
        BY <1>3, <4>2
      <4>4. Boundary(s, end)
        BY <1>0, <1>1, <4>2
      <4>5. SubSeq(s, close + 1, end - 1) # Panic
        <5>1. PICK t : t = SubSeq(s, close + 1, end - 1)
          OBVIOUS
        <5>2. close + 1 \in Int /\ end - 1 \in Int /\ close + 1 >= 1 /\ end - 1 <= Len(s)
          BY <1>0, <3>2, <3>3, <4>2
        <5>3. \A i \in (close + 1)..(end - 1) : s[i] \in S
          BY <1>0, <5>2
        <5>4. t \in Seq(S)
          BY <5>1, <5>2, <5>3, SubSeqProperties
        <5>5. t = <<"panic">> => 1 \in 1..Len(t) /\ t[1] = "panic"
          OBVIOUS
        <5>6. t # <<"panic">>
          <6>1. \A i \in 1..Len(t) : t[i] \in S
            BY <5>4
          <6> QED BY <5>5, <6>1
        <5> QED BY <5>1, <5>6 DEF Panic
      <4> QED BY <2>5, <2>6, <2>8, <3>5, <4>3, <4>4, <4>5
    <3>6. end > Len(s) + 1 /\ HasLength(header) => f[c] # Panic
      BY <2>5, <2>6, <2>8
    <3> QED BY <3>4, <3>5, <3>6
  <2> QED BY <2>7, <2>8
<1> DEFINE n == Len(s) + 1
           T == {k \in Nat : k <= n => \A c \in (n + 1 - k)..n : f[c] # Panic}
<1>4. n \in Nat /\ n > 0
  BY <1>0
<1> HIDE DEF n
<1>5. 0 \in T
  <2>1. (n + 1 - 0)..n = {}
    BY <1>4
  <2> QED BY <2>1
<1>6. ASSUME NEW k \in Nat, k \in T PROVE k + 1 \in T
  <2>1. ASSUME k + 1 <= n, NEW c \in (n + 1 - (k + 1))..n PROVE f[c] # Panic
    <3>1. \A b \in (n + 1 - k)..n : f[b] # Panic
      BY <1>4, <1>6, <2>1
    <3>2. c \in (n + 1 - k)..n \/ (c \in 1..n /\ c + 1 = n + 1 - k)
      BY <1>4, <2>1
    <3> QED BY <1>3, <3>1, <3>2 DEF n
  <2> QED BY <2>1
<1>7. n \in T
  <2> HIDE DEF T
  <2>1. Nat \subseteq T
    BY <1>5, <1>6, Induction
  <2> QED BY <1>4, <2>1
<1>8. f[1] # Panic
  <2>1. n + 1 - n = 1 /\ 1 \in 1..n /\ n <= n
    BY <1>4
  <2> QED BY <1>7, <2>1
<1> QED BY <1>2, <1>8

-----------------------------------------------------------------------------
(* Items and records.                                                      *)

\* The symbols a record is made of.
Symbols ==
    Chars \cup Tags \cup {Numeral[n] : n \in DOMAIN Numeral}
    \cup {" ", "<", ":", ">", "S", "lead", "trail"}

\* Where the i-th of several sequences starts in their concatenation.
Starts(at, seqs, s) ==
    /\ at \in [1..(Len(seqs) + 1) -> Nat]
    /\ at[1] = 0 /\ at[Len(seqs) + 1] = Len(s)
    /\ \A i \in 1..Len(seqs) : at[i + 1] = at[i] + Len(seqs[i]) /\ Stands(seqs[i], s, at[i])

\* What stands in a concatenation.
LEMMA Concatenated ==
    ASSUME NEW S, NEW a \in Seq(S), NEW b \in Seq(S)
    PROVE  /\ a \o b \in Seq(S) /\ Len(a \o b) = Len(a) + Len(b)
           /\ Stands(b, a \o b, Len(a))
           /\ \A f \in Seq(S), p \in Nat : Stands(f, a, p) => Stands(f, a \o b, p)
<1>0. /\ a \o b \in Seq(S)
      /\ Len(a \o b) = Len(a) + Len(b)
      /\ \A i \in 1..(Len(a) + Len(b)) : (a \o b)[i] = IF i <= Len(a) THEN a[i] ELSE b[i - Len(a)]
  BY ONLY a \in Seq(S), b \in Seq(S), ConcatProperties
<1>1. PICK c \in Seq(S) : /\ c = a \o b /\ Len(c) = Len(a) + Len(b)
                          /\ \A i \in 1..(Len(a) + Len(b)) :
                                c[i] = IF i <= Len(a) THEN a[i] ELSE b[i - Len(a)]
  BY <1>0
<1>2. Len(a) \in Nat /\ Len(b) \in Nat
  OBVIOUS
<1>3. Stands(b, c, Len(a))
  <2>1. ASSUME NEW i \in 1..Len(b) PROVE c[Len(a) + i] = b[i]
    <3>1. Len(a) + i \in 1..(Len(a) + Len(b)) /\ ~(Len(a) + i <= Len(a)) /\ (Len(a) + i) - Len(a) = i
      BY <1>2
    <3> QED BY <1>1, <3>1
  <2> QED BY <1>1, <1>2, <2>1 DEF Stands
<1>4. ASSUME NEW f \in Seq(S), NEW p \in Nat, Stands(f, a, p) PROVE Stands(f, c, p)
  <2>1. p + Len(f) <= Len(a) /\ Len(f) \in Nat /\ \A i \in 1..Len(f) : a[p + i] = f[i]
    BY <1>4 DEF Stands
  <2>2. ASSUME NEW i \in 1..Len(f) PROVE c[p + i] = f[i]
    <3>1. p + i \in 1..(Len(a) + Len(b)) /\ p + i <= Len(a)
      BY <1>2, <2>1
    <3> QED BY <1>1, <2>1, <3>1
  <2>3. p + Len(f) <= Len(c)
    BY <1>1, <1>2, <2>1
  <2> QED BY <2>2, <2>3 DEF Stands
<1> QED BY <1>1, <1>3, <1>4

\* Each of several sequences stands in their concatenation, one after another.
LEMMA Flattened ==
    ASSUME NEW S, NEW seqs \in Seq(Seq(S))
    PROVE  FlattenSeq(seqs) \in Seq(S) /\ \E at : Starts(at, seqs, FlattenSeq(seqs))
<1>0. Len(seqs) \in Nat
  OBVIOUS
<1>1. CASE seqs = <<>>
  <2>1. FlattenSeq(seqs) = <<>> /\ <<>> \in Seq(S) /\ Len(<<>>) = 0
    BY <1>1 DEF FlattenSeq
  <2>2. Starts([i \in 1..1 |-> 0], seqs, <<>>)
    BY <1>1 DEF Starts
  <2> QED BY <2>1, <2>2
<1>2. CASE seqs # <<>>
  <2> DEFINE n == Len(seqs)
             D(f) == [i \in 1..n |-> IF i = 1 THEN seqs[i] ELSE f[i - 1] \o seqs[i]]
             T == {k \in Nat : k <= n => \E f : \A i \in 1..k :
                                  f[i] = IF i = 1 THEN seqs[i] ELSE f[i - 1] \o seqs[i]}
  <2>1. 0 \in T
    OBVIOUS
  <2>2. ASSUME NEW k \in Nat, k \in T PROVE k + 1 \in T
    <3>1. ASSUME k + 1 <= n
          PROVE  \E f : \A i \in 1..(k + 1) : f[i] = IF i = 1 THEN seqs[i] ELSE f[i - 1] \o seqs[i]
      <4>1. PICK f : \A i \in 1..k : f[i] = IF i = 1 THEN seqs[i] ELSE f[i - 1] \o seqs[i]
        BY <2>2, <3>1
      <4> DEFINE g == [i \in 1..(k + 1) |->
                          IF i = k + 1 THEN (IF i = 1 THEN seqs[i] ELSE f[i - 1] \o seqs[i]) ELSE f[i]]
      <4>2. \A i \in 1..(k + 1) :
               g[i] = IF i = k + 1 THEN (IF i = 1 THEN seqs[i] ELSE f[i - 1] \o seqs[i]) ELSE f[i]
        OBVIOUS
      <4> HIDE DEF g
      <4>3. ASSUME NEW i \in 1..(k + 1)
            PROVE  g[i] = IF i = 1 THEN seqs[i] ELSE g[i - 1] \o seqs[i]
        <5>1. i \in 1..k \/ i = k + 1
          OBVIOUS
        <5>2. i # 1 => i - 1 \in 1..k /\ i - 1 \in 1..(k + 1) /\ i - 1 # k + 1
          OBVIOUS
        <5>3. i # 1 => g[i - 1] = f[i - 1]
          BY <4>2, <5>2
        <5> QED BY <4>1, <4>2, <5>1, <5>3
      <4> QED BY <4>3
    <3>2. k + 1 \in Nat
      OBVIOUS
    <3> QED BY <3>1, <3>2
  <2>3. n \in T
    <3> HIDE DEF T
    <3>1. Nat \subseteq T
      BY <2>1, <2>2, Induction
    <3> QED BY <3>1
  <2>4. PICK f : \A i \in 1..n : f[i] = IF i = 1 THEN seqs[i] ELSE f[i - 1] \o seqs[i]
    <3> HIDE DEF n
    <3>1. n \in Nat
      BY <1>2 DEF n
    <3>2. n <= n
      BY <3>1
    <3> QED BY <2>3, <3>2
  <2>5. \E g : g = D(g)
    <3> DEFINE g == [i \in 1..n |-> f[i]]
    <3>1. g = D(g)
      BY <2>4
    <3> QED BY <3>1
  <2> DEFINE h == CHOOSE g : g = D(g)
  <2>6. h = D(h)
    BY <2>5
  <2>7. FlattenSeq(seqs) = h[n]
    BY <1>2 DEF FlattenSeq
  <2>8. \A i \in 1..n : h[i] = IF i = 1 THEN seqs[i] ELSE h[i - 1] \o seqs[i]
    <3> HIDE DEF h
    <3> QED BY <2>6
  <2> HIDE DEF h, T
  <2>9. n \in Nat /\ n >= 1 /\ \A i \in 1..n : seqs[i] \in Seq(S)
    BY <1>2
  <2> HIDE DEF n
  <2> DEFINE V == {k \in Nat : k + 1 <= n => h[k + 1] \in Seq(S)}
  <2>10. \A i \in 1..n : h[i] \in Seq(S)
    <3>1. 0 \in V
      <4>1. h[0 + 1] = seqs[1] /\ 1 \in 1..n
        BY <2>8, <2>9
      <4> QED BY <2>9, <4>1
    <3>2. ASSUME NEW k \in Nat, k \in V PROVE k + 1 \in V
      <4>1. SUFFICES ASSUME k + 1 + 1 <= n PROVE h[k + 1 + 1] \in Seq(S)
        OBVIOUS
      <4>2. k + 1 \in 1..n /\ k + 1 + 1 \in 1..n /\ k + 1 + 1 # 1 /\ (k + 1 + 1) - 1 = k + 1
        BY <2>9, <4>1
      <4>3. h[k + 1] \in Seq(S)
        BY <2>9, <3>2, <4>1
      <4>4. h[k + 1 + 1] = h[k + 1] \o seqs[k + 1 + 1] /\ seqs[k + 1 + 1] \in Seq(S)
        BY <2>8, <2>9, <4>2
      <4> QED BY <4>3, <4>4
    <3>3. Nat \subseteq V
      <4> HIDE DEF V
      <4> QED BY <3>1, <3>2, Induction
    <3>4. ASSUME NEW i \in 1..n PROVE h[i] \in Seq(S)
      <4>1. i - 1 \in Nat /\ (i - 1) + 1 = i
        BY <2>9
      <4>2. i - 1 \in V
        BY <3>3, <4>1
      <4> QED BY <2>9, <4>1, <4>2
    <3> QED BY <3>4
  <2> HIDE DEF V
  <2>11. \E at : /\ at \in [1..(n + 1) -> Nat]
                 /\ at[1] = 0 /\ \A i \in 1..n : at[i + 1] = Len(h[i])
    <3> DEFINE at == [i \in 1..(n + 1) |-> IF i = 1 THEN 0 ELSE Len(h[i - 1])]
    <3>1. at[1] = 0
      BY <2>9
    <3>2. ASSUME NEW i \in 1..n PROVE at[i + 1] = Len(h[i])
      <4>1. i + 1 \in 1..(n + 1) /\ i + 1 # 1 /\ (i + 1) - 1 = i
        BY <2>9
      <4> QED BY <4>1
    <3>3. ASSUME NEW i \in 1..(n + 1) PROVE at[i] \in Nat
      <4>1. i = 1 \/ (i - 1 \in 1..n /\ h[i - 1] \in Seq(S))
        BY <2>9, <2>10
      <4>2. i = 1 \/ Len(h[i - 1]) \in Nat
        BY <4>1
      <4> QED BY <4>2
    <3>4. at \in [1..(n + 1) -> Nat]
      BY <3>3
    <3> HIDE DEF at
    <3> QED BY <3>1, <3>2, <3>4
  <2>12. PICK at : /\ at \in [1..(n + 1) -> Nat]
                   /\ at[1] = 0 /\ \A i \in 1..n : at[i + 1] = Len(h[i])
    BY <2>11
  <2> DEFINE U == {k \in Nat : k + 1 <= n => \A i \in 1..(k + 1) : Stands(seqs[i], h[k + 1], at[i])}
  <2>13. 0 \in U
    <3>1. h[1] = seqs[1] /\ h[1] \in Seq(S)
      BY <2>8, <2>9
    <3>2. Stands(h[1], h[1], 0)
      <4>1. Len(h[1]) \in Nat
        BY <3>1
      <4> QED BY <4>1 DEF Stands
    <3>3. \A i \in 1..(0 + 1) : i = 1
      OBVIOUS
    <3> QED BY <2>12, <3>1, <3>2, <3>3
  <2>14. ASSUME NEW k \in Nat, k \in U PROVE k + 1 \in U
    <3>1. SUFFICES ASSUME k + 1 + 1 <= n
                   PROVE  \A i \in 1..(k + 1 + 1) : Stands(seqs[i], h[k + 1 + 1], at[i])
      OBVIOUS
    <3>2. k + 1 \in 1..n /\ k + 1 + 1 \in 1..n /\ k + 1 + 1 # 1 /\ (k + 1 + 1) - 1 = k + 1
      BY <2>9, <3>1
    <3>3. \A i \in 1..(k + 1) : Stands(seqs[i], h[k + 1], at[i])
      BY <2>9, <2>14, <3>1
    <3>4. /\ h[k + 1 + 1] = h[k + 1] \o seqs[k + 1 + 1]
          /\ seqs[k + 1 + 1] \in Seq(S) /\ h[k + 1] \in Seq(S)
      BY <2>8, <2>9, <2>10, <3>2
    <3>5. at[k + 1 + 1] = Len(h[k + 1])
      BY <2>12, <3>2
    <3>6. Stands(seqs[k + 1 + 1], h[k + 1 + 1], at[k + 1 + 1])
      BY <3>4, <3>5, Concatenated
    <3>7. ASSUME NEW i \in 1..(k + 1) PROVE Stands(seqs[i], h[k + 1 + 1], at[i])
      <4>1. i \in 1..n /\ i \in 1..(n + 1)
        BY <2>9, <3>1
      <4>2. seqs[i] \in Seq(S) /\ at[i] \in Nat
        BY <2>9, <2>12, <4>1
      <4>3. Stands(seqs[i], h[k + 1], at[i])
        BY <3>3
      <4> QED BY <3>4, <4>2, <4>3, Concatenated
    <3>8. \A i \in 1..(k + 1 + 1) : i = k + 1 + 1 \/ i \in 1..(k + 1)
      OBVIOUS
    <3> QED BY <3>6, <3>7, <3>8
  <2>15. \A i \in 1..n : Stands(seqs[i], h[n], at[i])
    <3>1. Nat \subseteq U
      <4> HIDE DEF U
      <4> QED BY <2>13, <2>14, Induction
    <3>2. n - 1 \in Nat /\ (n - 1) + 1 = n
      BY <2>9
    <3>3. n - 1 \in U
      BY <3>1, <3>2
    <3> QED BY <2>9, <3>2, <3>3
  <2>16. \A i \in 1..n : at[i + 1] = at[i] + Len(seqs[i])
    <3>1. TAKE i \in 1..n
    <3>2. CASE i = 1
      <4>1. h[1] = seqs[1] /\ Len(seqs[1]) \in Nat
        BY <2>8, <2>9, <3>2
      <4>2. at[1 + 1] = Len(h[1]) /\ at[1] = 0
        BY <2>12, <3>2
      <4> QED BY <3>2, <4>1, <4>2
    <3>3. CASE i # 1
      <4>1. i - 1 \in 1..n /\ (i - 1) + 1 = i
        BY <2>9, <3>3
      <4>2. h[i] = h[i - 1] \o seqs[i] /\ h[i - 1] \in Seq(S) /\ seqs[i] \in Seq(S)
        BY <2>8, <2>9, <2>10, <3>3, <4>1
      <4>3. Len(h[i]) = Len(h[i - 1]) + Len(seqs[i])
        BY <4>2, Concatenated
      <4>4. at[i] = Len(h[i - 1])
        BY <2>12, <4>1
      <4> QED BY <2>12, <4>3, <4>4
    <3> QED BY <3>2, <3>3
  <2>17. at[n + 1] = Len(h[n]) /\ h[n] \in Seq(S)
    BY <2>9, <2>10, <2>12
  <2> HIDE DEF U
  <2>18. Starts(at, seqs, FlattenSeq(seqs))
    BY <2>7, <2>12, <2>15, <2>16, <2>17 DEF Starts, n
  <2> QED BY <2>7, <2>17, <2>18
<1> QED BY <1>1, <1>2

\* The first position of a symbol is found.
LEMMA FindAt ==
    ASSUME NEW s, NEW from \in Nat, NEW ch, Len(s) \in Nat, NEW i \in from..Len(s),
           s[i] = ch, \A j \in from..(i - 1) : s[j] # ch
    PROVE  Find(s, from, ch) = i
<1>1. PICK at : at = {j \in from..Len(s) : s[j] = ch}
  OBVIOUS
<1>2. Find(s, from, ch) = IF at = {} THEN 0 ELSE CHOOSE j \in at : \A k \in at : j <= k
  BY <1>1 DEF Find
<1>3. i \in at /\ \A j \in at : i <= j
  BY <1>1
<1>4. \A j \in at : (\A k \in at : j <= k) => j = i
  BY <1>1, <1>3
<1> QED BY <1>2, <1>3, <1>4

\* A part of one element.
LEMMA One ==
    ASSUME NEW S, NEW s \in Seq(S), NEW i \in 1..Len(s)
    PROVE  SubSeq(s, i, i) = <<s[i]>>
<1>1. i - 1 \in Nat /\ 1 \in Nat /\ (i - 1) + 1 = i /\ (i - 1) + 1 <= Len(s) /\ Len(s) \in Nat
  OBVIOUS
<1>2. PICK t : t = SubSeq(s, i, i)
  OBVIOUS
<1>3. t \in Seq(S) /\ Len(t) = 1 /\ \A j \in 1..1 : t[j] = s[(i - 1) + j]
  BY <1>1, <1>2, Part
<1>4. t[1] = s[i] /\ s[i] \in S
  BY <1>1, <1>3
<1>5. t = <<s[i]>>
  BY <1>3, <1>4
<1> QED BY <1>2, <1>5

\* A header of a name alone has no length.
LEMMA NoLength ==
    ASSUME NEW S, NEW header \in Seq(S), Len(header) = 1, header[1] # ":"
    PROVE  ~HasLength(header)
<1>1. Find(header, 1, ":") = Find(header, 1 + 1, ":")
  BY FindStep
<1>2. Find(header, 1 + 1, ":") = 0
  BY FindStep
<1>3. LengthPart(header) = <<>>
  BY <1>1, <1>2 DEF LengthPart
<1> QED BY <1>3 DEF HasLength

\* One of a name, a length and maybe a type gives both.
LEMMA TagAndLength ==
    ASSUME NEW S, NEW header \in Seq(S), NEW n \in DOMAIN Numeral,
           Len(header) \in {3, 5}, header[1] # ":", header[2] = ":", header[3] = Numeral[n],
           Len(header) = 5 => header[4] = ":"
    PROVE  TagPart(header) = <<header[1]>> /\ HasLength(header) /\ LengthIn(header) = n - 1
<1>1. Len(header) \in Nat /\ Numeral[n] # ":"
  BY NumeralAssumption
<1>2. Find(header, 1, ":") = 2
  <2>1. 2 \in 1..Len(header) /\ \A j \in 1..(2 - 1) : j = 1
    OBVIOUS
  <2> QED BY <1>1, <2>1, FindAt
<1>3. Find(header, 2 + 1, ":") = IF Len(header) = 3 THEN 0 ELSE 4
  <2>1. Find(header, 3, ":") = Find(header, 4, ":")
    BY <1>1, FindStep
  <2>2. Len(header) = 3 => Find(header, 4, ":") = 0
    BY FindStep
  <2>3. Len(header) = 5 => Find(header, 4, ":") = 4
    BY FindStep
  <2> QED BY <2>1, <2>2, <2>3
<1>4. TagPart(header) = <<header[1]>>
  <2>1. 1 \in 1..Len(header) /\ 2 - 1 = 1 /\ 2 # 0
    OBVIOUS
  <2>2. SubSeq(header, 1, 1) = <<header[1]>>
    BY <2>1, One
  <2>3. PICK c : c = Find(header, 1, ":")
    OBVIOUS
  <2>4. TagPart(header) = IF c = 0 THEN header ELSE SubSeq(header, 1, c - 1)
    BY <2>3 DEF TagPart
  <2>5. c # 0 /\ c - 1 = 1
    BY <1>2, <2>3
  <2> QED BY <2>2, <2>4, <2>5
<1>5. LengthPart(header) = <<Numeral[n]>>
  <2>1. 3 \in 1..Len(header) /\ 2 + 1 = 3 /\ 4 - 1 = 3
    OBVIOUS
  <2>2. SubSeq(header, 3, 3) = <<Numeral[n]>>
    BY <2>1, One
  <2>3. PICK d : d = Find(header, 2 + 1, ":")
    OBVIOUS
  <2>4. PICK c : c = Find(header, 1, ":")
    OBVIOUS
  <2>5. c = 2 /\ c # 0 /\ c + 1 = 3 /\ d = Find(header, c + 1, ":")
    BY <1>2, <2>3, <2>4
  <2>6. LengthPart(header) =
           IF c = 0 THEN <<>> ELSE SubSeq(header, c + 1, IF d = 0 THEN Len(header) ELSE d - 1)
    BY <2>4, <2>5 DEF LengthPart
  <2>7. (IF d = 0 THEN Len(header) ELSE d - 1) = 3
    BY <1>3, <2>3
  <2> QED BY <2>2, <2>5, <2>6, <2>7
<1>6. \A m \in DOMAIN Numeral : LengthPart(header) = <<Numeral[m]>> <=> m = n
  <2>1. \A m \in DOMAIN Numeral : <<Numeral[n]>> = <<Numeral[m]>> => Numeral[n] = Numeral[m]
    OBVIOUS
  <2> QED BY <1>5, <2>1, NumeralAssumption
<1>7. HasLength(header)
  BY <1>6 DEF HasLength
<1>8. LengthIn(header) = n - 1
  <2>1. (CHOOSE m \in DOMAIN Numeral : LengthPart(header) = <<Numeral[m]>>) = n
    BY <1>6
  <2> QED BY <2>1 DEF LengthIn
<1> QED BY <1>4, <1>7, <1>8

\* After position p comes a space and a header of k symbols.
OpensAt(s, p, k) ==
    /\ p + 3 + k <= Len(s)
    /\ s[p + 1] = " " /\ s[p + 2] = "<" /\ s[p + 3 + k] = ">"
    /\ \A j \in 1..k : s[p + 2 + j] # ">"

\* The terms in which one step of the inspector speaks of it.
IsHeader(s, p, k, from, header, start, end) ==
    /\ from = p + 1
    /\ header = SubSeq(s, p + 2 + 1, p + 2 + k)
    /\ start = p + 4 + k
    /\ end = start + LengthIn(header)

\* What the inspector makes of a header and what stands after it.
AtHeader(s, name, header, start, end, f) ==
    IF ~HasLength(header) THEN f[start]
    ELSE IF end > Len(s) + 1 THEN Absent
    ELSE IF TagPart(header) # <<name>> THEN f[end]
    ELSE IF Boundary(s, end) THEN SubSeq(s, start, end - 1)
    ELSE Panic

\* The step is what AtHeader says.
LEMMA HeaderStep ==
    ASSUME NEW s \in Seq(Symbols), NEW p \in Nat, NEW k \in Nat, OpensAt(s, p, k),
           NEW from, NEW header, NEW start, NEW end, IsHeader(s, p, k, from, header, start, end),
           NEW name, NEW f
    PROVE  /\ header \in Seq(Symbols) /\ Len(header) = k /\ \A j \in 1..k : header[j] = s[p + 2 + j]
           /\ ScanFrom(s, name, from, f) = AtHeader(s, name, header, start, end, f)
<1>00. p + 3 + k <= Len(s)
  BY DEF OpensAt
<1>0. Len(s) \in Nat /\ p + 3 + k <= Len(s)
  BY <1>00
<1>9. /\ from = p + 1 /\ header = SubSeq(s, p + 2 + 1, p + 2 + k)
      /\ start = p + 4 + k /\ end = start + LengthIn(header)
  BY DEF IsHeader
<1>1. header \in Seq(Symbols) /\ Len(header) = k /\ \A j \in 1..k : header[j] = s[p + 2 + j]
  <2>1. p + 2 \in Nat /\ (p + 2) + k <= Len(s)
    BY <1>0
  <2> QED BY <1>9, <2>1, Part
<1>2. Find(s, p + 1, "<") = p + 2
  <2>1. p + 1 \in Nat /\ p + 2 \in (p + 1)..Len(s)
    BY <1>0
  <2>2. \A j \in (p + 1)..((p + 2) - 1) : s[j] # "<"
    <3>1. \A j \in (p + 1)..((p + 2) - 1) : j = p + 1
      OBVIOUS
    <3>2. s[p + 1] # "<"
      BY DEF OpensAt
    <3> QED BY <3>1, <3>2
  <2>3. s[p + 2] = "<"
    BY DEF OpensAt
  <2> QED BY <1>0, <2>1, <2>2, <2>3, FindAt
<1>3. Find(s, p + 2 + 1, ">") = p + 3 + k
  <2>1. p + 2 + 1 \in Nat /\ p + 3 + k \in (p + 2 + 1)..Len(s)
    BY <1>0
  <2>2. ASSUME NEW i \in (p + 2 + 1)..((p + 3 + k) - 1) PROVE s[i] # ">"
    <3>1. i - (p + 2) \in 1..k /\ (p + 2) + (i - (p + 2)) = i
      OBVIOUS
    <3> QED BY <3>1 DEF OpensAt
  <2>3. s[p + 3 + k] = ">"
    BY DEF OpensAt
  <2> QED BY <1>0, <2>1, <2>2, <2>3, FindAt
<1>4. Boundary(s, p + 1)
  BY DEF Boundary, OpensAt
<1>5. ~(p + 2 = 0) /\ ~(p + 3 + k = 0) /\ (p + 3 + k) - 1 = p + 2 + k /\ (p + 3 + k) + 1 = p + 4 + k
  OBVIOUS
<1>6. PICK open : open = p + 2
  OBVIOUS
<1>7. PICK close : close = p + 3 + k
  OBVIOUS
<1>8. open = Find(s, p + 1, "<") /\ close = Find(s, open + 1, ">")
      /\ header = SubSeq(s, open + 1, close - 1) /\ open # 0 /\ close # 0
      /\ close + 1 = start /\ (close + 1) + LengthIn(header) = end
  BY <1>2, <1>3, <1>5, <1>6, <1>7, <1>9
<1>10. ScanFrom(s, name, p + 1, f) =
        IF ~Boundary(s, p + 1) THEN Panic
        ELSE IF open = 0 \/ close = 0 THEN Absent
        ELSE IF ~HasLength(header) THEN f[close + 1]
        ELSE IF (close + 1) + LengthIn(header) > Len(s) + 1 THEN Absent
        ELSE IF TagPart(header) # <<name>> THEN f[(close + 1) + LengthIn(header)]
        ELSE IF Boundary(s, (close + 1) + LengthIn(header))
             THEN SubSeq(s, close + 1, ((close + 1) + LengthIn(header)) - 1)
        ELSE Panic
  BY <1>8 DEF ScanFrom, AfterValue
<1> QED BY <1>1, <1>4, <1>8, <1>9, <1>10 DEF AtHeader

\* Short tuples are sequences.
LEMMA Tuples ==
    ASSUME NEW S
    PROVE  /\ <<>> \in Seq(S) /\ Len(<<>>) = 0
           /\ \A a \in S : <<a>> \in Seq(S) /\ Len(<<a>>) = 1 /\ <<a>>[1] = a
           /\ \A a, b \in S : /\ <<a, b>> \in Seq(S) /\ Len(<<a, b>>) = 2
                              /\ <<a, b>>[1] = a /\ <<a, b>>[2] = b
           /\ \A a, b, c, d \in S :
                 LET t == <<a, b, c, d>>
                 IN  t \in Seq(S) /\ Len(t) = 4 /\ t[1] = a /\ t[2] = b /\ t[3] = c /\ t[4] = d
           /\ \A a, b, c, d, e \in S :
                 LET t == <<a, b, c, d, e>>
                 IN  /\ t \in Seq(S) /\ Len(t) = 5
                     /\ t[1] = a /\ t[2] = b /\ t[3] = c /\ t[4] = d /\ t[5] = e
<1>1. <<>> \in Seq(S) /\ Len(<<>>) = 0
  OBVIOUS
<1>2. \A a \in S : <<a>> \in Seq(S) /\ Len(<<a>>) = 1 /\ <<a>>[1] = a
  OBVIOUS
<1>3. \A a, b \in S : <<a, b>> \in Seq(S) /\ Len(<<a, b>>) = 2 /\ <<a, b>>[1] = a /\ <<a, b>>[2] = b
  OBVIOUS
<1>4. ASSUME NEW a \in S, NEW b \in S, NEW c \in S, NEW d \in S, NEW t, t = <<a, b, c, d>>
      PROVE  t \in Seq(S) /\ Len(t) = 4 /\ t[1] = a /\ t[2] = b /\ t[3] = c /\ t[4] = d
  BY <1>4
<1>5. ASSUME NEW a \in S, NEW b \in S, NEW c \in S, NEW d \in S, NEW e \in S, NEW t, t = <<a, b, c, d, e>>
      PROVE  t \in Seq(S) /\ Len(t) = 5 /\ t[1] = a /\ t[2] = b /\ t[3] = c /\ t[4] = d /\ t[5] = e
  BY <1>5
<1> QED BY <1>1, <1>2, <1>3, <1>4, <1>5

\* The bytes of a text are symbols.
LEMMA BytesType ==
    ASSUME NEW text \in Seq(Chars)
    PROVE  Bytes(text) \in Seq(Symbols)
<1> DEFINE seqs == [i \in DOMAIN text |->
                       IF text[i] = "e-acute" THEN <<"lead", "trail">> ELSE <<text[i]>>]
<1>1. DOMAIN text = 1..Len(text) /\ Len(text) \in Nat
  OBVIOUS
<1>2. ASSUME NEW i \in 1..Len(text)
      PROVE  (IF text[i] = "e-acute" THEN <<"lead", "trail">> ELSE <<text[i]>>) \in Seq(Symbols)
  <2>1. text[i] \in Chars
    BY <1>1
  <2>2. text[i] \in Symbols
    BY <2>1 DEF Symbols
  <2>3. "lead" \in Symbols /\ "trail" \in Symbols
    BY DEF Symbols
  <2>4. <<"lead", "trail">> \in Seq(Symbols) /\ <<text[i]>> \in Seq(Symbols)
    BY <2>2, <2>3, Tuples
  <2> QED BY <2>4
<1>3. seqs \in [1..Len(text) -> Seq(Symbols)]
  BY <1>1, <1>2
<1> HIDE DEF seqs
<1>4. seqs \in Seq(Seq(Symbols))
  BY <1>1, <1>3, SeqDef
<1>5. FlattenSeq(seqs) \in Seq(Symbols)
  BY <1>4, Flattened
<1> QED BY <1>5 DEF Bytes, seqs

\* The parts of an item: what comes before its kind, its kind, a closing
\* bracket and its value.
LEMMA FieldParts ==
    ASSUME NEW item \in Items, item.name \notin Sentinels,
           NEW b, b = Bytes(item.text), Len(b) < Len(Numeral)
    PROVE  LET num == Numeral[Len(b) + 1]
               h   == <<" ", "<", item.name, ":", num>>
           IN  /\ Len(b) + 1 \in DOMAIN Numeral
               /\ h \in Seq(Symbols) /\ Len(h) = 5
               /\ item.kind \in Seq(Symbols) /\ b \in Seq(Symbols) /\ <<">">> \in Seq(Symbols)
               /\ InBytes(item) = ((h \o item.kind) \o <<">">>) \o b
               /\ InBytes(item) \in Seq(Symbols)
               /\ Len(InBytes(item)) = 6 + Len(item.kind) + Len(b)
               /\ Len(item.kind) = 0 \/ (Len(item.kind) = 2 /\ item.kind[1] = ":" /\ item.kind[2] = "S")
<1>1. b \in Seq(Symbols) /\ item.name \in Tags /\ item.kind \in Kinds
  BY BytesType DEF Items
<1>2. Len(b) \in Nat /\ Len(b) + 1 \in DOMAIN Numeral
  <2>1. Len(b) \in Nat
    BY <1>1
  <2>2. DOMAIN Numeral = 1..Len(Numeral) /\ Len(Numeral) \in Nat
    BY NumeralAssumption
  <2>3. Len(b) + 1 \in 1..Len(Numeral)
    BY <2>1, <2>2
  <2> QED BY <2>1, <2>2, <2>3
<1>3. PICK num \in Symbols : num = Numeral[Len(b) + 1]
  BY <1>2 DEF Symbols
<1>4. " " \in Symbols /\ "<" \in Symbols /\ ":" \in Symbols /\ ">" \in Symbols /\ "S" \in Symbols
      /\ item.name \in Symbols
  BY <1>1 DEF Symbols
<1>5. PICK h \in Seq(Symbols) : h = <<" ", "<", item.name, ":", num>> /\ Len(h) = 5
  <2>1. <<" ", "<", item.name, ":", num>> \in Seq(Symbols) /\ Len(<<" ", "<", item.name, ":", num>>) = 5
    <3>1. PICK a \in Symbols, b1 \in Symbols, c \in Symbols, d \in Symbols :
             a = " " /\ b1 = "<" /\ c = item.name /\ d = ":"
      BY <1>4
    <3>2. <<a, b1, c, d, num>> \in Seq(Symbols) /\ Len(<<a, b1, c, d, num>>) = 5
      BY <3>1, Tuples
    <3> QED BY <3>1, <3>2
  <2> QED BY <2>1
<1>6. PICK kind \in Seq(Symbols) :
         /\ kind = item.kind
         /\ Len(kind) = 0 \/ (Len(kind) = 2 /\ kind[1] = ":" /\ kind[2] = "S")
  <2>1. <<>> \in Seq(Symbols) /\ <<":", "S">> \in Seq(Symbols)
    BY <1>4, Tuples
  <2>2. Len(<<>>) = 0 /\ Len(<<":", "S">>) = 2 /\ <<":", "S">>[1] = ":" /\ <<":", "S">>[2] = "S"
    OBVIOUS
  <2>3. item.kind = <<>> \/ item.kind = <<":", "S">>
    BY <1>1 DEF Kinds
  <2> QED BY <2>1, <2>2, <2>3
<1>7. PICK c \in Seq(Symbols) : c = <<">">> /\ Len(c) = 1
  <2>1. <<">">> \in Seq(Symbols) /\ Len(<<">">>) = 1
    BY <1>4, Tuples
  <2> QED BY <2>1
<1>8. PICK x \in Seq(Symbols) : x = h \o kind /\ Len(x) = Len(h) + Len(kind)
  BY Concatenated
<1>9. PICK y \in Seq(Symbols) : y = x \o c /\ Len(y) = Len(x) + Len(c)
  BY Concatenated
<1>10. PICK z \in Seq(Symbols) : z = y \o b /\ Len(z) = Len(y) + Len(b)
  BY <1>1, Concatenated
<1>11. InBytes(item) = z
  BY <1>3, <1>5, <1>6, <1>7, <1>8, <1>9, <1>10 DEF InBytes, ItemText
<1>12. Len(z) = 6 + Len(kind) + Len(b)
  <2>1. Len(kind) \in Nat
    OBVIOUS
  <2>2. Len(x) = 5 + Len(kind)
    BY <1>5, <1>8
  <2>3. Len(y) = 6 + Len(kind)
    BY <1>7, <1>9, <2>1, <2>2
  <2> QED BY <1>10, <2>3
<1> QED BY <1>1, <1>2, <1>3, <1>5, <1>6, <1>7, <1>8, <1>9, <1>10, <1>11, <1>12

\* A sentinel, symbol by symbol.
LEMMA SentinelParts ==
    ASSUME NEW item \in Items, item.name \in Sentinels, NEW t, t = InBytes(item)
    PROVE  /\ t \in Seq(Symbols) /\ Len(t) = 4
           /\ t[1] = " " /\ t[2] = "<" /\ t[3] = item.name /\ t[4] = ">"
<1>1. PICK space \in Symbols, less \in Symbols, name \in Symbols, greater \in Symbols :
         space = " " /\ less = "<" /\ name = item.name /\ greater = ">"
  BY DEF Symbols, Tags
<1>2. t = <<space, less, name, greater>>
  BY <1>1 DEF InBytes, ItemText
<1>3. t \in Seq(Symbols) /\ Len(t) = 4 /\ t[1] = space /\ t[2] = less /\ t[3] = name /\ t[4] = greater
  BY <1>2, Tuples
<1> QED BY <1>1, <1>3

\* The inspector steps over a sentinel.
LEMMA SentinelStep ==
    ASSUME NEW item \in Items, item.name \in Sentinels, NEW s \in Seq(Symbols), NEW p \in Nat,
           Stands(InBytes(item), s, p), NEW name, NEW f
    PROVE  ScanFrom(s, name, p + 1, f) = f[p + Len(InBytes(item)) + 1]
<1>1. PICK t : /\ t = InBytes(item) /\ Len(t) = 4
               /\ t[1] = " " /\ t[2] = "<" /\ t[3] = item.name /\ t[4] = ">"
  BY SentinelParts
<1>2. p + 4 <= Len(s) /\ s[p + 1] = " " /\ s[p + 2] = "<" /\ s[p + 3] = item.name /\ s[p + 4] = ">"
  <2>1. p + 4 <= Len(s) /\ \A i \in 1..4 : s[p + i] = t[i]
    BY <1>1 DEF Stands
  <2>2. 1 \in 1..4 /\ 2 \in 1..4 /\ 3 \in 1..4 /\ 4 \in 1..4
    OBVIOUS
  <2> QED BY <1>1, <2>1, <2>2
<1>3. item.name # ">" /\ item.name # ":"
  BY DEF Sentinels
<1>4. p + 3 + 1 = p + 4 /\ p + 2 + 1 = p + 3 /\ p + 4 + 1 = p + 5 /\ 1 \in Nat /\ \A j \in 1..1 : j = 1
  OBVIOUS
<1>5. OpensAt(s, p, 1)
  BY <1>2, <1>3, <1>4 DEF OpensAt
<1>6. PICK header : header = SubSeq(s, p + 2 + 1, p + 2 + 1)
  OBVIOUS
<1>7. /\ header \in Seq(Symbols) /\ Len(header) = 1 /\ \A j \in 1..1 : header[j] = s[p + 2 + j]
      /\ ~HasLength(header) => ScanFrom(s, name, p + 1, f) = f[p + 4 + 1]
  <2>1. PICK k \in Nat : k = 1
    OBVIOUS
  <2>2. PICK start : start = p + 4 + k
    OBVIOUS
  <2>3. PICK end : end = start + LengthIn(header)
    OBVIOUS
  <2>5. PICK from : from = p + 1
    OBVIOUS
  <2>4. /\ header \in Seq(Symbols) /\ Len(header) = k /\ \A j \in 1..k : header[j] = s[p + 2 + j]
        /\ ScanFrom(s, name, from, f) = AtHeader(s, name, header, start, end, f)
    <3>1. OpensAt(s, p, k) /\ IsHeader(s, p, k, from, header, start, end)
      BY <1>5, <1>6, <2>1, <2>2, <2>3, <2>5 DEF IsHeader
    <3>2. header \in Seq(Symbols)
      BY <3>1, HeaderStep
    <3>3. Len(header) = k
      BY <3>1, HeaderStep
    <3>4. \A j \in 1..k : header[j] = s[p + 2 + j]
      BY <3>1, HeaderStep
    <3>5. ScanFrom(s, name, from, f) = AtHeader(s, name, header, start, end, f)
      BY <3>1, HeaderStep
    <3> QED BY <3>2, <3>3, <3>4, <3>5
  <2> QED BY <2>1, <2>2, <2>4, <2>5 DEF AtHeader
<1>8. header[1] # ":"
  <2>1. 1 \in 1..1
    OBVIOUS
  <2>2. header[1] = s[p + 3]
    BY <1>4, <1>7, <2>1
  <2> QED BY <1>2, <1>3, <2>2
<1>9. ~HasLength(header)
  BY <1>7, <1>8, NoLength
<1> QED BY <1>1, <1>7, <1>9

\* The inspector finds the value of the field it looks for, and steps over any
\* other.
LEMMA FieldStep ==
    ASSUME NEW item \in Items, item.name \notin Sentinels, NEW s \in Seq(Symbols), NEW p \in Nat,
           Len(Bytes(item.text)) < Len(Numeral),
           Stands(InBytes(item), s, p), Boundary(s, p + Len(InBytes(item)) + 1), NEW name, NEW f
    PROVE  ScanFrom(s, name, p + 1, f) =
             IF item.name = name THEN Bytes(item.text) ELSE f[p + Len(InBytes(item)) + 1]
<1>1. PICK b : b = Bytes(item.text)
  OBVIOUS
<1>2. PICK n \in DOMAIN Numeral : n = Len(b) + 1
  BY <1>1, FieldParts
<1>3. PICK h : h = <<" ", "<", item.name, ":", Numeral[n]>>
  OBVIOUS
<1>4. PICK kind : kind = item.kind
  OBVIOUS
<1>5. PICK c : c = <<">">>
  OBVIOUS
<1>6. PICK t : t = InBytes(item)
  OBVIOUS
<1>7. /\ h \in Seq(Symbols) /\ Len(h) = 5
      /\ kind \in Seq(Symbols) /\ b \in Seq(Symbols) /\ c \in Seq(Symbols)
      /\ t = ((h \o kind) \o c) \o b /\ t \in Seq(Symbols)
      /\ Len(t) = 6 + Len(kind) + Len(b)
      /\ Len(kind) = 0 \/ (Len(kind) = 2 /\ kind[1] = ":" /\ kind[2] = "S")
  BY <1>1, <1>2, <1>3, <1>4, <1>5, <1>6, FieldParts
<1>8. PICK q \in Nat : q = Len(kind)
  BY <1>7
<1>9. PICK m \in Nat : m = Len(b)
  BY <1>7
<1>10. /\ Stands(h, s, p) /\ Stands(kind, s, p + 5) /\ Stands(c, s, p + 5 + q)
       /\ Stands(b, s, p + 6 + q)
  <2>1. PICK x \in Seq(Symbols) : x = h \o kind /\ Len(x) = 5 + q
    <3>1. h \o kind \in Seq(Symbols) /\ Len(h \o kind) = Len(h) + Len(kind)
      BY <1>7, Concatenated
    <3>2. Len(h \o kind) = 5 + q
      BY <1>7, <1>8, <3>1
    <3> QED BY <3>1, <3>2
  <2>2. PICK y \in Seq(Symbols) : y = x \o c /\ Len(y) = 6 + q
    <3>1. Len(c) = 1 /\ Len(x \o c) = Len(x) + Len(c) /\ x \o c \in Seq(Symbols)
      BY <1>5, <1>7, Concatenated
    <3>2. Len(x \o c) = 6 + q
      BY <2>1, <3>1
    <3> QED BY <3>1, <3>2
  <2>3. Stands(y \o b, s, p)
    BY <1>6, <1>7, <2>1, <2>2
  <2>4. \A u, v \in Seq(Symbols) : Stands(u \o v, s, p) <=> Stands(u, s, p) /\ Stands(v, s, p + Len(u))
    BY StandsFacts
  <2>5. Stands(y, s, p) /\ Stands(b, s, p + Len(y))
    BY <1>7, <2>3, <2>4
  <2>6. Stands(x, s, p) /\ Stands(c, s, p + Len(x))
    BY <1>7, <2>2, <2>4, <2>5
  <2>7. Stands(h, s, p) /\ Stands(kind, s, p + Len(h))
    BY <1>7, <2>1, <2>4, <2>6
  <2>8. p + Len(x) = p + 5 + q /\ p + Len(y) = p + 6 + q
    BY <2>1, <2>2
  <2> QED BY <1>7, <2>5, <2>6, <2>7, <2>8
<1>11. /\ s[p + 1] = " " /\ s[p + 2] = "<" /\ s[p + 3] = item.name /\ s[p + 4] = ":" /\ s[p + 5] = Numeral[n]
       /\ s[p + 6 + q] = ">"
       /\ q = 2 => s[p + 6] = ":" /\ s[p + 7] = "S"
  <2>1. h[1] = " " /\ h[2] = "<" /\ h[3] = item.name /\ h[4] = ":" /\ h[5] = Numeral[n]
    BY <1>3
  <2>2. s[p + 1] = " " /\ s[p + 2] = "<" /\ s[p + 3] = item.name /\ s[p + 4] = ":" /\ s[p + 5] = Numeral[n]
    <3>1. \A i \in 1..5 : s[p + i] = h[i]
      BY <1>7, <1>10 DEF Stands
    <3>2. 1 \in 1..5 /\ 2 \in 1..5 /\ 3 \in 1..5 /\ 4 \in 1..5 /\ 5 \in 1..5
      OBVIOUS
    <3> QED BY <2>1, <3>1, <3>2
  <2>3. Len(c) = 1 /\ c[1] = ">" /\ p + 5 + q + 1 = p + 6 + q
    BY <1>5
  <2>4. s[p + 6 + q] = ">"
    BY <1>10, <2>3 DEF Stands
  <2>5. p + 5 + 1 = p + 6 /\ p + 5 + 2 = p + 7
    OBVIOUS
  <2>6. q = 2 => s[p + 6] = ":" /\ s[p + 7] = "S"
    <3>1. SUFFICES ASSUME q = 2 PROVE s[p + 6] = ":" /\ s[p + 7] = "S"
      OBVIOUS
    <3>2. Len(kind) = 2 /\ kind[1] = ":" /\ kind[2] = "S"
      BY <1>7, <1>8, <3>1
    <3>3. \A i \in 1..2 : s[p + 5 + i] = kind[i]
      BY <1>10, <3>2 DEF Stands
    <3>4. 1 \in 1..2 /\ 2 \in 1..2
      OBVIOUS
    <3> QED BY <2>5, <3>2, <3>3, <3>4
  <2> QED BY <2>2, <2>4, <2>6
<1>12. Numeral[n] # ":" /\ Numeral[n] # ">" /\ item.name # ":" /\ item.name # ">"
  <2>1. Numeral[n] # ":" /\ Numeral[n] # ">"
    BY NumeralAssumption
  <2>2. item.name \in Tags
    BY DEF Items
  <2>3. item.name # ":" /\ item.name # ">"
    BY <2>2 DEF Tags, Names, Sentinels
  <2> QED BY <2>1, <2>3
<1>13. p + 6 + q + m <= Len(s) /\ Len(s) \in Nat /\ Len(t) = 6 + q + m /\ q \in {0, 2}
  <2>1. Len(t) = 6 + q + m
    BY <1>7, <1>8, <1>9
  <2>2. p + Len(t) <= Len(s)
    BY <1>6 DEF Stands
  <2>3. q \in {0, 2}
    BY <1>7, <1>8
  <2>4. Len(s) \in Nat
    OBVIOUS
  <2>5. p + 6 + q + m <= Len(s)
    BY <2>1, <2>2, <2>4
  <2> QED BY <2>1, <2>3, <2>4, <2>5
<1>14. OpensAt(s, p, 3 + q)
  <2>1. p + 3 + (3 + q) <= Len(s) /\ p + 3 + (3 + q) = p + 6 + q
    BY <1>13
  <2>2. ASSUME NEW j \in 1..(3 + q) PROVE s[p + 2 + j] # ">"
    <3>1. j \in 1..3 \/ (q = 2 /\ j \in 4..5)
      BY <1>13
    <3>2. p + 2 + 1 = p + 3 /\ p + 2 + 2 = p + 4 /\ p + 2 + 3 = p + 5 /\ p + 2 + 4 = p + 6 /\ p + 2 + 5 = p + 7
      OBVIOUS
    <3>3. j = 1 \/ j = 2 \/ j = 3 \/ (q = 2 /\ (j = 4 \/ j = 5))
      BY <3>1
    <3>4. ":" # ">" /\ "S" # ">"
      OBVIOUS
    <3> QED BY <1>11, <1>12, <3>2, <3>3, <3>4
  <2> QED BY <1>11, <2>1, <2>2 DEF OpensAt
<1>15. PICK header : header = SubSeq(s, p + 2 + 1, p + 2 + (3 + q))
  OBVIOUS
<1>16. PICK start \in Nat : start = p + 4 + (3 + q)
  OBVIOUS
<1>17. PICK end : end = start + LengthIn(header)
  OBVIOUS
<1>18. /\ header \in Seq(Symbols) /\ Len(header) = 3 + q /\ \A j \in 1..(3 + q) : header[j] = s[p + 2 + j]
       /\ ScanFrom(s, name, p + 1, f) =
                  IF ~HasLength(header) THEN f[start]
                    ELSE IF end > Len(s) + 1 THEN Absent
                    ELSE IF TagPart(header) # <<name>> THEN f[end]
                    ELSE IF Boundary(s, end) THEN SubSeq(s, start, end - 1)
                    ELSE Panic
  <2>1. PICK k \in Nat : k = 3 + q
    OBVIOUS
  <2>2. start = p + 4 + k
    BY <1>16, <2>1
  <2>4. PICK from : from = p + 1
    OBVIOUS
  <2>3. /\ header \in Seq(Symbols) /\ Len(header) = k /\ \A j \in 1..k : header[j] = s[p + 2 + j]
        /\ ScanFrom(s, name, from, f) = AtHeader(s, name, header, start, end, f)
    <3>1. OpensAt(s, p, k) /\ IsHeader(s, p, k, from, header, start, end)
      BY <1>14, <1>15, <1>17, <2>1, <2>2, <2>4 DEF IsHeader
    <3>2. header \in Seq(Symbols)
      BY <3>1, HeaderStep
    <3>3. Len(header) = k
      BY <3>1, HeaderStep
    <3>4. \A j \in 1..k : header[j] = s[p + 2 + j]
      BY <3>1, HeaderStep
    <3>5. ScanFrom(s, name, from, f) = AtHeader(s, name, header, start, end, f)
      BY <3>1, HeaderStep
    <3> QED BY <3>2, <3>3, <3>4, <3>5
  <2> QED BY <2>1, <2>3, <2>4 DEF AtHeader
<1>19. TagPart(header) = <<item.name>> /\ HasLength(header) /\ LengthIn(header) = m
  <2>1. p + 2 + 1 = p + 3 /\ p + 2 + 2 = p + 4 /\ p + 2 + 3 = p + 5 /\ p + 2 + 4 = p + 6
    OBVIOUS
  <2>0. \A j \in 1..(3 + q) : header[j] = s[p + 2 + j]
    BY <1>18
  <2>2. header[1] = item.name /\ header[2] = ":" /\ header[3] = Numeral[n]
    <3>1. 1 \in 1..(3 + q) /\ 2 \in 1..(3 + q) /\ 3 \in 1..(3 + q)
      BY <1>13
    <3>2. header[1] = s[p + 3] /\ header[2] = s[p + 4] /\ header[3] = s[p + 5]
      BY <2>0, <2>1, <3>1
    <3> QED BY <1>11, <3>2
  <2>3. Len(header) \in {3, 5} /\ (Len(header) = 5 => q = 2)
    <3>1. Len(header) = 3 + q
      BY <1>18
    <3> QED BY <1>13, <3>1
  <2>4. Len(header) = 5 => header[4] = ":"
    <3>1. SUFFICES ASSUME q = 2 PROVE header[4] = ":"
      BY <2>3
    <3>2. 4 \in 1..(3 + q)
      BY <3>1
    <3>3. header[4] = s[p + 6]
      BY <2>0, <2>1, <3>2
    <3> QED BY <1>11, <3>1, <3>3
  <2>5. TagPart(header) = <<header[1]>> /\ HasLength(header) /\ LengthIn(header) = n - 1
    BY <1>12, <1>18, <2>2, <2>3, <2>4, TagAndLength
  <2> QED BY <1>2, <1>9, <2>2, <2>5
<1>20. end = p + Len(t) + 1 /\ ~(end > Len(s) + 1) /\ start = (p + 6 + q) + 1 /\ end - 1 = (p + 6 + q) + m
  BY <1>13, <1>16, <1>17, <1>19
<1>21. SubSeq(s, start, end - 1) = b
  <2>1. p + 6 + q \in Nat
    OBVIOUS
  <2>2. b = SubSeq(s, (p + 6 + q) + 1, (p + 6 + q) + Len(b))
    BY <1>7, <1>10, <2>1, StandsFacts
  <2> QED BY <1>9, <1>20, <2>2
<1>22. Boundary(s, end)
  BY <1>6, <1>20
<1>23. <<item.name>> = <<name>> <=> item.name = name
  OBVIOUS
<1> QED BY <1>1, <1>6, <1>18, <1>19, <1>20, <1>21, <1>22, <1>23

\* An item begins with a space.
LEMMA ItemStart ==
    ASSUME NEW item \in Items, Len(Bytes(item.text)) < Len(Numeral)
    PROVE  InBytes(item) \in Seq(Symbols) /\ Len(InBytes(item)) \in Nat \ {0} /\ InBytes(item)[1] = " "
<1>1. PICK t : t = InBytes(item)
  OBVIOUS
<1> SUFFICES t \in Seq(Symbols) /\ Len(t) \in Nat \ {0} /\ t[1] = " "
  BY <1>1
<1>2. CASE item.name \in Sentinels
  <2>1. t \in Seq(Symbols) /\ Len(t) = 4 /\ t[1] = " "
    BY <1>1, <1>2, SentinelParts
  <2>2. 4 \in Nat \ {0}
    OBVIOUS
  <2> QED BY <2>1, <2>2
<1>3. CASE item.name \notin Sentinels
  <2>1. PICK b : b = Bytes(item.text)
    OBVIOUS
  <2>2. PICK h : h = <<" ", "<", item.name, ":", Numeral[Len(b) + 1]>>
    OBVIOUS
  <2>3. PICK c : c = <<">">>
    OBVIOUS
  <2>4. /\ h \in Seq(Symbols) /\ Len(h) = 5 /\ b \in Seq(Symbols) /\ c \in Seq(Symbols)
        /\ item.kind \in Seq(Symbols)
        /\ t = ((h \o item.kind) \o c) \o b /\ t \in Seq(Symbols)
    BY <1>1, <1>3, <2>1, <2>2, <2>3, FieldParts
  <2>5. PICK x \in Seq(Symbols) : x = h \o item.kind
    BY <2>4, Concatenated
  <2>6. PICK y \in Seq(Symbols) : y = x \o c
    BY <2>4, Concatenated
  <2>7. Stands(h, h, 0)
    BY <2>4 DEF Stands
  <2>8. \A u, v \in Seq(Symbols), w \in Seq(Symbols) : Stands(w, u, 0) => Stands(w, u \o v, 0)
    <3>1. 0 \in Nat
      OBVIOUS
    <3> QED BY <3>1, Concatenated
  <2>9. Stands(h, x, 0)
    BY <2>4, <2>5, <2>7, <2>8
  <2>10. Stands(h, y, 0)
    BY <2>4, <2>6, <2>8, <2>9
  <2>11. Stands(h, t, 0)
    BY <2>4, <2>5, <2>6, <2>8, <2>10
  <2>12. Len(t) \in Nat \ {0} /\ t[1] = h[1]
    <3>1. 1 \in 1..5 /\ 0 + 1 = 1
      OBVIOUS
    <3>2. 0 + 5 <= Len(t) /\ \A i \in 1..5 : t[0 + i] = h[i]
      BY <2>4, <2>11 DEF Stands
    <3>3. Len(t) \in Nat
      BY <2>4
    <3>4. t[0 + 1] = h[1]
      BY <3>1, <3>2
    <3> QED BY <3>1, <3>2, <3>3, <3>4
  <2>13. h[1] = " "
    BY <2>2
  <2> QED BY <2>4, <2>12, <2>13
<1> QED BY <1>2, <1>3

\* In any record each field is found: by induction over the items, from the last
\* to the first.
LEMMA FieldsRead ==
    ASSUME NEW r \in Seq(Items), \A i \in DOMAIN r : Len(Bytes(r[i].text)) < Len(Numeral),
           NEW name \in Names
    PROVE  AdifField(Written(r), name) = ValueOf(r, name)
<1>0. PICK n \in Nat : n = Len(r) /\ DOMAIN r = 1..n
  OBVIOUS
<1>1. \A i \in 1..n : /\ r[i] \in Items /\ Len(Bytes(r[i].text)) < Len(Numeral)
                      /\ InBytes(r[i]) \in Seq(Symbols)
                      /\ Len(InBytes(r[i])) \in Nat \ {0} /\ InBytes(r[i])[1] = " "
  <2>1. TAKE i \in 1..n
  <2>2. r[i] \in Items /\ Len(Bytes(r[i].text)) < Len(Numeral)
    BY <1>0
  <2> QED BY <2>2, ItemStart
<1>2. PICK seqs : seqs = [i \in DOMAIN r |-> InBytes(r[i])]
  OBVIOUS
<1>3. seqs \in Seq(Seq(Symbols)) /\ Len(seqs) = n /\ \A i \in 1..n : seqs[i] = InBytes(r[i])
  <2>1. seqs \in [1..n -> Seq(Symbols)]
    BY <1>0, <1>1, <1>2
  <2>2. seqs \in Seq(Seq(Symbols))
    BY <2>1, SeqDef
  <2> QED BY <1>0, <1>2, <2>1, <2>2
<1>4. PICK s \in Seq(Symbols) : s = Written(r) /\ \E at : Starts(at, seqs, s)
  <2>1. Written(r) = FlattenSeq(seqs)
    BY <1>2 DEF Written
  <2>2. FlattenSeq(seqs) \in Seq(Symbols) /\ \E at : Starts(at, seqs, FlattenSeq(seqs))
    BY <1>3, Flattened
  <2> QED BY <2>1, <2>2
<1>5. PICK at : Starts(at, seqs, s)
  BY <1>4
<1>6. /\ at \in [1..(n + 1) -> Nat] /\ at[1] = 0 /\ at[n + 1] = Len(s)
      /\ \A i \in 1..n : at[i + 1] = at[i] + Len(InBytes(r[i])) /\ Stands(InBytes(r[i]), s, at[i])
  BY <1>3, <1>5 DEF Starts
<1>7. Len(s) \in Nat
  OBVIOUS
<1>8. PICK f : /\ AdifField(s, name) = f[1]
               /\ \A c \in 1..(Len(s) + 1) : f[c] = ScanFrom(s, name, c, f)
  BY <1>7, Scans
<1>9. \A i \in 1..n : i \in 1..(n + 1) /\ i + 1 \in 1..(n + 1)
  OBVIOUS
<1>10. ASSUME NEW i \in 1..(n + 1) PROVE Boundary(s, at[i] + 1)
  <2>1. CASE i \in 1..n
    <3>1. PICK t : t = InBytes(r[i])
      OBVIOUS
    <3>2. t \in Seq(Symbols) /\ Len(t) \in Nat \ {0} /\ t[1] = " " /\ Stands(t, s, at[i])
      BY <1>1, <1>6, <2>1, <3>1
    <3>3. 1 \in 1..Len(t)
      <4>1. \A m \in Nat \ {0} : 1 \in 1..m
        OBVIOUS
      <4> QED BY <3>2, <4>1
    <3>4. s[at[i] + 1] = " "
      BY <3>2, <3>3 DEF Stands
    <3> QED BY <3>4 DEF Boundary
  <2>2. CASE i = n + 1
    <3>1. at[i] + 1 > Len(s)
      BY <1>6, <1>7, <2>2
    <3> QED BY <3>1 DEF Boundary
  <2> QED BY <2>1, <2>2
<1>11. ASSUME NEW i \in 1..n
       PROVE  f[at[i] + 1] = IF r[i].name = name THEN Bytes(r[i].text) ELSE f[at[i + 1] + 1]
  <2>1. PICK p \in Nat : p = at[i]
    BY <1>6, <1>9
  <2>2. PICK item \in Items : item = r[i] /\ Len(Bytes(item.text)) < Len(Numeral)
    BY <1>1
  <2>3. Stands(InBytes(item), s, p) /\ at[i + 1] = p + Len(InBytes(item))
    BY <1>6, <2>1, <2>2
  <2>4. Boundary(s, p + Len(InBytes(item)) + 1)
    <3>1. Boundary(s, at[i + 1] + 1)
      BY <1>9, <1>10
    <3> QED BY <2>3, <3>1
  <2>5. f[p + 1] = ScanFrom(s, name, p + 1, f)
    <3>0. Len(InBytes(item)) \in Nat \ {0}
      BY <1>1, <2>2
    <3>1. PICK m \in Nat : m = Len(InBytes(item)) /\ m > 0
      <4>1. \A m \in Nat \ {0} : m \in Nat /\ m > 0
        OBVIOUS
      <4> QED BY <3>0, <4>1
    <3>2. p + m <= Len(s)
      BY <2>3, <3>1 DEF Stands
    <3>3. p + 1 \in 1..(Len(s) + 1)
      BY <1>7, <3>1, <3>2
    <3> QED BY <1>8, <3>3
  <2>6. CASE item.name \in Sentinels
    <3>1. item.name # name
      BY <2>6 DEF Sentinels, Names
    <3>2. ScanFrom(s, name, p + 1, f) = f[p + Len(InBytes(item)) + 1]
      BY <2>3, <2>6, SentinelStep
    <3> QED BY <2>1, <2>2, <2>3, <2>5, <3>1, <3>2
  <2>7. CASE item.name \notin Sentinels
    <3>1. ScanFrom(s, name, p + 1, f) =
             IF item.name = name THEN Bytes(item.text) ELSE f[p + Len(InBytes(item)) + 1]
      BY <2>2, <2>3, <2>4, <2>7, FieldStep
    <3> QED BY <2>1, <2>2, <2>3, <2>5, <3>1
  <2> QED BY <2>6, <2>7
<1>12. f[at[n + 1] + 1] = Absent
  <2>1. PICK c \in Nat : c = Len(s) + 1
    BY <1>7
  <2>2. c \in 1..(Len(s) + 1) /\ c > Len(s)
    BY <1>7, <2>1
  <2>3. f[c] = ScanFrom(s, name, c, f)
    BY <1>8, <2>2
  <2>4. Find(s, c, "<") = 0
    BY <1>7, <2>2, FindStep
  <2>5. Boundary(s, c)
    BY <2>2 DEF Boundary
  <2>6. ScanFrom(s, name, c, f) = Absent
    BY <2>4, <2>5 DEF ScanFrom
  <2> QED BY <1>6, <2>1, <2>3, <2>6
<1>13. PICK names : names = [k \in DOMAIN r |-> r[k].name]
  OBVIOUS
<1>14. Len(names) = n /\ \A i \in 1..n : names[i] = r[i].name
  BY <1>0, <1>13
<1> DEFINE Value(i) == LET j == Find(names, i, name) IN IF j = 0 THEN Absent ELSE Bytes(r[j].text)
<1>15. ValueOf(r, name) = Value(1)
  BY <1>13 DEF ValueOf
<1>16. Value(n + 1) = Absent
  <2>1. Find(names, n + 1, name) = 0
    BY <1>14, FindStep
  <2> QED BY <2>1
<1>17. ASSUME NEW i \in 1..n
       PROVE  Value(i) = IF r[i].name = name THEN Bytes(r[i].text) ELSE Value(i + 1)
  <2>1. i \in Nat /\ i <= Len(names) /\ i # 0 /\ names[i] = r[i].name
    BY <1>14
  <2>2. Len(names) \in Nat
    BY <1>14
  <2>3. r[i].name = name => Find(names, i, name) = i
    BY <2>1, <2>2, FindStep
  <2>4. r[i].name # name => Find(names, i, name) = Find(names, i + 1, name)
    BY <2>1, <2>2, FindStep
  <2> QED BY <2>1, <2>3, <2>4
<1> HIDE DEF Value
<1> DEFINE T == {k \in Nat : k <= n => f[at[n + 1 - k] + 1] = Value(n + 1 - k)}
<1>18. 0 \in T
  <2>1. n + 1 - 0 = n + 1
    OBVIOUS
  <2> QED BY <1>12, <1>16, <2>1
<1>19. ASSUME NEW k \in Nat, k \in T PROVE k + 1 \in T
  <2>1. SUFFICES ASSUME k + 1 <= n
                 PROVE  f[at[n + 1 - (k + 1)] + 1] = Value(n + 1 - (k + 1))
    OBVIOUS
  <2>2. PICK i \in 1..n : i = n + 1 - (k + 1) /\ i + 1 = n + 1 - k
    <3>1. n + 1 - (k + 1) \in 1..n /\ (n + 1 - (k + 1)) + 1 = n + 1 - k
      BY <2>1
    <3> QED BY <3>1
  <2>3. f[at[i + 1] + 1] = Value(i + 1)
    BY <1>19, <2>1, <2>2
  <2> QED BY <1>11, <1>17, <2>2, <2>3
<1>20. n \in T
  <2> HIDE DEF T
  <2>1. Nat \subseteq T
    BY <1>18, <1>19, Induction
  <2> QED BY <2>1
<1>21. f[at[1] + 1] = Value(1)
  <2>1. n <= n /\ n + 1 - n = 1
    OBVIOUS
  <2> QED BY <1>20, <2>1
<1>22. at[1] + 1 = 1
  BY <1>6
<1> QED BY <1>4, <1>8, <1>15, <1>21, <1>22

-----------------------------------------------------------------------------
(* Theorems.                                                               *)

\* The listener hears a datagram or a record, or nothing.
Heard ==
    heard = Nothing \/ heard \in [kind : {"datagram"}, bytes : Datagrams]
                    \/ heard \in [kind : {"record"}, record : Records]

\* It always does.
LEMMA HeardAlways == SubmissionSpec => []Heard
<1>1. SubmissionInit => Heard
  BY DEF SubmissionInit, Heard
<1>2. Heard /\ [Submit \/ Listen]_submissionVars => Heard'
  BY DEF Heard, Submit, Listen, Hear, Handled, submissionVars
<1> QED BY <1>1, <1>2, PTL DEF SubmissionSpec

\* From a datagram, whatever its bytes, a contact is read exactly when it begins
\* with an encoding of one, and then that very text (wsjtx/protocol.rs,
\* parse_logged_adif).
THEOREM DecodesEncodingsAlways == SubmissionSpec => []DecodesEncodings
<1>1. Heard => DecodesEncodings
  <2> SUFFICES ASSUME Heard, heard.kind = "datagram" PROVE DecodesEncodings
    BY DEF DecodesEncodings
  <2>1. heard \in [kind : {"datagram"}, bytes : Datagrams]
    BY DEF Heard, Nothing
  <2>2. heard.bytes \in Seq(Byte)
    BY <2>1, DatagramsAssumption
  <2> QED BY <2>2, DatagramRead DEF DecodesEncodings
<1> QED BY <1>1, HeardAlways, PTL

\* In a record of any number of items, with values of any length and content,
\* the inspector finds each field, whole, and none that is not there
\* (wsjtx/protocol.rs, adif_field).
THEOREM FindsTheFieldAlways == SubmissionSpec => []FindsTheField
<1>1. Heard => FindsTheField
  <2> SUFFICES ASSUME Heard, heard.kind = "record", NEW name \in Names
               PROVE  AdifField(Written(heard.record), name) = ValueOf(heard.record, name)
    BY DEF FindsTheField
  <2>1. heard \in [kind : {"record"}, record : Records]
    BY DEF Heard, Nothing
  <2>2. heard.record \in Seq(Items)
        /\ \A i \in DOMAIN heard.record : Len(Bytes(heard.record[i].text)) < Len(Numeral)
    BY <2>1, RecordsAssumption
  <2> QED BY <2>2, FieldsRead
<1> QED BY <1>1, HeardAlways, PTL

\* The listener does not disturb the worker: the station of a contact is fresh
\* in the composition too.
THEOREM SubmissionFresh == SubmissionSpec => []StationFresh
<1>1. SubmissionInit => Init
  BY DEF SubmissionInit
<1>2. [Submit \/ Listen]_submissionVars => [Next]_vars
  BY DEF Submit, Listen, submissionVars
<1>3. SubmissionSpec => Spec
  BY <1>1, <1>2, PTL DEF SubmissionSpec, Spec
<1> QED BY <1>3, StationFreshAlways, PTL

=============================================================================
