-------------------------- MODULE RadioPushProofs --------------------------
(***************************************************************************)
(* Proofs about RadioPush: its type invariant, and that a skipped snapshot *)
(* is shown by Wavelog until a POST is processed without its answer.       *)
(***************************************************************************)
EXTENDS RadioPush, TLAPS

\* A poll under way has read a frequency, what the worker has not seen yet is
\* a snapshot, and so is what it pushes.
Shape ==
    /\ tpc = "poll" => read # None
    /\ ~seen => published # None
    /\ wpc = "push" => state # None

Typed == TypeOK /\ Shape

\* As long as nothing was lost, what the deduper holds is what Wavelog shows,
\* and nothing is on its way.
Agrees ==
    lost = 0 => /\ stray = {}
                /\ last # None => shown = last

\* Both hold at the start.
LEMMA InitTyped == Init => Typed /\ Agrees
<1> SUFFICES ASSUME Init PROVE Typed /\ Agrees
  OBVIOUS
<1> USE DEF Init
<1>1. attempt \in 1..MaxAttempts /\ lost \in 0..MaxLost
  BY PushAssumption DEF MaxAttempts
<1>2. stray \subseteq State
  OBVIOUS
<1>3. TypeOK
  BY <1>1, <1>2 DEF TypeOK
<1>4. Shape /\ Agrees
  BY DEF Shape, Agrees
<1> QED BY <1>3, <1>4 DEF Typed

\* The steps of the tick loop leave the worker, the deduper and Wavelog alone.
LEMMA TickKeeps ==
    ASSUME Typed, Tick
    PROVE  Typed' /\ (Agrees => Agrees')
<1> USE DEF Typed, TypeOK, Shape, Agrees, workerVars, wavelogVars
<1>1. CASE T_Freq
  <2>1. rig.freq \in Freqs /\ rig.freq # None
    BY PushNone DEF State
  <2> QED BY <1>1, <2>1 DEF T_Freq
<1>2. CASE T_Mode
  <2>1. published' \in State
    BY <1>2 DEF T_Mode, State
  <2>2. published' # None
    BY <2>1, PushNone
  <2> QED BY <1>2, <2>1, <2>2 DEF T_Mode
<1>3. CASE T_PollFails
  BY <1>3 DEF T_PollFails
<1>4. CASE T_Stop
  BY <1>4 DEF T_Stop
<1>5. CASE T_Join
  BY <1>5 DEF T_Join
<1> QED BY <1>1, <1>2, <1>3, <1>4, <1>5 DEF Tick

\* What an unanswered POST does to Wavelog.
LEMMA UnansweredKeeps ==
    ASSUME Typed, state # None, Unanswered
    PROVE  /\ shown' \in State \cup {None} /\ stray' \subseteq State
           /\ lost' \in 0..MaxLost
           /\ lost' = 0 => UNCHANGED wavelogVars
<1> USE DEF Typed, TypeOK, Unanswered, wavelogVars
<1>1. state \in State
  OBVIOUS
<1>2. shown' \in State \cup {None} /\ stray' \subseteq State
  BY <1>1
<1>3. lost' \in 0..MaxLost
  BY PushAssumption
<1>4. lost' = 0 => UNCHANGED wavelogVars
  BY lost \in 0..MaxLost, PushAssumption
<1> QED BY <1>2, <1>3, <1>4

\* The steps of the worker.  Only those of an unanswered POST may part the
\* deduper from Wavelog.
LEMMA WorkerKeeps ==
    ASSUME Typed, Worker
    PROVE  Typed' /\ (Agrees => Agrees')
<1> USE DEF Typed, TypeOK, Shape, tickVars
<1>1. CASE W_Take
  BY <1>1 DEF W_Take, Agrees, wavelogVars
<1>2. CASE W_Pushed
  <2>1. TypeOK'
    <3>1. attempt' \in 1..MaxAttempts
      BY <1>2 DEF W_Pushed, WorkerWaits, MaxAttempts
    <3> QED BY <1>2, <3>1 DEF W_Pushed, WorkerWaits
  <2>2. Shape'
    BY <1>2 DEF W_Pushed, WorkerWaits
  <2>3. Agrees => Agrees'
    BY <1>2 DEF W_Pushed, Agrees
  <2> QED BY <2>1, <2>2, <2>3
<1>3. CASE W_Failed
  <2>1. state # None /\ Unanswered
    BY <1>3 DEF W_Failed
  <2>2. /\ wpc' \in {"wait", "push"}
        /\ state' \in State \cup {None}
        /\ attempt' \in 1..MaxAttempts
        /\ wpc' = "push" => state' # None
    BY <1>3 DEF W_Failed, WorkerWaits, MaxAttempts
  <2>3. UNCHANGED <<shutdown, rig, tickVars, seen, last, due>>
    BY <1>3 DEF W_Failed
  <2>4. Typed'
    BY <2>1, <2>2, <2>3, UnansweredKeeps
  <2>5. Agrees => Agrees'
    BY <2>1, <2>3, UnansweredKeeps DEF Agrees, wavelogVars
  <2> QED BY <2>4, <2>5
<1>4. CASE W_Stop
  <2>1. /\ shown' \in State \cup {None} /\ stray' \subseteq State
        /\ lost' \in 0..MaxLost
        /\ lost' = 0 => UNCHANGED wavelogVars
    BY <1>4, UnansweredKeeps DEF W_Stop, wavelogVars
  <2>2. Typed'
    BY <1>4, <2>1 DEF W_Stop, MaxAttempts
  <2>3. Agrees => Agrees'
    BY <1>4, <2>1 DEF W_Stop, Agrees, wavelogVars
  <2> QED BY <2>2, <2>3
<1>5. CASE W_Closed
  BY <1>5 DEF W_Closed, Agrees, wavelogVars
<1> QED BY <1>1, <1>2, <1>3, <1>4, <1>5 DEF Worker

\* Every step keeps the types, and the agreement that only a loss ends.
LEMMA NextKeeps ==
    ASSUME Typed, [Next]_vars
    PROVE  Typed' /\ (Agrees => Agrees')
<1>1. CASE Tick
  BY <1>1, TickKeeps
<1>2. CASE Worker
  BY <1>2, WorkerKeeps
<1> USE DEF Typed, TypeOK, Shape, Agrees, tickVars, workerVars, wavelogVars
<1>3. CASE Turn
  BY <1>3 DEF Turn
<1>4. CASE HeartbeatDue
  BY <1>4 DEF HeartbeatDue
<1>5. CASE StrayArrives
  BY <1>5 DEF StrayArrives
<1>6. CASE Signal
  BY <1>6 DEF Signal
<1>7. CASE UNCHANGED vars
  BY <1>7 DEF vars
<1> QED BY <1>1, <1>2, <1>3, <1>4, <1>5, <1>6, <1>7 DEF Next

\* Every variable of the tick loop, the worker and the deduper keeps its type:
\* in particular no POST is tried more often than RETRY_SLEEPS has delays.
THEOREM RadioTypeCorrect == Spec => []TypeOK
<1>1. Init => Typed
  BY InitTyped
<1>2. Typed /\ [Next]_vars => Typed'
  BY NextKeeps
<1>3. Typed => TypeOK
  BY DEF Typed
<1> QED BY <1>1, <1>2, <1>3, PTL DEF Spec

\* Until a POST is processed without its answer arriving, should_skip only skips
\* a snapshot that Wavelog shows, whatever fails, is retried or given up.
THEOREM ShownUnlessLostAlways == Spec => []ShownUnlessLost
<1> DEFINE Inv == Typed /\ Agrees
<1>1. Init => Inv
  BY InitTyped
<1>2. Inv /\ [Next]_vars => Inv'
  BY NextKeeps
<1>3. Inv => ShownUnlessLost
  BY DEF Typed, Shape, Agrees, ShownUnlessLost, SkippedIsShown, Skip
<1> QED BY <1>1, <1>2, <1>3, PTL DEF Spec

=============================================================================
