----------------------------- MODULE RadioPush -----------------------------
(***************************************************************************)
(* From the rig's dial to Wavelog's radio panel, poller.rs.  The tick loop *)
(* (`run') polls the rig and publishes each snapshot on a watch channel,   *)
(* which keeps only the latest; the radio worker (`radio_worker') takes    *)
(* the latest, skips it when it matches the last one pushed within the     *)
(* heartbeat interval, and POSTs it with retries.                          *)
(*                                                                         *)
(* A poll reads frequency and mode one after the other, so that a turn of  *)
(* the dial between the two gives a snapshot the rig was never in.         *)
(* Wavelog is external: a POST that gets no usable answer may have been    *)
(* processed, or be processed later.  The tick's broadcast to WebSocket    *)
(* clients hands the same snapshot to a channel no one here reads back.    *)
(***************************************************************************)
EXTENDS Integers

CONSTANTS
    Freqs, Modes, \* what the rig may be set to (power is a part of Modes)
    MaxLost,      \* bound on the POSTs processed without a usable answer
    None

ASSUME PushAssumption == MaxLost \in Nat

State == [freq : Freqs, mode : Modes]

ASSUME PushNone == None \notin State \cup Freqs

VARIABLES
    shutdown,   \* the watch channel of the signal holds true
    rig,        \* external: the rig's setting
    tpc, read,  \* tick loop: where it is, the frequency its poll has read
    published,  \* the watch channel's snapshot
    seen,       \* the worker has seen it
    wpc, state, attempt,  \* worker: where it is, what it pushes, which try
    last, due,  \* Deduper: the last state pushed, its heartbeat window is over
    shown,      \* external: what Wavelog shows
    stray,      \* external: POSTs given up that Wavelog may still process
    lost        \* POSTs processed without a usable answer so far

tickVars    == <<tpc, read, published>>
workerVars  == <<wpc, state, attempt, last>>
wavelogVars == <<shown, stray, lost>>
vars == <<shutdown, rig, tickVars, seen, workerVars, due, wavelogVars>>

MaxAttempts == 3    \* the length of RETRY_SLEEPS

Init ==
    /\ shutdown = FALSE
    /\ rig \in State
    /\ tpc = "sleep" /\ read = None
    /\ published = None /\ seen = TRUE
    /\ wpc = "wait" /\ state = None /\ attempt = 1
    /\ last = None /\ due = FALSE
    /\ shown = None /\ stray = {} /\ lost = 0

-----------------------------------------------------------------------------
(* The tick loop.                                                          *)

\* The sleep is over: poll the rig, frequency first.
T_Freq ==
    /\ tpc = "sleep"
    /\ tpc' = "poll"
    /\ read' = rig.freq
    /\ UNCHANGED <<shutdown, rig, published, seen, workerVars, due, wavelogVars>>

\* Then the mode: the snapshot is published.
T_Mode ==
    /\ tpc = "poll"
    /\ tpc' = "sleep"
    /\ published' = [freq |-> read, mode |-> rig.mode]
    /\ seen' = FALSE
    /\ read' = None
    /\ UNCHANGED <<shutdown, rig, workerVars, due, wavelogVars>>

T_PollFails ==
    /\ tpc = "poll"
    /\ tpc' = "sleep" /\ read' = None
    /\ UNCHANGED <<shutdown, rig, published, seen, workerVars, due, wavelogVars>>

\* The signal is only seen between two polls.  (The mistake: it ends the sleep
\* under way, not the loop.)
T_StopOfTheSleep == tpc = "sleep" /\ shutdown /\ UNCHANGED vars

T_Stop ==
    /\ tpc = "sleep" /\ shutdown
    /\ tpc' = "join"    \* state_tx is dropped
    /\ UNCHANGED <<shutdown, rig, read, published, seen, workerVars, due, wavelogVars>>

T_Join ==
    /\ tpc = "join" /\ wpc = "done"
    /\ tpc' = "done"
    /\ UNCHANGED <<shutdown, rig, read, published, seen, workerVars, due, wavelogVars>>

-----------------------------------------------------------------------------
(* The radio worker.                                                       *)

\* should_skip.  (The mistake: an unchanged state is never pushed again.)
SkipUnchanged(s) == last = s
Skip(s)          == last = s /\ ~due

\* changed(): a snapshot the worker has not seen, also the last one before the
\* sender was dropped.
W_Take ==
    /\ wpc = "wait" /\ ~seen
    /\ seen' = TRUE
    /\ IF Skip(published) THEN UNCHANGED <<wpc, state>>
       ELSE wpc' = "push" /\ state' = published
    /\ UNCHANGED <<shutdown, rig, tickVars, attempt, last, due, wavelogVars>>

WorkerWaits == wpc' = "wait" /\ state' = None /\ attempt' = 1

\* A 2xx answer: Wavelog shows the state, record() notes it.
W_Pushed ==
    /\ wpc = "push"
    /\ shown' = state
    /\ last' = state /\ due' = FALSE
    /\ WorkerWaits
    /\ UNCHANGED <<shutdown, rig, tickVars, seen, stray, lost>>

\* What has become of a POST without a usable answer: it was never processed,
\* it was, or it is on its way.
Unanswered ==
    \/ UNCHANGED wavelogVars
    \/ /\ lost < MaxLost
       /\ lost' = lost + 1
       /\ \/ shown' = state /\ UNCHANGED stray
          \/ stray' = stray \cup {state} /\ UNCHANGED shown

\* (The mistakes: a push given up is recorded as well; a fourth try.)
W_FailedRecorded ==
    /\ wpc = "push"
    /\ Unanswered
    /\ \/ attempt < MaxAttempts /\ attempt' = attempt + 1 /\ UNCHANGED <<wpc, state, last, due>>
       \/ WorkerWaits /\ last' = state /\ due' = FALSE
    /\ UNCHANGED <<shutdown, rig, tickVars, seen>>

W_FailedOnceMore ==
    /\ wpc = "push"
    /\ Unanswered
    /\ \/ attempt <= MaxAttempts /\ attempt' = attempt + 1 /\ UNCHANGED <<wpc, state>>
       \/ WorkerWaits
    /\ UNCHANGED <<shutdown, rig, tickVars, seen, last, due>>

\* A transport error, a timeout or a 5xx is tried again, up to the last try; a
\* 4xx is not.  The deduper keeps what it had.
W_Failed ==
    /\ wpc = "push"
    /\ Unanswered
    /\ \/ attempt < MaxAttempts /\ attempt' = attempt + 1 /\ UNCHANGED <<wpc, state>>
       \/ WorkerWaits
    /\ UNCHANGED <<shutdown, rig, tickVars, seen, last, due>>

\* Shutdown, waiting or mid-push: the POST under way is abandoned.
W_Stop ==
    /\ shutdown /\ wpc \in {"wait", "push"}
    /\ IF wpc = "push" THEN Unanswered ELSE UNCHANGED wavelogVars
    /\ wpc' = "done" /\ state' = None /\ attempt' = 1
    /\ UNCHANGED <<shutdown, rig, tickVars, seen, last, due>>

\* The sender is gone and its last snapshot seen.
W_Closed ==
    /\ wpc = "wait" /\ seen /\ tpc = "join"
    /\ wpc' = "done"
    /\ UNCHANGED <<shutdown, rig, tickVars, seen, state, attempt, last, due, wavelogVars>>

-----------------------------------------------------------------------------
(* The environment: the operator's hand, time, the network.                *)
Turn ==
    /\ rig' \in State \ {rig}
    /\ UNCHANGED <<shutdown, tickVars, seen, workerVars, due, wavelogVars>>

\* HEARTBEAT_INTERVAL has passed since the last successful push was decided.
HeartbeatDue ==
    /\ last # None /\ ~due
    /\ due' = TRUE
    /\ UNCHANGED <<shutdown, rig, tickVars, seen, workerVars, wavelogVars>>

StrayArrives ==
    /\ \E s \in stray : shown' = s /\ stray' = stray \ {s}
    /\ UNCHANGED <<shutdown, rig, tickVars, seen, workerVars, due, lost>>

Signal ==
    /\ ~shutdown /\ shutdown' = TRUE
    /\ UNCHANGED <<rig, tickVars, seen, workerVars, due, wavelogVars>>

Tick   == T_Freq \/ T_Mode \/ T_PollFails \/ T_Stop \/ T_Join
Worker == W_Take \/ W_Pushed \/ W_Failed \/ W_Stop \/ W_Closed

Next == Tick \/ Worker \/ Turn \/ HeartbeatDue \/ StrayArrives \/ Signal

Spec == Init /\ [][Next]_vars

\* Both tasks are polled; every rig poll and every POST ends, by its timeout
\* at the latest; time passes.  The select! of the tick loop cannot miss the
\* signal for ever.
FairSpec ==
    /\ Spec
    /\ WF_vars(Tick) /\ SF_vars(T_Stop)
    /\ WF_vars(Worker)
    /\ WF_vars(HeartbeatDue)

-----------------------------------------------------------------------------
(* Properties.                                                             *)

TypeOK ==
    /\ shutdown \in BOOLEAN
    /\ rig \in State
    /\ tpc \in {"sleep", "poll", "join", "done"}
    /\ read \in Freqs \cup {None}
    /\ published \in State \cup {None} /\ seen \in BOOLEAN
    /\ wpc \in {"wait", "push", "done"}
    /\ state \in State \cup {None} /\ attempt \in 1..MaxAttempts
    /\ last \in State \cup {None} /\ due \in BOOLEAN
    /\ shown \in State \cup {None} /\ stray \subseteq State
    /\ lost \in 0..MaxLost

\* "Updates only on success so a transient outage during a QSY doesn't swallow
\* the QSY" (poller.rs:183-184): a snapshot the worker is about to skip is what
\* Wavelog shows.
SkippedIsShown ==
    wpc = "wait" /\ ~seen /\ Skip(published) => shown = published

\* That comment holds up to the first POST that is processed without its answer
\* arriving, through failures, retries, torn polls and POSTs given up.
ShownUnlessLost == lost = 0 => SkippedIsShown

\* The rig and Wavelog answer again and again.
Served == SF_vars(T_Mode) /\ SF_vars(W_Pushed)

\* Whatever was lost, torn or answered late: once the rig stays at a setting, a
\* served daemon gets Wavelog to show it and to go on showing it, as long as it
\* runs.  It is the heartbeat that repairs what the deduper cannot know.
Converges ==
    Served /\ [](~shutdown) => \A s \in State : <>[](rig = s) => <>[](shown = s)

\* A signal ends both tasks, during a poll or a POST too.
ShutdownEnds == shutdown ~> tpc = "done"

=============================================================================
