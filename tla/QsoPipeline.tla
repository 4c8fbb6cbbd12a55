---------------------------- MODULE QsoPipeline ----------------------------
(***************************************************************************)
(* From a WSJT-X datagram to Wavelog's log, wsjtx/mod.rs: the UDP listener *)
(* (`listen') persists each ADIF record in the spool (QsoSpool) and hands  *)
(* it over a bounded channel to the POST worker (`post_loop'), which       *)
(* resolves the station, submits the record with retries and removes it    *)
(* from the spool once Wavelog has answered.  At startup the entries left  *)
(* in the spool are replayed through the same channel.                     *)
(*                                                                         *)
(* The two tasks interleave at every await.  A signal asks both to stop;   *)
(* the process may also be killed, or the machine lose power, at any step. *)
(* Wavelog is external: a request may be lost, answered, processed without *)
(* its answer arriving, or processed long after the program gave it up.    *)
(***************************************************************************)
EXTENDS QsoSpool

CONSTANTS
    QueueCapacity, \* QUEUE_CAPACITY of the channel (32 in the program)
    Unsliceable,   \* the records that make summarize_adif panic (WsjtxProtocol)
    None           \* no item

ASSUME CapacityAssumption == QueueCapacity \in Nat \ {0}
ASSUME UnsliceableAssumption == Unsliceable \subseteq Qsos
ASSUME NoneAssumption == None \notin Entry \cup Qsos

VARIABLES
    shutdown,   \* the watch channel holds true
    lpc, replay, hand,   \* listener: where it is, entries to replay, record held
    chan,       \* the mpsc channel
    wpc, cur, attempt,   \* worker: where it is, its item, its request's number
    stray,      \* external: requests Wavelog may still process
    logged,     \* external: records in Wavelog's log
    refused,    \* external: records Wavelog does not accept
    accepted,   \* history: records whose append returned Ok
    evicted,    \* history: records evicted at the cap
    answered,   \* history: entries the worker got a definite answer for
    parked      \* history: entries left on disk for the next start

listenerVars == <<lpc, replay, hand>>
workerVars   == <<wpc, cur, attempt>>
wavelogVars  == <<stray, logged, refused>>
historyVars  == <<accepted, evicted, answered, parked>>
pipeVars == <<vars, shutdown, listenerVars, chan, workerVars, wavelogVars, historyVars>>

MaxAttempts == 3    \* the length of RETRY_SLEEPS

PipeInit ==
    /\ Init
    /\ shutdown = FALSE
    /\ lpc = "off" /\ replay = <<>> /\ hand = None
    /\ chan = <<>>
    /\ wpc = "off" /\ cur = None /\ attempt = 1
    /\ stray = {} /\ logged = {} /\ refused = {}
    /\ accepted = {} /\ evicted = {} /\ answered = {} /\ parked = {}

\* Where the tasks are when no process runs.
TasksOff ==
    /\ shutdown' = FALSE
    /\ lpc' = "off" /\ replay' = <<>> /\ hand' = None
    /\ chan' = <<>>
    /\ wpc' = "off" /\ cur' = None /\ attempt' = 1
    /\ parked' = {}

-----------------------------------------------------------------------------
(* Startup: once the queue is open, spawn both tasks with its entries.     *)
\* (The mistake: leftover entries are not replayed.)
SpawnAfresh ==
    /\ lpc' = "loop" /\ replay' = <<>> /\ hand' = None
    /\ wpc' = "recv"
    /\ UNCHANGED <<shutdown, chan, cur, attempt, wavelogVars, historyVars>>

Spawn ==
    /\ lpc' = "loop" /\ replay' = entries' /\ hand' = None
    /\ wpc' = "recv"
    /\ UNCHANGED <<shutdown, chan, cur, attempt, wavelogVars, historyVars>>

Boot ==
    /\ OpenStep
    /\ IF opened' THEN Spawn
       ELSE UNCHANGED <<shutdown, listenerVars, chan, workerVars, wavelogVars, historyVars>>
    /\ UNCHANGED unsent

\* What has become of a request that gets no usable answer: lost, processed,
\* or on its way.
Unanswered(q) ==
    /\ \/ UNCHANGED <<logged, stray>>
       \/ q \notin refused /\ logged' = logged \cup {q} /\ UNCHANGED stray
       \/ stray' = stray \cup {q} /\ UNCHANGED logged
    /\ UNCHANGED refused

-----------------------------------------------------------------------------
(* The listener.                                                           *)

\* The channel has a free slot.  (The mistake: one more than its capacity.)
HasRoomByOne == Len(chan) <= QueueCapacity
HasRoom      == Len(chan) < QueueCapacity

\* The listener has primed the worker and waits for datagrams.  (The mistake:
\* datagrams are served while replaying.)
Serving == lpc = "loop"
Primed  == lpc = "loop" /\ replay = <<>>

\* send().await of a replayed entry: waits for room, fails once the worker
\* has dropped its receiver.
L_Replay ==
    /\ lpc = "loop" /\ replay # <<>>
    /\ wpc # "done"
    /\ HasRoom
    /\ chan' = Append(chan, Head(replay))
    /\ replay' = Tail(replay)
    /\ UNCHANGED <<vars, shutdown, lpc, hand, workerVars, wavelogVars, historyVars>>

L_ReplayClosed ==
    /\ lpc = "loop" /\ replay # <<>>
    /\ wpc = "done"
    /\ lpc' = "done" /\ replay' = <<>>
    /\ UNCHANGED <<vars, shutdown, hand, chan, workerVars, wavelogVars, historyVars>>

\* The process is gone: the request under way, if any, is lost or still on its
\* way.
RequestCut ==
    /\ \/ UNCHANGED stray
       \/ wpc = "post" /\ stray' = stray \cup {cur.adif}
    /\ UNCHANGED <<logged, refused>>

\* A panic aborts the process (Cargo.toml, panic = "abort").
Abort ==
    /\ Stop
    /\ TasksOff
    /\ RequestCut
    /\ UNCHANGED <<disk, past, faults, accepted, evicted, answered>>

\* A LoggedADIF datagram, summarised for the log before it is persisted.
L_Recv(q) ==
    /\ Primed
    /\ q \in unsent
    /\ unsent' = unsent \ {q}
    /\ IF q \in Unsliceable THEN Abort
       ELSE /\ hand' = q
            /\ lpc' = "append"
            /\ UNCHANGED <<spoolVars, shutdown, replay, chan, workerVars, wavelogVars, historyVars>>

\* The mutex is free: append begins.
L_Append ==
    /\ lpc = "append"
    /\ BeginAppend(hand)
    /\ lpc' = "appending"
    /\ evicted' = evicted \cup {e.adif : e \in ToSet(entries) \ ToSet(entries')}
    /\ UNCHANGED <<unsent, shutdown, replay, hand, chan, workerVars, wavelogVars,
                   accepted, answered, parked>>

\* try_send of the appended entry: it had the last seq given out.
L_Send ==
    LET item == [seq |-> nextSeq - 1, adif |-> hand]
    IN  /\ lpc = "send"
        /\ lpc' = IF wpc = "done" THEN "done" ELSE "loop"
        /\ hand' = None
        /\ IF wpc # "done" /\ HasRoom
             THEN chan' = Append(chan, item) /\ UNCHANGED parked
             ELSE parked' = parked \cup {item} /\ UNCHANGED chan
        /\ UNCHANGED <<vars, shutdown, replay, workerVars, wavelogVars,
                       accepted, evicted, answered>>

\* Two plausible mistakes: the signal cancels an append that waits for the
\* mutex; it ends the wait or the replay under way, not the task.
L_StopOfTheAppend ==
    /\ shutdown
    /\ lpc \in {"loop", "append"}
    /\ lpc' = "done" /\ replay' = <<>>
    /\ UNCHANGED <<vars, shutdown, hand, chan, workerVars, wavelogVars, historyVars>>

L_StopOfTheWait ==
    /\ shutdown
    /\ lpc = "loop"
    /\ replay' = <<>>
    /\ UNCHANGED <<vars, shutdown, lpc, hand, chan, workerVars, wavelogVars, historyVars>>

\* Shutdown is observed between two datagrams or two replayed entries.
L_Stop ==
    /\ shutdown
    /\ lpc = "loop"
    /\ lpc' = "done" /\ replay' = <<>>
    /\ UNCHANGED <<vars, shutdown, hand, chan, workerVars, wavelogVars, historyVars>>

-----------------------------------------------------------------------------
(* The worker.                                                             *)
WorkerIdle == cur' = None /\ attempt' = 1

W_Recv ==
    /\ wpc = "recv" /\ chan # <<>>
    /\ cur' = Head(chan)
    /\ chan' = Tail(chan)
    /\ wpc' = "resolve"
    /\ UNCHANGED <<vars, shutdown, listenerVars, attempt, wavelogVars, historyVars>>

\* The listener has dropped its sender and the channel is empty.
W_Closed ==
    /\ wpc = "recv" /\ chan = <<>> /\ lpc = "done"
    /\ wpc' = "done"
    /\ UNCHANGED <<vars, shutdown, listenerVars, chan, cur, attempt, wavelogVars, historyVars>>

\* station.resolve(): the station is known, or its lookup fails after its own
\* retries and the entry stays on disk.
W_Resolved ==
    /\ wpc = "resolve"
    /\ wpc' = "post"
    /\ UNCHANGED <<vars, shutdown, listenerVars, chan, cur, attempt, wavelogVars, historyVars>>

W_Unresolved ==
    /\ wpc = "resolve"
    /\ wpc' = "recv" /\ WorkerIdle
    /\ parked' = parked \cup {cur}
    /\ UNCHANGED <<vars, shutdown, listenerVars, chan, wavelogVars, accepted, evicted, answered>>

\* Status "created", or a definite no: a duplicate, or a record not accepted.
W_Answer ==
    /\ wpc = "post"
    /\ \/ /\ cur.adif \notin logged \cup refused
          /\ logged' = logged \cup {cur.adif}
          /\ UNCHANGED refused
       \/ /\ refused' = IF cur.adif \in logged THEN refused ELSE refused \cup {cur.adif}
          /\ UNCHANGED logged
    /\ answered' = answered \cup {cur}
    /\ wpc' = "settle"
    /\ UNCHANGED <<vars, shutdown, listenerVars, chan, cur, attempt, stray, accepted, evicted, parked>>

\* Two plausible mistakes: an entry given up is removed from the spool; the
\* retries never end.
W_FailRemoving ==
    /\ wpc = "post"
    /\ Unanswered(cur.adif)
    /\ IF attempt < MaxAttempts
         THEN attempt' = attempt + 1 /\ UNCHANGED wpc
         ELSE wpc' = "settle" /\ UNCHANGED attempt
    /\ UNCHANGED <<vars, shutdown, listenerVars, chan, cur, historyVars>>

W_FailForever ==
    /\ wpc = "post"
    /\ Unanswered(cur.adif)
    /\ attempt' = IF attempt < MaxAttempts THEN attempt + 1 ELSE 1
    /\ UNCHANGED <<vars, shutdown, listenerVars, chan, wpc, cur, historyVars>>

\* A transport error, a timeout or a 5xx: retried, given up after the last.
\* A 4xx or an unreadable body is not retried.
W_Fail ==
    /\ wpc = "post"
    /\ Unanswered(cur.adif)
    /\ \/ /\ attempt < MaxAttempts
          /\ attempt' = attempt + 1
          /\ UNCHANGED <<wpc, cur, parked>>
       \/ /\ wpc' = "recv" /\ WorkerIdle
          /\ parked' = parked \cup {cur}
    /\ UNCHANGED <<vars, shutdown, listenerVars, chan, accepted, evicted, answered>>

\* remove_persisted: the entry may have been evicted meanwhile.
W_Remove ==
    /\ wpc = "settle"
    /\ BeginRemove(cur.seq)
    /\ wpc' = "removing"
    /\ UNCHANGED <<unsent, shutdown, listenerVars, chan, cur, attempt, wavelogVars, historyVars>>

W_NoEntry ==
    /\ wpc = "settle"
    /\ op = Idle
    /\ \A e \in ToSet(entries) : e.seq # cur.seq
    /\ wpc' = "recv" /\ WorkerIdle
    /\ UNCHANGED <<vars, shutdown, listenerVars, chan, wavelogVars, historyVars>>

\* Where the worker's select! watches for shutdown: waiting, looking up the
\* station, posting.  (The mistake: it also cancels the removal.)
CancellableWithRemoval == {"recv", "resolve", "post", "settle"}
Cancellable            == {"recv", "resolve", "post"}

\* Shutdown cancels the lookup and the request, never the removal.
W_Stop ==
    /\ shutdown
    /\ wpc \in Cancellable
    /\ IF wpc = "post" THEN Unanswered(cur.adif) ELSE UNCHANGED wavelogVars
    /\ wpc' = "done" /\ WorkerIdle
    /\ chan' = <<>>
    /\ UNCHANGED <<vars, shutdown, listenerVars, historyVars>>

-----------------------------------------------------------------------------
(* The spool's own steps; the caller goes on when its call returns.        *)
Returned(ok) ==
    CASE op.call = "open" ->
             IF ok THEN Spawn ELSE TasksOff /\ UNCHANGED <<wavelogVars, accepted, evicted, answered>>
      [] op.call = "append" ->
             /\ lpc' = IF ok THEN "send" ELSE "loop"
             /\ hand' = IF ok THEN hand ELSE None
             /\ accepted' = IF ok THEN accepted \cup {hand} ELSE accepted
             /\ UNCHANGED <<shutdown, replay, chan, workerVars, wavelogVars,
                            evicted, answered, parked>>
      [] op.call = "remove" ->
             /\ wpc' = "recv" /\ WorkerIdle
             /\ UNCHANGED <<shutdown, listenerVars, chan, wavelogVars, historyVars>>

SpoolWrite ==
    /\ WriteStep
    /\ IF op' = Idle THEN Returned(TRUE)
       ELSE UNCHANGED <<shutdown, listenerVars, chan, workerVars, wavelogVars, historyVars>>
    /\ UNCHANGED unsent

SpoolError == IoError /\ Returned(FALSE) /\ UNCHANGED unsent

\* A failure the spool does not see is none its caller sees.
SpoolLoss ==
    /\ LostWrite
    /\ UNCHANGED <<unsent, shutdown, listenerVars, chan, workerVars, wavelogVars, historyVars>>

-----------------------------------------------------------------------------
(* The environment: Wavelog, the operator, the machine.                    *)
StrayArrives ==
    /\ \E q \in stray :
          /\ stray' = stray \ {q}
          /\ logged' = IF q \in refused THEN logged ELSE logged \cup {q}
    /\ UNCHANGED <<vars, shutdown, listenerVars, chan, workerVars, refused, historyVars>>

Signal ==
    /\ opened /\ ~shutdown
    /\ shutdown' = TRUE
    /\ UNCHANGED <<vars, listenerVars, chan, workerVars, wavelogVars, historyVars>>

\* main joins both tasks, the last handles of the queue are dropped.
Exit ==
    /\ shutdown /\ lpc = "done" /\ wpc = "done"
    /\ Close
    /\ TasksOff
    /\ UNCHANGED <<unsent, wavelogVars, accepted, evicted, answered>>

PipeCrash ==
    /\ Crash
    /\ TasksOff
    /\ RequestCut
    /\ UNCHANGED <<unsent, accepted, evicted, answered>>

Listener == L_Replay \/ L_ReplayClosed \/ L_Append \/ L_Send \/ L_Stop
Worker   == W_Recv \/ W_Closed \/ W_Resolved \/ W_Unresolved \/ W_Answer \/ W_Fail
            \/ W_Remove \/ W_NoEntry \/ W_Stop

PipeNext ==
    \/ Boot \/ Exit
    \/ \E q \in Qsos : L_Recv(q)
    \/ Listener
    \/ Worker
    \/ SpoolWrite \/ SpoolError \/ SpoolLoss
    \/ StrayArrives \/ Signal \/ PipeCrash

PipeSpec == PipeInit /\ [][PipeNext]_pipeVars

\* The runtime polls every ready task and the kernel completes every call.
\* Nothing obliges WSJT-X to send, a signal to come or a stray to arrive.
Progress ==
    /\ WF_pipeVars(Boot)
    /\ WF_pipeVars(SpoolWrite)
    /\ WF_pipeVars(Listener)
    /\ WF_pipeVars(Worker)
    /\ WF_pipeVars(Exit)

FairSpec == PipeSpec /\ Progress

-----------------------------------------------------------------------------
(* Properties.                                                             *)

Items == Entry \cup {None}

\* The tasks' variables have their types.
PipeTypeOK ==
    /\ TypeOK
    /\ shutdown \in BOOLEAN
    /\ lpc \in {"off", "loop", "append", "appending", "send", "done"}
    /\ wpc \in {"off", "recv", "resolve", "post", "settle", "removing", "done"}
    /\ replay \in Seq(Entry) /\ chan \in Seq(Entry)
    /\ hand \in Qsos \cup {None} /\ cur \in Items
    /\ attempt \in 1..MaxAttempts
    /\ Len(chan) <= QueueCapacity

\* The entries on their way to Wavelog, in the order they will be submitted.
Pipe == (IF cur = None THEN <<>> ELSE <<cur>>)
        \o chan
        \o (IF lpc = "send" THEN <<[seq |-> nextSeq - 1, adif |-> hand]>> ELSE <<>>)
        \o replay

\* QSOs on their way are submitted in the order WSJT-X logged them and none is
\* queued twice: what is in the worker's hands, in the channel and still to be
\* replayed is strictly ascending in seq.  (What is left on disk is submitted
\* after the next start, later than QSOs logged after it.)
InOrder ==
    \A i, j \in DOMAIN Pipe : i < j => Pipe[i].seq < Pipe[j].seq

\* A removal takes the entry it was meant for: whatever was evicted, truncated,
\* set aside or replayed, an item and an entry of the same seq are the same QSO.
OwnEntry ==
    opened => \A item \in ToSet(Pipe), e \in ToSet(entries) : item.seq = e.seq => item = e

\* The records that can be read from f.
Saved(f) ==
    LET b == Body(f)
    IN  {b[i][1].entry.adif : i \in {j \in DOMAIN b : Good(b[j])}}

\* What damage has come to: records of damaged entries and of those set aside.
Spoilt == {e.adif : e \in damaged \cup aside}

\* Every QSO whose append succeeded is in Wavelog's log, or was refused by
\* Wavelog, or was evicted at the cap, or can be read from the disk whatever
\* happens next, a power failure included.  Spoilt are its records that a glued
\* line, an unseen write failure or a file set aside has cost, exposed the ones
\* acknowledged before the file's name was on the disk.
EveryQsoAccountedFor ==
    \A q \in accepted \ (Spoilt \cup {e.adif : e \in exposed}) :
        q \in logged \cup refused \cup evicted \/ \A f \in Found : q \in Saved(f)

\* No record received is dropped, whenever a signal comes: until its append
\* returns it is in the listener's hands.  "Persist before handoff so a crash
\* between accept and POST doesn't lose the QSO" (wsjtx/mod.rs:157).
ReceivedIsKept ==
    crashes = 0 /\ ioErrors = 0 => Qsos \ unsent \subseteq accepted \cup {hand}

\* While the daemon runs every entry of the queue is on its way to Wavelog or
\* was knowingly left on disk for the next start (POST failed, channel full),
\* or is the one being appended: none is forgotten, unless a system call
\* failed.
NoOrphan ==
    opened /\ ~shutdown /\ ioErrors = 0 =>
        \A e \in ToSet(entries) :
            e \in ToSet(Pipe) \cup parked \/ (lpc = "appending" /\ e = Last(entries))

\* A graceful shutdown and restart never submits again what Wavelog has
\* answered: the removal is not cancelled.  Only a crash or a failed removal
\* can bring an answered entry back.
AnsweredOnce ==
    crashes = 0 /\ ioErrors = 0 =>
        /\ answered \cap (ToSet(chan) \cup ToSet(replay)) = {}
        /\ wpc \in {"resolve", "post"} => cur \notin answered

\* The two tasks, the spool and its crashes implement delivery at least once:
\* what the disk holds of the records accepted, it gives up only for those
\* Wavelog has answered, those evicted and those spoilt, and nothing is spoilt
\* before a first crash or failed call.
Delivery == INSTANCE QsoDelivery WITH
    received <- Qsos \ unsent,
    held     <- accepted \cap Saved(file),
    spoilt   <- Spoilt,
    faulty   <- crashes + ioErrors > 0
Delivers == Delivery!Spec

\* A QSO on its way gets out of the pipe: submitted, left on disk, or the
\* process ends.  The listener never blocks for good on a full channel, nor
\* the two tasks on the spool's mutex.
PipeDrains ==
    \A q \in Qsos : (\E e \in ToSet(Pipe) : e.adif = q) ~> (\A e \in ToSet(Pipe) : e.adif # q)

\* A signal ends the process, whatever the tasks are doing.
ShutdownEnds == shutdown ~> ~opened

\* The daemon is restarted again and again, is not always stopped before the
\* tasks get anywhere, and a record submitted again and again is answered some
\* time.
RestartedAndAnswered ==
    /\ WF_pipeVars(Signal)
    /\ SF_pipeVars(L_Replay)
    /\ SF_pipeVars(W_Recv)
    /\ \A q \in Qsos : /\ SF_pipeVars(W_Resolved /\ cur.adif = q)
                       /\ SF_pipeVars(W_Answer /\ cur.adif = q)

\* Under restarts and a Wavelog that answers some time, a QSO persisted is
\* answered, or was evicted at the cap, or was spoilt on disk.
AnsweredInTheEnd(q) ==
    RestartedAndAnswered =>
        (q \in accepted ~> q \in {e.adif : e \in answered} \cup evicted \cup Spoilt)

=============================================================================
