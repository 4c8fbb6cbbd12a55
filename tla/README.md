# A TLA+ model of wavelog-relay

`wavelog-relay` is a daemon that sits between an amateur radio station and the
Wavelog logging service.  It polls the rig through `rigctld` and pushes its
state to Wavelog, forwards the contacts (QSOs) that WSJT-X logs, broadcasts the
rig's state to WebSocket clients and tunes the rig on request of Wavelog's web
pages.  This directory models it in TLA+: TLC checks the model on small
instances, and the TLA+ proof system proves every safety property that the code
keeps, for every instance.  Line numbers refer to the files under `src/src/`.

## 1. The system

| component | source | state | operations | talks to |
|---|---|---|---|---|
| QSO spool | `qso_queue.rs` | the JSONL file, the entries in memory, `next_seq`, the lock | `open`, `append`, `remove` (both rewrite through `rewrite_to`) | file system |
| WSJT-X listener | `wsjtx/mod.rs` `listen` | entries to replay, the record in hand | replay, receive, append, `try_send`, stop | UDP, spool, worker (mpsc channel) |
| POST worker | `wsjtx/mod.rs` `post_loop` | the item in hand | resolve the station, submit, remove, stop | listener, Wavelog, spool |
| Wavelog client | `wavelog/client.rs` | none | `push_qso`, `push_radio`, `list_stations`, `find_active_station`, all through `with_retries` | Wavelog (HTTP) |
| station cache | `wavelog/station.rs` | the cached station and its age | `resolve` | Wavelog client |
| rigctld actor | `rigctld.rs` | connection, backoff index, health | connect, serve one command at a time, back off | rigctld (TCP), its callers (mpsc and oneshot) |
| tick loop | `poller.rs` `run` | published snapshot | poll, broadcast, publish, stop, join | rigctld actor, WebSocket handle, radio worker (watch) |
| radio worker | `poller.rs` `radio_worker` | the deduper | take the latest snapshot, skip or push, record | Wavelog client |
| WebSocket server | `ws.rs` | one broadcast receiver per client | upgrade, forward frames, drop on lag | browsers |
| click-to-tune | `listener.rs` | none | `GET /{freq}/{mode}` | rigctld actor |
| protocol parser | `wsjtx/protocol.rs` | a cursor | parse a datagram, summarise an ADIF record | |
| socket set-up | `wsjtx/bind.rs` | none | bind, join a multicast group | |
| modes | `modes.rs` | none | Wavelog mode to Hamlib mode, with overrides | |
| configuration | `config.rs` | none | merge command line, environment and file | |
| daemon | `main.rs`, `util.rs` | the shutdown watch | start everything, wait for a signal, join everything | all |

What is hard, and what makes each part correct:

* **Spool.**  A crash, a power failure or an error may come between any two
  system calls.  What `append` acknowledged must still be there, numbers must
  not be given twice, memory and file must agree, the cap must hold.
* **Listener and worker.**  Two tasks share a bounded channel and a mutex and
  may be stopped at every await.  No QSO may be forgotten, overtaken, queued
  twice or removed in place of another; an answered one must not be submitted
  again by a graceful restart; nothing may block for ever.
* **rigctld actor.**  The line protocol has no tags, so one line too many or too
  few shifts every later answer.  Every caller must be answered, whatever
  rigctld does; the health must mean something.
* **Tick loop and radio worker.**  Wavelog must end up showing what the rig is
  set to, though polls tear, pushes fail, answers get lost and requests arrive
  late.
* **Station cache.**  The operator switches stations while a lookup, its retries
  and the retries of a submission go on: no contact may go to a station left
  long ago, and in the end all go to the new one.
* **WebSocket server.**  A page may stop reading at any time.  It must neither be
  shown a gap nor hold up the others, the poller or the shutdown.
* **Click-to-tune.**  Two exchanges set a frequency and a mode; either may be
  refused, get lost or be carried out late.  Success must mean both.
* **Parser.**  Lengths come from outside, signed, and counted in bytes or
  characters: no contact may be hidden, made up or read in part.
* **Configuration.**  Four layers, and numbers that later pace a timer or
  multiply a reading.
* **Daemon.**  A signal must end every task in any state, though tasks keep
  handles of each other; a second daemon must not write the same queue.

## 2. The modules

| module | models | checked in | proofs |
|---|---|---|---|
| `QsoSpool` | the spool, one action per step between two system calls | `MCQsoSpool` | `QsoSpoolProofs` |
| `QsoPipeline` | extends `QsoSpool` with listener, channel, worker, Wavelog and the daemon's start, signal and exit | `MCQsoPipeline` | `QsoPipelineProofs` |
| `QsoDelivery` | the abstract promise: delivery at least once, which `QsoPipeline` implements | `MCQsoPipeline` | `QsoPipelineProofs` |
| `ActiveStation` | the station of a submission: pinned, cached or looked up, with the retries of both requests | `MCSubmission` | `SubmissionProofs` |
| `WsjtxProtocol` | the cursor over a datagram and the inspector of a record | `MCSubmission` | `SubmissionProofs` |
| `Submission` | extends both: the two things a submission is made of, the record and the station | `MCSubmission` | `SubmissionProofs` |
| `RigActor` | the rigctld actor, its callers and rigctld | `MCRigActor` | `RigActorProofs` |
| `ClickToTune` | the HTTP endpoint, the modes, the two exchanges of a tune and the rig | `MCClickToTune` | `ClickToTuneProofs` |
| `RadioPush` | tick loop, radio worker, deduper, Wavelog's radio panel | `MCRadioPush` | `RadioPushProofs` |
| `WsBroadcast` | the broadcast channel and a task per connection | `MCWsBroadcast` | `WsBroadcastProofs` |
| `Settings` | the layers, the file, the key and every error of the configuration, as operators | `MCDaemon` | `DaemonProofs` |
| `Daemon` | extends `Settings`: start, binds, tasks, the queue's lock, signal, joins, for several daemons | `MCDaemon` | `DaemonProofs` |

`QsoPipeline` composes the spool, both tasks and Wavelog; `Submission` composes the
listener that reads records with the worker that resolves stations; `Daemon`
composes the configuration with the life of the tasks, of which the
other modules say what they do.

### QsoSpool

`file` is the file as a reader of the page cache sees it: closed lines and an
unterminated tail, each a sequence of chunks left by one write (the whole text
of an entry, a part of it, or a part that ends inside a character).  `images`
are the contents a power failure may leave: every write adds to them, a sync
leaves one.  `older` is what the file's name may lead to instead, as long as the
directory of a new or a renamed file is not on the disk.  `entries` and `nextSeq`
are `Inner`; `op` is the operation that holds the mutex and the system call it is
at; `opened` stands for the lock.

| action | code |
|---|---|
| `OpenClean`, `OpenTruncated`, `OpenCorrupt` | the three outcomes of `parse_entries` in `open` (146-175); a file that is not UTF-8 enables none |
| `BeginAppend`, `WriteLine`, `WriteNewline`, `SyncData` | `append` (198-238): push and evict, the two `write_all`, `sync_data` |
| `BeginRemove` | `remove` (246-254) up to the rewrite |
| `Rename`, `SyncDir` | `rewrite_to` (267-298) |
| `IoError` | any `?` of these |
| `LostNewline`, `LostRewrite` | a write whose error no `?` sees: the newline's (232-235), the temporary file's (285-289) |
| `Kill`, `PowerLoss`, `Close` | the environment; the last handle is dropped |

`HasParent` says whether `queue_path` names a directory: `rewrite_to` syncs it only
then (291-296), and the configuration accepts a bare file name.  `promised`,
`exposed`, `damaged`, `stale` and `aside` are history: the entries whose append
returned `Ok`, those of them acknowledged while the file's name was not on the
disk, those whose line was glued, left out by a failed write or lost with the
name, whether memory and file may have parted, and what files set aside hold.

What is assumed of the operating system and of tokio: an interrupted or failed
write leaves a beginning of what was written; a sync of a file makes its data
durable and not its name, a sync of the directory the name; what was synced
stays, whatever fails later.  `tokio::fs::File` starts a write in the background:
an error comes to light at the next write, and a sync waits for the write, drops
its error and returns that of the system call alone.  So the last write before
a sync fails without a trace (`LostWrite`), any other as an `Err` (`IoError`).

### QsoPipeline and QsoDelivery

`lpc` and `wpc` say where the two tasks are; a step is what a task does between
two awaits.  `chan` is the channel, `cur` and `attempt` the worker's item and
try.  Wavelog is `logged`, `refused` and `stray` (requests given up that may
still be processed).  `L_*` are the listener's steps, `W_*` the worker's;
`SpoolWrite`, `SpoolError` and `SpoolLoss` are the spool's own steps, at whose end
the caller goes on (`Returned`); a failure the spool does not see, its caller does
not see either.  `parked` holds the entries left on disk for the next
start: the POST failed, or the channel was full.  `Boot` is the start of the
daemon, `Signal` and `Exit` its end; `PipeCrash` takes both tasks down with the
spool.  The worker's lookup of the station succeeds or fails at will (that is
`ActiveStation`).  A retry counts in `attempt`; giving up early covers the errors
that are not retried.  `Unsliceable` are the records on which the summary for
the log panics (`WsjtxProtocol`); a panic ends the process (`Abort`), and a request
that is on its way then may still be processed.

`QsoDelivery` knows of a contact whether it was received, accepted, is held by
the disk, logged, refused, evicted or spoilt, and of the disk whether there was
a fault.  `Delivers` is its specification under a mapping that reads the disk as
it is: `held <- accepted \cap Saved(file)`, the accepted records that stand alone
on a readable line of the file; `spoilt` are the records of damaged entries and of
those in files set aside; `faulty` says that there was a crash or a failed call.
Any step that touches the disk is its `Store`: a record accepted and neither in
Wavelog's log, refused, evicted nor spoilt must be held after it, and nothing may
be spoilt before a first fault.  A crash, an open or a rewrite that lost such a
record would be no step of it.

`EveryQsoAccountedFor` says the same of every content a power failure may uncover
(`Found`), the exposed records excepted.

### ActiveStation, WsjtxProtocol and Submission

Time passes in ticks of five seconds while the worker waits.  `since` (history)
counts the ticks since each station was last active; `cache` is the id and its
age; `pc`, `attempt` and `timer` are the request under way or the sleep before
it; `reply` is what Wavelog has answered and the worker has not yet got.
`Resolve`, `Found`, `NoActiveStation` are `resolve` and `find_active_station`;
`Fails`, `Wake`, `GiveUp` are `with_retries`; `Answered` is any answer that is not
retried; `Switch` is the operator in Wavelog's page.  `Horizon` is the sum of what
may pass between Wavelog's lookup and the last attempt to submit: a request, the
lifetime of the cache, the attempts and the sleeps between them.

`WsjtxProtocol` scales bytes down to four values and words to two bytes, the
higher first and the upper half negative; one byte value leads a character of
two bytes and one continues it.  `ParseLoggedAdif` returns what the code returns
(an error, nothing, or a record); `Readings` is the reference: what the datagram
is an encoding of.  `AdifField` is the scan of `adif_field` with the slices that
panic, over sequences of symbols.  `Items` and `ItemText` are what WSJT-X writes, a
sentinel or a field with its length in bytes (`InBytes`) or in characters
(`InChars`), and `ValueOf` is the reference: the value of the first field of a name.
`Hear` and `Handled` let a listener look at one datagram or record after another.
`Datagrams` and `Records` are parameters: any sequences of bytes, and any
sequences of items whose values are no longer than there are numerals for.
`Submission` lets that listener run beside the worker of `ActiveStation`.

### RigActor

`queue` and `reply` are the command channel and the oneshots, `apc` the place
in `run`, `serve` or an exchange, `left` the exchanges the command still needs.
rigctld keeps `asked` (lines it has yet to send) and `wire` (lines not read yet)
and answers in order, at any time or never.  Lines carry, as history, the
exchange they answer, and `late` counts the lines of a connection that came after
the read that drains them had timed out.  From then on exchanges read each
other's lines, which `Read` takes as the code does (`Parses`, `IsError`).  `MaxLate`
bounds them, and `MaxLines` what may pile up on such a connection.  A caller that
hangs up is not modelled: the actor ignores a failed reply (489-495).

### ClickToTune

`waiting` is the actor's channel, `step` and `cur` the exchange and the tune under
way; `rig` is what the rig is set to.  `asked` is what rigctld has yet to do and to
answer, `wire` the lines not read yet: an exchange sends one and reads the next,
whose it is does not matter to it (`ReadLine`; `SetFreq`, `Tuned` and `Refused` are
what the tune makes of it).  `Respond` is rigctld.  `Lost` is a timeout or a broken
connection in a tune, `Disconnect` one between tunes; what was asked on the
connection may still be carried out later (`strays`).  `Poll` stands for the
poller's commands, of which only the lines they leave behind matter here: the
passband line of an empty mode may come after its drain timed out
(`rigctld.rs:573-574`), and then every exchange reads the line before its own
(`late`).  `Dial` is the operator.  `Resolve` is `WavelogMode::parse` and `to_hamlib`
with the overrides.  `last` and `clean` are history: the last tune answered with
200, and whether since a tune's F was carried out, on a connection without such
a line, nothing else has touched the rig.

### RadioPush

`rig` is the dial, turned at any time; a poll reads frequency (`T_Freq`) and
mode (`T_Mode`) one after the other; power counts as a part of the mode.
`published` and `seen` are the watch channel, `last` and `due` the deduper, where
`due` says that the heartbeat interval is over, which may happen at any time
after a push.  `shown` and `stray` are Wavelog's.  `MaxLost` bounds the POSTs
that are processed without a usable answer.  The health only slows the ticks,
which the model polls at any pace.

### WsBroadcast

`kept` is what the broadcast channel holds, `behind` how many frames a receiver
has not taken (one more than the capacity when some are gone), `task` where a
client's `handle_connection` is: `Subscribe` (subscribed before the welcome),
`TakeFrame`, `DropLagged`, `ToldToStop` are the arms of its `select!`, `Sent` the end
of a `send`, which a page that does not read withholds.  `Broadcast` is the tick
loop's; `ServeReturns` the end of `axum::serve`, which does not wait for upgraded
connections (the library's: nothing is checked of it); `Restart` the next daemon.

### Settings and Daemon

A setting is a function from names to values; a value is known by which it is
and whether the program takes it.  `Load` is the whole of `Config::load`: the
layers (`Or`, `Flag`), the file and where it is looked for, the key, and every
error in the order the program looks; `Stations` is the subcommand, which asks
for less.

Of each daemon `stage` is where `main` is, `sockets` and `locked` what the system
gives it, `tasks` what runs, `handles` who holds a `RigHandle`, `told` the watch
channel.  `BindHttp`, `BindWs`, `BindUdp`, `SpawnTasks`, `OpenQueue` are `run_daemon`
in its order, `StartFails` and `OpenFails` its errors, at which everything
spawned is dropped (`Exit`); `Signal` kills before the handlers are installed and
is ignored while `main` joins; `TaskEnds` is a task that returns, the rig actor
when the last handle is gone.  TCP listeners and unicast UDP sockets are
exclusive, sockets of a multicast group are not (`bind.rs`).

## 3. The runs

| run | instance | shows |
|---|---|---|
| `spool` | 3 QSOs, cap 2, 3 crashes, 2 failed calls, no directory to sync | `Durable`, `SpoolMirrorsMemory`, `SeqFresh`, `CapHolds` |
| `pipeline` | 3 QSOs, cap 2, channel of 1, 1 crash, a directory to sync | `InOrder`, `OwnEntry`, `NoOrphan`, `AnsweredOnce`, `ReceivedIsKept`, `EveryQsoAccountedFor`, and the refinement `Delivers` |
| `pipeline_live` | 2 QSOs, cap 2, channel of 1, 1 failed call, a directory to sync | `EveryQsoAccountedFor`, `PipeDrains`, `ShutdownEnds`, `EventuallyAnswered` |
| `rig` | 2 callers, commands with every exchange, channel of 1, 1 late line | `Positional`, `OneCommandPerCaller`, `RecoveryNeedsAnswer`, `EveryCallAnswered`, `ActorEnds` |
| `radio` | 2 frequencies, 2 modes, 1 POST lost | `ShownUnlessLost`, `Converges`, `ShutdownEnds` |
| `submission` | 2 stations or a pinned one, a lifetime of 3 ticks; datagrams of two strings of up to 3 and 4 bytes, records of two fields | `StationFresh`, `Follows`, `DecodesEncodings`, `FindsTheField` |
| `websocket` | 2 pages, 2 states, channel of 2 | `Consecutive`, `PagesFollow` |
| `tune` | 2 frequencies, 3 modes (one not a mode), channel of 2, 2 unread lines | `OkMeansTuned` |
| `daemon` | 2 daemons with 4 configurations; 8,540 inputs of the configuration | `OneWriter`, `OneInCharge`, `ShutdownEnds`, `TopLayerWins`, `AcceptedWorks` |

Three more runs check what a comment of the source says and the code does not do:

| run | property | the comment | what happens |
|---|---|---|---|
| `spool_glue` | `NothingLost` | `qso_queue.rs:6-7` | a crash between a line and its newline: the next append continues the line and the next open drops both entries, one of them acknowledged |
| `spool_utf8` | `Startable` | `qso_queue.rs:32-34` | a line cut inside a character makes `open` fail for good |
| `pipeline_multibyte` | `ReceivedIsKept` | `wsjtx/mod.rs:158-159` | a record whose lengths count characters makes `adif_field` slice inside one: it panics before the record is persisted, and the process ends |

**Other disagreements** of the code with its documents, which the models contain
and no run of its own shows:

* `qso_queue.rs:42-43` says the push to memory comes after the write.  It comes
  before and is not taken back: `stale` is set by `IoError`, and
  `SpoolMirrorsMemory` and `CapHolds` make an exception of it.
* `qso_queue.rs:40` says that an I/O error in an append surfaces to the caller.
  That of its last write does not: `sync_data` drops it.  A newline that is not written
  (232) leaves a line that the next append joins, a temporary file cut short (285)
  is renamed over the queue, both with `Ok`; `damaged` names the entries that
  `Durable` gives up.
* `qso_queue.rs:268-269` calls the rewrite an atomic swap in the event of a power
  loss.  With a bare file name as `queue_path` no directory is synced (291-292),
  and neither is that of a new file (227) or of a corrupt one renamed aside (169):
  a power failure may uncover the file from before, or none, and entries
  acknowledged since are gone.  They are `exposed`, which `Durable` and
  `EveryQsoAccountedFor` except.
* `rigctld.rs:5-8` says lines and commands line up.  A passband line that comes
  after the drain of an empty mode has timed out (574) answers the next command,
  that command's answer the one after it, and so on until a read fails or the
  connection ends.  `Positional` is what holds before such a line and on the next
  connection.  The same holds of a click: after such a line a tune's M reads the
  `RPRT 0` of its own F, and 200 is sent while the answer to M, perhaps an error,
  is still to come (`listener.rs:131`).  `OkMeansTuned` is about connections without
  such a line.
* `poller.rs:183-184` says a QSY is never swallowed.  After a push that was
  processed without its answer, a QSY back to the state pushed before is skipped
  though Wavelog shows the other one; the heartbeat repairs it (`Converges`).
  `ShownUnlessLost` is what holds before the first such push.
* `station.rs:55`, `config.rs:99` and the README (63, 209-216) say the active
  station is cached for 60 seconds; it is for five minutes (`station.rs:35`).  The
  README's "the next QSO routes to the new profile" is `Follows`: in the end.
* `config.rs:3` and the README (70) put the command line before the file.  A flag
  that is on in the file cannot be turned off (`Flag`); `TopLayerWins` excludes the
  two flags.

**Bounds.**  Three QSOs over a cap of two reach an eviction, an entry behind it,
and a removal from the middle; a channel of one is full as soon as an item
waits; three crashes allow a crash of the recovery from a crash that left a bad
line. With failed calls three QSOs in the pipeline are too many states; two show
what a failed append does to the entries and to the items.  Two callers and a
channel of one reach a command that waits behind one under way and fills the
channel; one late line and two on their way reach commands out of step, and in
`tune` two unread lines a poll that comes back into step.  Without a directory to
sync (`spool`) a name reaches the disk only by a power failure that finds it, so
that this run has an older file to fall back to at every step; the runs of the
pipeline have the sync, and the proofs are for both.  Two
settings of each part of the rig suffice for a QSY and back, for a torn poll and
for two clicks mixed. A page is one frame behind, at the limit and beyond it
with a channel of two; frames are numbered modulo three, so that a gap of one or
two frames shows.  A lifetime of three ticks is longer than a request and
shorter than a submission with its retries, so that the station cached may
expire before, during and after one.  The bytes of a datagram suffice for a
string of each kind of length: right, null, negative, too long, and one that
ends inside a character.

The counts of failures and of the backoff stop where the program no longer tells
them apart (three, the poller's threshold; four, the last delay), as do the ages
(`Ttl`, `Beyond`).  `MaxCrashes`, `MaxIoErrors`, `MaxLost` and `MaxLate` bound
faults, never the program; `MaxLines` and `MaxUnread` bound what is left on a
connection already out of step.  Two bounds keep unrelated parts of one run from
multiplying: configurations outside `CommandLines` are loaded only while no
daemon runs, and are not followed further (`Alone`, `Trial`); a datagram is
heard only while the worker is idle and has no station yet (`Quiet` of
`MCSubmission`).  The QSOs are interchangeable, which the run of the pipeline's
safety uses as a symmetry; the runs of liveness use none, though
`EventuallyAnswered` is checked of one QSO that stands for all.

**Deadlock** is checked except in `rig`, where the system may
stop for good: the actor ends once its handles are dropped.

**Fairness.**  The runtime polls every ready task and the kernel completes every
call: weak fairness of each task and of the spool's steps.  Wavelog need not
answer, but every request ends by its timeout, which is `W_Fail`: so is every
read of a rigctld line and every connection attempt.

* `rig` adds strong fairness of the drain and of the closed channel: each backoff
  lasts at least half a second, in which what the channel holds is taken.
* `radio` adds that the tick loop's `select!` does not miss a signal for ever;
  `Converges` states its own condition (`Served`): the rig and Wavelog answer again
  and again.
* `submission` has strong fairness of time, which passes between any two steps of
  the worker.
* `websocket` gives the pages none: a page may stop reading.  `PagesFollow` speaks
  of a page that reads (the antecedent `WF_vars(Sent(c))`), whatever the other does.
* `daemon` has every task end that was told to, which the other modules'
  `ShutdownEnds` and `ActorEnds` show of each task but the two servers: that
  `axum::serve` returns, with pages connected, is the library's.
* `EventuallyAnswered` states its own condition (`RestartedAndAnswered`): signals
  come and restarts follow, though not always before the tasks get anywhere, and a
  record submitted again and again is answered some time.  It excepts the evicted
  and the spoilt.  Without restarts it is false: an entry whose POST failed waits for the next start.

No fairness for WSJT-X, the dial, the operator, stray requests or faults.

## 4. What is proved

Each theorem holds for every value of the constants that satisfies the named
assumptions of its module.

| module | theorems |
|---|---|
| `QsoSpoolProofs` | `TypeCorrect`, `DurableAlways`, `SeqFreshAlways`, `SpoolMirrorsMemoryAlways`, `CapHoldsAlways` |
| `QsoPipelineProofs` | `PipeTypeCorrect`, `SpoolInPipe`, `InOrderAlways`, `OwnEntryAlways`, `EveryQsoAccountedForAlways`, `NoOrphanAlways`, `ReceivedIsKeptAlways` and `AnsweredOnceAlways` (up to `Unsliceable`), `DeliversAlways` |
| `RigActorProofs` | `RigTypeCorrect`, `OneCommandPerCallerAlways`, `RecoveryNeedsAnswerAlways`, `PositionalAlways` |
| `RadioPushProofs` | `RadioTypeCorrect`, `ShownUnlessLostAlways` |
| `SubmissionProofs` | `StationTypeCorrect`, `StationFreshAlways`, `SubmissionFresh`, `DecodesEncodingsAlways`, `FindsTheFieldAlways`, `AsciiNeverPanics` |
| `ClickToTuneProofs` | `TuneTypeCorrect`, `OkMeansTunedAlways` |
| `WsBroadcastProofs` | `BroadcastTypeCorrect`, `ConsecutiveAlways` |
| `DaemonProofs` | `DaemonTypeCorrect`, `OneWriterAlways`, `OneInChargeAlways`, `TopLayerWinsAlways`, `AcceptedWorksAlways` |

**QsoSpool** (`QsosAssumption`, `PathAssumption`, `BoundsAssumption`).  `Durable` is not
inductive: a promise must survive in every image, older ones included, and a
later operation replaces the images.
`IInv` adds: which steps an operation can be at and what memory then holds
(`OpShape`); that the file is one of its images (`ImagesInv`); that the entries and
the readable lines of the file and of every image ascend and lie below `nextSeq`
(`SeqInv`), without which a line could be mistaken for another; that whatever is
promised and not damaged is in memory while a process runs (`PromisesHeld`), so
that a rewrite keeps it; and what the file holds of the entry being appended
(`LastWritten`) or of a rewritten file (`Rewritten`).  A rewrite that was cut short
has only entries of memory, and those it lacks are damaged (`BeginningsFacts`);
`exposed` shrinks only where a name reaches the disk.  There is one lemma per
action, on top of lemmas about files (what a write, a newline and a rewrite do to
lines) and about sequences of entries (removal, dropping a prefix, `Parsed`,
`NextAfter`).  `MirrorInv` follows the file
through the steps of an append, from all entries but the last to all of them;
`CapInv` adds that the file never has more lines than memory has entries when
an append begins, without which a file at the cap could grow past a memory that
is not.  Glued lines make files with fewer lines than entries, never with more.
`FaultFree` says that before a first crash or failed call nothing is damaged or set
aside and every line of the file is whole.

**QsoPipeline** (`CapacityAssumption`, `UnsliceableAssumption`, `NoneAssumption`, and
the spool's).  Every step of the pipeline is a step of the spool or leaves it
alone (`SpoolSteps`), though not every step of the spool is one: `IInv`,
`MirrorInv` and `CapInv` carry over, and with them the spool's promises
(`SpoolInPipe`).  None of the pipeline's own properties is inductive.  `PInv` adds
to `IInv`:

* `Control`: which task is where, with what in hand, and that the call of the
  spool under way is that of the task that waits for it;
* `Order`: what the worker holds, the channel and what is to be replayed ascend
  and lie below `nextSeq`.  The record being sent has the last number given, so
  that putting it at the end of the channel keeps the order;
* `Own`: an entry in the pipe and one in memory with the same number are the same
  entry.  Eviction and failed rewrites take entries out of memory and never give a
  number to another (`SeqFresh`);
* `Identity`: a contact is received once, so two entries with one contact are one
  entry, in memory, in any file a crash can leave, in the pipe, promised or
  answered.  A contact in the listener's hands that is not yet appended is in
  none of them;
* `Account`: the worker only comes to remove what was logged or refused, so that
  a record accepted is settled or its entry promised.  `Durable` then says where
  the promised entries are: the two make `EveryQsoAccountedFor`;
* `Kept`: what is being sent was accepted; what was received was accepted, is in
  hand or panics;
* `Orphans`: every entry in memory is in the pipe, being appended or left for the
  next start;
* `Answered`: without faults, what was answered is in memory only between the
  answer and its removal, and the file of a daemon that is off does not have it.

The step `Answered` turns on is the end of a removal, where the rewritten file
must have lost the entry, and `Exit`, which a removal under way holds up.
`ReceivedIsKept` is false when a record can make `summarize_adif` panic
(`pipeline_multibyte`), and such a panic is no crash that `AnsweredOnce` allows
for.  Both theorems therefore have two parts: a general one that says what the
panic costs, `Unsliceable` being any set, and the property itself where no record
panics.

`DeliversAlways` is the refinement of `QsoDelivery`.  `L_Recv` maps to `Receive`,
`L_Append` to `Evict` of the entries it drops, an answer or a late request that
arrives to `Log` or `Refuse` (`OutwardSteps`).  Every step of the spool, crashes,
power failures, opens and failed calls included, maps to `Store`, for which it
takes that in every state what is accepted is on the disk, settled or spoilt
(`DiskFacts`, from `Account`, `Durable` and `FaultFree`), and so after the step.

**RadioPush** (`PushAssumption`, `PushNone`).  As long as nothing was lost, the
deduper's record equals what Wavelog shows and no request is on its way.

**RigActor** (`ActorAssumption`, `NoneAssumption`).  `Shape` adds that a command
is under way exactly in the middle of an exchange.  `Owned` says that commands,
queued or running, and waiting callers correspond one to one; the second and
third theorems follow from it.  `Aligned` lists what may be on its way from
rigctld at each place of the actor, as long as nothing came late: nothing
between two exchanges, the answer or the rest of it within one.  The step it
turns on is `DrainWidth`, which ends an exchange without having read its last
line: either rigctld does not send it, or `late` counts it.  `Connect` starts
anew with neither a line nor a count.

**ActiveStation** (`StationAssumption`, `TimeAssumption`).  `StationFresh` bounds an
age by `Horizon`; the invariant says how much of it is left at each place: an
answer on its way is at most as old as its request (`LookupBound`), a cached id
at most that and its age (`CacheBound`), and the station of a submission at most
`Late(pc, attempt)`, which pays for each attempt and each sleep (`PostBound`).
`SubmissionFresh` carries it over to the composition, whose listener leaves the
worker alone.

**WsjtxProtocol** (`DatagramsAssumption`, `NumeralAssumption`, `RecordsAssumption`).
`Heard` is all the invariant there is; what takes a proof is what the operators
compute.  `ReadQString` succeeds exactly where an encoding of a text stands, and
then ends behind it (`StringFound`, `StringRead`), because a word is the length of
a text only below the half and the null string's only at its top; and a header
stands where three words are read with the right values (`HeaderStands`,
`Parsed`).  Together they make what `ParseLoggedAdif` reads the one member of
`Readings` (`DatagramRead`).

`AdifField` is a recursive function over positions, and a record is flattened by a
recursive function over items.  Neither is known to have a value until that is
proved, and the library's induction theorems take an operator as a parameter,
which the provers here cannot instantiate.  `Induction` is stated of sets instead
(a set with 0, and with n + 1 when n is in it, holds every natural number) and
follows from the least element of a set of numbers, which the well-foundedness
of their order gives.  From it follows that both functions exist and satisfy
their equations (`Flattened`, `Scans`), the second because every jump of the scan
is forward (`LooksAhead`).  `FindsTheField` is then an induction over items: where
an item stands at the position of the scan, the next `<` is its own, its header
is read back (`HeaderStep`), and the scan returns the value or goes on behind it
(`FieldStep`, `SentinelStep`), at a position that is no part of a character; what
the values look like never matters, since the scan skips them.  `FieldsRead` adds
up the items.

**ClickToTune** (`OverridesAssumption`, `RoomAssumption`, `UnreadAssumption`).
`OkMeansTuned` rests on whose line a tune reads.  `InStep`: on a connection where no
poll left a line, nothing is on it between two tunes, and in a tune the current
exchange alone, asked or answered.  `OutOfStep`: on any other, no tune has been
begun since the rig was last as the last 200 said.  `Halfway`: what the rig is set to
at each of these places, with no one else at it.

**WsBroadcast** (`CapacityAssumption`, `NumbersAssumption`, `FrameAssumption`).  The
frames kept are consecutive up to the last one sent (`RunsOn`), and the next frame
a client will take, if it is still there, is the one after the last it took
(`Follows`, `Reach`); a client that is not subscribed has taken none (`Fresh`).

**Daemon** (`MulticastAssumption`).  A daemon that writes a queue holds its lock and
one that polls the rig and was not told to stop has its TCP port (`Holds`); two
daemons share no lock and no socket but those of multicast groups (`Apart`).  The
last handle of the queue dropping the lock, and `Bind` and `Lock` being refused,
are the steps it turns on.  `TopLayerWins` and `AcceptedWorks` are about what is
loaded: the first holds for any input at all, case by case of the first layer
that sets the setting (`LoadedRespects`); the second follows from the rules having
found nothing (`NothingFound`, `Accepted`) and takes `InputsAssumption`, that the
powers of an input are among the values told apart (`LoadedWorks`).

The type invariants of `ActiveStation`, `ClickToTune` and `WsBroadcast` are proved and
not in a run.  Only model-checked: the liveness properties (the prover has no
rules for fairness and `ENABLED`), `CharsMayPanic`, which is an instance, and the
three properties the code does not keep.

## 5. Not modelled

* `wsjtx/bind.rs` beyond which addresses are exclusive: socket options and the
  choice of interface.
* The library root, build files and tests; `panic = "abort"` is used by `Abort`.
* Logging, the table of the `stations` command, URL building, the payloads of the
  requests, argument parsing (external, `Cli`), `log_level`.
* The Origin checks of both servers, but as a restriction of who is a client.
* That alternating kinds of failure keep the poller from reaching its threshold
  (`rigctld.rs:412`), which the source documents.
* The pipeline with `ActiveStation` in the place of its free lookup: the two meet
  only in whether a lookup succeeds, which the pipeline leaves open.
