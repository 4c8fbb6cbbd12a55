------------------------------- MODULE Daemon -------------------------------
(***************************************************************************)
(* The life of the daemon, main.rs: it loads its configuration, binds its  *)
(* sockets, spawns its tasks, opens the queue, waits for a signal and      *)
(* joins the tasks.  Several daemons may be started, with the same or with *)
(* other settings: what they share is the ports and the queue's file.      *)
(*                                                                         *)
(* A task is known by its name: the rig actor, the poller (with the worker *)
(* that pushes the radio), the click-to-tune server, the WebSocket server, *)
(* the WSJT-X listener and the worker that posts QSOs.  What they do is in *)
(* the other modules; here they end.                                       *)
(***************************************************************************)
EXTENDS Settings

CONSTANTS
    Daemons,      \* processes
    Inputs,       \* what one may be started with: arguments, environment, files
    CommandLines, \* those of them a daemon is followed further with (a bound)
    Multicast     \* the UDP addresses that are IPv4 multicast groups

\* Groups are joined with UDP only.
ASSUME MulticastAssumption == \A address \in Multicast : address[1] = "udp"
ASSUME InputsAssumption == \A in \in Inputs \cup CommandLines : KnownPowers(in)

VARIABLES
    stage,   \* of each daemon's main: "off", "load", "http", ... "wait", "join"
    given,   \* what it was started with, while it loads it
    conf,    \* its settings
    sockets, \* the addresses it has bound
    locked,  \* the queue files it holds the lock of
    tasks,   \* its tasks that run
    handles, \* who has a RigHandle: the rig actor runs until nobody has
    told     \* its watch channel holds true

vars == <<stage, given, conf, sockets, locked, tasks, handles, told>>

NotGiven == <<>>

Stages == {"off", "load", "http", "ws", "udp", "client", "queue", "wait", "join"}
Tasks  == {"rig", "poller", "http", "ws", "listener", "worker"}
Users  == {"main", "poller", "http"}

Init ==
    /\ stage = [p \in Daemons |-> "off"]
    /\ given = [p \in Daemons |-> NotGiven]
    /\ conf = [p \in Daemons |-> Empty]
    /\ sockets = [p \in Daemons |-> {}]
    /\ locked = [p \in Daemons |-> {}]
    /\ tasks = [p \in Daemons |-> {}]
    /\ handles = [p \in Daemons |-> {}]
    /\ told = [p \in Daemons |-> FALSE]

Goto(p, where) == stage' = [stage EXCEPT ![p] = where]

\* main has returned, or the process is killed: the runtime drops the tasks, the
\* system closes the sockets and releases the lock.
Exit(p) ==
    /\ Goto(p, "off")
    /\ sockets' = [sockets EXCEPT ![p] = {}]
    /\ locked' = [locked EXCEPT ![p] = {}]
    /\ tasks' = [tasks EXCEPT ![p] = {}]
    /\ handles' = [handles EXCEPT ![p] = {}]
    /\ told' = [told EXCEPT ![p] = FALSE]
    /\ given' = [given EXCEPT ![p] = NotGiven]
    /\ conf' = [conf EXCEPT ![p] = Empty]

-----------------------------------------------------------------------------
(* The start.                                                              *)

\* What is not one of CommandLines is only loaded, and only while nothing else
\* runs (bounds).
Alone == \A q \in Daemons : stage[q] = "off"
Trial == \E q \in Daemons : stage[q] = "load" /\ given[q] \notin CommandLines

Start(p) ==
    /\ stage[p] = "off" /\ ~Trial
    /\ \E in \in CommandLines \cup (IF Alone THEN Inputs ELSE {}) :
          given' = [given EXCEPT ![p] = in]
    /\ Goto(p, "load")
    /\ UNCHANGED <<conf, sockets, locked, tasks, handles, told>>

\* An error of the configuration ends main before it touches anything.
LoadConfig(p) ==
    /\ stage[p] = "load"
    /\ IF Load(given[p]).error # None \/ given[p] \notin CommandLines THEN Exit(p)
       ELSE /\ conf' = [conf EXCEPT ![p] = Load(given[p]).settings]
            /\ given' = [given EXCEPT ![p] = NotGiven]
            /\ Goto(p, "http")
            /\ UNCHANGED <<sockets, locked, tasks, handles, told>>

\* TCP listeners and unicast UDP sockets are exclusive; sockets of a multicast
\* group are not.
Taken(address) == address \notin Multicast /\ \E q \in Daemons : address \in sockets[q]

Bound(p, address) == sockets' = [sockets EXCEPT ![p] = @ \cup {address}]

\* A plausible mistake: a conflict is logged and the daemon goes on.
BindAnyway(p, kind, address) == Bound(p, <<kind, address>>)

\* TCP's ports are not UDP's.
Bind(p, kind, address) == ~Taken(<<kind, address>>) /\ Bound(p, <<kind, address>>)

BindHttp(p) ==
    /\ stage[p] = "http"
    /\ Bind(p, "tcp", conf[p]["listen"])
    /\ Goto(p, "ws")
    /\ UNCHANGED <<given, conf, locked, tasks, handles, told>>

BindWs(p) ==
    /\ stage[p] = "ws"
    /\ IF conf[p]["no_ws"] = "on" THEN UNCHANGED sockets ELSE Bind(p, "tcp", conf[p]["ws_listen"])
    /\ Goto(p, "udp")
    /\ UNCHANGED <<given, conf, locked, tasks, handles, told>>

\* The sockets are bound: the rig actor is spawned, main has a handle of it.
BindUdp(p) ==
    /\ stage[p] = "udp"
    /\ IF conf[p]["wsjtx"] = "off" THEN UNCHANGED sockets
       ELSE Bind(p, "udp", conf[p]["wsjtx_listen"])
    /\ tasks' = [tasks EXCEPT ![p] = {"rig"}]
    /\ handles' = [handles EXCEPT ![p] = {"main"}]
    /\ Goto(p, "client")
    /\ UNCHANGED <<given, conf, locked, told>>

\* The address is another program's, or an IPv6 multicast group; or the HTTP
\* client cannot be built.
StartFails(p) == stage[p] \in {"http", "ws", "udp", "client"} /\ Exit(p)

SpawnTasks(p) ==
    /\ stage[p] = "client"
    /\ tasks' = [tasks EXCEPT ![p] =
           @ \cup {"poller", "http"} \cup (IF conf[p]["no_ws"] = "on" THEN {} ELSE {"ws"})]
    /\ handles' = [handles EXCEPT ![p] = @ \cup {"poller", "http"}]
    /\ Goto(p, "queue")
    /\ UNCHANGED <<given, conf, sockets, locked, told>>

\* main gives its own handle up before it waits.  (The mistake: it keeps it.)
KeepsHandle(users) == users
GivesUp(users)     == users \ {"main"}

\* A plausible mistake: the lock is taken and dropped at once, as `let _ = ...'
\* does.
LockAndDrop(p, path) ==
    /\ \A q \in Daemons : path \notin locked[q]
    /\ UNCHANGED locked

\* acquire_lock: refused when another process has it.
Lock(p, path) ==
    /\ \A q \in Daemons : path \notin locked[q]
    /\ locked' = [locked EXCEPT ![p] = @ \cup {path}]

OpenQueue(p) ==
    /\ stage[p] = "queue"
    /\ IF conf[p]["wsjtx"] = "off" THEN UNCHANGED <<locked, tasks>>
       ELSE /\ Lock(p, conf[p]["qso_queue_path"])
            /\ tasks' = [tasks EXCEPT ![p] = @ \cup {"listener", "worker"}]
    /\ handles' = [handles EXCEPT ![p] = GivesUp(@)]
    /\ Goto(p, "wait")
    /\ UNCHANGED <<given, conf, sockets, told>>

\* The file cannot be opened or is locked: main fails though its tasks run.
OpenFails(p) ==
    /\ stage[p] = "queue" /\ conf[p]["wsjtx"] = "on"
    /\ Exit(p)

-----------------------------------------------------------------------------
(* The end.                                                                *)

\* The handlers are installed when main waits; before that a signal kills.
\* While it joins a signal is ignored.
Signal(p) ==
    \/ /\ stage[p] = "wait"
       /\ told' = [told EXCEPT ![p] = TRUE]
       /\ Goto(p, "join")
       /\ UNCHANGED <<given, conf, sockets, locked, tasks, handles>>
    \/ stage[p] \notin {"off", "wait", "join"} /\ Exit(p)

\* The process is killed, or a task panics: the build aborts.
Killed(p) == stage[p] # "off" /\ Exit(p)

\* What ends the task: the shutdown, and for the rig actor the last handle.
Ending(p, t) == IF t = "rig" THEN handles[p] = {} ELSE told[p]

\* The sockets of a task.
SocketsOf(p, t) ==
    CASE t = "http"     -> {<<"tcp", conf[p]["listen"]>>}
      [] t = "ws"       -> {<<"tcp", conf[p]["ws_listen"]>>}
      [] t = "listener" -> {<<"udp", conf[p]["wsjtx_listen"]>>}
      [] t \notin {"http", "ws", "listener"} -> {}

\* A task that ends drops its handle.  (The mistake: a handle outlives it.)
Leaked(users, t)  == users
Dropped(users, t) == users \ {t}

\* The listener and the worker share the queue; the last of them unlocks it.
TaskEnds(p, t) ==
    LET left == tasks[p] \ {t} IN
    /\ t \in tasks[p] /\ Ending(p, t)
    /\ tasks' = [tasks EXCEPT ![p] = left]
    /\ handles' = [handles EXCEPT ![p] = Dropped(@, t)]
    /\ sockets' = [sockets EXCEPT ![p] = @ \ SocketsOf(p, t)]
    /\ locked' = [locked EXCEPT ![p] = IF left \cap {"listener", "worker"} = {} THEN {} ELSE @]
    /\ UNCHANGED <<stage, given, conf, told>>

\* Every task is joined, the rig actor last.
Finish(p) ==
    /\ stage[p] = "join" /\ tasks[p] = {}
    /\ Exit(p)

Steps(p) ==
    LoadConfig(p) \/ BindHttp(p) \/ BindWs(p) \/ BindUdp(p) \/ StartFails(p) \/ SpawnTasks(p)
    \/ OpenQueue(p) \/ OpenFails(p) \/ Finish(p)

Next == \E p \in Daemons :
    Start(p) \/ Steps(p) \/ Signal(p) \/ Killed(p) \/ (\E t \in Tasks : TaskEnds(p, t))

Spec == Init /\ [][Next]_vars

\* main goes on, and a task that is to end does: the poller after the answer of
\* the rig, a server after its requests, the worker at its next await.
FairSpec ==
    /\ Spec
    /\ \A p \in Daemons :
          WF_vars(Steps(p)) /\ \A t \in Tasks : WF_vars(TaskEnds(p, t))

-----------------------------------------------------------------------------
(* Properties.                                                             *)

\* The types of the variables.  What a daemon runs, it runs from bound sockets
\* and with somebody to ask the rig actor.
TypeOK ==
    /\ stage \in [Daemons -> Stages]
    /\ DOMAIN conf = Daemons
    /\ tasks \in [Daemons -> SUBSET Tasks]
    /\ handles \in [Daemons -> SUBSET Users]
    /\ told \in [Daemons -> BOOLEAN]
    /\ \A p \in Daemons : handles[p] \ {"main"} \subseteq tasks[p]

\* One daemon at a time writes a queue's file, whichever sockets it has: also
\* while one shuts down and the next has started.
OneWriter ==
    \A p, q \in Daemons :
        /\ p # q
        /\ tasks[p] \cap {"listener", "worker"} # {} /\ tasks[q] \cap {"listener", "worker"} # {}
        => conf[p]["qso_queue_path"] # conf[q]["qso_queue_path"]

\* Two daemons with the address of one click-to-tune server are not both in
\* charge of the rig: only one that was told to stop still finishes its poll
\* while the next has started.
OneInCharge ==
    \A p, q \in Daemons :
        /\ p # q /\ conf[p]["listen"] = conf[q]["listen"]
        /\ "poller" \in tasks[p] /\ "poller" \in tasks[q]
        => told[p] \/ told[q]

\* The highest layer that sets a setting has its way with what a daemon loads.
TopLayerWins == \A p \in Daemons : stage[p] = "load" => LayersRespected(given[p])

\* A daemon that starts can work: the timer that paces the polls is not given
\* zero, a reading times the power is a number, the answers have time to come,
\* and the browser's Origin can be compared with one.  And where it starts,
\* `stations', which the operator is told to use, does too.
AcceptedWorks ==
    \A p \in Daemons :
        stage[p] = "load" /\ Load(given[p]).error = None =>
            Workable(Load(given[p]).settings) /\ Stations(given[p], {"home"}) = None

\* A daemon that was told to stop does: no task waits for another's handle.
ShutdownEnds == \A p \in Daemons : told[p] ~> ~told[p]

=============================================================================
