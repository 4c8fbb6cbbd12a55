------------------------------ MODULE RigActor ------------------------------
(***************************************************************************)
(* The actor that owns the TCP connection to rigctld, rigctld.rs.  Clients *)
(* (the poller, the tune endpoint) send commands over an mpsc channel and  *)
(* wait for a oneshot reply.  The actor runs one command at a time: a      *)
(* command is one or more exchanges, each a line sent and a line read, two *)
(* for the mode and its passband.  rigctld's lines carry no tag, so a line *)
(* answers whatever exchange reads it.                                     *)
(*                                                                         *)
(* An I/O error or a read that times out fails the command, drops the      *)
(* connection and goes to a backoff in which queued commands are failed.   *)
(* rigctld is external: it answers the exchanges of a connection in order, *)
(* at any time or never.                                                   *)
(***************************************************************************)
EXTENDS Integers, SequencesExt

CONSTANTS
    Clients,          \* tasks that hold a RigHandle
    Kinds,            \* commands they may send, among those of Exchanges
    ChannelCapacity,  \* of the command channel (8 in the program)
    MaxLate,          \* bound: lines of a connection that come after the read
                      \* that drains them has timed out
    MaxLines,         \* bound: lines of a connection on their way, beyond which
                      \* nothing more is asked of it
    None

ASSUME ActorAssumption ==
    /\ ChannelCapacity \in Nat \ {0}
    /\ MaxLate \in Nat /\ MaxLines \in Nat \ {0}
    /\ Kinds \subseteq {"freq", "mode", "power", "poll", "set", "tune"}

VARIABLES
    handles,    \* some RigHandle is alive
    queue,      \* the command channel
    reply,      \* per client: its oneshot
    apc,        \* where the actor is
    cmd,        \* the command under way
    left,       \* its exchanges still to do, the current one first
    asked,      \* external: lines of this connection rigctld has yet to send
    wire,       \* lines of this connection not read yet
    late,       \* history: drains of this connection that timed out too early
    health,     \* Health.state, as published on the watch channel
    backoff     \* backoff_idx, up to the last delay

connVars  == <<asked, wire, late>>
actorVars == <<apc, cmd, left, health, backoff>>
vars == <<handles, queue, reply, connVars, actorVars>>

-----------------------------------------------------------------------------
\* The exchanges of each command: f, m and l (RFPOWER) read; F and M set.
Exchanges(kind) ==
    CASE kind = "freq"  -> <<"f">>
      [] kind = "mode"  -> <<"m">>
      [] kind = "power" -> <<"l">>
      [] kind = "poll"  -> <<"f", "m", "l">>
      [] kind = "set"   -> <<"F">>
      [] kind = "tune"  -> <<"F", "M">>

\* What rigctld's lines may be: a number, a level (a number, maybe a fraction),
\* RPRT 0, RPRT -N (err), text that is none of these (bad).  A mode, even an
\* empty one, is followed by a second line, the width of the passband.
FirstLines(x) ==
    CASE x = "m" -> {"mode", "empty", "err"}
      [] x = "f" -> {"number", "bad", "err"}
      [] x = "l" -> {"level", "bad", "err"}
      [] x \in {"F", "M"} -> {"RPRT 0", "bad", "err"}
WidthLines == {"number"}
HasWidth(x, text) == x = "m" /\ text \in {"mode", "empty"}

\* What an exchange but m takes for an answer, its own or not.
Parses(x) ==
    CASE x = "f" -> {"number"}
      [] x = "l" -> {"number", "level"}
      [] x \in {"F", "M"} -> {"RPRT 0"}

Command  == [client : Clients, kind : Kinds]
Letter   == {"f", "m", "l", "F", "M"}
Exchange == [client : Clients, x : Letter, line : {"first", "width"}]
Text     == {"number", "level", "mode", "empty", "RPRT 0", "err", "bad"}
LineRead == [to : Exchange, text : Text]

ASSUME NoneAssumption == None \notin Command

\* The line of the current exchange that the actor reads first, or second.
Expected(line) == [client |-> cmd.client, x |-> Head(left), line |-> line]

\* The actor counts failures without end; the poller only asks for three.
SlowAfterFailures == 3
LastBackoff == 4      \* BACKOFF.len() - 1
Capped(n, cap) == IF n > cap THEN cap ELSE n

Healthy == [kind |-> "healthy", failures |-> 0]

\* record_failure: a failure of another kind starts a new streak.
RecordFailure(kind) ==
    health' = [kind |-> kind,
               failures |-> IF health.kind = kind
                            THEN Capped(health.failures + 1, SlowAfterFailures) ELSE 1]
RecordSuccess == health' = Healthy

\* To the delay of index backoff, and the index on to the next: it saturates far
\* beyond the last delay, which the min of backoff_delay makes the same.  (The
\* mistake: no min.)
BackOffUncapped == apc' = "backoff" /\ backoff' = backoff + 1
BackOff         == apc' = "backoff" /\ backoff' = Capped(backoff + 1, LastBackoff)

\* The oneshot of the current command gets its result.
Answer(result) ==
    /\ reply' = [reply EXCEPT ![cmd.client] = result]
    /\ cmd' = None
    /\ left' = <<>>

Init ==
    /\ handles = TRUE
    /\ queue = <<>>
    /\ reply = [c \in Clients |-> "none"]
    /\ apc = "connect"
    /\ cmd = None
    /\ left = <<>>
    /\ asked = <<>> /\ wire = <<>> /\ late = 0
    /\ health = Healthy
    /\ backoff = 0

-----------------------------------------------------------------------------
(* The clients.                                                            *)
Request(c, kind) ==
    /\ handles
    /\ reply[c] # "waiting"
    /\ Len(queue) < ChannelCapacity
    /\ queue' = Append(queue, [client |-> c, kind |-> kind])
    /\ reply' = [reply EXCEPT ![c] = "waiting"]
    /\ UNCHANGED <<handles, connVars, actorVars>>

\* Shutdown: the tasks end and drop their handles.
DropHandles ==
    /\ handles
    /\ \A c \in Clients : reply[c] # "waiting"
    /\ handles' = FALSE
    /\ UNCHANGED <<queue, reply, connVars, actorVars>>

-----------------------------------------------------------------------------
(* run: connect, serve, back off.                                          *)

\* (The mistake: a connection alone counts as a recovery.)
ConnectRecovering ==
    /\ apc = "connect"
    /\ apc' = "recv"
    /\ backoff' = 0
    /\ asked' = <<>> /\ wire' = <<>> /\ late' = 0
    /\ RecordSuccess
    /\ UNCHANGED <<handles, queue, reply, cmd, left>>

Connect ==
    /\ apc = "connect"
    /\ apc' = "recv"
    /\ backoff' = 0
    /\ asked' = <<>> /\ wire' = <<>> /\ late' = 0
    /\ UNCHANGED <<handles, queue, reply, cmd, left, health>>

ConnectFails ==
    /\ apc = "connect"
    /\ BackOff
    /\ RecordFailure("unreachable")
    /\ UNCHANGED <<handles, queue, reply, cmd, left, connVars>>

Take ==
    /\ apc = "recv" /\ queue # <<>>
    /\ cmd' = Head(queue)
    /\ queue' = Tail(queue)
    /\ left' = Exchanges(cmd'.kind)
    /\ apc' = "send"
    /\ UNCHANGED <<handles, reply, health, backoff, connVars>>

\* recv returns None, serving or backing off.  (The mistake: the delay is slept
\* without a look at the channel.)
ClosedWhenServing ==
    /\ apc = "recv"
    /\ queue = <<>> /\ ~handles
    /\ apc' = "gone"
    /\ UNCHANGED <<handles, queue, reply, cmd, left, health, backoff, connVars>>

Closed ==
    /\ apc \in {"recv", "backoff"}
    /\ queue = <<>> /\ ~handles
    /\ apc' = "gone"
    /\ UNCHANGED <<handles, queue, reply, cmd, left, health, backoff, connVars>>

\* The command, whichever it is, is answered with Disconnected.
FailCommand(command) == reply' = [reply EXCEPT ![command.client] = "disconnected"]

\* sleep_draining: commands that arrive are failed.  (The mistake: they wait.)
DrainNothing == UNCHANGED vars

Drain ==
    /\ apc = "backoff" /\ queue # <<>>
    /\ FailCommand(Head(queue))
    /\ queue' = Tail(queue)
    /\ UNCHANGED <<handles, connVars, actorVars>>

BackoffOver ==
    /\ apc = "backoff"
    /\ apc' = "connect"
    /\ UNCHANGED <<handles, queue, reply, cmd, left, health, backoff, connVars>>

-----------------------------------------------------------------------------
(* The exchanges of the current command.                                   *)
Send ==
    /\ apc = "send"
    /\ Len(asked) + Len(wire) < MaxLines
    /\ asked' = Append(asked, Expected("first"))
    /\ apc' = "read"
    /\ UNCHANGED <<handles, queue, reply, cmd, left, wire, late, health, backoff>>

\* The command is over, the connection stays.  Any reply is a success of the
\* connection, an error of the rig too.
Finish(result) ==
    /\ Answer(result)
    /\ RecordSuccess
    /\ apc' = "recv"
    /\ UNCHANGED backoff

\* On to the next exchange, or done.
Proceed ==
    IF Len(left) = 1 THEN Finish("ok")
    ELSE /\ left' = Tail(left)
         /\ apc' = "send"
         /\ UNCHANGED <<reply, cmd, health, backoff>>

GotoRead(step) ==
    apc' = step /\ UNCHANGED <<reply, cmd, left, health, backoff>>

\* An RFPOWER error within a poll only leaves the power out.
PowerOptional == cmd.kind = "poll" /\ Head(left) = "l"

\* A report of success answers a set; to the other exchanges it is an error.
IsError(x, text) == text = "err" \/ (text = "RPRT 0" /\ x \notin {"F", "M"})

\* What the exchange makes of a first line, its own or not.
Read ==
    /\ apc = "read" /\ wire # <<>>
    /\ wire' = Tail(wire)
    /\ LET text == Head(wire).text
           x    == Head(left)
       IN  CASE IsError(x, text) -> IF PowerOptional THEN Proceed ELSE Finish("err")
             [] ~IsError(x, text) /\ x = "m" -> GotoRead(IF text = "empty" THEN "drain" ELSE "width")
             [] x # "m" /\ text \in Parses(x) -> Proceed
             [] OTHER -> Finish("bad")
    /\ UNCHANGED <<handles, queue, asked, late>>

\* The passband line.
ReadWidth ==
    /\ apc = "width" /\ wire # <<>>
    /\ wire' = Tail(wire)
    /\ Proceed
    /\ UNCHANGED <<handles, queue, asked, late>>

\* The passband line after an empty mode: its absence is ignored.  It may not be
\* sent at all, or come after the read has timed out.
DrainWidth ==
    /\ apc = "drain"
    /\ \/ wire # <<>> /\ wire' = Tail(wire) /\ UNCHANGED <<asked, late>>
       \/ wire = <<>> /\ asked' = <<>> /\ UNCHANGED <<wire, late>>
       \/ wire = <<>> /\ late < MaxLate /\ late' = late + 1 /\ UNCHANGED <<asked, wire>>
    /\ Finish("bad")
    /\ UNCHANGED <<handles, queue>>

\* A read times out, or the connection breaks while sending or reading.
\* (The mistakes: the connection is kept; the failed command is tried again.)
IoFailureKept ==
    /\ apc \in {"send", "read", "width"}
    /\ Answer("disconnected")
    /\ RecordFailure("unresponsive")
    /\ apc' = "recv"
    /\ UNCHANGED <<handles, queue, backoff, connVars>>

IoFailureRetried ==
    /\ apc \in {"send", "read", "width"}
    /\ Answer("disconnected")
    /\ RecordFailure("unresponsive")
    /\ BackOff
    /\ queue' = <<cmd>> \o queue
    /\ UNCHANGED <<handles, connVars>>

IoFailure ==
    /\ apc \in {"send", "read", "width"}
    /\ Answer("disconnected")
    /\ RecordFailure("unresponsive")
    /\ BackOff
    /\ UNCHANGED <<handles, queue, connVars>>

\* External: rigctld sends the next line of its answers.
Respond ==
    /\ asked # <<>>
    /\ apc \notin {"connect", "backoff", "gone"}
    /\ LET next == Head(asked) IN
       \E text \in IF next.line = "width" THEN WidthLines ELSE FirstLines(next.x) :
          /\ wire' = Append(wire, [to |-> next, text |-> text])
          /\ asked' = IF next.line = "first" /\ HasWidth(next.x, text)
                      THEN <<[next EXCEPT !.line = "width"]>> \o Tail(asked)
                      ELSE Tail(asked)
    /\ UNCHANGED <<handles, queue, reply, late, actorVars>>

-----------------------------------------------------------------------------
Actor == \/ Connect \/ ConnectFails \/ Take \/ Closed \/ Drain \/ BackoffOver
         \/ Send \/ Read \/ ReadWidth \/ DrainWidth \/ IoFailure

Next == \/ \E c \in Clients, kind \in Kinds : Request(c, kind)
        \/ DropHandles
        \/ Actor
        \/ Respond

Spec == Init /\ [][Next]_vars

\* Connecting, reading and the delay are bounded by time, so that the actor
\* always gets on.  A delay is at least half a second: what the channel holds
\* cannot lose the race with it again and again.
FairSpec == Spec /\ WF_vars(Actor) /\ SF_vars(Drain) /\ SF_vars(Closed)

-----------------------------------------------------------------------------
(* Properties.                                                             *)

TypeOK ==
    /\ handles \in BOOLEAN
    /\ queue \in Seq(Command) /\ Len(queue) <= ChannelCapacity
    /\ reply \in [Clients -> {"none", "waiting", "ok", "err", "bad", "disconnected"}]
    /\ apc \in {"connect", "recv", "send", "read", "width", "drain", "backoff", "gone"}
    /\ cmd \in Command \cup {None}
    /\ left \in Seq(Letter)
    /\ asked \in Seq(Exchange) /\ wire \in Seq(LineRead) /\ late \in 0..MaxLate
    /\ health \in [kind : {"healthy", "unreachable", "unresponsive"},
                   failures : 0..SlowAfterFailures]
    /\ backoff \in 0..LastBackoff

\* "Responses line up positionally with the commands that produced them"
\* (rigctld.rs:5-8): the line an exchange reads is one rigctld sent for it, the
\* first of its answer first.
ResponsesLineUp ==
    wire # <<>> =>
        /\ apc = "read"  => Head(wire).to = Expected("first")
        /\ apc = "width" => Head(wire).to = Expected("width")

\* So they do on every connection, whatever failed or timed out on it or before
\* it, and nothing is left between two exchanges, until a passband line comes
\* after the read that drains it.
Positional ==
    late = 0 => ResponsesLineUp /\ (apc \in {"recv", "send"} => wire = <<>>)

\* Every queued or running command has a caller that waits, and every caller
\* that waits has exactly one command queued or running.
OneCommandPerCaller ==
    \A c \in Clients :
        LET pending == {i \in DOMAIN queue : queue[i].client = c}
            running == cmd # None /\ cmd.client = c
        IN  IF reply[c] = "waiting"
              THEN (pending = {} <=> running) /\ \A i, j \in pending : i = j
              ELSE pending = {} /\ ~running

\* A degraded rig is only reported healthy again by a command it answered:
\* a fresh connection proves nothing.
RecoveryNeedsAnswer ==
    [][health.kind # "healthy" /\ health'.kind = "healthy" =>
          \E c \in Clients : reply[c] = "waiting" /\ reply'[c] \in {"ok", "err", "bad"}]_vars

\* Whatever rigctld and the network do, every caller gets a reply.
EveryCallAnswered ==
    \A c \in Clients : reply[c] = "waiting" ~> reply[c] # "waiting"

\* The actor ends once the last handle is dropped.
ActorEnds == ~handles ~> apc = "gone"

=============================================================================
