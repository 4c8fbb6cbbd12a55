--------------------------- MODULE RigActorProofs ---------------------------
(***************************************************************************)
(* Proofs about RigActor, for any callers, commands and capacity of the    *)
(* channel: its type invariant, that every caller that waits has exactly   *)
(* one command, that only a command the rig answered ends a degraded       *)
(* streak, and that the lines read are those of the exchange that reads    *)
(* them, on a connection on which none has come late.                      *)
(***************************************************************************)
EXTENDS RigActor, TLAPS

Running == {"send", "read", "width", "drain"}

\* A command is under way, with exchanges left, exactly in these places.
Shape ==
    /\ apc \in Running => cmd \in Command /\ left # <<>>
    /\ apc \notin Running => cmd = None

Typed == TypeOK /\ Shape

\* No two commands, queued or running, have the same caller.
Distinct ==
    /\ \A i, j \in DOMAIN queue : queue[i].client = queue[j].client => i = j
    /\ cmd # None => \A i \in DOMAIN queue : queue[i].client # cmd.client

\* Their callers wait, and no other does.
Awaited ==
    /\ \A i \in DOMAIN queue : reply[queue[i].client] = "waiting"
    /\ cmd # None => reply[cmd.client] = "waiting"
    /\ \A c \in Clients : reply[c] = "waiting" =>
          \/ \E i \in DOMAIN queue : queue[i].client = c
          \/ cmd # None /\ cmd.client = c

Owned == Distinct /\ Awaited

\* The health as TypeOK has it.
HealthStates == [kind : {"healthy", "unreachable", "unresponsive"},
                 failures : 0..SlowAfterFailures]

-----------------------------------------------------------------------------
(* The exchanges of a command.                                             *)

\* What is left of a sequence of more than one element.
LEMMA TailOfMany ==
    ASSUME NEW S, NEW s \in Seq(S), s # <<>>, Len(s) # 1
    PROVE  Tail(s) \in Seq(S) /\ Tail(s) # <<>>
<1>1. Tail(s) \in Seq(S) /\ Len(Tail(s)) = Len(s) - 1
  OBVIOUS
<1>2. Len(s) - 1 # 0
  OBVIOUS
<1>3. Tail(s) # <<>>
  BY <1>1, <1>2
<1> QED BY <1>1, <1>3

\* A command has at least one exchange.
LEMMA ExchangesType ==
    ASSUME NEW kind \in Kinds
    PROVE  Exchanges(kind) \in Seq(Letter) /\ Exchanges(kind) # <<>>
<1>1. CASE kind = "freq"
  BY <1>1 DEF Exchanges, Letter
<1>2. CASE kind = "mode"
  BY <1>2 DEF Exchanges, Letter
<1>3. CASE kind = "power"
  BY <1>3 DEF Exchanges, Letter
<1>4. CASE kind = "poll"
  BY <1>4 DEF Exchanges, Letter
<1>5. CASE kind = "set"
  BY <1>5 DEF Exchanges, Letter
<1>6. CASE kind = "tune"
  BY <1>6 DEF Exchanges, Letter
<1> QED BY <1>1, <1>2, <1>3, <1>4, <1>5, <1>6, ActorAssumption

\* What is asked of rigctld is an exchange.
LEMMA ExpectedType ==
    ASSUME Typed, apc \in Running, NEW line \in {"first", "width"}
    PROVE  Expected(line) \in Exchange
<1>1. cmd \in Command /\ left \in Seq(Letter) /\ left # <<>>
  BY DEF Typed, TypeOK, Shape
<1>2. cmd.client \in Clients /\ Head(left) \in Letter
  BY <1>1 DEF Command
<1> QED BY <1>2 DEF Expected, Exchange

\* The end of a command: its caller has its result.
Ended ==
    /\ \E r \in {"ok", "err", "bad", "disconnected"} : Answer(r)
    /\ apc' \notin Running

\* The command goes on, with exchanges left.
GoesOn ==
    /\ apc' \in Running
    /\ left' \in Seq(Letter) /\ left' # <<>>
    /\ UNCHANGED <<cmd, reply>>

\* What the actor's variables may be after a step within a command.
LEMMA StepOfCommand ==
    ASSUME Typed, apc \in Running, Ended \/ GoesOn
    PROVE  /\ reply' \in [Clients -> {"none", "waiting", "ok", "err", "bad", "disconnected"}]
           /\ cmd' \in Command \cup {None}
           /\ left' \in Seq(Letter)
           /\ apc' \in Running => cmd' \in Command /\ left' # <<>>
           /\ apc' \notin Running => cmd' = None
<1> USE DEF Typed, TypeOK, Shape
<1>1. CASE Ended
  <2>1. PICK r \in {"ok", "err", "bad", "disconnected"} : Answer(r)
    BY <1>1 DEF Ended
  <2>2. cmd' = None /\ left' = <<>> /\ apc' \notin Running
    BY <1>1, <2>1 DEF Ended, Answer
  <2>3. reply' \in [Clients -> {"none", "waiting", "ok", "err", "bad", "disconnected"}]
    BY <2>1 DEF Answer
  <2> QED BY <2>2, <2>3
<1>2. CASE GoesOn
  BY <1>2 DEF GoesOn
<1> QED BY <1>1, <1>2

\* Health is recorded within its type, and the backoff index within its bound.
LEMMA HealthType ==
    ASSUME Typed
    PROVE  /\ RecordSuccess => health' \in HealthStates
           /\ \A kind \in {"unreachable", "unresponsive"} :
                 RecordFailure(kind) => health' \in HealthStates
<1>1. RecordSuccess => health' \in HealthStates
  BY DEF RecordSuccess, Healthy, HealthStates, SlowAfterFailures
<1>2. ASSUME NEW kind \in {"unreachable", "unresponsive"}, RecordFailure(kind)
      PROVE  health' \in HealthStates
  <2> DEFINE n == IF health.kind = kind
                  THEN Capped(health.failures + 1, SlowAfterFailures) ELSE 1
  <2>1. health.failures \in 0..3
    BY DEF Typed, TypeOK, SlowAfterFailures
  <2>2. n \in 0..SlowAfterFailures
    BY <2>1 DEF Capped, SlowAfterFailures
  <2>3. health' = [kind |-> kind, failures |-> n]
    BY <1>2 DEF RecordFailure
  <2> HIDE DEF n
  <2> QED BY <2>2, <2>3 DEF HealthStates
<1> QED BY <1>1, <1>2

\* Proceed, Finish and GotoRead, the outcomes of reading a line.
Outcome ==
    \/ Proceed
    \/ \E r \in {"ok", "err", "bad"} : Finish(r)
    \/ \E step \in {"width", "drain"} : GotoRead(step)

\* What they leave behind.
LEMMA OutcomeFacts ==
    ASSUME Typed, apc \in Running, Outcome
    PROVE  /\ Ended \/ GoesOn
           /\ health' \in HealthStates
           /\ backoff' = backoff
           /\ apc' \in {"recv", "send", "width", "drain"}
<1> USE DEF Typed, TypeOK, Shape, Running
<1>1. ASSUME NEW r \in {"ok", "err", "bad"}, Finish(r)
      PROVE  Ended /\ health' \in HealthStates /\ backoff' = backoff /\ apc' = "recv"
  BY <1>1, HealthType DEF Finish, Ended
<1>2. ASSUME NEW step \in {"width", "drain"}, GotoRead(step)
      PROVE  GoesOn /\ health' \in HealthStates /\ backoff' = backoff /\ apc' = step
  BY <1>2 DEF GotoRead, GoesOn, HealthStates
<1>3. CASE Proceed /\ Len(left) = 1
  BY <1>1, <1>3 DEF Proceed
<1>4. CASE Proceed /\ Len(left) # 1
  <2>1. left' = Tail(left) /\ apc' = "send" /\ UNCHANGED <<reply, cmd, health, backoff>>
    BY <1>4 DEF Proceed
  <2>2. Tail(left) \in Seq(Letter) /\ Tail(left) # <<>>
    <3> HIDE DEF Typed, TypeOK, Shape, Running
    <3>1. left \in Seq(Letter) /\ left # <<>> /\ Len(left) # 1
      BY <1>4 DEF Typed, TypeOK, Shape
    <3> QED BY <3>1, TailOfMany
  <2> QED BY <2>1, <2>2 DEF GoesOn, HealthStates
<1> QED BY <1>1, <1>2, <1>3, <1>4 DEF Outcome

-----------------------------------------------------------------------------
(* Type correctness.                                                       *)

\* The initial states.
LEMMA InitTyped == Init => Typed
<1> SUFFICES ASSUME Init PROVE Typed
  OBVIOUS
<1> USE DEF Init
<1>1. health \in HealthStates /\ backoff \in 0..LastBackoff
  BY DEF Healthy, HealthStates, SlowAfterFailures, LastBackoff
<1>2. queue \in Seq(Command) /\ Len(queue) <= ChannelCapacity
  BY ActorAssumption
<1>3. /\ left \in Seq(Letter) /\ asked \in Seq(Exchange) /\ wire \in Seq(LineRead)
      /\ late \in 0..MaxLate
  BY ActorAssumption
<1> QED BY <1>1, <1>2, <1>3 DEF Typed, TypeOK, Shape, Running, HealthStates

\* The steps of the callers.
LEMMA ClientTyped ==
    ASSUME Typed, (\E c \in Clients, kind \in Kinds : Request(c, kind)) \/ DropHandles
    PROVE  Typed'
<1> USE DEF Typed, TypeOK, Shape, Running, connVars, actorVars
<1>1. ASSUME NEW c \in Clients, NEW kind \in Kinds, Request(c, kind)
      PROVE  Typed'
  <2> DEFINE new == [client |-> c, kind |-> kind]
  <2>1. new \in Command
    BY DEF Command
  <2>2. queue' = Append(queue, new) /\ Len(queue) < ChannelCapacity
    BY <1>1 DEF Request
  <2> HIDE DEF new
  <2>3. queue' \in Seq(Command) /\ Len(queue') <= ChannelCapacity
    BY <2>1, <2>2, ActorAssumption
  <2> QED BY <1>1, <2>3 DEF Request
<1>2. CASE DropHandles
  BY <1>2 DEF DropHandles
<1> QED BY <1>1, <1>2

\* The head of the queue is taken or failed.
LEMMA QueueTail ==
    ASSUME Typed, queue # <<>>
    PROVE  /\ Head(queue) \in Command
           /\ Tail(queue) \in Seq(Command) /\ Len(Tail(queue)) <= ChannelCapacity
           /\ Len(Tail(queue)) = Len(queue) - 1
           /\ \A i \in 1..(Len(queue) - 1) : Tail(queue)[i] = queue[i + 1]
<1>1. queue \in Seq(Command) /\ Len(queue) <= ChannelCapacity
  BY DEF Typed, TypeOK
<1> QED BY <1>1, ActorAssumption

\* The steps between two commands.
LEMMA IdleTyped ==
    ASSUME Typed, Connect \/ ConnectFails \/ Take \/ Closed \/ Drain \/ BackoffOver
    PROVE  Typed'
<1> USE DEF Typed, TypeOK, Shape, Running, connVars, actorVars
<1>1. CASE Connect
  <2>1. late' \in 0..MaxLate /\ backoff' \in 0..LastBackoff
    BY <1>1, ActorAssumption DEF Connect, LastBackoff
  <2>2. asked' \in Seq(Exchange) /\ wire' \in Seq(LineRead)
    BY <1>1 DEF Connect
  <2> QED BY <1>1, <2>1, <2>2 DEF Connect
<1>2. CASE ConnectFails
  <2>1. health' \in HealthStates
    BY <1>2, HealthType DEF ConnectFails
  <2>2. backoff' \in 0..LastBackoff /\ apc' = "backoff"
    BY <1>2 DEF ConnectFails, BackOff, Capped, LastBackoff
  <2> QED BY <1>2, <2>1, <2>2 DEF ConnectFails, HealthStates
<1>3. CASE Take
  <2>1. cmd' \in Command /\ queue' \in Seq(Command) /\ Len(queue') <= ChannelCapacity
    BY <1>3, QueueTail DEF Take
  <2>2. left' \in Seq(Letter) /\ left' # <<>>
    BY <1>3, <2>1, ExchangesType DEF Take, Command
  <2> QED BY <1>3, <2>1, <2>2 DEF Take
<1>4. CASE Closed
  BY <1>4 DEF Closed
<1>5. CASE Drain
  <2>1. queue' \in Seq(Command) /\ Len(queue') <= ChannelCapacity
    BY <1>5, QueueTail DEF Drain, FailCommand
  <2> QED BY <1>5, <2>1 DEF Drain, FailCommand
<1>6. CASE BackoffOver
  BY <1>6 DEF BackoffOver
<1> QED BY <1>1, <1>2, <1>3, <1>4, <1>5, <1>6

\* The steps within a command.
LEMMA CommandTyped ==
    ASSUME Typed, Send \/ Read \/ ReadWidth \/ DrainWidth \/ IoFailure
    PROVE  Typed'
<1>1. CASE Send
  <2>1. asked' \in Seq(Exchange)
    <3>1. asked \in Seq(Exchange) /\ Expected("first") \in Exchange
      BY <1>1, ExpectedType DEF Send, Typed, TypeOK, Running
    <3> QED BY <1>1, <3>1 DEF Send
  <2> QED BY <1>1, <2>1 DEF Send, Typed, TypeOK, Shape, Running
<1>2. ASSUME Outcome, apc \in Running, UNCHANGED <<handles, queue>>,
             asked' \in Seq(Exchange), wire' \in Seq(LineRead), late' \in 0..MaxLate
      PROVE  Typed'
  BY <1>2, OutcomeFacts, StepOfCommand DEF Typed, TypeOK, Shape, Running, HealthStates
<1>3. wire # <<>> => Tail(wire) \in Seq(LineRead)
  BY DEF Typed, TypeOK
<1>4. asked \in Seq(Exchange) /\ wire \in Seq(LineRead) /\ late \in 0..MaxLate
  BY DEF Typed, TypeOK
<1>5. CASE Read
  <2>1. Outcome
    BY <1>5 DEF Read, Outcome
  <2> QED BY <1>2, <1>3, <1>4, <1>5, <2>1 DEF Read, Running
<1>6. CASE ReadWidth
  BY <1>2, <1>3, <1>4, <1>6 DEF ReadWidth, Running, Outcome
<1>7. CASE DrainWidth
  <2>1. asked' \in Seq(Exchange) /\ wire' \in Seq(LineRead)
    <3>1. \/ wire # <<>> /\ wire' = Tail(wire) /\ asked' = asked
          \/ wire' = wire /\ asked' = <<>>
          \/ wire' = wire /\ asked' = asked
      BY <1>7 DEF DrainWidth
    <3>2. asked' \in Seq(Exchange)
      <4>1. CASE asked' = <<>>
        <5>1. <<>> \in Seq(Exchange)
          OBVIOUS
        <5> QED BY <4>1, <5>1
      <4>2. CASE asked' = asked
        BY <1>4, <4>2
      <4> QED BY <3>1, <4>1, <4>2
    <3>3. wire' \in Seq(LineRead)
      BY <1>3, <1>4, <3>1
    <3> QED BY <3>2, <3>3
  <2>2. late' \in 0..MaxLate
    BY <1>4, <1>7, ActorAssumption DEF DrainWidth
  <2> QED BY <1>2, <1>7, <2>1, <2>2 DEF DrainWidth, Running, Outcome
<1>8. CASE IoFailure
  <2>1. Ended /\ apc \in Running
    BY <1>8 DEF IoFailure, Ended, BackOff, Running
  <2>2. health' \in HealthStates
    BY <1>8, HealthType DEF IoFailure
  <2>3. backoff' \in 0..LastBackoff /\ apc' = "backoff"
    BY <1>8 DEF IoFailure, BackOff, Capped, LastBackoff, Typed, TypeOK
  <2> QED BY <1>8, <2>1, <2>2, <2>3, StepOfCommand
          DEF IoFailure, Typed, TypeOK, Shape, Running, connVars, HealthStates
<1> QED BY <1>1, <1>5, <1>6, <1>7, <1>8

\* rigctld's next line.
LEMMA RespondTyped ==
    ASSUME Typed, Respond
    PROVE  Typed'
<1> DEFINE next == Head(asked)
<1>1. asked \in Seq(Exchange) /\ asked # <<>> /\ wire \in Seq(LineRead)
  BY DEF Respond, Typed, TypeOK
<1>2. next \in Exchange /\ Tail(asked) \in Seq(Exchange)
  BY <1>1
<1>3. PICK text \in IF next.line = "width" THEN WidthLines ELSE FirstLines(next.x) :
          /\ wire' = Append(wire, [to |-> next, text |-> text])
          /\ asked' = IF next.line = "first" /\ HasWidth(next.x, text)
                      THEN <<[next EXCEPT !.line = "width"]>> \o Tail(asked)
                      ELSE Tail(asked)
  BY DEF Respond
<1> HIDE DEF next
<1>4. text \in Text
  <2>1. next.line = "width" \/ text \in FirstLines(next.x)
    BY <1>3
  <2>2. next.x \in Letter
    BY <1>2 DEF Exchange
  <2>3. FirstLines(next.x) \subseteq Text
    BY <2>2 DEF FirstLines, Letter, Text
  <2>4. WidthLines \subseteq Text
    BY DEF WidthLines, Text
  <2> QED BY <1>3, <2>1, <2>3, <2>4
<1>5. wire' \in Seq(LineRead)
  <2>1. [to |-> next, text |-> text] \in LineRead
    BY <1>2, <1>4 DEF LineRead
  <2> QED BY <1>1, <1>3, <2>1
<1>6. asked' \in Seq(Exchange)
  <2>1. [next EXCEPT !.line = "width"] \in Exchange
    BY <1>2 DEF Exchange
  <2>2. <<[next EXCEPT !.line = "width"]>> \o Tail(asked) \in Seq(Exchange)
    BY <1>2, <2>1
  <2> QED BY <1>2, <1>3, <2>2
<1> QED BY <1>5, <1>6 DEF Respond, Typed, TypeOK, Shape, actorVars

\* Every step keeps the types.
LEMMA NextTyped ==
    ASSUME Typed, [Next]_vars
    PROVE  Typed'
<1>1. CASE UNCHANGED vars
  BY <1>1 DEF vars, connVars, actorVars, Typed, TypeOK, Shape
<1> QED BY <1>1, ClientTyped, IdleTyped, CommandTyped, RespondTyped DEF Next, Actor

\* Every variable of the actor, its callers and the connection keeps its type:
\* the channel never holds more than its capacity, the backoff index and the
\* count of failures stay within their bounds.
THEOREM RigTypeCorrect == Spec => []TypeOK
<1>1. Init => Typed
  BY InitTyped
<1>2. Typed /\ [Next]_vars => Typed'
  BY NextTyped
<1>3. Typed => TypeOK
  BY DEF Typed
<1> QED BY <1>1, <1>2, <1>3, PTL DEF Spec

-----------------------------------------------------------------------------
(* Callers and their commands.                                             *)

\* Commands come from callers.
LEMMA QueueClients ==
    ASSUME Typed
    PROVE  \A i \in DOMAIN queue : queue[i].client \in Clients
<1>1. \A i \in DOMAIN queue : queue[i] \in Command
  BY DEF Typed, TypeOK
<1> QED BY <1>1 DEF Command

\* Most steps touch neither a command nor a reply.
LEMMA OwnedKept ==
    ASSUME Owned, UNCHANGED <<queue, cmd, reply>>
    PROVE  Owned'
BY DEF Owned, Distinct, Awaited

\* A caller sends its command and waits.
LEMMA RequestOwned ==
    ASSUME Typed, Owned, NEW c \in Clients, NEW kind \in Kinds, Request(c, kind)
    PROVE  Owned'
<1> DEFINE new == [client |-> c, kind |-> kind]
<1>1. queue' = Append(queue, new) /\ cmd' = cmd /\ reply[c] # "waiting"
  BY DEF Request, actorVars
<1>2. new.client = c
  OBVIOUS
<1> HIDE DEF new
<1>3. /\ DOMAIN queue = 1..Len(queue) /\ Len(queue) \in Nat
      /\ DOMAIN queue' = 1..(Len(queue) + 1)
      /\ \A i \in 1..Len(queue) : queue'[i] = queue[i]
      /\ queue'[Len(queue) + 1] = new
  BY <1>1 DEF Typed, TypeOK
<1>4. \A d \in Clients : reply'[d] = IF d = c THEN "waiting" ELSE reply[d]
  BY DEF Request, Typed, TypeOK
<1>5. \A i \in DOMAIN queue : queue[i].client \in Clients /\ queue[i].client # c
  BY <1>1, QueueClients DEF Owned, Awaited
<1>6. cmd # None => cmd.client \in Clients /\ cmd.client # c
  BY <1>1 DEF Owned, Awaited, Typed, TypeOK, Command
<1>7. Distinct'
  BY <1>1, <1>2, <1>3, <1>5, <1>6 DEF Owned, Distinct
<1>8. Awaited'
  <2>1. \A i \in DOMAIN queue' : reply'[queue'[i].client] = "waiting"
    BY <1>2, <1>3, <1>4, <1>5 DEF Owned, Awaited
  <2>2. cmd' # None => reply'[cmd'.client] = "waiting"
    BY <1>1, <1>4, <1>6 DEF Owned, Awaited
  <2>3. ASSUME NEW d \in Clients, reply'[d] = "waiting"
        PROVE  \/ \E i \in DOMAIN queue' : queue'[i].client = d
               \/ cmd' # None /\ cmd'.client = d
    <3>1. CASE d = c
      BY <1>2, <1>3, <3>1
    <3>2. CASE d # c
      BY <1>1, <1>3, <1>4, <2>3, <3>2 DEF Owned, Awaited
    <3> QED BY <3>1, <3>2
  <2> QED BY <2>1, <2>2, <2>3 DEF Awaited
<1> QED BY <1>7, <1>8 DEF Owned

\* The tail of a queue: everyone in it but the first.
LEMMA QueueShift ==
    ASSUME Typed, queue # <<>>, queue' = Tail(queue)
    PROVE  /\ 1 \in DOMAIN queue /\ Head(queue) = queue[1]
           /\ \A i \in DOMAIN queue' : /\ i + 1 \in DOMAIN queue
                                       /\ i + 1 # 1 /\ queue'[i] = queue[i + 1]
           /\ \A i \in DOMAIN queue : i # 1 => /\ i - 1 \in DOMAIN queue'
                                               /\ queue'[i - 1] = queue[i]
           /\ \A i, j \in DOMAIN queue' : i + 1 = j + 1 => i = j
<1>1. queue \in Seq(Command) /\ Len(queue) \in Nat /\ Len(queue) # 0
  BY DEF Typed, TypeOK
<1>2. DOMAIN queue = 1..Len(queue) /\ DOMAIN queue' = 1..(Len(queue) - 1)
  BY <1>1, QueueTail
<1>3. \A i \in 1..(Len(queue) - 1) : queue'[i] = queue[i + 1]
  BY QueueTail
<1>4. Head(queue) = queue[1]
  BY <1>1
<1> HIDE DEF Typed
<1> QED BY <1>1, <1>2, <1>3, <1>4

\* The actor takes the first command: it runs instead of waiting in the queue.
LEMMA TakeOwned ==
    ASSUME Typed, Owned, Take
    PROVE  Owned'
<1>1. /\ queue # <<>> /\ queue' = Tail(queue)
      /\ cmd = None /\ cmd' = Head(queue) /\ reply' = reply
  BY DEF Take, Typed, Shape, Running
<1>2. cmd' = queue[1]
  BY <1>1, QueueShift
<1>3. cmd' # None
  BY <1>1, QueueTail, NoneAssumption
<1>4. Distinct'
  BY <1>1, <1>2, QueueShift DEF Owned, Distinct
<1>5. Awaited'
  <2>1. \A i \in DOMAIN queue' : reply'[queue'[i].client] = "waiting"
    BY <1>1, QueueShift DEF Owned, Awaited
  <2>2. reply'[cmd'.client] = "waiting"
    BY <1>1, <1>2, QueueShift DEF Owned, Awaited
  <2>3. ASSUME NEW d \in Clients, reply'[d] = "waiting"
        PROVE  \/ \E i \in DOMAIN queue' : queue'[i].client = d
               \/ cmd' # None /\ cmd'.client = d
    <3>1. PICK i \in DOMAIN queue : queue[i].client = d
      BY <1>1, <2>3 DEF Owned, Awaited
    <3>2. CASE i = 1
      BY <1>2, <1>3, <3>1, <3>2
    <3>3. CASE i # 1
      BY <1>1, <3>1, <3>3, QueueShift
    <3> QED BY <3>2, <3>3
  <2> QED BY <2>1, <2>2, <2>3 DEF Awaited
<1> QED BY <1>4, <1>5 DEF Owned

\* A backoff fails the first command.
LEMMA DrainOwned ==
    ASSUME Typed, Owned, Drain
    PROVE  Owned'
<1> DEFINE c == Head(queue).client
<1>1. /\ queue # <<>> /\ queue' = Tail(queue)
      /\ cmd = None /\ cmd' = None
  BY DEF Drain, FailCommand, Typed, Shape, Running, actorVars
<1>2. c = queue[1].client /\ 1 \in DOMAIN queue
  BY <1>1, QueueShift
<1>3. \A d \in Clients : reply'[d] = IF d = c THEN "disconnected" ELSE reply[d]
  BY DEF Drain, FailCommand, Typed, TypeOK
<1> HIDE DEF c
<1>a. \A k \in DOMAIN queue : k # 1 => queue[k].client # c
  BY <1>2 DEF Owned, Distinct
<1>4. Distinct'
  BY <1>1, QueueShift DEF Owned, Distinct
<1>5. Awaited'
  <2>1. ASSUME NEW i \in DOMAIN queue'
        PROVE  reply'[queue'[i].client] = "waiting"
    <3>1. i + 1 \in DOMAIN queue /\ i + 1 # 1 /\ queue'[i] = queue[i + 1]
      BY <1>1, QueueShift
    <3>2. queue[i + 1].client # c
      BY <1>2, <1>a, <3>1
    <3>3. queue[i + 1].client \in Clients
      BY <3>1, QueueClients
    <3>4. reply[queue[i + 1].client] = "waiting"
      BY <3>1 DEF Owned, Awaited
    <3> QED BY <1>3, <3>1, <3>2, <3>3, <3>4
  <2>2. ASSUME NEW d \in Clients, reply'[d] = "waiting"
        PROVE  \E i \in DOMAIN queue' : queue'[i].client = d
    <3>1. d # c /\ reply[d] = "waiting"
      BY <1>3, <2>2
    <3>2. PICK i \in DOMAIN queue : queue[i].client = d
      BY <1>1, <3>1 DEF Owned, Awaited
    <3>3. i # 1
      BY <1>2, <3>1, <3>2
    <3> QED BY <1>1, <3>2, <3>3, QueueShift
  <2> QED BY <1>1, <2>1, <2>2 DEF Awaited
<1> QED BY <1>4, <1>5 DEF Owned

\* The command under way ends: its caller has its reply.
LEMMA EndedOwned ==
    ASSUME Typed, Owned, apc \in Running, Ended, queue' = queue
    PROVE  Owned'
<1> DEFINE c == cmd.client
<1>1. PICK r \in {"ok", "err", "bad", "disconnected"} : Answer(r)
  BY DEF Ended
<1>2. cmd # None /\ cmd' = None
  BY <1>1, NoneAssumption DEF Answer, Typed, Shape
<1>3. \A d \in Clients : reply'[d] = IF d = c THEN r ELSE reply[d]
  BY <1>1 DEF Answer, Typed, TypeOK
<1>4. r # "waiting"
  OBVIOUS
<1> HIDE DEF c
<1>5. \A i \in DOMAIN queue : queue[i].client \in Clients /\ queue[i].client # c
  BY <1>2, QueueClients DEF Owned, Distinct, c
<1>6. Distinct'
  BY <1>2 DEF Owned, Distinct
<1>7. Awaited'
  <2>1. \A i \in DOMAIN queue' : reply'[queue'[i].client] = "waiting"
    BY <1>3, <1>5 DEF Owned, Awaited
  <2>2. ASSUME NEW d \in Clients, reply'[d] = "waiting"
        PROVE  \E i \in DOMAIN queue' : queue'[i].client = d
    <3>1. d # c /\ reply[d] = "waiting"
      BY <1>3, <1>4, <2>2
    <3> QED BY <3>1 DEF Owned, Awaited, c
  <2> QED BY <1>2, <2>1, <2>2 DEF Awaited
<1> QED BY <1>6, <1>7 DEF Owned

\* Every step keeps callers and commands together.
LEMMA NextOwned ==
    ASSUME Typed, Owned, [Next]_vars
    PROVE  Owned'
<1>1. CASE UNCHANGED vars
  BY <1>1, OwnedKept DEF vars, actorVars
<1>2. ASSUME NEW c \in Clients, NEW kind \in Kinds, Request(c, kind)
      PROVE  Owned'
  BY <1>2, RequestOwned
<1>3. CASE DropHandles \/ Connect \/ ConnectFails \/ Closed \/ BackoffOver \/ Send \/ Respond
  BY <1>3, OwnedKept
     DEF DropHandles, Connect, ConnectFails, Closed, BackoffOver, Send, Respond, actorVars
<1>4. CASE Take \/ Drain
  BY <1>4, TakeOwned, DrainOwned
<1>5. CASE Read \/ ReadWidth \/ DrainWidth
  <2>1. Outcome /\ apc \in Running /\ queue' = queue
    BY <1>5 DEF Read, ReadWidth, DrainWidth, Outcome, Running
  <2> QED BY <2>1, OutcomeFacts, EndedOwned, OwnedKept DEF GoesOn
<1>6. CASE IoFailure
  <2>1. Ended /\ apc \in Running /\ queue' = queue
    BY <1>6 DEF IoFailure, Ended, BackOff, Running
  <2> QED BY <2>1, EndedOwned
<1> QED BY <1>1, <1>2, <1>3, <1>4, <1>5, <1>6 DEF Next, Actor

\* Every caller that waits has exactly one command, queued or running, and
\* every command a caller that waits: no reply is ever sent to nobody, and no
\* caller waits for a reply that cannot come, however the connection fails.
THEOREM OneCommandPerCallerAlways == Spec => []OneCommandPerCaller
<1> DEFINE Inv == Typed /\ Owned
<1>1. Init => Inv
  <2>1. Init => Owned
    BY DEF Init, Owned, Distinct, Awaited
  <2> QED BY <2>1, InitTyped
<1>2. Inv /\ [Next]_vars => Inv'
  BY NextTyped, NextOwned
<1>3. Inv => OneCommandPerCaller
  <2> SUFFICES ASSUME Typed, Owned, NEW c \in Clients
               PROVE  LET pending == {i \in DOMAIN queue : queue[i].client = c}
                          running == cmd # None /\ cmd.client = c
                      IN  IF reply[c] = "waiting"
                            THEN (pending = {} <=> running) /\ \A i, j \in pending : i = j
                            ELSE pending = {} /\ ~running
    BY DEF OneCommandPerCaller
  <2> QED BY DEF Owned, Distinct, Awaited
<1> QED BY <1>1, <1>2, <1>3, PTL DEF Spec

\* A degraded rig is only reported healthy again by a command it answered:
\* neither a connection nor a failure ends the streak.
THEOREM RecoveryNeedsAnswerAlways == Spec => RecoveryNeedsAnswer
<1> DEFINE Inv == Typed /\ Owned
           Step == health.kind # "healthy" /\ health'.kind = "healthy" =>
                     \E c \in Clients : reply[c] = "waiting" /\ reply'[c] \in {"ok", "err", "bad"}
<1>1. Init => Inv
  <2>1. Init => Owned
    BY DEF Init, Owned, Distinct, Awaited
  <2> QED BY <2>1, InitTyped
<1>2. Inv /\ [Next]_vars => Inv'
  BY NextTyped, NextOwned
<1>3. Inv /\ [Next]_vars => [Step]_vars
  <2> SUFFICES ASSUME Typed, Owned, Next, health.kind # "healthy", health'.kind = "healthy"
               PROVE  \E c \in Clients : reply[c] = "waiting" /\ reply'[c] \in {"ok", "err", "bad"}
    OBVIOUS
  <2>1. health' # health
    OBVIOUS
  <2>2. ASSUME NEW kind \in {"unreachable", "unresponsive"}, RecordFailure(kind)
        PROVE  FALSE
    BY <2>2 DEF RecordFailure
  <2>3. apc \in Running /\ Outcome
    BY <2>1, <2>2 DEF Next, Actor, Request, DropHandles, Connect, ConnectFails, Take, Closed,
          Drain, FailCommand, BackoffOver, Send, IoFailure, Respond, Read, ReadWidth, DrainWidth,
          Outcome, Running, actorVars
  <2>4. PICK r \in {"ok", "err", "bad"} : Finish(r)
    BY <2>1, <2>3 DEF Outcome, Proceed, GotoRead
  <2>5. cmd \in Command /\ cmd # None
    BY <2>3, NoneAssumption DEF Typed, Shape
  <2>6. cmd.client \in Clients /\ reply[cmd.client] = "waiting"
    BY <2>5 DEF Command, Owned, Awaited
  <2>7. reply'[cmd.client] = r
    BY <2>4, <2>6 DEF Finish, Answer, Typed, TypeOK
  <2> QED BY <2>6, <2>7
<1> QED BY <1>1, <1>2, <1>3, PTL DEF Spec, RecoveryNeedsAnswer

-----------------------------------------------------------------------------
(* Lines and exchanges.                                                    *)

\* rigctld's lines for the current exchange.
WidthLine   == [to |-> Expected("width"), text |-> "number"]
FirstLine(text) == [to |-> Expected("first"), text |-> text]

\* The width is still to come, or has.
WidthDue ==
    \/ wire = <<>> /\ asked = <<Expected("width")>>
    \/ wire = <<WidthLine>> /\ asked = <<>>

\* So is the whole answer; or its first line has come, perhaps the width too.
AnswerDue ==
    \/ wire = <<>> /\ asked = <<Expected("first")>>
    \/ \E text \in FirstLines(Head(left)) :
          IF HasWidth(Head(left), text)
            THEN \/ wire = <<FirstLine(text)>> /\ asked = <<Expected("width")>>
                 \/ wire = <<FirstLine(text), WidthLine>> /\ asked = <<>>
            ELSE wire = <<FirstLine(text)>> /\ asked = <<>>

\* On a connection in use and without late lines, what rigctld has sent or will
\* send is what the current exchange has yet to read, and between exchanges it is
\* nothing.
Aligned == late = 0 =>
    /\ apc \in {"recv", "send"} => wire = <<>> /\ asked = <<>>
    /\ apc = "read" => AnswerDue
    /\ apc \in {"width", "drain"} => WidthDue

\* Two sequences of two elements.
LEMMA SeqEqual ==
    ASSUME NEW S, NEW s \in Seq(S), NEW t \in Seq(S), Len(s) = 2, Len(t) = 2,
           s[1] = t[1], s[2] = t[2]
    PROVE  s = t
<1>1. \A i \in 1..2 : s[i] = t[i]
  OBVIOUS
<1> QED BY <1>1

\* A line behind another.
LEMMA AppendSecond ==
    ASSUME NEW a, NEW b
    PROVE  Append(<<a>>, b) = <<a, b>>
<1> DEFINE S == {a, b}
           s == Append(<<a>>, b)
<1>1. <<a>> \in Seq(S) /\ <<a, b>> \in Seq(S) /\ b \in S
  OBVIOUS
<1>2. s \in Seq(S) /\ Len(s) = 2 /\ s[1] = a /\ s[2] = b
  BY <1>1
<1>3. Len(<<a, b>>) = 2 /\ <<a, b>>[1] = a /\ <<a, b>>[2] = b
  OBVIOUS
<1> HIDE DEF s, S
<1>4. s = <<a, b>>
  BY <1>1, <1>2, <1>3, SeqEqual
<1> QED BY <1>4 DEF s

\* The lines that are read and left.
LEMMA ReadFirst ==
    ASSUME NEW a, NEW b
    PROVE  /\ Head(<<a>>) = a /\ Tail(<<a>>) = <<>>
           /\ Head(<<a, b>>) = a /\ Tail(<<a, b>>) = <<b>>
OBVIOUS

\* rigctld sends a line: it moves from what is asked to what can be read.
LEMMA RespondAligned ==
    ASSUME Aligned, Respond
    PROVE  Aligned'
<1> SUFFICES ASSUME late = 0 PROVE Aligned'
  BY DEF Respond, Aligned
<1> DEFINE next == Head(asked)
<1>1. /\ UNCHANGED <<apc, cmd, left>>
      /\ asked # <<>> /\ apc \notin {"connect", "backoff", "gone"}
  BY DEF Respond, actorVars
<1>2. PICK text \in IF next.line = "width" THEN WidthLines ELSE FirstLines(next.x) :
          /\ wire' = Append(wire, [to |-> next, text |-> text])
          /\ asked' = IF next.line = "first" /\ HasWidth(next.x, text)
                      THEN <<[next EXCEPT !.line = "width"]>> \o Tail(asked)
                      ELSE Tail(asked)
  BY DEF Respond
<1>3. /\ Expected("first").line = "first" /\ Expected("first").x = Head(left)
      /\ [Expected("first") EXCEPT !.line = "width"] = Expected("width")
      /\ Expected("width").line = "width"
  BY DEF Expected
<1>4. UNCHANGED <<Expected("first"), Expected("width"), WidthLine, Head(left)>>
  BY <1>1 DEF Expected, WidthLine
<1>5. ASSUME wire = <<>>, asked = <<Expected("width")>>
      PROVE  wire' = <<WidthLine>> /\ asked' = <<>>
  <2>1. next = Expected("width") /\ Tail(asked) = <<>>
    BY <1>5
  <2>2. text = "number"
    BY <1>2, <1>3, <2>1 DEF WidthLines
  <2> QED BY <1>2, <1>3, <1>5, <2>1, <2>2 DEF WidthLine
<1>6. CASE apc = "read" /\ wire = <<>> /\ asked = <<Expected("first")>>
  <2>1. next = Expected("first") /\ Tail(asked) = <<>>
    BY <1>6
  <2>2. text \in FirstLines(Head(left))
    BY <1>2, <1>3, <2>1
  <2>3. wire' = <<FirstLine(text)>>
    BY <1>2, <1>6, <2>1 DEF FirstLine
  <2>4. asked' = IF HasWidth(Head(left), text) THEN <<Expected("width")>> ELSE <<>>
    <3>1. <<Expected("width")>> \o <<>> = <<Expected("width")>>
      OBVIOUS
    <3> HIDE DEF next
    <3> QED BY <1>2, <1>3, <2>1, <3>1
  <2>5. FirstLine(text)' = FirstLine(text)
    BY <1>4 DEF FirstLine
  <2> QED BY <1>1, <1>4, <1>6, <2>2, <2>3, <2>4, <2>5 DEF Aligned, AnswerDue
<1>7. CASE apc = "read" /\ ~(wire = <<>> /\ asked = <<Expected("first")>>)
  <2>1. PICK t \in FirstLines(Head(left)) :
           /\ HasWidth(Head(left), t)
           /\ wire = <<FirstLine(t)>> /\ asked = <<Expected("width")>>
    BY <1>1, <1>7 DEF Aligned, AnswerDue
  <2>2. next = Expected("width") /\ Tail(asked) = <<>>
    BY <2>1
  <2>3. text = "number"
    BY <1>2, <1>3, <2>2 DEF WidthLines
  <2>4. wire' = <<FirstLine(t), WidthLine>> /\ asked' = <<>>
    <3>1. Append(<<FirstLine(t)>>, WidthLine) = <<FirstLine(t), WidthLine>>
      BY AppendSecond
    <3>2. wire' = Append(wire, WidthLine) /\ asked' = Tail(asked)
      BY <1>2, <1>3, <2>2, <2>3 DEF WidthLine
    <3> QED BY <2>1, <2>2, <3>1, <3>2
  <2>5. FirstLine(t)' = FirstLine(t)
    BY <1>4 DEF FirstLine
  <2> QED BY <1>1, <1>4, <1>7, <2>1, <2>4, <2>5 DEF Aligned, AnswerDue
<1>8. CASE apc \in {"width", "drain"}
  BY <1>1, <1>4, <1>5, <1>8 DEF Aligned, WidthDue
<1> QED BY <1>1, <1>6, <1>7, <1>8 DEF Aligned

\* The steps that neither read nor send.
LEMMA BetweenAligned ==
    ASSUME Typed, Aligned,
           \/ \E c \in Clients, kind \in Kinds : Request(c, kind)
           \/ DropHandles \/ Connect \/ ConnectFails \/ Take \/ Closed \/ Drain
           \/ BackoffOver \/ IoFailure \/ UNCHANGED vars
    PROVE  Aligned'
<1>1. CASE \/ \E c \in Clients, kind \in Kinds : Request(c, kind)
           \/ DropHandles \/ UNCHANGED vars
  <2>1. UNCHANGED <<apc, cmd, left, wire, asked, late>>
    BY <1>1 DEF Request, DropHandles, vars, connVars, actorVars
  <2> QED BY <2>1 DEF Aligned, AnswerDue, WidthDue, FirstLine, WidthLine, Expected
<1>2. CASE Connect \/ Take
  BY <1>2 DEF Connect, Take, connVars, Aligned
<1>3. CASE ConnectFails \/ Closed \/ BackoffOver \/ IoFailure \/ Drain
  <2>1. apc' \in {"gone", "backoff", "connect"}
    BY <1>3 DEF ConnectFails, Closed, BackoffOver, IoFailure, Drain, FailCommand, BackOff, actorVars
  <2> QED BY <2>1 DEF Aligned
<1> QED BY <1>1, <1>2, <1>3

\* Nothing is due any more: the command ends, or goes on to its next exchange.
LEMMA NothingDue ==
    ASSUME wire' = <<>>, asked' = <<>>, apc' \in {"recv", "send"}
    PROVE  Aligned'
BY DEF Aligned

\* The current exchange is asked for; its lines are read one by one.
LEMMA ExchangeAligned ==
    ASSUME Typed, Aligned, Send \/ Read \/ ReadWidth \/ DrainWidth
    PROVE  Aligned'
<1> SUFFICES ASSUME late' = 0 PROVE Aligned'
  BY DEF Aligned
<1>0. late = 0
  <2>1. late' = late \/ late' = late + 1
    BY DEF Send, Read, ReadWidth, DrainWidth
  <2>2. late \in Nat
    BY ActorAssumption DEF Typed, TypeOK
  <2> QED BY <2>1, <2>2
<1>1. CASE Send
  <2>1. apc' = "read" /\ wire' = <<>> /\ asked' = <<Expected("first")>>
    BY <1>0, <1>1 DEF Send, Aligned
  <2>2. Expected("first")' = Expected("first")
    BY <1>1 DEF Send, Expected
  <2> QED BY <2>1, <2>2 DEF Aligned, AnswerDue
<1>2. CASE Read
  <2>1. wire # <<>> /\ AnswerDue /\ wire' = Tail(wire) /\ asked' = asked
    BY <1>0, <1>2 DEF Read, Aligned
  <2>2. PICK text \in FirstLines(Head(left)) :
           /\ Head(wire) = FirstLine(text)
           /\ IF HasWidth(Head(left), text)
                THEN \/ Tail(wire) = <<>> /\ asked = <<Expected("width")>>
                     \/ Tail(wire) = <<WidthLine>> /\ asked = <<>>
                ELSE Tail(wire) = <<>> /\ asked = <<>>
    <3>1. PICK text \in FirstLines(Head(left)) :
             IF HasWidth(Head(left), text)
               THEN \/ wire = <<FirstLine(text)>> /\ asked = <<Expected("width")>>
                    \/ wire = <<FirstLine(text), WidthLine>> /\ asked = <<>>
               ELSE wire = <<FirstLine(text)>> /\ asked = <<>>
      BY <2>1 DEF AnswerDue
    <3>2. ASSUME wire = <<FirstLine(text)>>
          PROVE  Head(wire) = FirstLine(text) /\ Tail(wire) = <<>>
      BY <3>2, ReadFirst
    <3>3. ASSUME wire = <<FirstLine(text), WidthLine>>
          PROVE  Head(wire) = FirstLine(text) /\ Tail(wire) = <<WidthLine>>
      BY <3>3, ReadFirst
    <3> QED BY <3>1, <3>2, <3>3
  <2>3. Head(wire).text = text
    BY <2>2 DEF FirstLine
  <2>4. CASE HasWidth(Head(left), text)
    <3>1. \E step \in {"width", "drain"} : GotoRead(step)
      <4>1. Head(left) = "m" /\ text \in {"mode", "empty"} /\ ~IsError("m", text)
        BY <2>4 DEF HasWidth, IsError
      <4>2. CASE text = "mode"
        <5>1. GotoRead("width")
          BY <1>2, <2>3, <4>1, <4>2 DEF Read
        <5> QED BY <5>1
      <4>3. CASE text = "empty"
        <5>1. GotoRead("drain")
          BY <1>2, <2>3, <4>1, <4>3 DEF Read
        <5> QED BY <5>1
      <4> QED BY <4>1, <4>2, <4>3
    <3>2. apc' \in {"width", "drain"} /\ UNCHANGED <<cmd, left>>
      BY <3>1 DEF GotoRead
    <3>3. UNCHANGED <<Expected("width"), WidthLine>>
      BY <3>2 DEF Expected, WidthLine
    <3>4. WidthDue'
      BY <2>1, <2>2, <2>4, <3>3 DEF WidthDue
    <3> QED BY <3>2, <3>4 DEF Aligned
  <2>5. CASE ~HasWidth(Head(left), text)
    <3>1. Proceed \/ \E r \in {"err", "bad"} : Finish(r)
      <4>1. ~IsError(Head(left), text) => Head(left) # "m"
        BY <2>2, <2>5 DEF HasWidth, FirstLines, IsError
      <4> QED BY <1>2, <2>3, <4>1 DEF Read
    <3>2. apc' \in {"recv", "send"}
      BY <3>1 DEF Proceed, Finish
    <3> QED BY <2>1, <2>2, <2>5, <3>2, NothingDue
  <2> QED BY <2>4, <2>5
<1>3. CASE ReadWidth
  <2>1. Tail(wire) = <<>> /\ asked = <<>>
    BY <1>0, <1>3 DEF ReadWidth, Aligned, WidthDue
  <2>2. apc' \in {"recv", "send"}
    BY <1>3 DEF ReadWidth, Proceed, Finish
  <2> QED BY <1>3, <2>1, <2>2, NothingDue DEF ReadWidth
<1>4. CASE DrainWidth
  <2>1. late' = late
    BY <1>0, <1>4 DEF DrainWidth
  <2>2. wire' = <<>> /\ asked' = <<>>
    BY <1>0, <1>4, <2>1 DEF DrainWidth, Aligned, WidthDue
  <2>3. apc' = "recv"
    BY <1>4 DEF DrainWidth, Finish
  <2> QED BY <2>2, <2>3, NothingDue
<1> QED BY <1>1, <1>2, <1>3, <1>4

\* The line an exchange reads is the one rigctld sent for it, whatever fails or
\* times out and however often the actor connects again, on every connection on
\* which no width has followed an empty mode after its read had timed out; a new
\* connection is always such a one.
THEOREM PositionalAlways == Spec => []Positional
<1> DEFINE Inv == Typed /\ Aligned
<1>1. Init => Inv
  <2>1. Init => Aligned
    BY DEF Init, Aligned
  <2> QED BY <2>1, InitTyped
<1>2. Inv /\ [Next]_vars => Inv'
  BY NextTyped, RespondAligned, BetweenAligned, ExchangeAligned DEF Next, Actor
<1>3. Inv => Positional
  <2> SUFFICES ASSUME Aligned, late = 0
               PROVE  ResponsesLineUp /\ (apc \in {"recv", "send"} => wire = <<>>)
    BY DEF Positional
  <2>1. ASSUME apc = "read", wire # <<>> PROVE Head(wire).to = Expected("first")
    BY <2>1 DEF Aligned, AnswerDue, FirstLine
  <2>2. ASSUME apc = "width", wire # <<>> PROVE Head(wire).to = Expected("width")
    BY <2>2 DEF Aligned, WidthDue, WidthLine
  <2> QED BY <2>1, <2>2 DEF Aligned, ResponsesLineUp
<1> QED BY <1>1, <1>2, <1>3, PTL DEF Spec

=============================================================================
