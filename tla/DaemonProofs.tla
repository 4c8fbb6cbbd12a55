--------------------------- MODULE DaemonProofs -----------------------------
(***************************************************************************)
(* Proofs about Daemon: the types, that of any number of daemons one at a  *)
(* time writes a queue's file and one at a time is in charge, and what the *)
(* configuration is that they are started with.                            *)
(***************************************************************************)
EXTENDS Daemon, SequenceTheorems, TLAPS

Writers == {"listener", "worker"}
Unbound == {"off", "load", "http"}

\* The types, with the domains of the variables that TypeOK leaves out.
Typed == TypeOK /\ DOMAIN given = Daemons /\ DOMAIN sockets = Daemons /\ DOMAIN locked = Daemons

\* What a daemon holds for what it does: the port of its click-to-tune server
\* until it is told to stop, and the lock while a task of it has the queue.
Holds(p) ==
    /\ stage[p] \in Unbound => tasks[p] = {}
    /\ stage[p] \notin Unbound /\ ~told[p] => <<"tcp", conf[p]["listen"]>> \in sockets[p]
    /\ tasks[p] \cap Writers # {} => conf[p]["qso_queue_path"] \in locked[p]

\* What two of them do not hold together.
Apart(p, q) ==
    /\ \A a \in sockets[p] \cap sockets[q] : a \in Multicast
    /\ locked[p] \cap locked[q] = {}

IInv == /\ Typed
        /\ \A p \in Daemons : Holds(p)
        /\ \A p, q \in Daemons : p # q => Apart(p, q)

\* Everything about q but its handles, which no invariant but the types needs.
Same(q) ==
    /\ stage'[q] = stage[q] /\ conf'[q] = conf[q] /\ sockets'[q] = sockets[q]
    /\ locked'[q] = locked[q] /\ tasks'[q] = tasks[q] /\ told'[q] = told[q]

\* A step of p that takes nothing another daemon has keeps the invariant, if p
\* holds what it must.
LEMMA OwnStep ==
    ASSUME IInv, NEW p \in Daemons, Typed', Holds(p)',
           \A q \in Daemons \ {p} : Same(q),
           \A a \in sockets'[p] : \/ a \in sockets[p] \cup Multicast
                                  \/ \A q \in Daemons : a \notin sockets[q],
           \A l \in locked'[p] : l \in locked[p] \/ \A q \in Daemons : l \notin locked[q]
    PROVE  IInv'
<1>1. ASSUME NEW q \in Daemons PROVE Holds(q)'
  BY <1>1 DEF IInv, Holds, Same
<1>2. ASSUME NEW q \in Daemons \ {p} PROVE Apart(p, q)' /\ Apart(q, p)'
  <2>1. Apart(p, q) /\ sockets'[q] = sockets[q] /\ locked'[q] = locked[q]
    BY <1>2 DEF IInv, Same
  <2> QED BY <1>2, <2>1 DEF Apart
<1>3. ASSUME NEW q \in Daemons \ {p}, NEW r \in Daemons \ {p}, q # r PROVE Apart(q, r)'
  BY <1>3 DEF IInv, Apart, Same
<1>4. ASSUME NEW q \in Daemons, NEW r \in Daemons, q # r PROVE Apart(q, r)'
  BY <1>2, <1>3, <1>4
<1> QED BY <1>1, <1>4 DEF IInv

\* It holds at first.
LEMMA InitIInv == Init => IInv
  BY DEF Init, IInv, Typed, TypeOK, Holds, Apart, Stages, Tasks, Users, Unbound

\* When a daemon exits it holds nothing.
LEMMA ExitKeeps == ASSUME IInv, NEW p \in Daemons, Exit(p) PROVE IInv'
<1>1. Typed'
  BY DEF IInv, Typed, TypeOK, Exit, Goto, Stages, Tasks, Users
<1>2. /\ stage'[p] = "off" /\ sockets'[p] = {} /\ locked'[p] = {} /\ tasks'[p] = {}
      /\ \A q \in Daemons \ {p} : Same(q)
  BY DEF IInv, Typed, TypeOK, Exit, Goto, Same
<1>3. Holds(p)'
  BY <1>2 DEF Holds, Unbound
<1> QED BY <1>1, <1>2, <1>3, OwnStep

\* Starting and loading the configuration: nothing is held yet.
LEMMA LoadKeeps == ASSUME IInv, NEW p \in Daemons, Start(p) \/ LoadConfig(p) PROVE IInv'
<1>0. Typed /\ Holds(p)
  BY DEF IInv
<1>1. CASE Start(p)
  <2>1. Typed'
    BY <1>0, <1>1 DEF Typed, TypeOK, Start, Goto, Stages
  <2>2. /\ stage'[p] = "load" /\ \A q \in Daemons \ {p} : Same(q)
        /\ UNCHANGED <<sockets, locked, tasks>> /\ tasks[p] = {}
    BY <1>0, <1>1 DEF Typed, TypeOK, Start, Goto, Same, Holds, Unbound
  <2>3. Holds(p)'
    BY <2>2 DEF Holds, Unbound
  <2> QED BY <2>1, <2>2, <2>3, OwnStep
<1>2. CASE LoadConfig(p) /\ ~Exit(p)
  <2>0. /\ stage[p] = "load" /\ stage' = [stage EXCEPT ![p] = "http"]
        /\ given' = [given EXCEPT ![p] = NotGiven]
        /\ DOMAIN conf' = DOMAIN conf /\ \A q \in Daemons \ {p} : conf'[q] = conf[q]
        /\ UNCHANGED <<sockets, locked, tasks, handles, told>>
    BY <1>0, <1>2 DEF LoadConfig, Goto, Typed, TypeOK
  <2>1. Typed'
    BY <1>0, <2>0 DEF Typed, TypeOK, Stages
  <2>2. /\ stage'[p] = "http" /\ tasks[p] = {}
        /\ \A q \in Daemons \ {p} : Same(q)
    BY <1>0, <2>0 DEF Typed, TypeOK, Same, Holds, Unbound
  <2>3. Holds(p)'
    BY <2>0, <2>2 DEF Holds, Unbound
  <2> QED BY <2>0, <2>1, <2>2, <2>3, OwnStep
<1> QED BY <1>1, <1>2, ExitKeeps

\* Binding an address: it was free, or a group's.
LEMMA BindKeeps ==
    ASSUME IInv, NEW p \in Daemons, BindHttp(p) \/ BindWs(p) \/ BindUdp(p)
    PROVE  IInv'
<1>0. Typed /\ Holds(p)
  BY DEF IInv
<1>1. ASSUME NEW kind, NEW address, Bind(p, kind, address)
      PROVE  /\ DOMAIN sockets' = Daemons /\ sockets'[p] = sockets[p] \cup {<<kind, address>>}
             /\ \A q \in Daemons \ {p} : sockets'[q] = sockets[q]
             /\ <<kind, address>> \in Multicast \/ \A q \in Daemons : <<kind, address>> \notin sockets[q]
  BY <1>0, <1>1 DEF Bind, Bound, Taken, Typed
<1>2. CASE BindHttp(p)
  <2>1. /\ DOMAIN sockets' = Daemons
        /\ sockets'[p] = sockets[p] \cup {<<"tcp", conf[p]["listen"]>>}
        /\ \A q \in Daemons \ {p} : sockets'[q] = sockets[q]
        /\ \/ <<"tcp", conf[p]["listen"]>> \in Multicast
           \/ \A q \in Daemons : <<"tcp", conf[p]["listen"]>> \notin sockets[q]
    BY <1>1, <1>2 DEF BindHttp
  <2>2. /\ stage[p] = "http" /\ stage' = [stage EXCEPT ![p] = "ws"]
        /\ UNCHANGED <<given, conf, locked, tasks, handles, told>>
    BY <1>2 DEF BindHttp, Goto
  <2>3. Typed'
    BY <1>0, <2>1, <2>2 DEF Typed, TypeOK, Stages
  <2>4. Holds(p)' /\ \A q \in Daemons \ {p} : Same(q)
    BY <1>0, <2>1, <2>2 DEF Holds, Same, Unbound, Typed, TypeOK, Writers
  <2> QED BY <2>1, <2>2, <2>3, <2>4, OwnStep
<1>3. CASE BindWs(p) \/ BindUdp(p)
  <2>1. /\ DOMAIN sockets' = Daemons /\ sockets[p] \subseteq sockets'[p]
        /\ \A q \in Daemons \ {p} : sockets'[q] = sockets[q]
        /\ \A a \in sockets'[p] : \/ a \in sockets[p] \cup Multicast
                                  \/ \A q \in Daemons : a \notin sockets[q]
    <3>1. CASE UNCHANGED sockets
      BY <1>0, <3>1 DEF Typed
    <3>2. CASE \E kind, address : Bind(p, kind, address)
      <4>1. PICK kind, address : Bind(p, kind, address)
        BY <3>2
      <4> QED BY <1>1, <4>1
    <3> QED BY <1>3, <3>1, <3>2 DEF BindWs, BindUdp
  <2>2. /\ stage[p] \notin Unbound /\ stage'[p] \notin Unbound
        /\ stage' \in [Daemons -> Stages] /\ DOMAIN tasks' = Daemons
        /\ tasks'[p] \in {tasks[p], {"rig"}} /\ UNCHANGED <<given, conf, locked, told>>
        /\ \A q \in Daemons \ {p} : Same(q)
    BY <1>0, <1>3, <2>1 DEF BindWs, BindUdp, Goto, Typed, TypeOK, Stages, Unbound, Same
  <2>3. Typed'
    <3>1. /\ tasks' \in [Daemons -> SUBSET Tasks] /\ handles' \in [Daemons -> SUBSET Users]
          /\ \A q \in Daemons : handles'[q] \ {"main"} \subseteq tasks'[q]
      BY <1>0, <1>3 DEF BindWs, BindUdp, Typed, TypeOK, Tasks, Users
    <3> QED BY <1>0, <2>1, <2>2, <3>1 DEF Typed, TypeOK
  <2>4. Holds(p)'
    BY <1>0, <2>1, <2>2 DEF Holds, Writers
  <2> QED BY <2>1, <2>2, <2>3, <2>4, OwnStep
<1> QED BY <1>2, <1>3

\* Spawning the tasks, opening the queue, and a signal to a daemon that waits.
LEMMA RunKeeps ==
    ASSUME IInv, NEW p \in Daemons, SpawnTasks(p) \/ OpenQueue(p) \/ (Signal(p) /\ ~Exit(p))
    PROVE  IInv'
<1>0. Typed /\ Holds(p)
  BY DEF IInv
<1>1. CASE SpawnTasks(p)
  <2>1. Typed'
    BY <1>0, <1>1 DEF Typed, TypeOK, SpawnTasks, Goto, Stages, Tasks, Users
  <2>2. /\ stage[p] = "client" /\ stage'[p] = "queue" /\ tasks'[p] \cap Writers = tasks[p] \cap Writers
        /\ UNCHANGED <<conf, sockets, locked, told>> /\ \A q \in Daemons \ {p} : Same(q)
    BY <1>0, <1>1 DEF Typed, TypeOK, SpawnTasks, Goto, Same, Writers
  <2>3. Holds(p)'
    BY <1>0, <2>2 DEF Holds, Unbound
  <2> QED BY <2>1, <2>2, <2>3, OwnStep
<1>2. CASE OpenQueue(p)
  <2>1. /\ DOMAIN locked' = Daemons /\ \A q \in Daemons \ {p} : locked'[q] = locked[q]
        /\ \A l \in locked'[p] : l \in locked[p] \/ \A q \in Daemons : l \notin locked[q]
        /\ locked[p] \subseteq locked'[p]
        /\ tasks' = tasks \/ conf[p]["qso_queue_path"] \in locked'[p]
    BY <1>0, <1>2 DEF OpenQueue, Lock, Typed, TypeOK
  <2>2. Typed'
    <3>1. /\ tasks' \in [Daemons -> SUBSET Tasks] /\ handles' \in [Daemons -> SUBSET Users]
          /\ \A q \in Daemons : handles'[q] \ {"main"} \subseteq tasks'[q]
      BY <1>0, <1>2 DEF OpenQueue, GivesUp, Typed, TypeOK, Tasks, Users
    <3>2. stage' \in [Daemons -> Stages] /\ UNCHANGED <<given, conf, sockets, told>>
      BY <1>0, <1>2 DEF OpenQueue, Goto, Typed, TypeOK, Stages
    <3> QED BY <1>0, <2>1, <3>1, <3>2 DEF Typed, TypeOK
  <2>3. /\ stage[p] = "queue" /\ stage'[p] = "wait" /\ UNCHANGED <<conf, sockets, told>>
        /\ \A q \in Daemons \ {p} : Same(q)
    BY <1>0, <1>2, <2>1 DEF OpenQueue, Goto, Typed, TypeOK, Same
  <2>4. Holds(p)'
    BY <1>0, <2>1, <2>3 DEF Holds, Unbound
  <2> QED BY <2>1, <2>2, <2>3, <2>4, OwnStep
<1>3. CASE Signal(p) /\ ~Exit(p)
  <2>1. Typed'
    BY <1>0, <1>3 DEF Typed, TypeOK, Signal, Goto, Stages
  <2>2. /\ stage'[p] = "join" /\ told'[p] = TRUE /\ UNCHANGED <<conf, sockets, locked, tasks>>
        /\ \A q \in Daemons \ {p} : Same(q)
    BY <1>0, <1>3 DEF Typed, TypeOK, Signal, Goto, Same
  <2>3. Holds(p)'
    BY <1>0, <2>2 DEF Holds, Unbound
  <2> QED BY <2>1, <2>2, <2>3, OwnStep
<1> QED BY <1>1, <1>2, <1>3

\* A task that ends takes its sockets with it, after the daemon was told to
\* stop unless it is the rig actor, which has none; and the lock goes with the
\* last task that has the queue.
LEMMA TaskEndKeeps == ASSUME IInv, NEW p \in Daemons, NEW t, TaskEnds(p, t) PROVE IInv'
<1>0. Typed /\ Holds(p)
  BY DEF IInv
<1> DEFINE left == tasks[p] \ {t}
<1>1. /\ t \in tasks[p] /\ (t = "rig" \/ told[p])
      /\ tasks' = [tasks EXCEPT ![p] = left]
      /\ handles' = [handles EXCEPT ![p] = @ \ {t}]
      /\ sockets' = [sockets EXCEPT ![p] = @ \ SocketsOf(p, t)]
      /\ locked' = [locked EXCEPT ![p] = IF left \cap Writers = {} THEN {} ELSE @]
      /\ UNCHANGED <<stage, given, conf, told>>
  BY DEF TaskEnds, Ending, Dropped, Writers
<1>2. Typed'
  BY <1>0, <1>1 DEF Typed, TypeOK
<1>3. /\ tasks'[p] = left /\ sockets'[p] = sockets[p] \ SocketsOf(p, t)
      /\ locked'[p] = (IF left \cap Writers = {} THEN {} ELSE locked[p])
      /\ \A q \in Daemons \ {p} : Same(q)
  BY <1>0, <1>1 DEF Typed, TypeOK, Same
<1>4. SocketsOf(p, "rig") = {}
  BY DEF SocketsOf
<1>5. Holds(p)'
  <2>1. stage[p] \notin Unbound
    BY <1>0, <1>1 DEF Holds
  <2>2. ~told[p] => sockets'[p] = sockets[p]
    BY <1>1, <1>3, <1>4
  <2>3. left \cap Writers # {} => conf[p]["qso_queue_path"] \in locked'[p]
    BY <1>0, <1>3 DEF Holds
  <2> QED BY <1>0, <1>1, <1>3, <2>1, <2>2, <2>3 DEF Holds
<1> QED BY <1>2, <1>3, <1>5, OwnStep

\* Every step keeps the invariant.
LEMMA StepIInv == ASSUME IInv, [Next]_vars PROVE IInv'
<1>1. ASSUME NEW p \in Daemons,
             StartFails(p) \/ OpenFails(p) \/ Finish(p) \/ Killed(p)
      PROVE  IInv'
  BY <1>1, ExitKeeps DEF StartFails, OpenFails, Finish, Killed
<1>2. ASSUME NEW p \in Daemons, Signal(p) PROVE IInv'
  BY <1>2, RunKeeps, ExitKeeps
<1>3. ASSUME UNCHANGED vars PROVE IInv'
  BY <1>3 DEF vars, IInv, Typed, TypeOK, Holds, Apart
<1> QED BY <1>1, <1>2, <1>3, LoadKeeps, BindKeeps, RunKeeps, TaskEndKeeps DEF Next, Steps

-----------------------------------------------------------------------------
(* Theorems.                                                               *)

\* The invariant always holds.
LEMMA IInvAlways == Spec => []IInv
<1>1. IInv /\ [Next]_vars => IInv'
  BY StepIInv
<1> QED BY InitIInv, <1>1, PTL DEF Spec

\* Every variable keeps its type, and a handle of the rig actor is main's or a
\* running task's (main.rs, run_daemon).
THEOREM DaemonTypeCorrect == Spec => []TypeOK
<1>1. IInv => TypeOK
  BY DEF IInv, Typed
<1> QED BY IInvAlways, <1>1, PTL

\* One daemon at a time writes a queue's file (qso_queue.rs, acquire_lock).
THEOREM OneWriterAlways == Spec => []OneWriter
<1>1. IInv => OneWriter
  BY DEF IInv, OneWriter, Holds, Apart, Writers
<1> QED BY IInvAlways, <1>1, PTL

\* Of the daemons with one click-to-tune address at most one polls the rig that
\* was not told to stop (main.rs, "Bind all listeners up front").
THEOREM OneInChargeAlways == Spec => []OneInCharge
<1>1. IInv => OneInCharge
  <2> SUFFICES ASSUME IInv, NEW p \in Daemons, NEW q \in Daemons, p # q,
                      conf[p]["listen"] = conf[q]["listen"],
                      "poller" \in tasks[p], "poller" \in tasks[q], ~told[p], ~told[q]
               PROVE  FALSE
    BY DEF OneInCharge, IInv, Typed, TypeOK
  <2> DEFINE address == <<"tcp", conf[p]["listen"]>>
  <2>1. address \in sockets[p] /\ address \in sockets[q]
    BY DEF IInv, Holds
  <2>2. address \in Multicast
    BY <2>1 DEF IInv, Apart
  <2>3. address[1] = "tcp"
    OBVIOUS
  <2> HIDE DEF address
  <2> QED BY <2>2, <2>3, MulticastAssumption
<1> QED BY IInvAlways, <1>1, PTL

-----------------------------------------------------------------------------
(* What is loaded.  The settings of an input, and of its file.             *)

Toml(in)   == LoadToml(in.config, in.env, in.files)
Merged(in) == Layered(Cli(in.args, in.vars), Toml(in).settings, in.env)

\* Every error stops the loading: where there is none no rule has found anything.
LEMMA LoadFacts ==
    ASSUME NEW in, Load(in).error = None
    PROVE  /\ UsageError(Cli(in.args, in.vars)) = None /\ Toml(in).error = None
           /\ ResolveKey(in.raw, in.keyFile) = None
           /\ FirstError(Problems(Merged(in))) = None
  BY DEF Load, FirstOf, Toml, Merged

\* FirstError finds nothing where there is nothing.
LEMMA NoError ==
    ASSUME NEW problems, {i \in DOMAIN problems : problems[i].found} = {}
    PROVE  FirstError(problems) = None
  BY DEF FirstError

\* FirstError finds something if there is anything to be found.
LEMMA NothingFound ==
    ASSUME NEW s, FirstError(Problems(s)) = None
    PROVE  \A i \in 1..6 : ~Problems(s)[i].found
<1> DEFINE found == {i \in DOMAIN Problems(s) : Problems(s)[i].found}
<1>1. DOMAIN Problems(s) = 1..6
  BY DEF Problems
<1>2. \A i \in 1..6 : Problems(s)[i].error # None
  BY DEF Problems, None
<1>3. ASSUME found # {} PROVE FALSE
  <2>1. \E i \in found : \A j \in found : i <= j
    BY <1>1, <1>3
  <2>2. (CHOOSE i \in found : \A j \in found : i <= j) \in 1..6
    BY <1>1, <2>1
  <2>3. FirstError(Problems(s)) = Problems(s)[CHOOSE i \in found : \A j \in found : i <= j].error
    BY <1>3 DEF FirstError
  <2> QED BY <1>2, <2>2, <2>3
<1> QED BY <1>1, <1>3

\* The rules, as they are for the settings without an error.
LEMMA Accepted ==
    ASSUME NEW s, FirstError(Problems(s)) = None
    PROVE  /\ s["wavelog_url"] \in WithOrigin /\ s["wavelog_url"] # Unset /\ s["radio"] # Unset
           /\ ~RejectsPower(s["power_max"]) /\ s["interval"] \notin Zero /\ s["rig_timeout"] \notin Zero
<1>1. ~Problems(s)[1].found /\ ~Problems(s)[2].found /\ ~Problems(s)[3].found
  BY NothingFound
<1>2. ~Problems(s)[4].found /\ ~Problems(s)[5].found /\ ~Problems(s)[6].found
  BY NothingFound
<1> QED BY <1>1, <1>2 DEF Problems

\* The power is one of those an input gives, or what it is without being set.
LEMMA MergedPower ==
    ASSUME NEW in, KnownPowers(in)
    PROVE  Merged(in)["power_max"] \in Powers \ {Unset}
<1> DEFINE cli == Cli(in.args, in.vars)
<1>1. "power_max" \in Names /\ "power_max" \notin Flags
  BY DEF Names, Flags
<1>2. Default(in.env)["power_max"] = "100"
  BY <1>1 DEF Default, Empty
<1>3. cli["power_max"] \in Powers
  BY <1>1 DEF Cli, KnownPowers
<1>4. Merged(in)["power_max"] =
          Or(cli["power_max"], Toml(in).settings["power_max"], Default(in.env)["power_max"])
  BY <1>1 DEF Merged, Layered
<1>5. Toml(in).settings["power_max"] \in Powers
  BY DEF Toml, KnownPowers
<1>6. "100" \in Powers \ {Unset}
  BY DEF Powers, Unset
<1> QED BY <1>2, <1>3, <1>4, <1>5, <1>6 DEF Or

\* What is loaded without an error is workable, and `stations' loads it too.
LEMMA LoadedWorks ==
    ASSUME NEW in, KnownPowers(in), Load(in).error = None
    PROVE  Workable(Load(in).settings) /\ Stations(in, {"home"}) = None
<1> DEFINE s == Merged(in)
<1>1. FirstError(Problems(s)) = None
  BY LoadFacts
<1>2. /\ s["wavelog_url"] \in WithOrigin /\ s["wavelog_url"] # Unset /\ s["radio"] # Unset
      /\ ~RejectsPower(s["power_max"]) /\ s["interval"] \notin Zero /\ s["rig_timeout"] \notin Zero
  BY <1>1, Accepted
<1>3. s["power_max"] \in {"5", "100"}
  BY <1>2, MergedPower DEF RejectsPower, Powers
<1>4. Load(in).settings = s
  BY DEF Load, Merged, Toml
<1>5. FirstError(SubSeq(Problems(s), 1, 2)) = None
  <2> DEFINE first == SubSeq(Problems(s), 1, 2)
  <2>1. /\ first \in Seq({Problems(s)[i] : i \in 1..2}) /\ Len(first) = 2
        /\ \A i \in 1..2 : first[i] = Problems(s)[i]
    BY SubSeqProperties
  <2>2. DOMAIN first = 1..2
    BY <2>1
  <2>3. \A i \in 1..2 : ~Problems(s)[i].found
    BY <1>1, NothingFound
  <2>4. {i \in DOMAIN first : first[i].found} = {}
    BY <2>1, <2>2, <2>3
  <2> QED BY <2>4, NoError
<1>6. Stations(in, {"home"}) = None
  BY <1>5, LoadFacts DEF Stations, StationsError, FirstOf, Merged, Toml
<1> QED BY <1>2, <1>3, <1>4, <1>6 DEF Workable

\* The layers: an argument, a variable, the file and the default, in this order.
LEMMA LoadedRespects == ASSUME NEW in PROVE LayersRespected(in)
<1> SUFFICES ASSUME NEW name \in Names \ Flags, NEW i \in 1..4,
                    <<in.args[name], in.vars[name], Toml(in).settings[name],
                      Default(in.env)[name]>>[i] # Unset,
                    \A j \in 1..4 :
                        <<in.args[name], in.vars[name], Toml(in).settings[name],
                          Default(in.env)[name]>>[j] # Unset => i <= j
             PROVE  Load(in).settings[name] =
                        <<in.args[name], in.vars[name], Toml(in).settings[name],
                          Default(in.env)[name]>>[i]
  BY DEF LayersRespected, Toml
<1> DEFINE a == in.args[name]
           v == in.vars[name]
           t == Toml(in).settings[name]
           d == Default(in.env)[name]
<1>1. Load(in).settings[name] = Or(IF a # Unset THEN a ELSE v, t, d)
  BY DEF Load, Toml, Layered, Cli
<1>2. /\ i = 1 => a # Unset
      /\ i = 2 => a = Unset /\ v # Unset
      /\ i = 3 => a = Unset /\ v = Unset /\ t # Unset
      /\ i = 4 => a = Unset /\ v = Unset /\ t = Unset
  <2> HIDE DEF a, v, t, d
  <2>1. <<a, v, t, d>>[i] # Unset /\ \A j \in 1..4 : <<a, v, t, d>>[j] # Unset => i <= j
    BY DEF a, v, t, d
  <2>2. \A j \in 1..4 : j < i => <<a, v, t, d>>[j] = Unset
    BY <2>1
  <2> QED BY <2>1, <2>2
<1>3. Or(IF a # Unset THEN a ELSE v, t, d) = <<a, v, t, d>>[i]
  <2> HIDE DEF a, v, t, d
  <2>1. i = 1 \/ i = 2 \/ i = 3 \/ i = 4
    OBVIOUS
  <2> QED BY <1>2, <2>1 DEF Or
<1> QED BY <1>1, <1>3

\* While a daemon loads, what it was given is one of the inputs.
LEMMA GivenAlways ==
    Spec => [](\A p \in Daemons : stage[p] = "load" => given[p] \in Inputs \cup CommandLines)
<1> DEFINE Given == \A p \in Daemons : stage[p] = "load" => given[p] \in Inputs \cup CommandLines
<1>1. Init => Given
  BY DEF Init
<1>2. ASSUME IInv, Given, [Next]_vars PROVE Given'
  <2>0. stage \in [Daemons -> Stages] /\ DOMAIN given = Daemons
    BY <1>2 DEF IInv, Typed, TypeOK
  <2>1. ASSUME NEW p \in Daemons, Start(p) PROVE Given'
    BY <1>2, <2>0, <2>1 DEF Start, Goto
  <2>2. ASSUME NEW p \in Daemons, Exit(p) PROVE Given'
    BY <1>2, <2>0, <2>2 DEF Exit, Goto
  <2>3. ASSUME NEW p \in Daemons, LoadConfig(p) PROVE Given'
    BY <1>2, <2>0, <2>2, <2>3 DEF LoadConfig, Goto
  <2>4. ASSUME NEW p \in Daemons,
               BindHttp(p) \/ BindWs(p) \/ BindUdp(p) \/ SpawnTasks(p) \/ OpenQueue(p)
        PROVE  Given'
    BY <1>2, <2>0, <2>4 DEF BindHttp, BindWs, BindUdp, SpawnTasks, OpenQueue, Goto
  <2>5. ASSUME NEW p \in Daemons, Signal(p) PROVE Given'
    BY <1>2, <2>0, <2>2, <2>5 DEF Signal, Goto
  <2>6. ASSUME NEW p \in Daemons, StartFails(p) \/ OpenFails(p) \/ Finish(p) \/ Killed(p)
        PROVE  Given'
    BY <2>2, <2>6 DEF StartFails, OpenFails, Finish, Killed
  <2>7. ASSUME NEW p \in Daemons, NEW t \in Tasks, TaskEnds(p, t) PROVE Given'
    BY <1>2, <2>7 DEF TaskEnds
  <2>8. ASSUME UNCHANGED vars PROVE Given'
    BY <1>2, <2>8 DEF vars
  <2> QED BY <1>2, <2>1, <2>3, <2>4, <2>5, <2>6, <2>7, <2>8 DEF Next, Steps
<1> QED BY <1>1, <1>2, IInvAlways, PTL DEF Spec

\* Whatever is in the arguments, the environment and the file, the first of them
\* that sets a setting has its way (config.rs, Config::load).
THEOREM TopLayerWinsAlways == Spec => []TopLayerWins
<1>1. TopLayerWins
  BY LoadedRespects DEF TopLayerWins
<1> QED BY <1>1, PTL

\* What the rules let pass the daemon and `stations' can work with (config.rs,
\* Config::load).
THEOREM AcceptedWorksAlways == Spec => []AcceptedWorks
<1> DEFINE Given == \A p \in Daemons : stage[p] = "load" => given[p] \in Inputs \cup CommandLines
<1>1. Given => AcceptedWorks
  BY InputsAssumption, LoadedWorks DEF AcceptedWorks
<1> QED BY <1>1, GivenAlways, PTL

=============================================================================
