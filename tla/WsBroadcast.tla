---------------------------- MODULE WsBroadcast ----------------------------
(***************************************************************************)
(* The WebSocket server, ws.rs: every snapshot of the poller is broadcast  *)
(* through a channel of bounded capacity to every client connected, each   *)
(* served by a task of its own (`handle_connection').  A client that falls *)
(* further behind than the channel holds is disconnected; it connects      *)
(* again.  A client may also stop reading, go away at any time, or be told *)
(* to by a shutdown.                                                       *)
(*                                                                         *)
(* Frames are numbered modulo Numbers, and a task's receiver is the number *)
(* of frames it has not taken yet, or one more than the channel holds when *)
(* some of them are gone.                                                  *)
(***************************************************************************)
EXTENDS Naturals, Sequences

CONSTANTS
    Clients,         \* browser pages whose Origin is Wavelog's
    States,          \* the rig's states
    ChannelCapacity, \* CHANNEL_CAPACITY (16 in the program)
    Numbers,         \* the numbers of the frames wrap around here
    NoFrame          \* nothing taken yet

ASSUME CapacityAssumption == ChannelCapacity \in Nat \ {0}
ASSUME NumbersAssumption == Numbers \in Nat \ {0, 1}
ASSUME FrameAssumption == NoFrame \notin [number : 0..(Numbers - 1), state : States]

VARIABLES
    rig,       \* external: the rig's state
    shutdown,  \* the watch channel holds true
    serving,   \* axum::serve has not returned
    number,    \* of the last frame
    kept,      \* the frames the broadcast channel holds
    task,      \* where each client's task is
    behind,    \* how many frames its receiver has not taken
    frame      \* the last frame it has taken

vars == <<rig, shutdown, serving, number, kept, task, behind, frame>>

Frames == [number : 0..(Numbers - 1), state : States]
Subscribed(c) == task[c] \in {"welcome", "idle", "sending"}

Init ==
    /\ rig \in States
    /\ shutdown = FALSE /\ serving = TRUE
    /\ number = 0 /\ kept = <<>>
    /\ task = [c \in Clients |-> "out"]
    /\ behind = [c \in Clients |-> 0]
    /\ frame = [c \in Clients |-> NoFrame]

-----------------------------------------------------------------------------
\* The channel drops the oldest frame when it is full.
Kept(frames) == IF Len(frames) > ChannelCapacity THEN Tail(frames) ELSE frames

\* Every poll's answer is broadcast, also one that says nothing new.  (The
\* mistake: only changes are, as for the pushes to Wavelog.)
OnlyChanges == IF kept = <<>> THEN TRUE ELSE kept[Len(kept)].state # rig
EveryPoll   == TRUE

\* The rig is read and the answer broadcast (poller.rs, run): never blocks, and
\* without a subscriber nothing is kept.
Broadcast ==
    LET next == [number |-> (number + 1) % Numbers, state |-> rig]
    IN  /\ ~shutdown
        /\ EveryPoll
        /\ \E c \in Clients : Subscribed(c)
        /\ number' = next.number
        /\ kept' = Kept(Append(kept, next))
        /\ behind' = [c \in Clients |->
                         IF Subscribed(c) /\ behind[c] <= ChannelCapacity THEN behind[c] + 1
                         ELSE behind[c]]
        /\ UNCHANGED <<rig, shutdown, serving, task, frame>>

Goto(c, where) == task' = [task EXCEPT ![c] = where]

\* The task ends, its receiver is dropped.
Leave(c) ==
    /\ Goto(c, "out")
    /\ behind' = [behind EXCEPT ![c] = 0]
    /\ frame' = [frame EXCEPT ![c] = NoFrame]

\* ws_upgrade: a client whose Origin is another, or that has none, is refused.
Connect(c) ==
    /\ task[c] = "out" /\ serving
    /\ Goto(c, "upgraded")
    /\ UNCHANGED <<rig, shutdown, serving, number, kept, behind, frame>>

\* Subscribed before the welcome is sent.
Subscribe(c) ==
    /\ task[c] = "upgraded"
    /\ IF shutdown THEN Goto(c, "closing") ELSE Goto(c, "welcome")
    /\ UNCHANGED <<rig, shutdown, serving, number, kept, behind, frame>>

\* The socket has taken what was sent to it.
Sent(c) ==
    /\ task[c] \in {"welcome", "sending", "closing"}
    /\ IF task[c] = "closing" THEN Leave(c)
       ELSE Goto(c, "idle") /\ UNCHANGED <<behind, frame>>
    /\ UNCHANGED <<rig, shutdown, serving, number, kept>>

\* The select! is biased: shutdown goes before a frame.
ToldToStop(c) ==
    /\ task[c] = "idle" /\ shutdown
    /\ Goto(c, "closing")
    /\ UNCHANGED <<rig, shutdown, serving, number, kept, behind, frame>>

TakeFrame(c) ==
    /\ task[c] = "idle" /\ ~shutdown
    /\ behind[c] \in 1..ChannelCapacity
    /\ frame' = [frame EXCEPT ![c] = kept[Len(kept) - behind[c] + 1]]
    /\ behind' = [behind EXCEPT ![c] = @ - 1]
    /\ Goto(c, "sending")
    /\ UNCHANGED <<rig, shutdown, serving, number, kept>>

\* A plausible mistake: the frames that are gone are skipped.
SkipGone(c) ==
    /\ task[c] = "idle" /\ ~shutdown
    /\ behind[c] > ChannelCapacity
    /\ behind' = [behind EXCEPT ![c] = ChannelCapacity]
    /\ UNCHANGED <<rig, shutdown, serving, number, kept, task, frame>>

\* Lagged: frames are gone, the client is disconnected.
DropLagged(c) ==
    /\ task[c] = "idle" /\ ~shutdown
    /\ behind[c] > ChannelCapacity
    /\ Goto(c, "closing")
    /\ UNCHANGED <<rig, shutdown, serving, number, kept, behind, frame>>

\* The client closes its socket, or sending to it fails.  What it sends is
\* ignored.
GoAway(c) ==
    /\ task[c] # "out"
    /\ Leave(c)
    /\ UNCHANGED <<rig, shutdown, serving, number, kept>>

\* axum::serve does not wait for upgraded connections on shutdown.
ServeReturns ==
    /\ shutdown /\ serving
    /\ serving' = FALSE
    /\ UNCHANGED <<rig, shutdown, number, kept, task, behind, frame>>

Turn ==
    /\ rig' \in States \ {rig}
    /\ UNCHANGED <<shutdown, serving, number, kept, task, behind, frame>>

Signal ==
    /\ ~shutdown
    /\ shutdown' = TRUE
    /\ UNCHANGED <<rig, serving, number, kept, task, behind, frame>>

\* main ends, taking the tasks with it, and the daemon is started again.
Restart ==
    /\ ~serving
    /\ shutdown' = FALSE /\ serving' = TRUE
    /\ number' = 0 /\ kept' = <<>>
    /\ task' = [c \in Clients |-> "out"]
    /\ behind' = [c \in Clients |-> 0]
    /\ frame' = [c \in Clients |-> NoFrame]
    /\ UNCHANGED rig

Handler(c) == Subscribe(c) \/ ToldToStop(c) \/ TakeFrame(c) \/ DropLagged(c)
Page(c)    == Connect(c) \/ GoAway(c)

Next ==
    \/ Broadcast \/ Turn \/ Signal \/ ServeReturns \/ Restart
    \/ \E c \in Clients : Handler(c) \/ Sent(c) \/ Page(c)

Spec == Init /\ [][Next]_vars

\* Tasks are run and the rig is polled.  Nobody has to connect, to read, to send
\* a signal, or to start the daemon again.
FairSpec ==
    /\ Spec
    /\ WF_vars(Broadcast)
    /\ \A c \in Clients : WF_vars(Handler(c))

-----------------------------------------------------------------------------
(* Properties.                                                             *)

TypeOK ==
    /\ shutdown \in BOOLEAN /\ serving \in BOOLEAN
    /\ number \in 0..(Numbers - 1)
    /\ kept \in Seq(Frames) /\ Len(kept) <= ChannelCapacity
    /\ task \in [Clients -> {"out", "upgraded", "welcome", "idle", "sending", "closing"}]
    /\ behind \in [Clients -> 0..(ChannelCapacity + 1)]
    /\ frame \in [Clients -> Frames \cup {NoFrame}]

\* Within a connection the frames are consecutive: a client is disconnected
\* rather than shown a state and then a later one with a gap between.
Consecutive ==
    [][\A c \in Clients :
          frame'[c] # frame[c] /\ NoFrame \notin {frame[c], frame'[c]} =>
              frame'[c].number = (frame[c].number + 1) % Numbers]_vars

\* A page that reads and stays connected comes to show the state the rig stays
\* in, though another page does not read.
PagesFollow ==
    \A c \in Clients, r \in States :
        WF_vars(Sent(c)) /\ <>[](rig = r /\ Subscribed(c) /\ ~shutdown)
            => <>[](frame[c] # NoFrame /\ frame[c].state = r)

=============================================================================
