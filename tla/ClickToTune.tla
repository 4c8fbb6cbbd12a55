---------------------------- MODULE ClickToTune ----------------------------
(***************************************************************************)
(* A click on a spot in Wavelog tunes the rig: the HTTP handler `tune' of  *)
(* listener.rs, the modes of modes.rs, and the two exchanges of            *)
(* exec_set_freq_mode in the rig's actor (rigctld.rs), F then M.           *)
(*                                                                         *)
(* Requests come from several browser tabs; the actor takes them one by    *)
(* one from its channel.  An exchange sends a line and reads the next line *)
(* of the connection: rigctld's lines carry no tag, so once a poll has     *)
(* left a late line behind, what a tune reads answers another exchange.    *)
(* rigctld answers in order, at any time or never; meanwhile the operator  *)
(* has a hand on the dial.  (RigActor has the commands and the health in   *)
(* full, and of the lines only which exchange they answer.)                *)
(***************************************************************************)
EXTENDS Naturals, Sequences

CONSTANTS
    Freqs,       \* the frequencies asked for
    Segments,    \* the mode segments of the URLs, valid or not
    Overrides,   \* [mode_overrides]: what pkt and dig stand for
    ChannelRoom, \* commands the actor's channel holds
    MaxUnread    \* bound: lines of a connection unread between two commands

VARIABLES
    rig,      \* external: the rig's frequency and mode
    waiting,  \* the channel: tunes the handlers have asked for
    step,     \* the exchange of exec_set_freq_mode under way
    cur,      \* the tune under way
    asked,    \* external: what rigctld has yet to do and answer, in order
    wire,     \* lines of the connection not read yet
    strays,   \* external: what was asked on dropped connections, maybe to be done
    last,     \* history: the last tune answered with 200
    late,     \* history: a poll left a line behind on this connection
    clean     \* history: since a tune's F was carried out, on a connection
              \* without a line left behind, nothing else touched the rig

conn == <<asked, wire, late>>
vars == <<rig, waiting, step, cur, conn, strays, last, clean>>

-----------------------------------------------------------------------------
(* Modes.                                                                  *)
Plain == [lsb |-> "LSB", usb |-> "USB", cw |-> "CW", fm |-> "FM", am |-> "AM", rtty |-> "RTTY",
          pktlsb |-> "PKTLSB", pktusb |-> "PKTUSB", pktfm |-> "PKTFM"]
WavelogModes == DOMAIN Plain \cup {"pkt", "dig"}
HamlibModes  == {Plain[m] : m \in DOMAIN Plain}

ASSUME OverridesAssumption == Overrides \in [pkt : HamlibModes, dig : HamlibModes]
ASSUME RoomAssumption == ChannelRoom \in Nat \ {0}
ASSUME UnreadAssumption == MaxUnread \in Nat

DefaultOverrides == [pkt |-> "PKTUSB", dig |-> "PKTUSB"]

Resolve(mode) ==
    CASE mode = "pkt" -> Overrides.pkt
      [] mode = "dig" -> Overrides.dig
      [] mode \in DOMAIN Plain -> Plain[mode]

Tunes == [freq : Freqs, mode : HamlibModes]

\* What an exchange of a tune sets, and one of the poller, which sets nothing.
Parts    == [of : {"freq"}, value : Freqs] \cup [of : {"mode"}, value : HamlibModes]
PollLine == [of |-> "poll", value |-> "nothing"]
Lines    == {"RPRT 0", "other"}

Freq(tune) == [of |-> "freq", value |-> tune.freq]
Mode(tune) == [of |-> "mode", value |-> tune.mode]

Init ==
    /\ rig \in [freq : Freqs, mode : {Resolve(m) : m \in Segments \cap WavelogModes}]
    /\ waiting = <<>>
    /\ step = "none" /\ cur = rig
    /\ asked = <<>> /\ wire = <<>> /\ late = FALSE
    /\ strays = {}
    /\ last = rig /\ clean = TRUE

-----------------------------------------------------------------------------
(* The handler.  A foreign origin, a frequency or a mode that does not     *)
(* parse is refused and changes nothing; a browser that gives up its       *)
(* request does not take the command back.                                 *)
Click(freq, segment) ==
    /\ segment \in WavelogModes
    /\ Len(waiting) < ChannelRoom
    /\ waiting' = Append(waiting, [freq |-> freq, mode |-> Resolve(segment)])
    /\ UNCHANGED <<rig, step, cur, conn, strays, last, clean>>

-----------------------------------------------------------------------------
(* The actor.                                                              *)

\* One command at a time; F is sent.
Take ==
    /\ step = "none" /\ waiting # <<>>
    /\ cur' = Head(waiting)
    /\ waiting' = Tail(waiting)
    /\ step' = "F"
    /\ asked' = Append(asked, Freq(cur'))
    /\ clean' = (clean /\ ~late)
    /\ UNCHANGED <<rig, wire, late, strays, last>>

\* The next line is there, and says text.
ReadLine(text) ==
    /\ wire # <<>> /\ Head(wire) = text
    /\ wire' = Tail(wire)

\* RPRT 0 after F: M is sent.
SetFreq ==
    /\ step = "F"
    /\ ReadLine("RPRT 0")
    /\ asked' = Append(asked, Mode(cur))
    /\ step' = "M"
    /\ UNCHANGED <<rig, waiting, cur, late, strays, last, clean>>

\* An error, or no report at all: 502.  A refused M leaves the new frequency.
Refused ==
    /\ step \in {"F", "M"}
    /\ ReadLine("other")
    /\ step' = "none"
    /\ clean' = (clean /\ step = "F")
    /\ UNCHANGED <<rig, waiting, cur, asked, late, strays, last>>

\* RPRT 0 after M: 200.
Tuned ==
    /\ step = "M"
    /\ ReadLine("RPRT 0")
    /\ last' = cur
    /\ step' = "none"
    /\ UNCHANGED <<rig, waiting, cur, asked, late, strays, clean>>

\* The connection is dropped: its lines go, what was asked may yet be done.
Dropped ==
    /\ asked' = <<>> /\ wire' = <<>> /\ late' = FALSE
    /\ strays' = strays \cup ({asked[i] : i \in DOMAIN asked} \ {PollLine})

\* A plausible mistake: a tune that timed out leaves the connection as it is.
LostKept ==
    /\ step \in {"F", "M"}
    /\ clean' = (clean /\ step = "F" /\ asked # <<>>)
    /\ step' = "none"
    /\ UNCHANGED <<rig, waiting, cur, conn, strays, last>>

\* No line in time, or a broken connection: 502, and the connection is dropped.
Lost ==
    /\ step \in {"F", "M"}
    /\ Dropped
    /\ clean' = (clean /\ step = "F" /\ asked # <<>>)
    /\ step' = "none"
    /\ UNCHANGED <<rig, waiting, cur, last>>

\* Between two tunes the connection fails, by a poll or as the next tune's F is
\* sent; the commands that come before it is back are failed, 502.
Disconnect ==
    /\ step = "none"
    /\ Dropped
    /\ \/ UNCHANGED waiting
       \/ waiting # <<>> /\ waiting' = Tail(waiting)
    /\ UNCHANGED <<rig, step, cur, last, clean>>

\* A poll reads the lines left over, k of them, before any of its own.  It leaves
\* a line more than it found when the passband line it drains comes too late, or
\* one less when what it took for a passband line was another's.
Poll ==
    /\ step = "none"
    /\ \E k \in 0..Len(wire) : \E n \in {k - 1, k, k + 1} \cap Nat :
        /\ k = 0 => wire = <<>> /\ asked = <<>>
        /\ wire' = SubSeq(wire, k + 1, Len(wire))
        /\ asked' = asked \o [i \in 1..n |-> PollLine]
    /\ Len(wire') + Len(asked') <= MaxUnread
    /\ late' = (late \/ wire' # <<>> \/ asked' # <<>>)
    /\ UNCHANGED <<rig, waiting, step, cur, strays, last, clean>>

-----------------------------------------------------------------------------
(* rigctld and the operator.                                               *)
Carried(p) == rig' = [rig EXCEPT ![p.of] = p.value]

\* The first thing asked is carried out, and reported; or it is refused, or was
\* the poller's.
Respond ==
    /\ asked # <<>>
    /\ asked' = Tail(asked)
    /\ \/ /\ Head(asked) # PollLine
          /\ Carried(Head(asked))
          /\ wire' = Append(wire, "RPRT 0")
          /\ clean' = IF Head(asked).of = "freq" THEN ~late ELSE clean
       \/ wire' = Append(wire, "other") /\ UNCHANGED <<rig, clean>>
    /\ UNCHANGED <<waiting, step, cur, late, strays, last>>

StrayCarried ==
    /\ \E p \in strays : Carried(p) /\ strays' = strays \ {p}
    /\ clean' = FALSE
    /\ UNCHANGED <<waiting, step, cur, conn, last>>

Dial ==
    /\ \E f \in Freqs : rig' = [rig EXCEPT !.freq = f]
    /\ clean' = FALSE
    /\ UNCHANGED <<waiting, step, cur, conn, strays, last>>

Actor   == Take \/ SetFreq \/ Refused \/ Tuned \/ Lost \/ Disconnect \/ Poll
Outside == Respond \/ StrayCarried \/ Dial
Next    == (\E f \in Freqs, s \in Segments : Click(f, s)) \/ Actor \/ Outside

Spec == Init /\ [][Next]_vars

-----------------------------------------------------------------------------
(* Properties.                                                             *)

\* The tunes queued are of valid modes only.
TypeOK ==
    /\ rig \in Tunes /\ cur \in Tunes /\ last \in Tunes
    /\ waiting \in Seq(Tunes) /\ Len(waiting) <= ChannelRoom
    /\ step \in {"none", "F", "M"}
    /\ asked \in Seq(Parts \cup {PollLine}) /\ wire \in Seq(Lines)
    /\ strays \subseteq Parts
    /\ late \in BOOLEAN /\ clean \in BOOLEAN

\* On a connection without a line left behind, a tune answered with 200 leaves
\* the rig at its frequency and in its mode until the next tune's F is carried
\* out or something else touches the rig: whatever was refused, timed out or
\* broke before, two clicks are never mixed, and a click half carried out is not
\* reported as done.  (After a late line it may be: the 200 is then F's.)
OkMeansTuned == clean /\ step = "none" => rig = last

=============================================================================
