------------------------- MODULE ClickToTuneProofs --------------------------
(***************************************************************************)
(* Proofs about ClickToTune: the types, and that 200 means tuned.          *)
(***************************************************************************)
EXTENDS ClickToTune, TLAPS, SequenceTheorems

\* What stands for a mode of Wavelog is a mode of hamlib.
LEMMA ResolveType == \A m \in WavelogModes : Resolve(m) \in HamlibModes
<1> SUFFICES ASSUME NEW m \in WavelogModes PROVE Resolve(m) \in HamlibModes
  OBVIOUS
<1>1. CASE m = "pkt"
  <2>1. m \notin DOMAIN Plain
    BY <1>1 DEF Plain
  <2>2. Resolve(m) = Overrides.pkt
    BY <1>1, <2>1 DEF Resolve
  <2> QED BY <2>2, OverridesAssumption
<1>2. CASE m = "dig"
  <2>1. m \notin DOMAIN Plain
    BY <1>2 DEF Plain
  <2>2. Resolve(m) = Overrides.dig
    BY <1>2, <2>1 DEF Resolve
  <2> QED BY <2>2, OverridesAssumption
<1>3. CASE m \in DOMAIN Plain
  <2>1. m # "pkt" /\ m # "dig"
    BY <1>3 DEF Plain
  <2>2. Resolve(m) = Plain[m]
    BY <1>3, <2>1 DEF Resolve
  <2> QED BY <1>3, <2>2 DEF HamlibModes
<1> QED BY <1>1, <1>2, <1>3 DEF WavelogModes

\* TypeOK is inductive, the clicks first.
LEMMA ClickTyped ==
    ASSUME TypeOK, NEW f \in Freqs, NEW s \in Segments, Click(f, s)
    PROVE  TypeOK'
<1>1. [freq |-> f, mode |-> Resolve(s)] \in Tunes
  BY ResolveType DEF Click, Tunes
<1>2. waiting' \in Seq(Tunes) /\ Len(waiting') = Len(waiting) + 1
  BY <1>1, AppendProperties DEF Click, TypeOK
<1> QED BY <1>2, RoomAssumption DEF Click, TypeOK, conn

\* Connections with one line.
LEMMA OneLine ==
    ASSUME NEW t
    PROVE  /\ Append(<<>>, t) = <<t>> /\ Head(<<t>>) = t /\ Tail(<<t>>) = <<>>
           /\ <<t>> # <<>> /\ \A u : <<t>> = <<u>> => t = u
<1>1. Append(<<>>, t) = <<t>> /\ Head(<<t>>) = t /\ Tail(<<t>>) = <<>>
  OBVIOUS
<1>2. Len(<<t>>) = 1 /\ Len(<<>>) = 0
  OBVIOUS
<1>3. \A u : <<t>>[1] = t /\ <<u>>[1] = u
  OBVIOUS
<1> QED BY <1>1, <1>2, <1>3

\* What is asked of the rig in a tune.
LEMMA PartsOfTunes == \A t \in Tunes : Freq(t) \in Parts /\ Mode(t) \in Parts
BY DEF Tunes, Freq, Mode, Parts

\* A part carried out is a tune still.
LEMMA CarriedTyped ==
    ASSUME TypeOK, NEW p \in Parts, Carried(p)
    PROVE  rig' \in Tunes
BY DEF Carried, TypeOK, Tunes, Parts

\* And the steps of the actor.
LEMMA ActorTyped ==
    ASSUME TypeOK, Actor
    PROVE  TypeOK'
<1> PICK Asked : Asked = Parts \cup {PollLine}
  OBVIOUS
<1>0. asked \in Seq(Asked)
  BY DEF TypeOK
<1>1. \A part \in Parts : Append(asked, part) \in Seq(Asked)
  BY <1>0, AppendProperties
<1>2. waiting # <<>> => /\ Head(waiting) \in Tunes /\ Tail(waiting) \in Seq(Tunes)
                        /\ Len(Tail(waiting)) <= ChannelRoom
  BY HeadTailProperties, RoomAssumption DEF TypeOK
<1>3. wire # <<>> => Tail(wire) \in Seq(Lines)
  BY HeadTailProperties DEF TypeOK
<1>4. <<>> \in Seq(Asked) /\ <<>> \in Seq(Lines)
  OBVIOUS
<1>5. ASSUME Dropped
      PROVE  asked' \in Seq(Asked) /\ wire' \in Seq(Lines) /\ late' \in BOOLEAN /\ strays' \subseteq Parts
  <2>1. \A i \in DOMAIN asked : asked[i] \in Asked
    BY <1>0
  <2>2. strays \subseteq Parts
    BY DEF TypeOK
  <2>3. strays' \subseteq Parts
    BY <1>5, <2>1, <2>2 DEF Dropped
  <2>4. asked' = <<>> /\ wire' = <<>> /\ late' = FALSE
    BY <1>5 DEF Dropped
  <2> QED BY <1>4, <2>3, <2>4
<1>6. CASE Take
  <2>1. cur' \in Tunes /\ waiting' \in Seq(Tunes) /\ Len(waiting') <= ChannelRoom
    BY <1>2, <1>6 DEF Take
  <2>2. asked' \in Seq(Asked)
    BY <1>1, <1>6, <2>1, PartsOfTunes DEF Take
  <2>3. clean' \in BOOLEAN
    BY <1>6 DEF Take, TypeOK
  <2> QED BY <1>6, <2>1, <2>2, <2>3 DEF Take, TypeOK
<1>7. CASE SetFreq
  <2>1. asked' \in Seq(Asked)
    BY <1>1, <1>7, PartsOfTunes DEF SetFreq, TypeOK
  <2>2. wire' \in Seq(Lines)
    BY <1>3, <1>7 DEF SetFreq, ReadLine
  <2> QED BY <1>7, <2>1, <2>2 DEF SetFreq, TypeOK
<1>8. CASE Refused
  <2>1. wire' \in Seq(Lines)
    BY <1>3, <1>8 DEF Refused, ReadLine
  <2> QED BY <1>8, <2>1 DEF Refused, TypeOK
<1>9. CASE Tuned
  <2>1. wire' \in Seq(Lines)
    BY <1>3, <1>9 DEF Tuned, ReadLine
  <2> QED BY <1>9, <2>1 DEF Tuned, TypeOK
<1>10. CASE Lost
  <2>1. clean' \in BOOLEAN
    BY <1>10 DEF Lost, TypeOK
  <2> QED BY <1>5, <1>10, <2>1 DEF Lost, TypeOK
<1>11. CASE Disconnect
  <2>1. waiting' \in Seq(Tunes) /\ Len(waiting') <= ChannelRoom
    BY <1>2, <1>11 DEF Disconnect, TypeOK
  <2> QED BY <1>5, <1>11, <2>1 DEF Disconnect, TypeOK
<1>12. CASE Poll
  <2>1. PICK k \in 0..Len(wire) : \E n \in {k - 1, k, k + 1} \cap Nat :
          /\ wire' = SubSeq(wire, k + 1, Len(wire))
          /\ asked' = asked \o [i \in 1..n |-> PollLine]
    BY <1>12 DEF Poll
  <2>2. PICK n \in Nat : asked' = asked \o [i \in 1..n |-> PollLine]
    BY <2>1
  <2>3. [i \in 1..n |-> PollLine] \in Seq(Asked)
    OBVIOUS
  <2>4. asked' \in Seq(Asked)
    BY <1>0, <2>2, <2>3, ConcatProperties
  <2>5. wire' \in Seq(Lines)
    <3>1. wire \in Seq(Lines) /\ Len(wire) \in Nat
      BY DEF TypeOK
    <3>2. \A i \in (k + 1)..Len(wire) : i \in 1..Len(wire)
      BY <3>1
    <3> QED BY <2>1, <3>1, <3>2, SubSeqProperties
  <2>6. late' \in BOOLEAN
    BY <1>12 DEF Poll, TypeOK
  <2> QED BY <1>12, <2>4, <2>5, <2>6 DEF Poll, TypeOK
<1> QED BY <1>6, <1>7, <1>8, <1>9, <1>10, <1>11, <1>12 DEF Actor

\* The rig and the operator.
LEMMA OutsideTyped ==
    ASSUME TypeOK, Outside
    PROVE  TypeOK'
<1>1. CASE Respond
  <2>1. asked \in Seq(Parts \cup {PollLine}) /\ asked # <<>> /\ asked' = Tail(asked)
    BY <1>1 DEF Respond, TypeOK
  <2>2. Head(asked) \in Parts \cup {PollLine} /\ asked' \in Seq(Parts \cup {PollLine})
    BY <2>1, HeadTailProperties
  <2>3. wire' \in Seq(Lines)
    <3>1. \A t \in Lines : Append(wire, t) \in Seq(Lines)
      BY AppendProperties DEF TypeOK
    <3> QED BY <1>1, <3>1 DEF Respond, Lines
  <2>4. rig' \in Tunes /\ clean' \in BOOLEAN
    <3>1. CASE Head(asked) # PollLine /\ Carried(Head(asked))
      BY <1>1, <2>2, <3>1, CarriedTyped DEF Respond, TypeOK
    <3>2. CASE UNCHANGED <<rig, clean>>
      BY <3>2 DEF TypeOK
    <3> QED BY <1>1, <3>1, <3>2 DEF Respond
  <2> QED BY <1>1, <2>2, <2>3, <2>4 DEF Respond, TypeOK
<1>2. CASE StrayCarried
  <2>1. PICK p \in strays : Carried(p) /\ strays' = strays \ {p}
    BY <1>2 DEF StrayCarried
  <2>2. p \in Parts
    BY DEF TypeOK
  <2>3. rig' \in Tunes
    BY <2>1, <2>2, CarriedTyped
  <2> QED BY <1>2, <2>1, <2>3 DEF StrayCarried, TypeOK, conn
<1>3. CASE Dial
  BY <1>3 DEF Dial, TypeOK, Tunes, conn
<1> QED BY <1>1, <1>2, <1>3 DEF Outside

\* The first tune there is.
LEMMA InitTyped == Init => TypeOK
<1> SUFFICES ASSUME Init PROVE TypeOK
  OBVIOUS
<1>1. {Resolve(m) : m \in Segments \cap WavelogModes} \subseteq HamlibModes
  BY ResolveType
<1>2. rig \in Tunes
  BY <1>1 DEF Init, Tunes
<1>3. waiting \in Seq(Tunes) /\ Len(waiting) = 0
  BY DEF Init
<1>4. asked \in Seq(Parts \cup {PollLine}) /\ wire \in Seq(Lines)
  BY DEF Init
<1>5. cur = rig /\ last = rig /\ step = "none" /\ strays = {} /\ late = FALSE /\ clean = TRUE
  BY DEF Init
<1>6. 0 <= ChannelRoom
  BY RoomAssumption
<1> QED BY <1>2, <1>3, <1>4, <1>5, <1>6 DEF TypeOK

\* Every variable of the handlers and of the exchange keeps its type: what the
\* actor is asked to set is a mode of hamlib (listener.rs, tune; modes.rs).
THEOREM TuneTypeCorrect == Spec => []TypeOK
<1>1. ASSUME TypeOK, [Next]_vars PROVE TypeOK'
  <2>1. CASE \E f \in Freqs, s \in Segments : Click(f, s)
    BY <1>1, <2>1, ClickTyped
  <2>2. CASE Actor \/ Outside
    BY <1>1, <2>2, ActorTyped, OutsideTyped
  <2>3. CASE UNCHANGED vars
    BY <1>1, <2>3 DEF vars, conn, TypeOK
  <2> QED BY <1>1, <2>1, <2>2, <2>3 DEF Next
<1> QED BY InitTyped, <1>1, PTL DEF Spec

-----------------------------------------------------------------------------
\* The lines of a connection on which no poll left one behind: nothing between
\* two tunes, and in a tune one exchange asked or answered, the current one.
InStep ==
    ~late => \/ step = "none" /\ asked = <<>> /\ wire = <<>>
             \/ step = "F" /\ asked = <<Freq(cur)>> /\ wire = <<>>
             \/ step = "M" /\ asked = <<Mode(cur)>> /\ wire = <<>>
             \/ step \in {"F", "M"} /\ asked = <<>> /\ \E text \in Lines : wire = <<text>>

\* On any other, no tune was begun since the rig was last as the last 200 said.
OutOfStep ==
    late /\ clean => step = "none" /\ \A i \in DOMAIN asked : asked[i] = PollLine

\* What the rig is set to within a tune: as before until F is carried out, at the
\* tune's frequency from then on, and wholly tuned once M is.
Halfway ==
    /\ clean /\ step = "F" /\ asked # <<>> => rig = last
    /\ clean /\ step = "F" /\ wire = <<"other">> => rig = last
    /\ clean /\ step = "F" /\ wire = <<"RPRT 0">> => rig.freq = cur.freq
    /\ clean /\ step = "M" /\ asked # <<>> => rig.freq = cur.freq
    /\ clean /\ step = "M" /\ wire = <<"RPRT 0">> => rig = cur

\* What the clean steps preserve together.
TuneInv == InStep /\ OutOfStep /\ Halfway /\ OkMeansTuned

\* The actor's steps.
LEMMA ActorKeepsTuned ==
    ASSUME TypeOK, TypeOK', TuneInv, Actor
    PROVE  TuneInv'
<1> USE DEF TuneInv
<1>1. CASE Take
  <2>1. ~late => asked' = <<Freq(cur')>> /\ wire' = <<>>
    BY <1>1 DEF Take, InStep
  <2>2. step = "none" /\ step' = "F" /\ late' = late /\ rig' = rig /\ last' = last
    BY <1>1 DEF Take
  <2>3. clean' = (clean /\ ~late)
    BY <1>1 DEF Take
  <2>4. InStep' /\ OutOfStep'
    BY <2>1, <2>2, <2>3 DEF InStep, OutOfStep
  <2>5. clean' => rig' = last' /\ wire' = <<>>
    BY <2>1, <2>2, <2>3 DEF OkMeansTuned
  <2>6. wire' = <<>> => wire' # <<"other">> /\ wire' # <<"RPRT 0">>
    BY OneLine
  <2>7. Halfway' /\ OkMeansTuned'
    BY <2>2, <2>5, <2>6 DEF Halfway, OkMeansTuned
  <2> QED BY <2>4, <2>7
<1>2. CASE SetFreq
  <2>1. step = "F" /\ step' = "M" /\ wire # <<>> /\ Head(wire) = "RPRT 0" /\ wire' = Tail(wire)
        /\ asked' = Append(asked, Mode(cur))
    BY <1>2 DEF SetFreq, ReadLine
  <2>2. UNCHANGED <<late, clean, rig, last, cur>>
    BY <1>2 DEF SetFreq
  <2>3. ~late => wire = <<"RPRT 0">> /\ asked = <<>>
    BY <2>1, OneLine DEF InStep
  <2>4. ~late => wire' = <<>> /\ asked' = <<Mode(cur)>>
    BY <2>1, <2>3, OneLine
  <2>5. clean => ~late
    BY <2>1 DEF OutOfStep
  <2>6. InStep' /\ OutOfStep'
    BY <2>1, <2>2, <2>4, <2>5 DEF InStep, OutOfStep
  <2>7. clean => rig.freq = cur.freq
    BY <2>1, <2>3, <2>5 DEF Halfway
  <2>8. wire' = <<>> => wire' # <<"RPRT 0">>
    BY OneLine
  <2>9. Halfway' /\ OkMeansTuned'
    BY <2>1, <2>2, <2>4, <2>5, <2>7, <2>8 DEF Halfway, OkMeansTuned
  <2> QED BY <2>6, <2>9
<1>3. CASE Refused
  <2>1. step \in {"F", "M"} /\ step' = "none" /\ wire # <<>> /\ Head(wire) = "other" /\ wire' = Tail(wire)
    BY <1>3 DEF Refused, ReadLine
  <2>2. UNCHANGED <<asked, late, rig, last>> /\ clean' = (clean /\ step = "F")
    BY <1>3 DEF Refused
  <2>3. ~late => wire = <<"other">> /\ asked = <<>>
    BY <2>1, OneLine DEF InStep
  <2>4. ~late => wire' = <<>> /\ asked' = <<>>
    BY <2>1, <2>2, <2>3, OneLine
  <2>5. clean => ~late
    BY <2>1 DEF OutOfStep
  <2>6. clean' => rig = last
    BY <2>2, <2>3, <2>5 DEF Halfway
  <2> QED BY <2>1, <2>2, <2>4, <2>5, <2>6 DEF InStep, OutOfStep, Halfway, OkMeansTuned
<1>4. CASE Tuned
  <2>1. step = "M" /\ step' = "none" /\ wire # <<>> /\ Head(wire) = "RPRT 0" /\ wire' = Tail(wire)
    BY <1>4 DEF Tuned, ReadLine
  <2>2. UNCHANGED <<asked, late, rig, clean, cur>> /\ last' = cur
    BY <1>4 DEF Tuned
  <2>3. ~late => wire = <<"RPRT 0">> /\ asked = <<>>
    BY <2>1, OneLine DEF InStep
  <2>4. ~late => wire' = <<>> /\ asked' = <<>>
    BY <2>1, <2>2, <2>3, OneLine
  <2>5. clean => ~late
    BY <2>1 DEF OutOfStep
  <2>6. clean => rig = cur
    BY <2>1, <2>3, <2>5 DEF Halfway
  <2> QED BY <2>1, <2>2, <2>4, <2>5, <2>6 DEF InStep, OutOfStep, Halfway, OkMeansTuned
<1>5. CASE Lost
  <2>1. step \in {"F", "M"} /\ step' = "none" /\ asked' = <<>> /\ wire' = <<>> /\ late' = FALSE
    BY <1>5 DEF Lost, Dropped
  <2>2. UNCHANGED rig /\ last' = last /\ clean' = (clean /\ step = "F" /\ asked # <<>>)
    BY <1>5 DEF Lost
  <2>3. clean' => rig' = last'
    BY <2>2 DEF Halfway
  <2> QED BY <2>1, <2>2, <2>3 DEF InStep, OutOfStep, Halfway, OkMeansTuned
<1>6. CASE Disconnect
  <2>1. step = "none" /\ asked' = <<>> /\ wire' = <<>> /\ late' = FALSE
    BY <1>6 DEF Disconnect, Dropped
  <2>2. UNCHANGED <<rig, step, last, clean>>
    BY <1>6 DEF Disconnect
  <2> QED BY <2>1, <2>2 DEF InStep, OutOfStep, Halfway, OkMeansTuned
<1>7. CASE Poll
  <2>1. step = "none" /\ UNCHANGED <<rig, step, last, clean>>
    BY <1>7 DEF Poll
  <2>2. late' = (late \/ wire' # <<>> \/ asked' # <<>>)
    BY <1>7 DEF Poll
  <2>3. PICK n \in Nat : asked' = asked \o [i \in 1..n |-> PollLine]
    BY <1>7 DEF Poll
  <2>4. clean => \A i \in DOMAIN asked : asked[i] = PollLine
    BY <2>1 DEF InStep, OutOfStep
  <2>5. asked \in Seq(Parts \cup {PollLine}) /\ [i \in 1..n |-> PollLine] \in Seq(Parts \cup {PollLine})
    BY DEF TypeOK
  <2>6. clean => \A i \in DOMAIN asked' : asked'[i] = PollLine
    BY <2>3, <2>4, <2>5
  <2> QED BY <2>1, <2>2, <2>6 DEF InStep, OutOfStep, Halfway, OkMeansTuned
<1> QED BY <1>1, <1>2, <1>3, <1>4, <1>5, <1>6, <1>7 DEF Actor

\* rigctld answers.
LEMMA RespondKeepsTuned ==
    ASSUME TypeOK, TypeOK', TuneInv, Respond
    PROVE  TuneInv'
<1> USE DEF TuneInv
<1>1. asked # <<>> /\ asked' = Tail(asked) /\ UNCHANGED <<step, cur, late, last>>
  BY DEF Respond
<1>2. CASE late
  <2>1. clean => Head(asked) = PollLine /\ \A i \in DOMAIN asked : asked[i] = PollLine
    BY <1>1, <1>2 DEF OutOfStep, TypeOK
  <2>2. clean => \A i \in DOMAIN asked' : asked'[i] = PollLine
    <3>1. asked \in Seq(Parts \cup {PollLine})
      BY DEF TypeOK
    <3>2. \A i \in DOMAIN Tail(asked) : Tail(asked)[i] = asked[i + 1] /\ i + 1 \in DOMAIN asked
      BY <1>1, <3>1
    <3> QED BY <1>1, <2>1, <3>2
  <2>3. clean' => clean /\ rig' = rig
    BY <1>2, <2>1 DEF Respond
  <2> QED BY <1>1, <1>2, <2>2, <2>3 DEF InStep, OutOfStep, Halfway, OkMeansTuned
<1>3. CASE ~late /\ step = "F"
  <2>1. asked = <<Freq(cur)>> /\ wire = <<>> /\ asked' = <<>>
    BY <1>1, <1>3, OneLine DEF InStep
  <2>2. Head(asked) = Freq(cur) /\ Freq(cur) # PollLine /\ Freq(cur).of = "freq" /\ Freq(cur).value = cur.freq
    BY <2>1 DEF Freq, PollLine
  <2>3. CASE Carried(Head(asked)) /\ wire' = Append(wire, "RPRT 0") /\ clean' = ~late
    <3>1. rig' = [rig EXCEPT !["freq"] = cur.freq]
      BY <2>2, <2>3 DEF Carried
    <3>2. rig'.freq = cur.freq
      BY <3>1 DEF TypeOK, Tunes
    <3>3. wire' = <<"RPRT 0">> /\ wire' # <<"other">>
      BY <2>1, <2>3, OneLine
    <3> QED BY <1>1, <1>3, <2>1, <3>2, <3>3 DEF InStep, OutOfStep, Halfway, OkMeansTuned, Lines
  <2>4. CASE wire' = Append(wire, "other") /\ UNCHANGED <<rig, clean>>
    <3>1. wire' = <<"other">> /\ wire' # <<"RPRT 0">>
      BY <2>1, <2>4, OneLine
    <3> QED BY <1>1, <1>3, <2>1, <2>4, <3>1 DEF InStep, OutOfStep, Halfway, OkMeansTuned, Lines
  <2> QED BY <2>2, <2>3, <2>4 DEF Respond
<1>4. CASE ~late /\ step = "M"
  <2>1. asked = <<Mode(cur)>> /\ wire = <<>> /\ asked' = <<>>
    BY <1>1, <1>4, OneLine DEF InStep
  <2>2. Head(asked) = Mode(cur) /\ Mode(cur).of = "mode" /\ Mode(cur).value = cur.mode
    BY <2>1 DEF Mode
  <2>3. CASE Carried(Head(asked)) /\ wire' = Append(wire, "RPRT 0") /\ UNCHANGED clean
    <3>1. rig' = [rig EXCEPT !["mode"] = cur.mode]
      BY <2>2, <2>3 DEF Carried
    <3>2. rig.freq = cur.freq => rig' = cur
      BY <3>1 DEF TypeOK, Tunes
    <3>3. wire' = <<"RPRT 0">>
      BY <2>1, <2>3, OneLine
    <3> QED BY <1>1, <1>4, <2>1, <2>3, <3>2, <3>3 DEF InStep, OutOfStep, Halfway, OkMeansTuned, Lines
  <2>4. CASE wire' = Append(wire, "other") /\ UNCHANGED <<rig, clean>>
    <3>1. wire' = <<"other">> /\ wire' # <<"RPRT 0">>
      BY <2>1, <2>4, OneLine
    <3> QED BY <1>1, <1>4, <2>1, <2>4, <3>1 DEF InStep, OutOfStep, Halfway, OkMeansTuned, Lines
  <2> QED BY <2>2, <2>3, <2>4 DEF Respond
<1>5. ~late => step \in {"F", "M"}
  BY <1>1 DEF InStep
<1> QED BY <1>2, <1>3, <1>4, <1>5

\* On a connection without a line left behind, a tune answered with 200 leaves
\* the rig as asked, through errors of the rig, reads that time out, broken
\* connections and what is carried out late (rigctld.rs, exec_set_freq_mode and
\* serve).  The induction follows the lines: without InStep the report that a
\* tune reads could be another's.
THEOREM OkMeansTunedAlways == Spec => []OkMeansTuned
<1>1. Init => TuneInv
  BY DEF Init, TuneInv, InStep, OutOfStep, Halfway, OkMeansTuned
<1>2. ASSUME TypeOK, TuneInv, TypeOK', [Next]_vars PROVE TuneInv'
  <2>1. CASE \E f \in Freqs, s \in Segments : Click(f, s)
    <3>1. UNCHANGED <<rig, step, cur, asked, wire, late, last, clean>>
      BY <2>1 DEF Click, conn
    <3> QED BY <1>2, <3>1 DEF TuneInv, InStep, OutOfStep, Halfway, OkMeansTuned
  <2>2. CASE Actor
    BY <1>2, <2>2, ActorKeepsTuned
  <2>3. CASE Respond
    BY <1>2, <2>3, RespondKeepsTuned
  <2>4. CASE StrayCarried \/ Dial
    BY <1>2, <2>4 DEF StrayCarried, Dial, conn, TuneInv, InStep, OutOfStep, Halfway, OkMeansTuned
  <2>5. CASE UNCHANGED vars
    BY <1>2, <2>5 DEF vars, conn, TuneInv, InStep, OutOfStep, Halfway, OkMeansTuned
  <2> QED BY <1>2, <2>1, <2>2, <2>3, <2>4, <2>5 DEF Next, Outside
<1>3. TuneInv => OkMeansTuned
  BY DEF TuneInv
<1> QED BY <1>1, <1>2, <1>3, TuneTypeCorrect, PTL DEF Spec

=============================================================================
