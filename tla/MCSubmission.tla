---------------------------- MODULE MCSubmission ----------------------------
(***************************************************************************)
(* Two stations, a lifetime of three ticks; short datagrams and records of *)
(* a sentinel and two fields.  Since the listener and the worker do not    *)
(* meet, the one hears only while the other is idle in one state (bound).  *)
(***************************************************************************)
EXTENDS Submission

CONSTANTS home, portable

TwoStations == {home, portable}
\* RETRY_SLEEPS (0, 1 and 4 seconds) in ticks of five seconds, rounded up.
TickSleeps  == <<0, 1, 1>>

Quiet ==
    /\ pc = "idle" /\ cache = Unwritten /\ pinned = None /\ active = None
    /\ \A s \in Stations : since[s] = Beyond

SlowSubmission ==
    /\ SubmissionInit
    /\ [][(heard = Nothing /\ Submit) \/ (Quiet /\ Listen)]_submissionVars
    /\ Fairness /\ WF_heard(Handled)

-----------------------------------------------------------------------------
\* Strings with a length word that may not be theirs, and bytes that may not
\* be text; a foreign header, or a datagram cut in its header.
Fields(n) == {Encoded(w) \o s : w \in {0, 1, 2, 3, 4, 7, 8, 14, 15}, s \in BoundedSeq(Byte, n)}
ShortDatagrams ==
    {Header(3) \o f \o g : f \in Fields(1), g \in Fields(2)}
    \cup {Encoded(m) \o Encoded(v) \o Encoded(t) \o f :
             m \in {0, Magic}, v \in {2, 3}, t \in {5, MsgTypeLoggedAdif}, f \in Fields(1)}
    \cup {SubSeq(Header(3), 1, n) : n \in 0..5}

-----------------------------------------------------------------------------
SevenNumerals == <<"0", "1", "2", "3", "4", "5", "6">>
FewChars == {"a", "<", ">", ":", "e-acute"}
Looks    == {<<"<", "CALL", ":", "1", ">", "a">>, <<"<", "MODE", ":", "6", ">">>}
AllChars == FewChars \cup {"CALL", "MODE", "1", "6"}

Values == BoundedSeq(FewChars, 2) \cup Looks
Some(name, kinds) == [name : {name}, kind : kinds, text : Values]
Eoh == [name |-> "EOH", kind |-> <<>>, text |-> <<>>]

ShortRecords ==
    {<<>>, <<Eoh>>}
    \cup {<<Eoh, f, g>> : f \in Some("CALL", Kinds) \cup Some("MODE", Kinds),
                          g \in Some("CALL", {<<>>}) \cup Some("MODE", {<<>>})}
    \cup {<<[f EXCEPT !.name = "COMMENT"], Eoh, f>> : f \in Some("BAND", Kinds)}

\* A length that counts characters can make the inspector panic.
ASSUME CharsMayPanic ==
    \E item \in Some("CALL", Kinds) : SummaryPanics(InChars(item))

=============================================================================
