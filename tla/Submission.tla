----------------------------- MODULE Submission -----------------------------
(***************************************************************************)
(* What a submission carries, wsjtx/mod.rs: the record read from a         *)
(* datagram (WsjtxProtocol) and the station it goes to (ActiveStation).    *)
(* The listener hears, the worker resolves and submits; the two do not     *)
(* meet but in the record.                                                 *)
(***************************************************************************)
EXTENDS ActiveStation, WsjtxProtocol

submissionVars == <<vars, heard>>

SubmissionInit == Init /\ heard = Nothing

Submit == Next /\ UNCHANGED heard
Listen == (Hear \/ Handled) /\ UNCHANGED vars

SubmissionSpec == SubmissionInit /\ [][Submit \/ Listen]_submissionVars

=============================================================================
