----------------------------- MODULE MCRigActor -----------------------------
(***************************************************************************)
(* Small instances of RigActor: a poller and a tune endpoint, and commands *)
(* with every exchange there is.                                           *)
(***************************************************************************)
EXTENDS RigActor

CONSTANTS poller, listener

MCClients == {poller, listener}
MCKinds   == {"power", "poll", "tune"}

=============================================================================
