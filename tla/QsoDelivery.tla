---------------------------- MODULE QsoDelivery ----------------------------
(***************************************************************************)
(* What the program promises of a contact WSJT-X has logged, qso_queue.rs  *)
(* and wsjtx/mod.rs seen from outside: delivery to Wavelog at least once.  *)
(*                                                                         *)
(* A record received may be accepted: its append returned Ok.  The disk    *)
(* then holds it until it is settled: Wavelog has it in its log or refused *)
(* it, or it was evicted at the cap.  Whatever the disk goes through, the  *)
(* writes of the program, crashes, restarts and failed calls, a record     *)
(* accepted is held, settled or spoilt; spoilt means that the disk damaged *)
(* it, and nothing is before a fault.  (QsoPipeline says which faults.)    *)
(***************************************************************************)
CONSTANT Qsos

VARIABLES
    received,   \* records that reached the program
    accepted,   \* records whose append returned Ok
    held,       \* those that can be read from the disk
    spoilt,     \* records damaged or set aside with a corrupt file
    faulty,     \* there was a crash or a failed call
    logged,     \* records in Wavelog's log
    refused,    \* records Wavelog does not accept
    evicted     \* records given up at the cap

diskVars == <<accepted, held, spoilt, faulty>>
settledVars == <<logged, refused, evicted>>
deliveryVars == <<received, diskVars, settledVars>>

Settled == logged \cup refused \cup evicted

Init ==
    /\ received = {} /\ accepted = {} /\ held = {} /\ spoilt = {}
    /\ faulty = FALSE
    /\ logged = {} /\ refused = {} /\ evicted = {}

Receive(q) ==
    /\ q \notin received
    /\ received' = received \cup {q}
    /\ UNCHANGED <<diskVars, settledVars>>

\* A record may reach the log before its append returned, or again after it
\* was settled: at least once.
Log(q) ==
    /\ q \in received \ refused
    /\ logged' = logged \cup {q}
    /\ UNCHANGED <<received, diskVars, refused, evicted>>

Refuse(q) ==
    /\ q \in received \ logged
    /\ refused' = refused \cup {q}
    /\ UNCHANGED <<received, diskVars, logged, evicted>>

Evict(S) ==
    /\ S \subseteq received
    /\ evicted' = evicted \cup S
    /\ UNCHANGED <<received, diskVars, logged, refused>>

\* The disk changes, by a write of the program or by a fault: records are
\* accepted, come to be held, or are held no more.
Store ==
    /\ UNCHANGED <<received, settledVars>>
    /\ accepted' \in SUBSET received
    /\ accepted \subseteq accepted'
    /\ held' \in SUBSET accepted'
    /\ spoilt' \in SUBSET received
    /\ faulty' \in {faulty, TRUE}
    /\ accepted' \subseteq held' \cup spoilt' \cup Settled
    /\ spoilt' # {} => faulty'

Next ==
    \/ Store
    \/ \E q \in Qsos : Receive(q) \/ Log(q) \/ Refuse(q)
    \/ \E S \in SUBSET Qsos : Evict(S)

Spec == Init /\ [][Next]_deliveryVars

=============================================================================
