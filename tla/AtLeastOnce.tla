---------------------------- MODULE AtLeastOnce ----------------------------
(***************************************************************************)
(* What the outbox promises about the events of committed changes: an      *)
(* event is handed to the broker only after its change has committed, at   *)
(* least once before it counts as delivered and never afterwards, and is   *)
(* given up only undelivered.  OutboxRelay.tla is shown to implement this. *)
(***************************************************************************)
EXTENDS Naturals, Sequences

CONSTANT Events

VARIABLES
    accepted,   \* events of committed changes
    stream,     \* what the broker was handed, in order
    delivered,  \* events that count as delivered
    abandoned   \* events that are not tried any more

vars == <<accepted, stream, delivered, abandoned>>

Sent == {stream[i] : i \in DOMAIN stream}

Init == /\ accepted = {}
        /\ stream = <<>>
        /\ delivered = {}
        /\ abandoned = {}

Accept(e) == /\ e \notin accepted
             /\ accepted' = accepted \cup {e}
             /\ UNCHANGED <<stream, delivered, abandoned>>

Send(e) == /\ e \in accepted \ (delivered \cup abandoned)
           /\ stream' = Append(stream, e)
           /\ UNCHANGED <<accepted, delivered, abandoned>>

(* Outcomes are recorded for several events at once.                       *)
Settle(D, A) == /\ D \subseteq accepted \cap Sent
                /\ A \subseteq accepted
                /\ (D \cup A) \cap (delivered \cup abandoned) = {}
                /\ D \cap A = {}
                /\ delivered' = delivered \cup D
                /\ abandoned' = abandoned \cup A
                /\ UNCHANGED <<accepted, stream>>

Next == \/ \E e \in Events : Accept(e) \/ Send(e)
        \/ \E D, A \in SUBSET Events : Settle(D, A)

Spec == Init /\ [][Next]_vars
=============================================================================
