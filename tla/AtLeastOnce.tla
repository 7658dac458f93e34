----------------------------- MODULE AtLeastOnce -----------------------------
(***************************************************************************)
(* What the outbox promises: an event that was appended is delivered       *)
(* before it is settled, possibly more than once, and never after.         *)
(***************************************************************************)
CONSTANT Events

VARIABLES
    appended,    \* committed with the transaction that produced them
    delivered,   \* on the topic at least once
    settled      \* will not be delivered again

avars == <<appended, delivered, settled>>

AInit == appended = {} /\ delivered = {} /\ settled = {}

AAppend(E) ==
    /\ appended' = appended \cup E
    /\ UNCHANGED <<delivered, settled>>

ADeliver(E) ==
    /\ E \subseteq appended \ settled
    /\ delivered' = delivered \cup E
    /\ UNCHANGED <<appended, settled>>

ASettle(E) ==
    /\ E \subseteq delivered
    /\ settled' = settled \cup E
    /\ UNCHANGED <<appended, delivered>>

ANext == \E E \in SUBSET Events : AAppend(E) \/ ADeliver(E) \/ ASettle(E)

ASpec == AInit /\ [][ANext]_avars

=============================================================================
