----------------------------- MODULE OutboxRelay -----------------------------
(***************************************************************************)
(* The transactional outbox of internal/platform/outbox: transactions      *)
(* insert rows, and the Relay of every replica of the service polls for    *)
(* unpublished ones, writes them to Kafka and marks them, in a transaction *)
(* that holds their locks.                                                 *)
(*                                                                         *)
(* Operators named Bug... are deliberate errors, as in CredentialAggregate.*)
(***************************************************************************)
EXTENDS Integers, FiniteSets

CONSTANTS
    Events,      \* rows of outbox_events, by id
    Refused,     \* those whose message is too large for the writer
    Relays,      \* one per replica
    BatchSize,   \* RelayConfig.BatchSize
    MaxTime,     \* bound: distinct values of created_at
    MaxAttempts, \* bound: up to where attempts, which nothing reads, is counted
    MaxFaults    \* bound: failed writes, failed commits and crashes

ASSUME RelayAssumption ==
    /\ BatchSize \in Nat \ {0} /\ Refused \subseteq Events
    /\ MaxTime \in Nat /\ MaxAttempts \in Nat /\ MaxFaults \in Nat

VARIABLES
    row,       \* absent, or the row is unpublished (published_at IS NULL) or published
    created,   \* created_at: when the inserting transaction began
    attempts,  \* the attempts column
    sent,      \* how many copies of an event the topic holds
    stage,     \* where a relay is in publishBatch
    batch,     \* the rows a relay's transaction has locked
    faults

vars == <<row, created, attempts, sent, stage, batch, faults>>

Init ==
    /\ row = [e \in Events |-> "absent"]
    /\ created = [e \in Events |-> 0]
    /\ attempts = [e \in Events |-> 0]
    /\ sent = [e \in Events |-> 0]
    /\ stage = [r \in Relays |-> "poll"]
    /\ batch = [r \in Relays |-> {}]
    /\ faults = 0

Unpublished == {e \in Events : row[e] = "unpublished"}
Locked == UNION {batch[r] : r \in Relays}

\* InsertEvents, committed.  Its rows share the instant their transaction
\* began, which may be earlier than that of rows already there.
InsertEvents(E, t) ==
    /\ E # {} /\ \A e \in E : row[e] = "absent"
    /\ row' = [e \in Events |-> IF e \in E THEN "unpublished" ELSE row[e]]
    /\ created' = [e \in Events |-> IF e \in E THEN t ELSE created[e]]
    /\ UNCHANGED <<attempts, sent, stage, batch, faults>>

\* FOR UPDATE without SKIP LOCKED and without waiting.
BugFree == Unpublished

\* Leaves out the rows that failed before.
BugFreeNoRetry == {e \in Unpublished \ Locked : attempts[e] = 0}

\* FOR UPDATE SKIP LOCKED.
Free == Unpublished \ Locked

\* ORDER BY created_at LIMIT BatchSize: rows of one instant in any order.
Batches ==
    {B \in SUBSET Free :
        /\ Cardinality(B) <= BatchSize
        /\ Cardinality(B) < BatchSize => B = Free
        /\ \A e \in B, f \in Free \ B : created[e] <= created[f]}

\* The SELECT of a batch that is not empty.
Claim(r) ==
    /\ stage[r] = "poll"
    /\ \E B \in Batches :
          /\ B # {}
          /\ batch' = [batch EXCEPT ![r] = B]
          /\ stage' = [stage EXCEPT ![r] = "write"]
    /\ UNCHANGED <<row, created, attempts, sent, faults>>

Send(E) == sent' = [e \in Events |-> IF e \in E THEN sent[e] + 1 ELSE sent[e]]

Fault == faults < MaxFaults /\ faults' = faults + 1

\* Goes on to mark the batch published whether or not Kafka took it.
BugWriteMessages(r) ==
    /\ stage[r] = "write"
    /\ \/ Send(batch[r]) /\ UNCHANGED faults
       \/ \E E \in SUBSET batch[r] : Send(E) /\ Fault
    /\ stage' = [stage EXCEPT ![r] = "markPublished"]
    /\ UNCHANGED <<row, created, attempts, batch>>

\* WriteMessages: the writer looks at the size of every message before it
\* sends any; an error of the broker leaves any part of the batch on the topic.
WriteMessages(r) ==
    /\ stage[r] = "write"
    /\ \/ /\ batch[r] \cap Refused = {}
          /\ Send(batch[r])
          /\ stage' = [stage EXCEPT ![r] = "markPublished"]
          /\ UNCHANGED faults
       \/ /\ batch[r] \cap Refused # {}
          /\ stage' = [stage EXCEPT ![r] = "markFailed"]
          /\ UNCHANGED <<sent, faults>>
       \/ /\ batch[r] \cap Refused = {}
          /\ \E E \in SUBSET batch[r] : Send(E)
          /\ stage' = [stage EXCEPT ![r] = "markFailed"]
          /\ Fault
    /\ UNCHANGED <<row, created, attempts, batch>>

\* The transaction ends, one way or the other, and its locks with it.
Release(r) ==
    /\ batch' = [batch EXCEPT ![r] = {}]
    /\ stage' = [stage EXCEPT ![r] = "poll"]

\* The UPDATE and the commit, which may be reported as failed.
MarkPublished(r) ==
    /\ stage[r] = "markPublished"
    /\ row' = [e \in Events |-> IF e \in batch[r] THEN "published" ELSE row[e]]
    /\ Release(r)
    /\ UNCHANGED <<created, attempts, sent, faults>>

\* markFailed: the row stays for the next poll.
MarkFailed(r) ==
    /\ stage[r] = "markFailed"
    /\ attempts' = [e \in Events |-> IF e \in batch[r] /\ attempts[e] < MaxAttempts
                                     THEN attempts[e] + 1 ELSE attempts[e]]
    /\ Release(r)
    /\ UNCHANGED <<row, created, sent, faults>>

\* A statement or the commit fails, or the process stops: rolled back.
Rollback(r) ==
    /\ stage[r] # "poll"
    /\ Fault
    /\ Release(r)
    /\ UNCHANGED <<row, created, attempts, sent>>

Poll(r) == Claim(r) \/ WriteMessages(r) \/ MarkPublished(r) \/ MarkFailed(r)

\* An empty batch ends the poll: publishBatch returns nil.
EmptyPoll(r) ==
    /\ stage[r] = "poll" /\ Free = {}
    /\ UNCHANGED vars

Next ==
    \/ \E E \in SUBSET Events, t \in 0..MaxTime : InsertEvents(E, t)
    \/ \E r \in Relays : Poll(r) \/ Rollback(r) \/ EmptyPoll(r)

Spec == Init /\ [][Next]_vars

\* Run's ticker fires for ever and every call returns.
FairSpec == Spec /\ \A r \in Relays : WF_vars(Poll(r))

-----------------------------------------------------------------------------

\* The columns and the relays' locals keep their types.
TypeOK ==
    /\ row \in [Events -> {"absent", "unpublished", "published"}]
    /\ created \in [Events -> Nat]
    /\ attempts \in [Events -> Nat]
    /\ sent \in [Events -> Nat]
    /\ stage \in [Relays -> {"poll", "write", "markPublished", "markFailed"}]
    /\ batch \in [Relays -> SUBSET Events]
    /\ faults \in Nat

\* No two replicas work on the same row, and what a relay holds is still to be
\* published: a duplicate takes a failure (publisher.go:78-84).
ClaimsDisjoint ==
    /\ \A r, s \in Relays : r # s => batch[r] \cap batch[s] = {}
    /\ \A r \in Relays : batch[r] \subseteq Unpublished

\* Without a failure a row is sent once: every copy beyond the first is owed
\* to a failed write, a failed commit or a crash (publisher.go:112-123).
DuplicatesNeedFaults == \A e \in Events : sent[e] <= 1 + faults

\* A row that is in the table is published in the end, once failures stop, by
\* whichever replica gets to it, unless a message that is refused whenever it is
\* tried is in the table too: that one is selected again at every poll and fails
\* the batch it is in (publisher.go:44-61, 78-84, 112-114).
OnlyRefusedHoldUp ==
    \A e \in Events :
        row[e] = "unpublished" ~> \/ row[e] = "published"
                                 \/ \E f \in Refused : row[f] = "unpublished"

Promise == INSTANCE AtLeastOnce WITH
    appended  <- {e \in Events : row[e] # "absent"},
    delivered <- {e \in Events : sent[e] > 0},
    settled   <- {e \in Events : row[e] = "published"}

\* The relay delivers at least once: a row is marked published only after its
\* event reached the topic, and is never sent afterwards
\* (publisher.go:112-123).
DeliversAtLeastOnce == Promise!ASpec

=============================================================================
