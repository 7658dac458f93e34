-------------------------- MODULE OutboxRelayProofs --------------------------
(***************************************************************************)
(* The outbox relay keeps its promise for every set of events and of       *)
(* replicas, every batch size and every number of failures.                *)
(***************************************************************************)
EXTENDS OutboxRelay, TLAPS

\* A batch to be marked published is on the topic, and so is what is marked.
SentFirst ==
    /\ \A r \in Relays : stage[r] = "markPublished" => \A e \in batch[r] : sent[e] > 0
    /\ \A e \in Events : row[e] = "published" => sent[e] > 0

Inv == TypeOK /\ ClaimsDisjoint /\ SentFirst

LEMMA InitInv == Init => Inv
  BY DEF Init, Inv, TypeOK, ClaimsDisjoint, SentFirst, Unpublished

LEMMA StepInv == Inv /\ [Next]_vars => Inv'
<1> SUFFICES ASSUME Inv, [Next]_vars PROVE Inv'
  OBVIOUS
<1> USE RelayAssumption DEF Inv, TypeOK, ClaimsDisjoint, SentFirst, Unpublished
<1>1. ASSUME NEW E \in SUBSET Events, NEW t \in 0..MaxTime, InsertEvents(E, t) PROVE Inv'
  BY <1>1 DEF InsertEvents
<1>2. ASSUME NEW r \in Relays, Claim(r) PROVE Inv'
  <2>1. PICK B \in Batches : /\ batch' = [batch EXCEPT ![r] = B]
                             /\ stage' = [stage EXCEPT ![r] = "write"]
    BY <1>2 DEF Claim
  <2>2. B \subseteq Unpublished /\ \A s \in Relays : B \cap batch[s] = {}
    BY <2>1 DEF Batches, Free, Locked
  <2> QED BY <1>2, <2>1, <2>2 DEF Claim
<1>3. ASSUME NEW r \in Relays, WriteMessages(r) PROVE Inv'
  <2>1. \A e \in Events : sent'[e] \in Nat /\ sent'[e] >= sent[e]
    BY <1>3 DEF WriteMessages, Send
  <2>2. stage'[r] = "markPublished" => \A e \in batch[r] : sent'[e] > 0
    BY <1>3 DEF WriteMessages, Send
  <2>3. faults' \in Nat /\ sent' \in [Events -> Nat]
    BY <1>3 DEF WriteMessages, Send, Fault
  <2> QED BY <1>3, <2>1, <2>2, <2>3 DEF WriteMessages
<1>4. ASSUME NEW r \in Relays, MarkPublished(r) PROVE Inv'
  BY <1>4 DEF MarkPublished, Release
<1>5. ASSUME NEW r \in Relays, MarkFailed(r) PROVE Inv'
  BY <1>5 DEF MarkFailed, Release
<1>6. ASSUME NEW r \in Relays, Rollback(r) PROVE Inv'
  BY <1>6 DEF Rollback, Release, Fault
<1>7. CASE UNCHANGED vars
  BY <1>7 DEF vars
<1> QED BY <1>1, <1>2, <1>3, <1>4, <1>5, <1>6, <1>7 DEF Next, Poll, EmptyPoll

\* TypeOK holds in every state the relays of publisher.go can reach.
THEOREM RelayTypeCorrect == Spec => []TypeOK
<1>1. Inv => TypeOK
  BY DEF Inv
<1> QED BY <1>1, InitInv, StepInv, PTL DEF Spec

\* SELECT ... FOR UPDATE SKIP LOCKED (publisher.go:78-84) keeps any number of
\* replicas off each other's rows.
THEOREM ClaimsAlwaysDisjoint == Spec => []ClaimsDisjoint
<1>1. Inv => ClaimsDisjoint
  BY DEF Inv
<1> QED BY <1>1, InitInv, StepInv, PTL DEF Spec

\* A copy is owed to a failure, or is the one about to be marked or marked.
CopiesAccounted ==
    \A e \in Events :
        /\ sent[e] <= 1 + faults
        /\ row[e] # "published" /\ (\A r \in Relays : stage[r] = "markPublished" => e \notin batch[r])
              => sent[e] <= faults

LEMMA InitCopies == Init => CopiesAccounted
  BY DEF Init, CopiesAccounted

LEMMA StepCopies == Inv /\ CopiesAccounted /\ [Next]_vars => CopiesAccounted'
<1> SUFFICES ASSUME Inv, CopiesAccounted, [Next]_vars PROVE CopiesAccounted'
  OBVIOUS
<1> USE RelayAssumption DEF Inv, TypeOK, ClaimsDisjoint, CopiesAccounted, Unpublished
<1>1. ASSUME NEW E \in SUBSET Events, NEW t \in 0..MaxTime, InsertEvents(E, t)
      PROVE CopiesAccounted'
  BY <1>1 DEF InsertEvents
<1>2. ASSUME NEW r \in Relays, Claim(r) PROVE CopiesAccounted'
  <2>1. PICK B \in Batches : /\ batch' = [batch EXCEPT ![r] = B]
                             /\ stage' = [stage EXCEPT ![r] = "write"]
    BY <1>2 DEF Claim
  <2>2. stage[r] = "poll" /\ UNCHANGED <<row, sent, faults>>
    BY <1>2 DEF Claim
  <2> QED BY <2>1, <2>2
<1>3. ASSUME NEW r \in Relays, WriteMessages(r) PROVE CopiesAccounted'
  <2>1. UNCHANGED <<row, batch>> /\ stage[r] = "write"
    BY <1>3 DEF WriteMessages
  <2>2. \A e \in batch[r] : sent[e] <= faults
    BY <2>1
  <2>3. CASE sent' = sent /\ faults' = faults /\ stage' = [stage EXCEPT ![r] = "markFailed"]
    BY <2>1, <2>3
  <2>4. CASE Send(batch[r]) /\ faults' = faults /\ stage' = [stage EXCEPT ![r] = "markPublished"]
    BY <2>1, <2>2, <2>4 DEF Send
  <2>5. CASE /\ \E E \in SUBSET batch[r] : Send(E)
             /\ stage' = [stage EXCEPT ![r] = "markFailed"] /\ Fault
    BY <2>1, <2>2, <2>5 DEF Send, Fault
  <2> QED BY <1>3, <2>3, <2>4, <2>5 DEF WriteMessages
<1>4. ASSUME NEW r \in Relays, MarkPublished(r) PROVE CopiesAccounted'
  BY <1>4 DEF MarkPublished, Release
<1>5. ASSUME NEW r \in Relays, MarkFailed(r) PROVE CopiesAccounted'
  BY <1>5 DEF MarkFailed, Release
<1>6. ASSUME NEW r \in Relays, Rollback(r) PROVE CopiesAccounted'
  BY <1>6 DEF Rollback, Release, Fault
<1>7. CASE UNCHANGED vars
  BY <1>7 DEF vars
<1> QED BY <1>1, <1>2, <1>3, <1>4, <1>5, <1>6, <1>7 DEF Next, Poll, EmptyPoll

\* Every copy of an event beyond the first is owed to a failed write, a failed
\* commit or a crash (publisher.go:112-123), for any number of replicas.
THEOREM DuplicatesAlwaysNeedFaults == Spec => []DuplicatesNeedFaults
<1>1. CopiesAccounted => DuplicatesNeedFaults
  BY DEF CopiesAccounted, DuplicatesNeedFaults
<1> QED BY <1>1, InitInv, StepInv, InitCopies, StepCopies, PTL DEF Spec

LEMMA InitPromise == Init => Promise!AInit
  BY DEF Init, Promise!AInit

LEMMA StepPromise == Inv /\ [Next]_vars => [Promise!ANext]_(Promise!avars)
<1> SUFFICES ASSUME Inv, [Next]_vars PROVE [Promise!ANext]_(Promise!avars)
  OBVIOUS
<1> USE DEF Inv, TypeOK, Promise!avars
<1>1. ASSUME NEW E \in SUBSET Events, NEW t \in 0..MaxTime, InsertEvents(E, t)
      PROVE Promise!AAppend(E)
  BY <1>1 DEF InsertEvents, Promise!AAppend
<1>2. ASSUME NEW r \in Relays, Claim(r) PROVE UNCHANGED Promise!avars
  BY <1>2 DEF Claim
<1>3. ASSUME NEW r \in Relays, WriteMessages(r) PROVE Promise!ANext
  <2>1. PICK E \in SUBSET batch[r] : Send(E)
    <3>1. CASE batch[r] \cap Refused = {}
      BY <1>3, <3>1 DEF WriteMessages
    <3>2. CASE batch[r] \cap Refused # {}
      <4>1. sent' = sent /\ {} \in SUBSET batch[r]
        BY <1>3, <3>2 DEF WriteMessages
      <4>2. Send({})
        BY <4>1 DEF Send
      <4> QED BY <4>1, <4>2
    <3> QED BY <3>1, <3>2
  <2>2. E \in SUBSET Events /\ E \subseteq Unpublished
    BY DEF ClaimsDisjoint
  <2>3. Promise!ADeliver(E)
    BY <1>3, <2>1, <2>2 DEF WriteMessages, Send, Unpublished, Promise!ADeliver
  <2> QED BY <2>2, <2>3 DEF Promise!ANext
<1>4. ASSUME NEW r \in Relays, MarkPublished(r) PROVE Promise!ANext
  <2>1. PICK E \in SUBSET Events : E = batch[r]
    OBVIOUS
  <2>2. Promise!ASettle(E)
    BY <1>4, <2>1 DEF MarkPublished, SentFirst, ClaimsDisjoint, Unpublished, Promise!ASettle
  <2> QED BY <2>2 DEF Promise!ANext
<1>5. ASSUME NEW r \in Relays, MarkFailed(r) PROVE UNCHANGED Promise!avars
  BY <1>5 DEF MarkFailed
<1>6. ASSUME NEW r \in Relays, Rollback(r) PROVE UNCHANGED Promise!avars
  BY <1>6 DEF Rollback
<1>7. ASSUME UNCHANGED vars PROVE UNCHANGED Promise!avars
  BY <1>7 DEF vars
<1>8. ASSUME NEW E \in SUBSET Events, NEW t \in 0..MaxTime, InsertEvents(E, t)
      PROVE Promise!ANext
  BY <1>1, <1>8 DEF Promise!ANext
<1> HIDE DEF Inv, TypeOK, Promise!avars
<1> QED
  BY <1>2, <1>3, <1>4, <1>5, <1>6, <1>7, <1>8 DEF Next, Poll, EmptyPoll

\* The relay implements the at-least-once promise: publishBatch marks a row
\* published only once its event is on the topic, and sends no row that is
\* marked (publisher.go:112-123).
THEOREM RelayDeliversAtLeastOnce == Spec => DeliversAtLeastOnce
<1> QED BY InitInv, StepInv, InitPromise, StepPromise, PTL
        DEF Spec, DeliversAtLeastOnce, Promise!ASpec

-----------------------------------------------------------------------------
(* A message the writer refuses, and what holds the others up.             *)

\* A refused message is not on the topic and its row is not marked.
RefusedStay == \A f \in Refused : sent[f] = 0 /\ row[f] # "published"

\* What can make a batch fail: a failure, or a refused message in the table.
Cause == faults > 0 \/ \E f \in Refused : row[f] = "unpublished"

\* A row whose attempts were counted met a failure or a refused message.
FailuresHaveCause == \A e \in Events : attempts[e] > 0 => Cause

RefusedInv ==
    /\ RefusedStay /\ FailuresHaveCause
    /\ \A r \in Relays : stage[r] = "markPublished" => batch[r] \cap Refused = {}
    /\ \A r \in Relays : stage[r] = "markFailed" => Cause

LEMMA InitRefused == Init => RefusedInv
  BY RelayAssumption DEF Init, RefusedInv, RefusedStay, FailuresHaveCause

\* Nothing takes the cause of a failure away.
LEMMA CauseStays ==
    ASSUME Inv, RefusedInv, [Next]_vars
    PROVE  /\ Cause => Cause'
           /\ \A f \in Refused : row[f] = "unpublished" => row'[f] = "unpublished"
<1> USE RelayAssumption DEF Inv, TypeOK, RefusedInv, Cause
<1>1. ASSUME NEW E \in SUBSET Events, NEW t \in 0..MaxTime, InsertEvents(E, t)
      PROVE  faults' = faults /\ \A f \in Refused : row[f] = "unpublished" => row'[f] = "unpublished"
  BY <1>1 DEF InsertEvents
<1>2. ASSUME NEW r \in Relays, Poll(r) \/ Rollback(r) \/ EmptyPoll(r)
      PROVE  /\ faults' \in Nat /\ faults' >= faults
             /\ \A f \in Refused : row[f] = "unpublished" => row'[f] = "unpublished"
  <2>1. CASE Claim(r) \/ MarkFailed(r) \/ EmptyPoll(r)
    BY <2>1 DEF Claim, MarkFailed, EmptyPoll, vars
  <2>2. CASE WriteMessages(r) \/ Rollback(r)
    BY <2>2 DEF WriteMessages, Rollback, Fault
  <2>3. CASE MarkPublished(r)
    BY <2>3 DEF MarkPublished
  <2> QED BY <1>2, <2>1, <2>2, <2>3 DEF Poll
<1>3. ASSUME UNCHANGED vars PROVE faults' = faults /\ row' = row
  BY <1>3 DEF vars
<1>4. /\ faults' \in Nat /\ faults' >= faults
      /\ \A f \in Refused : row[f] = "unpublished" => row'[f] = "unpublished"
  <2>1. CASE Next
    <3>1. CASE \E E \in SUBSET Events, t \in 0..MaxTime : InsertEvents(E, t)
      <4>1. PICK E \in SUBSET Events, t \in 0..MaxTime : InsertEvents(E, t)
        BY <3>1
      <4>2. faults' = faults /\ \A f \in Refused : row[f] = "unpublished" => row'[f] = "unpublished"
        BY <1>1, <4>1
      <4> QED BY <4>2
    <3>2. CASE \E r \in Relays : Poll(r) \/ Rollback(r) \/ EmptyPoll(r)
      BY <1>2, <3>2
    <3> QED BY <2>1, <3>1, <3>2 DEF Next
  <2> QED BY <1>3, <2>1
<1> QED BY <1>4

LEMMA StepRefused == Inv /\ RefusedInv /\ [Next]_vars => RefusedInv'
<1> SUFFICES ASSUME Inv, RefusedInv, [Next]_vars PROVE RefusedInv'
  OBVIOUS
<1>0. Cause => Cause'
  BY CauseStays
<1> USE RelayAssumption DEF Inv, TypeOK, RefusedInv, RefusedStay, FailuresHaveCause
<1>1. ASSUME NEW E \in SUBSET Events, NEW t \in 0..MaxTime, InsertEvents(E, t)
      PROVE  RefusedInv'
  BY <1>0, <1>1 DEF InsertEvents
<1>2. ASSUME NEW r \in Relays, Claim(r) PROVE RefusedInv'
  <2>1. PICK B \in Batches : /\ batch' = [batch EXCEPT ![r] = B]
                             /\ stage' = [stage EXCEPT ![r] = "write"]
    BY <1>2 DEF Claim
  <2> QED BY <1>0, <1>2, <2>1 DEF Claim
<1>3. ASSUME NEW r \in Relays, WriteMessages(r) PROVE RefusedInv'
  <2>1. UNCHANGED <<row, attempts, batch>> /\ stage[r] = "write"
    BY <1>3 DEF WriteMessages
  <2>2. CASE /\ batch[r] \cap Refused = {} /\ Send(batch[r])
             /\ stage' = [stage EXCEPT ![r] = "markPublished"]
    BY <1>0, <2>1, <2>2 DEF Send
  <2>3. CASE /\ batch[r] \cap Refused # {} /\ sent' = sent
             /\ stage' = [stage EXCEPT ![r] = "markFailed"]
    <3>1. Cause'
      BY <2>1, <2>3 DEF Cause, ClaimsDisjoint, Unpublished
    <3> QED BY <2>1, <2>3, <3>1
  <2>4. CASE /\ batch[r] \cap Refused = {} /\ \E E \in SUBSET batch[r] : Send(E)
             /\ stage' = [stage EXCEPT ![r] = "markFailed"] /\ Fault
    <3>1. Cause'
      BY <2>4 DEF Cause, Fault
    <3> QED BY <2>1, <2>4, <3>1 DEF Send
  <2> QED BY <1>3, <2>2, <2>3, <2>4 DEF WriteMessages
<1>4. ASSUME NEW r \in Relays, MarkPublished(r) PROVE RefusedInv'
  BY <1>0, <1>4 DEF MarkPublished, Release
<1>5. ASSUME NEW r \in Relays, MarkFailed(r) PROVE RefusedInv'
  BY <1>0, <1>5 DEF MarkFailed, Release
<1>6. ASSUME NEW r \in Relays, Rollback(r) PROVE RefusedInv'
  BY <1>0, <1>6 DEF Rollback, Release
<1>7. CASE UNCHANGED vars
  BY <1>0, <1>7 DEF vars
<1> QED BY <1>1, <1>2, <1>3, <1>4, <1>5, <1>6, <1>7 DEF Next, Poll, EmptyPoll

\* A message that is too large for the writer never leaves: no copy of it is
\* sent and its row is never marked, so every poll selects it again
\* (publisher.go:78-84, 112-114).
THEOREM RefusedAlwaysStay ==
    Spec => /\ []RefusedStay
            /\ [][\A f \in Refused : row[f] = "unpublished" => row'[f] = "unpublished"]_vars
<1>1. RefusedInv => RefusedStay
  BY DEF RefusedInv
<1>2. ASSUME Inv, RefusedInv, [Next]_vars
      PROVE  [\A f \in Refused : row[f] = "unpublished" => row'[f] = "unpublished"]_vars
  BY <1>2, CauseStays
<1> QED BY <1>1, <1>2, InitInv, StepInv, InitRefused, StepRefused, PTL DEF Spec

\* The attempts column blames nobody for nothing: a row fails only after a
\* failed write, commit or process, or while a refused message is in the table
\* that may share its batch (publisher.go:112-114, markFailed 126-142).
THEOREM FailuresAlwaysHaveCause == Spec => []FailuresHaveCause
<1>1. RefusedInv => FailuresHaveCause
  BY DEF RefusedInv
<1> QED BY <1>1, InitInv, StepInv, InitRefused, StepRefused, PTL DEF Spec

=============================================================================
