-------------------------------- MODULE Domain --------------------------------
(***************************************************************************)
(* What the aggregates of internal/domain share.                           *)
(*                                                                         *)
(* An aggregate is a record whose field `events' holds the domain events   *)
(* recorded and not yet pulled.  A method that may fail is an operator     *)
(* returning a result                                                      *)
(*     [err |-> the error returned, agg |-> the aggregate afterwards].     *)
(* Times are natural numbers and a nil *time.Time is NoTime.               *)
(***************************************************************************)
EXTENDS Integers, Sequences

NoTime == -1

OptTime == Nat \cup {NoTime}

\* An IdentityRef, of which only emptiness matters: "" is the system itself.
IdentityRef == {"", "admin", "user"}

Ok(a) == [err |-> "", agg |-> a]

Fail(err, a) == [err |-> err, agg |-> a]

Record(a, e) == [a EXCEPT !.events = Append(@, e)]

ClearEvents(a) == [a EXCEPT !.events = << >>]

\* Snapshot: every field but the pending events.
Snapshot(a) == ClearEvents(a)

=============================================================================
