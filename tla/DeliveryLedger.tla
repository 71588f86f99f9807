--------------------------- MODULE DeliveryLedger ---------------------------
(***************************************************************************)
(* What the delivery queue of host/handoff.go promises, without the queue: *)
(* every delivery offered to a session meets exactly one fate, and the     *)
(* deliveries that are retained leave oldest first, each of them once.     *)
(*                                                                         *)
(*   new ---> refused                       never taken in                 *)
(*   new ---> held ---> injected | failed   settled by the native turn     *)
(*                 ---> retained ---> handed   waits for a turn, then goes *)
(***************************************************************************)
EXTENDS Naturals, FiniteSets, Sequences, SequencesExt

CONSTANT Deliveries

VARIABLES fate,   \* fate[d]: where delivery d is
          order,  \* order[d]: the rank d was taken in with
          handed  \* the deliveries handed over, in the order they left

vars == <<fate, order, handed>>

Fates == {"new", "refused", "held", "injected", "failed", "retained", "handed"}

Init ==
  /\ fate = [d \in Deliveries |-> "new"]
  /\ order = [d \in Deliveries |-> 0]
  /\ handed = <<>>

In(f) == {d \in Deliveries : fate[d] = f}

Refuse(d) ==
  /\ fate[d] = "new"
  /\ fate' = [fate EXCEPT ![d] = "refused"]
  /\ UNCHANGED <<order, handed>>

\* A delivery is taken in behind every delivery taken in before it.
TakeIn(d) ==
  /\ fate[d] = "new"
  /\ fate' = [fate EXCEPT ![d] = "held"]
  /\ order' = [order EXCEPT ![d] = Cardinality(Deliveries \ (In("new") \cup In("refused")))]
  /\ UNCHANGED handed

Settle(d) ==
  /\ fate[d] = "held"
  /\ \E f \in {"injected", "failed"} : fate' = [fate EXCEPT ![d] = f]
  /\ UNCHANGED <<order, handed>>

\* One unsettled delivery, or all of them at the end of a turn, is retained.
Retain(S) ==
  /\ S # {} /\ S \subseteq In("held")
  /\ fate' = [d \in Deliveries |-> IF d \in S THEN "retained" ELSE fate[d]]
  /\ UNCHANGED <<order, handed>>

\* The oldest retained deliveries leave together, sorted by rank.
HandOver(batch) ==
  /\ batch # <<>>
  /\ ToSet(batch) \subseteq In("retained")
  /\ \A i, j \in 1..Len(batch) : i < j => order[batch[i]] < order[batch[j]]
  /\ \A d \in In("retained") \ ToSet(batch) : order[Last(batch)] < order[d]
  /\ handed' = handed \o batch
  /\ fate' = [d \in Deliveries |-> IF d \in ToSet(batch) THEN "handed" ELSE fate[d]]
  /\ UNCHANGED order

Next ==
  \/ \E d \in Deliveries : Refuse(d) \/ TakeIn(d) \/ Settle(d)
  \/ \E S \in SUBSET Deliveries : Retain(S)
  \/ \E batch \in SeqOf(Deliveries, Cardinality(Deliveries)) : HandOver(batch)

Spec == Init /\ [][Next]_vars
=============================================================================
