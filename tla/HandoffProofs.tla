--------------------------- MODULE HandoffProofs ---------------------------
(***************************************************************************)
(* Handoff, proved for any number of runs, deliveries and requests, any    *)
(* sizes and any limits: interruption of a native turn, admission order,   *)
(* receipts, the charge of the queue, and, in an environment without the   *)
(* two overlaps that the code does not survive (Closed), that a message is *)
(* handed over once and that DeliveryLedger is implemented.                *)
(*                                                                         *)
(* Each part has its own invariant.  Slots says in which list the slot of  *)
(* a delivery is, by what its caller knows of it, and that the lists are   *)
(* sorted by order; Charged relates the charge to the sum over them, Once  *)
(* the copy of a creating run to the front of the queue, and what was      *)
(* handed over to what is left.                                            *)
(*                                                                         *)
(* InterruptOnce is not inductive: it does not say why a second caller     *)
(* finds no turn.  TurnOwned adds that run.Native is set only while the    *)
(* turn is uninterrupted and the SDK still owes a call for it if the run   *)
(* is marked, and that a waiting turn which nobody interrupted is there.   *)
(***************************************************************************)
EXTENDS Handoff, CountingTheorems, TLAPS

RunTypes ==
  /\ pc \in [Runs -> RunPoints]
  /\ native \in [Runs -> BOOLEAN] /\ interrupted \in [Runs -> BOOLEAN]
  /\ asked \in [Runs -> 0..MaxAsks] /\ interrupts \in [Runs -> Nat]

TurnOwned ==
  \A r \in Runs :
    /\ interrupts[r] \in {0, 1}
    /\ native[r] => /\ pc[r] \in {"waiting", "finishing", "clearing"}
                    /\ interrupts[r] = 0
                    /\ interrupted[r] => asked[r] > 0
    /\ pc[r] \in {"idle", "creating"} => interrupts[r] = 0
    /\ pc[r] = "waiting" /\ interrupts[r] = 0 => native[r]

IInv == RunTypes /\ TurnOwned

(* Before any run starts there is no turn to interrupt. *)
LEMMA InitIInv == Init => IInv
BY HandoffAssumption DEF Init, IInv, RunTypes, TurnOwned, RunPoints

\* Steps that touch neither a turn nor its interruption.
LEMMA OtherStepKeepsIInv ==
  ASSUME IInv, UNCHANGED <<pc, native, interrupted, asked, interrupts>>
  PROVE  IInv'
BY DEF IInv, RunTypes, TurnOwned

(* Every step of a run, and of its interruption, keeps the invariant. *)
LEMMA RunStepKeepsIInv ==
  ASSUME IInv, NEW r \in Runs, RunStep(r)
  PROVE  IInv'
<1> USE HandoffAssumption DEF IInv, RunTypes, TurnOwned, RunPoints, Returned
<1>1. CASE RunRefused(r)
  BY <1>1 DEF RunRefused
<1>2. CASE RunBegin(r)
  BY <1>2 DEF RunBegin
<1>3. CASE RunStartFails(r)
  BY <1>3 DEF RunStartFails
<1>4. CASE RunCommit(r)
  <2>1. /\ pc[r] = "creating" /\ pc' = [pc EXCEPT ![r] = "waiting"]
        /\ UNCHANGED <<interrupted, asked>>
    BY <1>4 DEF RunCommit
  <2>2. CASE interrupted[r]
    <3>1. interrupts' = [interrupts EXCEPT ![r] = 1] /\ UNCHANGED native
      BY <1>4, <2>2 DEF RunCommit, SetNative
    <3> QED BY <2>1, <2>2, <3>1
  <2>3. CASE ~interrupted[r]
    <3>1. native' = [native EXCEPT ![r] = TRUE] /\ UNCHANGED interrupts
      BY <1>4, <2>3 DEF RunCommit, SetNative
    <3> QED BY <2>1, <2>3, <3>1
  <2> QED BY <2>2, <2>3
<1>5. CASE RunPanics(r)
  BY <1>5, OtherStepKeepsIInv DEF RunPanics, runs
<1>6. CASE TurnEnds(r)
  BY <1>6 DEF TurnEnds
<1>7. CASE RunFinish(r)
  BY <1>7 DEF RunFinish
<1>8. CASE RunReturn(r)
  BY <1>8 DEF RunReturn
<1>9. CASE AskInterrupt(r)
  BY <1>9 DEF AskInterrupt
<1>10. CASE Interrupt(r)
  <2>1. CASE native[r]
    BY <1>10, <2>1 DEF Interrupt
  <2>2. CASE ~native[r]
    BY <1>10, <2>2 DEF Interrupt
  <2> QED BY <2>1, <2>2
<1> QED
  BY <1>1, <1>2, <1>3, <1>4, <1>5, <1>6, <1>7, <1>8, <1>9, <1>10 DEF RunStep

(* Every step keeps the inductive invariant. *)
LEMMA NextKeepsIInv ==
  ASSUME IInv, [Next]_vars
  PROVE  IInv'
<1>1. CASE \E r \in Runs : RunStep(r)
  BY <1>1, RunStepKeepsIInv
<1>2. CASE \E d \in Deliveries : DeliverStep(d)
  BY <1>2, OtherStepKeepsIInv
     DEF DeliverStep, DeliverUnrendered, DeliverRejected, DeliverAdmit,
         DeliverSettled, DeliverCrossed, DeliverQueued, runs
<1>3. CASE Claim \/ Finish
  BY <1>3, OtherStepKeepsIInv DEF Claim, Finish, runs
<1>4. CASE UNCHANGED vars
  BY <1>4, OtherStepKeepsIInv DEF vars, runs
<1> QED
  BY <1>1, <1>2, <1>3, <1>4 DEF Next

(* The inductive invariant holds throughout. *)
LEMMA IInvInvariant == Spec => []IInv
<1>1. Init => IInv
  BY InitIInv
<1>2. IInv /\ [Next]_vars => IInv'
  BY NextKeepsIInv
<1> QED BY <1>1, <1>2, PTL DEF Spec

(* For every instance: Turn.Interrupt is called at most once per run, and  *)
(* a waiting run that is marked interrupted and is owed no Interrupt call  *)
(* has had its turn interrupted (Run lines 89-95, Interrupt lines 198-209).*)
THEOREM InterruptExactlyOnce == Spec => []InterruptOnce
<1>1. IInv => InterruptOnce
  BY DEF IInv, RunTypes, TurnOwned, InterruptOnce
<1> QED BY <1>1, IInvInvariant, PTL

-----------------------------------------------------------------------------
(* Slots: where a delivery is, and in which order *)

Admitted ==
  {d \in Deliveries : call[d] \in {"injecting", "queued_for_next_turn", "injected", "error"}}

Kept == {d \in Deliveries : call[d] \in {"injecting", "queued_for_next_turn"}}

\* Deliveries that left active to be kept: queued, in a prompt or handed over.
Left == ToSet(queue) \cup ToSet(handed) \cup UNION {ToSet(queued[r]) : r \in Runs}

SlotTypes ==
  /\ queue \in Seq(Deliveries) /\ active \in Seq(Deliveries) /\ handed \in Seq(Deliveries)
  /\ queued \in [Runs -> Seq(Deliveries)]
  /\ nextOrder \in Nat /\ panicked \in BOOLEAN
  /\ order \in [Deliveries -> Nat] /\ size \in [Deliveries -> Nat]
  /\ call \in [Deliveries -> CallPoints]

Ranked ==
  /\ \A d \in Admitted : order[d] < nextOrder
  /\ \A d, e \in Admitted : order[d] = order[e] => d = e

Sorted ==
  /\ Increasing(queue, order) /\ Increasing(active, order)
  /\ \A r \in Runs : Increasing(queued[r], order)

Placed ==
  /\ \A d \in ToSet(active) : call[d] = "injecting"
  /\ Left \subseteq Kept \ ToSet(active)

Slots == SlotTypes /\ Ranked /\ Sorted /\ Placed

(* What a slice contains are deliveries. *)
LEMMA SetOfSlice ==
  ASSUME NEW s \in Seq(Deliveries)
  PROVE  ToSet(s) \subseteq Deliveries /\ (s = <<>> <=> ToSet(s) = {})
<1>1. Len(s) \in Nat /\ DOMAIN s = 1..Len(s) /\ s \in [1..Len(s) -> Deliveries]
  BY LenProperties
<1>2. ToSet(s) \subseteq Deliveries
  BY <1>1 DEF ToSet
<1>3. CASE s = <<>>
  BY <1>2, <1>3 DEF ToSet
<1>4. CASE s # <<>>
  <2>1. 1 \in DOMAIN s
    BY <1>1, <1>4, EmptySeq
  <2> QED BY <1>2, <1>4, <2>1 DEF ToSet
<1> QED BY <1>3, <1>4

(* The empty slice. *)
LEMMA EmptySlice ==
  <<>> \in Seq(Deliveries) /\ ToSet(<<>>) = {} /\ \A key : Increasing(<<>>, key)
<1>1. <<>> \in Seq(Deliveries) /\ Len(<<>>) = 0
  BY EmptySeq
<1>2. ToSet(<<>>) = {}
  BY <1>1, SetOfSlice
<1>3. \A key : Increasing(<<>>, key)
  BY <1>1 DEF Increasing
<1> QED BY <1>1, <1>2, <1>3

(* mergeSlots of disjoint sorted slices whose slots have different orders  *)
(* is sorted and contains the slots of both: the sort of lines 176-180     *)
(* neither loses nor duplicates.                                           *)
LEMMA MergeSorted ==
  ASSUME order \in [Deliveries -> Nat],
         NEW a \in Seq(Deliveries), NEW b \in Seq(Deliveries),
         Increasing(a, order), Increasing(b, order), ToSet(a) \cap ToSet(b) = {},
         \A d, e \in ToSet(a) \cup ToSet(b) : order[d] = order[e] => d = e
  PROVE  LET m == mergeSlots(a, b)
         IN  /\ m \in Seq(Deliveries) /\ Increasing(m, order)
             /\ ToSet(m) = ToSet(a) \cup ToSet(b)
<1> DEFINE all == a \o b
           n == Len(all)
           Sorts(p) == /\ IsInjective(p)
                       /\ \A i, j \in 1..n : i < j => order[all[p[i]]] <= order[all[p[j]]]
           p == CHOOSE p \in [1..n -> 1..n] : Sorts(p)
           m == [i \in 1..n |-> all[p[i]]]
           k == [i \in 1..n |-> order[all[i]]]
<1>1. all \in Seq(Deliveries) /\ ToSet(all) = ToSet(a) \cup ToSet(b)
  BY ConcatItems
<1>2. Distinct(all)
  BY ConcatDistinct, IncreasingDistinct
<1>3. m = mergeSlots(a, b)
  BY DEF mergeSlots
<1> HIDE DEF all
<1>4. n \in Nat /\ DOMAIN all = 1..n /\ all \in [1..n -> Deliveries]
  BY <1>1, LenProperties
<1> HIDE DEF n
<1>5. \A i \in 1..n : all[i] \in ToSet(all)
  BY <1>4 DEF ToSet
<1>6. \A i, j \in 1..n : all[i] = all[j] => i = j
  BY <1>2 DEF Distinct, n
<1>7. \A i, j \in 1..n : order[all[i]] = order[all[j]] => i = j
  BY <1>1, <1>5, <1>6
<1>8. k \in [1..n -> Nat] /\ \A i \in 1..n : k[i] = order[all[i]]
  BY <1>4
<1> HIDE DEF k
<1>9. PICK q \in [1..n -> 1..n] : IsInjective(q) /\ \A i, j \in 1..n : i < j => k[q[i]] < k[q[j]]
  <2>1. \A i, j \in 1..n : k[i] = k[j] => i = j
    BY <1>7, <1>8
  <2> QED BY <1>4, <1>8, <2>1, SortingExists
<1>10. Sorts(q)
  <2>1. \A i, j \in 1..n : i < j => order[all[q[i]]] <= order[all[q[j]]]
    <3> SUFFICES ASSUME NEW i \in 1..n, NEW j \in 1..n, i < j
                 PROVE  order[all[q[i]]] <= order[all[q[j]]]
      OBVIOUS
    <3>1. q[i] \in 1..n /\ q[j] \in 1..n /\ k[q[i]] < k[q[j]]
      BY <1>9
    <3> QED BY <1>8, <3>1
  <2> QED BY <1>9, <2>1
<1>11. p \in [1..n -> 1..n] /\ Sorts(p)
  BY <1>10
<1> HIDE DEF p
<1>12. \A i, j \in 1..n : p[i] = p[j] => i = j
  BY <1>11 DEF IsInjective
<1>13. p \in Injection(1..n, 1..n)
  BY <1>11, <1>12 DEF Injection, IsInjective
<1>14. IsFiniteSet(1..n) /\ p \in Surjection(1..n, 1..n)
  BY <1>4, <1>13, IntervalCounts, FS_Injection
<1>15. m \in [1..n -> Deliveries] /\ \A i \in 1..n : m[i] = all[p[i]]
  BY <1>4, <1>11
<1> HIDE DEF m
<1>16. m \in Seq(Deliveries) /\ Len(m) = n /\ DOMAIN m = 1..n
  <2>1. m \in Seq(Deliveries)
    BY <1>4, <1>15, SeqDef
  <2>2. DOMAIN m = 1..Len(m) /\ Len(m) \in Nat /\ DOMAIN m = 1..n
    BY <1>15, <2>1, LenProperties
  <2>3. Len(m) = n
    <3> DEFINE k2 == Len(m)
    <3> HIDE DEF k2
    <3>1. k2 \in Nat /\ n \in Nat /\ 1..k2 = 1..n
      BY <1>4, <2>2 DEF k2
    <3>2. k2 = n
      BY <3>1, IntervalCounts
    <3> QED BY <3>2 DEF k2
  <2> QED BY <2>1, <2>2, <2>3
<1>17. Increasing(m, order)
  <2> SUFFICES ASSUME NEW i \in 1..n, NEW j \in 1..n, i < j
               PROVE  order[m[i]] < order[m[j]]
    BY <1>16 DEF Increasing
  <2>1. p[i] \in 1..n /\ p[j] \in 1..n /\ i # j
    BY <1>4, <1>11
  <2>2. order[all[p[i]]] <= order[all[p[j]]] /\ order[all[p[i]]] # order[all[p[j]]]
    BY <1>7, <1>11, <1>12, <2>1
  <2>3. order[all[p[i]]] \in Nat /\ order[all[p[j]]] \in Nat
    BY <1>4, <2>1
  <2> QED BY <1>15, <2>2, <2>3
<1>18. ToSet(m) = ToSet(all)
  <2>1. ToSet(m) \subseteq ToSet(all)
    BY <1>4, <1>11, <1>15, <1>16 DEF ToSet
  <2>2. \A i \in 1..n : \E j \in 1..n : p[j] = i
    BY <1>14 DEF Surjection
  <2>3. ASSUME NEW i \in 1..n PROVE all[i] \in ToSet(m)
    <3>1. PICK j \in 1..n : p[j] = i
      BY <2>2
    <3>2. m[j] = all[i]
      BY <1>15, <3>1
    <3> QED BY <1>16, <3>2 DEF ToSet
  <2>4. ToSet(all) \subseteq ToSet(m)
    <3> SUFFICES ASSUME NEW x \in ToSet(all) PROVE x \in ToSet(m)
      OBVIOUS
    <3>1. PICK i \in 1..n : x = all[i]
      BY <1>4 DEF ToSet
    <3> QED BY <2>3, <3>1
  <2> QED BY <2>1, <2>4
<1> QED BY <1>1, <1>3, <1>16, <1>17, <1>18

(* The queue starts empty. *)
LEMMA InitSlots == Init => Slots
<1> SUFFICES ASSUME Init PROVE Slots
  OBVIOUS
<1>1. SlotTypes
  BY EmptySlice DEF Init, SlotTypes, CallPoints
<1>2. Admitted = {}
  BY DEF Init, Admitted
<1>3. \A r \in Runs : queued[r] = <<>>
  BY DEF Init
<1>4. Left = {} /\ ToSet(active) = {}
  BY <1>3, EmptySlice DEF Init, Left
<1> QED BY <1>1, <1>2, <1>3, <1>4, EmptySlice DEF Init, Slots, Ranked, Sorted, Placed

(* Facts that the steps below share: active, the queue and the prompts     *)
(* hold admitted deliveries, and active shares none with the others.       *)
LEMMA SlotFacts ==
  ASSUME Slots
  PROVE  /\ ToSet(queue) \subseteq Kept /\ ToSet(active) \subseteq Kept /\ ToSet(handed) \subseteq Kept
         /\ \A r \in Runs : ToSet(queued[r]) \subseteq Left
         /\ Kept \subseteq Admitted /\ Admitted \subseteq Deliveries
         /\ ToSet(active) \subseteq Deliveries
         /\ ToSet(queue) \cap ToSet(active) = {}
<1>1. ToSet(active) \subseteq Deliveries
  BY SetOfSlice DEF Slots, SlotTypes
<1> QED BY <1>1 DEF Slots, Placed, Left, Kept, Admitted

(* A step of a run or a turn that leaves every slot where it is. *)
LEMMA QuietSlots ==
  ASSUME Slots,
         UNCHANGED <<queue, active, handed, queued, nextOrder, panicked, order, size, call>>
  PROVE  Slots'
BY DEF Slots, SlotTypes, Ranked, Sorted, Placed, Left, Kept, Admitted

(* Run copies the queue. *)
LEMMA BeginSlots ==
  ASSUME Slots, NEW r \in Runs, RunBegin(r)
  PROVE  Slots'
<1> USE DEF RunBegin, handoff, slots
<1>1. SlotTypes'
  BY DEF Slots, SlotTypes
<1>2. \A x \in Runs : queued'[x] = IF x = r THEN queue ELSE queued[x]
  BY DEF Slots, SlotTypes
<1>3. Sorted'
  BY <1>2 DEF Slots, Sorted
<1>4. Left' = Left \/ Left' \subseteq Left
  BY <1>2 DEF Left
<1>5. Ranked' /\ Placed'
  BY <1>4 DEF Slots, Ranked, Placed, Kept, Admitted
<1> QED BY <1>1, <1>3, <1>5 DEF Slots

(* The merge of the queue with what is in flight keeps every slot. *)
LEMMA QueueActiveMerges ==
  ASSUME Slots, QueueActive
  PROVE  /\ queue' \in Seq(Deliveries) /\ Increasing(queue', order)
         /\ ToSet(queue') = ToSet(queue) \cup ToSet(active)
         /\ active' = <<>>
<1>1. \A d, e \in ToSet(queue) \cup ToSet(active) : order[d] = order[e] => d = e
  BY SlotFacts DEF Slots, Ranked
<1> QED BY <1>1, SlotFacts, MergeSorted DEF QueueActive, Slots, SlotTypes, Sorted

(* A turn ends, or could not be created. *)
LEMMA QueueActiveSlots ==
  ASSUME Slots, QueueActive,
         queued' \in [Runs -> Seq(Deliveries)],
         \A r \in Runs : queued'[r] \in {queued[r], <<>>},
         UNCHANGED <<handed, nextOrder, panicked, order, size, call>>
  PROVE  Slots'
<1>1. SlotTypes'
  BY QueueActiveMerges, EmptySlice DEF Slots, SlotTypes
<1>2. Sorted'
  BY QueueActiveMerges, EmptySlice DEF Slots, Sorted
<1>3. ToSet(active') = {}
  BY QueueActiveMerges, EmptySlice
<1>4. Left' \subseteq Left \cup ToSet(active)
  BY QueueActiveMerges, EmptySlice DEF Left
<1>5. Left' \subseteq Kept
  BY <1>4, SlotFacts DEF Slots, Placed
<1>6. Placed' /\ Ranked'
  BY <1>3, <1>5 DEF Slots, Placed, Ranked, Kept, Admitted
<1> QED BY <1>1, <1>2, <1>6 DEF Slots

(* The queue after a commit is a suffix of what it was (line 87). *)
LEMMA CommitTakesPrefix ==
  ASSUME Slots, NEW r \in Runs, RunCommit(r)
  PROVE  /\ queued[r] \in Seq(Deliveries) /\ Len(queued[r]) \in 0..Len(queue)
         /\ queue' \in Seq(Deliveries) /\ Increasing(queue', order)
         /\ ToSet(queue') = {queue[i] : i \in (Len(queued[r]) + 1)..Len(queue)}
         /\ ToSet(queue') \subseteq ToSet(queue)
<1> USE DEF RunCommit
<1>1. Len(queued[r]) \in 0..Len(queue) /\ queued[r] \in Seq(Deliveries)
  <2>1. queued[r] \in Seq(Deliveries) /\ queue \in Seq(Deliveries)
    BY DEF Slots, SlotTypes
  <2>2. Len(queued[r]) \in Nat /\ Len(queue) \in Nat /\ Len(queued[r]) <= Len(queue)
    BY <2>1, LenProperties
  <2> QED BY <2>1, <2>2
<1>2. /\ queue' \in Seq(Deliveries) /\ Increasing(queue', order)
      /\ ToSet(queue') = {queue[i] : i \in (Len(queued[r]) + 1)..Len(queue)}
  <2> DEFINE l == Len(queued[r])
  <2>1. l \in 0..Len(queue) /\ queue' = SubSeq(queue, l + 1, Len(queue))
    BY <1>1 DEF Remaining
  <2>2. queue \in Seq(Deliveries) /\ order \in [Deliveries -> Nat] /\ Increasing(queue, order)
    BY DEF Slots, SlotTypes, Sorted
  <2> SUFFICES /\ queue' \in Seq(Deliveries) /\ Increasing(queue', order)
               /\ ToSet(queue') = {queue[i] : i \in (l + 1)..Len(queue)}
    OBVIOUS
  <2> HIDE DEF l, RunCommit
  <2> QED BY <2>1, <2>2, IncreasingSuffix
<1>3. ToSet(queue') \subseteq ToSet(queue)
  <2>1. DOMAIN queue = 1..Len(queue) /\ Len(queue) \in Nat /\ Len(queued[r]) \in Nat
    BY <1>1, LenProperties DEF Slots, SlotTypes
  <2> SUFFICES ASSUME NEW x \in ToSet(queue') PROVE x \in ToSet(queue)
    OBVIOUS
  <2>2. PICK i \in (Len(queued[r]) + 1)..Len(queue) : x = queue[i]
    BY <1>2
  <2>3. i \in DOMAIN queue
    BY <2>1
  <2> QED BY <2>2, <2>3 DEF ToSet
<1> QED BY <1>1, <1>2, <1>3

(* A turn was created: its prompt leaves the queue. *)
LEMMA CommitSlots ==
  ASSUME Slots, NEW r \in Runs, RunCommit(r)
  PROVE  Slots'
<1> USE DEF RunCommit, slots
<1>1. queued[r] \in Seq(Deliveries) /\ ToSet(queue') \subseteq ToSet(queue)
  BY CommitTakesPrefix
<1>2. queue' \in Seq(Deliveries) /\ Increasing(queue', order)
  BY CommitTakesPrefix
<1>4. handed' \in Seq(Deliveries) /\ ToSet(handed') = ToSet(handed) \cup ToSet(queued[r])
  BY <1>1, ConcatItems DEF Slots, SlotTypes
<1>5. \A x \in Runs : queued'[x] = IF x = r THEN <<>> ELSE queued[x]
  BY DEF Slots, SlotTypes
<1>6. SlotTypes'
  BY <1>2, <1>4, EmptySlice DEF Slots, SlotTypes
<1>7. Sorted'
  BY <1>2, <1>5, EmptySlice DEF Slots, Sorted
<1>8. Left' \subseteq Left
  BY <1>1, <1>4, <1>5, EmptySlice DEF Left
<1>9. Ranked' /\ Placed'
  BY <1>8 DEF Slots, Ranked, Placed, Kept, Admitted
<1> QED BY <1>6, <1>7, <1>9 DEF Slots

(* Run panics: the turn exists, the prompt was given to it. *)
LEMMA PanicSlots ==
  ASSUME Slots, NEW r \in Runs, RunPanics(r)
  PROVE  Slots'
<1> USE DEF RunPanics, handoff, slots, runs
<1>1. handed' \in Seq(Deliveries) /\ ToSet(handed') = ToSet(handed) \cup ToSet(queued[r])
  BY ConcatItems DEF Slots, SlotTypes
<1>2. SlotTypes' /\ Sorted'
  BY <1>1 DEF Slots, SlotTypes, Sorted
<1>3. Left' = Left
  BY <1>1 DEF Left
<1>4. Ranked' /\ Placed'
  BY <1>3 DEF Slots, Ranked, Placed, Kept, Admitted
<1> QED BY <1>2, <1>4 DEF Slots

(* Claim hands the whole queue over. *)
LEMMA ClaimSlots ==
  ASSUME Slots, Claim
  PROVE  Slots'
<1> USE DEF Claim, slots, runs
<1>1. handed' \in Seq(Deliveries) /\ ToSet(handed') = ToSet(handed) \cup ToSet(queue)
  BY ConcatItems DEF Slots, SlotTypes
<1>2. SlotTypes' /\ Sorted'
  BY <1>1, EmptySlice DEF Slots, SlotTypes, Sorted
<1>3. Left' = Left
  BY <1>1, EmptySlice DEF Left
<1>4. Ranked' /\ Placed'
  BY <1>3 DEF Slots, Ranked, Placed, Kept, Admitted
<1> QED BY <1>2, <1>4 DEF Slots

(* Receipts that move no slot. *)
LEMMA ReceiptSlots ==
  ASSUME Slots, NEW d \in Deliveries, NEW receipt \in CallPoints, Answer(d, receipt),
         \/ call[d] = "idle" /\ receipt \in {"unrendered", "rejected"}
         \/ call[d] = "injecting" /\ d \notin ToSet(active) /\ receipt = "queued_for_next_turn",
         UNCHANGED <<queue, active, handed, queued, nextOrder, panicked, order, size>>
  PROVE  Slots'
<1> USE DEF Answer
<1>1. SlotTypes' /\ Sorted'
  BY DEF Slots, SlotTypes, Sorted
<1>2. Kept' = Kept /\ Admitted' = Admitted /\ Left' = Left
  BY DEF Slots, SlotTypes, Kept, Admitted, Left
<1>3. \A e \in ToSet(active) : e # d
  BY DEF Slots, Placed
<1>4. Ranked' /\ Placed'
  BY <1>2, <1>3, SlotFacts DEF Slots, SlotTypes, Ranked, Placed
<1> QED BY <1>1, <1>4 DEF Slots

(* A delivery is admitted behind all others. *)
LEMMA AdmitSlots ==
  ASSUME Slots, NEW d \in Deliveries, NEW n \in BodySizes, DeliverAdmit(d, n)
  PROVE  Slots' /\ ToSet(active') = ToSet(active) \cup {d} /\ d \notin ToSet(active) \cup ToSet(queue)
<1> USE DEF DeliverAdmit, runs
<1>1. d \notin Admitted /\ d \notin Kept
  BY DEF Kept, Admitted
<1>2. d \notin ToSet(active) /\ d \notin Left /\ d \notin ToSet(queue)
  BY <1>1, SlotFacts DEF Slots, Placed
<1>3. Admitted' = Admitted \cup {d} /\ Kept' = Kept \cup {d}
  BY DEF Slots, SlotTypes, Kept, Admitted
<1>4. order' \in [Deliveries -> Nat] /\ order'[d] = nextOrder /\ \A e \in Deliveries \ {d} : order'[e] = order[e]
  BY DEF Slots, SlotTypes
<1>5. Ranked'
  <2>1. nextOrder' = nextOrder + 1 /\ nextOrder \in Nat /\ Admitted \subseteq Deliveries
    BY DEF Slots, SlotTypes, Admitted
  <2>2. \A e \in Admitted : order'[e] = order[e] /\ order[e] \in Nat /\ order[e] < nextOrder
    BY <1>1, <1>4, <2>1 DEF Slots, SlotTypes, Ranked
  <2>3. \A e, g \in Admitted : order[e] = order[g] => e = g
    BY DEF Slots, Ranked
  <2> HIDE DEF DeliverAdmit, runs
  <2> QED BY <1>3, <1>4, <2>1, <2>2, <2>3 DEF Ranked
<1>6. Increasing(active, order') /\ Increasing(queue', order') /\ \A r \in Runs : Increasing(queued'[r], order')
  <2>1. \A x \in Kept : order'[x] = order[x]
    BY <1>1, <1>4, SlotFacts
  <2>2. \A x \in ToSet(active) : order'[x] = order[x]
    BY <2>1, SlotFacts
  <2>3. \A x \in ToSet(queue) : order'[x] = order[x]
    BY <2>1, SlotFacts
  <2>4. Increasing(active, order') /\ Increasing(queue, order')
    BY <2>2, <2>3, IncreasingSame DEF Slots, SlotTypes, Sorted
  <2>5. ASSUME NEW r \in Runs PROVE Increasing(queued[r], order')
    <3>1. \A x \in ToSet(queued[r]) : order'[x] = order[x]
      BY <2>1, SlotFacts DEF Slots, Placed
    <3> QED BY <3>1, IncreasingSame DEF Slots, SlotTypes, Sorted
  <2> QED BY <2>4, <2>5
<1>7. \A x \in ToSet(active) : order'[x] < order'[d]
  <2>1. \A x \in ToSet(active) : x \in Admitted /\ x # d /\ x \in Deliveries
    BY <1>2, SlotFacts
  <2> QED BY <1>4, <2>1 DEF Slots, Ranked
<1>8. /\ active' \in Seq(Deliveries) /\ Increasing(active', order')
      /\ ToSet(active') = ToSet(active) \cup {d}
  <2>1. active \in Seq(Deliveries) /\ active' = Append(active, d)
    BY DEF Slots, SlotTypes
  <2> HIDE DEF DeliverAdmit, runs
  <2>2. /\ Append(active, d) \in Seq(Deliveries) /\ Increasing(Append(active, d), order')
        /\ ToSet(Append(active, d)) = ToSet(active) \cup {d}
    <3>1. order' \in [Deliveries -> Nat] /\ Increasing(active, order')
      BY <1>4, <1>6
    <3> QED BY <1>7, <2>1, <3>1, IncreasingAppend
  <2> QED BY <2>1, <2>2
<1>9. SlotTypes'
  <2>1. size' \in [Deliveries -> Nat]
    BY HandoffAssumption DEF Slots, SlotTypes
  <2>2. call' \in [Deliveries -> CallPoints]
    BY DEF Slots, SlotTypes, CallPoints
  <2> QED BY <1>4, <1>8, <2>1, <2>2 DEF Slots, SlotTypes
<1>10. Sorted'
  BY <1>6, <1>8 DEF Sorted
<1>11. Placed'
  <2>1. Left' = Left
    BY DEF Left
  <2>2. \A x \in ToSet(active') : call'[x] = "injecting"
    BY <1>8, SlotFacts DEF Slots, SlotTypes, Placed
  <2> QED BY <1>2, <1>3, <1>8, <2>1, <2>2 DEF Slots, Placed
<1> QED BY <1>2, <1>5, <1>8, <1>9, <1>10, <1>11 DEF Slots

(* A delivery leaves active. *)
LEMMA WithoutSlot ==
  ASSUME Slots, NEW d \in ToSet(active), active' = Without(active, d)
  PROVE  /\ active' \in Seq(Deliveries) /\ Increasing(active', order)
         /\ ToSet(active') = ToSet(active) \ {d}
<1>1. active \in Seq(Deliveries) /\ order \in [Deliveries -> Nat] /\ Increasing(active, order)
  BY DEF Slots, SlotTypes, Sorted
<1> DEFINE u == RemoveAt(active, SelectInSeq(active, LAMBDA e : e = d))
<1>2. u \in Seq(Deliveries) /\ Increasing(u, order) /\ ToSet(u) = ToSet(active) \ {d}
  BY <1>1, IncreasingRemove
<1>3. active' = u
  BY DEF Without
<1> QED BY <1>2, <1>3

(* It is settled by the native turn, or by an error. *)
LEMMA SettledSlots ==
  ASSUME Slots, NEW d \in Deliveries, NEW receipt \in {"injected", "error"}, DeliverSettled(d, receipt)
  PROVE  Slots'
<1> USE DEF DeliverSettled, Answer, slots, runs
<1>1. /\ active' \in Seq(Deliveries) /\ Increasing(active', order)
      /\ ToSet(active') = ToSet(active) \ {d}
  BY WithoutSlot
<1>2. SlotTypes' /\ Sorted'
  BY <1>1 DEF Slots, SlotTypes, Sorted, CallPoints, Receipts
<1>3. Admitted' = Admitted /\ Kept' = Kept \ {d} /\ Left' = Left
  BY DEF Slots, SlotTypes, Kept, Admitted, Left
<1>4. Ranked'
  BY <1>3 DEF Slots, Ranked
<1>5. d \notin Left
  BY DEF Slots, Placed
<1>6. Placed'
  BY <1>1, <1>3, <1>5, SlotFacts DEF Slots, SlotTypes, Placed
<1> QED BY <1>2, <1>4, <1>6 DEF Slots

(* Or it is queued at the place its order gives it. *)
LEMMA QueuedSlots ==
  ASSUME Slots, NEW d \in Deliveries, DeliverQueued(d)
  PROVE  Slots' /\ ToSet(queue') = ToSet(queue) \cup {d} /\ ToSet(active') = ToSet(active) \ {d}
<1> USE DEF DeliverQueued, Answer, slots, runs
<1>1. /\ active' \in Seq(Deliveries) /\ Increasing(active', order)
      /\ ToSet(active') = ToSet(active) \ {d}
  BY WithoutSlot
<1>2. <<d>> \in Seq(Deliveries) /\ ToSet(<<d>>) = {d} /\ Increasing(<<d>>, order)
  BY DEF ToSet, Increasing
<1>3. d \in Admitted /\ d \notin ToSet(queue) /\ d \notin Left
  BY SlotFacts DEF Slots, Placed
<1>4. \A x, y \in ToSet(queue) \cup {d} : order[x] = order[y] => x = y
  BY <1>3, SlotFacts DEF Slots, Ranked
<1>5. /\ queue' \in Seq(Deliveries) /\ Increasing(queue', order)
      /\ ToSet(queue') = ToSet(queue) \cup {d}
  <2> DEFINE one == <<d>>
  <2>1. /\ queue \in Seq(Deliveries) /\ order \in [Deliveries -> Nat] /\ Increasing(queue, order)
        /\ queue' = mergeSlots(queue, one)
    BY DEF Slots, SlotTypes, Sorted
  <2>2. one \in Seq(Deliveries) /\ ToSet(one) = {d} /\ Increasing(one, order)
    BY <1>2
  <2> HIDE DEF one, DeliverQueued
  <2>3. ToSet(queue) \cap ToSet(one) = {}
    BY <1>3, <2>2
  <2>4. \A x, y \in ToSet(queue) \cup ToSet(one) : order[x] = order[y] => x = y
    BY <1>4, <2>2
  <2>5. /\ queue' \in Seq(Deliveries) /\ Increasing(queue', order)
        /\ ToSet(queue') = ToSet(queue) \cup ToSet(one)
    BY <2>1, <2>2, <2>3, <2>4, MergeSorted
  <2> QED BY <2>2, <2>5
<1>6. SlotTypes' /\ Sorted'
  BY <1>1, <1>5 DEF Slots, SlotTypes, Sorted, CallPoints, Receipts
<1>7. Admitted' = Admitted /\ Kept' = Kept /\ Left' = Left \cup {d}
  BY <1>5 DEF Slots, SlotTypes, Kept, Admitted, Left
<1>8. Ranked'
  BY <1>7 DEF Slots, Ranked
<1>9. Placed'
  BY <1>1, <1>3, <1>7, SlotFacts DEF Slots, SlotTypes, Placed
<1> QED BY <1>1, <1>5, <1>6, <1>8, <1>9 DEF Slots

(* Every step of a run keeps the slots. *)
LEMMA RunStepKeepsSlots ==
  ASSUME Slots, NEW r \in Runs, RunStep(r)
  PROVE  Slots'
<1>1. queued \in [Runs -> Seq(Deliveries)]
  BY DEF Slots, SlotTypes
<1>2. CASE RunRefused(r) \/ TurnEnds(r) \/ RunReturn(r) \/ AskInterrupt(r) \/ Interrupt(r)
  BY <1>2, QuietSlots
     DEF RunRefused, TurnEnds, RunReturn, AskInterrupt, Interrupt, handoff, slots
<1>3. CASE RunBegin(r)
  BY <1>3, BeginSlots
<1>4. CASE RunStartFails(r)
  <2>1. queued' \in [Runs -> Seq(Deliveries)] /\ \A x \in Runs : queued'[x] \in {queued[x], <<>>}
    BY <1>1, <1>4, EmptySlice DEF RunStartFails
  <2> QED BY <1>4, <2>1, QueueActiveSlots DEF RunStartFails, slots
<1>5. CASE RunCommit(r)
  BY <1>5, CommitSlots
<1>6. CASE RunPanics(r)
  BY <1>6, PanicSlots
<1>7. CASE RunFinish(r)
  BY <1>1, <1>7, QueueActiveSlots DEF RunFinish, slots
<1> QED
  BY <1>2, <1>3, <1>4, <1>5, <1>6, <1>7 DEF RunStep

(* Every step of a delivery keeps the slots. *)
LEMMA DeliverStepKeepsSlots ==
  ASSUME Slots, NEW d \in Deliveries, DeliverStep(d)
  PROVE  Slots'
<1> USE DEF CallPoints, Receipts
<1>1. CASE DeliverUnrendered(d)
  BY <1>1, ReceiptSlots DEF DeliverUnrendered, handoff, slots, runs
<1>2. CASE \E n \in BodySizes : DeliverRejected(d, n)
  BY <1>2, ReceiptSlots DEF DeliverRejected, handoff, slots, runs
<1>3. CASE \E n \in BodySizes : DeliverAdmit(d, n)
  BY <1>3, AdmitSlots
<1>4. CASE \E receipt \in {"injected", "error"} : DeliverSettled(d, receipt)
  BY <1>4, SettledSlots
<1>5. CASE DeliverCrossed(d)
  BY <1>5, ReceiptSlots DEF DeliverCrossed, handoff, slots, runs
<1>6. CASE DeliverQueued(d)
  BY <1>6, QueuedSlots
<1> QED
  BY <1>1, <1>2, <1>3, <1>4, <1>5, <1>6 DEF DeliverStep

(* Every step keeps the slots. *)
LEMMA NextKeepsSlots ==
  ASSUME Slots, [Next]_vars
  PROVE  Slots'
<1>1. CASE \E r \in Runs : RunStep(r)
  BY <1>1, RunStepKeepsSlots
<1>2. CASE \E d \in Deliveries : DeliverStep(d)
  BY <1>2, DeliverStepKeepsSlots
<1>3. CASE Claim
  BY <1>3, ClaimSlots
<1>4. CASE Finish
  <2>1. queued \in [Runs -> Seq(Deliveries)]
    BY DEF Slots, SlotTypes
  <2> QED BY <1>4, <2>1, QueueActiveSlots DEF Finish, slots, runs
<1>5. CASE UNCHANGED vars
  BY <1>5, QuietSlots DEF vars, handoff, slots, runs
<1> QED
  BY <1>1, <1>2, <1>3, <1>4, <1>5 DEF Next

(* The slots invariant holds throughout. *)
LEMMA SlotsInvariant == Spec => []Slots
<1>1. Init => Slots
  BY InitSlots
<1>2. Slots /\ [Next]_vars => Slots'
  BY NextKeepsSlots
<1> QED BY <1>1, <1>2, PTL DEF Spec

(* For every instance: the queue, what is in flight and every prompt are   *)
(* in admission order and no slot is both queued and in flight, whatever   *)
(* overlaps (mergeSlots, lines 174-182).                                   *)
THEOREM AdmissionOrderKept == Spec => []FifoOrder
<1>1. Slots => FifoOrder
  <2> SUFFICES ASSUME Slots PROVE FifoOrder
    OBVIOUS
  <2> DEFINE Older(d, e) == order[d] < order[e]
  <2>1. ASSUME NEW s \in Seq(Deliveries), Increasing(s, order)
        PROVE  IsSorted(s, Older)
    <3>1. \A d, e \in ToSet(s) : order[d] \in Nat /\ order[e] \in Nat
      BY SetOfSlice DEF Slots, SlotTypes
    <3> QED BY <2>1, <3>1, LenProperties DEF IsSorted, Increasing, ToSet
  <2> QED BY <2>1, SlotFacts DEF Slots, SlotTypes, Sorted, FifoOrder
<1> QED BY <1>1, SlotsInvariant, PTL

(* For every instance: a message whose caller was told that it was         *)
(* injected, refused or lost to an error is in no queue, prompt or claim   *)
(* afterwards (Deliver, lines 101-172).                                    *)
THEOREM ReceiptsAreHonest == Spec => []ReceiptHonest
<1>1. Slots => ReceiptHonest
  <2> SUFFICES ASSUME Slots, NEW d \in Deliveries,
                      call[d] \in Receipts \ {"queued_for_next_turn"}
               PROVE  /\ d \notin ToSet(queue) \cup ToSet(active) \cup ToSet(handed)
                      /\ \A r \in Runs : d \notin ToSet(queued[r])
    BY DEF ReceiptHonest
  <2>1. d \notin Kept
    BY DEF Kept, Receipts
  <2>2. Left \subseteq Kept
    BY DEF Slots, Placed
  <2> QED BY <2>1, <2>2, SlotFacts
<1> QED BY <1>1, SlotsInvariant, PTL

-----------------------------------------------------------------------------
(* The budget *)

\* The length of the bodies of S joined with newlines.
Charge(sz, S) == SumFunctionOnSet(sz, S) + (IF S = {} THEN 0 ELSE Cardinality(S) - 1)

Pending == ToSet(active) \cup ToSet(queue)

Charged ==
  /\ queueSize = Charge(size, Pending) /\ queueSize <= MaxQueuedBytes
  /\ Cardinality(Pending) <= MaxQueuedDeliveries

(* recount (lines 184-196) does not depend on the order of the slots nor   *)
(* on which of the two slices they are in.                                 *)
LEMMA RecountCharge ==
  ASSUME NEW sz \in [Deliveries -> Nat], size = sz,
         NEW a \in Seq(Deliveries), NEW q \in Seq(Deliveries),
         Distinct(a), Distinct(q), ToSet(a) \cap ToSet(q) = {}
  PROVE  /\ recount(a, q) = Charge(sz, ToSet(a) \cup ToSet(q))
         /\ Len(a) + Len(q) = Cardinality(ToSet(a) \cup ToSet(q))
         /\ IsFiniteSet(ToSet(a) \cup ToSet(q))
<1> DEFINE all == a \o q
           S == ToSet(a) \cup ToSet(q)
           f == [i \in DOMAIN all |-> sz[all[i]]]
<1>1. all \in Seq(Deliveries) /\ ToSet(all) = S /\ Len(all) = Len(a) + Len(q)
  BY ConcatItems
<1>2. Distinct(all)
  BY ConcatDistinct
<1>3. recount(a, q) = IF Len(all) > 0 THEN SumFunction(f) + Len(all) - 1 ELSE SumFunction(f)
  BY DEF recount
<1> HIDE DEF all
<1>4. all \in Bijection(1..Len(all), S) /\ IsFiniteSet(S) /\ Cardinality(S) = Len(all)
  BY <1>1, <1>2, DistinctBijection
<1>5. Len(all) \in Nat /\ DOMAIN all = 1..Len(all) /\ S \subseteq Deliveries
  BY <1>1, LenProperties, SetOfSlice
<1>6. IsFiniteSet(1..Len(all)) /\ \A x \in S : sz[x] \in Nat
  BY <1>5, IntervalCounts
<1> HIDE DEF S
<1>7. SumFunctionOnSet([i \in 1..Len(all) |-> sz[all[i]]], 1..Len(all)) = SumFunctionOnSet(sz, S)
  <2> DEFINE I == 1..Len(all)
  <2>1. IsFiniteSet(I) /\ all \in Bijection(I, S) /\ \A x \in S : sz[x] \in Nat
    BY <1>4, <1>6
  <2> SUFFICES SumFunctionOnSet([i \in I |-> sz[all[i]]], I) = SumFunctionOnSet(sz, S)
    OBVIOUS
  <2> HIDE DEF I
  <2> QED BY <2>1, SumReindex
<1>8. SumFunction(f) = SumFunctionOnSet(sz, S)
  BY <1>5, <1>7 DEF SumFunction
<1>9. SumFunctionOnSet(sz, S) \in Nat
  BY <1>4, <1>6, SumType
<1>10. S = {} <=> Cardinality(S) = 0
  BY <1>4, FS_EmptySet, Zenon
<1>11. recount(a, q) = Charge(sz, S)
  <2> DEFINE n == Len(all)
             total == SumFunctionOnSet(sz, S)
  <2>1. recount(a, q) = IF n > 0 THEN total + n - 1 ELSE total
    BY <1>3, <1>8
  <2>2. Charge(sz, S) = total + (IF S = {} THEN 0 ELSE Cardinality(S) - 1)
    BY DEF Charge
  <2>3. n \in Nat /\ total \in Nat /\ n = Cardinality(S)
    BY <1>4, <1>5, <1>9
  <2> HIDE DEF n, total
  <2> QED BY <1>10, <2>1, <2>2, <2>3
<1> QED BY <1>1, <1>4, <1>11 DEF S

(* What the slices hold and how many. *)
LEMMA PendingFacts ==
  ASSUME Slots
  PROVE  /\ recount(active, queue) = Charge(size, Pending)
         /\ Len(queue) + Len(active) = Cardinality(Pending) /\ Cardinality(Pending) \in Nat
         /\ IsFiniteSet(Pending) /\ Pending \subseteq Deliveries
         /\ SumFunctionOnSet(size, Pending) \in Nat /\ Charge(size, Pending) \in Nat
<1>1. /\ active \in Seq(Deliveries) /\ queue \in Seq(Deliveries)
      /\ order \in [Deliveries -> Nat] /\ size \in [Deliveries -> Nat]
      /\ Increasing(active, order) /\ Increasing(queue, order)
  BY DEF Slots, SlotTypes, Sorted
<1>2. Distinct(active) /\ Distinct(queue) /\ ToSet(active) \cap ToSet(queue) = {}
  BY <1>1, IncreasingDistinct, SlotFacts
<1>3. /\ recount(active, queue) = Charge(size, Pending)
      /\ Len(active) + Len(queue) = Cardinality(Pending) /\ IsFiniteSet(Pending)
  BY <1>1, <1>2, RecountCharge DEF Pending
<1>4. Len(active) \in Nat /\ Len(queue) \in Nat /\ Pending \subseteq Deliveries
  BY <1>1, SetOfSlice, LenProperties DEF Pending
<1>5. SumFunctionOnSet(size, Pending) \in Nat
  BY <1>1, <1>3, <1>4, SumType
<1>6. Cardinality(Pending) \in Nat /\ (Pending # {} => Cardinality(Pending) # 0)
  BY <1>3, FS_CardinalityType, FS_EmptySet
<1>7. Charge(size, Pending) \in Nat
  BY <1>5, <1>6 DEF Charge
<1> QED BY <1>3, <1>4, <1>5, <1>6, <1>7

(* What is pending does not grow and is counted anew. *)
LEMMA RecountKeepsCharged ==
  ASSUME Slots, Slots', Charged, Pending' \subseteq Pending, size' = size,
         queueSize' = recount(active', queue')
  PROVE  Charged'
<1>1. recount(active', queue') = Charge(size, Pending')
  <2>1. /\ active' \in Seq(Deliveries) /\ queue' \in Seq(Deliveries)
        /\ order' \in [Deliveries -> Nat] /\ size \in [Deliveries -> Nat]
        /\ Increasing(active', order') /\ Increasing(queue', order')
    BY DEF Slots, SlotTypes, Sorted
  <2>2. ToSet(active') \cap ToSet(queue') = {}
    BY DEF Slots, Placed, Left
  <2>3. Distinct(active') /\ Distinct(queue')
    BY <2>1, IncreasingDistinct
  <2> QED BY <2>1, <2>2, <2>3, RecountCharge DEF Pending
<1>2. /\ IsFiniteSet(Pending) /\ Pending \subseteq Deliveries
      /\ SumFunctionOnSet(size, Pending) \in Nat /\ Cardinality(Pending) \in Nat
      /\ queueSize = Charge(size, Pending) /\ queueSize <= MaxQueuedBytes
      /\ Cardinality(Pending) <= MaxQueuedDeliveries
  BY PendingFacts DEF Charged
<1> DEFINE P == Pending
           Q == Pending'
<1>3. /\ IsFiniteSet(Q) /\ Cardinality(Q) \in Nat /\ Cardinality(Q) <= Cardinality(P)
      /\ (Q # {} => Cardinality(Q) # 0) /\ Q \subseteq P
  BY <1>2, FS_Subset, FS_CardinalityType, FS_EmptySet
<1>4. \A x \in P : size[x] \in Nat
  BY <1>2 DEF Slots, SlotTypes
<1> HIDE DEF P, Q
<1>5. SumFunctionOnSet(size, Q) \in Nat /\ SumFunctionOnSet(size, Q) <= SumFunctionOnSet(size, P)
  <2>1. IsFiniteSet(P) /\ Q \in SUBSET P /\ \A x \in Q : size[x] \in Nat
    BY <1>2, <1>3, <1>4 DEF P
  <2> QED BY <1>3, <1>4, <2>1, SumSubset, SumType
<1>6. Charge(size, Q) <= Charge(size, P) /\ Charge(size, Q) \in Nat /\ Charge(size, P) \in Nat
  <2>1. SumFunctionOnSet(size, P) \in Nat /\ Cardinality(P) \in Nat
    BY <1>2 DEF P
  <2>2. CASE Q = {}
    <3>1. P = {} \/ Cardinality(P) # 0
      BY <1>2, FS_EmptySet DEF P
    <3> QED BY <1>5, <2>1, <2>2, <3>1 DEF Charge
  <2>3. CASE Q # {}
    <3>1. P # {}
      BY <1>3, <2>3
    <3> QED BY <1>3, <1>5, <2>1, <2>3, <3>1 DEF Charge
  <2> QED BY <2>2, <2>3
<1>7. queueSize' = Charge(size', Pending') /\ queueSize' <= MaxQueuedBytes
  BY <1>1, <1>2, <1>6, HandoffAssumption DEF P, Q
<1>8. Cardinality(Pending') <= MaxQueuedDeliveries
  BY <1>2, <1>3, HandoffAssumption DEF P, Q
<1> QED BY <1>7, <1>8 DEF Charged

(* Steps after which the same deliveries are pending, with the same charge. *)
LEMMA SamePendingKeepsCharged ==
  ASSUME Charged, Pending' = Pending, size' = size, queueSize' = queueSize
  PROVE  Charged'
BY DEF Charged

(* Admission charges the body and, unless it is alone, a newline: what     *)
(* recount would compute, within both limits (lines 114-126).              *)
LEMMA AdmitKeepsCharged ==
  ASSUME Slots, Charged, NEW d \in Deliveries, NEW n \in BodySizes, DeliverAdmit(d, n)
  PROVE  Charged'
<1> DEFINE P == Pending
           Q == Pending'
<1>1. Q = P \cup {d} /\ d \notin P
  BY AdmitSlots DEF Pending, DeliverAdmit
<1>2. /\ IsFiniteSet(P) /\ P \subseteq Deliveries /\ Cardinality(P) \in Nat
      /\ SumFunctionOnSet(size, P) \in Nat
      /\ Len(queue) + Len(active) = Cardinality(P)
      /\ queueSize = Charge(size, P) /\ Cardinality(P) <= MaxQueuedDeliveries
  BY PendingFacts DEF Charged
<1>3. n \in Nat /\ MaxQueuedDeliveries \in Nat /\ MaxQueuedBytes \in Nat
  BY HandoffAssumption
<1>4. /\ size' = [size EXCEPT ![d] = n] /\ queueSize' = queueSize + Added(n)
      /\ Cardinality(P) # MaxQueuedDeliveries /\ ~(queueSize + Added(n) > MaxQueuedBytes)
  BY <1>2 DEF DeliverAdmit, QueueFull
<1>5. Added(n) = IF Cardinality(P) > 0 THEN n + 1 ELSE n
  BY <1>2 DEF Added
<1>6. /\ size \in [Deliveries -> Nat] /\ size'[d] = n
      /\ \A x \in P : size[x] \in Nat /\ size'[x] = size[x] /\ size'[x] \in Nat
  BY <1>1, <1>2, <1>3, <1>4 DEF Slots, SlotTypes
<1> HIDE DEF P, Q
<1>7. SumFunctionOnSet(size', P) = SumFunctionOnSet(size, P)
  BY <1>2, <1>6, SumSame
<1>8. SumFunctionOnSet(size', P \cup {d}) = SumFunctionOnSet(size', P) + size'[d]
  <2> DEFINE f == size'
  <2>1. (\A x \in P : f[x] \in Nat) /\ f[d] \in Nat
    BY <1>3, <1>6
  <2> HIDE DEF f
  <2>2. SumFunctionOnSet(f, P \cup {d}) = SumFunctionOnSet(f, P) + f[d]
    BY <1>1, <1>2, <2>1, SumAdd
  <2> QED BY <2>2 DEF f
<1>9. Cardinality(P \cup {d}) = Cardinality(P) + 1 /\ (P = {} <=> Cardinality(P) = 0)
  BY <1>1, <1>2, FS_AddElement, FS_EmptySet
<1>10. Charge(size', Q) = SumFunctionOnSet(size, P) + n + Cardinality(P)
  <2>1. Charge(size', Q) = SumFunctionOnSet(size', Q) + Cardinality(Q) - 1
    <3>1. Q # {} /\ Cardinality(Q) \in Nat
      BY <1>1, <1>2, <1>9
    <3>2. SumFunctionOnSet(size', Q) \in Nat
      BY <1>1, <1>2, <1>3, <1>6, <1>7, <1>8
    <3> QED BY <3>1, <3>2 DEF Charge
  <2> QED BY <1>1, <1>2, <1>3, <1>6, <1>7, <1>8, <1>9, <2>1
<1>11. queueSize' = SumFunctionOnSet(size, P) + n + Cardinality(P)
  <2>1. CASE P = {}
    BY <1>2, <1>3, <1>4, <1>5, <1>9, <2>1 DEF Charge
  <2>2. CASE P # {}
    <3> DEFINE c == Cardinality(P)
               u == SumFunctionOnSet(size, P)
    <3>1. c \in Nat /\ c > 0 /\ u \in Nat
      BY <1>2, <1>9, <2>2
    <3>2. queueSize = u + (c - 1)
      BY <1>2, <2>2 DEF Charge
    <3>3. queueSize' = queueSize + (n + 1)
      BY <1>4, <1>5, <3>1
    <3> HIDE DEF c, u
    <3>4. queueSize' = u + n + c
      BY <1>3, <3>1, <3>2, <3>3
    <3> QED BY <3>4 DEF c, u
  <2> QED BY <2>1, <2>2
<1>12. queueSize' <= MaxQueuedBytes
  <2>1. queueSize' \in Nat
    BY <1>2, <1>3, <1>11
  <2> QED BY <1>3, <1>4, <2>1
<1>13. Cardinality(Q) <= MaxQueuedDeliveries
  BY <1>1, <1>2, <1>3, <1>4, <1>9
<1> QED BY <1>10, <1>11, <1>12, <1>13 DEF Charged, Q

(* The queue starts empty, and uncharged. *)
LEMMA InitCharged == Init => Charged
<1> SUFFICES ASSUME Init PROVE Charged
  OBVIOUS
<1>1. Pending = {} /\ queueSize = 0
  BY EmptySlice DEF Init, Pending
<1>2. Charge(size, {}) = 0 /\ Cardinality({}) = 0
  BY SumEmpty, FS_EmptySet DEF Charge
<1> QED BY <1>1, <1>2, HandoffAssumption DEF Charged

(* Every step keeps the charge. *)
LEMMA NextKeepsCharged ==
  ASSUME Slots, Slots', Charged, [Next]_vars
  PROVE  Charged'
<1>1. ASSUME QueueActive, size' = size PROVE Charged'
  <2>1. Pending' = Pending
    BY <1>1, QueueActiveMerges, EmptySlice DEF Pending
  <2> QED BY <1>1, <2>1, RecountKeepsCharged DEF QueueActive
<1>2. ASSUME NEW r \in Runs, RunStep(r) PROVE Charged'
  <2>1. CASE RunRefused(r) \/ RunBegin(r) \/ TurnEnds(r) \/ RunReturn(r) \/ RunPanics(r)
             \/ AskInterrupt(r) \/ Interrupt(r)
    <3>1. UNCHANGED <<queue, active, size, queueSize>>
      BY <2>1 DEF RunRefused, RunBegin, TurnEnds, RunReturn, RunPanics, AskInterrupt,
                  Interrupt, handoff, slots
    <3> QED BY <3>1, SamePendingKeepsCharged DEF Pending
  <2>2. CASE RunStartFails(r) \/ RunFinish(r)
    BY <1>1, <2>2 DEF RunStartFails, RunFinish, slots
  <2>3. CASE RunCommit(r)
    <3>1. ToSet(queue') \subseteq ToSet(queue)
      BY <2>3, CommitTakesPrefix
    <3>2. Pending' \subseteq Pending
      BY <2>3, <3>1 DEF Pending, RunCommit
    <3>3. queueSize' = recount(active', queue') /\ size' = size
      BY <2>3 DEF RunCommit, slots
    <3> QED BY <3>2, <3>3, RecountKeepsCharged
  <2> QED BY <1>2, <2>1, <2>2, <2>3 DEF RunStep
<1>3. ASSUME NEW d \in Deliveries, DeliverStep(d) PROVE Charged'
  <2>1. CASE DeliverUnrendered(d) \/ DeliverCrossed(d) \/ \E n \in BodySizes : DeliverRejected(d, n)
    <3>1. UNCHANGED <<queue, active, size, queueSize>>
      BY <2>1 DEF DeliverUnrendered, DeliverCrossed, DeliverRejected, handoff, slots
    <3> QED BY <3>1, SamePendingKeepsCharged DEF Pending
  <2>2. CASE \E n \in BodySizes : DeliverAdmit(d, n)
    BY <2>2, AdmitKeepsCharged
  <2>3. CASE \E receipt \in {"injected", "error"} : DeliverSettled(d, receipt)
    <3>1. /\ d \in ToSet(active) /\ active' = Without(active, d) /\ UNCHANGED <<queue, size>>
          /\ queueSize' = recount(active', queue')
      BY <2>3 DEF DeliverSettled, slots
    <3>2. Pending' \subseteq Pending
      BY <3>1, WithoutSlot DEF Pending
    <3> QED BY <3>1, <3>2, RecountKeepsCharged
  <2>4. CASE DeliverQueued(d)
    <3>1. d \in ToSet(active) /\ UNCHANGED <<queueSize, size>>
      BY <2>4 DEF DeliverQueued, slots
    <3>2. Pending' = Pending
      BY <2>4, <3>1, QueuedSlots DEF Pending
    <3> QED BY <3>1, <3>2, SamePendingKeepsCharged
  <2> QED BY <1>3, <2>1, <2>2, <2>3, <2>4 DEF DeliverStep
<1>4. CASE Claim
  <2>1. Pending' \subseteq Pending
    BY <1>4, EmptySlice DEF Claim, Pending
  <2> QED BY <1>4, <2>1, RecountKeepsCharged DEF Claim, slots
<1>5. CASE Finish
  BY <1>1, <1>5 DEF Finish, slots
<1>6. CASE UNCHANGED vars
  BY <1>6, SamePendingKeepsCharged DEF vars, handoff, slots, Pending
<1> QED
  BY <1>2, <1>3, <1>4, <1>5, <1>6 DEF Next

(* For every instance, sizes of bodies and limits: the charge kept step by *)
(* step is the one recount computes, it never exceeds MaxQueuedBytes, and  *)
(* no more than MaxQueuedDeliveries are pending (lines 114-126, 184-196).  *)
THEOREM BudgetAccounted == Spec => []Accounting
<1>1. Init => Charged
  BY InitCharged
<1>2. Slots /\ Slots' /\ Charged /\ [Next]_vars => Charged'
  BY NextKeepsCharged
<1>3. IInv /\ Slots /\ Charged => Accounting
  <2> SUFFICES ASSUME IInv, Slots, Charged PROVE Accounting
    OBVIOUS
  <2>1. queueSize \in 0..MaxQueuedBytes
    BY PendingFacts, HandoffAssumption DEF Charged
  <2>2. TypeOK
    BY <2>1 DEF IInv, RunTypes, Slots, SlotTypes, TypeOK
  <2> QED BY <2>2, PendingFacts DEF Charged, Accounting
<1> QED BY <1>1, <1>2, <1>3, IInvInvariant, SlotsInvariant, PTL DEF Spec

-----------------------------------------------------------------------------
(* Exactly once, when no run takes its copy while an older delivery is in  *)
(* flight and nobody claims while a turn is created                        *)

Closed == ~StartWhileOvertaken /\ ~ClaimWhileCreating

Busy(r) == pc[r] \notin {"idle"} \cup Returned

\* The prompt of the turn being created: the oldest of what is pending.
Snapshot ==
  /\ \A r, x \in Runs : Busy(r) /\ Busy(x) => r = x
  /\ \A r \in Runs : pc[r] # "creating" => queued[r] = <<>>
  /\ \A r \in Runs :
       /\ ToSet(queued[r]) \subseteq ToSet(queue)
       /\ \A d \in ToSet(queued[r]), e \in Pending \ ToSet(queued[r]) : order[d] < order[e]

\* No kept delivery is lost or handed over twice.
Whole ==
  /\ ~panicked
  /\ Distinct(handed) /\ ToSet(queue) \cap ToSet(handed) = {}
  /\ Kept \subseteq Pending \cup ToSet(handed)

Numbered == nextOrder = Cardinality(Admitted)

Once == Snapshot /\ Whole /\ Numbered

(* Nothing is admitted at first. *)
LEMMA InitOnce == Init => Once
<1> SUFFICES ASSUME Init PROVE Once
  OBVIOUS
<1>1. Admitted = {} /\ Kept = {} /\ \A r \in Runs : pc[r] = "idle" /\ queued[r] = <<>>
  BY DEF Init, Admitted, Kept
<1>2. ToSet(handed) = {} /\ ToSet(queue) = {} /\ Distinct(handed)
  BY EmptySlice, EmptySeq DEF Init, Distinct
<1>3. Snapshot
  BY <1>1, EmptySlice DEF Snapshot, Busy
<1>4. Whole
  BY <1>1, <1>2 DEF Whole, Init
<1>5. Numbered
  BY <1>1, FS_EmptySet DEF Numbered, Init
<1> QED BY <1>3, <1>4, <1>5 DEF Once

(* Steps that move no slot; a run may end or go on. *)
LEMMA QuietOnce ==
  ASSUME Slots, Once,
         UNCHANGED <<queue, active, handed, queued, nextOrder, panicked, order>>,
         Kept' = Kept, Admitted' = Admitted,
         \A r \in Runs : /\ Busy(r)' => Busy(r)
                         /\ pc[r] = "creating" => pc'[r] = "creating"
  PROVE  Once'
<1>1. Pending' = Pending
  BY DEF Pending
<1>2. Snapshot'
  BY <1>1 DEF Once, Snapshot
<1>3. Whole' /\ Numbered'
  BY <1>1 DEF Once, Whole, Numbered
<1> QED BY <1>2, <1>3 DEF Once

(* Run copies the queue when nothing older is in flight. *)
LEMMA BeginOnce ==
  ASSUME Closed, Slots, Once, NEW r \in Runs, RunBegin(r), pc \in [Runs -> RunPoints]
  PROVE  Once'
<1> USE DEF RunBegin, handoff, slots
<1>1. Pending' = Pending /\ Kept' = Kept /\ Admitted' = Admitted
  BY DEF Pending, Kept, Admitted
<1>2. \A x \in Runs : /\ queued'[x] = IF x = r THEN queue ELSE queued[x]
                      /\ pc'[x] = IF x = r THEN "creating" ELSE pc[x]
                      /\ ~Busy(x)
  BY DEF Slots, SlotTypes, Busy, Idle
<1>3. \A x \in Runs : Busy(x)' => x = r
  BY <1>2 DEF Busy
<1>4. \A x \in Runs : pc'[x] # "creating" => queued'[x] = <<>>
  BY <1>2 DEF Once, Snapshot
<1>5. \A d \in ToSet(queue), e \in Pending \ ToSet(queue) : order[d] < order[e]
  <2> SUFFICES ASSUME NEW d \in ToSet(queue), NEW e \in ToSet(active), e \notin ToSet(queue)
               PROVE  order[d] < order[e]
    BY DEF Pending
  <2>1. ~(order[e] < order[d])
    BY DEF Closed, Overtaken
  <2>2. order[d] \in Nat /\ order[e] \in Nat /\ order[d] # order[e]
    BY SlotFacts DEF Slots, SlotTypes, Ranked
  <2> QED BY <2>1, <2>2
<1>6. Snapshot'
  BY <1>1, <1>2, <1>3, <1>4, <1>5 DEF Once, Snapshot
<1>7. Whole' /\ Numbered'
  BY <1>1 DEF Once, Whole, Numbered
<1> QED BY <1>6, <1>7 DEF Once

(* The end of a turn, or a failed creation, moves what is in flight to the *)
(* queue.                                                                  *)
LEMMA QueueActiveOnce ==
  ASSUME Slots, Once, QueueActive,
         \A r \in Runs : /\ Busy(r)' => Busy(r)
                         /\ queued'[r] \in {queued[r], <<>>}
                         /\ pc[r] = "creating" => pc'[r] = "creating" \/ queued'[r] = <<>>,
         UNCHANGED <<handed, nextOrder, panicked, order, call>>
  PROVE  Once'
<1>1. ToSet(queue') = ToSet(queue) \cup ToSet(active) /\ ToSet(active') = {}
  BY QueueActiveMerges, EmptySlice
<1>2. Pending' = Pending /\ Kept' = Kept /\ Admitted' = Admitted
  BY <1>1 DEF Pending, Kept, Admitted
<1>3. ToSet(active) \cap ToSet(handed) = {}
  BY DEF Slots, Placed, Left
<1>4. \A r \in Runs : pc'[r] # "creating" => queued'[r] = <<>>
  BY DEF Once, Snapshot
<1>5. \A r \in Runs : ToSet(queued'[r]) = ToSet(queued[r]) \/ ToSet(queued'[r]) = {}
  BY EmptySlice
<1>6. Snapshot'
  BY <1>1, <1>2, <1>4, <1>5 DEF Once, Snapshot
<1>7. Whole' /\ Numbered'
  BY <1>1, <1>2, <1>3 DEF Once, Whole, Numbered
<1> QED BY <1>6, <1>7 DEF Once

(* The copy a run took is a prefix of the queue when its turn is there:    *)
(* line 87 cuts off what the prompt contained, and no more.                *)
LEMMA CopyIsPrefix ==
  ASSUME Slots, Once, NEW r \in Runs
  PROVE  Len(queued[r]) <= Len(queue) /\ \A i \in 1..Len(queued[r]) : queue[i] = queued[r][i]
<1> DEFINE t == queued[r]
<1>1. /\ queue \in Seq(Deliveries) /\ t \in Seq(Deliveries) /\ order \in [Deliveries -> Nat]
      /\ Increasing(queue, order) /\ Increasing(t, order)
  BY DEF Slots, SlotTypes, Sorted
<1>2. ToSet(t) \subseteq ToSet(queue)
  BY DEF Once, Snapshot
<1>3. \A d \in ToSet(t), e \in ToSet(queue) \ ToSet(t) : order[d] < order[e]
  BY DEF Once, Snapshot, Pending
<1> SUFFICES Len(t) <= Len(queue) /\ \A i \in 1..Len(t) : queue[i] = t[i]
  OBVIOUS
<1> HIDE DEF t
<1> QED BY <1>1, <1>2, <1>3, SmallestArePrefix

(* A created turn takes exactly its prompt out of the queue. *)
LEMMA CommitMoves ==
  ASSUME Slots, Once, NEW r \in Runs, RunCommit(r)
  PROVE  /\ ToSet(queue') = ToSet(queue) \ ToSet(queued[r])
         /\ ToSet(handed') = ToSet(handed) \cup ToSet(queued[r]) /\ Distinct(handed')
         /\ \A x \in Runs : queued'[x] = <<>>
<1> DEFINE l == Len(queued[r])
<1>1. /\ l \in 0..Len(queue) /\ queued[r] \in Seq(Deliveries)
      /\ ToSet(queue') = {queue[i] : i \in (l + 1)..Len(queue)}
  BY CommitTakesPrefix
<1>2. /\ Len(queue) \in Nat /\ DOMAIN queue = 1..Len(queue)
      /\ queued[r] \in [1..l -> Deliveries] /\ DOMAIN queued[r] = 1..l
  BY <1>1, LenProperties DEF Slots, SlotTypes
<1>3. \A i \in 1..l : queue[i] = queued[r][i]
  BY CopyIsPrefix
<1>4. \A i, j \in 1..Len(queue) : queue[i] = queue[j] => i = j
  <2>1. Distinct(queue)
    BY IncreasingDistinct DEF Slots, SlotTypes, Sorted
  <2> QED BY <2>1 DEF Distinct
<1>5. Distinct(queued[r]) /\ ToSet(queued[r]) \cap ToSet(handed) = {}
  <2>1. Increasing(queued[r], order) /\ order \in [Deliveries -> Nat]
    BY DEF Slots, SlotTypes, Sorted
  <2>2. Distinct(queued[r])
    BY <1>1, <2>1, IncreasingDistinct
  <2> QED BY <2>2 DEF Once, Snapshot, Whole
<1>6. \A x \in Runs : queued'[x] = <<>>
  <2>1. \A x \in Runs \ {r} : pc[x] # "creating"
    BY DEF Once, Snapshot, Busy, Returned, RunCommit
  <2> QED BY <2>1 DEF Slots, SlotTypes, Once, Snapshot, RunCommit
<1>7. handed \in Seq(Deliveries) /\ Distinct(handed) /\ handed' = handed \o queued[r]
  BY DEF Slots, SlotTypes, Once, Whole, RunCommit
<1>8. ToSet(handed') = ToSet(handed) \cup ToSet(queued[r]) /\ Distinct(handed')
  BY <1>1, <1>5, <1>7, ConcatItems, ConcatDistinct
<1> HIDE DEF l
<1>9. ToSet(queued[r]) = {queue[i] : i \in 1..l}
  BY <1>2, <1>3 DEF ToSet
<1>10. ToSet(queue) = {queue[i] : i \in 1..Len(queue)}
  BY <1>2 DEF ToSet
<1>11. ASSUME NEW x \in ToSet(queue') PROVE x \in ToSet(queue) /\ x \notin ToSet(queued[r])
  <2>1. PICK i \in (l + 1)..Len(queue) : x = queue[i]
    BY <1>1
  <2>2. i \in 1..Len(queue) /\ \A j \in 1..l : j \in 1..Len(queue) /\ j # i
    BY <1>1, <1>2
  <2> QED BY <1>4, <1>9, <1>10, <2>1, <2>2
<1>12. ASSUME NEW x \in ToSet(queue), x \notin ToSet(queued[r]) PROVE x \in ToSet(queue')
  <2>1. PICK i \in 1..Len(queue) : x = queue[i]
    BY <1>10
  <2>2. i \notin 1..l
    BY <1>9, <1>12, <2>1
  <2>3. i \in (l + 1)..Len(queue)
    BY <1>1, <1>2, <2>2
  <2> QED BY <1>1, <2>1, <2>3
<1> QED BY <1>6, <1>8, <1>11, <1>12

(* A turn was created. *)
LEMMA CommitOnce ==
  ASSUME Slots, Once, NEW r \in Runs, RunCommit(r), pc \in [Runs -> RunPoints]
  PROVE  Once'
<1>1. active' = active /\ call' = call /\ order' = order /\ nextOrder' = nextOrder /\ panicked' = panicked
  BY DEF RunCommit, slots
<1>2. Kept' = Kept /\ Admitted' = Admitted
  BY <1>1 DEF Kept, Admitted
<1>3. \A x \in Runs : Busy(x)' => Busy(x)
  BY DEF RunCommit, Busy, Returned
<1>4. Snapshot'
  BY <1>3, CommitMoves, EmptySlice DEF Once, Snapshot
<1>5. Whole'
  BY <1>1, <1>2, CommitMoves DEF Once, Whole, Pending
<1>6. Numbered'
  BY <1>1, <1>2 DEF Once, Numbered
<1> QED BY <1>4, <1>5, <1>6 DEF Once

(* The slice expression of line 87 never fails. *)
LEMMA NeverPanics ==
  ASSUME Slots, Once, NEW r \in Runs
  PROVE  ~RunPanics(r)
<1>1. queued[r] \in Seq(Deliveries) /\ queue \in Seq(Deliveries)
  BY DEF Slots, SlotTypes
<1>2. Len(queued[r]) \in Nat /\ Len(queue) \in Nat
  BY <1>1, LenProperties
<1> QED BY <1>2, CopyIsPrefix DEF RunPanics

(* Claim, while no turn is being created. *)
LEMMA ClaimMoves ==
  ASSUME Closed, Slots, Once, Claim
  PROVE  /\ ToSet(queue') = {} /\ Distinct(handed')
         /\ ToSet(handed') = ToSet(handed) \cup ToSet(queue)
         /\ \A x \in Runs : queued[x] = <<>>
<1>1. \A x \in Runs : queued[x] = <<>>
  BY DEF Closed, Claim, Creating, Once, Snapshot
<1>2. /\ handed \in Seq(Deliveries) /\ queue \in Seq(Deliveries) /\ order \in [Deliveries -> Nat]
      /\ Increasing(queue, order) /\ Distinct(handed) /\ ToSet(handed) \cap ToSet(queue) = {}
      /\ handed' = handed \o queue /\ queue' = <<>>
  BY DEF Slots, SlotTypes, Sorted, Once, Whole, Claim
<1>3. Distinct(queue)
  BY <1>2, IncreasingDistinct
<1> QED BY <1>1, <1>2, <1>3, ConcatItems, ConcatDistinct, EmptySlice

(* Claim hands the queue over once. *)
LEMMA ClaimOnce ==
  ASSUME Closed, Slots, Once, Claim
  PROVE  Once'
<1>1. UNCHANGED <<active, call, order, nextOrder, panicked, queued, pc>>
  BY DEF Claim, slots, runs
<1>2. Kept' = Kept /\ Admitted' = Admitted /\ \A x \in Runs : Busy(x)' = Busy(x)
  BY <1>1 DEF Kept, Admitted, Busy
<1>3. Snapshot'
  BY <1>1, <1>2, ClaimMoves, EmptySlice DEF Once, Snapshot
<1>4. Whole' /\ Numbered'
  BY <1>1, <1>2, ClaimMoves DEF Once, Whole, Numbered, Pending
<1> QED BY <1>3, <1>4 DEF Once

(* An admitted delivery is younger than every prompt. *)
LEMMA AdmitOnce ==
  ASSUME Slots, Once, NEW d \in Deliveries, NEW n \in BodySizes, DeliverAdmit(d, n)
  PROVE  Once'
<1> USE DEF DeliverAdmit, runs
<1>1. d \notin Admitted /\ d \notin Kept
  BY DEF Kept, Admitted
<1>2. Admitted' = Admitted \cup {d} /\ Kept' = Kept \cup {d}
  BY DEF Slots, SlotTypes, Kept, Admitted
<1>3. Pending' = Pending \cup {d}
  BY AdmitSlots DEF Pending
<1>4. order'[d] = nextOrder /\ \A e \in Kept : order'[e] = order[e] /\ order[e] < nextOrder
  BY <1>1, SlotFacts DEF Slots, SlotTypes, Ranked
<1>5. Snapshot'
  <2>1. \A r \in Runs : Busy(r)' = Busy(r)
    BY DEF Busy
  <2>2. \A r \in Runs : ToSet(queued[r]) \subseteq Kept
    BY DEF Slots, Placed, Left
  <2>3. Pending \subseteq Kept
    BY SlotFacts DEF Pending
  <2>4. \A r \in Runs : \A x \in ToSet(queued[r]), e \in Pending' \ ToSet(queued[r]) :
          order'[x] < order'[e]
    BY <1>3, <1>4, <2>2, <2>3 DEF Once, Snapshot
  <2> QED BY <2>1, <2>4 DEF Once, Snapshot
<1>6. Whole'
  BY <1>2, <1>3 DEF Once, Whole
<1>7. Numbered'
  <2>1. IsFiniteSet(Admitted)
    BY HandoffAssumption, FS_Subset, SlotFacts
  <2>2. Cardinality(Admitted') = Cardinality(Admitted) + 1
    BY <1>1, <1>2, <2>1, FS_AddElement
  <2> QED BY <2>2 DEF Once, Numbered
<1> QED BY <1>5, <1>6, <1>7 DEF Once

(* A settled delivery is kept no longer. *)
LEMMA SettledOnce ==
  ASSUME Slots, Once, NEW d \in Deliveries, NEW receipt \in {"injected", "error"},
         DeliverSettled(d, receipt)
  PROVE  Once'
<1> USE DEF DeliverSettled, Answer, slots, runs
<1>1. ToSet(active') = ToSet(active) \ {d}
  BY WithoutSlot
<1>2. Admitted' = Admitted /\ Kept' = Kept \ {d}
  BY DEF Slots, SlotTypes, Kept, Admitted
<1>3. Pending' \subseteq Pending /\ Pending \ {d} \subseteq Pending'
  BY <1>1 DEF Pending
<1>4. \A r \in Runs : Busy(r)' = Busy(r)
  BY DEF Busy
<1>5. Snapshot'
  BY <1>3, <1>4 DEF Once, Snapshot
<1>6. Whole' /\ Numbered'
  BY <1>2, <1>3 DEF Once, Whole, Numbered
<1> QED BY <1>5, <1>6 DEF Once

(* A delivery that was not injected is queued. *)
LEMMA QueuedOnce ==
  ASSUME Slots, Once, NEW d \in Deliveries, DeliverQueued(d)
  PROVE  Once'
<1>1. ToSet(queue') = ToSet(queue) \cup {d} /\ ToSet(active') = ToSet(active) \ {d}
  BY QueuedSlots
<1> USE DEF DeliverQueued, Answer, slots, runs
<1>2. Admitted' = Admitted /\ Kept' = Kept
  BY DEF Slots, SlotTypes, Kept, Admitted
<1>3. Pending' = Pending
  BY <1>1 DEF Pending
<1>4. d \notin ToSet(handed)
  BY DEF Slots, Placed, Left
<1>5. \A r \in Runs : Busy(r)' = Busy(r)
  BY DEF Busy
<1>6. Snapshot'
  BY <1>1, <1>3, <1>5 DEF Once, Snapshot
<1>7. Whole' /\ Numbered'
  BY <1>1, <1>2, <1>3, <1>4 DEF Once, Whole, Numbered
<1> QED BY <1>6, <1>7 DEF Once

(* Every step of a run keeps each delivery whole. *)
LEMMA RunStepKeepsOnce ==
  ASSUME Closed, IInv, Slots, Once, NEW r \in Runs, RunStep(r)
  PROVE  Once'
<1>1. pc \in [Runs -> RunPoints] /\ queued \in [Runs -> Seq(Deliveries)]
  BY DEF IInv, RunTypes, Slots, SlotTypes
<1>2. CASE RunRefused(r) \/ TurnEnds(r) \/ RunReturn(r) \/ AskInterrupt(r) \/ Interrupt(r)
  <2>1. /\ UNCHANGED <<queue, active, handed, queued, nextOrder, panicked, order, call>>
        /\ \A x \in Runs : pc'[x] = pc[x] \/ (pc[x] # "creating" /\ (Busy(x)' => Busy(x)))
    BY <1>1, <1>2
       DEF RunRefused, TurnEnds, RunReturn, AskInterrupt, Interrupt, handoff, slots, Busy, Returned
  <2>2. Kept' = Kept /\ Admitted' = Admitted
    BY <2>1 DEF Kept, Admitted
  <2>3. \A x \in Runs : (Busy(x)' => Busy(x)) /\ (pc[x] = "creating" => pc'[x] = "creating")
    BY <2>1 DEF Busy
  <2> QED BY <2>1, <2>2, <2>3, QuietOnce
<1>3. CASE RunBegin(r)
  BY <1>1, <1>3, BeginOnce
<1>4. CASE RunStartFails(r) \/ RunFinish(r)
  <2>1. \A x \in Runs : /\ Busy(x)' => Busy(x)
                        /\ queued'[x] \in {queued[x], <<>>}
                        /\ pc[x] = "creating" => pc'[x] = "creating" \/ queued'[x] = <<>>
    BY <1>1, <1>4 DEF RunStartFails, RunFinish, Busy, Returned
  <2>2. QueueActive /\ UNCHANGED <<handed, nextOrder, panicked, order, call>>
    BY <1>4 DEF RunStartFails, RunFinish, slots
  <2> QED BY <2>1, <2>2, QueueActiveOnce
<1>5. CASE RunCommit(r)
  BY <1>1, <1>5, CommitOnce
<1>6. CASE RunPanics(r)
  BY <1>6, NeverPanics
<1> QED
  BY <1>2, <1>3, <1>4, <1>5, <1>6 DEF RunStep

(* Every step keeps each delivery whole. *)
LEMMA NextKeepsOnce ==
  ASSUME Closed, IInv, Slots, Once, [Next]_vars
  PROVE  Once'
<1>1. CASE \E r \in Runs : RunStep(r)
  BY <1>1, RunStepKeepsOnce
<1>2. ASSUME NEW d \in Deliveries, DeliverStep(d) PROVE Once'
  <2>1. CASE DeliverUnrendered(d) \/ DeliverCrossed(d) \/ \E n \in BodySizes : DeliverRejected(d, n)
    <3>1. UNCHANGED <<queue, active, handed, queued, nextOrder, panicked, order, pc>>
      BY <2>1 DEF DeliverUnrendered, DeliverCrossed, DeliverRejected, handoff, slots, runs
    <3>2. Kept' = Kept /\ Admitted' = Admitted
      BY <2>1 DEF DeliverUnrendered, DeliverCrossed, DeliverRejected, Answer, Kept, Admitted,
                  Slots, SlotTypes
    <3>3. \A x \in Runs : (Busy(x)' => Busy(x)) /\ (pc[x] = "creating" => pc'[x] = "creating")
      BY <3>1 DEF Busy
    <3> QED BY <3>1, <3>2, <3>3, QuietOnce
  <2>2. CASE \E n \in BodySizes : DeliverAdmit(d, n)
    BY <2>2, AdmitOnce
  <2>3. CASE \E receipt \in {"injected", "error"} : DeliverSettled(d, receipt)
    BY <2>3, SettledOnce
  <2>4. CASE DeliverQueued(d)
    BY <2>4, QueuedOnce
  <2> QED BY <1>2, <2>1, <2>2, <2>3, <2>4 DEF DeliverStep
<1>3. CASE Claim
  BY <1>3, ClaimOnce
<1>4. CASE Finish
  <2>1. QueueActive /\ UNCHANGED <<handed, nextOrder, panicked, order, call, pc, queued>>
    BY <1>4 DEF Finish, slots, runs
  <2>2. \A x \in Runs : /\ Busy(x)' => Busy(x)
                        /\ queued'[x] \in {queued[x], <<>>}
                        /\ pc[x] = "creating" => pc'[x] = "creating" \/ queued'[x] = <<>>
    BY <2>1 DEF Busy
  <2> QED BY <2>1, <2>2, QueueActiveOnce
<1>5. CASE UNCHANGED vars
  <2>1. UNCHANGED <<queue, active, handed, queued, nextOrder, panicked, order, pc, call>>
    BY <1>5 DEF vars, handoff, slots, runs
  <2>2. Kept' = Kept /\ Admitted' = Admitted
    BY <2>1 DEF Kept, Admitted
  <2>3. \A x \in Runs : (Busy(x)' => Busy(x)) /\ (pc[x] = "creating" => pc'[x] = "creating")
    BY <2>1 DEF Busy
  <2> QED BY <2>1, <2>2, <2>3, QuietOnce
<1> QED
  BY <1>1, <1>2, <1>3, <1>4, <1>5 DEF Next

(* In a closed environment each delivery stays whole. *)
LEMMA OnceInvariant ==
  ASSUME Closed PROVE Spec => [](Slots /\ Once)
<1>1. Init => Once
  BY InitOnce
<1>2. IInv /\ Slots /\ Once /\ [Next]_vars => Once'
  BY NextKeepsOnce
<1> QED BY <1>1, <1>2, IInvInvariant, SlotsInvariant, PTL DEF Spec

(* For every instance in which no run takes its copy while an older        *)
(* delivery is in flight and nobody claims during a creation: a message    *)
(* taken in is in flight, queued once or handed over once, and the commit  *)
(* of line 87 never fails.                                                 *)
THEOREM HandedOverOnce ==
  ASSUME Closed PROVE Spec => []QueuedExactlyOnce
<1>1. Slots /\ Once => QueuedExactlyOnce
  <2> SUFFICES ASSUME Slots, Once, NEW d \in Kept
               PROVE  Count(d, active) + Count(d, queue) + Count(d, handed) = 1
    BY DEF QueuedExactlyOnce, Once, Whole, Kept
  <2>1. /\ active \in Seq(Deliveries) /\ queue \in Seq(Deliveries) /\ handed \in Seq(Deliveries)
        /\ order \in [Deliveries -> Nat] /\ Increasing(active, order) /\ Increasing(queue, order)
        /\ Distinct(handed)
    BY DEF Slots, SlotTypes, Sorted, Once, Whole
  <2>2. Distinct(active) /\ Distinct(queue)
    BY <2>1, IncreasingDistinct
  <2>3. /\ Count(d, active) = (IF d \in ToSet(active) THEN 1 ELSE 0)
        /\ Count(d, queue) = (IF d \in ToSet(queue) THEN 1 ELSE 0)
        /\ Count(d, handed) = (IF d \in ToSet(handed) THEN 1 ELSE 0)
    BY <2>1, <2>2, DistinctCount DEF Count
  <2>4. d \in ToSet(active) \cup ToSet(queue) \cup ToSet(handed)
    BY DEF Once, Whole, Pending
  <2>5. ToSet(active) \cap (ToSet(queue) \cup ToSet(handed)) = {} /\ ToSet(queue) \cap ToSet(handed) = {}
    BY DEF Slots, Placed, Left, Once, Whole
  <2> QED BY <2>3, <2>4, <2>5
<1> QED BY <1>1, OnceInvariant, PTL

-----------------------------------------------------------------------------
(* The ledger of DeliveryLedger is implemented *)

\* Where a delivery is decides its fate, and conversely.
FateIs ==
  \A d \in Deliveries :
    /\ Fate(d) = "new" <=> call[d] = "idle"
    /\ Fate(d) = "refused" <=> call[d] \in {"unrendered", "rejected"}
    /\ Fate(d) = "failed" <=> call[d] = "error"
    /\ Fate(d) = "injected" <=> call[d] = "injected"
    /\ Fate(d) = "held" <=> d \in ToSet(active)
    /\ Fate(d) = "retained" <=> d \in ToSet(queue)
    /\ Fate(d) = "handed" <=> d \in ToSet(handed)

(* The fates of the refinement mapping are the slices of the state. *)
LEMMA FatesKnown ==
  ASSUME Slots, Once
  PROVE  FateIs
<1> SUFFICES ASSUME NEW d \in Deliveries
             PROVE  /\ Fate(d) = "new" <=> call[d] = "idle"
                    /\ Fate(d) = "refused" <=> call[d] \in {"unrendered", "rejected"}
                    /\ Fate(d) = "failed" <=> call[d] = "error"
                    /\ Fate(d) = "injected" <=> call[d] = "injected"
                    /\ Fate(d) = "held" <=> d \in ToSet(active)
                    /\ Fate(d) = "retained" <=> d \in ToSet(queue)
                    /\ Fate(d) = "handed" <=> d \in ToSet(handed)
  BY DEF FateIs
<1>1. ToSet(active) \cup ToSet(queue) \cup ToSet(handed) \subseteq Kept
  BY SlotFacts
<1>2. ToSet(active) \cap (ToSet(queue) \cup ToSet(handed)) = {} /\ ToSet(queue) \cap ToSet(handed) = {}
  BY DEF Slots, Placed, Left, Once, Whole
<1>3. CASE d \notin Kept
  <2>1. call[d] \in {"idle", "unrendered", "rejected", "error", "injected"}
    BY <1>3 DEF Kept, Slots, SlotTypes, CallPoints, Receipts
  <2> QED BY <1>1, <1>3, <2>1 DEF Fate
<1>4. CASE d \in Kept
  <2>1. call[d] \in {"injecting", "queued_for_next_turn"}
    BY <1>4 DEF Kept
  <2>2. d \in ToSet(active) \cup ToSet(queue) \cup ToSet(handed)
    BY <1>4 DEF Once, Whole, Pending
  <2>3. Fate(d) = IF d \in ToSet(active) THEN "held"
                  ELSE IF d \in ToSet(handed) THEN "handed" ELSE "retained"
    BY <2>1 DEF Fate
  <2> QED BY <1>2, <2>1, <2>2, <2>3
<1> QED BY <1>3, <1>4

(* The queue is empty in the initial states of both. *)
LEMMA InitLedger ==
  ASSUME Init PROVE Ledger!Init
BY DEF Init, Ledger!Init, Fate

(* The ledger's instances of the library operators are the library's. *)
LEMMA LedgerOperators ==
  /\ \A s : Ledger!ToSet(s) = ToSet(s) /\ Ledger!Last(s) = Last(s)
  /\ \A S : Ledger!Cardinality(S) = Cardinality(S)
  /\ \A S, n : Ledger!SeqOf(S, n) = SeqOf(S, n)
<1>1. \A s : Ledger!ToSet(s) = ToSet(s) /\ Ledger!Last(s) = Last(s)
  BY DEF Ledger!ToSet, ToSet, Ledger!Last, Last
<1>2. \A S : Ledger!Cardinality(S) = Cardinality(S)
  BY DEF Ledger!Cardinality, Cardinality, Ledger!IsFiniteSet, IsFiniteSet
<1>3. \A S, n : Ledger!SeqOf(S, n) = SeqOf(S, n)
  BY DEF Ledger!SeqOf, SeqOf
<1> QED BY <1>1, <1>2, <1>3

(* Steps of the queue and of runs that are none of the ledger. *)
LEMMA LedgerStutters ==
  ASSUME FateIs, FateIs', UNCHANGED <<active, queue, handed, order>>,
         \A d \in Deliveries : \/ call'[d] = call[d]
                               \/ call[d] = "injecting" /\ call'[d] = "queued_for_next_turn"
  PROVE  UNCHANGED Ledger!vars
<1>1. \A d \in Deliveries : Fate(d)' = Fate(d)
  BY DEF Fate
<1> QED BY <1>1 DEF Ledger!vars

(* A batch that leaves: retained, sorted, and the oldest. *)
LEMMA BatchLeaves ==
  ASSUME Slots, Once, FateIs, FateIs', NEW b \in Seq(Deliveries), b # <<>>,
         Increasing(b, order), ToSet(b) \subseteq ToSet(queue),
         \A d \in ToSet(b), e \in ToSet(queue) \ ToSet(b) : order[d] < order[e],
         handed' = handed \o b, ToSet(queue') = ToSet(queue) \ ToSet(b),
         UNCHANGED <<active, order, call>>
  PROVE  Ledger!Next
<1> DEFINE fate == [d \in Deliveries |-> Fate(d)]
<1>1. ToSet(handed') = ToSet(handed) \cup ToSet(b)
  BY ConcatItems DEF Slots, SlotTypes
<1>2. Ledger!In("retained") = ToSet(queue)
  BY SetOfSlice DEF Ledger!In, FateIs, Slots, SlotTypes
<1>3. fate' = [d \in Deliveries |-> IF d \in ToSet(b) THEN "handed" ELSE fate[d]]
  <2> SUFFICES ASSUME NEW d \in Deliveries
               PROVE  Fate(d)' = IF d \in ToSet(b) THEN "handed" ELSE Fate(d)
    OBVIOUS
  <2>1. CASE d \in ToSet(b)
    BY <1>1, <2>1 DEF FateIs
  <2>2. CASE d \notin ToSet(b)
    BY <1>1, <2>2 DEF Fate
  <2> QED BY <2>1, <2>2
<1>4. Last(b) \in ToSet(b)
  <2>1. Len(b) \in Nat /\ DOMAIN b = 1..Len(b) /\ Len(b) # 0
    BY LenProperties, EmptySeq
  <2>2. Len(b) \in DOMAIN b
    BY <2>1
  <2> QED BY <2>2 DEF Last, ToSet
<1>5. Ledger!HandOver(b)
  BY <1>2, <1>3, <1>4, LedgerOperators DEF Ledger!HandOver, Increasing
<1>6. b \in SeqOf(Deliveries, Cardinality(Deliveries))
  <2>1. order \in [Deliveries -> Nat]
    BY DEF Slots, SlotTypes
  <2>2. Cardinality(ToSet(b)) = Len(b) /\ ToSet(b) \subseteq Deliveries
    BY <2>1, IncreasingBijection, SetOfSlice
  <2>3. Cardinality(Deliveries) \in Nat /\ Len(b) <= Cardinality(Deliveries)
    BY <2>2, HandoffAssumption, FS_Subset, FS_CardinalityType
  <2>4. Len(b) \in 0..Cardinality(Deliveries) /\ b \in [1..Len(b) -> Deliveries]
    BY <2>3, LenProperties
  <2> QED BY <2>4 DEF SeqOf
<1> QED BY <1>5, <1>6, LedgerOperators DEF Ledger!Next

(* The end of a turn retains what is in flight. *)
LEMMA QueueActiveRetains ==
  ASSUME Slots, FateIs, FateIs', QueueActive, UNCHANGED <<handed, order, call>>
  PROVE  Ledger!Next \/ UNCHANGED Ledger!vars
<1> DEFINE fate == [d \in Deliveries |-> Fate(d)]
           S == ToSet(active)
<1>1. ToSet(queue') = ToSet(queue) \cup S /\ ToSet(active') = {} /\ S \subseteq Deliveries
  BY QueueActiveMerges, EmptySlice, SlotFacts
<1>2. fate' = [d \in Deliveries |-> IF d \in S THEN "retained" ELSE fate[d]]
  <2> SUFFICES ASSUME NEW d \in Deliveries
               PROVE  Fate(d)' = IF d \in S THEN "retained" ELSE Fate(d)
    OBVIOUS
  <2>1. CASE d \in S
    BY <1>1, <2>1 DEF FateIs
  <2>2. CASE d \notin S
    BY <1>1, <2>2 DEF Fate
  <2> QED BY <2>1, <2>2
<1>3. CASE S = {}
  BY <1>2, <1>3 DEF Ledger!vars
<1>4. CASE S # {}
  <2>1. S \subseteq Ledger!In("held")
    BY <1>1 DEF FateIs, Ledger!In
  <2>2. Ledger!Retain(S)
    BY <1>2, <1>4, <2>1 DEF Ledger!Retain
  <2> QED BY <1>1, <2>2 DEF Ledger!Next
<1> QED BY <1>3, <1>4

(* Every step of a run is a step of the ledger, or none. *)
LEMMA RunStepLedger ==
  ASSUME Slots, Once, FateIs, FateIs', NEW r \in Runs, RunStep(r)
  PROVE  Ledger!Next \/ UNCHANGED Ledger!vars
<1>1. CASE RunRefused(r) \/ RunBegin(r) \/ TurnEnds(r) \/ RunReturn(r) \/ AskInterrupt(r) \/ Interrupt(r)
  <2>1. UNCHANGED <<active, queue, handed, order, call>>
    BY <1>1 DEF RunRefused, RunBegin, TurnEnds, RunReturn, AskInterrupt, Interrupt, handoff, slots
  <2> QED BY <2>1, LedgerStutters
<1>2. CASE RunStartFails(r) \/ RunFinish(r)
  BY <1>2, QueueActiveRetains DEF RunStartFails, RunFinish, slots
<1>3. CASE RunCommit(r)
  <2> DEFINE b == queued[r]
  <2>1. /\ b \in Seq(Deliveries) /\ Increasing(b, order) /\ handed \in Seq(Deliveries)
        /\ handed' = handed \o b /\ UNCHANGED <<active, order, call>>
    BY <1>3 DEF Slots, SlotTypes, Sorted, RunCommit, slots
  <2>2. ToSet(queue') = ToSet(queue) \ ToSet(b)
    BY <1>3, CommitMoves
  <2>3. /\ ToSet(b) \subseteq ToSet(queue)
        /\ \A d \in ToSet(b), e \in ToSet(queue) \ ToSet(b) : order[d] < order[e]
    BY DEF Once, Snapshot, Pending
  <2> HIDE DEF b
  <2>4. CASE b # <<>>
    BY <2>1, <2>2, <2>3, <2>4, BatchLeaves
  <2>5. CASE b = <<>>
    <3>1. handed' = handed
      BY <2>1, <2>5
    <3>2. \A d \in Deliveries : Fate(d)' = Fate(d)
      BY <2>1, <3>1 DEF Fate
    <3> QED BY <2>1, <3>1, <3>2 DEF Ledger!vars
  <2> QED BY <2>4, <2>5
<1>4. CASE RunPanics(r)
  BY <1>4, NeverPanics
<1> QED
  BY <1>1, <1>2, <1>3, <1>4 DEF RunStep

(* A delivery is refused. *)
LEMMA RefuseLedger ==
  ASSUME Slots, FateIs, FateIs', NEW d \in Deliveries, call[d] = "idle",
         NEW receipt \in {"unrendered", "rejected"}, Answer(d, receipt),
         UNCHANGED <<active, handed, order>>
  PROVE  Ledger!Next
<1>1. call' = [call EXCEPT ![d] = receipt] /\ call \in [Deliveries -> CallPoints]
  BY DEF Answer, Slots, SlotTypes
<1>2. Fate(d) = "new" /\ Fate(d)' = "refused"
  BY <1>1 DEF FateIs
<1>3. \A e \in Deliveries \ {d} : Fate(e)' = Fate(e)
  BY <1>1 DEF Fate
<1>4. Ledger!Refuse(d)
  BY <1>2, <1>3 DEF Ledger!Refuse
<1> QED BY <1>4 DEF Ledger!Next

(* A delivery is taken in, behind all that were taken in before. *)
LEMMA AdmitLedger ==
  ASSUME Slots, Once, FateIs, FateIs', NEW d \in Deliveries, NEW n \in BodySizes, DeliverAdmit(d, n)
  PROVE  Ledger!Next
<1>1. /\ call' = [call EXCEPT ![d] = "injecting"] /\ call \in [Deliveries -> CallPoints]
      /\ call[d] = "idle" /\ order' = [order EXCEPT ![d] = nextOrder] /\ handed' = handed
  BY DEF DeliverAdmit, Slots, SlotTypes
<1>2. ToSet(active') = ToSet(active) \cup {d}
  BY AdmitSlots
<1>3. Fate(d) = "new" /\ Fate(d)' = "held"
  BY <1>1, <1>2 DEF FateIs
<1>4. \A e \in Deliveries \ {d} : Fate(e)' = Fate(e)
  BY <1>1, <1>2 DEF Fate
<1>5. Deliveries \ (Ledger!In("new") \cup Ledger!In("refused")) = Admitted
  BY <1>1 DEF FateIs, Ledger!In, Admitted, CallPoints, Receipts
<1>6. nextOrder = Ledger!Cardinality(Deliveries \ (Ledger!In("new") \cup Ledger!In("refused")))
  BY <1>5, LedgerOperators DEF Once, Numbered
<1>7. Ledger!TakeIn(d)
  BY <1>1, <1>3, <1>4, <1>6 DEF Ledger!TakeIn
<1> QED BY <1>7 DEF Ledger!Next

(* A delivery is settled. *)
LEMMA SettledLedger ==
  ASSUME Slots, FateIs, FateIs', NEW d \in Deliveries, NEW receipt \in {"injected", "error"},
         DeliverSettled(d, receipt)
  PROVE  Ledger!Next
<1>1. /\ call' = [call EXCEPT ![d] = receipt] /\ call \in [Deliveries -> CallPoints]
      /\ d \in ToSet(active) /\ active' = Without(active, d) /\ UNCHANGED <<order, handed>>
  BY DEF DeliverSettled, Answer, slots, Slots, SlotTypes
<1>2. ToSet(active') = ToSet(active) \ {d}
  BY <1>1, WithoutSlot
<1>3. Fate(d) = "held" /\ Fate(d)' \in {"injected", "failed"}
  BY <1>1 DEF FateIs
<1>4. \A e \in Deliveries \ {d} : Fate(e)' = Fate(e)
  BY <1>1, <1>2 DEF Fate
<1>5. [e \in Deliveries |-> Fate(e)]' = [[e \in Deliveries |-> Fate(e)] EXCEPT ![d] = Fate(d)']
  BY <1>4
<1>6. Ledger!Settle(d)
  BY <1>1, <1>3, <1>5 DEF Ledger!Settle
<1> QED BY <1>6 DEF Ledger!Next

(* A delivery that was not injected is retained. *)
LEMMA QueuedLedger ==
  ASSUME Slots, FateIs, FateIs', NEW d \in Deliveries, DeliverQueued(d)
  PROVE  Ledger!Next
<1>1. /\ call' = [call EXCEPT ![d] = "queued_for_next_turn"] /\ call \in [Deliveries -> CallPoints]
      /\ d \in ToSet(active) /\ UNCHANGED <<order, handed>>
  BY DEF DeliverQueued, Answer, slots, Slots, SlotTypes
<1>2. ToSet(queue') = ToSet(queue) \cup {d} /\ ToSet(active') = ToSet(active) \ {d}
  BY QueuedSlots
<1>3. Fate(d) = "held" /\ Fate(d)' = "retained"
  BY <1>1, <1>2 DEF FateIs
<1>4. \A e \in Deliveries \ {d} : Fate(e)' = Fate(e)
  BY <1>1, <1>2 DEF Fate
<1>5. Ledger!Retain({d})
  BY <1>1, <1>3, <1>4 DEF Ledger!Retain, Ledger!In
<1> QED BY <1>5 DEF Ledger!Next

(* Every step is a step of the ledger, or none. *)
LEMMA NextLedger ==
  ASSUME Closed, Slots, Once, FateIs, FateIs', [Next]_vars
  PROVE  [Ledger!Next]_Ledger!vars
<1>1. CASE \E r \in Runs : RunStep(r)
  BY <1>1, RunStepLedger
<1>2. ASSUME NEW d \in Deliveries, DeliverStep(d) PROVE Ledger!Next \/ UNCHANGED Ledger!vars
  <2>1. CASE DeliverUnrendered(d)
    BY <2>1, RefuseLedger DEF DeliverUnrendered, handoff, slots
  <2>2. CASE \E n \in BodySizes : DeliverRejected(d, n)
    BY <2>2, RefuseLedger DEF DeliverRejected, handoff, slots
  <2>3. CASE \E n \in BodySizes : DeliverAdmit(d, n)
    BY <2>3, AdmitLedger
  <2>4. CASE \E receipt \in {"injected", "error"} : DeliverSettled(d, receipt)
    BY <2>4, SettledLedger
  <2>5. CASE DeliverCrossed(d)
    <3>1. UNCHANGED <<active, queue, handed, order>>
      BY <2>5 DEF DeliverCrossed, handoff, slots
    <3>2. \A e \in Deliveries : \/ call'[e] = call[e]
                                \/ call[e] = "injecting" /\ call'[e] = "queued_for_next_turn"
      BY <2>5 DEF DeliverCrossed, Answer, Slots, SlotTypes
    <3> QED BY <3>1, <3>2, LedgerStutters
  <2>6. CASE DeliverQueued(d)
    BY <2>6, QueuedLedger
  <2> QED BY <1>2, <2>1, <2>2, <2>3, <2>4, <2>5, <2>6 DEF DeliverStep
<1>3. CASE Claim
  <2>1. /\ queue \in Seq(Deliveries) /\ queue # <<>> /\ Increasing(queue, order)
        /\ handed' = handed \o queue /\ UNCHANGED <<active, order, call>>
    BY <1>3 DEF Claim, slots, Slots, SlotTypes, Sorted
  <2>2. ToSet(queue') = ToSet(queue) \ ToSet(queue)
    BY <1>3, ClaimMoves
  <2> QED BY <2>1, <2>2, BatchLeaves
<1>4. CASE Finish
  BY <1>4, QueueActiveRetains DEF Finish, slots
<1>5. CASE UNCHANGED vars
  BY <1>5, LedgerStutters DEF vars, handoff, slots
<1> QED
  BY <1>1, <1>2, <1>3, <1>4, <1>5 DEF Next

(* For every instance of that environment: Handoff implements              *)
(* DeliveryLedger, step by step.                                           *)
THEOREM LedgerImplemented ==
  ASSUME Closed PROVE Spec => ImplementsLedger
<1>1. Init => Ledger!Init
  BY InitLedger
<1>2. Slots /\ Once => FateIs
  BY FatesKnown
<1>3. Slots /\ Once /\ FateIs /\ FateIs' /\ [Next]_vars => [Ledger!Next]_Ledger!vars
  BY NextLedger
<1> QED BY <1>1, <1>2, <1>3, OnceInvariant, PTL DEF Spec, ImplementsLedger, Ledger!Spec
=============================================================================
