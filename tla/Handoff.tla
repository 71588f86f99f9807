------------------------------ MODULE Handoff ------------------------------
(***************************************************************************)
(* host/handoff.go: the delivery queue of one session and its boundary     *)
(* with the creation, the end and the interruption of native turns.        *)
(*                                                                         *)
(* h.mu is released around the three calls that may block: start (create a *)
(* native turn), turn.Wait and inject.  One action is one section that     *)
(* holds h.mu.  A delivery slot is identified with the delivery that       *)
(* allocated it; the Go slices queue and active are sequences of slots.    *)
(*                                                                         *)
(* The SDK worker, outside the repository, executes one Run at a time,     *)
(* marks a run interrupted and then calls Interrupt, and serves deliveries *)
(* concurrently.  How much of that concurrency the environment uses is a   *)
(* parameter: the last three constants.                                    *)
(***************************************************************************)
EXTENDS Integers, FiniteSets, Sequences, SequencesExt, Functions

CONSTANTS
  Deliveries,          \* the Deliver calls
  Runs,                \* the Run calls
  BodySizes,           \* possible lengths of a rendered message
  MaxQueuedDeliveries,
  MaxQueuedBytes,
  MaxAsks,             \* bound: turn.interrupt requests per run
  MaxInFlight,         \* bound: Deliver calls between their two sections
  StartWhileOvertaken, \* may Run snapshot while an older delivery is in flight?
  ClaimWhileCreating   \* may Claim be called while a turn is being created?

ASSUME HandoffAssumption ==
  /\ IsFiniteSet(Deliveries)
  /\ BodySizes \subseteq Nat \ {0}
  /\ MaxQueuedDeliveries \in Nat /\ MaxQueuedBytes \in Nat
  /\ MaxAsks \in Nat /\ MaxInFlight \in Nat
  /\ StartWhileOvertaken \in BOOLEAN /\ ClaimWhileCreating \in BOOLEAN

VARIABLES
  queue, active, queueSize, nextOrder,  \* the fields of type Handoff
  order, size,  \* deliverySlot.order and len(deliverySlot.body), per delivery
  call,         \* call[d]: progress of Deliver and then its receipt
  pc,           \* pc[r]: progress of Run and then how it returned
  queued,       \* queued[r]: Run's local copy of the queue
  native,       \* native[r]: run.Native holds the turn of r
  interrupted,  \* run.Interrupted(), set by the SDK
  asked,        \* asked[r]: Interrupt calls the SDK has still to make
  interrupts,   \* interrupts[r]: calls of Turn.Interrupt on the turn of r
  panicked,     \* Run panicked at line 87 and left h.mu locked
  handed        \* history: what prompts of created turns and claims contained

handoff == <<queue, active, queueSize, nextOrder>>
slots == <<order, size>>
runs == <<pc, queued, native, interrupted, asked, interrupts>>
vars == <<handoff, slots, call, runs, panicked, handed>>

Returned == {"interrupted", "failed", "returned"}
RunPoints == {"idle", "creating", "waiting", "finishing", "clearing"} \cup Returned

Receipts == {"unrendered", "rejected", "injected", "queued_for_next_turn", "error"}
CallPoints == {"idle", "injecting"} \cup Receipts

Init ==
  /\ queue = <<>> /\ active = <<>> /\ queueSize = 0 /\ nextOrder = 0
  /\ order = [d \in Deliveries |-> 0] /\ size = [d \in Deliveries |-> 0]
  /\ call = [d \in Deliveries |-> "idle"]
  /\ pc = [r \in Runs |-> "idle"]
  /\ queued = [r \in Runs |-> <<>>]
  /\ native = [r \in Runs |-> FALSE]
  /\ interrupted = [r \in Runs |-> FALSE]
  /\ asked = [r \in Runs |-> 0]
  /\ interrupts = [r \in Runs |-> 0]
  /\ panicked = FALSE
  /\ handed = <<>>

-----------------------------------------------------------------------------
(* Helpers *)

\* Fault: the slices are joined but not sorted.
mergeSlotsUnsorted(a, b) == a \o b

\* Both slices, joined and sorted: the positions of the result are a
\* permutation of those of the joined slices.
mergeSlots(a, b) ==
  LET all == a \o b
      n == Len(all)
      p == CHOOSE p \in [1..n -> 1..n] :
             /\ IsInjective(p)
             /\ \A i, j \in 1..n : i < j => order[all[p[i]]] <= order[all[p[j]]]
  IN  [i \in 1..n |-> all[p[i]]]

\* The length of every pending body joined with newlines.
recount(act, que) ==
  LET all == act \o que
      bodies == SumFunction([i \in DOMAIN all |-> size[all[i]]])
  IN  IF Len(all) > 0 THEN bodies + Len(all) - 1 ELSE bodies

\* slices.Index, then slices.Delete of that one position
Without(slice, d) == RemoveAt(slice, SelectInSeq(slice, LAMBDA e : e = d))

Creating == \E r \in Runs : pc[r] = "creating"

\* A delivery still in flight is older than one already queued.
Overtaken == \E d \in ToSet(active), e \in ToSet(queue) : order[d] < order[e]

-----------------------------------------------------------------------------
(* Run *)

\* The SDK executes the runs of a session one after the other.
Idle == \A r \in Runs : pc[r] \in {"idle"} \cup Returned

RunRefused(r) ==
  /\ ~panicked /\ Idle /\ pc[r] = "idle"
  /\ interrupted[r]
  /\ pc' = [pc EXCEPT ![r] = "interrupted"]
  /\ UNCHANGED <<handoff, slots, call, queued, native, interrupted, asked, interrupts, panicked, handed>>

RunBegin(r) ==
  /\ ~panicked /\ Idle /\ pc[r] = "idle"
  /\ ~interrupted[r]
  /\ StartWhileOvertaken \/ ~Overtaken
  /\ pc' = [pc EXCEPT ![r] = "creating"]
  /\ queued' = [queued EXCEPT ![r] = queue]
  /\ UNCHANGED <<handoff, slots, call, native, interrupted, asked, interrupts, panicked, handed>>

\* Fault: what is in flight is dropped.
ForgetActive ==
  /\ active' = <<>>
  /\ queueSize' = recount(active', queue)
  /\ UNCHANGED queue

\* The body of Finish, and of Run after a failed creation.
QueueActive ==
  /\ queue' = mergeSlots(queue, active)
  /\ active' = <<>>
  /\ queueSize' = recount(active', queue')

\* start returned an error, or no turn.
RunStartFails(r) ==
  /\ ~panicked /\ pc[r] = "creating"
  /\ QueueActive
  /\ pc' = [pc EXCEPT ![r] = IF interrupted[r] THEN "interrupted" ELSE "failed"]
  /\ queued' = [queued EXCEPT ![r] = <<>>]
  /\ UNCHANGED <<nextOrder, slots, call, native, interrupted, asked, interrupts, panicked, handed>>

\* Fault: commit empties the queue, with what arrived during creation.
RemainingNone(r) == <<>>

Remaining(r) == SubSeq(queue, Len(queued[r]) + 1, Len(queue))

\* Fault: an interrupt that arrived during creation is not looked at.
SetNativeUnchecked(r) ==
  native' = [native EXCEPT ![r] = TRUE] /\ UNCHANGED interrupts

\* run.Native, or at once Turn.Interrupt when the run is interrupted already.
SetNative(r) ==
  IF interrupted[r]
  THEN interrupts' = [interrupts EXCEPT ![r] = @ + 1] /\ UNCHANGED native
  ELSE native' = [native EXCEPT ![r] = TRUE] /\ UNCHANGED interrupts

\* start returned a turn whose prompt contained queued[r].
RunCommit(r) ==
  /\ ~panicked /\ pc[r] = "creating"
  /\ Len(queued[r]) <= Len(queue)
  /\ queue' = Remaining(r)
  /\ queueSize' = recount(active, queue')
  /\ handed' = handed \o queued[r]
  /\ SetNative(r)
  /\ pc' = [pc EXCEPT ![r] = "waiting"]
  /\ queued' = [queued EXCEPT ![r] = <<>>]
  /\ UNCHANGED <<active, nextOrder, slots, call, interrupted, asked, panicked>>

\* The same point with a queue shorter than the copy: h.queue[len(queued):].
RunPanics(r) ==
  /\ ~panicked /\ pc[r] = "creating"
  /\ Len(queued[r]) > Len(queue)
  /\ panicked' = TRUE
  /\ handed' = handed \o queued[r]
  /\ UNCHANGED <<handoff, slots, call, runs>>

TurnEnds(r) ==
  /\ pc[r] = "waiting"
  /\ pc' = [pc EXCEPT ![r] = "finishing"]
  /\ UNCHANGED <<handoff, slots, call, queued, native, interrupted, asked, interrupts, panicked, handed>>

RunFinish(r) ==
  /\ ~panicked /\ pc[r] = "finishing"
  /\ QueueActive
  /\ pc' = [pc EXCEPT ![r] = "clearing"]
  /\ UNCHANGED <<nextOrder, slots, call, queued, native, interrupted, asked, interrupts, panicked, handed>>

\* Products may call Finish too; without slots in flight it changes nothing.
Finish ==
  /\ ~panicked /\ active # <<>>
  /\ QueueActive
  /\ UNCHANGED <<nextOrder, slots, call, runs, panicked, handed>>

RunReturn(r) ==
  /\ ~panicked /\ pc[r] = "clearing"
  /\ native' = [native EXCEPT ![r] = FALSE]
  /\ pc' = [pc EXCEPT ![r] = "returned"]
  /\ UNCHANGED <<handoff, slots, call, queued, interrupted, asked, interrupts, panicked, handed>>

-----------------------------------------------------------------------------
(* Interruption *)

\* The SDK receives turn.interrupt for a run that has not returned.
AskInterrupt(r) ==
  /\ pc[r] \notin Returned
  /\ asked[r] < MaxAsks
  /\ interrupted' = [interrupted EXCEPT ![r] = TRUE]
  /\ asked' = [asked EXCEPT ![r] = @ + 1]
  /\ UNCHANGED <<handoff, slots, call, pc, queued, native, interrupts, panicked, handed>>

\* Fault: the turn stays in run.Native.
InterruptKeeps(r) ==
  /\ ~panicked /\ asked[r] > 0
  /\ asked' = [asked EXCEPT ![r] = @ - 1]
  /\ interrupts' = IF native[r] THEN [interrupts EXCEPT ![r] = @ + 1] ELSE interrupts
  /\ UNCHANGED <<handoff, slots, call, pc, queued, native, interrupted, panicked, handed>>

Interrupt(r) ==
  /\ ~panicked /\ asked[r] > 0
  /\ asked' = [asked EXCEPT ![r] = @ - 1]
  /\ native' = [native EXCEPT ![r] = FALSE]
  /\ interrupts' = IF native[r] THEN [interrupts EXCEPT ![r] = @ + 1] ELSE interrupts
  /\ UNCHANGED <<handoff, slots, call, pc, queued, interrupted, panicked, handed>>

-----------------------------------------------------------------------------
(* Deliver *)

Answer(d, receipt) == call' = [call EXCEPT ![d] = receipt]

DeliverUnrendered(d) ==
  /\ call[d] = "idle"
  /\ Answer(d, "unrendered")
  /\ UNCHANGED <<handoff, slots, runs, panicked, handed>>

\* Bytes a body of length n adds: itself, and a newline unless it is alone.
Added(n) == IF Len(queue) + Len(active) > 0 THEN n + 1 ELSE n

QueueFull(n) ==
  \/ Len(queue) + Len(active) = MaxQueuedDeliveries
  \/ queueSize + Added(n) > MaxQueuedBytes

InFlight == {d \in Deliveries : call[d] = "injecting"}

DeliverRejected(d, n) ==
  /\ ~panicked /\ call[d] = "idle"
  /\ QueueFull(n)
  /\ Answer(d, "rejected")
  /\ UNCHANGED <<handoff, slots, runs, panicked, handed>>

DeliverAdmit(d, n) ==
  /\ ~panicked /\ call[d] = "idle"
  /\ Cardinality(InFlight) < MaxInFlight
  /\ ~QueueFull(n)
  /\ order' = [order EXCEPT ![d] = nextOrder]
  /\ size' = [size EXCEPT ![d] = n]
  /\ nextOrder' = nextOrder + 1
  /\ active' = Append(active, d)
  /\ queueSize' = queueSize + Added(n)
  /\ call' = [call EXCEPT ![d] = "injecting"]
  /\ UNCHANGED <<queue, runs, panicked, handed>>

\* Fault: an injection that crossed the end of the turn is acknowledged.
DeliverCrossedAcknowledged(d) ==
  /\ ~panicked /\ call[d] = "injecting"
  /\ d \notin ToSet(active)
  /\ Answer(d, "injected")
  /\ UNCHANGED <<handoff, slots, runs, panicked, handed>>

\* inject returned, whatever it returned, after the slot left active.
DeliverCrossed(d) ==
  /\ ~panicked /\ call[d] = "injecting"
  /\ d \notin ToSet(active)
  /\ Answer(d, "queued_for_next_turn")
  /\ UNCHANGED <<handoff, slots, runs, panicked, handed>>

\* Fault: the charge of a settled delivery is not released.
DeliverSettledUncounted(d, receipt) ==
  /\ ~panicked /\ call[d] = "injecting"
  /\ d \in ToSet(active)
  /\ active' = Without(active, d)
  /\ Answer(d, receipt)
  /\ UNCHANGED <<queue, queueSize, nextOrder, slots, runs, panicked, handed>>

\* inject returned Injected, an error or an invalid outcome.
DeliverSettled(d, receipt) ==
  /\ ~panicked /\ call[d] = "injecting"
  /\ d \in ToSet(active)
  /\ active' = Without(active, d)
  /\ queueSize' = recount(active', queue)
  /\ Answer(d, receipt)
  /\ UNCHANGED <<queue, nextOrder, slots, runs, panicked, handed>>

\* inject is nil or returned NotInjected; the charge is kept as it is.
DeliverQueued(d) ==
  /\ ~panicked /\ call[d] = "injecting"
  /\ d \in ToSet(active)
  /\ active' = Without(active, d)
  /\ queue' = mergeSlots(queue, <<d>>)
  /\ Answer(d, "queued_for_next_turn")
  /\ UNCHANGED <<queueSize, nextOrder, slots, runs, panicked, handed>>

Claim ==
  /\ ~panicked /\ queue # <<>>
  /\ ClaimWhileCreating \/ ~Creating
  /\ handed' = handed \o queue
  /\ queue' = <<>>
  /\ queueSize' = recount(active, queue')
  /\ UNCHANGED <<active, nextOrder, slots, call, runs, panicked>>

-----------------------------------------------------------------------------
RunStep(r) ==
  \/ RunRefused(r) \/ RunBegin(r) \/ RunStartFails(r) \/ RunCommit(r) \/ RunPanics(r)
  \/ TurnEnds(r) \/ RunFinish(r) \/ RunReturn(r)
  \/ AskInterrupt(r) \/ Interrupt(r)

DeliverStep(d) ==
  \/ DeliverUnrendered(d)
  \/ \E n \in BodySizes : DeliverRejected(d, n) \/ DeliverAdmit(d, n)
  \/ \E receipt \in {"injected", "error"} : DeliverSettled(d, receipt)
  \/ DeliverCrossed(d) \/ DeliverQueued(d)

Next ==
  \/ \E r \in Runs : RunStep(r)
  \/ \E d \in Deliveries : DeliverStep(d)
  \/ Claim \/ Finish

Spec == Init /\ [][Next]_vars

(* A started Run keeps going: start returns, Wait returns once the turn    *)
(* was interrupted (not otherwise: a native turn may run for ever), and    *)
(* the SDK makes the Interrupt call it owes.                               *)
Fairness ==
  \A r \in Runs :
    /\ WF_vars(RunStartFails(r) \/ RunCommit(r))
    /\ WF_vars(TurnEnds(r) /\ interrupts[r] > 0)
    /\ WF_vars(RunFinish(r)) /\ WF_vars(RunReturn(r))
    /\ WF_vars(Interrupt(r))

FairSpec == Spec /\ Fairness

-----------------------------------------------------------------------------
(* Properties *)

(* The state is well formed; the charge never exceeds MaxQueuedBytes       *)
(* (lines 114-124 compare before they charge).                             *)
TypeOK ==
  /\ queue \in Seq(Deliveries) /\ active \in Seq(Deliveries)
  /\ queueSize \in 0..MaxQueuedBytes /\ nextOrder \in Nat
  /\ order \in [Deliveries -> Nat] /\ size \in [Deliveries -> Nat]
  /\ call \in [Deliveries -> CallPoints]
  /\ pc \in [Runs -> RunPoints]
  /\ queued \in [Runs -> Seq(Deliveries)]
  /\ native \in [Runs -> BOOLEAN] /\ interrupted \in [Runs -> BOOLEAN]
  /\ asked \in [Runs -> 0..MaxAsks] /\ interrupts \in [Runs -> Nat]
  /\ panicked \in BOOLEAN
  /\ handed \in Seq(Deliveries)

(* In a well-formed state, the incremental charge of admission and         *)
(* requeueing equals what recount computes, and the count limit, tested    *)
(* with == at line 117, is never jumped over: no order of admissions,      *)
(* injections, failed creations, claims and ends leaks or forgets budget.  *)
Accounting ==
  /\ TypeOK
  /\ queueSize = recount(active, queue)
  /\ Len(queue) + Len(active) <= MaxQueuedDeliveries

(* The queue, what is in flight, and every prompt are in admission order   *)
(* and no slot is in both: the merges at the end of a turn and after a     *)
(* failed creation neither reorder nor duplicate.                          *)
FifoOrder ==
  LET Older(d, e) == order[d] < order[e]
  IN  /\ IsSorted(queue, Older) /\ IsSorted(active, Older)
      /\ \A r \in Runs : IsSorted(queued[r], Older)
      /\ ToSet(queue) \cap ToSet(active) = {}

(* A caller told that its message was injected, refused or lost to an      *)
(* error never finds it in the queue, in a prompt or in a claim later:     *)
(* a retry by that caller cannot make a duplicate.                         *)
ReceiptHonest ==
  \A d \in Deliveries :
    call[d] \in Receipts \ {"queued_for_next_turn"} =>
      /\ d \notin ToSet(queue) \cup ToSet(active) \cup ToSet(handed)
      /\ \A r \in Runs : d \notin ToSet(queued[r])

Count(d, slice) == Cardinality({i \in DOMAIN slice : slice[i] = d})

(* A message taken in stays in flight, or is queued once, or was handed    *)
(* over once (prompt of a created turn, or claim): never lost and never    *)
(* given to the product twice, and commit never cuts beyond the queue.     *)
QueuedExactlyOnce ==
  /\ ~panicked
  /\ \A d \in Deliveries :
       call[d] \in {"injecting", "queued_for_next_turn"} =>
         Count(d, active) + Count(d, queue) + Count(d, handed) = 1

(* Turn.Interrupt is called at most once, and it has been called for every *)
(* run that is marked interrupted, waits, and is owed no Interrupt call:   *)
(* a request that crosses the creation of the turn is not dropped between  *)
(* lines 91-94 and Interrupt.                                              *)
InterruptOnce ==
  \A r \in Runs :
    /\ interrupts[r] <= 1
    /\ interrupted[r] /\ asked[r] = 0 /\ pc[r] = "waiting" => interrupts[r] = 1

(* Once turn.interrupt was received for a started run, the run returns.    *)
InterruptedRunReturns ==
  \A r \in Runs :
    (interrupted[r] /\ pc[r] # "idle") ~> (pc[r] \in Returned)

(* Every behaviour is one of the abstract ledger.                          *)
Fate(d) ==
  CASE call[d] = "idle" -> "new"
    [] call[d] \in {"unrendered", "rejected"} -> "refused"
    [] call[d] = "error" -> "failed"
    [] call[d] = "injected" -> "injected"
    [] OTHER -> IF d \in ToSet(active) THEN "held"
                ELSE IF d \in ToSet(handed) THEN "handed" ELSE "retained"

Ledger == INSTANCE DeliveryLedger WITH fate <- [d \in Deliveries |-> Fate(d)]

(* Handoff implements DeliveryLedger: each delivery meets one fate, and    *)
(* retained deliveries leave oldest first, once.                           *)
ImplementsLedger == Ledger!Spec
=============================================================================
