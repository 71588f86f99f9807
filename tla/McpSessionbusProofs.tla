------------------------ MODULE McpSessionbusProofs ------------------------
(***************************************************************************)
(* Cancellation, replies and lifetime of an MCP connection, proved for any *)
(* number of requests, ids and sizes.                                      *)
(*                                                                         *)
(* PendingExact needs only that an unregistering worker was registered     *)
(* (Returning).  AnsweredOnce needs to know how a worker got where it is:  *)
(* before its write nothing was answered, and it leaves unanswered only    *)
(* because of its own cancellation or that of the connection (Answered).   *)
(* EndOnce ties the End callback to the progress of stop.                  *)
(*                                                                         *)
(* Books is the second invariant: the budgets are the number of live       *)
(* workers and the sum of what they were charged.  It rests on the first   *)
(* only for types; the limits follow because a charge is compared with the *)
(* remaining budget in the same critical section that adds it.             *)
(*                                                                         *)
(* The pure parts, the frame reader and the request ids (McpFrames): the   *)
(* loop of readMCPFrame gives what Outcome says without the buffer, which  *)
(* is shown for the function that the definition chooses, because a last   *)
(* byte count at which another loop differed could not exist.  Rounding is *)
(* exact below 2^MantissaBits and stays beyond it from there on.           *)
(***************************************************************************)
EXTENDS McpSessionbus, McpFrames, CountingTheorems, TLAPS

Types ==
  /\ closable \in BOOLEAN
  /\ reader \in {"read", "dispatch", "stopping", "returned"}
  /\ stop \in {"idle", "called", "cancelled", "closed", "ended"}
  /\ pending \in [Keys -> Requests \cup {NoRequest}]
  /\ phase \in [Requests -> Phases]
  /\ kind \in [Requests -> Kinds] /\ key \in [Requests -> Keys]
  /\ aborted \in [Requests -> BOOLEAN]
  /\ result \in [Requests -> Results]
  /\ replies \in [Requests -> Nat] /\ initialized \in [Requests -> Nat] /\ ends \in Nat

Returning == \A q \in Requests : phase[q] = "returned" => kind[q] \in Registered

Answered ==
  \A q \in Requests :
    /\ phase[q] \in Phases \ {"replied", "leaving", "done"} => replies[q] = 0
    /\ phase[q] \in Phases \ {"leaving", "done"} => initialized[q] = 0
    /\ phase[q] = "replied" => replies[q] = 1
    /\ replies[q] \in {0, 1} /\ initialized[q] <= replies[q]
    /\ phase[q] \in {"unread", "admitted", "callback"} => result[q] = "none"
    /\ result[q] = "ctxError" =>
         /\ phase[q] \in {"returned", "leaving", "done"}
         /\ replies[q] = 0
         /\ aborted[q] \/ Cancelled
    /\ phase[q] \in {"leaving", "done"} =>
         replies[q] = 1 \/ result[q] = "ctxError" \/ Cancelled

EndOnce ==
  /\ ends = IF stop = "ended" THEN 1 ELSE 0
  /\ reader = "returned" => stop = "ended"

IInv == Types /\ PendingExact /\ Returning /\ Answered /\ EndOnce

(* The inductive invariant holds of a fresh connection. *)
LEMMA InitIInv == Init => IInv
BY McpAssumption
   DEF Init, IInv, Types, PendingExact, Returning, Answered, EndOnce, Phases, Kinds, Results, Cancelled

(* The reader keeps it: registration never hides a call in flight. *)
LEMMA ReaderKeepsIInv ==
  ASSUME IInv, ReaderStep
  PROVE  IInv'
<1> USE McpAssumption DEF IInv, Types, Phases, Kinds, Results, Registered, Cancelled, Goto
<1>1. ASSUME NEW size \in LineSizes, ReaderRefuse(size) PROVE IInv'
  BY <1>1 DEF ReaderRefuse, CallStop, request, history, PendingExact, Returning, Answered, EndOnce
<1>2. ASSUME NEW q \in Requests, NEW what \in Kinds, NEW id \in Keys, NEW size \in LineSizes,
             ReaderReserve(q, what, id, size)
      PROVE  IInv'
  <2>1. Types' /\ EndOnce'
    BY <1>2 DEF ReaderReserve, history, EndOnce
  <2>2. PendingExact' /\ Returning'
    BY <1>2 DEF ReaderReserve, PendingExact, Returning
  <2>3. Answered'
    BY <1>2 DEF ReaderReserve, history, Answered
  <2> QED BY <2>1, <2>2, <2>3
<1>3. ASSUME NEW q \in Requests, ReaderDispatch(q) PROVE IInv'
  <2>1. Types' /\ EndOnce'
    BY <1>3 DEF ReaderDispatch, history, EndOnce
  <2>2. PendingExact' /\ Returning'
    BY <1>3 DEF ReaderDispatch, PendingExact, Returning
  <2>3. Answered'
    BY <1>3 DEF ReaderDispatch, history, Answered
  <2> QED BY <2>1, <2>2, <2>3
<1>4. ASSUME NEW k \in Keys, ReaderAbort(k) PROVE IInv'
  BY <1>4 DEF ReaderAbort, request, history, PendingExact, Returning, Answered, EndOnce
<1>5. CASE ReaderLeave
  BY <1>5 DEF ReaderLeave, CallStop, request, history, PendingExact, Returning, Answered, EndOnce
<1>6. CASE ReaderJoin
  BY <1>6 DEF ReaderJoin, request, history, PendingExact, Returning, Answered, EndOnce
<1> HIDE DEF IInv
<1> QED BY <1>1, <1>2, <1>3, <1>4, <1>5, <1>6 DEF ReaderStep

(* stop keeps it: a connection never comes back to life. *)
LEMMA StopKeepsIInv ==
  ASSUME IInv, StopStep
  PROVE  IInv'
<1> USE DEF IInv, Types, Cancelled, request, history, PendingExact, Returning, Answered, EndOnce
<1>1. CASE StopCancel
  BY <1>1 DEF StopCancel
<1>2. CASE StopClose
  BY <1>2 DEF StopClose
<1>3. CASE StopEnd
  BY <1>3 DEF StopEnd
<1> QED BY <1>1, <1>2, <1>3 DEF StopStep

(* A worker keeps it, on every path from its callback to its release. *)
LEMMA WorkerKeepsIInv ==
  ASSUME IInv, NEW q \in Requests, WorkerStep(q)
  PROVE  IInv'
<1> USE McpAssumption
    DEF IInv, Types, Phases, Results, Registered, Cancelled, Goto, request, history, EndOnce
<1>1. ASSUME NEW what \in Results \ {"none"}, CallReturn(q, what) PROVE IInv'
  <2>1. Types' /\ PendingExact' /\ Returning' /\ EndOnce'
    BY <1>1 DEF CallReturn, PendingExact, Returning
  <2>2. Answered'
    BY <1>1 DEF CallReturn, CallCancelled, Answered
  <2> QED BY <2>1, <2>2
<1>2. ASSUME NEW what \in Results \ {"none"}, ReportReturn(q, what) PROVE IInv'
  <2>1. Types' /\ PendingExact' /\ Returning' /\ EndOnce'
    BY <1>2 DEF ReportReturn, PendingExact, Returning
  <2>2. Answered'
    BY <1>2 DEF ReportReturn, Answered
  <2> QED BY <2>1, <2>2
<1>3. CASE CallUnregister(q)
  <2>1. Types' /\ PendingExact' /\ Returning' /\ EndOnce'
    BY <1>3 DEF CallUnregister, PendingExact, Returning
  <2>2. Answered'
    BY <1>3 DEF CallUnregister, Answered
  <2> QED BY <2>1, <2>2
<1>4. CASE CallUnhandled(q)
  BY <1>4 DEF CallUnhandled, PendingExact, Returning, Answered
<1>5. ASSUME NEW size \in ReplySizes, Charge(q, size) PROVE IInv'
  <2>1. Types' /\ PendingExact' /\ Returning' /\ EndOnce'
    BY <1>5 DEF Charge, CallStop, PendingExact, Returning
  <2>2. Answered'
    BY <1>5 DEF Charge, CallStop, Answered
  <2> QED BY <2>1, <2>2
<1>6. CASE WriteBegin(q)
  BY <1>6 DEF WriteBegin, PendingExact, Returning, Answered
<1>7. CASE WriteSucceeds(q)
  BY <1>7 DEF WriteSucceeds, PendingExact, Returning, Answered
<1>8. CASE WriteFails(q)
  BY <1>8 DEF WriteFails, CallStop, PendingExact, Returning, Answered
<1>9. CASE StopReturns(q)
  BY <1>9 DEF StopReturns, PendingExact, Returning, Answered
<1>10. CASE Initialized(q)
  BY <1>10 DEF Initialized, PendingExact, Returning, Answered
<1>11. CASE Release(q)
  BY <1>11 DEF Release, PendingExact, Returning, Answered
<1> HIDE DEF IInv
<1> QED
  BY <1>1, <1>2, <1>3, <1>4, <1>5, <1>6, <1>7, <1>8, <1>9, <1>10, <1>11 DEF WorkerStep

(* Every step keeps the inductive invariant. *)
LEMMA NextKeepsIInv ==
  ASSUME IInv, [Next]_vars
  PROVE  IInv'
<1>1. CASE UNCHANGED vars
  BY <1>1 DEF vars, request, history, IInv, Types, PendingExact, Returning, Answered, EndOnce, Cancelled
<1> QED
  BY <1>1, ReaderKeepsIInv, StopKeepsIInv, WorkerKeepsIInv DEF Next, Returned

(* The inductive invariant holds throughout. *)
LEMMA IInvInvariant == Spec => []IInv
<1>1. IInv /\ [Next]_vars => IInv'
  BY NextKeepsIInv
<1> QED BY <1>1, InitIInv, PTL DEF Spec

(* For every instance, pending holds exactly the calls in flight, each     *)
(* under its own id (lines 384-408, 412-415, 429-445): a cancellation      *)
(* notification can only reach the call that it names.                     *)
THEOREM CancellationExact == Spec => []PendingExact
<1>1. IInv => PendingExact
  BY DEF IInv
<1> QED BY <1>1, IInvInvariant, PTL

(* For every instance, a request is answered at most once, and exactly     *)
(* once when it finishes on a live connection and its own cancellation did *)
(* not end it; a call that was ended by cancellation is never answered.    *)
THEOREM ReplyExactlyOnce == Spec => []AnsweredOnce
<1>1. IInv => AnsweredOnce
  BY DEF IInv, Types, Answered, AnsweredOnce, Cancelled
<1> QED BY <1>1, IInvInvariant, PTL

(* For every instance, no reply and no Initialized comes after End, End is *)
(* called once and before the return, and Initialized follows its reply.   *)
THEOREM LifetimeRespected == Spec => LifetimeOrder
<1>1. IInv /\ [Next]_vars => [LifetimeStep]_vars
  <2> SUFFICES ASSUME IInv, Next PROVE LifetimeStep
    BY DEF vars
  <2> USE McpAssumption DEF IInv, Types, Answered, EndOnce, LifetimeStep, Cancelled, OutputClosed, Goto, history, Phases
  <2>1. CASE ReaderStep
    BY <2>1 DEF ReaderStep, ReaderRefuse, ReaderReserve, ReaderDispatch, ReaderAbort, ReaderLeave, ReaderJoin
  <2>2. CASE StopStep
    BY <2>2 DEF StopStep, StopCancel, StopClose, StopEnd
  <2>3. ASSUME NEW q \in Requests, WorkerStep(q) PROVE LifetimeStep
    <3>1. CASE WriteSucceeds(q)
      BY <3>1 DEF WriteSucceeds
    <3>2. CASE Initialized(q)
      BY <3>2 DEF Initialized
    <3>3. CASE StopReturns(q)
      BY <3>3 DEF StopReturns
    <3> QED
      BY <2>3, <3>1, <3>2, <3>3
         DEF WorkerStep, CallReturn, ReportReturn, CallUnregister, CallUnhandled, Charge,
             WriteBegin, WriteFails, Release
  <2> QED BY <2>1, <2>2, <2>3 DEF Next, Returned, vars
<1> QED BY <1>1, IInvInvariant, PTL DEF Spec, LifetimeOrder

-----------------------------------------------------------------------------
(* The budgets *)

Books ==
  /\ work \in [Requests -> Nat]
  /\ workCount = Cardinality(Working) /\ retained = SumFunctionOnSet(work, Working)
  /\ workCount <= MaxResponseWork /\ retained <= MaxRetainedBytes
  /\ writer \in Requests \cup {NoRequest}
  /\ \A q \in Requests : phase[q] = "writing" <=> writer = q
  /\ reader = "returned" => Working = {}

(* The live workers are finitely many and the budgets natural numbers. *)
LEMMA BooksFinite ==
  ASSUME Books
  PROVE  /\ IsFiniteSet(Working) /\ \A q \in Working : work[q] \in Nat
         /\ workCount \in Nat /\ retained \in Nat
<1>1. IsFiniteSet(Working) /\ \A q \in Working : work[q] \in Nat
  BY McpAssumption, FS_Subset DEF Books, Working
<1> QED BY <1>1, FS_CardinalityType, SumType DEF Books

(* A new connection has no worker. *)
LEMMA InitBooks == Init => Books
<1> SUFFICES ASSUME Init PROVE Books
  OBVIOUS
<1>1. Working = {}
  BY DEF Init, Working
<1>2. workCount = Cardinality(Working) /\ retained = SumFunctionOnSet(work, Working)
  BY <1>1, FS_EmptySet, SumEmpty DEF Init
<1> QED BY <1>1, <1>2, McpAssumption DEF Init, Books

(* A step that charges nothing and ends no worker leaves the budgets exact. *)
LEMMA BooksSame ==
  ASSUME Books, Working' = Working, UNCHANGED <<workCount, retained, work>>
  PROVE  /\ work' \in [Requests -> Nat]
         /\ workCount' = Cardinality(Working') /\ retained' = SumFunctionOnSet(work', Working')
         /\ workCount' <= MaxResponseWork /\ retained' <= MaxRetainedBytes
BY DEF Books

(* The reader keeps the books: a frame is charged with its admission. *)
LEMMA ReaderKeepsBooks ==
  ASSUME IInv, Books, ReaderStep
  PROVE  Books'
<1> USE McpAssumption
<1>1. ASSUME NEW size \in LineSizes, ReaderRefuse(size) PROVE Books'
  BY <1>1, BooksSame DEF ReaderRefuse, budget, Books, Working
<1>2. ASSUME NEW q \in Requests, NEW what \in Kinds, NEW id \in Keys, NEW size \in LineSizes,
             ReaderReserve(q, what, id, size)
      PROVE  Books'
  <2> USE <1>2 DEF ReaderReserve, Goto, IInv, Types, Phases
  <2>1. q \notin Working /\ Working' = Working \cup {q}
    BY DEF Working
  <2>2. workCount' = Cardinality(Working') /\ workCount' <= MaxResponseWork
    <3>1. Cardinality(Working') = Cardinality(Working) + 1
      BY <2>1, BooksFinite, FS_AddElement
    <3> QED BY <3>1, BooksFinite DEF Books, OverBudget
  <2>3. work' \in [Requests -> Nat] /\ work'[q] = size /\ size \in Nat
    BY DEF Books
  <2>4. retained' = SumFunctionOnSet(work', Working') /\ retained' <= MaxRetainedBytes
    <3>1. \A y \in Working : work[y] \in Nat /\ work'[y] = work[y]
      BY <2>1, BooksFinite DEF Books, Working
    <3>2. SumFunctionOnSet(work', Working) = SumFunctionOnSet(work, Working)
      <4> HIDE <1>2 DEF ReaderReserve, Goto, IInv, Types, Phases
      <4> QED BY <3>1, BooksFinite, SumSame
    <3>3. SumFunctionOnSet(work', Working \cup {q}) = SumFunctionOnSet(work', Working) + work'[q]
      BY <2>1, <2>3, <3>1, BooksFinite, SumAdd
    <3> QED BY <2>1, <2>3, <3>2, <3>3, BooksFinite DEF Books, OverBudget
  <2> QED BY <2>2, <2>3, <2>4 DEF Books, Working
<1>3. ASSUME NEW q \in Requests, ReaderDispatch(q) PROVE Books'
  <2>1. Working' = Working
    BY <1>3 DEF ReaderDispatch, Goto, Working, IInv, Types
  <2> QED BY <1>3, <2>1, BooksSame DEF ReaderDispatch, Goto, budget, Books, IInv, Types
<1>4. ASSUME NEW k \in Keys, ReaderAbort(k) PROVE Books'
  BY <1>4, BooksSame DEF ReaderAbort, budget, Books, Working
<1>5. CASE ReaderLeave
  BY <1>5, BooksSame DEF ReaderLeave, budget, Books, Working
<1>6. CASE ReaderJoin
  BY <1>6, BooksSame DEF ReaderJoin, budget, Books, Working
<1> QED BY <1>1, <1>2, <1>3, <1>4, <1>5, <1>6 DEF ReaderStep

(* A worker that neither charges nor releases keeps the books. *)
LEMMA WorkerQuietBooks ==
  ASSUME IInv, Books, NEW q \in Requests, NEW p \in Phases \ {"unread", "done"},
         phase[q] \notin {"unread", "done"}, Goto(q, p),
         UNCHANGED <<reader, workCount, retained, work>>,
         \/ UNCHANGED writer /\ p # "writing" /\ phase[q] # "writing"
         \/ writer = NoRequest /\ writer' = q /\ p = "writing"
         \/ phase[q] = "writing" /\ writer' = NoRequest /\ p # "writing"
  PROVE  Books'
<1> USE McpAssumption DEF IInv, Types, Goto
<1>1. Working' = Working /\ Working # {}
  BY DEF Working
<1>2. /\ writer' \in Requests \cup {NoRequest}
      /\ \A r \in Requests : phase'[r] = "writing" <=> writer' = r
  BY DEF Books
<1> QED BY <1>1, <1>2, BooksSame DEF Books

(* A release gives back what the worker holds. *)
LEMMA ReleaseKeepsBooks ==
  ASSUME IInv, Books, NEW q \in Requests, Release(q)
  PROVE  Books'
<1> DEFINE W == Working \ {q}
<1>1. q \in Working /\ Working' = W /\ Working = W \cup {q} /\ q \notin W
  BY DEF IInv, Types, Release, Goto, Working
<1>2. /\ work \in [Requests -> Nat] /\ work' \in [Requests -> Nat]
      /\ \A y \in W : work[y] \in Nat /\ work'[y] = work[y]
  BY DEF Books, Release, Working
<1>3. IsFiniteSet(W) /\ Cardinality(W) = Cardinality(Working) - 1
  BY <1>1, BooksFinite, FS_RemoveElement
<1> HIDE DEF W
<1>4. SumFunctionOnSet(work', W) = SumFunctionOnSet(work, W) /\ SumFunctionOnSet(work, W) \in Nat
  BY <1>2, <1>3, SumSame, SumType
<1>5. SumFunctionOnSet(work, Working) = SumFunctionOnSet(work, W) + work[q]
  BY <1>1, <1>2, <1>3, SumAdd
<1>6. retained' = SumFunctionOnSet(work', W) /\ retained' <= MaxRetainedBytes
  BY <1>2, <1>4, <1>5, BooksFinite, McpAssumption DEF Books, Release
<1>7. workCount' = Cardinality(W) /\ workCount' <= MaxResponseWork
  BY <1>3, BooksFinite, McpAssumption DEF Books, Release
<1>8. (\A r \in Requests : phase'[r] = "writing" <=> writer' = r) /\ reader' # "returned"
  BY <1>1 DEF IInv, Types, Books, Release, Goto
<1>9. writer' \in Requests \cup {NoRequest}
  BY DEF Books, Release
<1> QED BY <1>1, <1>2, <1>6, <1>7, <1>8, <1>9 DEF Books

(* A worker keeps the books: what a charge adds is recorded with the       *)
(* worker, and its release gives back exactly that.                        *)
LEMMA WorkerKeepsBooks ==
  ASSUME IInv, Books, NEW q \in Requests, WorkerStep(q)
  PROVE  Books'
<1> USE McpAssumption DEF IInv, Types, Phases, budget, Books
<1>1. ASSUME NEW what \in Results \ {"none"}, CallReturn(q, what) PROVE Books'
  BY <1>1, WorkerQuietBooks DEF CallReturn
<1>2. ASSUME NEW what \in Results \ {"none"}, ReportReturn(q, what) PROVE Books'
  BY <1>2, WorkerQuietBooks DEF ReportReturn
<1>3. CASE CallUnregister(q)
  BY <1>3, WorkerQuietBooks DEF CallUnregister
<1>4. CASE CallUnhandled(q)
  BY <1>4, WorkerQuietBooks DEF CallUnhandled
<1>5. ASSUME NEW size \in ReplySizes, Charge(q, size) PROVE Books'
  <2>1. CASE UNCHANGED <<retained, work>>
    BY <1>5, <2>1, WorkerQuietBooks DEF Charge
  <2>2. CASE /\ ReplyCharge(q, size) <= MaxRetainedBytes - retained
             /\ retained' = retained + ReplyCharge(q, size)
             /\ work' = [work EXCEPT ![q] = @ + ReplyCharge(q, size)]
             /\ Goto(q, "ready")
    <3> DEFINE c == ReplyCharge(q, size)
               R == Working \ {q}
    <3>1. c \in Nat
      BY DEF ReplyCharge
    <3>2. Working' = Working /\ Working = R \cup {q} /\ q \notin R /\ q \in Working
      BY <1>5, <2>2 DEF Charge, Goto, Working
    <3> HIDE DEF c
    <3>3. work' \in [Requests -> Nat] /\ work'[q] = work[q] + c /\ work[q] \in Nat
      BY <2>2, <3>1 DEF c
    <3>4. IsFiniteSet(R) /\ \A y \in R : work[y] \in Nat /\ work'[y] = work[y]
      <4>1. IsFiniteSet(R)
        BY BooksFinite, FS_RemoveElement
      <4> QED BY <4>1, <2>2 DEF Working
    <3> HIDE DEF R
    <3>5. SumFunctionOnSet(work', R) = SumFunctionOnSet(work, R) /\ SumFunctionOnSet(work, R) \in Nat
      BY <3>4, SumSame, SumType
    <3>6. SumFunctionOnSet(work, Working) = SumFunctionOnSet(work, R) + work[q]
      BY <3>2, <3>3, <3>4, SumAdd
    <3>7. SumFunctionOnSet(work', Working) = SumFunctionOnSet(work', R) + work'[q]
      <4>1. \A y \in R : work'[y] \in Nat
        BY <3>4
      <4> QED BY <4>1, <3>2, <3>3, <3>4, SumAdd
    <3>8. retained' = SumFunctionOnSet(work', Working') /\ retained' <= MaxRetainedBytes
      BY <2>2, <3>1, <3>2, <3>3, <3>5, <3>6, <3>7, BooksFinite DEF c
    <3>9. workCount' = Cardinality(Working') /\ workCount' <= MaxResponseWork
      BY <1>5, <3>2 DEF Charge
    <3> QED BY <1>5, <2>2, <3>2, <3>3, <3>8, <3>9 DEF Charge, Goto
  <2> QED BY <1>5, <2>1, <2>2 DEF Charge
<1>6. CASE WriteBegin(q)
  BY <1>6, WorkerQuietBooks DEF WriteBegin
<1>7. CASE WriteSucceeds(q)
  BY <1>7, WorkerQuietBooks DEF WriteSucceeds
<1>8. CASE WriteFails(q)
  BY <1>8, WorkerQuietBooks DEF WriteFails
<1>9. CASE StopReturns(q)
  BY <1>9, WorkerQuietBooks DEF StopReturns
<1>10. CASE Initialized(q)
  BY <1>10, WorkerQuietBooks DEF Initialized
<1>11. CASE Release(q)
  BY <1>11, ReleaseKeepsBooks
<1> HIDE DEF Books
<1> QED
  BY <1>1, <1>2, <1>3, <1>4, <1>5, <1>6, <1>7, <1>8, <1>9, <1>10, <1>11 DEF WorkerStep

(* The budgets are exact throughout. *)
LEMMA BooksInvariant == Spec => [](IInv /\ Books)
<1>1. ASSUME IInv, Books, [Next]_vars PROVE Books'
  <2>1. CASE StopStep
    <3>1. Working' = Working /\ UNCHANGED <<workCount, retained, work, phase, writer, reader>>
      BY <2>1 DEF StopStep, StopCancel, StopClose, StopEnd, budget, Working
    <3> QED BY <1>1, <3>1, BooksSame DEF Books
  <2>2. CASE UNCHANGED vars
    <3>1. Working' = Working /\ UNCHANGED <<workCount, retained, work, phase, writer, reader>>
      BY <2>2 DEF vars, budget, Working
    <3> QED BY <1>1, <3>1, BooksSame DEF Books
  <2> QED BY <1>1, <2>1, <2>2, ReaderKeepsBooks, WorkerKeepsBooks DEF Next, Returned
<1>2. IInv /\ Books /\ [Next]_vars => Books'
  BY <1>1
<1> QED BY <1>2, InitBooks, IInvInvariant, PTL DEF Spec

(* For every instance, both budgets stay within their limits and are       *)
(* exactly what the live workers hold (lines 166-172, 183-189, 194-199):   *)
(* whatever refuses, cancels, fails or stops, no reservation is lost or    *)
(* returned twice.                                                         *)
THEOREM BudgetsExact == Spec => []BudgetExact
<1>1. IInv /\ Books => BudgetExact
  <2> SUFFICES ASSUME IInv, Books PROVE BudgetExact
    OBVIOUS
  <2>1. workCount \in 0..MaxResponseWork /\ retained \in 0..MaxRetainedBytes
    BY BooksFinite, McpAssumption DEF Books
  <2>2. TypeOK
    BY <2>1 DEF IInv, Types, Books, TypeOK
  <2> QED BY <2>2 DEF Books, BudgetExact
<1> QED BY <1>1, BooksInvariant, PTL

(* For every instance, when serveSessionbus returns its workers are gone,  *)
(* its budgets empty, no call is registered, nobody holds the output and   *)
(* End was called (lines 460-461).                                         *)
THEOREM ReturnLeavesNothing == Spec => []ReturnedClean
<1>1. IInv /\ Books => ReturnedClean
  <2> SUFFICES ASSUME IInv, Books, reader = "returned"
               PROVE  /\ Working = {} /\ workCount = 0 /\ retained = 0
                      /\ \A k \in Keys : pending[k] = NoRequest
                      /\ writer = NoRequest /\ ends = 1
    BY DEF ReturnedClean
  <2>1. Working = {} /\ workCount = 0 /\ retained = 0
    BY FS_EmptySet, SumEmpty DEF Books
  <2>2. \A q \in Requests : phase[q] \in {"unread", "done"}
    BY <2>1 DEF Working
  <2>3. \A k \in Keys : pending[k] = NoRequest
    BY <2>2 DEF IInv, Types, PendingExact
  <2> QED BY <2>1, <2>2, <2>3 DEF IInv, EndOnce, Books
<1> QED BY <1>1, BooksInvariant, PTL

-----------------------------------------------------------------------------
(* The request ids *)

(* The recursive function of the powers exists. *)
LEMMA Powers ==
  /\ TwoTo \in [0..(MantissaBits + 2) -> Nat \ {0}] /\ TwoTo[0] = 1
  /\ \A k \in 1..(MantissaBits + 2) : TwoTo[k] = 2 * TwoTo[k - 1]
<1> DEFINE n == MantissaBits + 2
           Table(f) == f = [k \in 0..n |-> IF k = 0 THEN 1 ELSE 2 * f[k - 1]]
           step == [x \in (1..n) \X Nat |-> 2 * x[2]]
<1>1. n \in Nat
  BY FramesAssumption
<1> HIDE DEF n
<1>2. step \in [(1..n) \X Nat -> Nat]
  OBVIOUS
<1>3. PICK f \in [0..n -> Nat] : Computes(f, 1, step, n)
  <2> HIDE DEF step
  <2> QED BY <1>1, <1>2, RecursionExists
<1>4. Table(f)
  <2>1. f[0] = 1
    BY <1>3 DEF Computes
  <2>2. ASSUME NEW k \in 1..n PROVE f[k] = 2 * f[k - 1]
    <3>1. f[k] = step[<<k, f[k - 1]>>]
      BY <1>3 DEF Computes
    <3>2. <<k, f[k - 1]>> \in (1..n) \X Nat
      BY <1>1
    <3> QED BY <3>1, <3>2
  <2>3. \A k \in 0..n : f[k] = IF k = 0 THEN 1 ELSE 2 * f[k - 1]
    BY <1>1, <2>1, <2>2
  <2> QED BY <2>3
<1>5. TwoTo = CHOOSE g : Table(g)
  BY DEF TwoTo, n
<1>6. Table(TwoTo)
  BY <1>4, <1>5
<1>7. /\ TwoTo[0] = 1 /\ \A k \in 1..n : TwoTo[k] = 2 * TwoTo[k - 1]
      /\ DOMAIN TwoTo = 0..n /\ TwoTo = [k \in 0..n |-> TwoTo[k]]
  <2>1. \A k \in 0..n : TwoTo[k] = IF k = 0 THEN 1 ELSE 2 * TwoTo[k - 1]
    BY <1>6
  <2>2. \A k \in 1..n : k \in 0..n /\ k # 0
    BY <1>1
  <2>3. 0 \in 0..n
    BY <1>1
  <2>4. DOMAIN TwoTo = 0..n /\ TwoTo = [k \in 0..n |-> TwoTo[k]]
    BY <1>6
  <2> QED BY <2>1, <2>2, <2>3, <2>4
<1>8. \A k \in 0..n : TwoTo[k] \in Nat \ {0}
  <2> DEFINE T == {k \in 0..n : TwoTo[k] \notin Nat \ {0}}
  <2> SUFFICES ASSUME T # {} PROVE FALSE
    OBVIOUS
  <2>1. T \in SUBSET Nat
    BY <1>1
  <2>2. PICK m \in T : \A k \in T : m <= k
    <3> HIDE DEF T
    <3> QED BY <2>1, LeastNumber
  <2>3. m # 0
    BY <1>7
  <2>4. m \in 1..n /\ m - 1 \in 0..n /\ ~(m <= m - 1)
    BY <1>1, <2>3
  <2>5. TwoTo[m - 1] \in Nat \ {0}
    BY <2>2, <2>4
  <2>6. TwoTo[m] = 2 * TwoTo[m - 1]
    BY <1>7, <2>4
  <2> QED BY <2>5, <2>6
<1> QED BY <1>7, <1>8 DEF n

(* A double that is exact keeps its value, and one that is too large to be    *)
(* exact stays too large.                                                     *)
LEMMA Rounding ==
  ASSUME NEW d \in 0..(4 * TwoTo[MantissaBits] + 4), d % 2 = 0
  PROVE  /\ TwoTo[MantissaBits] \in Nat \ {0}
         /\ d < 2 * TwoTo[MantissaBits] => ToFloat(d) = d
         /\ d >= 2 * TwoTo[MantissaBits] => ToFloat(d) \in Nat /\ ToFloat(d) >= 2 * TwoTo[MantissaBits]
<1> DEFINE M == MantissaBits
           P == TwoTo[M]
           Q == TwoTo[M - 1]
           U == Range(TwoTo)
           S == {u \in U : d < u * P}
           unit == Min(S)
           low == d \div unit
           twice == 2 * (d % unit)
           x == unit * IF twice > unit \/ (twice = unit /\ low % 2 = 1) THEN low + 1 ELSE low
<1>1. M \in Nat \ {0}
  BY FramesAssumption
<1>2. /\ \A k \in 0..(M + 2) : TwoTo[k] \in Nat \ {0}
      /\ \A k \in 1..(M + 2) : TwoTo[k] = 2 * TwoTo[k - 1]
      /\ TwoTo[0] = 1 /\ U = {TwoTo[k] : k \in 0..(M + 2)}
  BY Powers DEF Range
<1>3. P \in Nat \ {0} /\ Q \in Nat \ {0} /\ P = 2 * Q
  <2>1. M - 1 \in 0..(M + 2) /\ M \in 0..(M + 2) /\ M \in 1..(M + 2)
    BY <1>1
  <2> HIDE DEF M
  <2> QED BY <1>2, <2>1
<1>4. 1 \in U /\ 2 \in U /\ 4 * P \in U
  <2>1. 0 \in 0..(M + 2) /\ 1 \in 0..(M + 2) /\ 1 \in 1..(M + 2) /\ M + 1 \in 1..(M + 2) /\ M + 2 \in 1..(M + 2)
        /\ M + 2 \in 0..(M + 2) /\ (M + 1) - 1 = M /\ (M + 2) - 1 = M + 1 /\ 1 - 1 = 0
    BY <1>1
  <2> HIDE DEF M
  <2>2. TwoTo[1] = 2
    BY <1>2, <2>1
  <2>3. TwoTo[M + 1] = 2 * TwoTo[M] /\ TwoTo[M + 2] = 2 * TwoTo[M + 1]
    BY <1>2, <2>1
  <2>4. TwoTo[M + 2] = 4 * P
    BY <1>3, <2>3
  <2> QED BY <1>2, <2>1, <2>2, <2>4
<1>5. ToFloat(d) = x
  BY DEF ToFloat
<1> HIDE DEF U, M
<1>6. d \in Nat /\ d <= 4 * P + 4
  BY <1>3 DEF M
<1>7. U \in SUBSET (Nat \ {0})
  BY <1>2
<1> HIDE DEF P, Q
<1>8. S \in SUBSET Nat /\ 4 * P \in S
  <2>1. P >= 2
    BY <1>3
  <2>2. P * P >= 2 * P
    BY <1>3, <2>1
  <2>3. (4 * P) * P = 4 * (P * P)
    BY <1>3
  <2>4. 4 * (P * P) >= 8 * P
    BY <1>3, <2>2
  <2>5. d < (4 * P) * P
    BY <1>3, <1>6, <2>1, <2>3, <2>4
  <2> QED BY <1>4, <1>7, <2>5
<1>9. unit \in S /\ \A y \in S : unit <= y
  <2> HIDE DEF S
  <2> QED BY <1>8, LeastNumber DEF Min
<1>10. unit \in U /\ unit \in Nat \ {0} /\ d < unit * P
  BY <1>7, <1>9
<1> HIDE DEF unit, S
<1>11. low \in Nat /\ d % unit \in 0..(unit - 1) /\ d = unit * low + (d % unit)
  BY <1>6, <1>10
<1>12. CASE d < P
  <2>1. 1 \in S
    BY <1>3, <1>4, <1>12 DEF S
  <2>2. unit = 1
    BY <1>9, <1>10, <2>1
  <2>3. d % unit = 0 /\ low = d
    BY <1>6, <1>11, <2>2
  <2>4. x = d
    BY <1>6, <2>2, <2>3
  <2> QED BY <1>3, <1>5, <1>6, <1>12, <2>4 DEF P, M
<1>13. CASE P <= d /\ d < 2 * P
  <2>1. 2 \in S /\ unit # 1
    BY <1>3, <1>4, <1>6, <1>10, <1>13 DEF S
  <2>2. unit = 2
    BY <1>9, <1>10, <2>1
  <2>3. d % unit = 0 /\ unit * low = d
    BY <1>6, <1>11, <2>2
  <2>4. x = d
    BY <1>6, <2>2, <2>3
  <2> QED BY <1>3, <1>5, <1>13, <2>4 DEF P, M
<1>14. CASE d >= 2 * P
  <2>1. PICK k \in 0..(M + 2) : unit = TwoTo[k]
    BY <1>2, <1>10
  <2>2. k # 0 /\ k # 1
    <3>1. unit # 1 /\ unit # 2
      BY <1>3, <1>6, <1>10, <1>14
    <3>2. TwoTo[1] = 2
      <4>1. 1 \in 1..(M + 2)
        BY <1>1 DEF M
      <4> QED BY <1>2, <4>1
    <3> QED BY <1>2, <2>1, <3>1, <3>2
  <2> DEFINE h == TwoTo[k - 1]
  <2>3. k \in 1..(M + 2) /\ k - 1 \in 1..(M + 2) /\ (k - 1) - 1 \in 0..(M + 2) /\ k - 1 \in 0..(M + 2)
    BY <1>1, <2>2 DEF M
  <2>4. h \in U /\ h \in Nat /\ h >= 2 /\ unit = 2 * h
    BY <1>2, <2>1, <2>3
  <2> HIDE DEF h
  <2>5. h \notin S
    BY <1>9, <2>4
  <2>6. d >= h * P
    BY <1>3, <1>6, <2>4, <2>5 DEF S
  <2>7. h * P = unit * Q
    BY <1>3, <2>4
  <2>8. low >= Q
    BY <1>3, <1>6, <1>10, <2>6, <2>7
  <2>9. unit * low >= unit * Q /\ unit * (low + 1) >= unit * Q
    BY <1>3, <1>10, <1>11, <2>8
  <2>10. h * P >= 2 * P
    BY <1>3, <2>4
  <2>11. x \in Nat /\ x >= unit * Q
    BY <1>3, <1>10, <1>11, <2>9
  <2> HIDE DEF x
  <2>12. x >= 2 * P
    BY <1>3, <1>10, <2>4, <2>7, <2>10, <2>11
  <2> QED BY <1>3, <1>5, <1>14, <2>11, <2>12 DEF P, M
<1>15. P \in Int /\ d \in Int
  BY <1>3, <1>6
<1> QED BY <1>12, <1>13, <1>14, <1>15

(* The key of an integer within the limit is this integer with its sign, and  *)
(* no integer above it has a key.                                             *)
LEMMA IntegerKey ==
  ASSUME NEW id \in Numbers, id.double % 2 = 0
  PROVE  /\ id.double \div 2 < TwoTo[MantissaBits] => requestID(id) = <<"number", id.negative, id.double \div 2>>
         /\ ~(id.double \div 2 < TwoTo[MantissaBits]) => requestID(id) = NoID
<1> DEFINE d == id.double
           P == TwoTo[MantissaBits]
           x == ToFloat(d)
<1>1. d \in 0..(4 * P + 4) /\ id.type = "number"
  BY DEF Numbers
<1>2. /\ P \in Nat \ {0}
      /\ d < 2 * P => x = d
      /\ d >= 2 * P => x \in Nat /\ x >= 2 * P
  BY <1>1, Rounding
<1>3. requestID(id) = IF x % 2 = 0 /\ x \div 2 <= P - 1 THEN <<"number", id.negative, x \div 2>> ELSE NoID
  BY <1>1 DEF requestID, MaxSafe
<1> HIDE DEF x, P
<1>4. d % 2 = 0 /\ d \in Nat
  BY <1>1, <1>2
<1> HIDE DEF d
<1>5. d \div 2 < P <=> d < 2 * P
  BY <1>2, <1>4
<1>6. CASE d < 2 * P
  <2>1. x = d /\ x % 2 = 0 /\ x \div 2 <= P - 1
    BY <1>2, <1>4, <1>6
  <2> QED BY <1>3, <1>5, <1>6, <2>1 DEF d, P
<1>7. CASE ~(d < 2 * P)
  <2>1. x \in Nat /\ x >= 2 * P
    BY <1>2, <1>4, <1>7
  <2>2. ~(x \div 2 <= P - 1)
    BY <1>2, <2>1
  <2> QED BY <1>3, <1>5, <1>7, <2>2 DEF d, P
<1> QED BY <1>6, <1>7

(* Ids of a client that differ have distinct keys, up to what decoding does to strings. *)
LEMMA KeysFromIDs == ids = <<>> \/ ids \in IDs \X IDs => KeysDistinct
<1> DEFINE Integral(id) == id.type = "number" => id.double % 2 = 0
           Same(a, b) == a = b \/ (/\ a.type = "string" /\ b.type = "string"
                                   /\ Decoded[a.text] = Decoded[b.text])
<1> SUFFICES ASSUME ids \in IDs \X IDs, Integral(ids[1]), Integral(ids[2])
             PROVE  /\ requestID(ids[1]) = requestID(ids[2]) /\ requestID(ids[1]) # NoID => Same(ids[1], ids[2])
                    /\ ids[1].type = "number" /\ ids[1].double \div 2 < TwoTo[MantissaBits] =>
                         requestID(ids[1]) # NoID
  BY DEF KeysDistinct
<1>1. ids[1] \in IDs /\ ids[2] \in IDs
  OBVIOUS
<1>2. ASSUME NEW id \in IDs, id.type # "string", Integral(id)
      PROVE  /\ id.type = "number" /\ id \in Numbers /\ id = [type |-> "number", negative |-> id.negative, double |-> id.double]
             /\ id.double \in Nat /\ id.double = 2 * (id.double \div 2)
             /\ id.double \div 2 < TwoTo[MantissaBits] => requestID(id) = <<"number", id.negative, id.double \div 2>>
             /\ ~(id.double \div 2 < TwoTo[MantissaBits]) => requestID(id) = NoID
  <2>1. id.type = "number" /\ id \in Numbers /\ id = [type |-> "number", negative |-> id.negative, double |-> id.double]
    BY <1>2 DEF IDs, Numbers
  <2>2. id.double \in 0..(4 * TwoTo[MantissaBits] + 4) /\ id.double % 2 = 0
    BY <1>2, <2>1 DEF Numbers
  <2>3. id.double \in Nat /\ id.double = 2 * (id.double \div 2)
    <3> DEFINE d == id.double
               b == 4 * TwoTo[MantissaBits] + 4
    <3>1. d \in 0..b /\ d % 2 = 0
      BY <2>2
    <3> HIDE DEF d, b
    <3>2. d \in Nat /\ d = 2 * (d \div 2)
      BY <3>1
    <3> QED BY <3>2 DEF d
  <2> QED BY <2>1, <2>2, <2>3, IntegerKey
<1>3. ASSUME NEW id \in IDs, id.type = "string"
      PROVE  requestID(id) = <<"string", Decoded[id.text]>>
  BY <1>3 DEF requestID
<1>4. \A a, b, c, d : /\ <<"string", a>> # <<"number", b, c>>
                      /\ <<"string", a>> # NoID
                      /\ <<"number", b, c>> # NoID
                      /\ <<"string", a>> = <<"string", b>> => a = b
                      /\ <<"number", a, b>> = <<"number", c, d>> => a = c /\ b = d
  BY DEF NoID
<1>5. CASE ids[1].type = "string" /\ ids[2].type = "string"
  BY <1>1, <1>3, <1>4, <1>5
<1>6. CASE ids[1].type = "string" /\ ids[2].type # "string"
  BY <1>1, <1>2, <1>3, <1>4, <1>6
<1>7. CASE ids[1].type # "string" /\ ids[2].type = "string"
  BY <1>1, <1>2, <1>3, <1>4, <1>7
<1>8. CASE ids[1].type # "string" /\ ids[2].type # "string"
  <2> DEFINE a == ids[1]
             b == ids[2]
  <2>1. /\ a = [type |-> "number", negative |-> a.negative, double |-> a.double]
        /\ b = [type |-> "number", negative |-> b.negative, double |-> b.double]
        /\ a.double = 2 * (a.double \div 2) /\ b.double = 2 * (b.double \div 2)
    BY <1>1, <1>2, <1>8
  <2>2. a.double \div 2 < TwoTo[MantissaBits] => requestID(a) = <<"number", a.negative, a.double \div 2>>
    BY <1>1, <1>2, <1>8
  <2>3. ~(a.double \div 2 < TwoTo[MantissaBits]) => requestID(a) = NoID
    BY <1>1, <1>2, <1>8
  <2>4. requestID(b) = <<"number", b.negative, b.double \div 2>> \/ requestID(b) = NoID
    BY <1>1, <1>2, <1>8
  <2>5. ASSUME requestID(a) = requestID(b), requestID(a) # NoID PROVE a = b
    <3>1. a.double \div 2 = b.double \div 2 /\ a.negative = b.negative
      BY <1>4, <2>2, <2>3, <2>4, <2>5
    <3>2. a.double = b.double
      BY <2>1, <3>1
    <3> QED BY <2>1, <3>1, <3>2
  <2>6. a.double \div 2 < TwoTo[MantissaBits] => requestID(a) # NoID
    BY <1>4, <2>2
  <2> QED BY <2>5, <2>6
<1> QED BY <1>5, <1>6, <1>7, <1>8

(* For every width of the mantissa and every decoding of strings, two ids of  *)
(* a client share a key only if they are strings with the same decoded text.  *)
THEOREM IDsToldApart == FramesSpec => []KeysDistinct
<1> DEFINE Inv == ids = <<>> \/ ids \in IDs \X IDs
<1>1. FramesInit => Inv
  BY DEF FramesInit
<1>2. Inv /\ [ReadFrame]_framesVars => Inv'
  BY DEF ReadFrame, framesVars
<1>3. Inv => KeysDistinct
  BY KeysFromIDs
<1> QED BY <1>1, <1>2, <1>3, PTL DEF FramesSpec

-----------------------------------------------------------------------------
(* The frame reader *)

Bytes == {"x", "\n"}

\* The newlines behind the first n bytes, and the end of the line that goes on there
Later(input, n) == {i \in Newlines(input) : i > n}
LineEnd(input, n) == IF Later(input, n) = {} THEN Len(input) ELSE Min(Later(input, n))

\* What the loop returns when the frame has n bytes, said without the buffer
Outcome(input, n) ==
  IF n = MaxInputFrame THEN AtLimit(input)
  ELSE IF n < MaxInputFrame /\ LineEnd(input, n) <= MaxInputFrame
  THEN [frame |-> SubSeq(input, 1, LineEnd(input, n)), err |-> IF Later(input, n) = {} THEN "EOF" ELSE "none"]
  ELSE TooLarge

\* One turn of the loop, its continuation in f
Slice(input, n) == ReadSlice(SubSeq(input, n + 1, Len(input)))
SliceEnd(input, n) == n + Len(Slice(input, n).part)
Turn(input, n, f) ==
  IF n = MaxInputFrame THEN AtLimit(input)
  ELSE IF SliceEnd(input, n) > MaxInputFrame THEN TooLarge
  ELSE IF Slice(input, n).err = "full" THEN f[SliceEnd(input, n)]
  ELSE [frame |-> SubSeq(input, 1, SliceEnd(input, n)), err |-> Slice(input, n).err]
IsLoop(input, f) == f = [n \in 0..Len(input) |-> Turn(input, n, f)]

(* A slice ends at the end of its line, or behind a full buffer inside of it, *)
(* or at the end of the input.                                                *)
LEMMA SliceFacts ==
  ASSUME NEW input \in Seq(Bytes), NEW n \in 0..Len(input)
  PROVE  \/ /\ Slice(input, n).err = "none" /\ Later(input, n) # {}
            /\ SliceEnd(input, n) = LineEnd(input, n)
         \/ /\ Slice(input, n).err = "full" /\ SliceEnd(input, n) = n + BufferSize
            /\ SliceEnd(input, n) <= Len(input) /\ \A i \in Later(input, n) : i > SliceEnd(input, n)
         \/ /\ Slice(input, n).err = "EOF" /\ Later(input, n) = {}
            /\ SliceEnd(input, n) = Len(input)
<1> DEFINE l == Len(input)
           u == SubSeq(input, n + 1, l)
           found == {i \in Newlines(u) : i <= BufferSize}
<1>1. l \in Nat /\ n \in Nat /\ n <= l /\ BufferSize \in Nat \ {0} /\ l = Len(input) /\ DOMAIN input = 1..l
  BY LenProperties, FramesAssumption
<1>2. u \in Seq(Bytes) /\ Len(u) = l - n /\ (\A i \in 1..(l - n) : u[i] = input[n + i]) /\ DOMAIN u = 1..(l - n)
  BY SuffixItems, LenProperties
<1>3. Slice(input, n)
        = CASE found # {} -> [part |-> SubSeq(u, 1, Min(found)), err |-> "none"]
            [] found = {} /\ Len(u) >= BufferSize -> [part |-> SubSeq(u, 1, BufferSize), err |-> "full"]
            [] OTHER -> [part |-> u, err |-> "EOF"]
  BY DEF Slice, ReadSlice
<1>4. SliceEnd(input, n) = n + Len(Slice(input, n).part)
  BY DEF SliceEnd
<1> HIDE DEF u, l
<1>5. Newlines(u) = {i \in 1..(l - n) : input[n + i] = "\n"}
  BY <1>2 DEF Newlines
<1>6. Later(input, n) = {i \in 1..l : input[i] = "\n" /\ i > n}
  BY <1>1 DEF Later, Newlines
<1>7. \A i \in Newlines(u) : n + i \in Later(input, n)
  BY <1>1, <1>5, <1>6
<1>8. \A j \in Later(input, n) : j - n \in Newlines(u) /\ n + (j - n) = j
  <2> TAKE j \in Later(input, n)
  <2>1. j \in 1..l /\ input[j] = "\n" /\ j > n
    BY <1>6
  <2>2. j - n \in 1..(l - n) /\ n + (j - n) = j
    BY <1>1, <2>1
  <2> QED BY <1>5, <2>1, <2>2
<1>9. \A k \in 1..(l - n) : Len(SubSeq(u, 1, k)) = k
  <2> TAKE k \in 1..(l - n)
  <2>1. k \in 0..Len(u) /\ k \in Nat
    BY <1>1, <1>2
  <2> QED BY <1>2, <2>1, SubSeqProperties
<1>10. CASE found # {}
  <2> DEFINE m == Min(found)
  <2>1. found \in SUBSET Nat
    BY <1>5
  <2>2. m \in found /\ \A k \in found : m <= k
    <3> HIDE DEF found
    <3> QED BY <1>10, <2>1, LeastOf
  <2>3. Slice(input, n).err = "none" /\ Slice(input, n).part = SubSeq(u, 1, m)
    <3>1. Slice(input, n) = [part |-> SubSeq(u, 1, m), err |-> "none"]
      <4> HIDE DEF found, m
      <4>1. m = Min(found)
        BY DEF m
      <4> QED BY <1>3, <1>10, <4>1
    <3> DEFINE part == SubSeq(u, 1, m)
    <3> HIDE DEF m, part
    <3>2. Slice(input, n) = [part |-> part, err |-> "none"]
      BY <3>1 DEF part
    <3>3. Slice(input, n).err = "none" /\ Slice(input, n).part = part
      BY <3>2
    <3> QED BY <3>3 DEF part
  <2> HIDE DEF m
  <2>4. m \in Newlines(u) /\ m <= BufferSize /\ m \in 1..(l - n)
    BY <1>5, <2>2
  <2>5. SliceEnd(input, n) = n + m
    BY <1>4, <1>9, <2>3, <2>4
  <2>6. n + m \in Later(input, n)
    BY <1>7, <2>4
  <2>7. ASSUME NEW j \in Later(input, n) PROVE n + m <= j
    <3>1. j - n \in Newlines(u) /\ n + (j - n) = j /\ j - n \in 1..(l - n)
      BY <1>5, <1>8
    <3>2. m <= j - n
      <4>1. CASE j - n <= BufferSize
        BY <2>2, <3>1, <4>1
      <4>2. CASE ~(j - n <= BufferSize)
        BY <1>1, <2>4, <3>1, <4>2
      <4> QED BY <4>1, <4>2
    <3> QED BY <1>1, <2>4, <3>1, <3>2
  <2>8. Later(input, n) \in SUBSET Nat /\ Later(input, n) # {}
    BY <1>6, <2>6
  <2>9. Min(Later(input, n)) \in Later(input, n) /\ \A k \in Later(input, n) : Min(Later(input, n)) <= k
    BY <2>8, LeastOf
  <2>10. Min(Later(input, n)) = n + m
    <3>1. n + m <= Min(Later(input, n)) /\ Min(Later(input, n)) <= n + m
      BY <2>6, <2>7, <2>9
    <3>2. Min(Later(input, n)) \in Int /\ n + m \in Int
      BY <1>1, <2>4, <2>8, <2>9
    <3> QED BY <3>1, <3>2
  <2> QED BY <2>3, <2>5, <2>8, <2>10 DEF LineEnd
<1>11. CASE found = {} /\ Len(u) >= BufferSize
  <2>1. Slice(input, n).err = "full" /\ Slice(input, n).part = SubSeq(u, 1, BufferSize)
    <3>1. Slice(input, n) = [part |-> SubSeq(u, 1, BufferSize), err |-> "full"]
      <4> HIDE DEF found
      <4> QED BY <1>3, <1>11
    <3> DEFINE part == SubSeq(u, 1, BufferSize)
    <3> HIDE DEF part
    <3>2. Slice(input, n) = [part |-> part, err |-> "full"]
      BY <3>1 DEF part
    <3>3. Slice(input, n).err = "full" /\ Slice(input, n).part = part
      BY <3>2
    <3> QED BY <3>3 DEF part
  <2>2. BufferSize \in 1..(l - n)
    BY <1>1, <1>2, <1>11
  <2>3. SliceEnd(input, n) = n + BufferSize /\ SliceEnd(input, n) <= l
    BY <1>1, <1>4, <1>9, <2>1, <2>2
  <2>4. ASSUME NEW j \in Later(input, n) PROVE j > n + BufferSize
    <3>1. j - n \in Newlines(u) /\ j \in Nat
      BY <1>6, <1>8
    <3>2. ~(j - n <= BufferSize)
      BY <1>11, <3>1
    <3> QED BY <1>1, <3>1, <3>2
  <2> QED BY <1>1, <2>1, <2>3, <2>4
<1>12. CASE found = {} /\ ~(Len(u) >= BufferSize)
  <2>1. Slice(input, n).err = "EOF" /\ Slice(input, n).part = u
    BY <1>3, <1>12
  <2>2. SliceEnd(input, n) = l
    <3>1. Len(Slice(input, n).part) = l - n
      BY <1>2, <2>1, Zenon
    <3>2. l - n \in Int /\ n + (l - n) = l
      BY <1>1
    <3> QED BY <1>4, <3>1, <3>2, Zenon
  <2>3. \A i \in Newlines(u) : i <= BufferSize
    BY <1>1, <1>2, <1>5, <1>12
  <2>4. Newlines(u) = {}
    BY <1>12, <2>3
  <2>5. Later(input, n) = {}
    BY <1>8, <2>4
  <2> QED BY <1>1, <2>1, <2>2, <2>5
<1> HIDE DEF found
<1> QED BY <1>10, <1>11, <1>12

(* The line that goes on behind the first n bytes ends behind them. *)
LEMMA LineEndFacts ==
  ASSUME NEW input \in Seq(Bytes), NEW n \in 0..Len(input)
  PROVE  /\ LineEnd(input, n) \in n..Len(input)
         /\ Later(input, n) # {} => LineEnd(input, n) \in Later(input, n) /\ LineEnd(input, n) > n
         /\ \A i \in Later(input, n) : LineEnd(input, n) <= i
<1> DEFINE l == Len(input)
           T == Later(input, n)
<1>1. l \in Nat /\ n \in Nat /\ n <= l /\ l = Len(input) /\ DOMAIN input = 1..l
  BY LenProperties
<1>2. T \in SUBSET Nat /\ \A i \in T : i \in 1..l /\ i > n
  BY <1>1 DEF Later, Newlines
<1>3. LineEnd(input, n) = IF T = {} THEN l ELSE Min(T)
  BY DEF LineEnd
<1> HIDE DEF T, l
<1>4. T # {} => Min(T) \in T /\ \A i \in T : Min(T) <= i
  BY <1>2, LeastOf
<1>5. CASE T = {}
  BY <1>1, <1>3, <1>5 DEF T, l
<1>6. CASE T # {}
  <2>1. LineEnd(input, n) \in T /\ \A i \in T : LineEnd(input, n) <= i
    BY <1>3, <1>4, <1>6
  <2>2. LineEnd(input, n) \in n..l /\ LineEnd(input, n) > n
    <3>1. LineEnd(input, n) \in 1..l /\ LineEnd(input, n) > n
      BY <1>2, <2>1
    <3> QED BY <1>1, <3>1
  <2> QED BY <1>1, <2>1, <2>2 DEF T
<1> QED BY <1>5, <1>6

(* Behind a full buffer the same line goes on. *)
LEMMA LineGoesOn ==
  ASSUME NEW input \in Seq(Bytes), NEW n \in 0..Len(input), NEW next \in n..Len(input),
         \A i \in Later(input, n) : i > next
  PROVE  Later(input, next) = Later(input, n) /\ LineEnd(input, next) = LineEnd(input, n)
<1>1. Len(input) \in Nat /\ DOMAIN input = 1..Len(input)
  BY LenProperties
<1>2. \A i \in Newlines(input) : i > next <=> i > n
  BY <1>1 DEF Later, Newlines
<1>3. Later(input, next) = Later(input, n)
  BY <1>2 DEF Later
<1> QED BY <1>3 DEF LineEnd

(* A turn gives the outcome when its continuation does. *)
LEMMA TurnOutcome ==
  ASSUME NEW input \in Seq(Bytes), NEW n \in 0..Len(input), NEW f,
         SliceEnd(input, n) \in (n + 1)..Len(input) =>
           f[SliceEnd(input, n)] = Outcome(input, SliceEnd(input, n))
  PROVE  Turn(input, n, f) = Outcome(input, n)
<1> DEFINE next == SliceEnd(input, n)
           slice == Slice(input, n)
           last == LineEnd(input, n)
           l == Len(input)
           limit == MaxInputFrame
<1>1. /\ l \in Nat /\ n \in Nat /\ n <= l /\ BufferSize \in Nat \ {0} /\ limit \in Nat \ {0}
      /\ last \in n..l /\ (Later(input, n) # {} => last \in Later(input, n))
  BY LenProperties, FramesAssumption, LineEndFacts
<1>2. \/ slice.err = "none" /\ Later(input, n) # {} /\ next = last
      \/ /\ slice.err = "full" /\ next = n + BufferSize
         /\ next <= l /\ \A i \in Later(input, n) : i > next
      \/ slice.err = "EOF" /\ Later(input, n) = {} /\ next = l
  BY SliceFacts
<1>3. next \in Nat /\ n <= next
  BY <1>1, <1>2
<1>4. CASE n = limit
  BY <1>4, Zenon DEF Turn, Outcome
<1>5. CASE n # limit /\ next > limit
  <2>1. Turn(input, n, f) = TooLarge
    BY <1>5, Zenon DEF Turn
  <2>2. ~(n < limit /\ last <= limit)
    <3>1. CASE slice.err = "full"
      <4>1. CASE Later(input, n) = {}
        <5>1. last = l
          BY <4>1 DEF LineEnd
        <5> QED BY <1>1, <1>2, <1>5, <3>1, <5>1
      <4>2. CASE Later(input, n) # {}
        <5>1. last > next
          BY <1>1, <1>2, <3>1, <4>2
        <5> QED BY <1>1, <1>3, <1>5, <5>1
      <4> QED BY <4>1, <4>2
    <3>2. CASE slice.err # "full"
      <4>1. next = last
        BY <1>2, <3>2 DEF LineEnd
      <4> QED BY <1>1, <1>5, <4>1
    <3> QED BY <3>1, <3>2
  <2>3. Outcome(input, n) = TooLarge
    BY <1>5, <2>2 DEF Outcome
  <2> QED BY <2>1, <2>3
<1>6. CASE n # limit /\ next <= limit /\ slice.err = "full"
  <2>1. ~(next > limit) /\ n < limit
    BY <1>1, <1>2, <1>3, <1>6
  <2>2. Turn(input, n, f) = f[next]
    BY <1>6, <2>1, Zenon DEF Turn
  <2>3. next \in (n + 1)..l /\ next \in n..l /\ next \in 0..l /\ \A i \in Later(input, n) : i > next
    BY <1>1, <1>2, <1>6
  <2>4. f[next] = Outcome(input, next)
    BY <2>3
  <2>5. Later(input, next) = Later(input, n) /\ LineEnd(input, next) = last
    BY <2>3, LineGoesOn
  <2>6. Outcome(input, n)
          = IF last <= limit
            THEN [frame |-> SubSeq(input, 1, last), err |-> IF Later(input, n) = {} THEN "EOF" ELSE "none"]
            ELSE TooLarge
    BY <1>6, <2>1 DEF Outcome
  <2>7. CASE next # limit
    <3>1. next < limit
      BY <1>3, <1>1, <1>6, <2>7
    <3>2. Outcome(input, next)
            = IF last <= limit
              THEN [frame |-> SubSeq(input, 1, last), err |-> IF Later(input, n) = {} THEN "EOF" ELSE "none"]
              ELSE TooLarge
      BY <2>5, <2>7, <3>1, Zenon DEF Outcome
    <3> QED BY <2>2, <2>4, <2>6, <3>2
  <2>8. CASE next = limit
    <3>1. Outcome(input, next) = IF l = limit THEN [frame |-> input, err |-> "EOF"] ELSE TooLarge
      BY <2>8 DEF Outcome, AtLimit
    <3>2. CASE Later(input, n) = {}
      <4>1. last = l /\ SubSeq(input, 1, l) = input
        BY <3>2, SubSeqFull DEF LineEnd
      <4>2. l <= limit <=> l = limit
        BY <1>1, <2>3, <2>8
      <4>3. Outcome(input, n) = IF l = limit THEN [frame |-> input, err |-> "EOF"] ELSE TooLarge
        BY <2>6, <3>2, <4>1, <4>2, Zenon
      <4> QED BY <2>2, <2>4, <3>1, <4>3
    <3>3. CASE Later(input, n) # {}
      <4>1. last > limit /\ last <= l
        BY <1>1, <2>3, <2>8, <3>3
      <4>2. l # limit /\ ~(last <= limit)
        BY <1>1, <4>1
      <4> QED BY <2>2, <2>4, <2>6, <3>1, <4>2, Zenon
    <3> QED BY <3>2, <3>3
  <2> QED BY <2>7, <2>8
<1>7. CASE n # limit /\ next <= limit /\ slice.err # "full"
  <2>1. ~(next > limit) /\ n < limit /\ last <= limit /\ next = last
    <3>1. next = last
      BY <1>2, <1>7 DEF LineEnd
    <3> QED BY <1>1, <1>3, <1>7, <3>1
  <2>2. slice.err = IF Later(input, n) = {} THEN "EOF" ELSE "none"
    BY <1>2, <1>7
  <2>3. Turn(input, n, f) = [frame |-> SubSeq(input, 1, next), err |-> slice.err]
    BY <1>7, <2>1, Zenon DEF Turn
  <2>4. Outcome(input, n)
          = [frame |-> SubSeq(input, 1, last), err |-> IF Later(input, n) = {} THEN "EOF" ELSE "none"]
    BY <1>7, <2>1, Zenon DEF Outcome
  <2> QED BY <2>1, <2>2, <2>3, <2>4, Zenon
<1>8. next > limit \/ next <= limit
  BY <1>1, <1>3
<1> QED BY <1>4, <1>5, <1>6, <1>7, <1>8

(* Whatever the buffer, the loop gives the outcome: the outcomes are a loop,  *)
(* and a last place where another loop differed would go on where it agrees.  *)
LEMMA LoopOutcome ==
  ASSUME NEW input \in Seq(Bytes)
  PROVE  readMCPFrame(input) = Outcome(input, 0)
<1> DEFINE l == Len(input)
           h == CHOOSE h : IsLoop(input, h)
           g == [n \in 0..l |-> Outcome(input, n)]
<1>1. l \in Nat /\ l = Len(input)
  BY LenProperties
<1>2. readMCPFrame(input) = h[0]
  BY DEF readMCPFrame, IsLoop, Turn, Slice, SliceEnd
<1> HIDE DEF l
<1>3. \A n \in 0..l : g[n] = Outcome(input, n)
  OBVIOUS
<1> HIDE DEF g
<1>4. IsLoop(input, g)
  <2>1. ASSUME NEW n \in 0..l PROVE Turn(input, n, g) = Outcome(input, n)
    <3>1. \A k \in (n + 1)..l : k \in 0..l
      BY <1>1
    <3>2. SliceEnd(input, n) \in (n + 1)..l => g[SliceEnd(input, n)] = Outcome(input, SliceEnd(input, n))
      BY <1>3, <3>1
    <3> QED BY <1>1, <3>2, TurnOutcome
  <2>2. g = [n \in 0..l |-> Turn(input, n, g)]
    BY <2>1 DEF g
  <2> QED BY <1>1, <2>2 DEF IsLoop
<1>5. IsLoop(input, h)
  BY <1>4
<1> HIDE DEF h
<1>6. \A n \in 0..l : h[n] = Turn(input, n, h)
  BY <1>1, <1>5, Zenon DEF IsLoop
<1> DEFINE T == {k \in 0..l : h[l - k] # Outcome(input, l - k)}
<1>7. T = {}
  <2> SUFFICES ASSUME T # {} PROVE FALSE
    OBVIOUS
  <2>1. T \in SUBSET Nat
    OBVIOUS
  <2>2. PICK m \in T : \A k \in T : m <= k
    <3> HIDE DEF T
    <3> QED BY <2>1, LeastNumber
  <2>3. m \in 0..l /\ h[l - m] # Outcome(input, l - m)
    BY <2>2
  <2> DEFINE n == l - m
  <2>4. n \in 0..l
    BY <1>1, <2>3
  <2>5. ASSUME NEW k \in (n + 1)..l PROVE h[k] = Outcome(input, k)
    <3>1. l - k \in 0..l /\ ~(m <= l - k) /\ l - (l - k) = k
      BY <1>1, <2>3
    <3>2. l - k \notin T
      BY <2>2, <3>1
    <3> QED BY <3>1, <3>2
  <2> HIDE DEF T, n
  <2>6. Turn(input, n, h) = Outcome(input, n)
    BY <1>1, <2>4, <2>5, TurnOutcome
  <2>7. h[n] = Outcome(input, n)
    BY <1>6, <2>4, <2>6
  <2> QED BY <2>3, <2>7 DEF n
<1>8. l \in 0..l /\ l - l = 0
  BY <1>1
<1> QED BY <1>2, <1>7, <1>8

(* A frame is the first line of what is left, if it is within the limit. *)
LEMMA FrameRead ==
  ASSUME NEW input \in Seq(Bytes)
  PROVE  LET line == readMCPFrame(input).frame
         IN  /\ line \in Seq(Bytes) /\ Len(line) \in 0..Len(input) /\ Len(line) <= MaxInputFrame
             /\ line = SubSeq(input, 1, Len(line))
             /\ line = <<>> => input = <<>> \/ LineEnd(input, 0) > MaxInputFrame
             /\ line # <<>> => \/ Newlines(line) = {Len(line)}
                               \/ (Newlines(line) = {} /\ Len(line) = Len(input))
<1> DEFINE line == readMCPFrame(input).frame
           l == Len(input)
           e == LineEnd(input, 0)
           T == Later(input, 0)
<1>1. l \in Nat /\ l = Len(input) /\ DOMAIN input = 1..l /\ MaxInputFrame \in Nat \ {0} /\ 0 \in 0..l
      /\ \A i \in 1..l : input[i] \in Bytes
  BY LenProperties, FramesAssumption
<1>2. /\ e \in 0..l /\ (T # {} => e \in T /\ e > 0)
      /\ (\A i \in T : e <= i) /\ (T = {} => e = l)
  BY <1>1, LineEndFacts DEF LineEnd
<1>3. T = {i \in 1..l : input[i] = "\n"}
  BY <1>1 DEF Later, Newlines
<1>4. readMCPFrame(input)
        = IF e <= MaxInputFrame
          THEN [frame |-> SubSeq(input, 1, e), err |-> IF T = {} THEN "EOF" ELSE "none"]
          ELSE [frame |-> <<>>, err |-> "limit"]
  <2>1. readMCPFrame(input) = Outcome(input, 0) /\ 0 # MaxInputFrame /\ 0 < MaxInputFrame
    BY <1>1, LoopOutcome
  <2> HIDE DEF l
  <2> QED BY <2>1, Zenon DEF Outcome, TooLarge
<1> HIDE DEF e, T, l
<1>5. CASE e <= MaxInputFrame
  <2> DEFINE prefix == SubSeq(input, 1, e)
  <2>1. \A i \in 1..e : i \in 1..l
    BY <1>1, <1>2
  <2>2. /\ prefix \in Seq(Bytes) /\ Len(prefix) = e /\ DOMAIN prefix = 1..e
        /\ \A i \in 1..e : prefix[i] = input[i]
    <3>1. 1 \in Int /\ e \in Int /\ \A i \in 1..e : input[i] \in Bytes
      BY <1>1, <1>2, <2>1
    <3>2. /\ prefix \in Seq(Bytes) /\ Len(prefix) = IF 1 <= e THEN e - 1 + 1 ELSE 0
          /\ \A i \in 1..(e - 1 + 1) : prefix[i] = input[1 + i - 1]
      <4> HIDE DEF prefix
      <4> QED BY <3>1, SubSeqProperties DEF prefix
    <3>3. Len(prefix) = e
      <4> HIDE DEF prefix
      <4> QED BY <1>2, <3>2
    <3>4. \A i \in 1..e : prefix[i] = input[i]
      <4>1. \A i \in 1..e : i \in 1..(e - 1 + 1) /\ 1 + i - 1 = i
        BY <3>1
      <4> HIDE DEF prefix
      <4> QED BY <3>2, <4>1
    <3> HIDE DEF prefix
    <3> QED BY <3>2, <3>3, <3>4, LenProperties
  <2> HIDE DEF prefix
  <2>3. readMCPFrame(input) = [frame |-> prefix, err |-> IF T = {} THEN "EOF" ELSE "none"]
    BY <1>4, <1>5 DEF prefix
  <2>4. line = prefix
    BY <2>3
  <2> HIDE DEF line
  <2>5. Newlines(prefix) = {i \in 1..e : input[i] = "\n"}
    BY <2>2 DEF Newlines
  <2>6. prefix = <<>> => input = <<>>
    <3>1. prefix = <<>> => e = 0
      BY <2>2, EmptySeq
    <3>2. e = 0 => l = 0
      BY <1>2
    <3> QED BY <1>1, <3>1, <3>2, EmptySeq
  <2>7. T = {} => Newlines(prefix) = {} /\ e = l
    BY <1>2, <1>3, <2>1, <2>5
  <2>8. T # {} => Newlines(prefix) = {e}
    <3> SUFFICES ASSUME T # {} PROVE Newlines(prefix) = {e}
      OBVIOUS
    <3>1. e \in 1..e /\ input[e] = "\n"
      BY <1>2, <1>3
    <3>2. ASSUME NEW i \in 1..e, input[i] = "\n" PROVE i = e
      <4>1. i \in T
        BY <1>3, <2>1, <3>2
      <4> QED BY <1>2, <4>1
    <3> QED BY <2>5, <3>1, <3>2
  <2>9. prefix = SubSeq(input, 1, Len(prefix))
    BY <2>2 DEF prefix
  <2>10. line \in Seq(Bytes) /\ Len(line) = e /\ e \in 0..l /\ line = SubSeq(input, 1, Len(line))
    BY <1>2, <2>2, <2>4, <2>9
  <2>11. line = <<>> => input = <<>>
    BY <2>4, <2>6
  <2>12. Newlines(line) = {e} \/ (Newlines(line) = {} /\ e = l)
    BY <2>4, <2>7, <2>8
  <2> QED BY <1>1, <1>5, <2>10, <2>11, <2>12 DEF line
<1>6. CASE ~(e <= MaxInputFrame)
  <2>1. readMCPFrame(input) = [frame |-> <<>>, err |-> "limit"]
    BY <1>4, <1>6
  <2>2. line = <<>> /\ e > MaxInputFrame
    BY <1>1, <1>2, <1>6, <2>1
  <2>3. <<>> \in Seq(Bytes) /\ Len(<<>>) = 0 /\ SubSeq(input, 1, 0) = <<>>
    BY EmptySeq, SubSeqEmpty
  <2> HIDE DEF line
  <2>4. Len(line) = 0 /\ line \in Seq(Bytes) /\ line = SubSeq(input, 1, Len(line))
    BY <2>2, <2>3
  <2>5. 0 \in 0..l /\ 0 <= MaxInputFrame
    BY <1>1
  <2> QED BY <1>1, <2>2, <2>4, <2>5 DEF line, e
<1> QED BY <1>5, <1>6

FramesTyped == rest \in Seq(Bytes) /\ frames \in Seq(Seq(Bytes))

\* The three parts of FramesExact
FramesJoin == FlattenSeq(frames) \o rest = stream
Whole(i) ==
  /\ Len(frames[i]) <= MaxInputFrame
  /\ \/ Newlines(frames[i]) = {Len(frames[i])}
     \/ i = Len(frames) /\ Newlines(frames[i]) = {} /\ rest = <<>>
FramesWhole == \A i \in DOMAIN frames : Whole(i)
StoppedLong == ~reading => rest = <<>> \/ LineEnd(rest, 0) > MaxInputFrame

(* What the frames are, said in parts. *)
LEMMA FramesParts ==
  ASSUME FramesTyped
  PROVE  FramesExact <=> FramesJoin /\ FramesWhole /\ StoppedLong
<1>1. \A i \in DOMAIN rest : i > 0
  <2>1. DOMAIN rest = 1..Len(rest) /\ Len(rest) \in Nat
    BY LenProperties DEF FramesTyped
  <2> QED BY <2>1
<1>2. Later(rest, 0) = Newlines(rest)
  BY <1>1 DEF Later, Newlines
<1>3. LineEnd(rest, 0) = IF Newlines(rest) = {} THEN Len(rest) ELSE Min(Newlines(rest))
  BY <1>2 DEF LineEnd
<1> QED BY <1>3, Zenon DEF FramesExact, FramesJoin, FramesWhole, Whole, StoppedLong

(* What the reader starts with. *)
LEMMA FramesStart == FramesInit => FramesTyped /\ FramesExact
<1> SUFFICES ASSUME ClientInput PROVE FramesTyped /\ FramesExact
  BY DEF FramesInit
<1>1. stream \in Seq(Bytes)
  <2>1. PICK m \in 0..MaxInput : stream \in [1..m -> Bytes]
    BY DEF ClientInput, SeqOf, Bytes
  <2>2. m \in Nat
    BY FramesAssumption
  <2> QED BY <2>1, <2>2, IsASeq
<1>2. frames = <<>> /\ rest = stream /\ reading = TRUE
  BY DEF ClientInput
<1>3. FramesTyped
  BY <1>1, <1>2, EmptySeq DEF FramesTyped
<1>4. FramesJoin
  <2>1. <<>> \o rest = rest
    BY <1>1, <1>2, ConcatEmptySeq
  <2> QED BY <1>2, <2>1, FlattenEmpty DEF FramesJoin
<1>5. DOMAIN frames = {}
  BY <1>2
<1> QED BY <1>2, <1>3, <1>4, <1>5, FramesParts DEF FramesWhole, StoppedLong

(* Every turn of the reader keeps the frames exact. *)
LEMMA FramesStep ==
  ASSUME FramesTyped, FramesExact, ReadFrame
  PROVE  FramesTyped' /\ FramesExact'
<1> DEFINE line == readMCPFrame(rest).frame
           k == Len(line)
           l == Len(rest)
<1>1. /\ rest \in Seq(Bytes) /\ frames \in Seq(Seq(Bytes)) /\ FramesJoin /\ FramesWhole
      /\ reading' = (line # <<>>) /\ rest' = SubSeq(rest, k + 1, l) /\ stream' = stream
      /\ frames' = IF line = <<>> THEN frames ELSE Append(frames, line)
  BY FramesParts DEF FramesTyped, ReadFrame
<1>2. /\ line \in Seq(Bytes) /\ k \in 0..l /\ k <= MaxInputFrame /\ line = SubSeq(rest, 1, k)
      /\ line = <<>> => rest = <<>> \/ LineEnd(rest, 0) > MaxInputFrame
      /\ line # <<>> => Newlines(line) = {k} \/ (Newlines(line) = {} /\ k = l)
  BY <1>1, FrameRead
<1>3. k = Len(line) /\ l = Len(rest) /\ l \in Nat
  BY <1>1, LenProperties
<1> HIDE DEF line, k, l
<1>4. rest' \in Seq(Bytes) /\ Len(rest') = l - k
  BY <1>1, <1>2, <1>3, SuffixItems
<1>5. line \o rest' = rest
  <2>1. 1 \in 1..(l + 1) /\ k \in (1 - 1)..l /\ l \in k..l
    BY <1>2, <1>3
  <2>2. SubSeq(rest, 1, k) \o SubSeq(rest, k + 1, l) = SubSeq(rest, 1, l)
    BY <1>1, <1>3, <2>1, ConcatAdjacentSubSeq
  <2>3. SubSeq(rest, 1, l) = rest
    BY <1>1, <1>3, SubSeqFull
  <2> QED BY <1>1, <1>2, <2>2, <2>3
<1>6. CASE line = <<>>
  <2>1. rest' = rest /\ frames' = frames
    <3>1. <<>> \o rest' = rest'
      BY <1>4, ConcatEmptySeq
    <3> QED BY <1>1, <1>5, <1>6, <3>1
  <2>2. FramesTyped' /\ FramesJoin'
    BY <1>1, <2>1 DEF FramesTyped, FramesJoin
  <2>3. FramesWhole'
    BY <1>1, <2>1, Zenon DEF FramesWhole, Whole
  <2>4. StoppedLong'
    BY <1>2, <1>6, <2>1, Zenon DEF StoppedLong, LineEnd, Later
  <2>5. FramesTyped' => (FramesExact' <=> FramesJoin' /\ FramesWhole' /\ StoppedLong')
    BY FramesParts, PTL
  <2> QED BY <2>2, <2>3, <2>4, <2>5
<1>7. CASE line # <<>>
  <2> DEFINE n == Len(frames)
             more == Append(frames, line)
  <2>1. frames' = more
    BY <1>1, <1>7
  <2>2. /\ more \in Seq(Seq(Bytes)) /\ Len(more) = n + 1 /\ n \in Nat /\ n = Len(frames)
        /\ DOMAIN frames = 1..n /\ DOMAIN more = 1..(n + 1)
        /\ more[n + 1] = line /\ \A i \in 1..n : more[i] = frames[i]
    BY <1>1, <1>2, AppendProperties, LenProperties
  <2>3. FlattenSeq(frames) \in Seq(Bytes) /\ FlattenSeq(more) = FlattenSeq(frames) \o line
    BY <1>1, <1>2, FlattenAppend
  <2> HIDE DEF more, n
  <2>4. FramesTyped'
    BY <1>4, <2>1, <2>2 DEF FramesTyped
  <2>5. FramesJoin'
    <3>1. (FlattenSeq(frames) \o line) \o rest' = FlattenSeq(frames) \o (line \o rest')
      <4> DEFINE f == FlattenSeq(frames)
                 r == rest'
      <4>1. f \in Seq(Bytes) /\ line \in Seq(Bytes) /\ r \in Seq(Bytes)
        BY <1>2, <1>4, <2>3
      <4> HIDE DEF f, r
      <4>2. (f \o line) \o r = f \o (line \o r)
        BY <4>1, ConcatAssociative
      <4> QED BY <4>2 DEF f, r
    <3>2. FlattenSeq(more) \o rest' = stream
      BY <1>1, <1>5, <2>3, <3>1 DEF FramesJoin
    <3> QED BY <1>1, <2>1, <3>2 DEF FramesJoin
  <2>6. rest # <<>>
    <3>1. k # 0
      BY <1>2, <1>3, <1>7, EmptySeq
    <3>2. l # 0
      BY <1>2, <1>3, <3>1
    <3> QED BY <1>3, <3>2, EmptySeq
  <2>7. ASSUME NEW i \in 1..n
        PROVE  Len(more[i]) <= MaxInputFrame /\ Newlines(more[i]) = {Len(more[i])}
    BY <1>1, <2>2, <2>6 DEF FramesWhole, Whole
  <2>8. /\ Len(more[n + 1]) <= MaxInputFrame
        /\ \/ Newlines(more[n + 1]) = {Len(more[n + 1])}
           \/ Newlines(more[n + 1]) = {} /\ rest' = <<>>
    <3>1. k = l => rest' = <<>>
      <4>1. k = l => Len(rest') = 0
        BY <1>3, <1>4
      <4> QED BY <1>4, <4>1, EmptySeq
    <3> QED BY <1>2, <1>3, <1>7, <2>2, <3>1
  <2>9. FramesWhole'
    <3>1. \A i \in 1..(n + 1) : i \in 1..n \/ i = n + 1
      BY <2>2
    <3>2. ASSUME NEW i \in DOMAIN more
          PROVE  /\ Len(more[i]) <= MaxInputFrame
                 /\ \/ Newlines(more[i]) = {Len(more[i])}
                    \/ i = Len(more) /\ Newlines(more[i]) = {} /\ rest' = <<>>
      <4>1. CASE i \in 1..n
        BY <2>7, <4>1
      <4>2. CASE i = n + 1
        BY <2>2, <2>8, <4>2
      <4> QED BY <2>2, <3>1, <4>1, <4>2
    <3> QED BY <2>1, <3>2, Zenon DEF FramesWhole, Whole, Newlines
  <2>10. StoppedLong'
    BY <1>1, <1>7 DEF StoppedLong
  <2>11. FramesTyped' => (FramesExact' <=> FramesJoin' /\ FramesWhole' /\ StoppedLong')
    BY FramesParts, PTL
  <2> QED BY <2>4, <2>5, <2>9, <2>10, <2>11
<1> QED BY <1>6, <1>7

(* For every input, buffer and limit the frames are the lines of the input, *)
(* and the reader stops before its end only at a line beyond the limit.     *)
THEOREM FramesAreExact == FramesSpec => []FramesExact
<1>1. FramesInit => FramesTyped /\ FramesExact
  BY FramesStart
<1>2. FramesTyped /\ FramesExact /\ [ReadFrame]_framesVars => (FramesTyped /\ FramesExact)'
  <2>1. CASE ReadFrame
    BY <2>1, FramesStep
  <2>2. CASE UNCHANGED framesVars
    BY <2>2 DEF framesVars, FramesTyped, FramesExact, Newlines
  <2> QED BY <2>1, <2>2
<1> QED BY <1>1, <1>2, PTL DEF FramesSpec
=============================================================================
