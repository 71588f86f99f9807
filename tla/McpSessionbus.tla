--------------------------- MODULE McpSessionbus ---------------------------
(***************************************************************************)
(* mcp/sessionbus.go, serveSessionbus: one MCP connection.                 *)
(*                                                                         *)
(* A reader admits frames in order; every reply is produced by a worker    *)
(* goroutine.  The mutex state guards the budgets, pending and the         *)
(* cancellation of the connection; the mutex writes serialises output;     *)
(* stop runs once, in the goroutine that first calls it, and any other     *)
(* caller waits for it.  One action is one critical section or one call    *)
(* that may block.                                                         *)
(*                                                                         *)
(* A request is of one of five kinds: "reply" (ping, tools/list, every     *)
(* frame the reader answers with an error), "initialize", "report" (hidden *)
(* native report), "call" (tools/call sessionbus), "private" (unadvertised *)
(* methods).  The last two are registered in pending and can be cancelled. *)
(***************************************************************************)
EXTENDS Integers, FiniteSets, Sequences, SequencesExt, Functions

CONSTANTS
  Requests,            \* bound: the frames with an id the reader will see
  Keys,                \* normalised request ids
  LineSizes,           \* possible lengths of an input frame
  ReplySizes,          \* possible lengths of a callback's result or error
  MaxFrameBytes,       \* protocol.MaxFrameBytes
  MaxResponseWork,     \* maxMCPResponseWork
  MaxRetainedBytes,    \* maxMCPRetainedBytes
  NoRequest

ASSUME McpAssumption ==
  /\ IsFiniteSet(Requests)
  /\ NoRequest \notin Requests
  /\ LineSizes \subseteq Nat /\ ReplySizes \subseteq Nat
  /\ MaxFrameBytes \in Nat /\ MaxResponseWork \in Nat /\ MaxRetainedBytes \in Nat

VARIABLES
  closable,    \* the output is an io.Closer
  reader,      \* the serving goroutine
  stop,        \* progress of stop()
  workCount, retained,
  pending,     \* pending[k]: the request whose cancel function is registered
  phase,       \* phase[q]: progress of the worker of q
  kind, key,   \* of an admitted request
  work,        \* work[q]: bytes charged to q
  aborted,     \* aborted[q]: abort was called through pending
  result,      \* result[q]: what the callback of q returned
  writer,      \* the worker that holds writes
  replies, initialized, ends  \* history: replies written and Initialized
                              \* callbacks per request, End callbacks

budget == <<workCount, retained>>
request == <<kind, key>>
history == <<replies, initialized, ends>>
vars == <<closable, reader, stop, budget, pending, phase, request, work, aborted, result, writer, history>>

Kinds == {"reply", "initialize", "report", "call", "private"}
Registered == {"call", "private"}
Phases == {"unread", "admitted", "callback", "returned", "settled", "ready",
           "writing", "stopping", "replied", "leaving", "done"}
Results == {"none", "value", "error", "ctxError"}

Init ==
  /\ closable \in BOOLEAN
  /\ reader = "read" /\ stop = "idle"
  /\ workCount = 0 /\ retained = 0
  /\ pending = [k \in Keys |-> NoRequest]
  /\ phase = [q \in Requests |-> "unread"]
  /\ kind = [q \in Requests |-> "reply"]
  /\ key \in {[q \in Requests |-> k] : k \in Keys}
  /\ work = [q \in Requests |-> 0]
  /\ aborted = [q \in Requests |-> FALSE]
  /\ result = [q \in Requests |-> "none"]
  /\ writer = NoRequest
  /\ replies = [q \in Requests |-> 0]
  /\ initialized = [q \in Requests |-> 0]
  /\ ends = 0

Goto(q, p) == phase' = [phase EXCEPT ![q] = p]

\* ctx.Err() != nil
Cancelled == stop \in {"cancelled", "closed", "ended"}
OutputClosed == closable /\ stop \in {"closed", "ended"}

-----------------------------------------------------------------------------
(* stop: cancel under state, close the input and an output that can be     *)
(* closed, then owner.End()                                                *)

CallStop == stop' = IF stop = "idle" THEN "called" ELSE stop

StopCancel ==
  /\ stop = "called"
  /\ stop' = "cancelled"
  /\ UNCHANGED <<closable, reader, budget, pending, phase, request, work, aborted, result, writer, history>>

StopClose ==
  /\ stop = "cancelled"
  /\ stop' = "closed"
  /\ UNCHANGED <<closable, reader, budget, pending, phase, request, work, aborted, result, writer, history>>

StopEnd ==
  /\ stop = "closed"
  /\ stop' = "ended"
  /\ ends' = ends + 1
  /\ UNCHANGED <<closable, reader, budget, pending, phase, request, work, aborted, result, writer, replies, initialized>>

-----------------------------------------------------------------------------
(* The reader *)

\* reserve on a live connection: refuse by stopping, or charge the frame.
OverBudget(size) ==
  \/ workCount = MaxResponseWork
  \/ size > MaxRetainedBytes - retained

ReaderRefuse(size) ==
  /\ reader = "read" /\ ~Cancelled
  /\ \E q \in Requests : phase[q] = "unread"
  /\ OverBudget(size)
  /\ CallStop
  /\ reader' = "stopping"
  /\ UNCHANGED <<closable, budget, pending, phase, request, work, aborted, result, writer, history>>

ReaderReserve(q, what, id, size) ==
  /\ reader = "read" /\ ~Cancelled
  /\ phase[q] = "unread"
  /\ ~OverBudget(size)
  /\ workCount' = workCount + 1
  /\ retained' = retained + size
  /\ work' = [work EXCEPT ![q] = size]
  /\ kind' = [kind EXCEPT ![q] = what]
  /\ key' = [key EXCEPT ![q] = id]
  /\ Goto(q, "admitted")
  /\ reader' = "dispatch"
  /\ UNCHANGED <<closable, stop, pending, aborted, result, writer, history>>

\* Fault: the id is registered without looking for a call that has it.
ReaderDispatchUnchecked(q) ==
  /\ reader = "dispatch" /\ phase[q] = "admitted"
  /\ reader' = "read"
  /\ Goto(q, IF kind[q] \in Registered \cup {"report"} THEN "callback" ELSE "ready")
  /\ pending' = IF kind[q] \in Registered THEN [pending EXCEPT ![key[q]] = q] ELSE pending
  /\ UNCHANGED <<closable, stop, budget, request, work, aborted, result, writer, history>>

\* A call whose id is in flight is answered with an error; any other one is
\* registered before its goroutine is launched.
ReaderDispatch(q) ==
  /\ reader = "dispatch" /\ phase[q] = "admitted"
  /\ reader' = "read"
  /\ LET duplicate == kind[q] \in Registered \cup {"report"} /\ pending[key[q]] # NoRequest
     IN  /\ kind' = IF duplicate THEN [kind EXCEPT ![q] = "reply"] ELSE kind
         /\ Goto(q, IF kind'[q] \in Registered \cup {"report"} THEN "callback" ELSE "ready")
         /\ pending' = IF kind'[q] \in Registered THEN [pending EXCEPT ![key[q]] = q] ELSE pending
  /\ UNCHANGED <<closable, stop, budget, key, work, aborted, result, writer, history>>

\* notifications/cancelled
ReaderAbort(k) ==
  /\ reader = "read"
  /\ pending[k] # NoRequest
  /\ aborted' = [aborted EXCEPT ![pending[k]] = TRUE]
  /\ UNCHANGED <<closable, reader, stop, budget, pending, phase, request, work, result, writer, history>>

\* End of input, a frame over the limit, or a cancelled connection.
ReaderLeave ==
  /\ reader = "read"
  /\ CallStop
  /\ reader' = "stopping"
  /\ UNCHANGED <<closable, budget, pending, phase, request, work, aborted, result, writer, history>>

\* Fault: workers are not joined.
ReaderJoinEarly ==
  /\ reader = "stopping" /\ stop = "ended"
  /\ reader' = "returned"
  /\ UNCHANGED <<closable, stop, budget, pending, phase, request, work, aborted, result, writer, history>>

\* stop() has run, here or elsewhere; workers.Wait().
ReaderJoin ==
  /\ reader = "stopping" /\ stop = "ended"
  /\ \A q \in Requests : phase[q] \in {"unread", "done"}
  /\ reader' = "returned"
  /\ UNCHANGED <<closable, stop, budget, pending, phase, request, work, aborted, result, writer, history>>

-----------------------------------------------------------------------------
(* Workers: callbacks *)

CallCancelled(q) == aborted[q] \/ Cancelled

\* CallTool or PrivateRequest returns; only a cancelled call returns ctx's error.
CallReturn(q, what) ==
  /\ phase[q] = "callback" /\ kind[q] \in Registered
  /\ what = "ctxError" => CallCancelled(q)
  /\ result' = [result EXCEPT ![q] = what]
  /\ Goto(q, "returned")
  /\ UNCHANGED <<closable, reader, stop, budget, pending, request, work, aborted, writer, history>>

\* Fault: a late cancellation discards a completed call.
CallUnregisterCancelWins(q) ==
  /\ phase[q] = "returned"
  /\ pending' = [pending EXCEPT ![key[q]] = NoRequest]
  /\ Goto(q, IF result[q] = "ctxError" \/ aborted[q] THEN "leaving" ELSE "settled")
  /\ UNCHANGED <<closable, reader, stop, budget, request, work, aborted, result, writer, history>>

\* delete(pending, key); a call that ended because it was cancelled is not answered.
CallUnregister(q) ==
  /\ phase[q] = "returned"
  /\ pending' = [pending EXCEPT ![key[q]] = NoRequest]
  /\ Goto(q, IF result[q] = "ctxError" THEN "leaving" ELSE "settled")
  /\ UNCHANGED <<closable, reader, stop, budget, request, work, aborted, result, writer, history>>

\* Fault: the wait for a report does not select on ctx.Done().
ReportReturnUncancelled(q, what) ==
  /\ phase[q] = "callback" /\ kind[q] = "report"
  /\ what # "ctxError"
  /\ result' = [result EXCEPT ![q] = what]
  /\ Goto(q, "settled")
  /\ UNCHANGED <<closable, reader, stop, budget, pending, request, work, aborted, writer, history>>

\* A report is done (at once if Begin failed), or the connection is cancelled.
ReportReturn(q, what) ==
  /\ phase[q] = "callback" /\ kind[q] = "report"
  /\ what = "ctxError" => Cancelled
  /\ result' = [result EXCEPT ![q] = what]
  /\ Goto(q, IF what = "ctxError" THEN "leaving" ELSE "settled")
  /\ UNCHANGED <<closable, reader, stop, budget, pending, request, work, aborted, writer, history>>

\* A private method may turn out to be unknown: answered without a charge.
CallUnhandled(q) ==
  /\ phase[q] = "settled" /\ kind[q] = "private"
  /\ Goto(q, "ready")
  /\ UNCHANGED <<closable, reader, stop, budget, pending, request, work, aborted, result, writer, history>>

-----------------------------------------------------------------------------
(* Workers: charging, writing, leaving *)

\* chargeReply: raw result and text copy; error text escapes sixfold.
ReplyCharge(q, size) == IF result[q] = "error" THEN 2 * (6 * size + 128) ELSE 2 * size

\* Fault: the connection is charged, the reservation of q is not.
ChargeUnrecorded(q, size) ==
  /\ phase[q] = "settled"
  /\ size <= MaxFrameBytes /\ ~Cancelled
  /\ ReplyCharge(q, size) <= MaxRetainedBytes - retained
  /\ retained' = retained + ReplyCharge(q, size)
  /\ Goto(q, "ready")
  /\ UNCHANGED <<closable, reader, stop, workCount, pending, request, work, aborted, result, writer, history>>

Charge(q, size) ==
  /\ phase[q] = "settled"
  /\ \/ /\ size > MaxFrameBytes
        /\ CallStop
        /\ Goto(q, "stopping")
        /\ UNCHANGED <<closable, retained, work>>
     \/ /\ size <= MaxFrameBytes /\ Cancelled
        /\ Goto(q, "leaving")
        /\ UNCHANGED <<closable, stop, retained, work>>
     \/ /\ size <= MaxFrameBytes /\ ~Cancelled
        /\ ReplyCharge(q, size) > MaxRetainedBytes - retained
        /\ CallStop
        /\ Goto(q, "stopping")
        /\ UNCHANGED <<closable, retained, work>>
     \/ /\ size <= MaxFrameBytes /\ ~Cancelled
        /\ ReplyCharge(q, size) <= MaxRetainedBytes - retained
        /\ retained' = retained + ReplyCharge(q, size)
        /\ work' = [work EXCEPT ![q] = @ + ReplyCharge(q, size)]
        /\ Goto(q, "ready")
        /\ UNCHANGED stop
  /\ UNCHANGED <<closable, reader, workCount, pending, request, aborted, result, writer, history>>

\* writes.Lock() and the check of ctx
WriteBegin(q) ==
  /\ phase[q] = "ready" /\ writer = NoRequest
  /\ IF Cancelled
     THEN Goto(q, "leaving") /\ UNCHANGED writer
     ELSE Goto(q, "writing") /\ writer' = q
  /\ UNCHANGED <<closable, reader, stop, budget, pending, request, work, aborted, result, history>>

WriteSucceeds(q) ==
  /\ phase[q] = "writing"
  /\ ~OutputClosed
  /\ replies' = [replies EXCEPT ![q] = @ + 1]
  /\ writer' = NoRequest
  /\ Goto(q, IF kind[q] = "initialize" THEN "replied" ELSE "leaving")
  /\ UNCHANGED <<closable, reader, stop, budget, pending, request, work, aborted, result, initialized, ends>>

\* The output is closed or broken, or the encoded frame is over the limit.
WriteFails(q) ==
  /\ phase[q] = "writing"
  /\ writer' = NoRequest
  /\ CallStop
  /\ Goto(q, "stopping")
  /\ UNCHANGED <<closable, reader, budget, pending, request, work, aborted, result, history>>

\* The worker that called stop, or waits for the one that did, goes on.
StopReturns(q) ==
  /\ phase[q] = "stopping" /\ stop = "ended"
  /\ Goto(q, "leaving")
  /\ UNCHANGED <<closable, reader, stop, budget, pending, request, work, aborted, result, writer, history>>

\* Fault: Initialized() is called without looking at ctx.
InitializedUnchecked(q) ==
  /\ phase[q] = "replied"
  /\ initialized' = [initialized EXCEPT ![q] = @ + 1]
  /\ Goto(q, "leaving")
  /\ UNCHANGED <<closable, reader, stop, budget, pending, request, work, aborted, result, writer, replies, ends>>

\* Initialized() is called under state, on a live connection only.
Initialized(q) ==
  /\ phase[q] = "replied"
  /\ initialized' = IF Cancelled THEN initialized ELSE [initialized EXCEPT ![q] = @ + 1]
  /\ Goto(q, "leaving")
  /\ UNCHANGED <<closable, reader, stop, budget, pending, request, work, aborted, result, writer, replies, ends>>

\* The deferred release of the reservation, then workers.Done().
Release(q) ==
  /\ phase[q] = "leaving"
  /\ workCount' = workCount - 1
  /\ retained' = retained - work[q]
  /\ work' = [work EXCEPT ![q] = 0]
  /\ Goto(q, "done")
  /\ UNCHANGED <<closable, reader, stop, pending, request, aborted, result, writer, history>>

-----------------------------------------------------------------------------
ReaderStep ==
  \/ \E size \in LineSizes : ReaderRefuse(size)
  \/ \E q \in Requests, what \in Kinds, id \in Keys, size \in LineSizes :
       ReaderReserve(q, what, id, size)
  \/ \E q \in Requests : ReaderDispatch(q)
  \/ \E k \in Keys : ReaderAbort(k)
  \/ ReaderLeave \/ ReaderJoin

StopStep == StopCancel \/ StopClose \/ StopEnd

WorkerStep(q) ==
  \/ \E what \in Results \ {"none"} : CallReturn(q, what) \/ ReportReturn(q, what)
  \/ CallUnregister(q) \/ CallUnhandled(q)
  \/ \E size \in ReplySizes : Charge(q, size)
  \/ WriteBegin(q) \/ WriteSucceeds(q) \/ WriteFails(q)
  \/ StopReturns(q) \/ Initialized(q) \/ Release(q)

\* The connection is over.
Returned == reader = "returned" /\ UNCHANGED vars

Next == ReaderStep \/ StopStep \/ (\E q \in Requests : WorkerStep(q)) \/ Returned

Spec == Init /\ [][Next]_vars

(* Goroutines that can run do.  A callback is obliged to return, and a     *)
(* write to end, only once the connection is cancelled or the output is    *)
(* closed; a report need never complete, the wait for it selects on ctx;   *)
(* the peer need not send, nor end, its input.  An output that cannot be   *)
(* closed must not block (line 133), so that its writes end.               *)
Fairness ==
  /\ WF_vars(StopStep)
  /\ WF_vars(ReaderLeave /\ Cancelled) /\ WF_vars(ReaderJoin)
  /\ \A q \in Requests :
       /\ WF_vars(ReaderDispatch(q))
       /\ WF_vars(\E what \in Results \ {"none"} : Cancelled /\ CallReturn(q, what))
       /\ WF_vars(ReportReturn(q, "ctxError"))
       /\ WF_vars(CallUnregister(q))
       /\ WF_vars(\E size \in ReplySizes : Charge(q, size))
       /\ SF_vars(WriteBegin(q))
       /\ WF_vars(WriteFails(q) /\ OutputClosed)
       /\ WF_vars(~closable /\ (WriteSucceeds(q) \/ WriteFails(q)))
       /\ WF_vars(StopReturns(q)) /\ WF_vars(Initialized(q)) /\ WF_vars(Release(q))

FairSpec == Spec /\ Fairness

-----------------------------------------------------------------------------
(* Properties *)

(* The state is well formed, and neither the count of workers nor the      *)
(* retained bytes pass their limits (lines 166 and 183).                   *)
TypeOK ==
  /\ closable \in BOOLEAN
  /\ reader \in {"read", "dispatch", "stopping", "returned"}
  /\ stop \in {"idle", "called", "cancelled", "closed", "ended"}
  /\ workCount \in 0..MaxResponseWork /\ retained \in 0..MaxRetainedBytes
  /\ pending \in [Keys -> Requests \cup {NoRequest}]
  /\ phase \in [Requests -> Phases]
  /\ kind \in [Requests -> Kinds] /\ key \in [Requests -> Keys]
  /\ work \in [Requests -> Nat]
  /\ aborted \in [Requests -> BOOLEAN]
  /\ result \in [Requests -> Results]
  /\ writer \in Requests \cup {NoRequest}
  /\ replies \in [Requests -> Nat] /\ initialized \in [Requests -> Nat] /\ ends \in Nat

Working == {q \in Requests : phase[q] \notin {"unread", "done"}}

(* In a well-formed state, with both budgets within their limits, they are *)
(* exactly what the live workers hold: no path (refusal,                   *)
(* cancellation, failed charge, failed write, stop) leaks or returns twice *)
(* a reservation of lines 171-172 and 188-189.                             *)
BudgetExact ==
  /\ TypeOK
  /\ workCount = Cardinality(Working)
  /\ retained = SumFunctionOnSet(work, Working)

(* pending names exactly the calls whose callback is in flight, each under *)
(* its own id: a cancellation reaches the call it names and never one that *)
(* settled or that reuses the id, and no two callbacks share an id.        *)
PendingExact ==
  /\ \A k \in Keys : pending[k] # NoRequest =>
       /\ key[pending[k]] = k
       /\ kind[pending[k]] \in Registered
       /\ phase[pending[k]] \in {"callback", "returned"}
  /\ \A q \in Requests :
       kind[q] \in Registered /\ phase[q] \in {"callback", "returned"} =>
         pending[key[q]] = q

(* While the connection lives, a finished request was answered exactly     *)
(* once, unless it is a call that its own cancellation ended: completion   *)
(* wins over a cancellation that comes too late (line 416).                *)
AnsweredOnce ==
  \A q \in Requests :
    /\ replies[q] <= 1
    /\ phase[q] = "done" /\ ~Cancelled =>
         \/ replies[q] = 1
         \/ result[q] = "ctxError" /\ aborted[q]
    /\ result[q] = "ctxError" => replies[q] = 0

LifetimeStep ==
  /\ replies' # replies => ends = 0 \/ ~closable
  /\ initialized' # initialized => ends = 0
  /\ ends' # ends => ends = 0 /\ reader # "returned"
  /\ \A q \in Requests :
       /\ initialized'[q] <= replies[q]
       /\ phase[q] = "stopping" /\ phase'[q] # "stopping" => ends = 1

(* Callbacks and replies respect the lifetime of the connection: once End  *)
(* was called no Initialized runs and no reply is written, except that a   *)
(* write in progress on an output that cannot be closed may still end;     *)
(* Initialized runs at most once and only for an initialize whose reply    *)
(* was written, and a worker that stopped the connection settles only      *)
(* after End.                                                              *)
LifetimeOrder == [][LifetimeStep]_vars

(* When serveSessionbus returns nothing of the connection is left: all     *)
(* workers have settled, End was called, both budgets are empty and no     *)
(* call is registered.                                                     *)
ReturnedClean ==
  reader = "returned" =>
    /\ Working = {} /\ workCount = 0 /\ retained = 0
    /\ \A k \in Keys : pending[k] = NoRequest
    /\ writer = NoRequest /\ ends = 1

(* Once anything stops the connection, serveSessionbus returns: neither a  *)
(* blocked write, nor a pending callback, nor a second stop holds it.      *)
StopLeadsToReturn == stop # "idle" ~> reader = "returned"
=============================================================================
