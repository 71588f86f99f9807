----------------------------- MODULE McpServer -----------------------------
(***************************************************************************)
(* mcp/server.go: Server.Serve, the line-oriented MCP server.              *)
(*                                                                         *)
(* The scanner starts one goroutine per line.  The goroutines finish in    *)
(* any order and share the output under Server.mu; a goroutine may sit     *)
(* inside a blocked Write with the mutex held.  Serve returns when all     *)
(* goroutines have finished, or as soon as its context is cancelled,       *)
(* whatever the goroutines are doing.  A line is reduced to the way        *)
(* decodeRequest and call classify it.                                     *)
(***************************************************************************)
EXTENDS Naturals, Sequences, FiniteSets, SequencesExt

CONSTANTS
  Lines,       \* the non-empty lines the client may send
  Kinds,       \* the classes of lines that occur
  NoLine,
  InputCloses, \* is the input an io.Closer, closed when the context ends?
  Cancels      \* may the context be cancelled?

ASSUME McpServerAssumption ==
  /\ NoLine \notin Lines
  /\ Kinds \subseteq {"malformed", "notification", "local", "tool"}
  /\ InputCloses \in BOOLEAN /\ Cancels \in BOOLEAN

VARIABLES
  ctx,       \* "live" or "cancelled"
  input,     \* "open", "closed" (by the AfterFunc), as seen by the scanner
  reader,    \* "scan", "wait" (the select) or "returned"
  readErr,   \* scanner.Err() is an error
  kind,      \* kind[l]: how line l decodes, NoLine before it is read
  handler,   \* handler[l]: where the goroutine of l is
  reply,     \* reply[l]: what it will write
  mu,        \* the line whose goroutine holds Server.mu, or NoLine
  writeErr,  \* the line whose failed write Server.writeErr reports, or NoLine
  output,    \* <<line, reply>> of the successful writes, in order
  failed,    \* the lines whose writes failed, in order
  ret,       \* what Serve returned
  atReturn   \* history: the output when Serve returned

vars == <<ctx, input, reader, readErr, kind, handler, reply, mu, writeErr,
          output, failed, ret, atReturn>>

Init ==
  /\ ctx = "live"
  /\ input = "open"
  /\ reader = "scan"
  /\ readErr = FALSE
  /\ kind = [l \in Lines |-> NoLine]
  /\ handler = [l \in Lines |-> "none"]
  /\ reply = [l \in Lines |-> "none"]
  /\ mu = NoLine
  /\ writeErr = NoLine
  /\ output = <<>>
  /\ failed = <<>>
  /\ ret = "none"
  /\ atReturn = <<>>

Goto(l, point) == handler' = [handler EXCEPT ![l] = point]
Answer(l, r) == Goto(l, "lock") /\ reply' = [reply EXCEPT ![l] = r]

-----------------------------------------------------------------------------
(* The caller's context and the scanner *)

Cancel ==
  /\ Cancels /\ ctx = "live"
  /\ ctx' = "cancelled"
  /\ UNCHANGED <<input, reader, readErr, kind, handler, reply, mu, writeErr,
                 output, failed, ret, atReturn>>

\* context.AfterFunc closes the input, until the deferred stop() removes it.
CloseInput ==
  /\ InputCloses /\ ctx = "cancelled" /\ input = "open" /\ ret = "none"
  /\ input' = "closed"
  /\ UNCHANGED <<ctx, reader, readErr, kind, handler, reply, mu, writeErr,
                 output, failed, ret, atReturn>>

\* A closed input still yields the lines the scanner has buffered.
Scan(l, k) ==
  /\ reader = "scan" /\ handler[l] = "none"
  /\ kind' = [kind EXCEPT ![l] = k]
  /\ Goto(l, "decode")
  /\ UNCHANGED <<ctx, input, reader, readErr, reply, mu, writeErr, output,
                 failed, ret, atReturn>>

\* EOF, a read error or a line beyond 1 MiB.  Closing the input adds nothing:
\* a pending read fails, but an end the scanner has already read is still nil.
ScanEnds(err) ==
  /\ reader = "scan"
  /\ reader' = "wait"
  /\ readErr' = err
  /\ UNCHANGED <<ctx, input, kind, handler, reply, mu, writeErr, output,
                 failed, ret, atReturn>>

-----------------------------------------------------------------------------
(* handle: one goroutine per line *)

\* Fault: a message without an id is answered.
DecodeAnswersAll(l) ==
  /\ handler[l] = "decode"
  /\ \/ kind[l] \in {"malformed", "notification"} /\ Answer(l, "error")
     \/ kind[l] = "local" /\ \E r \in {"result", "error"} : Answer(l, r)
     \/ kind[l] = "tool" /\ Goto(l, "prepare") /\ UNCHANGED reply
  /\ UNCHANGED <<ctx, input, reader, readErr, kind, mu, writeErr, output,
                 failed, ret, atReturn>>

\* decodeRequest, then call for everything that needs no backend: initialize
\* and tools/list answer a result, an unknown method or bad params an error.
Decode(l) ==
  /\ handler[l] = "decode"
  /\ \/ kind[l] = "malformed" /\ Answer(l, "error")
     \/ kind[l] = "notification" /\ Goto(l, "done") /\ UNCHANGED reply
     \/ kind[l] = "local" /\ \E r \in {"result", "error"} : Answer(l, r)
     \/ kind[l] = "tool" /\ Goto(l, "prepare") /\ UNCHANGED reply
  /\ UNCHANGED <<ctx, input, reader, readErr, kind, mu, writeErr, output,
                 failed, ret, atReturn>>

\* Backend.Prepare
Prepare(l) ==
  /\ handler[l] = "prepare"
  /\ \/ Goto(l, "action") /\ UNCHANGED reply
     \/ Answer(l, "error")
  /\ UNCHANGED <<ctx, input, reader, readErr, kind, mu, writeErr, output,
                 failed, ret, atReturn>>

\* Action returns a result, or an error, or bytes that are not JSON.
Action(l) ==
  /\ handler[l] = "action"
  /\ \E r \in {"result", "error"} : Answer(l, r)
  /\ UNCHANGED <<ctx, input, reader, readErr, kind, mu, writeErr, output,
                 failed, ret, atReturn>>

\* write: mu.Lock(), and the Encode begins
WriteBegin(l) ==
  /\ handler[l] = "lock" /\ mu = NoLine
  /\ mu' = l
  /\ Goto(l, "write")
  /\ UNCHANGED <<ctx, input, reader, readErr, kind, reply, writeErr, output,
                 failed, ret, atReturn>>

\* Fault: the last write decides.
KeepErrorLast(err) == err

\* The error Server.writeErr keeps after one more write ended with err.
KeepError(err) == IF writeErr = NoLine THEN err ELSE writeErr

\* Encode returns; the first error stays; mu.Unlock()
WriteEnd(l, ok) ==
  /\ handler[l] = "write"
  /\ IF ok THEN output' = Append(output, <<l, reply[l]>>) /\ UNCHANGED failed
           ELSE failed' = Append(failed, l) /\ UNCHANGED output
  /\ writeErr' = KeepError(IF ok THEN NoLine ELSE l)
  /\ mu' = NoLine
  /\ Goto(l, "done")
  /\ UNCHANGED <<ctx, input, reader, readErr, kind, reply, ret, atReturn>>

-----------------------------------------------------------------------------
(* Serve's select and its returns *)

Return(r) ==
  /\ reader' = "returned"
  /\ ret' = r
  /\ atReturn' = output
  /\ UNCHANGED <<ctx, input, readErr, kind, handler, reply, mu, writeErr,
                 output, failed>>

\* Fault: a goroutine counts as done before its write has ended.
JoinedLoosely == \A l \in Lines : handler[l] \in {"none", "done", "write"}

\* calls.Wait() has returned
Joined == \A l \in Lines : handler[l] \in {"none", "done"}

ReturnJoined ==
  /\ reader = "wait" /\ Joined
  /\ Return(IF readErr THEN "readErr"
            ELSE IF writeErr # NoLine THEN "writeErr" ELSE "nil")

\* Fault: a cancelled Serve joins its goroutines first.
ReturnCancelledJoined ==
  /\ reader = "wait" /\ ctx = "cancelled" /\ Joined
  /\ Return("ctx")

ReturnCancelled ==
  /\ reader = "wait" /\ ctx = "cancelled"
  /\ Return("ctx")

-----------------------------------------------------------------------------
Handle(l) ==
  \/ Decode(l) \/ Prepare(l) \/ Action(l)
  \/ WriteBegin(l) \/ \E ok \in BOOLEAN : WriteEnd(l, ok)

Next ==
  \/ Cancel \/ CloseInput
  \/ \E l \in Lines, k \in Kinds : Scan(l, k)
  \/ \E err \in BOOLEAN : ScanEnds(err)
  \/ \E l \in Lines : Handle(l)
  \/ ReturnJoined \/ ReturnCancelled

Spec == Init /\ [][Next]_vars

\* Go runs the AfterFunc, a Read of a closed input returns, the select is
\* taken.  Nothing is assumed of the backend, of Write or of the client.
FairSpec ==
  /\ Spec
  /\ WF_vars(CloseInput)
  /\ WF_vars(input = "closed" /\ \E err \in BOOLEAN : ScanEnds(err))
  /\ WF_vars(ReturnJoined \/ ReturnCancelled)

-----------------------------------------------------------------------------
(* Properties *)

Written(l) == {i \in DOMAIN output : output[i][1] = l}
Lost(l) == {i \in DOMAIN failed : failed[i] = l}

(* The state is well formed, and frames never interleave on the output:    *)
(* the one goroutine inside Encode is the one that holds Server.mu.        *)
TypeOK ==
  /\ ctx \in {"live", "cancelled"} /\ input \in {"open", "closed"}
  /\ reader \in {"scan", "wait", "returned"} /\ readErr \in BOOLEAN
  /\ kind \in [Lines -> Kinds \cup {NoLine}]
  /\ handler \in [Lines -> {"none", "decode", "prepare", "action", "lock",
                            "write", "done"}]
  /\ reply \in [Lines -> {"none", "result", "error"}]
  /\ writeErr \in Lines \cup {NoLine} /\ failed \in Seq(Lines)
  /\ output \in Seq(Lines \X {"result", "error"})
  /\ ret \in {"none", "nil", "readErr", "writeErr", "ctx"}
  /\ mu \in Lines \cup {NoLine}
  /\ \A l \in Lines : handler[l] = "write" <=> mu = l

(* A request is answered at most once and by what its own goroutine found, *)
(* a malformed line by an error, a notification never; when its goroutine  *)
(* has ended it was answered or its write failed.                          *)
OneReplyEach ==
  \A l \in Lines :
    /\ Cardinality(Written(l)) + Cardinality(Lost(l)) =
         IF handler[l] = "done" /\ kind[l] # "notification" THEN 1 ELSE 0
    /\ \A i \in Written(l) :
         output[i][2] = reply[l] /\ (kind[l] = "malformed" => reply[l] = "error")

(* Server.writeErr is the first failure of a write, whatever the order in  *)
(* which the goroutines reach the output and whatever succeeds later.      *)
FirstFailureKept ==
  writeErr = IF failed = <<>> THEN NoLine ELSE failed[1]

(* What Serve returns is true of the connection: nil means that every      *)
(* request read was answered, a write error that one was not, and after    *)
(* either, as after a read error, no goroutine is left to write.  Only a   *)
(* cancelled Serve returns before its goroutines, which may reply later.   *)
ReturnHonest ==
  /\ ret \in {"nil", "readErr", "writeErr"} => Joined /\ output = atReturn
  /\ ret = "nil" => failed = <<>>
  /\ ret = "writeErr" => failed # <<>>
  /\ ret = "ctx" => ctx = "cancelled"

(* A cancelled Serve returns, even with a stopped output, a backend that   *)
(* does not return and a client that sends nothing.                        *)
CancelReturns == ctx = "cancelled" ~> ret # "none"
=============================================================================
