---------------------------- MODULE StdioBridge ----------------------------
(***************************************************************************)
(* host/endpoint.go, BridgeStdio: two goroutines copy between the client's *)
(* stdio and a connection to the private endpoint.  The first of them that *)
(* ends, or the context, ends the bridge; the other one is left to find    *)
(* its side closed.  An output that nobody reads blocks its goroutine for  *)
(* as long as it likes, and so does a peer that does not read.             *)
(* Frames are counted: each copy keeps their order and has at most one.    *)
(***************************************************************************)
EXTENDS Naturals, Sequences

CONSTANT MaxFrames \* bound: frames in each direction
ASSUME BridgeAssumption == MaxFrames \in Nat

VARIABLES
  ctx,                     \* "live", "cancelled"
  main, err,               \* where BridgeStdio is; what it will return, then has returned
  up, down,                \* the goroutines: input to connection, connection to output
  result,                  \* result[g]: copyErr of goroutine g
  done,                    \* the channel
  typed, eof, taken,       \* input: written and ended by the client, read by up
  passed,                  \* written to the connection
  answered, peerClosed, fetched, \* connection: written and ended by the peer, read by down
  shown,                   \* written to output
  connClosed, inputClosed  \* closed by BridgeStdio

inward == <<typed, eof, taken, passed>>
outward == <<answered, peerClosed, fetched, shown>>
closing == <<connClosed, inputClosed>>
bridgeVars == <<ctx, main, err, up, down, result, done, inward, outward, closing>>

BridgeInit ==
  /\ ctx = "live" /\ main = "dial" /\ err = "nil"
  /\ up = "none" /\ down = "none"
  /\ result = [g \in {"up", "down"} |-> "nil"] /\ done = <<>>
  /\ typed = 0 /\ eof = FALSE /\ taken = 0 /\ passed = 0
  /\ answered = 0 /\ peerClosed = FALSE /\ fetched = 0 /\ shown = 0
  /\ connClosed = FALSE /\ inputClosed = FALSE

\* Fault: a channel with room for the result that the select receives.
CapacityOne == 1

Capacity == 2

-----------------------------------------------------------------------------
(* BridgeStdio *)

DialEndpoint ==
  /\ main = "dial"
  /\ \/ main' = "select" /\ up' = "read" /\ down' = "read" /\ UNCHANGED err
     \/ main' = "returned" /\ err' = "error" /\ UNCHANGED <<up, down>>
  /\ UNCHANGED <<ctx, result, done, inward, outward, closing>>

SelectDone ==
  /\ main = "select" /\ done # <<>>
  /\ err' = Head(done) /\ done' = Tail(done)
  /\ main' = "closeConnection"
  /\ UNCHANGED <<ctx, up, down, result, inward, outward, closing>>

SelectCancelled ==
  /\ main = "select" /\ ctx = "cancelled"
  /\ err' = "ctx" /\ main' = "closeConnection"
  /\ UNCHANGED <<ctx, up, down, result, done, inward, outward, closing>>

\* Fault: only the end of both copies ends the bridge.
SelectBoth == (SelectDone /\ up = "ended" /\ down = "ended") \/ SelectCancelled

Select == SelectDone \/ SelectCancelled

CloseConnection ==
  /\ main = "closeConnection"
  /\ connClosed' = TRUE /\ main' = "closeInput"
  /\ UNCHANGED <<ctx, err, up, down, result, done, inward, outward, inputClosed>>

CloseInput ==
  /\ main = "closeInput"
  /\ inputClosed' = TRUE /\ main' = "return"
  /\ UNCHANGED <<ctx, err, up, down, result, done, inward, outward, connClosed>>

Return ==
  /\ main = "return"
  /\ main' = "returned" /\ err' = IF ctx = "cancelled" THEN "ctx" ELSE err
  /\ UNCHANGED <<ctx, up, down, result, done, inward, outward, closing>>

-----------------------------------------------------------------------------
(* io.Copy(connection, input), CloseWrite *)

Ends(g, copyErr) == result' = [result EXCEPT ![g] = copyErr]

UpRead ==
  /\ up = "read"
  /\ \/ ~inputClosed /\ taken < typed /\ taken' = taken + 1 /\ up' = "write" /\ UNCHANGED result
     \/ ~inputClosed /\ taken = typed /\ eof /\ Ends("up", "nil") /\ up' = "send" /\ UNCHANGED taken
     \/ inputClosed /\ Ends("up", "error") /\ up' = "send" /\ UNCHANGED taken
  /\ UNCHANGED <<ctx, main, err, down, done, typed, eof, passed, outward, closing>>

UpReadFails ==
  /\ up = "read"
  /\ Ends("up", "error") /\ up' = "send"
  /\ UNCHANGED <<ctx, main, err, down, done, inward, outward, closing>>

UpWrite ==
  /\ up = "write" /\ ~connClosed /\ ~peerClosed
  /\ passed' = passed + 1 /\ up' = "read"
  /\ UNCHANGED <<ctx, main, err, down, result, done, typed, eof, taken, outward, closing>>

UpWriteFails ==
  /\ up = "write" /\ (connClosed \/ peerClosed)
  /\ Ends("up", "error") /\ up' = "send"
  /\ UNCHANGED <<ctx, main, err, down, done, inward, outward, closing>>

\* Fault: copyErr is dropped.
UpSendNil ==
  /\ up = "send" /\ Len(done) < Capacity
  /\ done' = Append(done, "nil") /\ up' = "ended"
  /\ UNCHANGED <<ctx, main, err, down, result, inward, outward, closing>>

\* CloseWrite tells the peer, who may end by itself as well, before the send.
UpSend ==
  /\ up = "send" /\ Len(done) < Capacity
  /\ done' = Append(done, result["up"]) /\ up' = "ended"
  /\ UNCHANGED <<ctx, main, err, down, result, inward, outward, closing>>

-----------------------------------------------------------------------------
(* io.Copy(output, connection) *)

\* A frame, the end, or an error: closed here, or reset by the peer.
DownRead ==
  /\ down = "read"
  /\ \/ ~connClosed /\ fetched < answered /\ fetched' = fetched + 1 /\ down' = "write" /\ UNCHANGED result
     \/ ~connClosed /\ peerClosed /\ fetched = answered /\ Ends("down", "nil") /\ down' = "send" /\ UNCHANGED fetched
     \/ (connClosed \/ peerClosed) /\ Ends("down", "error") /\ down' = "send" /\ UNCHANGED fetched
  /\ UNCHANGED <<ctx, main, err, up, done, inward, answered, peerClosed, shown, closing>>

\* The output takes the frame, or fails.
DownWrite ==
  /\ down = "write"
  /\ \/ shown' = shown + 1 /\ down' = "read" /\ UNCHANGED result
     \/ Ends("down", "error") /\ down' = "send" /\ UNCHANGED shown
  /\ UNCHANGED <<ctx, main, err, up, done, inward, answered, peerClosed, fetched, closing>>

DownSend ==
  /\ down = "send" /\ Len(done) < Capacity
  /\ done' = Append(done, result["down"]) /\ down' = "ended"
  /\ UNCHANGED <<ctx, main, err, up, result, inward, outward, closing>>

-----------------------------------------------------------------------------
(* The client, the peer and the caller *)

bridge == <<main, err, up, down, result, done, taken, passed, fetched, shown, closing>>

Type ==
  /\ ~eof /\ typed < MaxFrames /\ typed' = typed + 1
  /\ UNCHANGED <<bridge, ctx, eof, answered, peerClosed>>
EndInput ==
  /\ ~eof /\ eof' = TRUE
  /\ UNCHANGED <<bridge, ctx, typed, answered, peerClosed>>
Answer ==
  /\ up # "none" /\ ~peerClosed /\ answered < MaxFrames /\ answered' = answered + 1
  /\ UNCHANGED <<bridge, ctx, typed, eof, peerClosed>>
PeerClose ==
  /\ up # "none" /\ ~peerClosed /\ peerClosed' = TRUE
  /\ UNCHANGED <<bridge, ctx, typed, eof, answered>>
Cancel ==
  /\ ctx = "live" /\ ctx' = "cancelled"
  /\ UNCHANGED <<bridge, typed, eof, answered, peerClosed>>

-----------------------------------------------------------------------------
Main == DialEndpoint \/ Select \/ CloseConnection \/ CloseInput \/ Return
Up == UpRead \/ UpWriteFails \/ UpSend
Down == DownRead \/ DownSend

BridgeNext ==
  \/ Main \/ Up \/ UpReadFails \/ UpWrite \/ Down \/ DownWrite
  \/ Type \/ EndInput \/ Answer \/ PeerClose \/ Cancel

\* Goroutines that can run do; a peer and an output that block are not fair.
BridgeSpec == BridgeInit /\ [][BridgeNext]_bridgeVars /\ WF_bridgeVars(Main) /\ WF_bridgeVars(Up) /\ WF_bridgeVars(Down)

-----------------------------------------------------------------------------
(* Properties *)

(* The state is well formed, and the counts of each direction follow one   *)
(* another: nothing is written that was not read.                          *)
BridgeTypeOK ==
  /\ ctx \in {"live", "cancelled"} /\ err \in {"nil", "error", "ctx"}
  /\ main \in {"dial", "select", "closeConnection", "closeInput", "return", "returned"}
  /\ up \in {"none", "read", "write", "send", "ended"} /\ down \in {"none", "read", "write", "send", "ended"}
  /\ result \in [{"up", "down"} -> {"nil", "error"}]
  /\ done \in Seq({"nil", "error"}) /\ Len(done) <= Capacity
  /\ eof \in BOOLEAN /\ peerClosed \in BOOLEAN /\ connClosed \in BOOLEAN /\ inputClosed \in BOOLEAN
  /\ typed \in 0..MaxFrames /\ taken \in 0..typed /\ passed \in 0..taken
  /\ answered \in 0..MaxFrames /\ fetched \in 0..answered /\ shown \in 0..fetched

(* What BridgeStdio returns is true: nil means that one side ended and all *)
(* it had written was passed on, whatever both goroutines and the closing  *)
(* of the connection have reported meanwhile.                              *)
ResultTrue ==
  main = "returned" =>
    /\ err = "nil" => (eof /\ passed = typed) \/ (peerClosed /\ shown = answered)
    /\ err = "ctx" => ctx = "cancelled"

(* A cancelled bridge returns, also with a blocked output, a silent client *)
(* and a peer that does not read; and, unless the output stays blocked, it *)
(* returns once its peer is gone, although the client keeps its input open. *)
BridgeReturns ==
  /\ ctx = "cancelled" ~> main = "returned"
  /\ <>[](down # "write") => (peerClosed ~> main = "returned")

(* Unless the output stays blocked, a bridge that returned leaves no       *)
(* goroutine behind: both find their side closed, and the channel has room *)
(* for both results, received or not.                                      *)
NothingLeft ==
  <>[](down # "write") =>
    (main = "returned" ~> up \in {"none", "ended"} /\ down \in {"none", "ended"})
=============================================================================
