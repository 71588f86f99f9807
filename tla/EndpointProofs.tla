--------------------------- MODULE EndpointProofs ---------------------------
(***************************************************************************)
(* host/endpoint.go: the safety of the private endpoint for any number of  *)
(* owners and calls, and of the bridge to it for any number of frames.     *)
(*                                                                         *)
(* The argument: the lock is held from before the first removal of the     *)
(* path to after the last, and by the child as long as it lives            *)
(* (LockExclusive); so no removal meets a listening successor              *)
(* (EndpointOwned), and the only owner a live child can reach is its own   *)
(* (CallsReachOwner).                                                      *)
(*                                                                         *)
(* The client's side, the stdio bridge: each copy has at most one frame in *)
(* hand (UpShape, DownShape), so that a copy that ends without error has   *)
(* passed on all its side had written, and nothing moves on that side any  *)
(* more.  Every nil in the channel, and the one that the select received,  *)
(* stands for such an end.                                                 *)
(***************************************************************************)
EXTENDS LaneEndpoint, StdioBridge, TLAPS

\* One owner, or its orphaned child, has the lock.
LockExclusive == \A p, q \in Procs : HasLock(p) /\ HasLock(q) => p = q

\* A call belongs to nobody before it dials, and only a dialed one is served.
CallShape ==
  \A c \in Calls :
    /\ client[c] = "idle" => at[c] = NoProc
    /\ at[c] = NoProc => server[c] = "none"
    /\ client[c] \in {"idle", "dialed", "left"} => actions[c] = {} /\ server[c] # "action"
    /\ response[c] = "result" => actions[c] = {at[c]} /\ at[c] # NoProc
    /\ client[c] = "result" => response[c] = "result" /\ server[c] = "done"

IInv ==
  /\ TypeOK /\ LockExclusive /\ EndpointOwned /\ CallShape /\ CallsReachOwner
  /\ AdmittedActionsJoined

\* The invariant holds before the first owner acquires the lock.
LEMMA InitIInv == Init => IInv
BY LaneEndpointAssumption
   DEF Init, IInv, TypeOK, LockExclusive, EndpointOwned, CallShape, CallsReachOwner,
       AdmittedActionsJoined, HasLock, Points, Listening

\* Every step of an owner, of its child's life or of its end keeps it.
LEMMA OwnerKeepsIInv ==
  ASSUME IInv, NEW p \in Procs, Owner(p)
  PROVE  IInv'
<1> USE LaneEndpointAssumption
    DEF IInv, TypeOK, HasLock, Points, Listening, Goto, SetListener, callVars
<1>1. CASE Acquire(p)
  BY <1>1 DEF Acquire, LockExclusive, EndpointOwned, CallShape, CallsReachOwner,
              AdmittedActionsJoined
<1>2. CASE RemoveStale(p)
  BY <1>2 DEF RemoveStale, LockExclusive, EndpointOwned, CallShape, CallsReachOwner,
              AdmittedActionsJoined
<1>3. CASE Bind(p)
  <2>1. TypeOK' /\ LockExclusive' /\ EndpointOwned'
    BY <1>3 DEF Bind, LockExclusive, EndpointOwned
  <2>2. CallShape' /\ CallsReachOwner' /\ AdmittedActionsJoined'
    BY <1>3 DEF Bind, CallShape, CallsReachOwner, AdmittedActionsJoined
  <2> QED BY <2>1, <2>2
<1>4. CASE Chmod(p)
  BY <1>4 DEF Chmod, LockExclusive, EndpointOwned, CallShape, CallsReachOwner,
              AdmittedActionsJoined
<1>13. CASE ListenFails(p)
  BY <1>13 DEF ListenFails, LockExclusive, EndpointOwned, CallShape, CallsReachOwner,
               AdmittedActionsJoined
<1>5. CASE ChmodFails(p)
  BY <1>5 DEF ChmodFails, Unlink, LockExclusive, EndpointOwned, CallShape, CallsReachOwner,
              AdmittedActionsJoined
<1>6. CASE StartChild(p)
  BY <1>6 DEF StartChild, LockExclusive, EndpointOwned, CallShape, CallsReachOwner,
              AdmittedActionsJoined
<1>7. CASE ChildExit(p)
  <2>1. TypeOK' /\ LockExclusive' /\ EndpointOwned'
    BY <1>7 DEF ChildExit, Broken, LockExclusive, EndpointOwned
  <2>2. CallShape' /\ CallsReachOwner' /\ AdmittedActionsJoined'
    BY <1>7 DEF ChildExit, Broken, CallShape, CallsReachOwner, AdmittedActionsJoined
  <2> QED BY <2>1, <2>2
<1>8. CASE CloseBegin(p)
  BY <1>8 DEF CloseBegin, LockExclusive, EndpointOwned, CallShape, CallsReachOwner,
              AdmittedActionsJoined
<1>9. CASE CloseListener(p)
  BY <1>9 DEF CloseListener, Unlink, LockExclusive, EndpointOwned, CallShape, CallsReachOwner,
              AdmittedActionsJoined
<1>10. CASE RemovePath(p)
  BY <1>10 DEF RemovePath, Unlink, LockExclusive, EndpointOwned, CallShape, CallsReachOwner,
               AdmittedActionsJoined
<1>11. CASE CloseLock(p)
  BY <1>11 DEF CloseLock, LockExclusive, EndpointOwned, CallShape, CallsReachOwner,
               AdmittedActionsJoined
<1>12. CASE Crash(p)
  <2>1. TypeOK' /\ LockExclusive' /\ EndpointOwned'
    BY <1>12 DEF Crash, LockExclusive, EndpointOwned
  <2>2. CallShape' /\ CallsReachOwner' /\ AdmittedActionsJoined'
    BY <1>12 DEF Crash, CallShape, CallsReachOwner, AdmittedActionsJoined
  <2> QED BY <2>1, <2>2
<1> QED BY <1>1, <1>2, <1>3, <1>4, <1>5, <1>6, <1>7, <1>8, <1>9, <1>10, <1>11, <1>12, <1>13
        DEF Owner, Listen

\* Every step of a lane call, on either side of its connection, keeps it.
LEMMA CallKeepsIInv ==
  ASSUME IInv, NEW c \in Calls, Client(c) \/ Accept(c) \/ Handle(c)
  PROVE  IInv'
<1> USE LaneEndpointAssumption DEF IInv, ClientGoto, ServerGoto
<1>1. CASE \E p \in Procs : Dial(c, p)
  <2> PICK p \in Procs : Dial(c, p) BY <1>1
  <2>1. sock # NoProc /\ listener[sock] = "open" => sock = p
    \* Both the listener and the child have the lock.
    BY DEF Dial, TypeOK, LockExclusive, HasLock, Points, Listening
  <2>2. TypeOK' /\ LockExclusive' /\ EndpointOwned'
    BY DEF Dial, TypeOK, LockExclusive, HasLock, EndpointOwned
  <2>3. CallShape' /\ CallsReachOwner' /\ AdmittedActionsJoined'
    BY <2>1 DEF Dial, TypeOK, CallShape, CallsReachOwner, AdmittedActionsJoined
  <2> QED BY <2>2, <2>3
<1>2. CASE Send(c)
  BY <1>2 DEF Send, TypeOK, LockExclusive, HasLock, EndpointOwned, CallShape,
              CallsReachOwner, AdmittedActionsJoined
<1>3. CASE CancelCall(c)
  BY <1>3 DEF CancelCall, Broken, TypeOK, LockExclusive, HasLock, EndpointOwned, CallShape,
              CallsReachOwner, AdmittedActionsJoined
<1>4. CASE Receive(c)
  BY <1>4 DEF Receive, TypeOK, LockExclusive, HasLock, EndpointOwned, CallShape,
              CallsReachOwner, AdmittedActionsJoined
<1>5. CASE Reset(c)
  BY <1>5 DEF Reset, Broken, TypeOK, LockExclusive, HasLock, EndpointOwned, CallShape,
              CallsReachOwner, AdmittedActionsJoined
<1>6. CASE Accept(c)
  BY <1>6 DEF Accept, TypeOK, LockExclusive, HasLock, EndpointOwned, CallShape,
              CallsReachOwner, AdmittedActionsJoined
<1>7. CASE DecodeFrame(c)
  BY <1>7 DEF DecodeFrame, TypeOK, LockExclusive, HasLock, EndpointOwned, CallShape,
              CallsReachOwner, AdmittedActionsJoined
<1>8. CASE PerformAction(c)
  BY <1>8 DEF PerformAction, TypeOK, LockExclusive, HasLock, EndpointOwned, CallShape,
              CallsReachOwner, AdmittedActionsJoined
<1>9. CASE Reply(c)
  BY <1>9 DEF Reply, TypeOK, LockExclusive, HasLock, EndpointOwned, CallShape,
              CallsReachOwner, AdmittedActionsJoined
<1> QED BY <1>1, <1>2, <1>3, <1>4, <1>5, <1>6, <1>7, <1>8, <1>9 DEF Client, Handle

\* ServeLane's own steps keep it.
LEMMA DrainKeepsIInv ==
  ASSUME IInv, NEW p \in Procs, Drain(p)
  PROVE  IInv'
BY DEF Drain, AcceptFails, ServeReturns, callVars, IInv, TypeOK, LockExclusive, HasLock,
       EndpointOwned, CallShape, CallsReachOwner, AdmittedActionsJoined

\* The invariant is inductive.
LEMMA Inductive == Spec => []IInv
<1>1. IInv /\ UNCHANGED vars => IInv'
  BY DEF vars, IInv, TypeOK, LockExclusive, HasLock, EndpointOwned, CallShape,
         CallsReachOwner, AdmittedActionsJoined
<1>2. IInv /\ [Next]_vars => IInv'
  BY <1>1, OwnerKeepsIInv, CallKeepsIInv, DrainKeepsIInv DEF Next
<1> QED BY InitIInv, <1>2, PTL DEF Spec

-----------------------------------------------------------------------------

(* For any number of owners and calls, the state is well formed and an     *)
(* owner's listener is open exactly from net.Listen to the first of Close, *)
(* a failed Chmod and the end of its process.                              *)
THEOREM TypeCorrect == Spec => []TypeOK
<1>1. IInv => TypeOK BY DEF IInv
<1> QED BY <1>1, Inductive, PTL

(* For any number of owners, crashed or not, the path of a listening owner *)
(* leads to its own socket: ListenPrivate's and Close's removals by name   *)
(* never take a live one away.                                             *)
THEOREM EndpointStaysOwned == Spec => []EndpointOwned
<1>1. IInv => EndpointOwned BY DEF IInv
<1> QED BY <1>1, Inductive, PTL

(* For any number of owners and calls, an action asked for by a child is   *)
(* performed by that child's owner or not at all.                          *)
THEOREM CallsReachTheirOwner == Spec => []CallsReachOwner
<1>1. IInv => CallsReachOwner BY DEF IInv
<1> QED BY <1>1, Inductive, PTL

(* For any number of calls, a result means a performed action, and         *)
(* ServeLane returns only when every admitted action is over.              *)
THEOREM LaneJoins == Spec => []AdmittedActionsJoined
<1>1. IInv => AdmittedActionsJoined BY DEF IInv
<1> QED BY <1>1, Inductive, PTL

-----------------------------------------------------------------------------
(* The stdio bridge *)

\* One side ended and all it had written was passed on.
UpThrough == eof /\ passed = typed
DownThrough == peerClosed /\ shown = answered

UpShape ==
  /\ up \in {"none", "read"} => passed = taken
  /\ up = "write" => taken = passed + 1
  /\ up \in {"send", "ended"} /\ result["up"] = "nil" => UpThrough

DownShape ==
  /\ down \in {"none", "read"} => shown = fetched
  /\ down = "write" => fetched = shown + 1
  /\ down \in {"send", "ended"} /\ result["down"] = "nil" => DownThrough

Received ==
  /\ \A i \in DOMAIN done : done[i] = "nil" => UpThrough \/ DownThrough
  /\ main \notin {"dial", "select"} /\ err = "nil" => UpThrough \/ DownThrough
  /\ err = "ctx" => ctx = "cancelled"

Undialled == main = "dial" => up = "none" /\ down = "none"

BridgeInv == Undialled /\ BridgeTypeOK /\ UpShape /\ DownShape /\ Received

(* Before the dial. *)
LEMMA InitBridgeInv == BridgeInit => BridgeInv
<1> SUFFICES ASSUME BridgeInit PROVE BridgeInv OBVIOUS
<1>1. result \in [{"up", "down"} -> {"nil", "error"}] BY DEF BridgeInit
<1>2. done \in Seq({"nil", "error"}) /\ Len(done) <= Capacity BY DEF BridgeInit, Capacity
<1>3. /\ typed \in 0..MaxFrames /\ taken \in 0..typed /\ passed \in 0..taken
      /\ answered \in 0..MaxFrames /\ fetched \in 0..answered /\ shown \in 0..fetched
  BY BridgeAssumption DEF BridgeInit
<1>4. BridgeTypeOK BY <1>1, <1>2, <1>3 DEF BridgeInit, BridgeTypeOK
<1>5. Undialled /\ UpShape /\ DownShape /\ Received
  BY DEF BridgeInit, Undialled, UpShape, DownShape, Received
<1> QED BY <1>4, <1>5 DEF BridgeInv

(* The steps of BridgeStdio itself. *)
LEMMA MainKeepsIInv == BridgeInv /\ Main => BridgeInv'
<1> SUFFICES ASSUME BridgeInv, Main PROVE BridgeInv' OBVIOUS
<1> USE DEF BridgeInv, Undialled, BridgeTypeOK, UpShape, DownShape, Received, UpThrough, DownThrough,
            Capacity, inward, outward, closing
<1>1. CASE DialEndpoint BY <1>1 DEF DialEndpoint
<1>2. CASE SelectDone BY <1>2 DEF SelectDone
<1>3. CASE SelectCancelled BY <1>3 DEF SelectCancelled
<1>4. CASE CloseConnection BY <1>4 DEF CloseConnection
<1>5. CASE CloseInput BY <1>5 DEF CloseInput
<1>6. CASE Return BY <1>6 DEF Return
<1> QED BY <1>1, <1>2, <1>3, <1>4, <1>5, <1>6 DEF Main, Select

(* The steps of the two copying goroutines. *)
LEMMA CopiesKeepIInv ==
  BridgeInv /\ (Up \/ UpReadFails \/ UpWrite \/ Down \/ DownWrite) => BridgeInv'
<1> SUFFICES ASSUME BridgeInv, Up \/ UpReadFails \/ UpWrite \/ Down \/ DownWrite PROVE BridgeInv'
  OBVIOUS
<1> USE DEF BridgeInv, Undialled, BridgeTypeOK, UpShape, DownShape, Received, UpThrough, DownThrough,
            Ends, Capacity, inward, outward, closing
<1>1. CASE UpRead BY <1>1 DEF UpRead
<1>2. CASE UpReadFails BY <1>2 DEF UpReadFails
<1>3. CASE UpWrite BY <1>3 DEF UpWrite
<1>4. CASE UpWriteFails BY <1>4 DEF UpWriteFails
<1>5. CASE UpSend BY <1>5 DEF UpSend
<1>6. CASE DownRead BY <1>6 DEF DownRead
<1>7. CASE DownWrite BY <1>7 DEF DownWrite
<1>8. CASE DownSend BY <1>8 DEF DownSend
<1> QED BY <1>1, <1>2, <1>3, <1>4, <1>5, <1>6, <1>7, <1>8 DEF Up, Down

(* What client, peer and caller do. *)
LEMMA SidesKeepIInv ==
  BridgeInv /\ (Type \/ EndInput \/ Answer \/ PeerClose \/ Cancel) => BridgeInv'
<1> SUFFICES ASSUME BridgeInv, Type \/ EndInput \/ Answer \/ PeerClose \/ Cancel PROVE BridgeInv'
  OBVIOUS
<1> USE BridgeAssumption
    DEF BridgeInv, Undialled, BridgeTypeOK, UpShape, DownShape, Received, UpThrough, DownThrough,
        Capacity, bridge, closing
<1>1. CASE Type BY <1>1 DEF Type
<1>2. CASE EndInput BY <1>2 DEF EndInput
<1>3. CASE Answer BY <1>3 DEF Answer
<1>4. CASE PeerClose BY <1>4 DEF PeerClose
<1>5. CASE Cancel BY <1>5 DEF Cancel
<1> QED BY <1>1, <1>2, <1>3, <1>4, <1>5

(* The invariant holds throughout. *)
LEMMA BridgeInductive == BridgeSpec => []BridgeInv
<1>1. BridgeInv /\ UNCHANGED bridgeVars => BridgeInv'
  BY DEF bridgeVars, inward, outward, closing, BridgeInv, Undialled, BridgeTypeOK, UpShape, DownShape, Received,
         UpThrough, DownThrough, Capacity
<1>2. BridgeInv /\ [BridgeNext]_bridgeVars => BridgeInv'
  BY <1>1, MainKeepsIInv, CopiesKeepIInv, SidesKeepIInv DEF BridgeNext
<1> QED BY <1>2, InitBridgeInv, PTL DEF BridgeSpec

(* For any number of frames, the state of the bridge is well formed, its   *)
(* channel never holds more than two results and nothing is written that   *)
(* was not read.                                                           *)
THEOREM BridgeTypeCorrect == BridgeSpec => []BridgeTypeOK
<1>1. BridgeInv => BridgeTypeOK BY DEF BridgeInv
<1> QED BY <1>1, BridgeInductive, PTL

(* For any number of frames and any order of ends, errors, closing and     *)
(* cancellation, what BridgeStdio returns is true.                         *)
THEOREM BridgeReturnsTruth == BridgeSpec => []ResultTrue
<1>1. BridgeInv => ResultTrue BY DEF BridgeInv, ResultTrue, Received, UpThrough, DownThrough
<1> QED BY <1>1, BridgeInductive, PTL
=============================================================================
