--------------------------- MODULE LaneEndpoint ---------------------------
(***************************************************************************)
(* One session's private socket through the lives of its owners:           *)
(* host/endpoint.go (ListenPrivate, PrivateEndpoint.Close), host/launch.go *)
(* (StartChild, Child.Close) and mcp/lane.go (LaneBackend.Action, the      *)
(* client inside the child; ServeLane, the server inside the owner).       *)
(*                                                                         *)
(* An owner acquires the session lock, listens, serves, starts the child,  *)
(* and closes; it may crash anywhere, and its child, which inherits the    *)
(* lock descriptor, may outlive it.  The lock is used as module            *)
(* SessionLock specifies it: one process, or its orphaned child, holds it. *)
(* The path is replaced and removed by name, never by identity, so all     *)
(* that protects a live socket is the order of these steps.                *)
(***************************************************************************)
EXTENDS Naturals, FiniteSets

CONSTANTS
  Procs,   \* owner processes, one life each
  Calls,   \* lane calls
  NoProc

ASSUME LaneEndpointAssumption == NoProc \notin Procs

VARIABLES
  pc,        \* pc[p]: where owner p is
  child,     \* child[p]: p's native child is "none", "alive" or "exited"
  sock,      \* the owner whose socket (live or stale) the path names, or NoProc
  listener,  \* listener[p]: "none", "open" or "closed"
  serve,     \* serve[p]: ServeLane is "none", "accept", "drain" or "returned"
  by,        \* by[c]: the owner whose child makes call c, NoProc before
  at,        \* at[c]: the owner whose listener took c's connection
  client,    \* client[c]: where LaneBackend.Action is, or what it returned
  server,    \* server[c]: where serveLaneCall is
  response,  \* response[c]: the frame serveLaneCall composed
  actions    \* actions[c]: the owners whose backend performed the action

vars == <<pc, child, sock, listener, serve, by, at, client, server, response,
          actions>>
callVars == <<by, at, client, server, response, actions>>

Listening == {"bound", "open", "running", "closing"}
Points == {"start", "locked", "cleared", "unlinked", "removed", "closed", "gone"}
            \cup Listening

Init ==
  /\ pc = [p \in Procs |-> "start"]
  /\ child = [p \in Procs |-> "none"]
  /\ sock = NoProc
  /\ listener = [p \in Procs |-> "none"]
  /\ serve = [p \in Procs |-> "none"]
  /\ by = [c \in Calls |-> NoProc]
  /\ at = [c \in Calls |-> NoProc]
  /\ client = [c \in Calls |-> "idle"]
  /\ server = [c \in Calls |-> "none"]
  /\ response = [c \in Calls |-> "none"]
  /\ actions = [c \in Calls |-> {}]

Goto(p, point) == pc' = [pc EXCEPT ![p] = point]
SetListener(p, state) == listener' = [listener EXCEPT ![p] = state]

\* Fault: Child.Close releases the lock before it closes the endpoint.
HasLockReleasedFirst(p) ==
  pc[p] \notin {"start", "unlinked", "removed", "closed", "gone"} \/ child[p] = "alive"

\* Fault: StartChild does not pass the descriptor of the lock on.
HasLockUninherited(p) == pc[p] \notin {"start", "closed", "gone"}

\* p has the lock description open, itself or through its child.
HasLock(p) == pc[p] \notin {"start", "closed", "gone"} \/ child[p] = "alive"

-----------------------------------------------------------------------------
(* The owner *)

\* AcquireSessionLock: what module SessionLock promises of it
Acquire(p) ==
  /\ pc[p] = "start"
  /\ \A q \in Procs : ~HasLock(q)
  /\ Goto(p, "locked")
  /\ UNCHANGED <<child, sock, listener, serve, callVars>>

\* Fault: the path is not removed before net.Listen.
RemoveStaleSkipped(p) ==
  /\ pc[p] = "locked"
  /\ Goto(p, "cleared")
  /\ UNCHANGED <<child, sock, listener, serve, callVars>>

\* ListenPrivate: os.Remove of whatever an earlier owner left
RemoveStale(p) ==
  /\ pc[p] = "locked"
  /\ sock' = NoProc
  /\ Goto(p, "cleared")
  /\ UNCHANGED <<child, listener, serve, callVars>>

\* os.MkdirAll, os.Remove for another reason than a missing path, or net.Listen
\* fails: what the path names stays, and the caller gives up.
ListenFails(p) ==
  /\ pc[p] \in {"locked", "cleared"}
  /\ Goto(p, "removed")
  /\ UNCHANGED <<child, sock, listener, serve, callVars>>

\* An unlink whose failure does not stop its caller
Unlink == sock' \in {NoProc, sock}

\* net.Listen; an existing path is EADDRINUSE
Bind(p) ==
  /\ pc[p] = "cleared" /\ sock = NoProc
  /\ sock' = p
  /\ SetListener(p, "open")
  /\ Goto(p, "bound")
  /\ UNCHANGED <<child, serve, callVars>>

\* os.Chmod; the caller starts ServeLane on the endpoint it gets
Chmod(p) ==
  /\ pc[p] = "bound"
  /\ Goto(p, "open")
  /\ serve' = [serve EXCEPT ![p] = "accept"]
  /\ UNCHANGED <<child, sock, listener, callVars>>

\* os.Chmod fails: Listener.Close, which unlinks too, and os.Remove, unchecked
ChmodFails(p) ==
  /\ pc[p] = "bound"
  /\ Unlink
  /\ SetListener(p, "closed")
  /\ Goto(p, "removed")
  /\ UNCHANGED <<child, serve, callVars>>

\* The child inherits the lock's descriptor through ExtraFiles.
StartChild(p) ==
  /\ pc[p] = "open"
  /\ child' = [child EXCEPT ![p] = "alive"]
  /\ Goto(p, "running")
  /\ UNCHANGED <<sock, listener, serve, callVars>>

\* How a call ends without a response: "left" had not sent its frame.
Broken(c) ==
  IF client[c] = "dialed" THEN "left"
  ELSE IF client[c] = "sent" THEN "failed" ELSE client[c]

\* The calls whose process is p's child end with it.
ChildExit(p) ==
  /\ child[p] = "alive"
  /\ child' = [child EXCEPT ![p] = "exited"]
  /\ client' = [c \in Calls |-> IF by[c] = p THEN Broken(c) ELSE client[c]]
  /\ UNCHANGED <<pc, sock, listener, serve, by, at, server, response, actions>>

\* Child.Close: stop(ctx) asks the child to end
CloseBegin(p) ==
  /\ pc[p] = "running"
  /\ Goto(p, "closing")
  /\ UNCHANGED <<child, sock, listener, serve, callVars>>

\* Fault: Close does not wait for the child.
CloseListenerUnwaited(p) ==
  /\ pc[p] = "closing"
  /\ SetListener(p, "closed")
  /\ sock' = NoProc
  /\ Goto(p, "unlinked")
  /\ UNCHANGED <<child, serve, callVars>>

\* c.Wait(), then Listener.Close closes and tries to unlink the path
CloseListener(p) ==
  /\ pc[p] = "closing" /\ child[p] = "exited"
  /\ SetListener(p, "closed")
  /\ Unlink
  /\ Goto(p, "unlinked")
  /\ UNCHANGED <<child, serve, callVars>>

\* Fault: a path that Listener.Close has removed already is an error.
RemovePathStrict(p) ==
  /\ pc[p] = "unlinked" /\ sock = p
  /\ sock' = NoProc
  /\ Goto(p, "removed")
  /\ UNCHANGED <<child, listener, serve, callVars>>

\* PrivateEndpoint.Close: os.Remove(e.Path) once more; an error is joined to what
\* Child.Close returns, which goes on to the lock.
RemovePath(p) ==
  /\ pc[p] = "unlinked"
  /\ Unlink
  /\ Goto(p, "removed")
  /\ UNCHANGED <<child, listener, serve, callVars>>

\* lock.Close() releases the session last
CloseLock(p) ==
  /\ pc[p] = "removed"
  /\ Goto(p, "closed")
  /\ UNCHANGED <<child, sock, listener, serve, callVars>>

\* The process ends: its descriptors close, its goroutines stop, the path and
\* the child stay.  Also what becomes of an owner that exits after Close, or
\* because ListenPrivate or StartChild failed.
Crash(p) ==
  /\ pc[p] \notin {"start", "gone"}
  /\ Goto(p, "gone")
  /\ listener' = [listener EXCEPT ![p] = IF @ = "open" THEN "closed" ELSE @]
  /\ serve' = [serve EXCEPT ![p] = "none"]
  /\ server' = [c \in Calls |-> IF at[c] = p THEN "done" ELSE server[c]]
  /\ response' = [c \in Calls |->
       IF at[c] = p /\ server[c] # "done" THEN "none" ELSE response[c]]
  /\ UNCHANGED <<child, sock, by, at, client, actions>>

-----------------------------------------------------------------------------
(* LaneBackend.Action, in the child *)

ClientGoto(c, point) == client' = [client EXCEPT ![c] = point]

\* DialContext reaches the socket the path names now, if it listens
Dial(c, p) ==
  /\ client[c] = "idle" /\ child[p] = "alive"
  /\ by' = [by EXCEPT ![c] = p]
  /\ IF sock # NoProc /\ listener[sock] = "open"
     THEN at' = [at EXCEPT ![c] = sock] /\ ClientGoto(c, "dialed")
     ELSE ClientGoto(c, "left") /\ UNCHANGED at
  /\ UNCHANGED <<pc, child, sock, listener, serve, server, response, actions>>

\* The request frame is written
Send(c) ==
  /\ client[c] = "dialed"
  /\ ClientGoto(c, "sent")
  /\ UNCHANGED <<pc, child, sock, listener, serve, by, at, server, response, actions>>

\* The context ends: the AfterFunc closes the connection
CancelCall(c) ==
  /\ client[c] \in {"dialed", "sent"}
  /\ ClientGoto(c, Broken(c))
  /\ UNCHANGED <<pc, child, sock, listener, serve, by, at, server, response, actions>>

\* Decode of the response frame
Receive(c) ==
  /\ client[c] = "sent" /\ server[c] = "done" /\ response[c] # "none"
  /\ ClientGoto(c, response[c])
  /\ UNCHANGED <<pc, child, sock, listener, serve, by, at, server, response, actions>>

\* The connection ends without a frame: the server died, or the listener
\* closed before it accepted the connection
Reset(c) ==
  /\ client[c] \in {"dialed", "sent"}
  /\ \/ server[c] = "done" /\ response[c] = "none"
     \/ server[c] = "none" /\ listener[at[c]] = "closed"
  /\ ClientGoto(c, Broken(c))
  /\ UNCHANGED <<pc, child, sock, listener, serve, by, at, server, response, actions>>

-----------------------------------------------------------------------------
(* ServeLane and serveLaneCall, in the owner *)

ServerGoto(c, point) == server' = [server EXCEPT ![c] = point]

\* Accept takes a queued connection, which its client may have left already
Accept(c) ==
  /\ at[c] # NoProc /\ server[c] = "none"
  /\ serve[at[c]] = "accept" /\ listener[at[c]] = "open"
  /\ ServerGoto(c, "decode")
  /\ UNCHANGED <<pc, child, sock, listener, serve, by, at, client, response, actions>>

\* Decode of the request frame: it is read even when its sender has gone, and
\* a connection that ends without one is answered invalid_frame.
DecodeFrame(c) ==
  /\ server[c] = "decode"
  /\ \/ client[c] \in {"sent", "failed"} /\ ServerGoto(c, "action") /\ UNCHANGED response
     \/ /\ client[c] = "left"
        /\ ServerGoto(c, "reply")
        /\ response' = [response EXCEPT ![c] = "protocolError"]
  /\ UNCHANGED <<pc, child, sock, listener, serve, by, at, client, actions>>

\* backend.Prepare and caller.Action; a failure crosses as a ProtocolError
PerformAction(c) ==
  /\ server[c] = "action"
  /\ ServerGoto(c, "reply")
  /\ \/ response' = [response EXCEPT ![c] = "protocolError"] /\ UNCHANGED actions
     \/ \E r \in {"result", "protocolError"} :
          /\ response' = [response EXCEPT ![c] = r]
          /\ actions' = [actions EXCEPT ![c] = @ \cup {at[c]}]
  /\ UNCHANGED <<pc, child, sock, listener, serve, by, at, client>>

\* Encode of the response, its error ignored, and connection.Close
Reply(c) ==
  /\ server[c] = "reply"
  /\ ServerGoto(c, "done")
  /\ UNCHANGED <<pc, child, sock, listener, serve, by, at, client, response, actions>>

\* Accept fails once the listener is closed, and may fail before.
AcceptFails(p) ==
  /\ serve[p] = "accept"
  /\ serve' = [serve EXCEPT ![p] = "drain"]
  /\ UNCHANGED <<pc, child, sock, listener, callVars>>

\* Fault: ServeLane does not wait for its calls.
ServeReturnsEarly(p) ==
  /\ serve[p] = "drain"
  /\ serve' = [serve EXCEPT ![p] = "returned"]
  /\ UNCHANGED <<pc, child, sock, listener, callVars>>

\* calls.Wait() before ServeLane returns the error
ServeReturns(p) ==
  /\ serve[p] = "drain"
  /\ \A c \in Calls : at[c] = p => server[c] \in {"none", "done"}
  /\ serve' = [serve EXCEPT ![p] = "returned"]
  /\ UNCHANGED <<pc, child, sock, listener, callVars>>

-----------------------------------------------------------------------------
Listen(p) == RemoveStale(p) \/ Bind(p) \/ Chmod(p)

Owner(p) ==
  \/ Acquire(p) \/ Listen(p) \/ ListenFails(p) \/ ChmodFails(p)
  \/ StartChild(p) \/ ChildExit(p)
  \/ CloseBegin(p) \/ CloseListener(p) \/ RemovePath(p) \/ CloseLock(p)
  \/ Crash(p)

Client(c) ==
  \/ \E p \in Procs : Dial(c, p)
  \/ Send(c) \/ CancelCall(c) \/ Receive(c) \/ Reset(c)

Handle(c) == DecodeFrame(c) \/ PerformAction(c) \/ Reply(c)

Drain(p) == AcceptFails(p) \/ ServeReturns(p)

Next ==
  \/ \E p \in Procs : Owner(p) \/ Drain(p)
  \/ \E c \in Calls : Client(c) \/ Accept(c) \/ Handle(c)

Spec == Init /\ [][Next]_vars

Release(p) == CloseListener(p) \/ RemovePath(p) \/ CloseLock(p)

\* An owner inside ListenPrivate or Close goes on, and so do ServeLane's goroutines:
\* Accept on a closed listener fails; the backend returns.  Nothing is assumed of the
\* child and its clients, nor that a system call fails or succeeds.
FairSpec ==
  /\ Spec
  /\ \A p \in Procs : WF_vars(Listen(p)) /\ WF_vars(Release(p))
  /\ \A p \in Procs : WF_vars(listener[p] = "closed" /\ AcceptFails(p)) /\ WF_vars(ServeReturns(p))
  /\ \A c \in Calls : WF_vars(Handle(c))

-----------------------------------------------------------------------------
(* Properties *)

(* The state is well formed, and an owner's listener is open exactly from  *)
(* net.Listen to the first of Close, a failed Chmod and the process's end. *)
TypeOK ==
  /\ pc \in [Procs -> Points]
  /\ child \in [Procs -> {"none", "alive", "exited"}]
  /\ sock \in Procs \cup {NoProc}
  /\ listener \in [Procs -> {"none", "open", "closed"}]
  /\ serve \in [Procs -> {"none", "accept", "drain", "returned"}]
  /\ by \in [Calls -> Procs \cup {NoProc}] /\ at \in [Calls -> Procs \cup {NoProc}]
  /\ client \in [Calls -> {"idle", "dialed", "sent", "left", "failed",
                           "result", "protocolError"}]
  /\ server \in [Calls -> {"none", "decode", "action", "reply", "done"}]
  /\ response \in [Calls -> {"none", "result", "protocolError"}]
  /\ actions \in [Calls -> SUBSET Procs]
  /\ \A p \in Procs : listener[p] = "open" <=> pc[p] \in Listening

(* While an owner listens, the path leads to its socket: the removals by   *)
(* name of its predecessors and successors never take it away.             *)
EndpointOwned == \A p \in Procs : pc[p] \in Listening => sock = p

(* A call made by a child is taken and performed by the child's own owner  *)
(* or by nobody, also when the owner has crashed and a successor waits:    *)
(* the descriptor in the child keeps the successor out (line 66).          *)
CallsReachOwner ==
  \A c \in Calls : at[c] \in {NoProc, by[c]} /\ actions[c] \subseteq {by[c]}

(* What a call returns is true of the backend: a result means the action   *)
(* was performed, a call that ended before it sent its frame was not, and  *)
(* ServeLane returns only when every admitted action is over.              *)
AdmittedActionsJoined ==
  /\ \A c \in Calls :
       /\ client[c] = "result" => actions[c] = {by[c]}
       /\ client[c] = "left" => actions[c] = {}
  /\ \A p \in Procs : serve[p] = "returned" =>
       \A c \in Calls : at[c] = p => server[c] \in {"none", "done"}

(* A path left by a crashed owner, or by a Close that could not remove it, *)
(* never stops the next one: whoever has the lock gets its endpoint,       *)
(* unless a system call fails or its process ends.                         *)
OwnerListens ==
  \A p \in Procs : pc[p] = "locked" ~> pc[p] \in {"open", "removed", "gone"}

(* Child.Close releases the session once the child has ended, whatever its *)
(* removals of the path report, whether the path is there or not, and      *)
(* although calls are still being served.                                  *)
SessionReleased ==
  \A p \in Procs : pc[p] = "closing" /\ child[p] = "exited" ~> pc[p] \in {"closed", "gone"}

(* ServeLane returns after its listener closed, although serveLaneCall     *)
(* waits for a client's frame without a limit: Close has waited for the    *)
(* child, and the clients ended with it.  An Accept that failed before     *)
(* makes no difference.                                                    *)
ServeLaneReturns ==
  \A p \in Procs :
    serve[p] \in {"accept", "drain"} /\ listener[p] = "closed" ~> serve[p] \in {"none", "returned"}
=============================================================================
