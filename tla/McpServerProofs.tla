-------------------------- MODULE McpServerProofs --------------------------
(***************************************************************************)
(* What Serve returns is true, for any number of lines.                    *)
(*                                                                         *)
(* The argument: a goroutine writes only under Server.mu (part of TypeOK); *)
(* the mutex makes "keep the first error" one step (FirstFailureKept); and *)
(* a Serve that returned otherwise than by its context had joined every    *)
(* goroutine and starts no more (ReturnHonest).  That a line is answered   *)
(* once needs to know which lines reach the lock, and with what (Composed). *)
(***************************************************************************)
EXTENDS McpServer, FiniteSetTheorems, TLAPS

\* Serve has a return value exactly when it has returned.
Returned == ret # "none" <=> reader = "returned"

\* A goroutine that writes has composed its reply, and what it wrote is kept.
ReplyReady == \A l \in Lines : handler[l] \in {"lock", "write"} => reply[l] # "none"

IInv == TypeOK /\ Returned /\ ReplyReady /\ FirstFailureKept /\ ReturnHonest

\* The invariant holds before the first line is read.
LEMMA InitIInv == Init => IInv
<1> SUFFICES ASSUME Init PROVE IInv
  OBVIOUS
<1>1. <<>> \in Seq(Lines) /\ <<>> \in Seq(Lines \X {"result", "error"})
  OBVIOUS
<1>2. TypeOK BY <1>1, McpServerAssumption DEF Init, TypeOK
<1>3. Returned /\ ReplyReady /\ FirstFailureKept /\ ReturnHonest
  BY DEF Init, Returned, ReplyReady, FirstFailureKept, ReturnHonest, Joined
<1> QED BY <1>2, <1>3 DEF IInv

\* A write ends: the mutex is free and the first failure stays.
LEMMA WriteEndKeepsIInv ==
  ASSUME IInv, NEW l \in Lines, NEW ok \in BOOLEAN, WriteEnd(l, ok)
  PROVE  IInv'
<1> USE McpServerAssumption DEF WriteEnd, IInv, Goto
<1>1. CASE ok
  <2>1. output' = Append(output, <<l, reply[l]>>) /\ failed' = failed /\ writeErr' = writeErr
    BY <1>1 DEF KeepError
  <2>2. TypeOK' BY <2>1 DEF TypeOK, ReplyReady
  <2>3. Returned' /\ ReplyReady' BY DEF Returned, ReplyReady, TypeOK
  <2>4. FirstFailureKept' BY <2>1 DEF FirstFailureKept
  <2>5. ReturnHonest' BY <2>1 DEF ReturnHonest, Joined, TypeOK
  <2> QED BY <2>2, <2>3, <2>4, <2>5
<1>2. CASE ~ok
  <2>1. output' = output /\ failed' = Append(failed, l)
    BY <1>2
  <2>2. writeErr' = IF writeErr = NoLine THEN l ELSE writeErr
    BY <1>2 DEF KeepError
  <2>3. TypeOK' BY <2>1, <2>2 DEF TypeOK
  <2>4. Returned' /\ ReplyReady' BY DEF Returned, ReplyReady, TypeOK
  <2>5. FirstFailureKept' BY <2>1, <2>2 DEF FirstFailureKept, TypeOK
  <2>6. ReturnHonest' BY <2>1 DEF ReturnHonest, Joined, TypeOK
  <2> QED BY <2>3, <2>4, <2>5, <2>6
<1> QED BY <1>1, <1>2

\* A goroutine moves on, or composes its reply: nothing that Serve or another
\* goroutine looks at changes.
LEMMA HandlerMoves ==
  ASSUME IInv, NEW l \in Lines, handler[l] \in {"decode", "prepare", "action"},
         UNCHANGED <<ctx, input, reader, readErr, kind, mu, writeErr, output,
                     failed, ret, atReturn>>,
         \/ \E r \in {"result", "error"} : Answer(l, r)
         \/ (Goto(l, "done") \/ Goto(l, "prepare") \/ Goto(l, "action")) /\ UNCHANGED reply
  PROVE  IInv'
<1>1. PICK point \in {"lock", "done", "prepare", "action"} :
        handler' = [handler EXCEPT ![l] = point]
  BY DEF Answer, Goto
<1>2. \/ reply' = reply /\ point # "lock"
      \/ \E r \in {"result", "error"} : reply' = [reply EXCEPT ![l] = r]
  BY <1>1 DEF Answer, Goto, IInv, TypeOK
<1>3. TypeOK'
  <2>1. handler' \in [Lines -> {"none", "decode", "prepare", "action", "lock", "write", "done"}]
    BY <1>1 DEF IInv, TypeOK
  <2>2. reply' \in [Lines -> {"none", "result", "error"}]
    BY <1>2 DEF IInv, TypeOK
  <2>3. \A m \in Lines : handler'[m] = "write" <=> handler[m] = "write"
    BY <1>1 DEF IInv, TypeOK
  <2> QED BY <2>1, <2>2, <2>3 DEF IInv, TypeOK
<1>4. ReplyReady' BY <1>1, <1>2 DEF IInv, TypeOK, ReplyReady
<1>5. Returned' /\ FirstFailureKept' BY DEF IInv, Returned, FirstFailureKept
<1>6. ReturnHonest' BY <1>1 DEF IInv, ReturnHonest, Joined, TypeOK
<1> QED BY <1>3, <1>4, <1>5, <1>6 DEF IInv

\* Every step keeps the invariant.
LEMMA NextKeepsIInv == IInv /\ Next => IInv'
<1> SUFFICES ASSUME IInv, Next PROVE IInv'
  OBVIOUS
<1> USE McpServerAssumption DEF IInv, TypeOK, Returned, ReplyReady, FirstFailureKept, Goto, Answer
<1>1. CASE Cancel BY <1>1 DEF Cancel, ReturnHonest, Joined
<1>2. CASE CloseInput BY <1>2 DEF CloseInput, ReturnHonest, Joined
<1>3. CASE \E l \in Lines, k \in Kinds : Scan(l, k) BY <1>3 DEF Scan, ReturnHonest, Joined
<1>4. CASE \E err \in BOOLEAN : ScanEnds(err) BY <1>4 DEF ScanEnds, ReturnHonest, Joined
<1>5. ASSUME NEW l \in Lines, Handle(l) PROVE IInv'
  <2>1. CASE Decode(l) BY <2>1, HandlerMoves DEF Decode
  <2>2. CASE Prepare(l) BY <2>2, HandlerMoves DEF Prepare
  <2>3. CASE Action(l) BY <2>3, HandlerMoves DEF Action
  <2>4. CASE WriteBegin(l) BY <2>4 DEF WriteBegin, ReturnHonest, Joined
  <2>5. CASE \E ok \in BOOLEAN : WriteEnd(l, ok) BY <2>5, WriteEndKeepsIInv
  <2> QED BY <1>5, <2>1, <2>2, <2>3, <2>4, <2>5 DEF Handle
<1>6. CASE ReturnJoined BY <1>6 DEF ReturnJoined, Return, ReturnHonest, Joined
<1>7. CASE ReturnCancelled BY <1>7 DEF ReturnCancelled, Return, ReturnHonest, Joined
<1> QED BY <1>1, <1>2, <1>3, <1>4, <1>5, <1>6, <1>7 DEF Next

\* The invariant is inductive.
LEMMA Inductive == Spec => []IInv
<1>1. IInv /\ UNCHANGED vars => IInv'
  BY DEF vars, IInv, TypeOK, Returned, ReplyReady, FirstFailureKept, ReturnHonest, Joined
<1>2. IInv /\ [Next]_vars => IInv'
  BY <1>1, NextKeepsIInv
<1> QED BY InitIInv, <1>2, PTL DEF Spec

-----------------------------------------------------------------------------

(* For any number of lines, the state is well formed and frames never      *)
(* interleave: the goroutine inside Encode is the one that holds Server.mu. *)
THEOREM TypeCorrect == Spec => []TypeOK
<1>1. IInv => TypeOK BY DEF IInv
<1> QED BY <1>1, Inductive, PTL

(* For any number of lines: a nil from Serve means that no write failed    *)
(* and no goroutine is left, a write error that one failed, and after a    *)
(* return that is not the context's nothing more is written.               *)
THEOREM ServeReturnsTruth == Spec => []ReturnHonest
<1>1. IInv => ReturnHonest BY DEF IInv
<1> QED BY <1>1, Inductive, PTL

(* For any number of lines and any order of their goroutines,              *)
(* Server.writeErr is the first failure of a write.                        *)
THEOREM FirstErrorReported == Spec => []FirstFailureKept
<1>1. IInv => FirstFailureKept BY DEF IInv
<1> QED BY <1>1, Inductive, PTL

-----------------------------------------------------------------------------
(* One reply for each line *)

\* Only tool calls reach the backend; no notification reaches the lock, and
\* a malformed line reaches it with an error.
Composed ==
  \A l \in Lines :
    /\ handler[l] \in {"prepare", "action"} => kind[l] = "tool"
    /\ handler[l] \in {"lock", "write"} =>
         kind[l] # "notification" /\ (kind[l] = "malformed" => reply[l] = "error")

(* Writes and failed writes of a line are countable, and a line without    *)
(* either has none.                                                        *)
LEMMA Countable ==
  ASSUME TypeOK, NEW l \in Lines
  PROVE  /\ IsFiniteSet(Written(l)) /\ IsFiniteSet(Lost(l))
         /\ Cardinality(Written(l)) \in Nat /\ Cardinality(Lost(l)) \in Nat
         /\ Cardinality(Written(l)) + Cardinality(Lost(l)) = 0 =>
              Written(l) = {} /\ Lost(l) = {}
<1>1. DOMAIN output = 1..Len(output) /\ Len(output) \in Nat
  BY DEF TypeOK
<1>2. DOMAIN failed = 1..Len(failed) /\ Len(failed) \in Nat
  BY DEF TypeOK
<1>3. IsFiniteSet(DOMAIN output) /\ IsFiniteSet(DOMAIN failed)
  BY <1>1, <1>2, FS_Interval
<1>4. IsFiniteSet(Written(l)) /\ IsFiniteSet(Lost(l))
  BY <1>3, FS_Subset DEF Written, Lost
<1>5. Cardinality(Written(l)) \in Nat /\ Cardinality(Lost(l)) \in Nat
  BY <1>4, FS_CardinalityType
<1>6. Cardinality(Written(l)) = 0 => Written(l) = {}
  BY <1>4, FS_EmptySet
<1>7. Cardinality(Lost(l)) = 0 => Lost(l) = {}
  BY <1>4, FS_EmptySet
<1>8. Cardinality(Written(l)) + Cardinality(Lost(l)) = 0 =>
        Cardinality(Written(l)) = 0 /\ Cardinality(Lost(l)) = 0
  BY <1>5
<1> QED BY <1>4, <1>5, <1>6, <1>7, <1>8

(* A step without a write keeps the counts if it ends no goroutine but     *)
(* that of a notification, and leaves the replies that were written.       *)
LEMMA QuietStep ==
  ASSUME TypeOK, OneReplyEach, UNCHANGED <<output, failed>>,
         \A l \in Lines :
           \/ handler[l] = "done" /\ UNCHANGED <<handler[l], kind[l], reply[l]>>
           \/ handler[l] # "done" /\ (handler'[l] = "done" => kind'[l] = "notification")
  PROVE  OneReplyEach'
<1> SUFFICES ASSUME NEW l \in Lines
             PROVE  /\ Cardinality(Written(l)') + Cardinality(Lost(l)') =
                          IF handler'[l] = "done" /\ kind'[l] # "notification" THEN 1 ELSE 0
                    /\ \A i \in Written(l)' :
                         output'[i][2] = reply'[l] /\ (kind'[l] = "malformed" => reply'[l] = "error")
  BY DEF OneReplyEach
<1>1. Written(l)' = Written(l) /\ Lost(l)' = Lost(l)
  BY DEF Written, Lost
<1>2. Cardinality(Written(l)) + Cardinality(Lost(l)) =
        IF handler[l] = "done" /\ kind[l] # "notification" THEN 1 ELSE 0
  BY DEF OneReplyEach
<1>3. CASE handler[l] = "done"
  BY <1>1, <1>3 DEF OneReplyEach
<1>4. CASE handler[l] # "done"
  BY <1>1, <1>2, <1>4, Countable
<1> QED BY <1>3, <1>4

(* A write adds the one reply, or the one failure, of its line. *)
LEMMA WriteCounts ==
  ASSUME IInv, Composed, OneReplyEach, NEW l \in Lines, NEW ok \in BOOLEAN, WriteEnd(l, ok)
  PROVE  OneReplyEach'
<1>1. /\ handler[l] = "write" /\ handler' = [handler EXCEPT ![l] = "done"]
      /\ UNCHANGED <<kind, reply>> /\ kind[l] # "notification"
      /\ kind[l] = "malformed" => reply[l] = "error"
  BY DEF WriteEnd, Goto, Composed
<1>2. Written(l) = {} /\ Lost(l) = {}
  BY <1>1, Countable DEF OneReplyEach, IInv
<1> SUFFICES ASSUME NEW m \in Lines
             PROVE  /\ Cardinality(Written(m)') + Cardinality(Lost(m)') =
                          IF handler'[m] = "done" /\ kind'[m] # "notification" THEN 1 ELSE 0
                    /\ \A i \in Written(m)' :
                         output'[i][2] = reply'[m] /\ (kind'[m] = "malformed" => reply'[m] = "error")
  BY DEF OneReplyEach
<1>3. /\ DOMAIN output = 1..Len(output) /\ Len(output) \in Nat
      /\ DOMAIN failed = 1..Len(failed) /\ Len(failed) \in Nat
  BY DEF IInv, TypeOK
<1>4. ASSUME ok
      PROVE  /\ DOMAIN output' = 1..(Len(output) + 1) /\ failed' = failed
             /\ \A i \in DOMAIN output : output'[i] = output[i]
             /\ output'[Len(output) + 1] = <<l, reply[l]>>
  <2> DEFINE frame == <<l, reply[l]>>
  <2>1. frame \in Lines \X {"result", "error"} /\ output \in Seq(Lines \X {"result", "error"})
    BY <1>1 DEF IInv, TypeOK, ReplyReady
  <2>2. output' = Append(output, frame) /\ failed' = failed
    BY <1>4 DEF WriteEnd
  <2> HIDE DEF frame
  <2>3. /\ DOMAIN output' = 1..(Len(output) + 1)
        /\ \A i \in DOMAIN output : output'[i] = output[i]
        /\ output'[Len(output) + 1] = frame
    <3> DEFINE before == output
               next == output'
               n == Len(before)
    <3>1. /\ next = Append(before, frame) /\ before \in Seq(Lines \X {"result", "error"})
          /\ n \in Nat /\ DOMAIN before = 1..n
      BY <1>3, <2>1, <2>2
    <3> HIDE DEF before, next
    <3>2. /\ DOMAIN next = 1..(n + 1) /\ \A i \in DOMAIN before : next[i] = before[i]
          /\ next[n + 1] = frame
      BY <2>1, <3>1
    <3> QED BY <3>2 DEF before, next
  <2> QED BY <2>2, <2>3, Zenon DEF frame
<1>5. ASSUME ~ok
      PROVE  /\ DOMAIN failed' = 1..(Len(failed) + 1) /\ output' = output
             /\ \A i \in DOMAIN failed : failed'[i] = failed[i]
             /\ failed'[Len(failed) + 1] = l
  BY <1>5 DEF WriteEnd, IInv, TypeOK
<1>6. CASE m # l
  <2>1. handler'[m] = handler[m] /\ kind'[m] = kind[m] /\ reply'[m] = reply[m]
    BY <1>1, <1>6 DEF IInv, TypeOK
  <2>2. /\ Written(m)' = Written(m) /\ Lost(m)' = Lost(m)
        /\ \A i \in Written(m) : output'[i] = output[i]
    <3>1. CASE ok BY <1>3, <1>4, <1>6, <3>1 DEF Written, Lost
    <3>2. CASE ~ok BY <1>3, <1>5, <1>6, <3>2 DEF Written, Lost
    <3> QED BY <3>1, <3>2
  <2> QED BY <2>1, <2>2 DEF OneReplyEach
<1>7. CASE m = l
  <2>1. handler'[l] = "done" /\ kind'[l] = kind[l] /\ reply'[l] = reply[l]
    BY <1>1 DEF IInv, TypeOK
  <2>2. CASE ok
    <3>1. Written(l)' = {Len(output) + 1} /\ Lost(l)' = {}
      BY <1>2, <1>3, <1>4, <2>2 DEF Written, Lost
    <3>2. Cardinality(Written(l)') = 1 /\ Cardinality(Lost(l)') = 0
      BY <3>1, FS_Singleton, FS_EmptySet
    <3> QED BY <1>1, <1>4, <1>7, <2>1, <2>2, <3>1, <3>2
  <2>3. CASE ~ok
    <3>1. Written(l)' = {} /\ Lost(l)' = {Len(failed) + 1}
      BY <1>2, <1>3, <1>5, <2>3 DEF Written, Lost
    <3>2. Cardinality(Written(l)') = 0 /\ Cardinality(Lost(l)') = 1
      BY <3>1, FS_Singleton, FS_EmptySet
    <3> QED BY <1>1, <1>7, <2>1, <3>1, <3>2
  <2> QED BY <2>2, <2>3
<1> QED BY <1>6, <1>7

(* Every step keeps one reply for each line. *)
LEMMA NextKeepsReplies ==
  ASSUME IInv, Composed, OneReplyEach, [Next]_vars
  PROVE  Composed' /\ OneReplyEach'
<1>1. CASE \E l \in Lines, ok \in BOOLEAN : WriteEnd(l, ok)
  <2>1. PICK l \in Lines, ok \in BOOLEAN : WriteEnd(l, ok)
    BY <1>1
  <2>2. Composed'
    BY <2>1 DEF WriteEnd, Goto, Composed, IInv, TypeOK
  <2> QED BY <2>1, <2>2, WriteCounts
<1>2. ASSUME NEW l \in Lines, Decode(l) \/ Prepare(l) \/ Action(l)
      PROVE  Composed' /\ OneReplyEach'
  <2> USE DEF IInv, TypeOK
  <2>1. /\ UNCHANGED <<output, failed, kind>>
        /\ \A m \in Lines \ {l} : handler'[m] = handler[m] /\ reply'[m] = reply[m]
    BY <1>2 DEF Decode, Prepare, Action, Goto, Answer
  <2>2. /\ handler[l] # "done"
        /\ handler'[l] \in {"done", "prepare", "action", "lock"}
        /\ handler'[l] = "done" => kind[l] = "notification"
        /\ handler'[l] \in {"prepare", "action"} => kind[l] = "tool"
        /\ handler'[l] = "lock" =>
             kind[l] # "notification" /\ (kind[l] = "malformed" => reply'[l] = "error")
    BY <1>2 DEF Decode, Prepare, Action, Goto, Answer, Composed
  <2>3. Composed'
    BY <2>1, <2>2 DEF Composed
  <2>4. OneReplyEach'
    BY <2>1, <2>2, QuietStep
  <2> QED BY <2>3, <2>4
<1>3. ASSUME NEW l \in Lines, WriteBegin(l)
      PROVE  Composed' /\ OneReplyEach'
  <2>1. Composed'
    BY <1>3 DEF WriteBegin, Goto, Composed, IInv, TypeOK
  <2>2. \A m \in Lines : (handler[m] = "done" <=> handler'[m] = "done")
    BY <1>3 DEF WriteBegin, Goto, IInv, TypeOK
  <2> QED BY <1>3, <2>1, <2>2, QuietStep DEF WriteBegin, IInv
<1>4. ASSUME NEW l \in Lines, NEW k \in Kinds, Scan(l, k)
      PROVE  Composed' /\ OneReplyEach'
  <2>1. Composed'
    BY <1>4 DEF Scan, Goto, Composed, IInv, TypeOK
  <2>2. \A m \in Lines : \/ handler[m] = "done" /\ UNCHANGED <<handler[m], kind[m], reply[m]>>
                         \/ handler[m] # "done" /\ handler'[m] # "done"
    BY <1>4 DEF Scan, Goto, IInv, TypeOK
  <2> QED BY <1>4, <2>1, <2>2, QuietStep DEF Scan, IInv
<1>5. ASSUME UNCHANGED <<output, failed, handler, kind, reply>>
      PROVE  Composed' /\ OneReplyEach'
  BY <1>5 DEF Composed, OneReplyEach, Written, Lost
<1>6. CASE UNCHANGED vars
  BY <1>5, <1>6 DEF vars
<1>7. CASE Cancel \/ CloseInput \/ (\E err \in BOOLEAN : ScanEnds(err)) \/ ReturnJoined \/ ReturnCancelled
  BY <1>5, <1>7 DEF Cancel, CloseInput, ScanEnds, ReturnJoined, ReturnCancelled, Return
<1> QED BY <1>1, <1>2, <1>3, <1>4, <1>6, <1>7 DEF Next, Handle

(* For any number of lines and any order of their goroutines: a request is *)
(* answered once, by what its own goroutine found, or its write failed;    *)
(* a malformed line is answered by an error, a notification never.         *)
THEOREM AnsweredByItself == Spec => []OneReplyEach
<1>1. Init => Composed /\ OneReplyEach
  <2> SUFFICES ASSUME Init PROVE Composed /\ OneReplyEach
    OBVIOUS
  <2>1. \A l \in Lines : Written(l) = {} /\ Lost(l) = {}
    BY DEF Init, Written, Lost
  <2>2. Cardinality({}) + Cardinality({}) = 0
    BY FS_EmptySet
  <2> QED BY <2>1, <2>2 DEF Init, Composed, OneReplyEach
<1>2. IInv /\ (Composed /\ OneReplyEach) /\ [Next]_vars => (Composed /\ OneReplyEach)'
  BY NextKeepsReplies
<1> QED BY <1>1, <1>2, Inductive, PTL DEF Spec
=============================================================================
