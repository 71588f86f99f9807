------------------------- MODULE SessionLockProofs -------------------------
(***************************************************************************)
(* Mutual exclusion of the session lock for any set of processes, names    *)
(* and inodes, under Discipline.                                           *)
(*                                                                         *)
(* The argument: flock keeps the locked inodes apart (FlockExclusive); a   *)
(* name that is neither provisional nor a rename target is never removed   *)
(* (DirectStays); a provisional name is touched only by its owner          *)
(* (SourceOwn); and an entry a process is about to remove, or has linked   *)
(* and not yet confirmed, still names the inode it has locked              *)
(* (TargetOwn), so that no removal can hit the entry of a holder.          *)
(***************************************************************************)
EXTENDS SessionLock, TLAPS

\* A child outlives only a process that had the lock.
ChildOfHolder == \A p \in Procs : child[p] => pc[p] \in LockedPoints \cup {"gone"}

\* No inode has two locked descriptions.
FlockExclusive ==
  \A p, q \in Procs :
    /\ p # q /\ Holds(p) /\ Holds(q) => file[p] # file[q]
    /\ HoldsStale(p) /\ Holds(q) => stale[p] # file[q]
    /\ p # q /\ HoldsStale(p) /\ HoldsStale(q) => stale[p] # stale[q]

\* Paths come from AcquireNames or from a rename.
PathOrigin ==
  \A p \in Procs :
    /\ path[p] \in AcquireNames[p] \cup Targets
    /\ pc[p] \in {"start", "opened"} => path[p] \in AcquireNames[p]
    /\ pc[p] \in RenamePoints => path[p] \in Sources /\ target[p] \in Targets

\* An entry that is neither a source nor a target keeps its inode.
DirectStays ==
  \A p \in Procs :
    pc[p] = "opened" /\ path[p] \notin Sources => dir[path[p]] = file[p]

\* A provisional name leads to the owner's file or nowhere.
SourceOwn ==
  \A p \in Procs :
    (Holds(p) \/ pc[p] = "opened") /\ path[p] \in Sources =>
      dir[path[p]] \in {file[p], NoFile}

\* The entry p will remove, or has just linked, names an inode p has locked.
TargetOwn ==
  \A p \in Procs :
    /\ pc[p] = "unlinkStale" => dir[target[p]] = stale[p]
    /\ pc[p] \in {"unlinkSource", "undo"} => dir[target[p]] = file[p]

IInv ==
  /\ TypeOK /\ ChildOfHolder /\ FlockExclusive /\ PathOrigin
  /\ DirectStays /\ SourceOwn /\ TargetOwn /\ NameBacked

(* It holds when no process has opened a lock, whatever stale files exist. *)
LEMMA InitIInv == Init => IInv
BY SessionLockAssumption
   DEF Init, IInv, TypeOK, ChildOfHolder, FlockExclusive, PathOrigin, DirectStays,
       SourceOwn, TargetOwn, NameBacked, Holds, HoldsStale, Points, LockedPoints, RenamePoints

(* Every system call of a process, and its end, keeps the invariant. *)
LEMMA StepKeepsIInv ==
  ASSUME Discipline, IInv, NEW p \in Procs, Step(p)
  PROVE  IInv'
<1> USE SessionLockAssumption
    DEF IInv, TypeOK, ChildOfHolder, PathOrigin, Holds, HoldsStale,
        Points, LockedPoints, RenamePoints, Goto
<1>1. CASE AcquireOpen(p)
  <2>1. TypeOK' /\ ChildOfHolder' /\ PathOrigin'
    BY <1>1 DEF AcquireOpen, Free
  <2>2. FlockExclusive'
    BY <1>1 DEF AcquireOpen, Free, FlockExclusive
  <2>3. DirectStays' /\ SourceOwn'
    BY <1>1 DEF AcquireOpen, Free, Discipline, DirectStays, SourceOwn
  <2>4. TargetOwn' /\ NameBacked'
    BY <1>1 DEF AcquireOpen, Free, TargetOwn, NameBacked
  <2> QED BY <2>1, <2>2, <2>3, <2>4
<1>2. CASE AcquireFlock(p)
  <2>1. TypeOK' /\ ChildOfHolder' /\ PathOrigin'
    BY <1>2 DEF AcquireFlock, Flocked
  <2>2. FlockExclusive'
    BY <1>2 DEF AcquireFlock, Flocked, FlockExclusive
  <2>3. DirectStays' /\ SourceOwn'
    BY <1>2 DEF AcquireFlock, DirectStays, SourceOwn
  <2>4. TargetOwn' /\ NameBacked'
    <3>1. CASE Flocked(file[p])
      BY <1>2, <3>1 DEF AcquireFlock, TargetOwn, NameBacked
    <3>2. CASE ~Flocked(file[p])
      BY <1>2, <3>2 DEF AcquireFlock, DirectStays, TargetOwn, NameBacked
    <3> QED BY <3>1, <3>2
  <2> QED BY <2>1, <2>2, <2>3, <2>4
<1>3. CASE \E name \in Targets : RenameBegin(p, name)
  <2>1. TypeOK' /\ ChildOfHolder' /\ PathOrigin'
    BY <1>3 DEF RenameBegin
  <2>2. FlockExclusive'
    BY <1>3 DEF RenameBegin, FlockExclusive
  <2>3. DirectStays' /\ SourceOwn'
    BY <1>3 DEF RenameBegin, DirectStays, SourceOwn
  <2>4. TargetOwn' /\ NameBacked'
    BY <1>3 DEF RenameBegin, TargetOwn, NameBacked
  <2> QED BY <2>1, <2>2, <2>3, <2>4
<1>4. CASE RenameLink(p)
  <2>1. TypeOK' /\ ChildOfHolder' /\ PathOrigin'
    BY <1>4 DEF RenameLink
  <2>2. FlockExclusive'
    BY <1>4 DEF RenameLink, FlockExclusive
  <2>3. DirectStays' /\ SourceOwn'
    BY <1>4 DEF RenameLink, Discipline, DirectStays, SourceOwn
  <2>4. TargetOwn' /\ NameBacked'
    BY <1>4 DEF RenameLink, Discipline, SourceOwn, TargetOwn, NameBacked
  <2> QED BY <2>1, <2>2, <2>3, <2>4
<1>5. CASE RenameOpenStale(p)
  <2>1. TypeOK' /\ ChildOfHolder' /\ PathOrigin'
    BY <1>5 DEF RenameOpenStale
  <2>2. FlockExclusive'
    BY <1>5 DEF RenameOpenStale, FlockExclusive
  <2>3. DirectStays' /\ SourceOwn'
    BY <1>5 DEF RenameOpenStale, DirectStays, SourceOwn
  <2>4. TargetOwn' /\ NameBacked'
    BY <1>5 DEF RenameOpenStale, TargetOwn, NameBacked
  <2> QED BY <2>1, <2>2, <2>3, <2>4
<1>6. CASE RenameFlockStale(p)
  <2>1. TypeOK' /\ ChildOfHolder' /\ PathOrigin'
    BY <1>6 DEF RenameFlockStale, Flocked, CloseStale
  <2>2. FlockExclusive'
    BY <1>6 DEF RenameFlockStale, Flocked, CloseStale, FlockExclusive
  <2>3. DirectStays' /\ SourceOwn'
    BY <1>6 DEF RenameFlockStale, Flocked, CloseStale, DirectStays, SourceOwn
  <2>4. TargetOwn' /\ NameBacked'
    BY <1>6 DEF RenameFlockStale, Flocked, CloseStale, TargetOwn, NameBacked
  <2> QED BY <2>1, <2>2, <2>3, <2>4
<1>7. CASE RenameCompare(p)
  <2>1. TypeOK' /\ ChildOfHolder' /\ PathOrigin'
    BY <1>7 DEF RenameCompare, CloseStale
  <2>2. FlockExclusive'
    BY <1>7 DEF RenameCompare, CloseStale, FlockExclusive
  <2>3. DirectStays' /\ SourceOwn'
    BY <1>7 DEF RenameCompare, CloseStale, DirectStays, SourceOwn
  <2>4. TargetOwn' /\ NameBacked'
    BY <1>7 DEF RenameCompare, CloseStale, TargetOwn, NameBacked
  <2> QED BY <2>1, <2>2, <2>3, <2>4
<1>8. CASE RenameUnlinkStale(p)
  <2>1. TypeOK' /\ ChildOfHolder' /\ PathOrigin'
    BY <1>8 DEF RenameUnlinkStale, Unlink, CloseStale
  <2>2. FlockExclusive'
    BY <1>8 DEF RenameUnlinkStale, Unlink, CloseStale, FlockExclusive
  <2>3. DirectStays' /\ SourceOwn'
    BY <1>8 DEF RenameUnlinkStale, Unlink, CloseStale, Discipline, DirectStays, SourceOwn
  <2>4. TargetOwn'
    BY <1>8 DEF RenameUnlinkStale, Unlink, CloseStale, Discipline, FlockExclusive, TargetOwn, NameBacked
  <2>5. NameBacked'
    BY <1>8 DEF RenameUnlinkStale, Unlink, CloseStale, Discipline, FlockExclusive, TargetOwn, NameBacked
  <2> QED BY <2>1, <2>2, <2>3, <2>4, <2>5
<1>9. CASE RenameRelink(p)
  <2>1. TypeOK' /\ ChildOfHolder' /\ PathOrigin'
    BY <1>9 DEF RenameRelink, CloseStale
  <2>2. FlockExclusive'
    BY <1>9 DEF RenameRelink, CloseStale, FlockExclusive
  <2>3. DirectStays' /\ SourceOwn'
    BY <1>9 DEF RenameRelink, CloseStale, Discipline, DirectStays, SourceOwn
  <2>4. TargetOwn' /\ NameBacked'
    BY <1>9 DEF RenameRelink, CloseStale, Discipline, SourceOwn, TargetOwn, NameBacked
  <2> QED BY <2>1, <2>2, <2>3, <2>4
<1>10. CASE RenameBusy(p)
  <2>1. TypeOK' /\ ChildOfHolder' /\ PathOrigin'
    BY <1>10 DEF RenameBusy, Unlink
  <2>2. FlockExclusive'
    BY <1>10 DEF RenameBusy, Unlink, FlockExclusive
  <2>3. DirectStays' /\ SourceOwn'
    BY <1>10 DEF RenameBusy, Unlink, Discipline, DirectStays, SourceOwn
  <2>4. TargetOwn' /\ NameBacked'
    BY <1>10 DEF RenameBusy, Unlink, Discipline, TargetOwn, NameBacked
  <2> QED BY <2>1, <2>2, <2>3, <2>4
<1>11. CASE RenameUnlinkSource(p)
  <2>1. TypeOK' /\ ChildOfHolder' /\ PathOrigin'
    BY <1>11 DEF RenameUnlinkSource, Unlink
  <2>2. FlockExclusive'
    BY <1>11 DEF RenameUnlinkSource, Unlink, FlockExclusive
  <2>3. ASSUME dir[path[p]] # NoFile
        PROVE  (DirectStays /\ SourceOwn /\ TargetOwn /\ NameBacked)'
    <3>1. /\ pc[p] = "unlinkSource" /\ pc' = [pc EXCEPT ![p] = "held"]
          /\ dir' = [dir EXCEPT ![path[p]] = NoFile]
          /\ path' = [path EXCEPT ![p] = target[p]]
          /\ UNCHANGED <<file, target, stale, child>>
      BY <1>11, <2>3 DEF RenameUnlinkSource, Unlink
    <3>2. DirectStays' /\ SourceOwn'
      BY <3>1 DEF Discipline, DirectStays, SourceOwn
    <3>3. TargetOwn' /\ NameBacked'
      BY <3>1 DEF Discipline, TargetOwn, NameBacked
    <3> QED BY <3>2, <3>3
  <2>4. ASSUME dir[path[p]] = NoFile
        PROVE  (DirectStays /\ SourceOwn /\ TargetOwn /\ NameBacked)'
    BY <1>11, <2>4 DEF RenameUnlinkSource, DirectStays, SourceOwn, TargetOwn, NameBacked
  <2> QED BY <2>1, <2>2, <2>3, <2>4
<1>12. CASE RenameUndo(p)
  <2>1. TypeOK' /\ ChildOfHolder' /\ PathOrigin'
    BY <1>12 DEF RenameUndo, Unlink
  <2>2. FlockExclusive'
    BY <1>12 DEF RenameUndo, Unlink, FlockExclusive
  <2>3. DirectStays' /\ SourceOwn'
    BY <1>12 DEF RenameUndo, Unlink, Discipline, DirectStays, SourceOwn
  <2>4. TargetOwn' /\ NameBacked'
    BY <1>12 DEF RenameUndo, Unlink, Discipline, FlockExclusive, TargetOwn, NameBacked
  <2> QED BY <2>1, <2>2, <2>3, <2>4
<1>13. CASE RenameError(p)
  <2>1. TypeOK' /\ ChildOfHolder' /\ PathOrigin'
    BY <1>13 DEF RenameError, CloseStale
  <2>2. FlockExclusive'
    BY <1>13 DEF RenameError, CloseStale, FlockExclusive
  <2>3. DirectStays' /\ SourceOwn'
    BY <1>13 DEF RenameError, CloseStale, DirectStays, SourceOwn
  <2>4. TargetOwn' /\ NameBacked'
    BY <1>13 DEF RenameError, CloseStale, TargetOwn, NameBacked
  <2> QED BY <2>1, <2>2, <2>3, <2>4
<1>14. CASE Close(p)
  <2>1. TypeOK' /\ ChildOfHolder' /\ PathOrigin'
    BY <1>14 DEF Close, Leave, CloseStale
  <2>2. FlockExclusive'
    BY <1>14 DEF Close, Leave, CloseStale, FlockExclusive
  <2>3. DirectStays' /\ SourceOwn'
    BY <1>14 DEF Close, Leave, CloseStale, DirectStays, SourceOwn
  <2>4. TargetOwn' /\ NameBacked'
    BY <1>14 DEF Close, Leave, CloseStale, TargetOwn, NameBacked
  <2> QED BY <2>1, <2>2, <2>3, <2>4
<1>15. CASE Crash(p)
  <2>1. TypeOK' /\ ChildOfHolder' /\ PathOrigin'
    BY <1>15 DEF Crash, Leave, CloseStale
  <2>2. FlockExclusive'
    BY <1>15 DEF Crash, Leave, CloseStale, FlockExclusive
  <2>3. DirectStays' /\ SourceOwn'
    BY <1>15 DEF Crash, Leave, CloseStale, DirectStays, SourceOwn
  <2>4. TargetOwn' /\ NameBacked'
    BY <1>15 DEF Crash, Leave, CloseStale, TargetOwn, NameBacked
  <2> QED BY <2>1, <2>2, <2>3, <2>4
<1>16. CASE StartChild(p)
  <2>1. TypeOK' /\ ChildOfHolder' /\ PathOrigin'
    BY <1>16 DEF StartChild
  <2>2. FlockExclusive'
    BY <1>16 DEF StartChild, FlockExclusive
  <2>3. DirectStays' /\ SourceOwn'
    BY <1>16 DEF StartChild, DirectStays, SourceOwn
  <2>4. TargetOwn' /\ NameBacked'
    BY <1>16 DEF StartChild, TargetOwn, NameBacked
  <2> QED BY <2>1, <2>2, <2>3, <2>4
<1>17. CASE ChildExit(p)
  <2>1. TypeOK' /\ ChildOfHolder' /\ PathOrigin'
    BY <1>17 DEF ChildExit
  <2>2. FlockExclusive'
    BY <1>17 DEF ChildExit, FlockExclusive
  <2>3. DirectStays' /\ SourceOwn'
    BY <1>17 DEF ChildExit, DirectStays, SourceOwn
  <2>4. TargetOwn' /\ NameBacked'
    BY <1>17 DEF ChildExit, TargetOwn, NameBacked
  <2> QED BY <2>1, <2>2, <2>3, <2>4
<1> HIDE DEF IInv, TypeOK, ChildOfHolder, PathOrigin, Holds, HoldsStale
<1> QED
  BY <1>1, <1>2, <1>3, <1>4, <1>5, <1>6, <1>7, <1>8, <1>9,
     <1>10, <1>11, <1>12, <1>13, <1>14, <1>15, <1>16, <1>17 DEF Step, RenameStep

(* Every step keeps the inductive invariant. *)
LEMMA NextKeepsIInv ==
  ASSUME Discipline, IInv, [Next]_vars
  PROVE  IInv'
<1>1. CASE Next
  BY <1>1, StepKeepsIInv DEF Next
<1>2. CASE UNCHANGED vars
  BY <1>2 DEF vars, IInv, TypeOK, ChildOfHolder, FlockExclusive, PathOrigin, DirectStays,
              SourceOwn, TargetOwn, NameBacked, Holds, HoldsStale
<1> QED BY <1>1, <1>2

(* The inductive invariant holds throughout. *)
LEMMA IInvInvariant == ASSUME Discipline PROVE Spec => []IInv
<1>1. Init => IInv
  BY InitIInv
<1>2. IInv /\ [Next]_vars => IInv'
  BY NextKeepsIInv
<1> QED BY <1>1, <1>2, PTL DEF Spec

(* The type invariant, with it that no path out of Acquire, Rename, Close, *)
(* a crash or the end of a child leaks or loses a descriptor.              *)
THEOREM TypeCorrect == ASSUME Discipline PROVE Spec => []TypeOK
<1>1. IInv => TypeOK
  BY DEF IInv
<1> QED BY <1>1, IInvInvariant, PTL

(* Mutual exclusion for every set of processes, names and inodes: with     *)
(* private provisional names, and names not both acquired and renamed to,  *)
(* no two processes or orphaned children rely on one name.                 *)
THEOREM Exclusion == ASSUME Discipline PROVE Spec => []MutualExclusion
<1>1. IInv => MutualExclusion
  <2> SUFFICES ASSUME IInv, NEW p \in Procs, NEW q \in Procs,
                      p # q, Holds(p), Holds(q), path[p] = path[q]
               PROVE  FALSE
    BY DEF MutualExclusion
  <2>1. CASE path[p] \in Sources
    BY <2>1 DEF IInv, PathOrigin, Discipline
  <2>2. CASE path[p] \notin Sources
    <3>1. file[p] = file[q]
      BY <2>2 DEF IInv, NameBacked
    <3> QED BY <3>1 DEF IInv, FlockExclusive
  <2> QED BY <2>1, <2>2
<1> QED BY <1>1, IInvInvariant, PTL

(* A name that is relied on names the inode its holder has locked.         *)
THEOREM Backed == ASSUME Discipline PROVE Spec => []NameBacked
<1>1. IInv => NameBacked
  BY DEF IInv
<1> QED BY <1>1, IInvInvariant, PTL

(* No step removes an entry whose inode another process has locked.        *)
THEOREM OnlyHolderUnlinks == ASSUME Discipline PROVE Spec => OnlyUnlinkedByHolder
<1>1. ASSUME IInv, NEW p \in Procs, Step(p), NEW n \in Names
      PROVE  UnlinksOwn(n)
  <2> USE DEF IInv, TypeOK, FlockExclusive, UnlinksOwn, Holds, HoldsStale, Points, LockedPoints, RenamePoints
  <2>1. CASE RenameUnlinkStale(p)
    BY <1>1, <2>1 DEF RenameUnlinkStale, Unlink, CloseStale, Goto, TargetOwn
  <2>2. CASE RenameBusy(p)
    BY <1>1, <2>2 DEF RenameBusy, Unlink, Goto, PathOrigin, SourceOwn
  <2>3. CASE RenameUnlinkSource(p)
    BY <1>1, <2>3 DEF RenameUnlinkSource, Unlink, Goto, PathOrigin, SourceOwn
  <2>4. CASE RenameUndo(p)
    BY <1>1, <2>4 DEF RenameUndo, Unlink, Goto, TargetOwn
  <2>5. CASE AcquireOpen(p)
    BY <1>1, <2>5 DEF AcquireOpen
  <2>6. CASE RenameLink(p) \/ RenameRelink(p)
    BY <1>1, <2>6 DEF RenameLink, RenameRelink
  <2>7. CASE UNCHANGED dir
    BY <1>1, <2>7
  <2> QED
    BY <1>1, <2>1, <2>2, <2>3, <2>4, <2>5, <2>6, <2>7
       DEF Step, RenameStep, AcquireFlock, RenameBegin, RenameOpenStale, RenameFlockStale,
           RenameCompare, RenameError, Close, Crash, Leave, StartChild, ChildExit
<1>2. IInv /\ [Next]_vars => [\A n \in Names : UnlinksOwn(n)]_vars
  BY <1>1 DEF Next
<1> QED BY <1>2, IInvInvariant, PTL DEF Spec, OnlyUnlinkedByHolder
=============================================================================
