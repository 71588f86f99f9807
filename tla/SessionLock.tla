---------------------------- MODULE SessionLock ----------------------------
(***************************************************************************)
(* host/lock.go: the advisory lock that gives one process, and the native  *)
(* child that inherits its descriptor (host/launch.go), a session name.    *)
(*                                                                         *)
(* The directory maps names to inodes.  Each process has at most two open  *)
(* descriptions: the lock file, and the stale file that Rename examines.   *)
(* flock belongs to a description, so two descriptions of one inode        *)
(* conflict even inside one process, and an inherited description keeps    *)
(* the lock when its first owner is gone.  One action is one system call;  *)
(* a process may crash between any two.                                    *)
(***************************************************************************)
EXTENDS Naturals, FiniteSets

CONSTANTS
  Procs, Names, Inodes,
  NoFile,        \* no inode: absent entry, closed descriptor
  Sources,       \* provisional names, the ones locks are renamed from
  Targets,       \* session names locks are renamed to
  AcquireNames   \* AcquireNames[p]: names p may pass to AcquireSessionLock

ASSUME SessionLockAssumption ==
  /\ NoFile \notin Inodes
  /\ Sources \subseteq Names /\ Targets \subseteq Names
  /\ AcquireNames \in [Procs -> SUBSET Names]

(* The discipline under which the lock excludes: a name is not both        *)
(* acquired directly and renamed to, and a provisional name belongs to one *)
(* process.  Names that are neither may be acquired by everybody.          *)
Discipline ==
  /\ Sources \cap Targets = {}
  /\ \A p \in Procs : AcquireNames[p] \cap Targets = {}
  /\ \A p, q \in Procs : p # q => AcquireNames[p] \cap AcquireNames[q] \cap Sources = {}

VARIABLES
  dir,     \* dir[n]: the inode the name n is linked to
  pc,      \* pc[p]: the next system call of p
  file,    \* file[p]: inode of SessionLock.file
  path,    \* path[p]: SessionLock.path, the name p relies on
  target,  \* target[p]: Rename's path
  stale,   \* stale[p]: inode of Rename's stale
  child    \* child[p]: a live child has inherited the lock description of p

vars == <<dir, pc, file, path, target, stale, child>>

RenamePoints == {"link", "openStale", "flockStale", "compare", "unlinkStale",
                 "relink", "busy", "unlinkSource", "undo"}
LockedPoints == {"held"} \cup RenamePoints
Points == {"start", "opened", "gone"} \cup LockedPoints

Init ==
  \* crash-stale files of earlier processes may be present
  /\ dir \in [Names -> Inodes \cup {NoFile}]
  /\ \A n \in Sources : dir[n] = NoFile
  /\ \A m, n \in Names : m # n /\ dir[m] = dir[n] => dir[m] = NoFile
  /\ pc = [p \in Procs |-> "start"]
  /\ file = [p \in Procs |-> NoFile]
  /\ path \in {f \in [Procs -> Names] : \A p \in Procs : f[p] \in AcquireNames[p]}
  /\ target = [p \in Procs |-> path[p]]
  /\ stale = [p \in Procs |-> NoFile]
  /\ child = [p \in Procs |-> FALSE]

-----------------------------------------------------------------------------
(* The kernel: open descriptions and flock *)

\* The lock description of p is open and flocked.
Holds(p) == pc[p] \in LockedPoints \/ child[p]
HoldsStale(p) == pc[p] \in {"compare", "unlinkStale", "relink"}

Flocked(i) ==
  \E p \in Procs : (Holds(p) /\ file[p] = i) \/ (HoldsStale(p) /\ stale[p] = i)

\* An inode number can be given out again once it has no link and no description.
Free(i) ==
  /\ \A n \in Names : dir[n] # i
  /\ \A p \in Procs : file[p] # i /\ stale[p] # i

Goto(p, point) == pc' = [pc EXCEPT ![p] = point]
Unlink(n) == dir' = [dir EXCEPT ![n] = NoFile]
CloseStale(p) == stale' = [stale EXCEPT ![p] = NoFile]

-----------------------------------------------------------------------------
(* AcquireSessionLock *)

\* open(O_CREATE)
AcquireOpen(p) ==
  /\ pc[p] = "start"
  /\ \/ /\ dir[path[p]] # NoFile
        /\ file' = [file EXCEPT ![p] = dir[path[p]]]
        /\ UNCHANGED dir
     \/ /\ dir[path[p]] = NoFile
        /\ \E i \in Inodes :
             /\ Free(i)
             /\ dir' = [dir EXCEPT ![path[p]] = i]
             /\ file' = [file EXCEPT ![p] = i]
  /\ Goto(p, "opened")
  /\ UNCHANGED <<path, target, stale, child>>

\* flock(LOCK_EX|LOCK_NB); "session busy" closes the file again
AcquireFlock(p) ==
  /\ pc[p] = "opened"
  /\ IF Flocked(file[p])
     THEN Goto(p, "gone") /\ file' = [file EXCEPT ![p] = NoFile]
     ELSE Goto(p, "held") /\ UNCHANGED file
  /\ UNCHANGED <<dir, path, target, stale, child>>

-----------------------------------------------------------------------------
(* Rename *)

RenameBegin(p, name) ==
  /\ pc[p] = "held"
  /\ path[p] \in Sources
  /\ target' = [target EXCEPT ![p] = name]
  /\ Goto(p, "link")
  /\ UNCHANGED <<dir, file, path, stale, child>>

\* link(l.path, path) links whatever inode l.path names now
RenameLink(p) ==
  /\ pc[p] = "link"
  /\ \/ /\ dir[path[p]] = NoFile
        /\ Goto(p, "held")
        /\ UNCHANGED dir
     \/ /\ dir[path[p]] # NoFile /\ dir[target[p]] # NoFile
        /\ Goto(p, "openStale")
        /\ UNCHANGED dir
     \/ /\ dir[path[p]] # NoFile /\ dir[target[p]] = NoFile
        /\ dir' = [dir EXCEPT ![target[p]] = dir[path[p]]]
        /\ Goto(p, "unlinkSource")
  /\ UNCHANGED <<file, path, target, stale, child>>

RenameOpenStale(p) ==
  /\ pc[p] = "openStale"
  /\ stale' = [stale EXCEPT ![p] = dir[target[p]]]
  /\ Goto(p, IF dir[target[p]] = NoFile THEN "link" ELSE "flockStale")
  /\ UNCHANGED <<dir, file, path, target, child>>

\* Fault: the result of flock is not looked at.
RenameFlockStaleIgnored(p) ==
  /\ pc[p] = "flockStale"
  /\ Goto(p, "compare")
  /\ UNCHANGED <<dir, file, path, target, stale, child>>

\* Fault: a locked target is tried again instead of reported.
RenameFlockStaleRetries(p) ==
  /\ pc[p] = "flockStale"
  /\ IF Flocked(stale[p])
     THEN CloseStale(p) /\ Goto(p, "link")
     ELSE Goto(p, "compare") /\ UNCHANGED stale
  /\ UNCHANGED <<dir, file, path, target, child>>

RenameFlockStale(p) ==
  /\ pc[p] = "flockStale"
  /\ IF Flocked(stale[p])
     THEN CloseStale(p) /\ Goto(p, "busy")
     ELSE Goto(p, "compare") /\ UNCHANGED stale
  /\ UNCHANGED <<dir, file, path, target, child>>

\* Fault: the name is trusted to refer to the file that was opened.
RenameCompareSkipped(p) ==
  /\ pc[p] = "compare"
  /\ Goto(p, "unlinkStale")
  /\ UNCHANGED <<dir, file, path, target, stale, child>>

\* os.SameFile of the open file and of what the name refers to now
RenameCompare(p) ==
  /\ pc[p] = "compare"
  /\ IF dir[target[p]] = stale[p]
     THEN Goto(p, "unlinkStale") /\ UNCHANGED stale
     ELSE CloseStale(p) /\ Goto(p, "link")
  /\ UNCHANGED <<dir, file, path, target, child>>

RenameUnlinkStale(p) ==
  /\ pc[p] = "unlinkStale"
  /\ IF dir[target[p]] # NoFile
     THEN Unlink(target[p]) /\ Goto(p, "relink") /\ UNCHANGED stale
     ELSE CloseStale(p) /\ Goto(p, "link") /\ UNCHANGED dir
  /\ UNCHANGED <<file, path, target, child>>

RenameRelink(p) ==
  /\ pc[p] = "relink"
  /\ CloseStale(p)
  /\ \/ /\ dir[path[p]] = NoFile
        /\ Goto(p, "held")
        /\ UNCHANGED dir
     \/ /\ dir[path[p]] # NoFile /\ dir[target[p]] # NoFile
        /\ Goto(p, "busy")
        /\ UNCHANGED dir
     \/ /\ dir[path[p]] # NoFile /\ dir[target[p]] = NoFile
        /\ dir' = [dir EXCEPT ![target[p]] = dir[path[p]]]
        /\ Goto(p, "unlinkSource")
  /\ UNCHANGED <<file, path, target, child>>

\* Fault: the contended name is removed instead of the provisional one.
RenameBusyRemovesTarget(p) ==
  /\ pc[p] = "busy"
  /\ Unlink(target[p])
  /\ Goto(p, "held")
  /\ UNCHANGED <<file, path, target, stale, child>>

\* "session busy": the provisional name is given up, the lock object is not closed
RenameBusy(p) ==
  /\ pc[p] = "busy"
  /\ Unlink(path[p])
  /\ Goto(p, "held")
  /\ UNCHANGED <<file, path, target, stale, child>>

RenameUnlinkSource(p) ==
  /\ pc[p] = "unlinkSource"
  /\ IF dir[path[p]] # NoFile
     THEN Unlink(path[p]) /\ Goto(p, "held") /\ path' = [path EXCEPT ![p] = target[p]]
     ELSE Goto(p, "undo") /\ UNCHANGED <<dir, path>>
  /\ UNCHANGED <<file, target, stale, child>>

RenameUndo(p) ==
  /\ pc[p] = "undo"
  /\ Unlink(target[p])
  /\ Goto(p, "held")
  /\ UNCHANGED <<file, path, target, stale, child>>

\* Any other error: Rename closes stale and returns, undoes its link if it
\* cannot remove the source, and ignores an error of the last two removals.
RenameError(p) ==
  /\ pc[p] \in RenamePoints
  /\ Goto(p, IF pc[p] = "unlinkSource" THEN "undo" ELSE "held")
  /\ CloseStale(p)
  /\ UNCHANGED <<dir, file, path, target, child>>

-----------------------------------------------------------------------------
(* Close, StartChild, and the end of a process or of its child *)

\* The description of p is closed; it lives on in a child that inherited it.
Leave(p) ==
  /\ Goto(p, "gone")
  /\ CloseStale(p)
  /\ file' = IF child[p] THEN file ELSE [file EXCEPT ![p] = NoFile]
  /\ UNCHANGED <<dir, path, target, child>>

Close(p) == pc[p] = "held" /\ Leave(p)

Crash(p) == pc[p] # "gone" /\ Leave(p)

StartChild(p) ==
  /\ pc[p] = "held" /\ ~child[p]
  /\ child' = [child EXCEPT ![p] = TRUE]
  /\ UNCHANGED <<dir, pc, file, path, target, stale>>

ChildExit(p) ==
  /\ child[p]
  /\ child' = [child EXCEPT ![p] = FALSE]
  /\ file' = IF pc[p] = "gone" THEN [file EXCEPT ![p] = NoFile] ELSE file
  /\ UNCHANGED <<dir, pc, path, target, stale>>

-----------------------------------------------------------------------------
RenameStep(p) ==
  \/ RenameLink(p) \/ RenameOpenStale(p) \/ RenameFlockStale(p) \/ RenameCompare(p)
  \/ RenameUnlinkStale(p) \/ RenameRelink(p) \/ RenameBusy(p)
  \/ RenameUnlinkSource(p) \/ RenameUndo(p)

Step(p) ==
  \/ AcquireOpen(p) \/ AcquireFlock(p)
  \/ \E name \in Targets : RenameBegin(p, name)
  \/ RenameStep(p) \/ RenameError(p)
  \/ Close(p) \/ Crash(p) \/ StartChild(p) \/ ChildExit(p)

Next == \E p \in Procs : Step(p)

Spec == Init /\ [][Next]_vars

\* A process that is inside Rename keeps making system calls.
FairSpec == Spec /\ \A p \in Procs : WF_vars(RenameStep(p))

-----------------------------------------------------------------------------
(* Properties *)

(* The state is well formed, and a descriptor is open exactly while it is  *)
(* needed: every way out of Rename closes stale, every end of a process    *)
(* and of its child closes the lock file.                                  *)
TypeOK ==
  /\ dir \in [Names -> Inodes \cup {NoFile}]
  /\ pc \in [Procs -> Points]
  /\ file \in [Procs -> Inodes \cup {NoFile}]
  /\ path \in [Procs -> Names] /\ target \in [Procs -> Names]
  /\ stale \in [Procs -> Inodes \cup {NoFile}]
  /\ child \in [Procs -> BOOLEAN]
  /\ \A p \in Procs :
       /\ file[p] # NoFile <=> Holds(p) \/ pc[p] = "opened"
       /\ stale[p] # NoFile <=> HoldsStale(p) \/ pc[p] = "flockStale"

(* No two processes, nor a process and the orphaned child of another, rely *)
(* on the same name at the same time.                                      *)
MutualExclusion ==
  \A p, q \in Procs : p # q /\ Holds(p) /\ Holds(q) => path[p] # path[q]

(* A session name that is relied on leads to the inode its holder has      *)
(* locked, so whoever opens it next meets the lock: neither the takeover   *)
(* of a stale file nor the undo of a rename pulls it from under a holder.  *)
NameBacked ==
  \A p \in Procs : Holds(p) /\ path[p] \notin Sources => dir[path[p]] = file[p]

UnlinksOwn(n) ==
  dir[n] # NoFile /\ dir'[n] # dir[n] =>
    \A p \in Procs :
      \/ Holds(p) /\ file[p] = dir[n]
      \/ HoldsStale(p) /\ stale[p] = dir[n]
      => pc'[p] # pc[p]

(* A step removes or replaces an entry only if no other process has the    *)
(* inode behind it locked: Rename's two removals of the target (lines 84   *)
(* and 103) act on the name, and what it names may have changed since.     *)
OnlyUnlinkedByHolder == [][\A n \in Names : UnlinksOwn(n)]_vars

(* Rename returns: its retries (lines 60-61, 76-78, 86-87) end, unless     *)
(* failing system calls keep undoing what others wait for.                 *)
RenameReturns ==
  <>[][\A p \in Procs : ~RenameError(p)]_vars =>
    \A p \in Procs : (pc[p] \in RenamePoints) ~> (pc[p] \notin RenamePoints)
=============================================================================
