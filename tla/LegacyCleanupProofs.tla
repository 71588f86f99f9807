------------------------ MODULE LegacyCleanupProofs ------------------------
(***************************************************************************)
(* The cleanup tool, proved for every installation, any number of          *)
(* invocations and any interference of the user: what is taken away, in    *)
(* which order, what is left in the backup, and that a completed cleanup   *)
(* leaves nothing to find.                                                 *)
(*                                                                         *)
(* The invariant follows one invocation.  The plan (Ordered, Covers) is    *)
(* sorted by Rank, so that payload comes last, and contains all that scan  *)
(* has found up to its cursor.  The applied part of it (Applied) is gone   *)
(* and stays gone: nobody registers or installs again.  What was captured  *)
(* was recognised before (Inspected), what is about to change was checked  *)
(* (Checked), unless the user touched it since, and was copied (Backed).   *)
(***************************************************************************)
EXTENDS LegacyCleanup, SequenceTheorems, TLAPS

Items == Registrations \cup Paths \cup {"executable", "disable", "reload"}

Contents == {"absent", "legacy", "foreign", "overwritten"}

FileStates == [regs : SUBSET Registrations, rev : Nat]

Types ==
  /\ node \in [Paths -> Contents] /\ seen \in [Paths -> Contents]
  /\ config \in [Files -> FileStates]
  /\ \A f \in Files : \A r \in config[f].regs : Home(r) = f
  /\ d \in FileStates /\ d.regs \subseteq {"claude.key"} /\ before \in FileStates
  /\ phase \in Running \cup Ended
  /\ cursor \in 1..21 /\ plan \in Seq(Items) /\ done \in 0..Len(plan)
  /\ attempt \in Nat /\ DOMAIN snapshots \subseteq Files /\ moved \subseteq Paths
  /\ ignored \subseteq Commands

\* The phases that work on an item, and the last one.
KeyPhases == {"keyParse", "keySnapshot", "keyCompare", "keyRename"}
Working ==
  /\ phase = "capture" => cursor \in 1..20 /\ Order[cursor] \in Paths
  /\ phase \in {"rename", "disableState", "disable", "native"} \cup KeyPhases => done < Len(plan)
  /\ phase = "rename" => plan[done + 1] \in Paths
  /\ phase = "native" => plan[done + 1] \in Commands
  /\ phase \in {"disableState", "disable"} => plan[done + 1] = "disable"
  /\ phase \in KeyPhases => plan[done + 1] = "claude.key"
  /\ phase = "complete" => done = Len(plan)

\* removeKey: an equal revision means equal bytes.
Edited ==
  /\ phase \in {"keyParse", "keySnapshot", "keyCompare"} =>
       /\ before.rev <= config["settings"].rev
       /\ before.rev = config["settings"].rev => before = config["settings"]
  /\ phase \in {"keySnapshot", "keyCompare"} =>
       /\ before.rev <= d.rev /\ d.rev <= config["settings"].rev
       /\ d.regs = config["settings"].regs

ExecutableUnseen == unseen \cap ({"disableState", "disable"} \X {"executable"}) # {}

Checked ==
  /\ phase = "rename" /\ <<"rename", plan[done + 1]>> \notin unseen =>
       Identity(node[plan[done + 1]]) = seen[plan[done + 1]] /\ plan[done + 1] \notin indirect
  /\ phase \in {"disableState", "disable"} /\ ~ExecutableUnseen => serviceExecutable
  /\ phase = "disable" /\ <<"disable", "disable">> \notin unseen => ~active
  /\ phase = "keyRename" /\ <<"keyRename", "claude.key">> \notin unseen => d = config["settings"]

\* In which order items are retired.
Rank(x) ==
  IF x \in Registrations \cup {"opencode"} THEN 1
  ELSE IF x \in {"executable", "disable"} THEN 2
  ELSE IF x \in {"unit", "unit.d", "reload"} THEN 3 ELSE 4

RankSorted(s) == \A i, j \in 1..Len(s) : i < j => Rank(s[i]) <= Rank(s[j])

Ordered ==
  /\ RankSorted(plan)
  /\ phase \in Scanning => \A x \in Planned : \E i \in 1..20 : i < cursor /\ Order[i] = x
  /\ "unit" \in Planned \/ (phase = "capture" /\ Order[cursor] = "unit") => "disable" \in Planned

Gone(x) ==
  /\ x \in Registrations => ~Registered(x)
  /\ x \in Paths => ~exists(x)
  /\ x = "disable" => ~enabled

Applied ==
  /\ \A i \in 1..done : Gone(plan[i]) \/ plan[i] \in ignored
  /\ \A p \in moved : \E i \in 1..done : plan[i] = p

Fresh ==
  phase \in Scanning \cup {"execute"} =>
    /\ done = 0 /\ moved = {} /\ DOMAIN snapshots = {}
    /\ \A r \in Planned \cap Registrations : Registered(r)

\* What an inspection before the cursor would find now is planned.
Covers ==
  /\ phase # "refused" => \A i \in 1..20 : i < cursor /\ Finds(Order[i]) => Order[i] \in Planned
  /\ phase \notin Scanning \cup {"refused"} => cursor = 21

\* The unit is recognised once more before it is disabled.
Told == Recognisable \ {"unit"}
Inspected ==
  /\ phase = "capture" /\ Order[cursor] \in Told /\ <<"capture", Order[cursor]>> \notin unseen =>
       Identity(node[Order[cursor]]) = "legacy"
  /\ \A p \in Planned \cap Told : <<"capture", p>> \notin unseen => seen[p] = "legacy"
  /\ "unit" \in Planned /\ Legacy("unit") => seen["unit"] = "legacy"
  /\ "unit" \in Planned /\ (phase \in {"disableState", "disable"} \/ \E i \in 1..done : plan[i] = "disable") =>
       seen["unit"] = "legacy"

Backed ==
  /\ \A r \in Planned \cap Copied :
       /\ ~Registered(r) => Home(r) \in DOMAIN snapshots
       /\ Home(r) \in DOMAIN snapshots => r \in snapshots[Home(r)].regs
  /\ phase = "native" =>
       \A r \in Registrations : Registered(r) /\ Home(r) \in Configs(plan[done + 1]) =>
                                  Home(r) \in DOMAIN snapshots
  /\ phase \in {"keyCompare", "keyRename"} /\ Registered("claude.key") =>
       "settings" \in DOMAIN snapshots

-----------------------------------------------------------------------------
(* The order of items *)

(* An item of a list has a position. *)
LEMMA Position ==
  ASSUME NEW s \in Seq(Items)
  PROVE  /\ Len(s) \in Nat /\ \A i \in 1..Len(s) : s[i] \in ToSet(s) /\ s[i] \in Items
         /\ \A x \in ToSet(s) : \E i \in 1..Len(s) : s[i] = x
<1>1. Len(s) \in Nat /\ DOMAIN s = 1..Len(s) /\ s \in [1..Len(s) -> Items]
  BY LenProperties
<1> QED BY <1>1 DEF ToSet

(* Ranks are numbers. *)
LEMMA RankType == \A x : Rank(x) \in 1..4
BY DEF Rank

(* Every item has its rank. *)
LEMMA RanksOfItems ==
  /\ \A r \in Registrations : r \in Items /\ Rank(r) = 1
  /\ \A p \in Paths : p \in Items
  /\ "executable" \in Items /\ "disable" \in Items /\ "reload" \in Items
  /\ Rank("opencode") = 1 /\ Rank("executable") = 2 /\ Rank("disable") = 2
  /\ \A x \in {"unit", "unit.d", "reload"} : Rank(x) = 3
  /\ \A x \in {"alias", "binary", "root", "cache", "npm"} : Rank(x) = 4
BY DEF Items, Rank, Registrations, Commands, Paths

(* The items, one by one. *)
LEMMA OrderedItems ==
  /\ Order[1] = "codex.mcp" /\ Order[2] = "codex.plugin" /\ Order[3] = "codex.market"
  /\ Order[4] = "claude.plugin" /\ Order[5] = "claude.market" /\ Order[6] = "claude.key"
  /\ Order[7] = "claude.mcp" /\ Order[8] = "qwen" /\ Order[9] = "grok" /\ Order[10] = "opencode"
  /\ Order[11] = "executable" /\ Order[12] = "disable" /\ Order[13] = "unit" /\ Order[14] = "unit.d"
  /\ Order[15] = "reload" /\ Order[16] = "alias" /\ Order[17] = "binary" /\ Order[18] = "root"
  /\ Order[19] = "cache" /\ Order[20] = "npm"
  /\ Len(Order) = 20 /\ DOMAIN Order = 1..20
BY DEF Order

(* scan looks for items by rank, and for the unit after the service. *)
LEMMA OrderRanked ==
  /\ \A i \in 1..20 : Order[i] \in Items
  /\ \A i, j \in 1..20 : i < j => Rank(Order[i]) <= Rank(Order[j])
  /\ \A i \in 1..20 : Order[i] = "unit" => i = 13
<1>1. \A i \in 1..10 : Order[i] \in Items /\ Rank(Order[i]) = 1 /\ Order[i] # "unit"
  <2>1. \A i \in 1..9 : Order[i] \in Registrations
    BY OrderedItems DEF Registrations, Commands
  <2>2. "unit" \notin Registrations
    BY DEF Registrations, Commands
  <2>3. "opencode" \in Items
    BY RanksOfItems DEF Paths
  <2>4. \A i \in 1..10 : i \in 1..9 \/ i = 10
    OBVIOUS
  <2> QED BY <2>1, <2>2, <2>3, <2>4, RanksOfItems, OrderedItems
<1>2. \A i \in 11..12 : Order[i] \in Items /\ Rank(Order[i]) = 2 /\ Order[i] # "unit"
  BY OrderedItems, RanksOfItems
<1>3. \A i \in 13..15 : Order[i] \in Items /\ Rank(Order[i]) = 3 /\ (i # 13 => Order[i] # "unit")
  BY OrderedItems, RanksOfItems DEF Paths
<1>4. \A i \in 16..20 : Order[i] \in Items /\ Rank(Order[i]) = 4 /\ Order[i] # "unit"
  BY OrderedItems, RanksOfItems DEF Paths
<1>5. \A i \in 1..20 : i \in 1..10 \/ i \in 11..12 \/ i \in 13..15 \/ i \in 16..20
  OBVIOUS
<1>6. \A i \in 1..20 : Order[i] \in Items /\ (Order[i] = "unit" => i = 13)
  BY <1>1, <1>2, <1>3, <1>4, <1>5
<1>7. ASSUME NEW i \in 1..20, NEW j \in 1..20, i < j
      PROVE  Rank(Order[i]) <= Rank(Order[j])
  <2>1. CASE i \in 1..10
    BY <1>1, <2>1, RankType
  <2>2. CASE i \in 11..12
    <3>1. j \in 11..12 \/ j \in 13..15 \/ j \in 16..20
      BY <1>7, <2>2
    <3> QED BY <1>2, <1>3, <1>4, <2>2, <3>1
  <2>3. CASE i \in 13..15
    <3>1. j \in 13..15 \/ j \in 16..20
      BY <1>7, <2>3
    <3> QED BY <1>3, <1>4, <2>3, <3>1
  <2>4. CASE i \in 16..20
    <3>1. j \in 16..20
      BY <1>7, <2>4
    <3> QED BY <1>4, <2>4, <3>1
  <2> QED BY <1>5, <2>1, <2>2, <2>3, <2>4
<1> QED BY <1>6, <1>7

(* An item of the highest rank so far may be planned. *)
LEMMA PlanningRanked ==
  ASSUME NEW s \in Seq(Items), NEW x \in Items, RankSorted(s), \A y \in ToSet(s) : Rank(y) <= Rank(x)
  PROVE  /\ Append(s, x) \in Seq(Items) /\ RankSorted(Append(s, x))
         /\ ToSet(Append(s, x)) = ToSet(s) \cup {x} /\ Len(Append(s, x)) \in Nat
<1> DEFINE u == Append(s, x)
<1>1. Len(s) \in Nat /\ \A i \in 1..Len(s) : s[i] \in ToSet(s)
  BY Position
<1>2. u \in Seq(Items) /\ Len(u) = Len(s) + 1 /\ u[Len(s) + 1] = x /\ \A i \in 1..Len(s) : u[i] = s[i]
  BY AppendProperties
<1> HIDE DEF u
<1>3. ASSUME NEW i \in 1..Len(u), NEW j \in 1..Len(u), i < j
      PROVE  Rank(u[i]) <= Rank(u[j])
  <2>1. i \in 1..Len(s) /\ (j \in 1..Len(s) \/ j = Len(s) + 1)
    BY <1>1, <1>2, <1>3
  <2> QED BY <1>1, <1>2, <1>3, <2>1 DEF RankSorted
<1>4. ToSet(u) = ToSet(s) \cup {x}
  <2>1. \A y \in ToSet(u) : y \in ToSet(s) \cup {x}
    <3> SUFFICES ASSUME NEW y \in ToSet(u) PROVE y \in ToSet(s) \cup {x}
      OBVIOUS
    <3>1. PICK i \in 1..Len(u) : u[i] = y
      BY <1>2, Position
    <3>2. i \in 1..Len(s) \/ i = Len(s) + 1
      BY <1>1, <1>2
    <3> QED BY <1>1, <1>2, <3>1, <3>2
  <2>2. \A y \in ToSet(s) : y \in ToSet(u)
    <3> SUFFICES ASSUME NEW y \in ToSet(s) PROVE y \in ToSet(u)
      OBVIOUS
    <3>1. PICK i \in 1..Len(s) : s[i] = y
      BY Position
    <3>2. i \in 1..Len(u) /\ u[i] = y
      BY <1>1, <1>2, <3>1
    <3> QED BY <1>2, <3>2, Position
  <2>3. x \in ToSet(u)
    <3>1. Len(s) + 1 \in 1..Len(u)
      BY <1>1, <1>2
    <3> QED BY <1>2, <3>1, Position
  <2> QED BY <2>1, <2>2, <2>3
<1> QED BY <1>1, <1>2, <1>3, <1>4 DEF RankSorted, u

-----------------------------------------------------------------------------
(* The inductive invariant *)

CleanupInv ==
  /\ Types /\ Working /\ Edited /\ Checked /\ Ordered /\ Applied /\ Fresh /\ Covers
  /\ Inspected /\ Backed

(* Before the first run. *)
LEMMA InitCleanup == Init => CleanupInv
<1> SUFFICES ASSUME Init PROVE CleanupInv
  OBVIOUS
<1>1. phase = "scan" /\ cursor = 1 /\ plan = <<>> /\ done = 0 /\ moved = {} /\ DOMAIN snapshots = {}
  BY DEF Init
<1>2. Len(plan) = 0 /\ plan \in Seq(Items) /\ Planned = {}
  BY <1>1 DEF Planned, ToSet
<1>3. Types
  <2>1. node \in [Paths -> Contents] /\ config \in [Files -> FileStates]
        /\ \A f \in Files : \A r \in config[f].regs : Home(r) = f
    BY InstallationsAssumption DEF Init, FileStates, Contents
  <2>2. d \in FileStates /\ d.regs \subseteq {"claude.key"} /\ before \in FileStates /\ attempt \in Nat
    BY DEF Init, NoFile, FileStates
  <2>3. seen \in [Paths -> Contents] /\ ignored = {}
    BY DEF Init, Contents
  <2> QED BY <1>1, <1>2, <2>1, <2>2, <2>3 DEF Types, Running, Scanning
<1>4. Working /\ Edited /\ Checked
  BY <1>1 DEF Working, Edited, Checked, KeyPhases
<1>5. Ordered
  BY <1>1, <1>2 DEF Ordered, RankSorted
<1>6. Applied /\ Fresh /\ Backed /\ Inspected
  BY <1>1, <1>2 DEF Applied, Fresh, Backed, Inspected
<1>7. Covers
  BY <1>1 DEF Covers, Scanning
<1> QED BY <1>3, <1>4, <1>5, <1>6, <1>7 DEF CleanupInv

-----------------------------------------------------------------------------
(* scan *)

(* Scanning leaves the installation alone. *)
LEMMA ScanSame ==
  ASSUME CleanupInv, phase \in Scanning, Keep, phase' \in Scanning \cup {"execute", "refused"},
         cursor' \in 1..21, seen' \in [Paths -> Contents],
         plan' \in Seq(Items), RankSorted(plan'), \A r \in Planned' \cap Registrations : Registered(r)
  PROVE  /\ Types' /\ Edited' /\ Checked' /\ Applied' /\ Fresh' /\ Backed'
         /\ UNCHANGED <<node, config, foreign, indirect, host, enabled, active, unseen, done>>
         /\ \A x : Finds(x)' = Finds(x)
         /\ phase' # "capture" => Working'
<1>1. UNCHANGED <<node, config, foreign, indirect, host, enabled, active, unseen, attempt, done, ignored,
                  moved, snapshots, before, d>>
  BY DEF Keep, world, services, user, backup, edit
<1>2. done = 0 /\ moved = {} /\ DOMAIN snapshots = {} /\ Len(plan') \in Nat
  BY LenProperties DEF CleanupInv, Fresh
<1>3. Types'
  BY <1>1, <1>2 DEF CleanupInv, Types, Running, Ended
<1>4. Edited' /\ Checked'
  BY DEF Edited, Checked, KeyPhases, Scanning
<1>5. \A x : Finds(x)' = Finds(x) /\ Registered(x)' = Registered(x)
  BY <1>1 DEF Finds, Registered, Recognised, exists, Legacy
<1>6. Applied' /\ Fresh' /\ Backed'
  <2>1. Applied'
    BY <1>1, <1>2 DEF Applied
  <2>2. Fresh'
    BY <1>1, <1>2, <1>5 DEF Fresh
  <2>3. Backed'
    BY <1>1, <1>2, <1>5 DEF Backed, Copied, Scanning
  <2> QED BY <2>1, <2>2, <2>3
<1>7. phase' # "capture" => Working'
  BY DEF Working, KeyPhases, Scanning
<1> QED BY <1>1, <1>3, <1>4, <1>5, <1>6, <1>7

\* What an inspection of an item does: it ends the scan, goes on without the
\* item, plans it, or has its identity captured.
Skipped(item) == Continue /\ UNCHANGED <<plan, seen>> /\ ~Finds(item)
PlannedNow(item) == Continue /\ plan' = Append(plan, item) /\ UNCHANGED seen /\ Finds(item) /\ item \notin Paths
ToCapture(item) ==
  /\ phase' = "capture" /\ UNCHANGED <<cursor, plan, seen>> /\ Finds(item) /\ item \in Paths
  /\ item \in Told => Legacy(item)

(* The inspections, one after the other. *)
LEMMA ScanOutcome ==
  ASSUME Scan
  PROVE  \/ capture \/ scanEnds
         \/ /\ phase = "scan" /\ cursor <= 20 /\ Keep
            /\ \/ phase' = "refused" /\ UNCHANGED <<cursor, plan, seen>>
               \/ Skipped(Order[cursor]) \/ PlannedNow(Order[cursor]) \/ ToCapture(Order[cursor])
<1> DEFINE Outcome ==
      /\ phase = "scan" /\ cursor <= 20 /\ Keep
      /\ \/ phase' = "refused" /\ UNCHANGED <<cursor, plan, seen>>
         \/ Skipped(Order[cursor]) \/ PlannedNow(Order[cursor]) \/ ToCapture(Order[cursor])
<1> SUFFICES capture \/ scanEnds \/ Outcome
  OBVIOUS
<1>1. ASSUME NEW item, NEW refused, Inspect(item, refused), item \in Told /\ Finds(item) /\ ~refused => Legacy(item)
      PROVE  Outcome
  BY <1>1, OrderedItems DEF Inspect, Skipped, PlannedNow, ToCapture, Planning, scanned
<1> HIDE DEF Outcome
<1>2. \A item : item \in {"alias", "binary"} => Finds(item) = Legacy(item)
  BY DEF Finds
<1>3. \A item \in {"opencode", "root", "npm"} : Finds(item) = exists(item)
  BY DEF Finds
<1>4. Told = {"opencode", "alias", "binary", "root", "npm"}
  BY DEF Told, Recognisable
<1>5. CASE codex
  BY <1>1, <1>4, <1>5 DEF codex
<1>6. CASE claude
  BY <1>1, <1>4, <1>6 DEF claude
<1>7. CASE otherProducts
  BY <1>1, <1>3, <1>4, <1>7 DEF otherProducts
<1>8. CASE surveyServices
  BY <1>1, <1>4, <1>8 DEF surveyServices
<1>9. CASE scanBin
  BY <1>1, <1>2, <1>4, <1>9 DEF scanBin
<1>10. CASE scanPayload
  BY <1>1, <1>3, <1>4, <1>10 DEF scanPayload
<1> QED BY <1>5, <1>6, <1>7, <1>8, <1>9, <1>10 DEF Scan

(* The item at the cursor may be planned next. *)
LEMMA NextRanked ==
  ASSUME CleanupInv, phase \in Scanning, cursor <= 20
  PROVE  /\ Append(plan, Order[cursor]) \in Seq(Items) /\ RankSorted(Append(plan, Order[cursor]))
         /\ ToSet(Append(plan, Order[cursor])) = Planned \cup {Order[cursor]}
         /\ \A x \in Planned \cup {Order[cursor]} : \E i \in 1..20 : i < cursor + 1 /\ Order[i] = x
<1>1. plan \in Seq(Items) /\ RankSorted(plan) /\ cursor \in 1..20
  BY DEF CleanupInv, Types, Ordered
<1>2. \A y \in ToSet(plan) : Rank(y) <= Rank(Order[cursor])
  <2> SUFFICES ASSUME NEW y \in ToSet(plan) PROVE Rank(y) <= Rank(Order[cursor])
    OBVIOUS
  <2>1. PICK i \in 1..20 : i < cursor /\ Order[i] = y
    BY DEF CleanupInv, Ordered, Planned
  <2> QED BY <1>1, <2>1, OrderRanked
<1>3. Order[cursor] \in Items
  BY <1>1, OrderRanked
<1>4. ASSUME NEW x \in Planned \cup {Order[cursor]}
      PROVE  \E i \in 1..20 : i < cursor + 1 /\ Order[i] = x
  <2>1. CASE x = Order[cursor]
    <3>1. cursor < cursor + 1
      BY <1>1
    <3> QED BY <1>1, <2>1, <3>1
  <2>2. CASE x \in Planned
    <3>1. PICK i \in 1..20 : i < cursor /\ Order[i] = x
      BY <2>2 DEF CleanupInv, Ordered
    <3>2. i < cursor + 1
      BY <1>1, <3>1
    <3> QED BY <3>1, <3>2
  <2> QED BY <2>1, <2>2
<1> QED BY <1>1, <1>2, <1>3, <1>4, PlanningRanked DEF Planned

(* scan keeps the invariant. *)
LEMMA ScanKeeps ==
  ASSUME CleanupInv, Scan
  PROVE  CleanupInv'
<1>1. /\ plan \in Seq(Items) /\ RankSorted(plan) /\ cursor \in 1..21 /\ seen \in [Paths -> Contents]
      /\ node \in [Paths -> Contents] /\ Covers /\ Ordered /\ Inspected
  BY DEF CleanupInv, Types, Ordered
<1>2. phase \in Scanning /\ Keep /\ done = 0
      /\ \A r \in Planned \cap Registrations : Registered(r)
  BY ScanOutcome DEF capture, scanEnds, Scanning, CleanupInv, Fresh
<1>3. phase # "refused"
  BY <1>2 DEF Scanning
<1> DEFINE Kept == /\ Types' /\ Edited' /\ Checked' /\ Applied' /\ Fresh' /\ Backed'
                   /\ UNCHANGED <<node, config, foreign, indirect, host, enabled, active, unseen, done>>
                   /\ \A x : Finds(x)' = Finds(x)
                   /\ phase' # "capture" => Working'
<1> HIDE DEF Kept
<1>4. CASE phase' \in {"refused", "execute"} /\ UNCHANGED <<cursor, plan, seen>> /\ (phase' = "execute" => cursor = 21)
  <2>1. Planned' = Planned
    BY <1>4 DEF Planned
  <2>2. Kept
    BY <1>1, <1>2, <1>4, <2>1, ScanSame DEF Kept
  <2>3. Ordered' /\ Covers' /\ Inspected'
    BY <1>1, <1>3, <1>4, <2>1, <2>2, <1>2 DEF Ordered, Covers, Inspected, Kept, Scanning, Legacy
  <2> QED BY <1>4, <2>2, <2>3 DEF CleanupInv, Kept
<1>5. CASE cursor <= 20 /\ phase = "scan" /\ Skipped(Order[cursor])
  <2>1. Planned' = Planned /\ phase' = "scan" /\ cursor' = cursor + 1 /\ cursor' \in 1..21
        /\ UNCHANGED <<plan, seen>> /\ ~Finds(Order[cursor])
    BY <1>1, <1>5 DEF Planned, Skipped, Continue
  <2>2. Kept
    BY <1>1, <1>2, <2>1, ScanSame DEF Kept, Scanning
  <2>3. Ordered'
    BY <1>1, <1>2, <2>1 DEF Ordered, Scanning
  <2>4. Covers'
    <3>1. \A i \in 1..20 : i < cursor' => i < cursor \/ i = cursor
      BY <1>1, <2>1
    <3> QED BY <1>1, <1>3, <2>1, <2>2, <3>1 DEF Covers, Kept, Scanning
  <2>5. Inspected'
    BY <1>1, <1>2, <2>1, <2>2 DEF Inspected, Kept, Legacy
  <2> QED BY <2>1, <2>2, <2>3, <2>4, <2>5 DEF CleanupInv, Kept
<1>6. CASE cursor <= 20 /\ phase = "scan" /\ PlannedNow(Order[cursor])
  <2>1. phase' = "scan" /\ cursor' = cursor + 1 /\ cursor' \in 1..21 /\ cursor \in 1..20
        /\ plan' = Append(plan, Order[cursor]) /\ seen' = seen
        /\ Finds(Order[cursor]) /\ Order[cursor] \notin Paths
    BY <1>1, <1>6 DEF PlannedNow, Continue
  <2>2. /\ plan' \in Seq(Items) /\ RankSorted(plan') /\ Planned' = Planned \cup {Order[cursor]}
        /\ \A x \in Planned' : \E i \in 1..20 : i < cursor' /\ Order[i] = x
    BY <1>2, <1>6, <2>1, NextRanked DEF Planned
  <2>3. Order[cursor] \in Registrations => Registered(Order[cursor])
    BY <2>1 DEF Finds, Recognised, Registrations, Commands
  <2>4. Kept
    BY <1>1, <1>2, <2>1, <2>2, <2>3, ScanSame DEF Kept, Scanning
  <2>5. "unit" # Order[cursor] /\ Told \subseteq Paths
    BY <2>1 DEF Paths, Told, Recognisable
  <2>6. Ordered'
    <3>1. "unit" \in Planned' => "disable" \in Planned'
      BY <1>1, <2>2, <2>5 DEF Ordered
    <3> QED BY <2>1, <2>2, <3>1 DEF Ordered
  <2>7. Covers'
    <3>1. \A i \in 1..20 : i < cursor' => i < cursor \/ i = cursor
      BY <2>1
    <3> QED BY <1>1, <1>3, <2>1, <2>2, <2>4, <3>1 DEF Covers, Kept, Scanning
  <2>8. Inspected'
    BY <1>1, <1>2, <2>1, <2>2, <2>4, <2>5 DEF Inspected, Kept, Legacy
  <2> QED BY <2>1, <2>4, <2>6, <2>7, <2>8 DEF CleanupInv, Kept
<1>7. CASE cursor <= 20 /\ phase = "scan" /\ ToCapture(Order[cursor])
  <2>1. Planned' = Planned /\ phase' = "capture" /\ UNCHANGED <<cursor, plan, seen>> /\ cursor \in 1..20
        /\ Finds(Order[cursor]) /\ Order[cursor] \in Paths /\ (Order[cursor] \in Told => Legacy(Order[cursor]))
    BY <1>1, <1>7 DEF Planned, ToCapture
  <2>2. Kept
    BY <1>1, <1>2, <2>1, ScanSame DEF Kept, Scanning
  <2>3. Working'
    BY <2>1 DEF Working, KeyPhases
  <2>4. Order[cursor] = "unit" => "disable" \in Planned
    <3>1. Order[cursor] = "unit" => cursor = 13 /\ Finds("disable")
      BY <2>1, OrderRanked DEF Finds
    <3>2. Order[12] = "disable" /\ 12 \in 1..20
      BY OrderedItems
    <3> QED BY <1>1, <1>3, <3>1, <3>2 DEF Covers
  <2>5. Ordered'
    BY <1>1, <1>2, <2>1, <2>4 DEF Ordered, Scanning
  <2>6. Covers'
    BY <1>1, <1>3, <2>1, <2>2 DEF Covers, Kept, Scanning
  <2>7. Inspected'
    <3>1. Order[cursor] \in Told => Identity(node[Order[cursor]]) = "legacy"
      BY <2>1 DEF Legacy, Identity
    <3> QED BY <1>1, <1>2, <2>1, <2>2, <3>1 DEF Inspected, Kept, Legacy
  <2> QED BY <2>2, <2>3, <2>5, <2>6, <2>7 DEF CleanupInv, Kept
<1>8. CASE capture /\ phase' # "refused"
  <2>1. phase = "capture" /\ phase' = "scan" /\ cursor' = cursor + 1
        /\ plan' = Append(plan, Order[cursor])
        /\ seen' = [seen EXCEPT ![Order[cursor]] = Identity(node[Order[cursor]])]
    BY <1>8 DEF capture, Continue, Planning
  <2>2. cursor \in 1..20 /\ cursor' \in 1..21 /\ Order[cursor] \in Paths
    BY <2>1 DEF CleanupInv, Working
  <2>3. /\ plan' \in Seq(Items) /\ RankSorted(plan') /\ Planned' = Planned \cup {Order[cursor]}
        /\ \A x \in Planned' : \E i \in 1..20 : i < cursor' /\ Order[i] = x
    BY <1>2, <2>1, <2>2, NextRanked DEF Planned
  <2>4. Identity(node[Order[cursor]]) \in Contents
    BY <1>1, <2>2 DEF Identity, Contents
  <2>5. /\ seen' \in [Paths -> Contents] /\ seen'[Order[cursor]] = Identity(node[Order[cursor]])
        /\ \A p \in Paths \ {Order[cursor]} : seen'[p] = seen[p]
    BY <1>1, <2>1, <2>2, <2>4
  <2>6. Order[cursor] \notin Registrations
    BY <2>2 DEF Paths, Registrations, Commands
  <2>7. Kept
    BY <1>1, <1>2, <2>1, <2>2, <2>3, <2>5, <2>6, ScanSame DEF Kept, Scanning
  <2>8. Ordered'
    <3>1. "unit" \in Planned' => "disable" \in Planned'
      BY <1>1, <2>1, <2>3 DEF Ordered
    <3> QED BY <2>1, <2>3, <3>1 DEF Ordered
  <2>9. Covers'
    <3>1. \A i \in 1..20 : i < cursor' => i < cursor \/ i = cursor
      BY <2>1, <2>2
    <3> QED BY <1>1, <1>3, <2>1, <2>3, <2>7, <3>1 DEF Covers, Kept, Scanning
  <2>10. Inspected'
    <3>1. Told \subseteq Paths /\ "unit" \in Paths
      BY DEF Paths, Told, Recognisable
    <3>2. Legacy("unit") => Identity(node["unit"]) = "legacy"
      BY DEF Legacy, Identity
    <3>3. /\ \A p \in Planned' \cap Told : <<"capture", p>> \notin unseen => seen'[p] = "legacy"
          /\ "unit" \in Planned' /\ Legacy("unit") => seen'["unit"] = "legacy"
      BY <1>1, <2>1, <2>3, <2>5, <3>1, <3>2 DEF Inspected
    <3> QED BY <1>2, <2>1, <2>7, <3>3 DEF Inspected, Kept, Legacy
  <2> QED BY <2>1, <2>7, <2>8, <2>9, <2>10 DEF CleanupInv, Kept
<1>9. CASE scanEnds
  <2>1. phase' \in {"refused", "execute"} /\ UNCHANGED <<cursor, plan, seen>> /\ cursor > 20
    BY <1>9, OrderedItems DEF scanEnds, scanned
  <2> QED BY <1>1, <1>4, <2>1
<1>10. CASE phase' = "refused" /\ UNCHANGED <<cursor, plan, seen>>
  BY <1>4, <1>10
<1>11. capture /\ phase' = "refused" => UNCHANGED <<cursor, plan, seen>>
  BY DEF capture, Continue, scanned
<1> QED BY <1>5, <1>6, <1>7, <1>8, <1>9, <1>10, <1>11, ScanOutcome

-----------------------------------------------------------------------------
(* execute and the user *)

WorldTypes ==
  /\ node \in [Paths -> Contents]
  /\ config \in [Files -> FileStates]
  /\ \A f \in Files : \A r \in config[f].regs : Home(r) = f

\* Nobody registers, installs or enables again.
Shrinks ==
  /\ \A r \in Registrations : Registered(r)' => Registered(r)
  /\ \A p \in Paths : (exists(p)' => exists(p)) /\ (Legacy(p)' => Legacy(p))
  /\ enabled' => enabled
  /\ foreign' = foreign

(* Every registration is in one of the files, only the key in settings. *)
LEMMA HomeFiles ==
  /\ \A r \in Registrations : Home(r) \in Files
  /\ \A r \in Registrations : Home(r) = "settings" => r = "claude.key"
  /\ Home("claude.key") = "settings" /\ "settings" \in Files
  /\ "claude.key" \in Copied
<1>1. Home("codex.mcp") = "config.toml" /\ Home("codex.plugin") = "config.toml" /\ Home("codex.market") = "config.toml"
  BY DEF Home
<1>2. Home("claude.plugin") = "installed" /\ Home("claude.market") = "markets" /\ Home("claude.key") = "settings"
  BY DEF Home
<1>3. Home("claude.mcp") = "claude.json" /\ Home("qwen") = "extension" /\ Home("grok") = "registry"
  BY DEF Home
<1>4. "claude.key" \in Copied
  BY DEF Copied, Configs, Registrations
<1> QED BY <1>1, <1>2, <1>3, <1>4 DEF Registrations, Commands, Files

(* A step that leaves paths, files and the service as they are. *)
LEMMA SameWorld ==
  ASSUME Types, UNCHANGED <<node, config, enabled, foreign>>
  PROVE  WorldTypes' /\ Shrinks
BY DEF Types, WorldTypes, Shrinks, Registered, exists, Legacy

(* A path is renamed, or replaced by its user. *)
LEMMA PathStep ==
  ASSUME Types, NEW p \in Paths, NEW v \in {"absent", "foreign", "overwritten"},
         node' = [node EXCEPT ![p] = v], v = "absent" \/ Legacy(p), UNCHANGED <<config, enabled, foreign>>
  PROVE  WorldTypes' /\ Shrinks
BY DEF Types, WorldTypes, Shrinks, Registered, exists, Legacy, Contents

(* A native command drops registrations, and perhaps the cached assets. *)
LEMMA DropStep ==
  ASSUME Types, NEW gone,
         config' = [f \in Files |-> [config[f] EXCEPT !.regs = @ \ gone]],
         node' \in {node, [node EXCEPT !["cache"] = "absent"]}, UNCHANGED <<enabled, foreign>>
  PROVE  /\ WorldTypes' /\ Shrinks
         /\ \A f \in Files : config'[f].rev = config[f].rev /\ config'[f].regs = config[f].regs \ gone
         /\ \A r \in Registrations : Registered(r)' <=> Registered(r) /\ r \notin gone
<1>1. \A f \in Files : config[f] \in FileStates
  BY DEF Types
<1>2. \A f \in Files : config'[f] = [config[f] EXCEPT !.regs = @ \ gone]
  OBVIOUS
<1>3. \A f \in Files : /\ config'[f] \in FileStates
                       /\ config'[f].rev = config[f].rev /\ config'[f].regs = config[f].regs \ gone
  BY <1>1, <1>2 DEF FileStates
<1>4. config' \in [Files -> FileStates]
  BY <1>3
<1>5. \A r \in Registrations : Registered(r)' <=> Registered(r) /\ r \notin gone
  BY <1>3, HomeFiles DEF Registered
<1>6. \A f \in Files : \A r \in config'[f].regs : Home(r) = f
  BY <1>3 DEF Types
<1>7. /\ node' \in [Paths -> Contents]
      /\ \A p \in Paths : (exists(p)' => exists(p)) /\ (Legacy(p)' => Legacy(p))
  BY DEF Types, Paths, exists, Legacy, Contents
<1> QED BY <1>3, <1>4, <1>5, <1>6, <1>7 DEF WorldTypes, Shrinks

(* The user edits a file. *)
LEMMA EditStep ==
  ASSUME Types, NEW f \in Files, config' = [config EXCEPT ![f].rev = @ + 1],
         UNCHANGED <<node, enabled, foreign>>
  PROVE  /\ WorldTypes' /\ Shrinks
         /\ \A g \in Files : config'[g].regs = config[g].regs /\ config'[g].rev \in {config[g].rev, config[g].rev + 1}
         /\ \A g \in Files : config'[g] = config[g] \/ config'[g].rev = config[g].rev + 1
<1>1. \A g \in Files : config[g] \in FileStates
  BY DEF Types
<1>2. \A g \in Files : config'[g] = IF g = f THEN [config[f] EXCEPT !.rev = @ + 1] ELSE config[g]
  BY DEF Types
<1>3. /\ [config[f] EXCEPT !.rev = @ + 1] \in FileStates
      /\ [config[f] EXCEPT !.rev = @ + 1].regs = config[f].regs
      /\ [config[f] EXCEPT !.rev = @ + 1].rev = config[f].rev + 1
  BY <1>1 DEF FileStates
<1>4. \A g \in Files : /\ config'[g] \in FileStates /\ config'[g].regs = config[g].regs
                       /\ config'[g] = config[g] \/ config'[g].rev = config[g].rev + 1
  BY <1>1, <1>2, <1>3
<1>5. config' \in [Files -> FileStates]
  <2>1. config' = [g \in Files |-> config'[g]]
    BY DEF Types
  <2> QED BY <1>4, <2>1
<1>6. \A g \in Files : \A r \in config'[g].regs : Home(r) = g
  BY <1>4 DEF Types
<1>7. \A r \in Registrations : Registered(r)' = Registered(r)
  BY <1>4, HomeFiles DEF Registered
<1>8. WorldTypes' /\ Shrinks
  BY <1>5, <1>6, <1>7 DEF WorldTypes, Shrinks, Types, exists, Legacy
<1> QED BY <1>4, <1>8

(* removeKey writes the file back without the key. *)
LEMMA KeyStep ==
  ASSUME Types, config' = [config EXCEPT !["settings"] = [d EXCEPT !.regs = @ \ {"claude.key"}]],
         UNCHANGED <<node, enabled, foreign>>
  PROVE  /\ WorldTypes' /\ Shrinks /\ ~Registered("claude.key")'
         /\ config'["settings"].regs = {} /\ config'["settings"].rev = d.rev
         /\ \A f \in Files \ {"settings"} : config'[f] = config[f]
<1> DEFINE e == [d EXCEPT !.regs = @ \ {"claude.key"}]
<1>1. e \in FileStates /\ e.regs = {} /\ e.rev = d.rev
  BY DEF Types, FileStates
<1> HIDE DEF e
<1>2. config' = [config EXCEPT !["settings"] = e] /\ config \in [Files -> FileStates] /\ "settings" \in Files
  BY HomeFiles DEF e, Types
<1>3. config' \in [Files -> FileStates] /\ config'["settings"] = e /\ \A f \in Files \ {"settings"} : config'[f] = config[f]
  BY <1>1, <1>2
<1>4. \A f \in Files : \A r \in config'[f].regs : Home(r) = f
  BY <1>1, <1>3 DEF Types
<1>5. ~Registered("claude.key")' /\ \A r \in Registrations : Registered(r)' => Registered(r)
  BY <1>1, <1>3, HomeFiles DEF Registered
<1>6. WorldTypes' /\ Shrinks
  BY <1>3, <1>4, <1>5 DEF WorldTypes, Shrinks, Types, exists, Legacy
<1> QED BY <1>1, <1>3, <1>5, <1>6

\* One step of execute: an item is done, or not yet.
Progress ==
  /\ phase \notin Scanning \cup {"refused"} /\ phase' \notin Scanning \cup {"refused", "execute"}
  /\ UNCHANGED <<plan, attempt, cursor, seen, unseen>>
  /\ ignored \subseteq ignored' /\ ignored' \subseteq Commands
  /\ \/ done' = done /\ moved' = moved
     \/ \E x \in Items : /\ done' = done + 1 /\ done < Len(plan) /\ plan[done + 1] = x
                         /\ Gone(x)' \/ x \in ignored'
                         /\ x = "disable" => phase = "disable"
                         /\ moved' = moved \/ (moved' = moved \cup {x} /\ x \in Paths)
  /\ phase' \in {"disableState", "disable"} /\ "unit" \in Planned => seen["unit"] = "legacy"

(* Finding needs what is there. *)
LEMMA FindsShrink ==
  ASSUME Shrinks, NEW x \in Items, Finds(x)'
  PROVE  Finds(x)
<1>1. /\ \A r \in Registrations : (Registered(r)' => Registered(r)) /\ (Recognised(r)' => Recognised(r))
      /\ \A p \in Paths : (exists(p)' => exists(p)) /\ (Legacy(p)' => Legacy(p))
  BY DEF Shrinks, Recognised
<1>2. CASE x \in Registrations
  BY <1>1, <1>2 DEF Finds, Registrations, Commands
<1>3. CASE x \notin Registrations
  BY <1>1, <1>3 DEF Finds, Registrations, Commands, Paths
<1> QED BY <1>2, <1>3

(* The plan does not change, what is done stays done. *)
LEMMA ProgressKeeps ==
  ASSUME CleanupInv, WorldTypes', Shrinks, Progress,
         phase' \in Running \cup Ended, d' \in FileStates, d'.regs \subseteq {"claude.key"},
         before' \in FileStates, DOMAIN snapshots' \subseteq Files
  PROVE  Types' /\ Ordered' /\ Applied' /\ Fresh' /\ Covers' /\ Inspected'
<1>1. /\ plan \in Seq(Items) /\ Len(plan) \in Nat /\ done \in 0..Len(plan) /\ moved \subseteq Paths
      /\ \A i \in 1..Len(plan) : plan[i] \in Items
  BY Position DEF CleanupInv, Types
<1>2. /\ plan' = plan /\ Planned' = Planned /\ UNCHANGED <<attempt, cursor, seen, unseen>>
      /\ phase \notin Scanning /\ phase' \notin Scanning /\ phase # "refused"
  BY DEF Progress, Planned
<1>3. \A i \in 1..done : Gone(plan[i])' \/ plan[i] \in ignored'
  <2>1. ASSUME NEW x, Gone(x) PROVE Gone(x)'
    BY <2>1 DEF Gone, Shrinks
  <2>2. \A i \in 1..done : Gone(plan[i]) \/ plan[i] \in ignored
    BY DEF CleanupInv, Applied
  <2> QED BY <1>2, <2>1, <2>2 DEF Progress
<1>4. /\ done' \in 0..Len(plan) /\ moved' \subseteq Paths /\ Applied'
      /\ \A i \in 1..done' : plan[i] = "disable" => phase = "disable" \/ i \in 1..done
  <2>1. CASE done' = done /\ moved' = moved
    BY <1>1, <1>2, <1>3, <2>1 DEF CleanupInv, Applied
  <2>2. ASSUME NEW x \in Items, done' = done + 1, done < Len(plan), plan[done + 1] = x,
               Gone(x)' \/ x \in ignored', x = "disable" => phase = "disable",
               moved' = moved \/ (moved' = moved \cup {x} /\ x \in Paths)
        PROVE  /\ done' \in 0..Len(plan) /\ moved' \subseteq Paths /\ Applied'
               /\ \A i \in 1..done' : plan[i] = "disable" => phase = "disable" \/ i \in 1..done
    <3>1. done' \in 0..Len(plan) /\ moved' \subseteq Paths
      BY <1>1, <2>2
    <3>2. \A i \in 1..done' : i \in 1..done \/ i = done + 1
      BY <1>1, <2>2
    <3>3. \A i \in 1..done' : Gone(plan[i])' \/ plan[i] \in ignored'
      BY <1>2, <1>3, <2>2, <3>2
    <3>4. done + 1 \in 1..done' /\ \A i \in 1..done : i \in 1..done'
      BY <1>1, <2>2
    <3>5. \A p \in moved' : \E i \in 1..done' : plan[i] = p
      BY <2>2, <3>4 DEF CleanupInv, Applied
    <3> QED BY <1>2, <2>2, <3>1, <3>2, <3>3, <3>5 DEF Applied
  <2> QED BY <2>1, <2>2 DEF Progress
<1>5. Types'
  BY <1>1, <1>2, <1>4 DEF CleanupInv, Types, WorldTypes, Progress
<1>6. Ordered' /\ Fresh'
  BY <1>2 DEF CleanupInv, Ordered, Fresh, Progress, Scanning
<1>7. Covers'
  <2>1. ASSUME NEW i \in 1..20, Finds(Order[i])' PROVE Finds(Order[i])
    BY <2>1, OrderRanked, FindsShrink
  <2> QED BY <1>2, <2>1 DEF CleanupInv, Covers, Progress
<1>8. Inspected'
  <2>1. Legacy("unit")' => Legacy("unit")
    BY DEF Shrinks, Paths
  <2>2. ASSUME "unit" \in Planned, NEW i \in 1..done', plan[i] = "disable"
        PROVE  seen["unit"] = "legacy"
    BY <1>4, <2>2 DEF CleanupInv, Inspected
  <2> QED BY <1>2, <2>1, <2>2 DEF CleanupInv, Inspected, Progress, Scanning
<1> QED BY <1>4, <1>5, <1>6, <1>7, <1>8

(* Nothing is unregistered and nothing is backed up. *)
LEMMA SameBacked ==
  ASSUME CleanupInv, UNCHANGED <<config, plan, snapshots>>, phase' # "native",
         phase' \in {"keyCompare", "keyRename"} => phase \in {"keyCompare", "keyRename"}
  PROVE  Backed'
BY DEF CleanupInv, Backed, Planned, Registered, Copied

(* The kinds of items are disjoint. *)
LEMMA ItemKinds ==
  /\ \A p \in Paths : p \notin Registrations /\ p # "disable"
  /\ \A r \in Registrations : r \notin Paths /\ r # "disable"
  /\ "disable" \notin Registrations \cup Paths /\ "reload" \notin Registrations \cup Paths
  /\ Commands \subseteq Registrations /\ "claude.key" \in Registrations
BY DEF Paths, Registrations, Commands

(* Steps of execute that change neither the installation nor the backup. *)
LEMMA CheckStepsKeep ==
  ASSUME CleanupInv,
         \/ \E apply \in BOOLEAN : execute(apply)
         \/ \E p \in Paths : moveCheck(p)
         \/ disableExecutable \/ disableInactive \/ daemonReload \/ keyCompare \/ Complete \/ Stop
  PROVE  CleanupInv'
<1> USE DEF Goto, Succeed
<1>1. /\ UNCHANGED <<node, config, foreign, indirect, host, enabled, active, unseen, attempt, cursor, plan, seen,
                     ignored, moved, snapshots, before, d>>
      /\ done' = done \/ done' = done + 1
  BY DEF execute, moveCheck, disableExecutable, disableInactive, daemonReload, keyCompare, Complete, Stop,
         world, services, user, scanned, backup, edit
<1>2. Types /\ Working /\ Edited /\ Checked /\ Inspected /\ done \in Nat /\ Len(plan) \in Nat
  BY LenProperties DEF CleanupInv, Types
<1>3. WorldTypes' /\ Shrinks
  BY <1>1, <1>2, SameWorld
<1>4. /\ phase' \in {"apply", "preview", "rename", "disableState", "disable", "keyRename", "stopped", "complete"}
      /\ phase \in {"execute", "apply", "rename", "disableState", "disable", "native"} \cup KeyPhases
      /\ phase' = "keyRename" => phase = "keyCompare"
      /\ phase' = "disable" => phase = "disableState"
      /\ phase' = "disableState" => AtStep("disable") /\ serviceExecutable
  BY DEF execute, moveCheck, disableExecutable, disableInactive, daemonReload, keyCompare, Complete, Stop,
         AtStep, Applying, KeyPhases
<1>5. Progress
  <2>1. \/ done' = done
        \/ \E x \in Items : /\ done' = done + 1 /\ done < Len(plan) /\ plan[done + 1] = x /\ Gone(x)'
                            /\ x # "disable"
    <3>1. CASE done' # done
      <4>1. \/ \E p \in Paths : AtStep(p) /\ ~exists(p)
            \/ AtStep("reload")
        BY <3>1 DEF execute, moveCheck, disableExecutable, disableInactive, daemonReload, keyCompare, Complete, Stop
      <4> QED BY <1>1, <3>1, <4>1, ItemKinds DEF AtStep, Gone, exists, Items
    <3> QED BY <3>1
  <2>2. phase' \in {"disableState", "disable"} /\ "unit" \in Planned => seen["unit"] = "legacy"
    BY <1>2, <1>4 DEF Inspected, serviceExecutable
  <2> QED BY <1>1, <1>2, <1>4, <2>1, <2>2 DEF Progress, Scanning, KeyPhases, Types
<1>6. Types' /\ Ordered' /\ Applied' /\ Fresh' /\ Covers' /\ Inspected'
  BY <1>1, <1>2, <1>3, <1>4, <1>5, ProgressKeeps DEF Types, Running, Applying, Ended
<1>7. Backed'
  BY <1>1, <1>4, SameBacked
<1>8. Edited'
  BY <1>4 DEF Edited
<1>9. CASE phase' \notin {"rename", "disableState", "disable", "keyRename"}
  <2>1. phase' = "complete" => done' = Len(plan')
    BY <1>1 DEF execute, moveCheck, disableExecutable, disableInactive, daemonReload, keyCompare, Complete, Stop
  <2>2. Working' /\ Checked'
    BY <1>4, <1>9, <2>1 DEF Working, Checked, KeyPhases
  <2> QED BY <1>6, <1>7, <1>8, <2>2 DEF CleanupInv
<1>10. CASE phase' = "rename"
  <2>1. PICK p \in Paths : AtStep(p) /\ SameFile(p) /\ safeParent(p) /\ done' = done
    BY <1>10 DEF execute, moveCheck, disableExecutable, disableInactive, daemonReload, keyCompare, Complete, Stop
  <2>2. Working' /\ Checked'
    BY <1>1, <1>10, <2>1 DEF Working, Checked, KeyPhases, AtStep, SameFile, safeParent, Identity
  <2> QED BY <1>6, <1>7, <1>8, <2>2 DEF CleanupInv
<1>11. CASE phase' = "disableState"
  <2>1. AtStep("disable") /\ serviceExecutable /\ done' = done
    BY <1>4, <1>11 DEF disableExecutable, execute, moveCheck, disableInactive, daemonReload, keyCompare, Complete, Stop
  <2>2. Working' /\ Checked'
    BY <1>1, <1>11, <2>1 DEF Working, Checked, KeyPhases, AtStep, serviceExecutable, Legacy, safeParent
  <2> QED BY <1>6, <1>7, <1>8, <2>2 DEF CleanupInv
<1>12. CASE phase' = "disable"
  <2>1. phase = "disableState" /\ ~active /\ done' = done
    BY <1>12 DEF execute, moveCheck, disableExecutable, disableInactive, daemonReload, keyCompare, Complete, Stop
  <2>2. /\ ExecutableUnseen' = ExecutableUnseen /\ serviceExecutable' = serviceExecutable
        /\ done < Len(plan) /\ plan[done + 1] = "disable" /\ (~ExecutableUnseen => serviceExecutable)
    BY <1>1, <1>2, <2>1 DEF Working, Checked, ExecutableUnseen, serviceExecutable, Legacy, safeParent
  <2>3. Working'
    BY <1>1, <1>12, <2>1, <2>2 DEF Working, KeyPhases
  <2>4. Checked'
    BY <1>1, <1>12, <2>1, <2>2 DEF Checked
  <2> QED BY <1>6, <1>7, <1>8, <2>3, <2>4 DEF CleanupInv
<1>13. CASE phase' = "keyRename"
  <2>1. phase = "keyCompare" /\ config["settings"] = before /\ done' = done
    BY <1>13 DEF execute, moveCheck, disableExecutable, disableInactive, daemonReload, keyCompare, Complete, Stop, SameBytes
  <2>2. d = config["settings"]
    <3>1. config["settings"] \in FileStates /\ d \in FileStates
      BY <1>2, HomeFiles DEF Types
    <3>2. d.rev = config["settings"].rev /\ d.regs = config["settings"].regs
      BY <1>2, <2>1, <3>1 DEF Edited, FileStates
    <3> QED BY <3>1, <3>2 DEF FileStates
  <2>3. Working' /\ Checked'
    BY <1>1, <1>2, <1>13, <2>1, <2>2 DEF Working, Checked, KeyPhases
  <2> QED BY <1>6, <1>7, <1>8, <2>3 DEF CleanupInv
<1> QED BY <1>9, <1>10, <1>11, <1>12, <1>13

(* The quarantine, and the service. *)
LEMMA RetireStepsKeep ==
  ASSUME CleanupInv, moveRename \/ disable
  PROVE  CleanupInv'
<1>1. /\ UNCHANGED <<config, foreign, attempt, unseen, cursor, plan, seen, ignored, snapshots, before, d>>
      /\ done' = done + 1 /\ phase' = "apply" /\ phase \in {"rename", "disable"}
  BY DEF moveRename, disable, Succeed, services, user, scanned, backup, edit
<1>2. Types /\ done < Len(plan) /\ Working /\ ignored \subseteq Commands
  BY <1>1 DEF CleanupInv, Working, Types
<1>3. WorldTypes' /\ Shrinks /\ Progress
  <2>1. CASE moveRename
    <3>1. PICK p \in Paths : /\ p = plan[done + 1] /\ node' = [node EXCEPT ![p] = "absent"]
                             /\ moved' = moved \cup {p} /\ enabled' = enabled
      BY <1>2, <2>1 DEF moveRename, Working, services
    <3>2. WorldTypes' /\ Shrinks
      BY <1>1, <1>2, <3>1, PathStep
    <3>3. Gone(p)' /\ p \in Items /\ p # "disable"
      BY <1>2, <3>1, ItemKinds DEF Gone, exists, Types, Items
    <3> QED BY <1>1, <1>2, <3>1, <3>2, <3>3 DEF Progress, Scanning
  <2>2. CASE disable
    <3>1. plan[done + 1] = "disable" /\ phase = "disable" /\ node' = node /\ moved' = moved /\ enabled' = FALSE
      BY <1>2, <2>2 DEF disable, Working, backup
    <3>2. WorldTypes' /\ Shrinks
      BY <1>1, <1>2, <3>1 DEF Types, WorldTypes, Shrinks, Registered, exists, Legacy
    <3>3. Gone("disable")' /\ "disable" \in Items
      BY <3>1, ItemKinds DEF Gone, Items
    <3> QED BY <1>1, <1>2, <3>1, <3>2, <3>3 DEF Progress, Scanning
  <2> QED BY <2>1, <2>2
<1>4. Types' /\ Ordered' /\ Applied' /\ Fresh' /\ Covers' /\ Inspected'
  BY <1>1, <1>2, <1>3, ProgressKeeps DEF Types, Running, Applying
<1>5. Backed'
  BY <1>1, SameBacked
<1>6. Working' /\ Edited' /\ Checked'
  BY <1>1 DEF Working, Edited, Checked, KeyPhases
<1> QED BY <1>4, <1>5, <1>6 DEF CleanupInv

(* The files that are copied before a command runs. *)
LEMMA ConfigFiles ==
  /\ \A r \in Commands : Configs(r) \subseteq Files
  /\ "settings" \in Configs("claude.plugin")
BY DEF Configs, Home, Commands, Files

(* snapshot keeps the first copy of a file and copies what is registered. *)
LEMMA SnapshotBacks ==
  ASSUME CleanupInv, NEW files \in SUBSET Files, snapshot(files), UNCHANGED <<config, plan>>
  PROVE  /\ DOMAIN snapshots' \subseteq Files
         /\ \A r \in Planned' \cap Copied :
              /\ ~Registered(r)' => Home(r) \in DOMAIN snapshots'
              /\ Home(r) \in DOMAIN snapshots' => r \in snapshots'[Home(r)].regs
         /\ \A r \in Registrations : Registered(r)' /\ Home(r) \in files => Home(r) \in DOMAIN snapshots'
<1> DEFINE D == DOMAIN snapshots \cup {g \in files : config[g] # NoFile}
<1>1. snapshots' = [f \in D |-> IF f \in DOMAIN snapshots THEN snapshots[f] ELSE config[f]]
  BY DEF snapshot
<1>2. DOMAIN snapshots' = D /\ D \subseteq Files
  BY <1>1 DEF CleanupInv, Types
<1>3. \A r : Registered(r)' = Registered(r) /\ Planned' = Planned
  BY DEF Registered, Planned
<1>4. \A r \in Registrations : Registered(r) => config[Home(r)] # NoFile
  BY DEF Registered, NoFile
<1>5. ASSUME NEW r \in Planned \cap Copied, Home(r) \in D
      PROVE  r \in snapshots'[Home(r)].regs
  <2>1. CASE Home(r) \in DOMAIN snapshots
    BY <1>1, <1>5, <2>1 DEF CleanupInv, Backed
  <2>2. CASE Home(r) \notin DOMAIN snapshots
    <3>1. Registered(r)
      BY <1>5, <2>2 DEF CleanupInv, Backed
    <3> QED BY <1>1, <1>5, <2>2, <3>1 DEF Registered
  <2> QED BY <2>1, <2>2
<1>6. \A r \in Planned \cap Copied : ~Registered(r) => Home(r) \in D
  BY DEF CleanupInv, Backed
<1>7. \A r \in Registrations : Registered(r) /\ Home(r) \in files => Home(r) \in D
  BY <1>4
<1> QED BY <1>2, <1>3, <1>5, <1>6, <1>7

(* A native command: its files are copied. *)
LEMMA NativeSnapshotKeeps ==
  ASSUME CleanupInv, NEW r \in Commands, nativeSnapshot(r)
  PROVE  CleanupInv'
<1>1. /\ UNCHANGED <<node, config, foreign, enabled, attempt, unseen, cursor, plan, seen, done, ignored,
                     moved, before, d>>
      /\ phase = "apply" /\ done < Len(plan) /\ plan[done + 1] = r
  BY DEF nativeSnapshot, AtStep, Goto, world, services, user, scanned, edit
<1>2. /\ phase' \in {"native", "stopped"}
      /\ \E files \in SUBSET Files : snapshot(files) /\ (phase' = "native" => files = Configs(r))
  <2>1. Configs(r) \subseteq Files /\ Configs(r) \ indirect \subseteq Files
    BY ConfigFiles
  <2> QED BY <2>1 DEF nativeSnapshot, Goto
<1>3. PICK files \in SUBSET Files : snapshot(files) /\ (phase' = "native" => files = Configs(r))
  BY <1>2
<1>4. /\ DOMAIN snapshots' \subseteq Files
      /\ \A x \in Planned' \cap Copied :
           /\ ~Registered(x)' => Home(x) \in DOMAIN snapshots'
           /\ Home(x) \in DOMAIN snapshots' => x \in snapshots'[Home(x)].regs
      /\ \A x \in Registrations : Registered(x)' /\ Home(x) \in files => Home(x) \in DOMAIN snapshots'
  BY <1>1, <1>3, SnapshotBacks
<1>5. WorldTypes' /\ Shrinks
  BY <1>1, SameWorld DEF CleanupInv
<1>6. Progress
  BY <1>1, <1>2 DEF Progress, Scanning, CleanupInv, Types
<1>7. Types' /\ Ordered' /\ Applied' /\ Fresh' /\ Covers' /\ Inspected'
  BY <1>1, <1>2, <1>4, <1>5, <1>6, ProgressKeeps DEF CleanupInv, Types, Running, Applying, Ended
<1>8. Backed'
  BY <1>1, <1>2, <1>3, <1>4 DEF Backed
<1>9. Working' /\ Edited' /\ Checked'
  BY <1>1, <1>2 DEF Working, Edited, Checked, KeyPhases
<1> QED BY <1>7, <1>8, <1>9 DEF CleanupInv

(* It unregisters what it was called for, or claims to have. *)
LEMMA NativeRunKeeps ==
  ASSUME CleanupInv, NEW gone, NEW assets \in BOOLEAN, nativeRun(gone, assets)
  PROVE  CleanupInv'
<1>1. /\ UNCHANGED <<foreign, enabled, attempt, unseen, cursor, plan, seen, moved, snapshots, before, d>>
      /\ phase = "native" /\ phase' \in {"apply", "stopped"}
      /\ config' = [f \in Files |-> [config[f] EXCEPT !.regs = @ \ gone]]
      /\ node' \in {node, [node EXCEPT !["cache"] = "absent"]}
  BY DEF nativeRun, Goto, Succeed, services, user, scanned, backup, edit
<1>2. Types /\ Backed /\ done < Len(plan) /\ plan[done + 1] \in Commands
  BY <1>1 DEF CleanupInv, Working
<1>3. PICK r \in Commands : r = plan[done + 1]
  BY <1>2
<1>4. /\ gone \subseteq {r} \cup (IF r = "claude.plugin" THEN {"claude.key"} ELSE {})
      /\ \/ done' = done /\ ignored' = ignored
         \/ done' = done + 1 /\ ignored' = ignored \cup ({r} \ gone)
  BY <1>3 DEF nativeRun, Goto, Succeed
<1>5. /\ WorldTypes' /\ Shrinks
      /\ \A x \in Registrations : Registered(x)' <=> Registered(x) /\ x \notin gone
  BY <1>1, <1>2, DropStep
<1>6. r \in Items /\ r # "disable"
  BY ItemKinds DEF Items
<1>7. Progress
  <2>1. CASE done' = done /\ ignored' = ignored
    BY <1>1, <1>2, <2>1 DEF Progress, Scanning, Types
  <2>2. CASE done' = done + 1 /\ ignored' = ignored \cup ({r} \ gone)
    <3>1. Gone(r)' \/ r \in ignored'
      BY <1>5, <2>2, ItemKinds DEF Gone
    <3> QED BY <1>1, <1>2, <1>3, <1>6, <2>2, <3>1 DEF Progress, Scanning, Types
  <2> QED BY <1>4, <2>1, <2>2
<1>8. Types' /\ Ordered' /\ Applied' /\ Fresh' /\ Covers' /\ Inspected'
  BY <1>1, <1>2, <1>5, <1>7, ProgressKeeps DEF Types, Running, Applying, Ended
<1>9. Backed'
  <2>1. ASSUME NEW x \in Copied, Registered(x), x \in gone
        PROVE  Home(x) \in DOMAIN snapshots
    <3>1. Home(x) \in Configs(r) /\ x \in Registrations
      <4>1. CASE x = r
        BY <4>1 DEF Copied
      <4>2. CASE x # r
        BY <1>4, <2>1, <4>2, ConfigFiles, HomeFiles DEF Copied
      <4> QED BY <4>1, <4>2
    <3> QED BY <1>1, <1>2, <1>3, <2>1, <3>1 DEF Backed
  <2>2. Planned' = Planned /\ Copied \subseteq Registrations
    BY <1>1 DEF Planned, Copied
  <2>3. \A x \in Planned' \cap Copied :
          /\ ~Registered(x)' => Home(x) \in DOMAIN snapshots
          /\ Home(x) \in DOMAIN snapshots => x \in snapshots[Home(x)].regs
    BY <1>2, <1>5, <2>1, <2>2 DEF Backed
  <2> QED BY <1>1, <2>3 DEF Backed, Copied
<1>10. Working' /\ Edited' /\ Checked'
  BY <1>1 DEF Working, Edited, Checked, KeyPhases
<1> QED BY <1>8, <1>9, <1>10 DEF CleanupInv

(* removeKey reads the file, twice. *)
LEMMA KeyReadKeeps ==
  ASSUME CleanupInv, keyRead \/ keyParse
  PROVE  CleanupInv'
<1>1. /\ UNCHANGED <<node, config, foreign, enabled, attempt, unseen, cursor, plan, seen, ignored, moved, snapshots>>
      /\ phase \in {"apply", "keyParse"} /\ phase' \in {"keyParse", "keySnapshot", "apply", "stopped"}
      /\ done < Len(plan) /\ plan[done + 1] = "claude.key"
  BY DEF keyRead, keyParse, AtStep, Goto, Succeed, world, services, user, scanned, backup,
         CleanupInv, Working, KeyPhases
<1>2. Types /\ Edited
  BY DEF CleanupInv
<1>3. /\ config["settings"] \in FileStates /\ config["settings"].regs \subseteq {"claude.key"}
  BY <1>2, HomeFiles DEF Types, FileStates
<1>4. before' \in FileStates /\ d' \in FileStates /\ d'.regs \subseteq {"claude.key"}
  BY <1>2, <1>3 DEF keyRead, keyParse, Types
<1>5. WorldTypes' /\ Shrinks
  BY <1>1, <1>2, SameWorld
<1>6. Progress
  <2>1. CASE done' = done
    BY <1>1, <1>2, <2>1 DEF Progress, Scanning, Types
  <2>2. CASE done' # done
    <3>1. done' = done + 1 /\ ~Registered("claude.key")
      BY <2>2 DEF keyRead, keyParse, Goto, Succeed
    <3>2. Gone("claude.key")' /\ "claude.key" \in Items
      BY <1>1, <3>1, ItemKinds DEF Gone, Registered, Items
    <3> QED BY <1>1, <1>2, <3>1, <3>2, ItemKinds DEF Progress, Scanning, Types
  <2> QED BY <2>1, <2>2
<1>7. Types' /\ Ordered' /\ Applied' /\ Fresh' /\ Covers' /\ Inspected'
  BY <1>1, <1>2, <1>4, <1>5, <1>6, ProgressKeeps DEF Types, Running, Applying, Ended
<1>8. Backed'
  BY <1>1, SameBacked
<1>9. Working' /\ Checked'
  BY <1>1 DEF Working, Checked, KeyPhases, keyRead, keyParse, Goto, Succeed
<1>10. Edited'
  <2>1. CASE keyRead
    BY <1>1, <1>3, <2>1 DEF Edited, keyRead, Goto, FileStates
  <2>2. CASE keyParse
    BY <1>1, <1>2, <1>3, <2>2 DEF Edited, keyParse, Goto, Succeed, FileStates
  <2> QED BY <2>1, <2>2
<1> QED BY <1>7, <1>8, <1>9, <1>10 DEF CleanupInv

(* It copies the file. *)
LEMMA KeySnapshotKeeps ==
  ASSUME CleanupInv, keySnapshot
  PROVE  CleanupInv'
<1>1. /\ UNCHANGED <<node, config, foreign, enabled, attempt, unseen, cursor, plan, seen, done, ignored,
                     moved, before, d>>
      /\ phase = "keySnapshot" /\ phase' \in {"keyCompare", "stopped"}
  BY DEF keySnapshot, Goto, world, services, user, scanned, edit
<1>2. Types /\ Working /\ Edited /\ Backed
  BY DEF CleanupInv
<1>3. WorldTypes' /\ Shrinks /\ Progress
  BY <1>1, <1>2, SameWorld DEF Progress, Scanning, Types
<1>4. Backed' /\ DOMAIN snapshots' \subseteq Files
  <2>1. CASE phase' = "keyCompare"
    <3>1. snapshot({"settings"}) /\ {"settings"} \in SUBSET Files
      BY <2>1, HomeFiles DEF keySnapshot, Goto
    <3>2. /\ DOMAIN snapshots' \subseteq Files
          /\ \A x \in Planned' \cap Copied :
               /\ ~Registered(x)' => Home(x) \in DOMAIN snapshots'
               /\ Home(x) \in DOMAIN snapshots' => x \in snapshots'[Home(x)].regs
          /\ \A x \in Registrations : Registered(x)' /\ Home(x) \in {"settings"} => Home(x) \in DOMAIN snapshots'
      BY <1>1, <3>1, SnapshotBacks
    <3>3. Registered("claude.key")' => "settings" \in DOMAIN snapshots'
      BY <3>2, HomeFiles, ItemKinds
    <3> QED BY <2>1, <3>2, <3>3 DEF Backed
  <2>2. CASE phase' = "stopped"
    <3>1. snapshots' = snapshots
      BY <2>2 DEF keySnapshot, Goto
    <3> QED BY <1>1, <1>2, <2>2, <3>1, SameBacked DEF Types
  <2> QED BY <1>1, <2>1, <2>2
<1>5. Types' /\ Ordered' /\ Applied' /\ Fresh' /\ Covers' /\ Inspected'
  BY <1>1, <1>2, <1>3, <1>4, ProgressKeeps DEF Types, Running, Applying, Ended
<1>6. Working' /\ Checked' /\ Edited'
  BY <1>1, <1>2 DEF Working, Checked, Edited, KeyPhases
<1> QED BY <1>4, <1>5, <1>6 DEF CleanupInv

(* It renames the edited file over the original. *)
LEMMA KeyRenameKeeps ==
  ASSUME CleanupInv, keyRename
  PROVE  CleanupInv'
<1>1. /\ UNCHANGED <<node, foreign, enabled, attempt, unseen, cursor, plan, seen, ignored, moved, snapshots,
                     before, d>>
      /\ phase = "keyRename" /\ phase' = "apply" /\ done' = done + 1
      /\ config' = [config EXCEPT !["settings"] = [d EXCEPT !.regs = @ \ {"claude.key"}]]
  BY DEF keyRename, Succeed, services, user, scanned, backup, edit
<1>2. Types /\ Backed /\ done < Len(plan) /\ plan[done + 1] = "claude.key"
  BY <1>1 DEF CleanupInv, Working, KeyPhases
<1>3. /\ WorldTypes' /\ Shrinks /\ ~Registered("claude.key")'
      /\ \A f \in Files \ {"settings"} : config'[f] = config[f]
  BY <1>1, <1>2, KeyStep
<1>4. Gone("claude.key")' /\ "claude.key" \in Items
  BY <1>3, ItemKinds DEF Gone, Items
<1>5. Progress
  BY <1>1, <1>2, <1>4, ItemKinds DEF Progress, Scanning, Types
<1>6. Types' /\ Ordered' /\ Applied' /\ Fresh' /\ Covers' /\ Inspected'
  BY <1>1, <1>2, <1>3, <1>5, ProgressKeeps DEF Types, Running, Applying
<1>7. Backed'
  <2>1. \A x \in Registrations \ {"claude.key"} : Registered(x)' = Registered(x)
    BY <1>3, HomeFiles DEF Registered
  <2>2. Registered("claude.key") => "settings" \in DOMAIN snapshots
    BY <1>1, <1>2 DEF Backed
  <2>3. Planned' = Planned
    BY <1>1 DEF Planned
  <2> QED BY <1>1, <1>2, <2>1, <2>2, <2>3, HomeFiles DEF Backed, Copied
<1>8. Working' /\ Edited' /\ Checked'
  BY <1>1 DEF Working, Edited, Checked, KeyPhases
<1> QED BY <1>6, <1>7, <1>8 DEF CleanupInv

(* Every step of execute keeps the invariant. *)
LEMMA ApplyKeeps ==
  ASSUME CleanupInv, Apply
  PROVE  CleanupInv'
<1>1. CASE \/ \E apply \in BOOLEAN : execute(apply)
           \/ \E p \in Paths : moveCheck(p)
           \/ disableExecutable \/ disableInactive \/ daemonReload \/ keyCompare \/ Complete \/ Stop
  BY <1>1, CheckStepsKeep
<1>2. CASE moveRename \/ disable
  BY <1>2, RetireStepsKeep
<1>3. CASE \E r \in Commands : nativeSnapshot(r)
  BY <1>3, NativeSnapshotKeeps
<1>4. CASE \E gone \in SUBSET Registrations, assets \in BOOLEAN : nativeRun(gone, assets)
  BY <1>4, NativeRunKeeps
<1>5. CASE keyRead \/ keyParse
  BY <1>5, KeyReadKeeps
<1>6. CASE keySnapshot
  BY <1>6, KeySnapshotKeeps
<1>7. CASE keyRename
  BY <1>7, KeyRenameKeeps
<1> QED BY <1>1, <1>2, <1>3, <1>4, <1>5, <1>6, <1>7 DEF Apply

(* A new invocation starts over. *)
LEMMA RerunKeeps ==
  ASSUME CleanupInv, Rerun
  PROVE  CleanupInv'
<1>1. /\ UNCHANGED <<node, config, before, d>>
      /\ phase' = "scan" /\ cursor' = 1 /\ attempt' = attempt + 1 /\ plan' = <<>> /\ done' = 0
      /\ ignored' = {} /\ moved' = {} /\ DOMAIN snapshots' = {} /\ seen' = [p \in Paths |-> "absent"]
  BY DEF Rerun, world, edit
<1>2. Len(plan') = 0 /\ plan' \in Seq(Items) /\ Planned' = {} /\ seen' \in [Paths -> Contents]
  BY <1>1 DEF Planned, ToSet, Contents
<1>3. Types'
  BY <1>1, <1>2 DEF CleanupInv, Types, Running, Scanning
<1>4. Working' /\ Edited' /\ Checked'
  BY <1>1 DEF Working, Edited, Checked, KeyPhases
<1>5. Ordered' /\ Covers'
  BY <1>1, <1>2 DEF Ordered, RankSorted, Covers, Scanning
<1>6. Applied' /\ Fresh' /\ Backed' /\ Inspected'
  BY <1>1, <1>2 DEF Applied, Fresh, Backed, Inspected
<1> QED BY <1>3, <1>4, <1>5, <1>6 DEF CleanupInv

(* The user leaves the tool alone. *)
LEMMA UserFrame ==
  ASSUME User
  PROVE  /\ UNCHANGED <<foreign, host, enabled, phase, attempt, cursor, plan, seen, done, ignored,
                        moved, snapshots, before, d>>
         /\ unseen \subseteq unseen'
BY DEF User, EditConfig, Replace, Redirect, StartService, UserActs, scanned, backup, edit

(* What the user does to paths, files and the service. *)
LEMMA UserSteps ==
  ASSUME CleanupInv, User
  PROVE  /\ WorldTypes' /\ Shrinks
         /\ \A p \in Paths : exists(p)' = exists(p)
         /\ \A g \in Files : config'[g].regs = config[g].regs
         /\ \A g \in Files : config'[g] = config[g] \/ config'[g].rev = config[g].rev + 1
<1>1. UNCHANGED <<foreign, enabled>>
  BY UserFrame
<1>2. Types
  BY DEF CleanupInv
<1>3. CASE \E f \in Files : EditConfig(f)
  <2>1. PICK f \in Files : config' = [config EXCEPT ![f].rev = @ + 1] /\ node' = node
    BY <1>3 DEF EditConfig
  <2> QED BY <1>1, <1>2, <2>1, EditStep DEF exists
<1>4. CASE \E p \in Paths, content \in {"foreign", "overwritten"} : Replace(p, content)
  <2>1. PICK p \in Paths, content \in {"foreign", "overwritten"} :
          Legacy(p) /\ node' = [node EXCEPT ![p] = content] /\ config' = config
    BY <1>4 DEF Replace
  <2>2. WorldTypes' /\ Shrinks
    BY <1>1, <1>2, <2>1, PathStep
  <2>3. \A q \in Paths : exists(q)' = exists(q)
    BY <1>2, <2>1 DEF exists, Legacy, Types
  <2> QED BY <2>1, <2>2, <2>3
<1>5. CASE StartService \/ \E x \in Paths \cup Files : Redirect(x)
  <2>1. node' = node /\ config' = config
    BY <1>5 DEF StartService, Redirect
  <2> QED BY <1>1, <1>2, <2>1, SameWorld DEF exists
<1> QED BY <1>3, <1>4, <1>5 DEF User

\* What is touched while it is exposed is noted.
Noted(x) == x \in Exposed => <<phase, x>> \in unseen'

(* The user cannot change what is exposed without a note. *)
LEMMA UserTouches ==
  ASSUME CleanupInv, User
  PROVE  /\ \A p \in Paths : (node'[p] = node[p] /\ (p \in indirect' <=> p \in indirect)) \/ Noted(p)
         /\ serviceExecutable' = serviceExecutable \/ Noted("executable")
         /\ active' = active \/ Noted("disable")
         /\ config'["settings"] = config["settings"] \/ Noted("claude.key")
<1>1. Types
  BY DEF CleanupInv
<1>2. ServiceExe \in Paths /\ "unit" \in Paths
  BY CleanupAssumption DEF Payload, Paths
<1>3. \A touched : UserActs(touched) => \A x \in touched : Noted(x)
  BY DEF UserActs, Noted
<1>4. CASE \E f \in Files : EditConfig(f)
  <2>1. PICK f \in Files : EditConfig(f)
    BY <1>4
  <2>2. node' = node /\ indirect' = indirect /\ active' = active
    BY <2>1 DEF EditConfig
  <2>3. f # "settings" => config'["settings"] = config["settings"]
    BY <1>1, <2>1, HomeFiles DEF EditConfig, Types
  <2>4. f = "settings" => UserActs({"claude.key"})
    BY <2>1 DEF EditConfig
  <2>5. serviceExecutable' = serviceExecutable
    BY <2>2 DEF serviceExecutable, Legacy, safeParent
  <2>6. f = "settings" => Noted("claude.key")
    BY <1>3, <2>4
  <2> QED BY <2>2, <2>3, <2>5, <2>6
<1>5. CASE \E p \in Paths, content \in {"foreign", "overwritten"} : Replace(p, content)
  <2>1. PICK p \in Paths, content \in {"foreign", "overwritten"} : Replace(p, content)
    BY <1>5
  <2>2. /\ UNCHANGED <<config, indirect, active>> /\ UserActs(Touches(p))
        /\ \A q \in Paths \ {p} : node'[q] = node[q]
    BY <1>1, <2>1 DEF Replace, Types
  <2>3. p \in Touches(p) /\ (p \in {"unit", ServiceExe} => "executable" \in Touches(p))
    BY DEF Touches
  <2>4. Noted(p) /\ (p \in {"unit", ServiceExe} => Noted("executable"))
    BY <1>3, <2>2, <2>3
  <2>5. p \notin {"unit", ServiceExe} => serviceExecutable' = serviceExecutable
    BY <1>2, <2>2 DEF serviceExecutable, Legacy, safeParent
  <2> QED BY <2>2, <2>4, <2>5
<1>6. CASE \E x \in Paths \cup Files : Redirect(x)
  <2>1. PICK x \in Paths \cup Files : Redirect(x)
    BY <1>6
  <2>2. /\ UNCHANGED <<config, node, active>> /\ UserActs(Touches(x)) /\ indirect' = indirect \cup {x}
    BY <2>1 DEF Redirect
  <2>3. x \in Touches(x) /\ (x = ServiceExe => "executable" \in Touches(x))
    BY DEF Touches
  <2>4. Noted(x) /\ (x = ServiceExe => Noted("executable"))
    BY <1>3, <2>2, <2>3
  <2>5. x # ServiceExe => serviceExecutable' = serviceExecutable
    BY <2>2 DEF serviceExecutable, Legacy, safeParent
  <2> QED BY <2>2, <2>4, <2>5
<1>7. CASE StartService
  <2>1. UNCHANGED <<config, node, indirect>> /\ UserActs({"disable"})
    BY <1>7 DEF StartService
  <2>2. serviceExecutable' = serviceExecutable
    BY <2>1 DEF serviceExecutable, Legacy, safeParent
  <2>3. Noted("disable")
    BY <1>3, <2>1
  <2> QED BY <2>1, <2>2, <2>3
<1> QED BY <1>4, <1>5, <1>6, <1>7 DEF User

(* The user keeps the invariant, whenever he acts. *)
LEMMA UserKeeps ==
  ASSUME CleanupInv, User
  PROVE  CleanupInv'
<1>1. /\ UNCHANGED <<foreign, enabled, phase, attempt, cursor, plan, seen, done, ignored, moved, snapshots, before, d>>
      /\ unseen \subseteq unseen' /\ WorldTypes' /\ Shrinks
  BY UserFrame, UserSteps
<1>2. \A g \in Files : config'[g].regs = config[g].regs
  BY UserSteps
<1>3. \A g \in Files : config'[g] = config[g] \/ config'[g].rev = config[g].rev + 1
  BY UserSteps
<1>4. Planned' = Planned /\ \A r \in Registrations : Registered(r)' = Registered(r)
  BY <1>1, <1>2, HomeFiles DEF Planned, Registered
<1>5. Types' /\ Working'
  BY <1>1 DEF CleanupInv, Types, Working, WorldTypes
<1>6. Edited'
  <2>1. /\ config["settings"].rev \in Nat /\ before.rev \in Nat /\ d.rev \in Nat /\ "settings" \in Files
    BY HomeFiles DEF CleanupInv, Types, FileStates
  <2> QED BY <1>1, <1>2, <1>3, <2>1 DEF CleanupInv, Edited
<1>7. Checked'
  <2>1. Checked /\ Working
    BY DEF CleanupInv
  <2>2. /\ phase = "rename" => plan[done + 1] \in Exposed
        /\ phase \in {"disableState", "disable"} => "executable" \in Exposed /\ "disable" \in Exposed
        /\ phase = "keyRename" => "claude.key" \in Exposed
    BY DEF Exposed
  <2>3. ASSUME phase = "rename", <<"rename", plan[done + 1]>> \notin unseen'
        PROVE  /\ Identity(node'[plan[done + 1]]) = seen[plan[done + 1]]
               /\ plan[done + 1] \notin indirect'
    <3>1. plan[done + 1] \in Paths
      BY <2>1, <2>3 DEF Working
    <3> QED BY <1>1, <2>1, <2>2, <2>3, <3>1, UserTouches DEF Checked, Noted
  <2>4. ASSUME phase \in {"disableState", "disable"}, ~ExecutableUnseen'
        PROVE  serviceExecutable'
    <3>1. ~ExecutableUnseen /\ <<phase, "executable">> \notin unseen'
      BY <1>1, <2>4 DEF ExecutableUnseen
    <3> QED BY <2>1, <2>2, <2>4, <3>1, UserTouches DEF Checked, Noted
  <2>5. ASSUME phase = "disable", <<"disable", "disable">> \notin unseen'
        PROVE  ~active'
    BY <1>1, <2>1, <2>2, <2>5, UserTouches DEF Checked, Noted
  <2>6. ASSUME phase = "keyRename", <<"keyRename", "claude.key">> \notin unseen'
        PROVE  d = config'["settings"]
    BY <1>1, <2>1, <2>2, <2>6, UserTouches DEF Checked, Noted
  <2> QED BY <1>1, <2>3, <2>4, <2>5, <2>6 DEF Checked
<1>8. Ordered'
  BY <1>1, <1>4 DEF CleanupInv, Ordered
<1>9. Applied'
  <2>1. ASSUME NEW x, Gone(x) PROVE Gone(x)'
    BY <1>1, <2>1 DEF Gone, Shrinks
  <2> QED BY <1>1, <2>1 DEF CleanupInv, Applied
<1>10. Fresh' /\ Backed'
  BY <1>1, <1>4, ItemKinds DEF CleanupInv, Fresh, Backed, Copied
<1>11. Covers'
  <2>1. ASSUME NEW i \in 1..20, Finds(Order[i])' PROVE Finds(Order[i])
    BY <1>1, <2>1, OrderRanked, FindsShrink
  <2> QED BY <1>1, <1>4, <2>1 DEF CleanupInv, Covers
<1>12. Inspected'
  <2>1. Inspected /\ (Legacy("unit")' => Legacy("unit"))
    BY <1>1 DEF CleanupInv, Shrinks, Paths
  <2>2. ASSUME phase = "capture", Order[cursor] \in Told, <<"capture", Order[cursor]>> \notin unseen'
        PROVE  Identity(node'[Order[cursor]]) = "legacy"
    <3>1. Order[cursor] \in Exposed /\ Order[cursor] \in Paths
      BY <2>2 DEF Exposed, Told, Recognisable, Paths
    <3> QED BY <1>1, <2>1, <2>2, <3>1, UserTouches DEF Inspected, Noted
  <2> QED BY <1>1, <1>4, <2>1, <2>2 DEF Inspected
<1> QED BY <1>5, <1>6, <1>7, <1>8, <1>9, <1>10, <1>11, <1>12 DEF CleanupInv

(* The invariant holds throughout. *)
LEMMA CleanupInvariant == Spec => []CleanupInv
<1>1. Init => CleanupInv
  BY InitCleanup
<1>2. ASSUME CleanupInv, [Next]_vars PROVE CleanupInv'
  <2>1. CASE Next
    BY <1>2, <2>1, ScanKeeps, ApplyKeeps, RerunKeeps, UserKeeps DEF Next
  <2>2. CASE UNCHANGED vars
    <3>1. UNCHANGED <<node, config, foreign, indirect, enabled, active, unseen, phase, attempt, cursor, plan, seen,
                      done, ignored, moved, snapshots, before, d>>
      BY <2>2 DEF vars, world, services, user, scanned, backup, edit
    <3>2. /\ Types' = Types /\ Working' = Working /\ Edited' = Edited /\ Checked' = Checked
      BY <3>1 DEF Types, Working, Edited, Checked, ExecutableUnseen, serviceExecutable, Legacy, safeParent
    <3>3. /\ Ordered' = Ordered /\ Applied' = Applied /\ Fresh' = Fresh
      BY <3>1 DEF Ordered, Planned, Applied, Gone, Registered, exists, Fresh
    <3>4. /\ Covers' = Covers /\ Inspected' = Inspected /\ Backed' = Backed
      BY <3>1 DEF Planned, Registered, exists, Covers, Finds, Recognised, Legacy, Inspected, Backed, Copied
    <3> QED BY <1>2, <3>2, <3>3, <3>4 DEF CleanupInv
  <2> QED BY <1>2, <2>1, <2>2
<1> QED BY <1>1, <1>2, PTL DEF Spec

-----------------------------------------------------------------------------
(* What follows *)

(* What ranks below an applied item has been applied. *)
LEMMA EarlierGone ==
  ASSUME CleanupInv, NEW i \in 1..done, NEW x \in Planned, Rank(x) < Rank(plan[i])
  PROVE  (Gone(x) \/ x \in ignored) /\ \E j \in 1..done : plan[j] = x
<1>1. plan \in Seq(Items) /\ Len(plan) \in Nat /\ done \in 0..Len(plan) /\ RankSorted(plan)
  BY LenProperties DEF CleanupInv, Types, Ordered
<1>2. PICK j \in 1..Len(plan) : plan[j] = x
  BY <1>1, Position DEF Planned
<1>3. Rank(x) \in 1..4 /\ Rank(plan[i]) \in 1..4
  BY RankType
<1>4. i \in 1..Len(plan) /\ ~(i < j) /\ i # j
  BY <1>1, <1>2, <1>3 DEF RankSorted
<1>5. j \in 1..done
  BY <1>1, <1>4
<1> QED BY <1>2, <1>5 DEF CleanupInv, Applied

(* NoDanglingRegistration, wherever execute stops: payload has the highest *)
(* rank, so that what leads to it is retired before the first rename of    *)
(* payload, for every plan that scan can make.                             *)
THEOREM PayloadLast == Spec => []NoDanglingRegistration
<1>1. ASSUME CleanupInv PROVE NoDanglingRegistration
  <2> SUFFICES ASSUME moved \cap Payload # {}
               PROVE  /\ \A r \in (Planned \cap Registrations) \ ignored : ~Registered(r)
                      /\ "unit" \in Planned => ~exists("unit") /\ ~enabled
    BY DEF NoDanglingRegistration
  <2>1. PICK i \in 1..done : plan[i] \in Payload
    BY <1>1 DEF CleanupInv, Applied
  <2>2. Rank(plan[i]) = 4
    BY <2>1, RanksOfItems DEF Payload
  <2>3. \A x \in Planned : Rank(x) < 4 => Gone(x) \/ x \in ignored
    BY <1>1, <2>2, EarlierGone
  <2>4. \A r \in (Planned \cap Registrations) \ ignored : ~Registered(r)
    <3>1. \A r \in Registrations : Rank(r) < 4
      BY RanksOfItems
    <3> QED BY <2>3, <3>1 DEF Gone
  <2>5. ASSUME "unit" \in Planned PROVE ~exists("unit") /\ ~enabled
    <3>1. "disable" \in Planned
      BY <1>1, <2>5 DEF CleanupInv, Ordered
    <3>2. "unit" \notin ignored /\ "disable" \notin ignored
      BY <1>1 DEF CleanupInv, Types, Commands
    <3>3. Gone("unit") /\ Gone("disable")
      BY <2>3, <2>5, <3>1, <3>2, RanksOfItems
    <3> QED BY <3>3 DEF Gone, Paths
  <2> QED BY <2>4, <2>5
<1> QED BY <1>1, CleanupInvariant, PTL

(* Restorable: the backup has what the run unregistered, in the copy that  *)
(* snapshot took before the first command that could change the file.      *)
THEOREM BackupComplete == Spec => []Restorable
<1>1. CleanupInv => Restorable
  BY DEF CleanupInv, Backed, Restorable
<1> QED BY <1>1, CleanupInvariant, PTL

(* RerunIsNoOp: a cleanup that reports completion leaves nothing that scan *)
(* would find, but what a command claimed to have removed, since all that  *)
(* scan could find was planned (Covers) and the whole plan was applied.    *)
THEOREM CompletionLeavesNothing == Spec => []RerunIsNoOp
<1>1. ASSUME CleanupInv PROVE RerunIsNoOp
  <2> SUFFICES ASSUME phase = "complete", NEW item \in ToSet(Order), Finds(item)
               PROVE  item \in ignored
    BY DEF RerunIsNoOp
  <2>1. \A x \in Planned : Gone(x) \/ x \in ignored
    <3>1. plan \in Seq(Items) /\ done = Len(plan)
      BY <1>1 DEF CleanupInv, Types, Working
    <3> QED BY <1>1, <3>1, Position DEF CleanupInv, Applied, Planned
  <2>2. \A i \in 1..20 : Finds(Order[i]) => Order[i] \in Planned
    <3>1. cursor = 21 /\ phase # "refused" /\ Covers
      BY <1>1 DEF CleanupInv, Covers, Scanning
    <3> QED BY <3>1 DEF Covers
  <2>3. PICK i \in 1..20 : item = Order[i]
    BY OrderedItems DEF ToSet
  <2>4. item \in Items /\ item \in Planned
    BY <2>2, <2>3, OrderRanked
  <2>5. ignored \subseteq Commands
    BY <1>1 DEF CleanupInv, Types
  <2>6. ~exists("unit")
    <3>1. Order[13] = "unit" /\ 13 \in 1..20
      BY OrderedItems
    <3>2. exists("unit") => "unit" \in Planned
      BY <2>2, <3>1 DEF Finds
    <3> QED BY <2>1, <2>5, <3>2 DEF Gone, Paths, Commands
  <2>7. CASE item \in Registrations
    BY <2>1, <2>4, <2>7 DEF Gone, Finds, Recognised, Registrations, Commands
  <2>8. CASE item \in Paths
    <3>1. item \notin ignored
      BY <2>5, <2>8 DEF Paths, Commands
    <3>2. ~exists(item)
      BY <2>1, <2>4, <2>8, <3>1 DEF Gone
    <3> QED BY <2>6, <2>8, <3>2 DEF Finds, Paths, exists, Legacy
  <2>9. CASE item \in {"executable", "disable", "reload"}
    BY <2>6, <2>9 DEF Finds
  <2> QED BY <2>4, <2>7, <2>8, <2>9 DEF Items
<1> QED BY <1>1, CleanupInvariant, PTL

(* scan only changes its own variables. *)
LEMMA ScanFrame ==
  ASSUME Scan
  PROVE  UNCHANGED <<config, enabled, moved>>
BY ScanOutcome DEF capture, scanEnds, Keep, world, services, backup

(* The steps by which a configuration file changes. *)
LEMMA ConfigSteps ==
  ASSUME CleanupInv, [Next]_vars, config' # config
  PROVE  \/ \E gone \in SUBSET Registrations, assets \in BOOLEAN : nativeRun(gone, assets)
         \/ keyRename \/ User
<1>1. CASE Scan
  BY <1>1, ScanFrame
<1>2. CASE Apply
  BY <1>2 DEF Apply, execute, moveCheck, nativeSnapshot, moveRename, disableExecutable, disableInactive,
              disable, daemonReload,
              keyRead, keyParse, keySnapshot, keyCompare, Complete, Stop, world
<1>3. CASE Rerun \/ UNCHANGED vars
  BY <1>3 DEF Rerun, vars, world
<1> QED BY <1>1, <1>2, <1>3 DEF Next

(* NoOldConfig: a native command only drops registrations, the user only   *)
(* adds a revision, and removeKey writes what the third read has compared. *)
THEOREM ConfigNeverRestored == Spec => NoOldConfig
<1>1. ASSUME CleanupInv, [Next]_vars
      PROVE  [\A f \in Files :
                \/ config'[f].rev >= config[f].rev /\ config'[f].regs \subseteq config[f].regs
                \/ f = "settings" /\ <<"keyRename", "claude.key">> \in unseen]_vars
  <2> SUFFICES ASSUME NEW f \in Files, ~(f = "settings" /\ <<"keyRename", "claude.key">> \in unseen)
               PROVE  config'[f].rev >= config[f].rev /\ config'[f].regs \subseteq config[f].regs
    OBVIOUS
  <2>1. Types /\ config[f].rev \in Nat
    BY <1>1 DEF CleanupInv, Types, FileStates
  <2>2. CASE config' = config
    BY <2>1, <2>2
  <2>3. CASE \E gone \in SUBSET Registrations, assets \in BOOLEAN : nativeRun(gone, assets)
    <3>1. PICK gone : /\ config' = [g \in Files |-> [config[g] EXCEPT !.regs = @ \ gone]]
                      /\ node' \in {node, [node EXCEPT !["cache"] = "absent"]}
                      /\ UNCHANGED <<enabled, foreign>>
      BY <2>3 DEF nativeRun, services
    <3>2. config'[f].rev = config[f].rev /\ config'[f].regs = config[f].regs \ gone
      BY <2>1, <3>1, DropStep
    <3> QED BY <2>1, <3>2
  <2>4. CASE keyRename
    <3>1. /\ config' = [config EXCEPT !["settings"] = [d EXCEPT !.regs = @ \ {"claude.key"}]]
          /\ UNCHANGED <<node, enabled, foreign>>
      BY <2>4 DEF keyRename, services
    <3>2. f = "settings" => d = config["settings"]
      BY <1>1, <2>4 DEF CleanupInv, Checked, keyRename
    <3>3. /\ config'["settings"].regs = {} /\ config'["settings"].rev = d.rev
          /\ \A g \in Files \ {"settings"} : config'[g] = config[g]
      BY <2>1, <3>1, KeyStep
    <3> QED BY <2>1, <3>2, <3>3
  <2>5. CASE User
    <3>1. config'[f].regs = config[f].regs /\ (config'[f] = config[f] \/ config'[f].rev = config[f].rev + 1)
      BY <1>1, <2>5, UserSteps
    <3> QED BY <2>1, <3>1
  <2> QED BY <1>1, <2>2, <2>3, <2>4, <2>5, ConfigSteps
<1> QED BY <1>1, CleanupInvariant, PTL DEF Spec, NoOldConfig

(* OnlyLegacyRetired: only moveRename moves and only disable disables, and *)
(* what the checks before them saw still holds but for what was touched.   *)
(* The unit is not moved before the service was recognised once more.      *)
THEOREM RetiredAsInspected == Spec => OnlyLegacyRetired
<1> DEFINE Retired ==
      /\ \A p \in moved' \ moved :
           /\ <<"rename", p>> \notin unseen => Identity(node[p]) = seen[p] /\ p \notin indirect
           /\ p \in Recognisable /\ <<"capture", p>> \notin unseen => seen[p] = "legacy"
      /\ enabled /\ ~enabled' =>
           /\ unseen \cap ({"disableState", "disable"} \X {"executable"}) = {} => serviceExecutable
           /\ <<"disable", "disable">> \notin unseen => ~active
<1>1. ASSUME CleanupInv, [Next]_vars
      PROVE  Retired
  <2>1. Checked /\ Inspected /\ Working
    BY <1>1 DEF CleanupInv
  <2>2. CASE moveRename
    <3>1. /\ phase = "rename" /\ moved' = moved \cup {plan[done + 1]} /\ enabled' = enabled
          /\ done < Len(plan) /\ plan[done + 1] \in Paths
      BY <2>1, <2>2 DEF moveRename, services, Working
    <3>2. PICK p \in Paths : p = plan[done + 1]
      BY <3>1
    <3>3. <<"rename", p>> \notin unseen => Identity(node[p]) = seen[p] /\ p \notin indirect
      BY <2>1, <3>1, <3>2 DEF Checked
    <3>4. plan \in Seq(Items) /\ Len(plan) \in Nat /\ done \in 0..Len(plan) /\ done + 1 \in 1..Len(plan)
      BY <1>1, <3>1, LenProperties DEF CleanupInv, Types
    <3>5. p \in Planned
      BY <3>2, <3>4, Position DEF Planned
    <3>6. ASSUME p = "unit" PROVE seen[p] = "legacy"
      <4>1. "disable" \in Planned /\ RankSorted(plan)
        BY <1>1, <3>5, <3>6 DEF CleanupInv, Ordered
      <4>2. PICK j \in 1..Len(plan) : plan[j] = "disable"
        BY <3>4, <4>1, Position DEF Planned
      <4>3. Rank(plan[j]) = 2 /\ Rank(plan[done + 1]) = 3
        BY <3>2, <3>6, <4>2, RanksOfItems
      <4>4. ~(done + 1 < j) /\ j # done + 1
        BY <3>4, <4>1, <4>3 DEF RankSorted
      <4>5. j \in 1..done
        BY <3>4, <4>4
      <4> QED BY <2>1, <3>5, <3>6, <4>2, <4>5 DEF Inspected
    <3>7. p \in Recognisable /\ <<"capture", p>> \notin unseen => seen[p] = "legacy"
      BY <2>1, <3>5, <3>6 DEF Inspected, Told
    <3> QED BY <3>1, <3>2, <3>3, <3>7
  <2>3. CASE disable
    <3>1. phase = "disable" /\ moved' = moved
      BY <2>3 DEF disable, backup
    <3> QED BY <2>1, <3>1 DEF Checked, ExecutableUnseen
  <2>4. CASE moved' \subseteq moved /\ enabled' = enabled
    BY <2>4
  <2>5. moveRename \/ disable \/ (moved' \subseteq moved /\ enabled' = enabled)
    <3>1. CASE Scan
      BY <3>1, ScanFrame
    <3>2. CASE Apply
      BY <3>2 DEF Apply, execute, moveCheck, nativeSnapshot, nativeRun, disableExecutable, disableInactive,
                  daemonReload, keyRead, keyParse, keySnapshot, keyCompare, keyRename, Complete, Stop,
                  world, services, backup
    <3>3. CASE Rerun \/ UNCHANGED vars
      BY <3>3 DEF Rerun, vars, world, services, backup
    <3>4. CASE User
      BY <3>4, UserFrame
    <3> QED BY <1>1, <3>1, <3>2, <3>3, <3>4 DEF Next
  <2> QED BY <2>2, <2>3, <2>4, <2>5
<1>2. ASSUME CleanupInv, [Next]_vars
      PROVE  [Retired]_vars
  BY <1>1, <1>2
<1> QED BY <1>2, CleanupInvariant, PTL DEF Spec, OnlyLegacyRetired
=============================================================================
