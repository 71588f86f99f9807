# Verification of the Sessionbus peer common support

TLA+ modules for `src/host`, `src/mcp` and `src/scripts/cleanup-legacy`, the TLC runs that check them on small
instances, and TLAPS proofs for every instance. `PROJECT.json` lists the runs, the
mutants that show each property can fail, the source lines behind every definition,
the findings, the hazards and the theorems.

## The system

The repository is the shared library of the Sessionbus *peers*: wrappers that own one
native session (Codex, Claude, ...), receive messages for it from the bus, and offer the
bus to it as an MCP tool. It has no main program of its own; its parts are called by the peers and
by the Sessionbus SDK, which are outside the repository and modelled as environment.
Beside it stands a tool that removes the predecessor's installation, `cleanup-legacy`.

| Part | State | Operations | Interaction | Hard behaviour |
|---|---|---|---|---|
| `host/handoff.go` Handoff | queue, slots in flight, byte charge, next order | Run, Deliver, Claim, Finish, Interrupt | SDK calls Run and Interrupt, deliveries come concurrently; the product's start, inject and turn are called without the mutex | state read before the unlock and used after it; late outcomes of injections; interrupts that cross creation; queue limits |
| `host/lock.go` SessionLock | a file, its name, its flock | Acquire, Rename, Close | shared directory of all peers; the child inherits the descriptor | races of system calls, crash-stale files, undo |
| `host/launch.go` Child, `host/endpoint.go` | socket path, listener, child | ListenPrivate, StartChild, Child.Close | holds the session lock; ServeLane accepts on the listener | removal by name, crash, order of closing |
| `host/endpoint.go` BridgeStdio | two copying goroutines, a channel of results | BridgeStdio | a client's stdio and the private socket | blocked output, ends and errors of either side in any order |
| `mcp/lane.go` | one connection per call, WaitGroup | LaneBackend.Action, ServeLane | the child calls its owner through the private socket | clients that leave, owners that die, drain |
| `mcp/sessionbus.go` serveSessionbus | budgets, pending ids, stop state | reader, one worker per frame, stop | product callbacks; input and output pipes | cancellation races, budget leaks, shutdown |
| `mcp/sessionbus.go` readMCPFrame, requestID | none (pure) | — | the reader's loop, the pending table | a frame at the limit, ids through float64 |
| `mcp/server.go` Server | first write error, WaitGroup | Serve | backend calls; shared output | replies in any order, blocked output, cancelled return |
| `host/launch.go` arguments | none (pure) | ClassifiedInteractivePlan, BuildArguments, replaceEnv | — | option arity, deferred errors, inherited environment |
| `host/render.go`, `mcp/sessionbus_tools.go`, `peerversion`, `host/not_running.go` | none | formatting, schema, flags | — | — |
| `scripts/cleanup-legacy` | files of a home directory; plan, backup | scan, execute | native CLIs, systemd, the user | failure in the middle, rerun, files that change after they were inspected |
| `testsocket` | none | test support | — | — |

What makes each part correct:

* **Handoff**: a message that was taken in is injected, fails, or is handed over once and
  oldest first; a caller's receipt is true; limits are exact; an interrupt reaches its turn.
* **SessionLock**: at most one process, or its orphaned child, relies on a session name.
* **Endpoint and lane**: a live socket is never removed by another owner; a child's call
  is performed by its own owner or nobody; ServeLane joins what it admitted, and returns.
* **serveSessionbus**: exact budgets; one reply per request; a cancellation reaches the
  call it names; nothing after End; it returns.
* **Server.Serve**: one reply per request; what it returns is true; cancellation returns.
* **Arguments**: the native process gets its own arguments, unchanged and in order; no
  extra argument sets what a typed field sets.
* **Frames and ids**: every line within the limit arrives, alone and whole; no two
  integers used as ids share a key, and strings only if they decode to the same text.
* **BridgeStdio**: it returns when cancelled or when a side has ended, says so truly, and
  leaves no goroutine.
* **Cleanup**: it takes only what it recognised and what is still the same file by
  `os.SameFile`; wherever it stops, nothing it planned to unregister is left without its
  program, what it moved is in quarantine, and what it unregistered from a file that it
  copies is in that copy.

## Modules

| Module | Models | Checked by | Proved in |
|---|---|---|---|
| `DeliveryLedger` | abstract: the fate of each delivery | `handoff_ledger` (refinement) | `HandoffProofs` (refinement) |
| `Handoff` | `host/handoff.go` | `handoff_*` | `HandoffProofs` |
| `SessionLock` | `host/lock.go`, inheritance in `StartChild` | `lock_*` | `SessionLockProofs` |
| `LaneEndpoint` | `host/endpoint.go` without BridgeStdio, `StartChild`, `Child.Close`, `mcp/lane.go` | `lane_*` | `EndpointProofs` |
| `McpSessionbus` | `serveSessionbus` | `mcp_*` | `McpSessionbusProofs` |
| `McpServer` | `Server.Serve` | `server_*` | `McpServerProofs` |
| `StdioBridge` | `BridgeStdio` | `stdio_bridge` | `EndpointProofs` |
| `LaunchPlan` | `ClassifiedInteractivePlan`, `replaceEnv` | `pure_functions` | `LaunchProofs` |
| `ArgumentRules` | `BuildArguments`, on the command lines of `LaunchPlan` | `pure_functions` | `LaunchProofs` |
| `McpFrames` | `readMCPFrame` and the loop around it, `requestID` | `pure_functions` | `McpSessionbusProofs` |
| `LegacyCleanup` | `scripts/cleanup-legacy` | `cleanup_apply` | `LegacyCleanupProofs` |

`CountingTheorems` has no model in it, only the facts about sums, cardinalities, sorted
sequences and concatenations that several proofs need. `MC…` modules give instances; `MCFunctions`
puts the pure functions side by side, each with its own initial states: a step of `MCSpec` is
one of `LaunchPlan`'s `Spec` or one of `FramesSpec`, of which the theorems speak. Definitions marked *Fault* are wrong variants of the
definition that follows them; no specification uses them.

**Handoff.** One action is one section under `h.mu`; between sections Run waits in
`start` or `Wait`, Deliver in `inject`. A slot is the delivery that allocated it.
`queued[r]` is Run's copy of the queue, `handed` a history variable of what created turns
and claims contained. `StartWhileOvertaken` and `ClaimWhileCreating` say whether the
environment overlaps calls in the two ways in which the code does not keep the queue's
promise: the first is a finding below (a delivery older than the queue is in flight at the
snapshot and its outcome, or a Finish, merges it before the commit); in the second, a Claim during creation, the commit
slices beyond the queue and panics with the mutex held, so that `QueuedExactlyOnce` holds
only if products do not claim then; `MaxAsks` and `MaxInFlight` bound requests and calls.

**SessionLock.** One action is one system call. `dir` maps names to inodes; a descriptor
that is open and flocked keeps other descriptions out, also when only a child has it.
`RenameError` lets any call of Rename fail for a reason of its own. `Discipline` is the
condition on callers under which the lock excludes: a name is not both acquired directly
and renamed to, and a provisional name belongs to one process. A lock is renamed at
most once: callers rename a provisional name to the session's.

**LaneEndpoint.** Owners of one session in turn. The lock appears as what `SessionLock`
guarantees (`HasLock`, `Acquire`). `sock` is what the path names, live or stale; every
removal is by name and may fail: `ListenPrivate` then gives up (`ListenFails`), the
removals of a failed Chmod and of Close (`Unlink`) go on without it. Accept may fail on an
open listener too, and ServeLane then drains. A call belongs to the child that makes it
and ends with it.

**McpSessionbus.** `phase[q]` is where the worker of a request is; `stop` the progress of
the one goroutine inside `once.Do`; `closable` whether the output is an `io.Closer`, which
stop closes. Frames are reduced to five kinds. `ReplyCharge` keeps the formula of
`chargeReply`.

**McpServer.** One goroutine per line; `mu` is `Server.mu`, which a goroutine keeps through
a blocked write. `atReturn` is a history variable. Closing the input may fail the scanner or
not: an end that it has read already is still nil (`ScanEnds`).

After a cancelled return, goroutines that are still there may reply: the code allows it
(`server.go:94`), C08 of the migration checklist speaks of "no late replies" for the
cancelled connection, and `ReturnHonest` says only what the other return values promise.

**StdioBridge.** One action per read, write, send or statement. Frames are counted: a copy
keeps their order and has at most one in hand, so that `passed` of `taken` of `typed`
tells what was lost. The client, the peer and the output do what they like, or nothing.
Closing the input is taken to end a Read that waits for it, as for a pipe or a socket.

**LaunchPlan.** The check of the path, the loop as a state machine and, independent of it,
`Role`: what every argument is, from its left neighbour's role. `projectionError` is
overwritten, so that the last broken flag is the one reported (`Complaint`).

**ArgumentRules.** `BuildArguments` as the code's loop over an index, against the statement
that the arguments can be cut into harmless options. `Cuts` is `strings.Cut` for the
vocabulary, `Rules` the table, with the values that conflict in place of the callback.
`RulesAssumption` says of them what `strings.Cut` promises: no value without a separator.

**McpFrames.** An input is a sequence of bytes that are a newline or not; buffer and limit
are small, the limit a multiple of the buffer as in the code. `requestID` goes through a
float with `MantissaBits` digits, rounding to even, on all numbers up to twice its exact
range. A number is given by its sign and the double of its amount, so that halves and a
negative zero are among them; `Decoded` gives for the JSON text of a string what
`json.Unmarshal` makes of it, which is the same for different broken surrogate escapes.

**LegacyCleanup.** An item is a registration in a configuration file or a path. Its
content is reduced to the answer the code's recogniser gives, *legacy* or *foreign*, and
to whether a link leads out of the home directory (*indirect*); of a configuration file
remain its registrations and a revision that counts the user's edits. `Home` says which file
lists a registration, `Configs` which files the tool copies before it has it removed: Qwen and
Grok keep lists of their own, and what is copied for them (the enablement, the plugin's
`plugin.json`) is not those. `Restorable` is therefore about the others (`Copied`).

scan goes through `Order` item by item: it inspects one (`Inspect`: refuses, passes on or plans
it), and for a path looks again, in a step of its own, to capture its identity (`capture`).
Identity is what `os.SameFile` and the link's target tell: the user may exchange a path, which
is noticed, or overwrite the file in place, which is not (`Identity`). The plan is applied
action by action: an action that checks and then changes takes two steps, disabling the
service three (executable, state, command), removeKey five, and between any two the user may
edit, replace, overwrite, redirect or start something. Any step may fail, a native command
also after it did its work; it may also exit with 0 and have done nothing, which the code
does not verify (the history variable `ignored`, which `NoDanglingRegistration` and
`RerunIsNoOp` except). The tool may be run again with a new backup. The history variable `unseen`
marks what the user touches between a check and the step that relies on it, a window that no
check of the code closes; `NoOldConfig` and `OnlyLegacyRetired` except exactly that.

Registrations that scan skips are not planned and no property speaks of them: a direct MCP
server of Claude's that has another name than the two the code asks for, `agentbus` for
instance (`inventory.go:260`), stays although its program may be quarantined.

## Runs

| Run | Shows | Bounds |
|---|---|---|
| `handoff_open` | charge and limits exact, admission order, receipts true, for every overlap | 3 deliveries, 2 runs, limits of 2 slots and 4 bytes, so both limits are met and a slot is in each of queue, flight and snapshot |
| `handoff_ledger` | exactly one handover and refinement of `DeliveryLedger`, without the two overlaps; an interrupt arrives exactly once and ends its run | 2 deliveries in flight, 2 runs, 2 interrupt requests each |
| `handoff_overlap` | a delivery in flight at the snapshot breaks the promise | 2 deliveries, 1 run |
| `lock_rename` | exclusion, backing, removals, descriptors; Rename's retries end | 2 processes, 4 inodes, stale files, failing calls; the theorems cover any number |
| `lock_mixed` | exclusion fails when one name is acquired and renamed to | 3 processes |
| `mcp_budget` | budgets, lifetime, clean return | 3 requests for 2 work slots; one result over the frame limit, one over the rest of the budget |
| `mcp_calls` | cancellation and id reuse; serveSessionbus returns once stopped | 2 requests, 2 ids |
| `server_replies` | replies, first error, return values; a cancelled Serve returns | 3 lines of every kind |
| `lane_owners` | endpoint ownership, calls, join; the next owner listens; Close releases the session, ServeLane returns | 2 owners, 2 calls, crashes and failing removals, binds and accepts anywhere |
| `stdio_bridge` | result true; returns when cancelled or when the peer is gone; no goroutine stays | 2 frames each way, so that one is in hand while another waits |
| `pure_functions` | each function against its reference | all command lines of up to 4 of 11 arguments; all inputs of up to 9 bytes with a limit of 4 and a buffer of 2; all pairs of ids around a mantissa of 3 bits, of both signs, and strings of which two decode alike |
| `cleanup_apply` | order of retirement, backup, rerun, nothing exchanged is taken | 4 installations that together have every item, each as it is and with one part foreign, indirect, missing, running or active (69 in all); 1 user action, of which one in the right place opens every window, and 2 invocations; 1.2 million states |

The type invariants of `Handoff` and `McpSessionbus` are conjuncts of `Accounting` and
`BudgetExact`, that of `LegacyCleanup` a conjunct of the invariant of its proof (`Types`);
those of the other components with proofs are theorems and need no run.

Symmetry is used in safety runs only (`handoff_open`, `mcp_budget`). Deadlock is checked
in the `mcp_*` runs, where the returned connection is an explicit final step; elsewhere
the calls or processes of an instance come to an end.

**Fairness.** Goroutines that can run do, and a mutex is eventually granted (strong
fairness of `WriteBegin`). Beyond that: `handoff_ledger` assumes that start returns and
that an interrupted turn ends, not that any other turn does; `mcp_calls` that callbacks
return once cancelled, that a closed output fails a blocked write and that one which cannot be
closed does not block, as the comments at `sessionbus.go:27` and `:133` require; `server_replies` that a closed input ends the
scanner, and nothing about backend or output; `lane_owners` that the backend returns,
that a begun Close goes on once the child has ended, and nothing about clients;
`lock_rename` that a process inside Rename goes on, and `RenameReturns` that system calls
fail only finitely often: a peer whose renames fail and are undone again and again can
keep another one's loop going; `stdio_bridge` nothing about client, peer and output, and
two of its properties except an output that stays blocked for ever.

## Findings

* `handoff_overlap`: Run commits by cutting as many slots as it prompted off the front of the
  queue. If a delivery older than the queue is in flight at the snapshot and ends as
  `NotInjected` before the commit, Deliver itself merges it in front (`handoff.go:149`): it is
  dropped although its caller was told `queued_for_next_turn`, and a prompted message is
  prompted again. A Finish that a product calls during creation is a second way to the same.
* `lock_mixed`: Acquire does not re-check, as Rename does, that the file it locked still
  has the name.

## Proofs

All from the specifications and the named assumptions on constants, for any sets and
limits. Every safety property that a passing run checks is stated by a theorem.

* `HandoffProofs`, for every environment: `InterruptOnce`, `FifoOrder`, `ReceiptHonest`,
  `Accounting`. None is inductive. `TurnOwned` adds who owns `run.Native` at each point, so
  that commit and Interrupt cannot both find the turn. `Slots` says for every delivery, by
  how far its call is, in which of queue, in-flight list, prompts and claims it may be, and
  that the lists are sorted by order; the merge keeps that because orders are distinct.
  `Charged` then follows: queue and in-flight list have no common slot, so that recount's
  two loops are one sum over a set.
* `HandoffProofs`, under `Closed` (neither of the two overlaps named at *Handoff* above):
  `QueuedExactlyOnce` and the refinement of `DeliveryLedger`. The invariant `Once` says that
  the copy of a creating run is still the front of the queue, so that the commit cuts off
  what it prompted, and that what was handed over and what waits share nothing. `Closed`
  is needed: `handoff_overlap` breaks the promise without its first part.
* `SessionLockProofs`, under `Discipline`: type, `MutualExclusion`, `NameBacked`,
  `OnlyUnlinkedByHolder`. Exclusion of names follows from exclusion of inodes only if
  names do not move: the invariant says which entry a process is about to remove and
  that it still leads to an inode that the process has locked (`TargetOwn`), that
  provisional names are private (`SourceOwn`) and direct ones permanent (`DirectStays`).
* `EndpointProofs`, of `LaneEndpoint`: type, `EndpointOwned`, `CallsReachOwner`,
  `AdmittedActionsJoined`, from `LockExclusive`: owner and live child share one lock.
* `EndpointProofs`, of `StdioBridge`: type and `ResultTrue`. A nil in the channel says
  something about the time it was sent; the invariant adds that a copy has at most one frame in
  hand, so that a side that has ended and is passed on stays so until the result is returned.
* `McpSessionbusProofs`: `PendingExact`, `AnsweredOnce`, `LifetimeOrder`, and with a second
  invariant `Books` `BudgetExact` and `ReturnedClean`: the budgets are the number of
  live workers and the sum of what they were charged.
* `McpSessionbusProofs`, of `McpFrames`: `KeysDistinct`, because rounding is the identity below
  2^`MantissaBits` and keeps what is beyond it beyond it, for every number of digits; and
  `FramesExact`, for every buffer and limit: `Outcome` says without a buffer what one call of
  `readMCPFrame` returns (`LoopOutcome`), and the invariant `FramesParts` that the frames and
  what is left are the input.
* `LaunchProofs`: `ArgumentsClassified` and `EnvironmentOwned`, from an invariant that says
  where the loop is (`IndexFree`: at an argument whose role is its own) and that each thing it
  collects is what the roles of the arguments before index say. For the environment, a
  replacement changes only the selection of entries of its own name.
* `LaunchProofs`: `TypedFieldsProtected`. A harmless stretch is the option that the loop reads
  at its start, so the places where a split starts are those that the loop visits. The existential
  over all splits is then decided by the loop's own one.
* `McpServerProofs`: type, `ReturnHonest`, `FirstFailureKept`, `OneReplyEach`. The last
  needs to know which lines reach the lock, and with what reply (`Composed`).
* `LegacyCleanupProofs`: `NoDanglingRegistration`, `Restorable`, `RerunIsNoOp`, `NoOldConfig`
  and `OnlyLegacyRetired`, all from `CleanupInv`. Its parts: the phase says on which kind of item
  the tool works (`Working`); the plan is sorted by the rank of its items, payload last, and
  holds only items before the cursor (`Ordered`), among them all that an inspection before it
  could still find (`Covers`); nothing is applied before scan has ended (`Fresh`), and what is
  applied is gone for good, or a command claimed so (`Applied`), since neither tool nor user
  installs anything; what was captured was recognised (`Inspected`); a file that a command may
  edit was copied while its registrations were in it (`Backed`); what the next change relies on
  was checked and holds unless the user touched it since (`Checked`), for removeKey because equal
  revisions of the file are equal contents (`Edited`). `InstallationsAssumption` says that before
  the first run a registration is in its own file.
* `CountingTheorems`: a sum over a finite set is the cardinality of the set of its units,
  which makes it additive without an induction over sets; a set of numbers has a sorting
  sequence; what appending to, cutting, removing from and concatenating sorted
  sequences gives; what flattening a longer sequence of sequences gives.

**Recursion without induction.** `RoleOf`, `BuildArguments`, `readMCPFrame`, `TwoTo` and the
folds behind `FlattenSeq` and the sums are functions *chosen* to satisfy a recursive equation,
and no prover here takes an induction rule. Each proof about one has two halves. A function
that satisfies the equation exists: it is given outright, as a table of counts, or by
`RecursionExists` and `LoopExists`: if none existed, there would be a smallest part of the domain
without one, but the one on the part before extends to it. And any that satisfies the equation
has the value claimed: a set of numbers that is not empty has a smallest element
(`LeastOf`), so there would be a first place, or a last one, at which the value is another, and
the equation refutes it.

**Two cautions.** tlapm 1.4.5 tells the SMT solver more of `Len` than is true (that whatever
has length n has domain 1..n, and the reverse for what is no function and for n below 0).
Every leaf that relies on it was therefore also checked with the weaker, true axiom, and holds
with it; the leaves that need more cite `LenProperties`. And tlapm does not see that a function
under LET calls itself when its body is a CASE like the one in a plain transcription of `readMCPFrame`, and
then takes it for an ordinary function; that definition is written with IF, and `RoleOf`,
which is a CASE, was verified to be read as recursive.

Only model-checked is liveness (`InterruptedRunReturns`, `RenameReturns`, `StopLeadsToReturn`,
`CancelReturns`, `OwnerListens`, `SessionReleased`, `ServeLaneReturns`, `BridgeReturns`,
`NothingLeft`): fairness and ENABLED are beyond the prover. So are the two findings, which are
counterexamples.

## Not modelled, and the plan

Left out, with the reason:

* `host/render.go`: text without state. In Handoff a rendered message is its length or a
  failure. Its one hard spot is `render.go:40`: positions found in a lower-case copy are
  used in the original, which may differ in length.
* `mcp/sessionbus_tools.go`, `host/not_running.go`, `peerversion`: schema text, an error
  value, a lookup of one flag; `testsocket`: test support.
* `decodeRequest` and the JSON shape of frames: a frame is its class.
* The branches of `cleanup-legacy` for other systems than Linux, which only refuse, and the
  parsing of manifests and listings.
* What product callbacks do inside: `Initialized` under the state mutex
  (`sessionbus.go:359`), `report.Begin` after End (`:393`).

Hard behaviour that no property covers, beyond these: Rename to the lock's own name (`lock.go:69`),
which no caller does; an action of the old owner after its Close (`launch.go:86`); the end of the
input closes the bridge before the last answers (`endpoint.go:66`); a process started
between inspection and quarantine (`inventory.go:94`); overrides left by a cleanup that
stopped between unit and overrides, which the next run does not find (`inventory.go:320`).

Left for the proofs: that the lock which `LaneEndpoint` assumes is what `SessionLock` proves,
as a theorem instead of a convention.
