--------------------------- MODULE LegacyCleanup ---------------------------
(***************************************************************************)
(* scripts/cleanup-legacy: scan inspects an installation and plans one     *)
(* action per legacy item it recognises, execute applies the plan and      *)
(* stops at the first error.  Native commands and the user change the same *)
(* files meanwhile, and a stopped cleanup is run again.                    *)
(*                                                                         *)
(* An item is a registration of a product, removed by its own command      *)
(* (claude.key: by rewriting the file), or a path, quarantined by renaming *)
(* it.  It is legacy or foreign: a foreign one has the old name but not    *)
(* the old identity.  Items of one kind that the code treats alike are one *)
(* item here: the services, the links and binaries in .local/bin, the      *)
(* plugin namespaces.                                                      *)
(***************************************************************************)
EXTENDS Naturals, Sequences, SequencesExt, FiniteSets

CONSTANTS
  Installations, \* what is there before the first run, see Init
  ServiceExe,    \* the path that the service executes
  MaxChanges,    \* bound: what the user does meanwhile
  MaxAttempts    \* bound: invocations of the tool

Commands == {"codex.mcp", "codex.plugin", "codex.market", "claude.plugin",
             "claude.market", "claude.mcp", "qwen", "grok"}
Registrations == Commands \cup {"claude.key"}
Identified == {"codex.mcp", "claude.plugin", "claude.mcp", "qwen", "grok"}  \* not removed by name alone
Paths == {"opencode", "unit", "unit.d", "alias", "binary", "root", "cache", "npm"}
Payload == {"alias", "binary", "root"}
Files == {"config.toml", "installed", "markets", "settings", "claude.json",
          "extension", "enablement", "registry", "manifest"}

ASSUME CleanupAssumption ==
  /\ ServiceExe \in Payload
  /\ MaxChanges \in Nat /\ MaxAttempts \in Nat

VARIABLES
  node,      \* node[p]: what the path p names
  config,    \* config[f]: the registrations in file f, and the user's revision of it
  foreign,   \* the registrations that are not legacy ones
  indirect,  \* paths and files reached through a link out of the home directory
  host,      \* the products whose command is there, the paths that are being executed
  enabled, active,     \* the service
  changes,   \* how often the user acted
  unseen,    \* what the user touched between a check of it and what relies on the check (history)
  phase, attempt,      \* where the tool is, and which invocation of it
  cursor,    \* the item of Order that scan is at
  plan, problems,      \* c.actions, c.problems
  seen,      \* seen[p]: the identity of p that move captured
  done,      \* actions applied
  ignored,   \* registrations whose command succeeded and left them (history)
  moved, snapshots,    \* c.backup of this invocation: files/ and config/
  before, d  \* removeKey: the bytes it compares with, the object it edits

services == <<enabled, active>>
world == <<node, config, foreign, indirect, host, services>>
scanned == <<cursor, plan, problems, seen>>
backup == <<moved, snapshots>>
edit == <<before, d>>
user == <<changes, unseen>>
vars == <<world, user, phase, attempt, scanned, done, ignored, backup, edit>>

\* The order in which scan looks for items.  "executable" is only a check.
Order == <<"codex.mcp", "codex.plugin", "codex.market",
           "claude.plugin", "claude.market", "claude.key", "claude.mcp",
           "qwen", "grok", "opencode",
           "executable", "disable", "unit", "unit.d", "reload",
           "alias", "binary", "root", "cache", "npm">>

Scanning == {"scan", "capture"}
Ended == {"refused", "preview", "stopped", "complete"}
Applying == {"apply", "rename", "disableState", "disable", "native",
             "keyParse", "keySnapshot", "keyCompare", "keyRename"}
Running == Scanning \cup {"execute"} \cup Applying

NoFile == [regs |-> {}, rev |-> 0]

\* Where a registration is, and the files that native is given to copy before
\* its command runs.  Qwen and Grok list their own: what is copied for them is
\* not what lists the extension.
Home(r) ==
  CASE r \in {"codex.mcp", "codex.plugin", "codex.market"} -> "config.toml"
    [] r = "claude.plugin" -> "installed"
    [] r = "claude.market" -> "markets"
    [] r = "claude.key" -> "settings"
    [] r = "claude.mcp" -> "claude.json"
    [] r = "qwen" -> "extension"
    [] r = "grok" -> "registry"
Configs(r) ==
  CASE r \in {"claude.plugin", "claude.market"} -> {"installed", "markets", "settings"}
    [] r = "qwen" -> {"enablement"}
    [] r = "grok" -> {"manifest"}
    [] OTHER -> {Home(r)}

\* A registration is in its own file.
ASSUME InstallationsAssumption ==
  \A i \in Installations :
    /\ i.node \in [Paths -> {"absent", "legacy", "foreign"}]
    /\ i.config \in [Files -> [regs : SUBSET Registrations, rev : Nat]]
    /\ \A f \in Files : \A r \in i.config[f].regs : Home(r) = f

Registered(r) == r \in config[Home(r)].regs
Recognised(r) == Registered(r) /\ r \notin foreign
exists(p) == node[p] # "absent"
Legacy(p) == node[p] = "legacy"

\* What os.SameFile and the target of a link tell apart: a file that was
\* overwritten in place is still the same one.
Identity(content) == IF content = "overwritten" THEN "legacy" ELSE content

product(name) == name \in host.cli
noLiveExecutable(p) == p \notin host.live

\* No parent directory redirects the path; a link to the file itself stays at home.
safeParent(p) == p \notin indirect
configPath(f) == f \notin indirect

Init ==
  \E i \in Installations :
    /\ node = i.node /\ config = i.config /\ foreign = i.foreign
    /\ indirect = i.indirect /\ host = i.host
    /\ enabled = TRUE /\ active = i.active
    /\ changes = 0 /\ unseen = {} /\ attempt = 1
    /\ phase = "scan" /\ cursor = 1
    /\ plan = <<>> /\ problems = FALSE /\ seen = [p \in Paths |-> "absent"]
    /\ done = 0 /\ ignored = {}
    /\ moved = {} /\ snapshots = [f \in {} |-> NoFile]
    /\ before = NoFile /\ d = NoFile

-----------------------------------------------------------------------------
(* scan *)

\* What an inspection plans: an item that is there, or that is recognised.  A
\* foreign direct MCP server of Claude's and an unrecognised link or binary are
\* kept, the plugin namespaces (cache) go by their name.
Finds(item) ==
  CASE item \in {"codex.mcp", "codex.plugin", "codex.market", "qwen", "grok"} -> Registered(item)
    [] item \in {"claude.plugin", "claude.market", "claude.key", "claude.mcp"} -> Recognised(item)
    [] item \in {"opencode", "root", "cache", "npm"} -> exists(item)
    [] item \in {"disable", "unit", "reload"} -> exists("unit")
    [] item = "unit.d" -> exists("unit") /\ exists("unit.d")
    [] item \in {"alias", "binary"} -> Legacy(item)
    [] OTHER -> FALSE

\* Fault: payload is retired before what uses it.
PlanningBackwards(item) == <<item>> \o plan

Planning(item) == Append(plan, item)

Continue == phase' = "scan" /\ cursor' = cursor + 1
Keep == UNCHANGED <<world, user, attempt, done, ignored, backup, edit>>

Doubtful(item) == item \in Commands /\ \E f \in Configs(item) : ~configPath(f)

\* scan inspects one item: it refuses to go on, or plans the item if it finds
\* one.  Whatever it lists or reads may also fail.  native records an indirect
\* file as a problem and goes on.
Inspect(item, refused) ==
  /\ phase = "scan" /\ cursor <= Len(Order) /\ Order[cursor] = item
  /\ \/ phase' = "refused" /\ UNCHANGED scanned
     \/ ~refused /\ ~Finds(item) /\ Continue /\ UNCHANGED <<plan, problems, seen>>
     \/ ~refused /\ Finds(item) /\ item \in Paths /\ phase' = "capture" /\ UNCHANGED scanned
     \/ /\ ~refused /\ Finds(item) /\ item \notin Paths
        /\ Continue
        /\ plan' = Planning(item)
        /\ problems' = (problems \/ Doubtful(item))
        /\ UNCHANGED seen
  /\ Keep

\* move looks at the path again: it refuses an indirect one and captures the
\* identity of what is there now.
capture ==
  /\ phase = "capture"
  /\ \/ phase' = "refused" /\ UNCHANGED scanned
     \/ /\ safeParent(Order[cursor])
        /\ Continue
        /\ plan' = Planning(Order[cursor])
        /\ seen' = [seen EXCEPT ![Order[cursor]] = Identity(node[Order[cursor]])]
        /\ UNCHANGED problems
  /\ Keep

\* Without its command Codex is only inspected if it has no configuration.
codex ==
  \E item \in {"codex.mcp", "codex.plugin", "codex.market"} :
    Inspect(item, /\ item = "codex.mcp"
                  /\ \/ ~product("codex") /\ config["config.toml"] # NoFile
                     \/ Registered(item) /\ ~Recognised(item))

\* A foreign plugin has another scope.
claude ==
  \/ Inspect("claude.plugin", Registered("claude.plugin") /\ ~(Recognised("claude.plugin") /\ product("claude")))
  \/ \E item \in {"claude.market", "claude.mcp"} : Inspect(item, Recognised(item) /\ ~product("claude"))
  \/ Inspect("claude.key", ~configPath("settings"))

\* The inventory is there without its command, or lists something else.
grokRefused ==
  \/ config["registry"] # NoFile /\ ~product("grok")
  \/ Registered("grok") /\ ~(configPath("manifest") /\ Recognised("grok"))

otherProducts ==
  \/ Inspect("qwen", Registered("qwen") /\ ~(configPath("extension") /\ Recognised("qwen") /\ product("qwen")))
  \/ Inspect("grok", grokRefused)
  \/ Inspect("opencode", exists("opencode") /\ ~Legacy("opencode"))

\* The effective ExecStart leads to a legacy binary.
serviceExecutable == Legacy("unit") /\ Legacy(ServiceExe) /\ safeParent(ServiceExe)

\* Two questions to systemctl, then the unit and its overrides.
surveyServices ==
  \/ Inspect("executable", exists("unit") /\ ~serviceExecutable)
  \/ Inspect("disable", exists("unit") /\ active)
  \/ \E item \in {"unit", "unit.d", "reload"} : Inspect(item, FALSE)

\* .local/bin
scanBin ==
  \/ Inspect("alias", FALSE)
  \/ Inspect("binary", Legacy("binary") /\ ~noLiveExecutable("binary"))

scanPayload ==
  \/ Inspect("root", exists("root") /\ ~(Legacy("root") /\ noLiveExecutable("root")))
  \/ Inspect("cache", FALSE)
  \/ Inspect("npm", exists("npm") /\ ~Legacy("npm"))

scanEnds ==
  /\ phase = "scan" /\ cursor > Len(Order)
  /\ phase' = IF problems THEN "refused" ELSE "execute"
  /\ UNCHANGED scanned /\ Keep

-----------------------------------------------------------------------------
(* execute *)

Goto(p) == phase' = p /\ UNCHANGED done
Succeed == phase' = "apply" /\ done' = done + 1

execute(apply) ==
  /\ phase = "execute"
  /\ phase' = IF apply /\ plan # <<>> THEN "apply" ELSE "preview"
  /\ UNCHANGED <<world, user, attempt, scanned, done, ignored, backup, edit>>

AtStep(step) == phase = "apply" /\ done < Len(plan) /\ plan[done + 1] = step

Complete ==
  /\ phase = "apply" /\ done = Len(plan)
  /\ Goto("complete")
  /\ UNCHANGED <<world, user, attempt, scanned, ignored, backup, edit>>

\* Fault: an error is reported and the next action is tried.
StopGoesOn ==
  /\ phase \in Applying /\ done < Len(plan)
  /\ Succeed
  /\ UNCHANGED <<world, user, attempt, scanned, ignored, backup, edit>>

\* An error of any system call or command, or the end of the process.
Stop ==
  /\ phase \in Applying \cup {"execute"}
  /\ Goto("stopped")
  /\ UNCHANGED <<world, user, attempt, scanned, ignored, backup, edit>>

\* Fault: what has the name now is moved.
SameName(p) == exists(p)

SameFile(p) == Identity(node[p]) = seen[p]

moveCheck(p) ==
  /\ AtStep(p)
  /\ IF ~exists(p) THEN Succeed
     ELSE Goto(IF SameFile(p) /\ safeParent(p) THEN "rename" ELSE "stopped")
  /\ UNCHANGED <<world, user, attempt, scanned, ignored, backup, edit>>

moveRename ==
  /\ phase = "rename"
  /\ node' = [node EXCEPT ![plan[done + 1]] = "absent"]
  /\ moved' = moved \cup {plan[done + 1]}
  /\ Succeed
  /\ UNCHANGED <<config, foreign, indirect, host, services, user, attempt, scanned, ignored, snapshots, edit>>

\* The executable and then the state are asked for again.
disableExecutable ==
  /\ AtStep("disable")
  /\ Goto(IF serviceExecutable THEN "disableState" ELSE "stopped")
  /\ UNCHANGED <<world, user, attempt, scanned, ignored, backup, edit>>

disableInactive ==
  /\ phase = "disableState"
  /\ Goto(IF ~active THEN "disable" ELSE "stopped")
  /\ UNCHANGED <<world, user, attempt, scanned, ignored, backup, edit>>

disable ==
  /\ phase = "disable"
  /\ enabled' = FALSE
  /\ Succeed
  /\ UNCHANGED <<node, config, foreign, indirect, host, active, user, attempt, scanned, ignored, backup, edit>>

daemonReload ==
  /\ AtStep("reload")
  /\ Succeed
  /\ UNCHANGED <<world, user, attempt, scanned, ignored, backup, edit>>

\* Fault: every command's snapshot replaces the one before.
snapshotLast(files) ==
  snapshots' = [f \in DOMAIN snapshots \cup files |-> IF f \in files THEN config[f] ELSE snapshots[f]]

\* The original stays, not an intermediate native edit.
snapshot(files) ==
  snapshots' = [f \in DOMAIN snapshots \cup {g \in files : config[g] # NoFile} |->
                  IF f \in DOMAIN snapshots THEN snapshots[f] ELSE config[f]]

nativeSnapshot(r) ==
  /\ AtStep(r)
  /\ IF \A f \in Configs(r) : configPath(f)
     THEN Goto("native") /\ snapshot(Configs(r))
     ELSE Goto("stopped") /\ \E files \in SUBSET (Configs(r) \ indirect) : snapshot(files)
  /\ UNCHANGED <<world, user, attempt, scanned, ignored, moved, edit>>

\* The command unregisters r; Claude's may drop the plugin's key and its cached
\* assets too.  It may do so and still report an error, and it may exit with 0
\* and have left r: nothing is verified.
nativeRun(gone, assets) ==
  /\ phase = "native"
  /\ LET r == plan[done + 1]
     IN  /\ gone \subseteq {r} \cup (IF r = "claude.plugin" THEN {"claude.key"} ELSE {})
         /\ config' = [f \in Files |-> [config[f] EXCEPT !.regs = @ \ gone]]
         /\ node' = IF r = "claude.plugin" /\ assets THEN [node EXCEPT !["cache"] = "absent"] ELSE node
         /\ \/ Succeed /\ ignored' = ignored \cup ({r} \ gone)
            \/ Goto("stopped") /\ UNCHANGED ignored
  /\ UNCHANGED <<foreign, indirect, host, services, user, attempt, scanned, backup, edit>>

\* removeKey: read the bytes, parse them in a second read, snapshot, write a
\* temporary file, read and compare a third time, rename.
keyRead ==
  /\ AtStep("claude.key")
  /\ before' = config["settings"]
  /\ Goto(IF configPath("settings") THEN "keyParse" ELSE "stopped")
  /\ UNCHANGED <<world, user, attempt, scanned, ignored, backup, d>>

keyParse ==
  /\ phase = "keyParse"
  /\ d' = config["settings"]
  /\ IF Registered("claude.key") THEN Goto("keySnapshot") ELSE Succeed
  /\ UNCHANGED <<world, user, attempt, scanned, ignored, backup, before>>

keySnapshot ==
  /\ phase = "keySnapshot"
  /\ IF configPath("settings")
     THEN Goto("keyCompare") /\ snapshot({"settings"})
     ELSE Goto("stopped") /\ UNCHANGED snapshots
  /\ UNCHANGED <<world, user, attempt, scanned, ignored, moved, edit>>

\* Fault: what was parsed is written back unconditionally.
AnyBytes == TRUE

SameBytes == config["settings"] = before

keyCompare ==
  /\ phase = "keyCompare"
  /\ Goto(IF SameBytes THEN "keyRename" ELSE "stopped")
  /\ UNCHANGED <<world, user, attempt, scanned, ignored, backup, edit>>

keyRename ==
  /\ phase = "keyRename"
  /\ config' = [config EXCEPT !["settings"] = [d EXCEPT !.regs = @ \ {"claude.key"}]]
  /\ Succeed
  /\ UNCHANGED <<node, foreign, indirect, host, services, user, attempt, scanned, ignored, backup, edit>>

\* The tool is run again: a new plan, a new backup directory.
Rerun ==
  /\ phase \in Ended /\ attempt < MaxAttempts
  /\ phase' = "scan" /\ cursor' = 1 /\ attempt' = attempt + 1
  /\ plan' = <<>> /\ problems' = FALSE /\ seen' = [p \in Paths |-> "absent"]
  /\ done' = 0 /\ ignored' = {} /\ unseen' = {}
  /\ moved' = {} /\ snapshots' = [f \in {} |-> NoFile]
  /\ UNCHANGED <<world, changes, edit>>

-----------------------------------------------------------------------------
(* The user, at any time *)

\* What was checked and is about to be changed, or its identity captured.
Exposed ==
  CASE phase = "capture" -> {Order[cursor]}
    [] phase = "rename" -> {plan[done + 1]}
    [] phase = "keyRename" -> {"claude.key"}
    [] phase \in {"disableState", "disable"} -> {"executable", "disable"}
    [] OTHER -> {}

\* The service depends on its unit and on what that executes.
Touches(p) == {p} \cup (IF p \in {"unit", ServiceExe} THEN {"executable"} ELSE {})

UserActs(touched) ==
  /\ changes < MaxChanges /\ changes' = changes + 1
  /\ unseen' = unseen \cup ({phase} \X (Exposed \cap touched))
  /\ UNCHANGED <<foreign, host, enabled, phase, attempt, scanned, done, ignored, backup, edit>>

EditConfig(f) ==
  /\ UserActs(IF f = "settings" THEN {"claude.key"} ELSE {})
  /\ config[f] # NoFile
  /\ config' = [config EXCEPT ![f].rev = @ + 1]
  /\ UNCHANGED <<node, indirect, active>>

\* The path names something else, or the file keeps its identity and is
\* overwritten (a link cannot be).
Replace(p, content) ==
  /\ UserActs(Touches(p)) /\ Legacy(p)
  /\ node' = [node EXCEPT ![p] = content]
  /\ UNCHANGED <<config, indirect, active>>

Redirect(x) ==
  /\ UserActs(Touches(x))
  /\ IF x \in Files THEN config[x] # NoFile ELSE exists(x)
  /\ indirect' = indirect \cup {x}
  /\ UNCHANGED <<node, config, active>>

StartService ==
  /\ UserActs({"disable"}) /\ exists("unit")
  /\ active' = TRUE
  /\ UNCHANGED <<node, config, indirect>>

-----------------------------------------------------------------------------
Scan ==
  \/ codex \/ claude \/ otherProducts \/ surveyServices \/ scanBin \/ scanPayload
  \/ capture \/ scanEnds

Apply ==
  \/ \E apply \in BOOLEAN : execute(apply)
  \/ \E p \in Paths : moveCheck(p)
  \/ \E r \in Commands : nativeSnapshot(r)
  \/ \E gone \in SUBSET Registrations, assets \in BOOLEAN : nativeRun(gone, assets)
  \/ moveRename \/ disableExecutable \/ disableInactive \/ disable \/ daemonReload
  \/ keyRead \/ keyParse \/ keySnapshot \/ keyCompare \/ keyRename
  \/ Complete \/ Stop

User ==
  \/ \E f \in Files : EditConfig(f)
  \/ \E p \in Paths : Replace(p, "foreign")
  \/ \E p \in Paths \ {"alias"} : Replace(p, "overwritten")
  \/ \E x \in Paths \cup Files : Redirect(x)
  \/ StartService

Next == Scan \/ Apply \/ Rerun \/ User

Spec == Init /\ [][Next]_vars

-----------------------------------------------------------------------------
(* Properties *)

Planned == ToSet(plan)

(* Wherever a cleanup stops, no product is left with a registration, nor   *)
(* systemd with a unit, whose program is already in quarantine: an action  *)
(* is planned after those that depend on it and none is skipped.  (A       *)
(* command that exits with 0 and leaves its registration is believed.)     *)
NoDanglingRegistration ==
  moved \cap Payload # {} =>
    /\ \A r \in (Planned \cap Registrations) \ ignored : ~Registered(r)
    /\ "unit" \in Planned => ~exists("unit") /\ ~enabled

\* The registrations in a file that is copied before they are removed.
Copied == {r \in Registrations : Home(r) \in Configs(r)}

(* What a run has unregistered from such a file is in its backup of it,    *)
(* also if an earlier command of the same run had rewritten the file       *)
(* before.  Qwen's and Grok's own lists are not copied: of these only the  *)
(* enablement and the plugin's manifest are in the backup.                 *)
Restorable ==
  \A r \in Planned \cap Copied :
    ~Registered(r) => Home(r) \in DOMAIN snapshots /\ r \in snapshots[Home(r)].regs

(* A file keeps what its user wrote: "never write an old whole-config      *)
(* snapshot" (main.go:252).  No step brings back an earlier revision or a  *)
(* registration that was removed meanwhile, unless the edit falls between  *)
(* the last comparison and the rename.                                     *)
NoOldConfig ==
  [][\A f \in Files :
       \/ config'[f].rev >= config[f].rev /\ config'[f].regs \subseteq config[f].regs
       \/ f = "settings" /\ <<"keyRename", "claude.key">> \in unseen]_vars

\* Paths that scan tells by what is in them, not by their name alone.
Recognisable == {"opencode", "unit", "alias", "binary", "root", "npm"}

(* What is moved is the file whose identity was captured, reached without  *)
(* a link, and the captured one was a legacy one; what is disabled runs    *)
(* the legacy binary and is not active.  Excepted is what the user touches *)
(* between a check and what relies on it, and what keeps its identity: a   *)
(* file overwritten in place is taken for the one inspected.               *)
OnlyLegacyRetired ==
  [][/\ \A p \in moved' \ moved :
          /\ <<"rename", p>> \notin unseen => Identity(node[p]) = seen[p] /\ p \notin indirect
          /\ p \in Recognisable /\ <<"capture", p>> \notin unseen => seen[p] = "legacy"
     /\ enabled /\ ~enabled' =>
          /\ unseen \cap ({"disableState", "disable"} \X {"executable"}) = {} => serviceExecutable
          /\ <<"disable", "disable">> \notin unseen => ~active]_vars

(* "Rerunning after successful cleanup is a no-op" (legacy-cleanup.md:48): *)
(* a cleanup that reports completion has left nothing that another run     *)
(* would find, whatever had stopped earlier runs, but what a command left  *)
(* that claimed to have removed it.                                        *)
RerunIsNoOp ==
  phase = "complete" => \A item \in ToSet(Order) : Finds(item) => item \in ignored
=============================================================================
