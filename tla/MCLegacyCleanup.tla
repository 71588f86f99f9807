-------------------------- MODULE MCLegacyCleanup --------------------------
(* Model-checking instances of LegacyCleanup: the legacy installation of    *)
(* each product, and ones that differ from it in a single respect.          *)
EXTENDS LegacyCleanup

Full == [
  node     |-> [p \in Paths |-> "legacy"],
  config   |-> [f \in Files |-> [regs |-> {r \in Registrations : Home(r) = f}, rev |-> 1]],
  foreign  |-> {},
  indirect |-> {},
  host     |-> [cli |-> {"codex", "claude", "qwen", "grok"}, live |-> {}],
  active   |-> FALSE]

Only(regs, paths) ==
  [Full EXCEPT !.node = [p \in Paths |-> IF p \in paths THEN "legacy" ELSE "absent"],
               !.config = [f \in Files |->
                  IF \E r \in regs : f \in Configs(r) \cup {Home(r)}
                  THEN [regs |-> {r \in regs : Home(r) = f}, rev |-> 1] ELSE NoFile]]

Codex == Only({"codex.mcp", "codex.plugin", "codex.market"}, {"binary"})
Claude == Only({"claude.plugin", "claude.market", "claude.key"}, {"cache", "root"})
Direct == Only({"claude.market", "claude.mcp"}, {"alias", "root"})
Others == Only({"qwen", "grok"}, {"opencode", "unit", "unit.d", "root", "npm"})

Variants(i) ==
  {i} \cup {[i EXCEPT !.foreign = {r}] : r \in {x \in Identified : x \in i.config[Home(x)].regs}}
      \cup {[i EXCEPT !.node[p] = "foreign"] : p \in {x \in Paths : i.node[x] = "legacy"}}
      \cup {[i EXCEPT !.indirect = {x}] : x \in {p \in Paths : i.node[p] # "absent"}
                                                \cup {f \in Files : i.config[f] # NoFile}}
      \cup {[i EXCEPT !.host.cli = @ \ {c}] : c \in i.host.cli}
      \cup {[i EXCEPT !.host.live = {p}] : p \in {"binary", "root"}}
      \cup {[i EXCEPT !.active = TRUE]}

Sample == Variants(Codex) \cup Variants(Claude) \cup Variants(Direct) \cup Variants(Others)
=============================================================================
