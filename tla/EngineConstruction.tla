------------------------- MODULE EngineConstruction -------------------------
(***************************************************************************)
(* create_engine: what a configuration makes of the plugins it is given    *)
(* and of those that are installed, and whether an engine comes out of it. *)
(* A contribution (a workflow, tool, provider, store or event sink) is     *)
(* known by its scope and its name.                                        *)
(***************************************************************************)
EXTENDS SequencesExt, Callers

CONSTANTS
  Installed,    \* the plugins the entry points offer, in their order
  Accepting,    \* contributions whose validation hook accepts its settings
  Working       \* contributions whose factory returns an object

-----------------------------------------------------------------------------
(* PluginRegistry: the registered plugins in their order, or None once a     *)
(* registration has been refused                                             *)

Names(registry) == {registry[i].name : i \in DOMAIN registry}

Offered(registry) == UNION {ToSet(registry[i].offers) : i \in DOMAIN registry}

\* Everything is checked before anything is entered.
Registrable(registry, plugin) ==
  /\ plugin.name \notin Names(registry)
  /\ IsInjective(plugin.offers)
  /\ ToSet(plugin.offers) \cap Offered(registry) = {}

Register(registry, plugin) ==
  IF registry # None /\ Registrable(registry, plugin)
  THEN Append(registry, plugin) ELSE None

\* A discovered plugin that has been given explicitly is left out.
Discover(registry, plugin) ==
  IF registry # None /\ plugin.name \in Names(registry)
  THEN registry ELSE Register(registry, plugin)

Tool(name) == [scope |-> "tool", name |-> name]

RuntimeDefaults == [name |-> "runtime_defaults", offers |-> <<Tool("echo")>>]

Registry(config) ==
  LET explicit == FoldLeft(Register, <<>>, <<RuntimeDefaults>> \o config.plugins)
  IN  IF config.discover THEN FoldLeft(Discover, explicit, Installed) ELSE explicit

-----------------------------------------------------------------------------
(* ConfigValidator and RuntimeAssembler *)

\* Whatever is registered is enabled, besides what the settings name.
Enabled(config, registry) == config.enabled \cup Names(registry)

\* Every plugin that is enabled is registered, and together they offer
\* whatever the settings use.
EnabledExist(config, registry) == Enabled(config, registry) \subseteq Names(registry)

Resolved(config, registry) == config.uses \subseteq Offered(registry)

\* Only tools on the allowlist may be configured.
ToolsAllowed(config) == config.configured \subseteq config.uses

Accepted(config) == config.uses \subseteq Accepting

\* The artifact and checkpoint stores are built first, ...
StoresBuilt(config) == config.store # "unreachable"

\* ... and then what the settings use, by the factories of its plugins.
Assembled(config) == config.uses \subseteq Working

Constructed(config) ==
  LET registry == Registry(config)
  IN  /\ registry # None
      /\ EnabledExist(config, registry) /\ ToolsAllowed(config) /\ Resolved(config, registry)
      /\ Accepted(config)
      /\ StoresBuilt(config) /\ Assembled(config)

\* The kinds of workflows that can be prepared on the engine.
Workflows(config) ==
  {c.name : c \in {d \in Offered(Registry(config)) : d.scope = "workflow"}}
=============================================================================
