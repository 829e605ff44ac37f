\* Planners that share a submodule, before and after their own in .gitmodules.
SPECIFICATION Spec
CONSTANTS
  Names <- NamesDef
  Paths <- PathsDef
  Layouts <- LayoutsDef
  Content <- ContentDef
  Declared <- DeclaredDef
  Drafts = {"vla", "invalid"}
  Agents = {"navid", "mine"}
  Hidden = {}
  Plugins <- PluginsDef
  Matches <- MatchesDef
INVARIANTS
  OneDirectory
  CheckedOutResolves
PROPERTIES
  RegistryWins
