\* Source files and skills that other programs change while they are looked
\* at, or that cannot be read, up to twice in each look.
SPECIFICATION SkillsSpec
CONSTANTS
  Paths <- MCPaths
  Names <- MCNames
  Root <- MCRoot
  Trees <- MCTrees
  Changeable <- MCChangeable
  Movable <- MCMovable
  Contents <- MCContents
  SkipDirs = {"bin", ".mkr"}
  Inputs <- MCInputs
  Queries <- MCQueries
  Limits = {1, 2}
  MaxMatches = 2
  MaxOutput = 3
  MaxChanges = 2
  UserSkills <- MCUser
  ProjectSkills <- MCProject
  SkillFile = "SKILL.md"
  SkillNames = {"s", "t"}
  Valid = {"s", "t"}
  Delimiter = "---"
  Ignored = {"", "#"}
  KeyValue <- MCKeyValue
  MaxBody = 6
  MaxSupporting = 1
INVARIANTS
  SkillsTypeOK
  ShownWasThere
  PagesAddUp
PROPERTIES
  SilentResultIsComplete
  DiscoveryLayersSkills
CHECK_DEADLOCK FALSE
