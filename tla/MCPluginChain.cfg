SPECIFICATION Spec
CONSTANTS
  c1 = c1
  c2 = c2
  f1 = f1
  f2 = f2
  o1 = o1
  filter = filter
  cli = cli
  out = out
  alias1 = alias1
  alias2 = alias2
  Plugins = {c1, c2, f1}
  Clis = {c1, c2}
  WithCommand = {f1}
  Names <- MCNames
  library <- MClibrary
  alias <- MCalias
  StartCommands = {"load", "unload", "quit", "other"}
  MainThread = main
  NULL = null
INVARIANTS
  TypeOK
  ChainSound
  OfferedInOrder
  NeverLost
PROPERTIES
  NoAlteration
  FindsFirst
  HoldShrinks
  IsPluginList
SYMMETRY Symmetry
CHECK_DEADLOCK FALSE
