SPECIFICATION FairSpec
CONSTANTS
  c1 = c1
  c2 = c2
  f1 = f1
  f2 = f2
  o1 = o1
  filter = filter
  cli = cli
  out = out
  alias1 = alias1
  alias2 = alias2
  Plugins = {c1, f1, f2}
  Clis = {c1}
  WithCommand = {f1, f2}
  Names <- MCNames
  library <- MClibrary
  alias <- MCalias
  StartCommands = {"load", "other"}
  MainThread = main
  NULL = null
INVARIANT
  UnloadSafe
PROPERTIES
  LockReleased
  QuitExits
