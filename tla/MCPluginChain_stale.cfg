SPECIFICATION Spec
CONSTANTS
  c1 = c1
  c2 = c2
  f1 = f1
  f2 = f2
  o1 = o1
  filter = filter
  cli = cli
  out = out
  alias1 = alias1
  alias2 = alias2
  Plugins = {c1, o1}
  Clis = {c1}
  WithCommand = {}
  Names <- MCNames
  library <- MClibrary
  alias <- MCalias
  StartCommands = {"load"}
  MainThread = main
  NULL = null
INVARIANT
  ExecutesLoaded
