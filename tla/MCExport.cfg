SPECIFICATION Spec
CONSTANTS
  c1 = c1
  c2 = c2
  Consoles = {c1, c2}
  END_DOMAINS = 2
  Width = 3
  domains_names <- MCdomains_names
  Lists <- MCLists
  Plain = {"a"}
  Records <- MCRecords
  PATH_MAX = 4
  STR_LEN = 3
  POST_LEN = 6
  Middle <- MCMiddle
  Null <- MCNull
INVARIANTS
  TypeOK
  FilterRight
  PrintsBack
  TagSafe
  TagFaithful
SYMMETRY Symmetry
