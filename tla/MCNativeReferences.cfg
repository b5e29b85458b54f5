SPECIFICATION Spec
CONSTANTS
  h1 = h1
  h2 = h2
  h3 = h3
  p1 = p1
  p2 = p2
  p3 = p3
  Null = Null
  Header = Header
  Handles = {h1, h2, h3}
  Places = {p1, p2, p3}
  HeaderWords = {Header}
  MaxClaims = 3
SYMMETRY Symmetry
CHECK_DEADLOCK FALSE
INVARIANTS
  EntriesPointBack
  CountsMatch
  OneHandlePerObject
