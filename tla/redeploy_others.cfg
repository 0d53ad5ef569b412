SPECIFICATION Spec
CONSTANTS
  r1 = r1
  r2 = r2
  s1 = s1
  s2 = s2
  n1 = n1
  n2 = n2
  AI = AI
  a = a
  b = b
  Scripts = {s1, s2}
  Names = {n1, n2, AI}
  AiName = AI
  Values = {a, b}
  Empty = Empty
  NoVersion = NoVersion
  Reqs = {r1, r2}
  Starts <- MCStarts
  Account <- MCAccount
  Title <- MCTitle
  Typed = {a, Empty}
  MaxWork = 3
CHECK_DEADLOCK FALSE
INVARIANT OthersKept
