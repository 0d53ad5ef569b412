CONSTANTS
  a1 = a1
  a2 = a2
  k1 = k1
  k2 = k2
  t1 = t1
  t2 = t2
  Pages = {"storage", "dns", "tunnels", "rules", "accounts", "workers"}
  Accounts = {a1, a2}
  R2Accounts = {a1}
  Boxes = {k1, k2}
  OwnerOf <- MCOwnerOf
  None = None
  TabSets <- MCTabSets
  MaxFlights = 2
  Domains = {d1, d2}
  NoDomain = None
  Defaults = Defaults
  MaxDnsFlights = 2
  TunnelAccounts = {a1, a2}
  Tunnels = {t1, t2}
  TunnelOwner <- MCTunnelOwner
  NoTunnel = None
  Hosts = {h1, h2}
  ZoneHosts = {h1}
  MaxTunnelFlights = 2
  Targets = {g1, g2}
  NoTarget = None
  Expressions <- MCExpressions
  MaxRuleFlights = 2
  Queries = {q1, q2}
  Members = {m1, m2}
  NoMember = NoMember
  MaxAccountFlights = 2
  Cards = {a1, a2}
  s1 = s1
  s2 = s2
  Scripts = {s1, s2}
  CardOf <- MCCardOf
  NoScript = NoScript
  PaneSets <- MCPaneSets
  MaxDrawerFlights = 2
CHECK_DEADLOCK FALSE
SPECIFICATION Spec
INVARIANTS TypeOK ShowsSelection WritesWhereRead SpinnersFly
