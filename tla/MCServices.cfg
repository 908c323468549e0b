SPECIFICATION MCSpec
CONSTANTS
    h1 = h1  d1 = d1  d2 = d2  x1 = x1  e1 = e1  e2 = e2  g1 = g1
    f1 = f1  f2 = f2  v1 = v1  p1 = p1  p2 = p2
    None = None
    Hosts = {h1}
    Ids = {d1, d2, x1}
    ClientIds = {x1}
    CarriedKey <- MCCarriedKey
    Events = {e1, e2}
    EventKinds = {"page_visit", "section_dwell", "tab_close"}
    Pages = {g1}
    Forms = {f1, f2}
    Contents = {v1}
    Procs = {p1, p2}
    Users = {"u1", "u2"}
    Domain = {}
    Providers = {q1, q2}
    Services = {"figma", "claude", "atlassian"}
    WhitelistEnabled = TRUE
    ClaudeConfigured = TRUE
    MaxRetries = 3  Loops = {0, 1}
    i1 = i1  i2 = i2
    Ips = {i1, i2}
    Emails = {}
    Begins <- MCBegins
    Whitelisted = {}
    MaxHits = 1  BlockAfter = 0  Day = 1  MaxTime = 3
    MaxRefused = 2  MaxOver = 1  MaxOpen = 1
    KeyIds = {k1}
    Companies = {o1, o2}
    Addresses = {a1}
    Workers = {w1, w2}
    MaxVersion = 2
    Lower <- MCLower
    Exempt = {}
    c1 = c1  c2 = c2  t1 = t1  t2 = t2
SYMMETRY MCSymmetry
INVARIANTS TrackerHolds AccountsHold ReportsHold RefusalsKept ReferencesHold NumbersHold
PROPERTIES KeysWithdrawn
CHECK_DEADLOCK FALSE
