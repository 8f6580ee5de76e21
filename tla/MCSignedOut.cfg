SPECIFICATION Spec
CONSTANTS
  Requests = {r1}
  Tokens = {t1, t2, t3}
  Links = {l1}
  MaxSessions = 1
  MaxVersion = 1
  NoRequest = NoRequest
  NoLink = NoLink
  NoToken = NoToken
  Users = {u1, u2}
  Jobs = {j1, j2}
  Calls = {c1, c2}
  MaxAlerts = 2
  MaxReports = 1
  Payloads <- MCPayloads
  CityProvince <- MCCityProvince
  NoCall = NoCall
  Peers = {p1, p2}
  Proxies = {p2}
  Cookies = {k1}
  Limit = 1
  UserLimit = 2
  Second = 2
  Window = 4
  MaxBuckets = 1
  MaxTime = 6
  Nothing = Nothing
SYMMETRY MCSymmetry


PROPERTIES SignedOut
CHECK_DEADLOCK FALSE
