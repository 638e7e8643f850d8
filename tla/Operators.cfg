SPECIFICATION Spec
CONSTANTS
    c1 = c1
    c2 = c2
    t1 = t1
    t2 = t2
    t3 = t3
    Tokens = {t1, t2, t3}
    Startup <- TwoAdmins
    Ttls = {2}
    Clients = {c1, c2}
    Routes = {"sync", "tasks", "revoke", "unmatched"}
    MAX_OPERATOR_SESSIONS = 2
    MaxIssued = 3
    MaxLag = 1
    MaxTime = 2
SYMMETRY SameNames
INVARIANTS
  RegistryInv
PROPERTIES
  AdminRemains
  SessionsEndOnce
