\* Issues for one user and purpose may overlap.
SPECIFICATION Spec
CONSTANTS
    t1 = t1
    t2 = t2
    t3 = t3
    NoToken = NoToken
    u1 = u1
    verify = verify
    login = login
    c1 = c1
    c2 = c2
    c3 = c3
    Tokens = {t1, t2, t3}
    Clients = {c1, c2, c3}
    Users = {u1}
    Purposes = {verify, login}
    UserOf <- OneUser
    PurposeOf <- TwoPurposes
    SingleActive = {verify, login}
    TTL = 1
    Retention = 0
SYMMETRY TokenClientSymmetry
INVARIANTS SingleActiveInstance OneUse VersionTells
PROPERTIES KeepsPromise
