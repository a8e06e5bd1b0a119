SPECIFICATION ASpec
CONSTANTS
    Parts = {"membership"}
    Users = {u}
    SessionIds = {s1, s2}
    TPS = 2
    TokenLife = 2
    MaxTime = 6
    MaxPasswords = 2
    People = {a, b}
    Superuser = wolf
    Roles = {"admin", "analyst"}
    Tickets = {t1, t2}
    Handlers = {h1, h2}
SYMMETRY Interchangeable
CHECK_DEADLOCK FALSE
PROPERTY LastAdminStays
