SPECIFICATION FairSpec
CONSTANTS
    w1 = w1
    w2 = w2
    w3 = w3
    Workers = {w1, w2, w3}
    NoOne = NoOne
    root = root
    ann = ann
    Users = {root, ann}
    FirstSuperuser = root
    admin = admin
    clerk = clerk
    Roles = {admin, clerk}
    NoRole = NoRole
    SystemRoles = {admin}
    SuperAdmin = admin
    Superusers = {w1}
INVARIANTS
    TypeOK
    HeldRolesActive
PROPERTIES
    ImplementsBook
    HandlersEnd
CHECK_DEADLOCK FALSE
