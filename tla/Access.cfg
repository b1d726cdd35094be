SPECIFICATION Spec
CONSTANTS
    Threads = {t1, t2}
    Script = script
    Hosts = {h}
    Names = {root, new}
    Admin = root
    Passwords = {p, q}
    Roles = {"admin", "analyst"}
    Nobody = Nobody
    max_failures = 2
    window_s = 1
    MaxTime = 1
    MaxRequests = 4
INVARIANTS
    LockoutIsEarned
    
SYMMETRY Symmetric
CHECK_DEADLOCK FALSE
