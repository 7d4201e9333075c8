SPECIFICATION Spec
CONSTANTS
    s1 = s1
    s2 = s2
    s3 = s3
    page = page
    tab = tab
    Sockets = {s1, s2, s3}
    Ids = {page, tab}
    Id <- MCId
    Classes = {math, art}
    Users = {ann}
    None = None
    MaxConnections = 2
    MaxPerClass = 1
INVARIANTS NoGhosts SeatsKept
