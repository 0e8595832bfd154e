CONSTANTS
    p1 = p1  p2 = p2  t1 = t1  t2 = t2
    Processes = {p1, p2}
    Planned = {t1, t2}
    LastMonth = 2
SPECIFICATION FairGrantsSpec
INVARIANTS GrantsTypeOK OncePerProcess
PROPERTIES EveryListedTenantIsTried
