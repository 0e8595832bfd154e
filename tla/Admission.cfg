CONSTANTS
    t1 = t1  t2 = t2  noGuid = noGuid  d1 = d1  n1 = n1  q1 = q1  q2 = q2
    Unset = Unset  Blank = Blank  NoConnection = NoConnection
    Tenants = {t1, t2, noGuid}
    Guids = {t1, t2}
    Domains = {d1}
    OpeningActive = {t1, t2}
    Changing = {t1}
    OpeningAllowed <- FirstMayEnter
    Sent <- SomeInputs
    Connections = {n1}
    Requests = {q1, q2}
    AppBypassesRls = FALSE
SPECIFICATION FairSpec
CHECK_DEADLOCK FALSE
INVARIANTS TypeOK AdmittedWasEntitled RefusalsAreAudited
PROPERTY EveryRequestIsAnswered
