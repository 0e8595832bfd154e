CONSTANTS
    t1 = t1  t2 = t2  a = a  b = b  n1 = n1  n2 = n2  q1 = q1  q2 = q2 
    Unset = Unset  Blank = Blank  NoConnection = NoConnection
    Tenants = {t1, t2}
    Connections = {n1, n2}
    Tools = {a, b}
    GenericTools = {a}
    PackTools <- Packs
    OpeningConfig <- Configured
    Requests = {q1, q2}
    AppBypassesRls = TRUE
SPECIFICATION Spec
CHECK_DEADLOCK FALSE
INVARIANT EnabledToolIsOffered
