CONSTANTS
    t1 = t1  t2 = t2  c1 = c1  c2 = c2  mini = mini  lite = lite  haiku = haiku  llama = llama
    Tenants = {t1}
    Markup <- OneMarkup
    Models = {mini, lite, haiku}
    Family <- Vendors
    PriceRows <- Seeded
    NoPrice = NoPrice
    Calls = {c1, c2}
    TenantOf <- FirstTenant
    Bills <- OneBill
    NoUsage = NoUsage
    HoursPerDay = 1
    LastHour = 2
    Tolerance = 1
SPECIFICATION Spec
SYMMETRY Callers
CHECK_DEADLOCK FALSE
INVARIANTS TypeOK LoggedCoversBill
PROPERTIES AlarmHasCause
