CONSTANTS
    t1 = t1  t2 = t2  c1 = c1  c2 = c2  mini = mini  lite = lite  haiku = haiku  llama = llama
    Tenants = {t1, t2}
    Markup <- OneMarkup
    Models = {llama}
    Family <- Vendors
    PriceRows <- Seeded
    NoPrice = NoPrice
    Calls = {c1, c2}
    TenantOf <- OneEach
    Bills <- OneBill
    NoUsage = NoUsage
    HoursPerDay = 1
    LastHour = 2
    Tolerance = 2
SPECIFICATION Spec
CHECK_DEADLOCK FALSE
INVARIANTS EveryPricedCallCosts
