CONSTANTS
    t1 = t1  t2 = t2  c1 = c1  c2 = c2
    Tenants = {t1, t2}
    Calls = {c1, c2}
    NoRow = NoRow
    NoCall = NoCall
    OpeningRows <- OpenAndMissing
    Costs = {150, 350}
    Credits = {50, 200}
    BalanceLimit = 5
    AppBypassesRls = TRUE
    Amounts <- Postings
SPECIFICATION FairSpec
INVARIANTS TypeOK LedgerMatchesBalance LedgerAddsUp ResultsAreTrue
PROPERTIES HardStopHolds ImplementsLedger EveryCallReturns
