CONSTANTS
    t1 = t1  t2 = t2  c1 = c1  c2 = c2  c3 = c3  c4 = c4  s1 = s1  s2 = s2
    NoWallet = NoWallet
    Amounts = {}
    Tenants = {t1, t2}
    Calls = {c1, c2, c3, c4}
    Slots = {s1, s2}
    SlotOf <- TwoSlots
    Opening <- SecondMissing
    PoolSize = 3
    TenantOf <- LastAlone
    MaxCharge = 3
    Charges = {3}
    TopUps <- BothWays
SPECIFICATION FairSpec
CHECK_DEADLOCK FALSE
INVARIANTS TypeOK PoolConserved OverdraftBounded SomeoneCanGiveBack
PROPERTIES WaitersProceed
VIEW Outlook
