CONSTANTS
    a1 = a1
    a2 = a2
    t1 = t1
    t2 = t2
    AccountIds = {a1, a2}
    TransactionIds = {t1, t2}
    InvoiceIds = {}
    ObligationIds = {}
    RawAmounts <- Amounts
    MaxBalance = 4
    MaxTransaction = 2
SPECIFICATION Spec
INVARIANT
    BalancesWithinCap
