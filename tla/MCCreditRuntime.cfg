SPECIFICATION Spec
CONSTANTS
    Offers = {o1, o2}
    Kinds = {"plain", "renew", "limit", "repay", "percent"}
    Loans = {1, 2}
    MaxId = 5
    MaxMishaps = 1
    MaxRefusals = 1
    NoDeals = NoDeals
INVARIANTS NotTwice RepaidIsRenewed RenewOnlyOnce
PROPERTIES RequestsAreServed
