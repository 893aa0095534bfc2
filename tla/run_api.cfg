SPECIFICATION ApiSpec
CONSTANTS
    Parts = {"billing", "sessions"}
    Orgs = {"org"}
    Plans = {"pro"}
    Customers = {"ada"}
    Checkouts <- OneCheckout
    OrgOf <- OneOrg
    PlanOf <- OnePlan
    CustomerOf <- OneCustomer
    Prices = {1, 2}
    Calls = {c1, c2}
    None = None
    MaxEdits = 3
    MaxErrors = 1
    Tabs = {"tab"}
    Requests <- TwoRequests
    TabOf <- OneTab
    NoToken = NoToken
    MaxTokens = 4
    MaxLosses = 1
INVARIANTS
    PaidExactly
    SubscriptionIsPaidFor
    OwnRotationIsKept
PROPERTIES
    PaidIsActivated
    RequestsSettle
CHECK_DEADLOCK FALSE
