SPECIFICATION ApiSpec
CONSTANTS
    Parts = {"billing"}
    Orgs = {"org"}
    Plans = {"basic", "pro"}
    Customers = {"ada"}
    Checkouts <- TwoCheckouts
    OrgOf <- SameOrg
    PlanOf <- TwoPlans
    CustomerOf <- SameCustomer
    Prices = {1}
    Calls = {c1}
    None = None
    MaxEdits = 3
    MaxErrors = 1
    Tabs = {"tab"}
    Requests <- TwoRequests
    TabOf <- OneTab
    NoToken = NoToken
    MaxTokens = 4
    MaxLosses = 1
INVARIANTS
    CodeOnOneRow
CHECK_DEADLOCK FALSE
