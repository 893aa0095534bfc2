------------------------------- MODULE MCApi --------------------------------
(* Parts of the API that share no row and no variable, checked in one run: *)
(* each behaviour exercises one part while the others stay as they are.    *)
EXTENDS Billing, Sessions

CONSTANT Parts
VARIABLE part

apiVars == <<part, billingVars, sessionVars>>

ApiInit ==
    /\ part \in Parts
    /\ BillingInit
    /\ SessionsInit

ApiNext ==
    \/ part = "billing" /\ BillingNext /\ UNCHANGED <<part, sessionVars>>
    \/ part = "sessions" /\ SessionsNext /\ UNCHANGED <<part, billingVars>>

ApiSpec == ApiInit /\ [][ApiNext]_apiVars /\ BillingFairness /\ SessionsFairness

\* One checkout.
OneCheckout == {"ref1"}
OneOrg == [r \in OneCheckout |-> "org"]
OnePlan == [r \in OneCheckout |-> "pro"]
OneCustomer == [r \in OneCheckout |-> "ada"]

\* One customer checks out two plans for one account.
TwoCheckouts == {"ref1", "ref2"}
SameOrg == [r \in TwoCheckouts |-> "org"]
TwoPlans == [r \in TwoCheckouts |-> IF r = "ref1" THEN "basic" ELSE "pro"]
SameCustomer == [r \in TwoCheckouts |-> "ada"]

\* One tab with two requests in flight.
TwoRequests == {"k1", "k2"}
OneTab == [k \in TwoRequests |-> "tab"]
=============================================================================
