------------------------------ MODULE Billing -------------------------------
(***************************************************************************)
(* Paystack billing (apps/api/src/billing/billing.service.ts): the gateway *)
(* settings, the plans and their copies at Paystack, the checkout, its     *)
(* verification after the redirect, and the webhooks that settle invoices  *)
(* and subscriptions.  Paystack itself is external: it charges or does     *)
(* not, and sends each webhook until one is answered with 2xx.             *)
(*                                                                         *)
(* A call of the API is split at its awaits; several run at once.          *)
(***************************************************************************)
EXTENDS Naturals, Sequences

CONSTANTS
    Orgs, Plans, Customers,
    Checkouts,                 \* the checkouts, named by their reference
    OrgOf, PlanOf, CustomerOf, \* who checks out, for what, as which customer
    Prices,                    \* the prices an administrator may set
    Calls,                     \* calls the API serves at one time
    None,                      \* a value that is none of the above
    MaxEdits,   \* how many changes administrators make: the model's bound
    MaxErrors   \* how many awaited calls or answers fail: the model's bound

ASSUME BillingAssumption ==
    /\ OrgOf \in [Checkouts -> Orgs]
    /\ PlanOf \in [Checkouts -> Plans]
    /\ CustomerOf \in [Checkouts -> Customers \cup {None}]
    /\ Prices \subseteq Nat \ {0}
    /\ None \notin Orgs \cup Plans \cup Customers \cup Checkouts
    /\ MaxEdits \in Nat /\ MaxErrors \in Nat

VARIABLES
    gateway,   \* the PaymentGatewaySetting row
    plans,     \* the Plan rows; a Paystack code is the price of Paystack's copy
    invoices,  \* the Invoice rows, by reference
    customer,  \* BillingAccount.externalCustomerId, by organization
    subs,      \* the Subscription rows, oldest first
    at,        \* where each call stands
    req,       \* what it was asked
    plan,      \* the plan row it read
    found,     \* the account and the subscription row it found
    charges,   \* external: what Paystack asks of the customer, and gets
    hooks,     \* external: webhooks not yet answered with 2xx
    edits, errors

storedVars == <<gateway, plans, invoices, customer, subs>>
callVars == <<req, plan, found>>
paystackVars == <<charges, hooks>>
boundVars == <<edits, errors>>
billingVars == <<storedVars, at, callVars, paystackVars, boundVars>>

-----------------------------------------------------------------------------
Webhook == [kind : {"charge.success", "subscription.create",
                    "subscription.disable"}, ref : Checkouts]
Request == [task : {"none", "checkout", "verify", "plan", "webhook"},
            kind : {"none", "charge.success", "subscription.create",
                    "subscription.disable"},
            ref : Checkouts \cup {None}, plan : Plans \cup {None}]
NoRequest == [task |-> "none", kind |-> "none", ref |-> None, plan |-> None]
NoPlan == [price |-> 0, active |-> FALSE, code |-> 0]
NothingFound == [org |-> None, row |-> 0]

BillingInit ==
    /\ gateway = [enabled |-> FALSE, secret |-> FALSE]
    /\ plans = [p \in Plans |-> NoPlan]
    /\ invoices = [r \in Checkouts |-> [status |-> "none", amount |-> 0]]
    /\ customer = [o \in Orgs |-> None]
    /\ subs = <<>>
    /\ at = [c \in Calls |-> "idle"]
    /\ req = [c \in Calls |-> NoRequest]
    /\ plan = [c \in Calls |-> NoPlan]
    /\ found = [c \in Calls |-> NothingFound]
    /\ charges = [r \in Checkouts |->
                     [status |-> "none", amount |-> 0, recurring |-> FALSE]]
    /\ hooks = {}
    /\ edits = 0
    /\ errors = 0

Goto(c, label) == at' = [at EXCEPT ![c] = label]

Begin(c, request, label) ==
    /\ at[c] = "idle"
    /\ req' = [req EXCEPT ![c] = request]
    /\ Goto(c, label)

Return(c, label, request) ==
    /\ Goto(c, label)
    /\ req' = [req EXCEPT ![c] = request]
    /\ plan' = [plan EXCEPT ![c] = NoPlan]
    /\ found' = [found EXCEPT ![c] = NothingFound]

\* Whoever sent a webhook waits for its answer.
EndCall(c) ==
    IF req[c].task = "webhook" THEN Return(c, "answer", req[c])
                               ELSE Return(c, "idle", NoRequest)

Then(c, label) ==
    IF label = "end" THEN EndCall(c) ELSE Goto(c, label) /\ UNCHANGED callVars

-----------------------------------------------------------------------------
(* Administration: settings and plans.                                     *)

\* Only edits that change something are counted, and made.
Edit(changed) ==
    /\ changed
    /\ edits < MaxEdits
    /\ edits' = edits + 1
    /\ UNCHANGED errors

\* One upsert; a secret that is not sent again is kept.
updateGatewaySettings(enable, secretSent) ==
    /\ gateway' = [enabled |-> enable, secret |-> gateway.secret \/ secretSent]
    /\ Edit(gateway' # gateway)
    /\ UNCHANGED <<plans, invoices, customer, subs, at, callVars, paystackVars>>

\* createPlan or updatePlan: the row is written, then synchronized.
WritePlan(c, p, amountCents, isActive) ==
    /\ at[c] = "idle"
    /\ LET written == [plans[p] EXCEPT !.price = amountCents, !.active = isActive]
       IN  /\ Edit(written # plans[p])
           /\ plans' = [plans EXCEPT ![p] = written]
           /\ IF written.code # 0
              THEN UNCHANGED <<at, req, plan>>
              ELSE /\ Begin(c, [NoRequest EXCEPT !.task = "plan", !.plan = p], "syncPlan")
                   /\ plan' = [plan EXCEPT ![c] = written]
    /\ UNCHANGED <<gateway, invoices, customer, subs, found, paystackVars>>

afterSync(c) == IF req[c].task = "checkout" THEN "createInvoice" ELSE "end"

\* syncPlanToPaystack: put off while the gateway is disabled or has no secret.
SyncPlan(c) ==
    /\ at[c] = "syncPlan"
    /\ Then(c, IF gateway.enabled /\ gateway.secret THEN "createPlan"
                  ELSE afterSync(c))
    /\ UNCHANGED <<storedVars, paystackVars, boundVars>>

\* Paystack makes its copy, at the price in the row that was read.
CreatePlan(c) ==
    /\ at[c] = "createPlan"
    /\ plan' = [plan EXCEPT ![c].code = plan[c].price]
    /\ Goto(c, "storePlanCode")
    /\ UNCHANGED <<storedVars, req, found, paystackVars, boundVars>>

\* The update returns the row as it is now.
StorePlanCode(c) ==
    /\ at[c] = "storePlanCode"
    /\ LET updated == [plans[req[c].plan] EXCEPT !.code = plan[c].code]
       IN  /\ plans' = [plans EXCEPT ![req[c].plan] = updated]
           /\ IF afterSync(c) = "end"
              THEN EndCall(c)
              ELSE /\ Goto(c, afterSync(c))
                   /\ plan' = [plan EXCEPT ![c] = updated]
                   /\ UNCHANGED <<req, found>>
    /\ UNCHANGED <<gateway, invoices, customer, subs, paystackVars, boundVars>>

-----------------------------------------------------------------------------
(* checkout                                                                *)

\* requireClient lets the call through; the reference is new.
BeginCheckout(c, r) ==
    /\ gateway.secret /\ gateway.enabled
    /\ invoices[r].status = "none"
    /\ \A d \in Calls : req[d].ref # r
    /\ Begin(c, [NoRequest EXCEPT !.task = "checkout", !.ref = r,
                                  !.plan = PlanOf[r]], "findPlan")
    /\ UNCHANGED <<storedVars, plan, found, paystackVars, boundVars>>

FindPlan(c) ==
    /\ at[c] = "findPlan"
    /\ IF plans[req[c].plan].active
       THEN /\ plan' = [plan EXCEPT ![c] = plans[req[c].plan]]
            /\ Goto(c, IF plans[req[c].plan].code # 0 THEN "createInvoice"
                       ELSE "syncPlan")
            /\ UNCHANGED <<req, found>>
       ELSE EndCall(c)
    /\ UNCHANGED <<storedVars, paystackVars, boundVars>>

\* The account's row is made along with its first invoice.
CreateInvoice(c) ==
    /\ at[c] = "createInvoice"
    /\ invoices' = [invoices EXCEPT
           ![req[c].ref] = [status |-> "open", amount |-> plan[c].price]]
    /\ Goto(c, "initialize")
    /\ UNCHANGED <<gateway, plans, customer, subs, callVars, paystackVars,
                   boundVars>>

\* Paystack is told an amount and, when there is one, a plan with a price of
\* its own; either may be what it asks of the customer.
Initialize(c) ==
    /\ at[c] = "initialize"
    /\ \E asked \in {plan[c].price, plan[c].code} \ {0} :
           charges' = [charges EXCEPT
               ![req[c].ref] = [status |-> "pending", amount |-> asked,
                                recurring |-> plan[c].code # 0]]
    /\ EndCall(c)
    /\ UNCHANGED <<storedVars, hooks, boundVars>>

-----------------------------------------------------------------------------
(* External: the customer and Paystack.                                    *)

hook(kind, r) == [kind |-> kind, ref |-> r]
succeeded(r) == charges[r].status \in {"success", "ended"}

Pay(r) ==
    /\ charges[r].status = "pending"
    /\ charges' = [charges EXCEPT ![r].status = "success"]
    /\ hooks' = hooks \cup {hook("charge.success", r)} \cup
           IF charges[r].recurring THEN {hook("subscription.create", r)} ELSE {}
    /\ UNCHANGED <<storedVars, at, callVars, boundVars>>

Decline(r) ==
    /\ charges[r].status = "pending"
    /\ charges' = [charges EXCEPT ![r].status = "failed"]
    /\ UNCHANGED <<storedVars, at, callVars, hooks, boundVars>>

EndSubscription(r) ==
    /\ charges[r].status = "success" /\ charges[r].recurring
    /\ charges' = [charges EXCEPT ![r].status = "ended"]
    /\ hooks' = hooks \cup {hook("subscription.disable", r)}
    /\ UNCHANGED <<storedVars, at, callVars, boundVars>>

-----------------------------------------------------------------------------
(* verifyCheckout, the webhooks and what both settle.                      *)

\* Mutants: the amounts are not compared; the mismatch spares the invoice only.
settleUnchecked(r) == "markPaid"
settleSubscription(r) ==
    IF charges[r].amount = invoices[r].amount THEN "markPaid" ELSE "storeCustomer"

\* settleInvoice begins with the amounts.
settle(r) ==
    IF charges[r].amount = invoices[r].amount THEN "markPaid" ELSE "end"

\* A paid invoice is answered at once.
BeginVerify(c, r) ==
    /\ invoices[r].status = "open"
    /\ Begin(c, [NoRequest EXCEPT !.task = "verify", !.ref = r], "verify")
    /\ UNCHANGED <<storedVars, plan, found, paystackVars, boundVars>>

VerifyTransaction(c) ==
    /\ at[c] = "verify"
    /\ Then(c, IF succeeded(req[c].ref) THEN settle(req[c].ref) ELSE "end")
    /\ UNCHANGED <<storedVars, paystackVars, boundVars>>

\* A webhook with a valid signature, the first time or again.
BeginWebhook(c, w) ==
    /\ w \in hooks
    /\ Begin(c, [NoRequest EXCEPT !.task = "webhook", !.kind = w.kind, !.ref = w.ref],
             CASE w.kind = "charge.success" -> "findInvoice"
               [] w.kind = "subscription.create" -> "findAccount"
               [] w.kind = "subscription.disable" -> "disable")
    /\ UNCHANGED <<storedVars, plan, found, paystackVars, boundVars>>

FindInvoice(c) ==
    /\ at[c] = "findInvoice"
    /\ Then(c, IF invoices[req[c].ref].status = "open" THEN settle(req[c].ref)
                  ELSE "end")
    /\ UNCHANGED <<storedVars, paystackVars, boundVars>>

afterPaid(r) == IF CustomerOf[r] # None THEN "storeCustomer" ELSE "findSubscription"

\* The row read before is not looked at again.
MarkPaid(c) ==
    /\ at[c] = "markPaid"
    /\ invoices' = [invoices EXCEPT ![req[c].ref].status = "paid"]
    /\ Then(c, afterPaid(req[c].ref))
    /\ UNCHANGED <<gateway, plans, customer, subs, paystackVars, boundVars>>

StoreCustomer(c) ==
    /\ at[c] = "storeCustomer"
    /\ customer' = [customer EXCEPT ![OrgOf[req[c].ref]] = CustomerOf[req[c].ref]]
    /\ Goto(c, "findSubscription")
    /\ UNCHANGED <<gateway, plans, invoices, subs, callVars, paystackVars,
                   boundVars>>

\* findFirst without an order: any row of the account and the plan.
FindSubscription(c) ==
    /\ at[c] = "findSubscription"
    /\ LET r == req[c].ref
           rows == {i \in DOMAIN subs : subs[i].org = OrgOf[r] /\ subs[i].plan = PlanOf[r]}
       IN  \E i \in IF rows = {} THEN {0} ELSE rows :
               found' = [found EXCEPT ![c] = [org |-> OrgOf[r], row |-> i]]
    /\ Goto(c, "activate")
    /\ UNCHANGED <<storedVars, req, plan, paystackVars, boundVars>>

\* Mutant: the row that was found is updated; none is made.
ActivateFound(c) ==
    /\ at[c] = "activate"
    /\ subs' = [i \in DOMAIN subs |-> IF i = found[c].row
                                      THEN [subs[i] EXCEPT !.status = "active"]
                                      ELSE subs[i]]
    /\ EndCall(c)
    /\ UNCHANGED <<gateway, plans, invoices, customer, paystackVars, boundVars>>

Activate(c) ==
    /\ at[c] = "activate"
    /\ subs' = IF found[c].row = 0
               THEN Append(subs, [org |-> found[c].org, plan |-> PlanOf[req[c].ref],
                                  status |-> "active", code |-> None])
               ELSE [subs EXCEPT ![found[c].row].status = "active"]
    /\ EndCall(c)
    /\ UNCHANGED <<gateway, plans, invoices, customer, paystackVars, boundVars>>

\* onSubscriptionCreate: any account that has the customer's code ...
FindAccount(c) ==
    /\ at[c] = "findAccount"
    /\ LET code == CustomerOf[req[c].ref]
           accounts == {o \in Orgs : code # None /\ customer[o] = code}
       IN  IF accounts = {}
           THEN EndCall(c)
           ELSE /\ \E o \in accounts :
                       found' = [found EXCEPT ![c] = [org |-> o, row |-> 0]]
                /\ Goto(c, "findUncoded")
                /\ UNCHANGED <<req, plan>>
    /\ UNCHANGED <<storedVars, paystackVars, boundVars>>

\* ... and its newest subscription that has no code yet.
FindUncoded(c) ==
    /\ at[c] = "findUncoded"
    /\ LET rows == {i \in DOMAIN subs : subs[i].org = found[c].org /\ subs[i].code = None}
       IN  IF rows = {}
           THEN EndCall(c)
           ELSE /\ \E i \in rows :
                       /\ \A j \in rows : j <= i
                       /\ found' = [found EXCEPT ![c].row = i]
                /\ Goto(c, "storeCode")
                /\ UNCHANGED <<req, plan>>
    /\ UNCHANGED <<storedVars, paystackVars, boundVars>>

\* The code of a subscription at Paystack is the reference it began with.
StoreCode(c) ==
    /\ at[c] = "storeCode"
    /\ subs' = [subs EXCEPT ![found[c].row].code = req[c].ref]
    /\ EndCall(c)
    /\ UNCHANGED <<gateway, plans, invoices, customer, paystackVars, boundVars>>

\* onSubscriptionDisable: one updateMany.
Disable(c) ==
    /\ at[c] = "disable"
    /\ subs' = [i \in DOMAIN subs |->
                   IF subs[i].code = req[c].ref
                   THEN [subs[i] EXCEPT !.status = "canceled"] ELSE subs[i]]
    /\ EndCall(c)
    /\ UNCHANGED <<gateway, plans, invoices, customer, paystackVars, boundVars>>

\* The 2xx keeps a webhook from being sent again.
Answer(c) ==
    /\ at[c] = "answer"
    /\ hooks' = hooks \ {hook(req[c].kind, req[c].ref)}
    /\ Return(c, "idle", NoRequest)
    /\ UNCHANGED <<storedVars, charges, boundVars>>

\* A query rejects, Paystack cannot be reached, or the answer is lost.
CallFails(c) ==
    /\ at[c] # "idle"
    /\ errors < MaxErrors
    /\ errors' = errors + 1
    /\ Return(c, "idle", NoRequest)
    /\ UNCHANGED <<storedVars, paystackVars, edits>>

-----------------------------------------------------------------------------
Continue(c) ==
    \/ SyncPlan(c) \/ CreatePlan(c) \/ StorePlanCode(c)
    \/ FindPlan(c) \/ CreateInvoice(c) \/ Initialize(c)
    \/ VerifyTransaction(c) \/ FindInvoice(c)
    \/ MarkPaid(c) \/ StoreCustomer(c) \/ FindSubscription(c) \/ Activate(c)
    \/ FindAccount(c) \/ FindUncoded(c) \/ StoreCode(c) \/ Disable(c)
    \/ Answer(c)

BeginCall(c) ==
    \/ \E p \in Plans, m \in Prices, a \in BOOLEAN : WritePlan(c, p, m, a)
    \/ \E r \in Checkouts : BeginCheckout(c, r) \/ BeginVerify(c, r)
    \/ \E w \in hooks : BeginWebhook(c, w)

Paystack(r) == Pay(r) \/ Decline(r) \/ EndSubscription(r)

BillingNext ==
    \/ \E e, s \in BOOLEAN : updateGatewaySettings(e, s)
    \/ \E c \in Calls : BeginCall(c) \/ Continue(c) \/ CallFails(c)
    \/ \E r \in Checkouts : Paystack(r)

\* Node runs the continuation of every call that has begun.
BillingFairness == \A c \in Calls : WF_billingVars(Continue(c))

BillingSpec == BillingInit /\ [][BillingNext]_billingVars
FairBillingSpec == BillingSpec /\ BillingFairness

-----------------------------------------------------------------------------
(* Properties.                                                             *)

CallLabel == {"idle", "syncPlan", "createPlan", "storePlanCode", "findPlan",
              "createInvoice", "initialize", "verify", "findInvoice",
              "markPaid", "storeCustomer", "findSubscription", "activate",
              "findAccount", "findUncoded", "storeCode", "disable", "answer"}
PlanRow == [price : Nat, active : BOOLEAN, code : Nat]
Subscription == [org : Orgs, plan : Plans, status : {"active", "canceled"},
                 code : Checkouts \cup {None}]

\* Every variable holds a value of its type.
BillingTypeOK ==
    /\ gateway \in [enabled : BOOLEAN, secret : BOOLEAN]
    /\ plans \in [Plans -> PlanRow]
    /\ invoices \in [Checkouts -> [status : {"none", "open", "paid"}, amount : Nat]]
    /\ customer \in [Orgs -> Customers \cup {None}]
    /\ subs \in Seq(Subscription)
    /\ at \in [Calls -> CallLabel]
    /\ req \in [Calls -> Request]
    /\ plan \in [Calls -> PlanRow]
    /\ found \in [Calls -> [org : Orgs \cup {None}, row : Nat]]
    /\ charges \in [Checkouts -> [status : {"none", "pending", "success",
                                            "failed", "ended"},
                                  amount : Nat, recurring : BOOLEAN]]
    /\ hooks \in SUBSET Webhook
    /\ edits \in Nat /\ errors \in Nat

\* settleInvoice marks an invoice paid only when Paystack took what the invoice
\* says, whatever an administrator did to the plan or its copy since.
PaidExactly ==
    \A r \in Checkouts :
        invoices[r].status = "paid" =>
            succeeded(r) /\ charges[r].amount = invoices[r].amount

\* settleInvoice gives an account a subscription only after a paid invoice of
\* that account for that plan.
SubscriptionIsPaidFor ==
    \A i \in DOMAIN subs : \E r \in Checkouts :
        /\ invoices[r].status = "paid"
        /\ OrgOf[r] = subs[i].org /\ PlanOf[r] = subs[i].plan

activated(r) ==
    \E i \in DOMAIN subs : subs[i].org = OrgOf[r] /\ subs[i].plan = PlanOf[r]

\* An invoice that is marked paid gets its account the subscription, unless a
\* query is rejected in between: the retried webhook then finds it paid.
PaidIsActivated ==
    \A r \in Checkouts :
        invoices[r].status = "paid" ~> activated(r) \/ errors > 0

\* A webhook that is sent twice is handled as if it were sent once: no two
\* subscriptions hold the code of one subscription at Paystack.
CodeOnOneRow ==
    \A i, j \in DOMAIN subs :
        subs[i].code # None /\ subs[i].code = subs[j].code => i = j
=============================================================================
