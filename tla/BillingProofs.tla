--------------------------- MODULE BillingProofs ----------------------------
(***************************************************************************)
(* Theorems about Billing, for any organizations, plans, customers and     *)
(* checkouts, any number of calls at once and any number of failures.      *)
(*                                                                         *)
(* Two calls may settle one invoice, but what they compared can no longer  *)
(* change: an invoice gets its amount, and its charge is asked, by the one *)
(* call that checks it out (CheckoutInv), before anybody can pay.          *)
(***************************************************************************)
EXTENDS Billing, TLAPS

\* What a call was asked decides where it can stand.
StageInv ==
    \A c \in Calls :
        /\ at[c] \in {"findPlan", "createInvoice", "initialize"}
               => req[c].task = "checkout" /\ req[c].plan \in Plans
        /\ at[c] \in {"syncPlan", "createPlan", "storePlanCode"}
               => /\ req[c].task \in {"checkout", "plan"}
                  /\ req[c].plan \in Plans
        /\ at[c] \in {"verify", "findInvoice", "markPaid", "storeCustomer",
                      "findSubscription", "activate", "findAccount",
                      "findUncoded", "storeCode", "disable", "answer"}
               => req[c].task \in {"verify", "webhook"} /\ req[c].ref \in Checkouts
        /\ req[c].task = "checkout" => req[c].ref \in Checkouts /\ at[c] # "idle"

\* A reference is checked out once, and its charge follows its invoice.
CheckoutInv ==
    /\ \A r \in Checkouts :
           invoices[r].status = "none" => charges[r].status = "none"
    /\ \A c \in Calls :
           req[c].task = "checkout" =>
               /\ charges[req[c].ref].status = "none"
               /\ at[c] = "initialize" <=> invoices[req[c].ref].status # "none"
               /\ \A d \in Calls :
                      d # c /\ req[d].task = "checkout" => req[d].ref # req[c].ref

paidExactly(r) == succeeded(r) /\ charges[r].amount = invoices[r].amount

\* What a settling call has found, or done, so far.
SettleInv ==
    /\ \A w \in hooks : succeeded(w.ref)
    /\ \A c \in Calls : at[c] = "findInvoice" => succeeded(req[c].ref)
    /\ \A c \in Calls :
           at[c] = "verify" => invoices[req[c].ref].status # "none"
    /\ \A c \in Calls :
           at[c] = "markPaid" =>
               paidExactly(req[c].ref) /\ invoices[req[c].ref].status # "none"
    /\ \A c \in Calls :
           at[c] \in {"storeCustomer", "findSubscription", "activate"}
               => invoices[req[c].ref].status = "paid"
    /\ \A c \in Calls :
           at[c] = "activate" =>
               /\ found[c].org = OrgOf[req[c].ref]
               /\ found[c].row \in {0} \cup DOMAIN subs
    /\ \A c \in Calls :
           at[c] = "storeCode" => found[c].row \in DOMAIN subs
    /\ \A c \in Calls :
           at[c] \in {"findUncoded", "storeCode"} => found[c].org \in Orgs

BillingInv ==
    BillingTypeOK /\ StageInv /\ CheckoutInv /\ SettleInv
                  /\ PaidExactly /\ SubscriptionIsPaidFor

-----------------------------------------------------------------------------
(* Types: those of the rows, of the calls, and of the rest.                *)

RowsTypeOK ==
    /\ gateway \in [enabled : BOOLEAN, secret : BOOLEAN]
    /\ plans \in [Plans -> PlanRow]
    /\ invoices \in [Checkouts -> [status : {"none", "open", "paid"}, amount : Nat]]
    /\ customer \in [Orgs -> Customers \cup {None}]
    /\ subs \in Seq(Subscription)

CallsTypeOK ==
    /\ at \in [Calls -> CallLabel]
    /\ req \in [Calls -> Request]
    /\ plan \in [Calls -> PlanRow]
    /\ found \in [Calls -> [org : Orgs \cup {None}, row : Nat]]

RestTypeOK ==
    /\ charges \in [Checkouts -> [status : {"none", "pending", "success",
                                            "failed", "ended"},
                                  amount : Nat, recurring : BOOLEAN]]
    /\ hooks \in SUBSET Webhook
    /\ edits \in Nat /\ errors \in Nat

\* The three parts are the type invariant.
LEMMA TypeParts == BillingTypeOK <=> RowsTypeOK /\ CallsTypeOK /\ RestTypeOK
    BY DEF BillingTypeOK, RowsTypeOK, CallsTypeOK, RestTypeOK

\* The same of the next state.
LEMMA TypePartsNext ==
    RowsTypeOK' /\ CallsTypeOK' /\ RestTypeOK' => BillingTypeOK'
    BY DEF BillingTypeOK, RowsTypeOK, CallsTypeOK, RestTypeOK

\* What every call begins and ends with is typed.
LEMMA BlankTyped ==
    /\ NoRequest \in Request
    /\ NoPlan \in PlanRow
    /\ NothingFound \in [org : Orgs \cup {None}, row : Nat]
    BY DEF NoRequest, Request, NoPlan, PlanRow, NothingFound

\* What moving a call, beginning it and ending it leave is typed.
LEMMA GotoTyped ==
    ASSUME CallsTypeOK, NEW c \in Calls, NEW l \in CallLabel, Goto(c, l)
    PROVE  at' \in [Calls -> CallLabel]
    BY DEF CallsTypeOK, Goto

\* A call that begins has a label and a request.
LEMMA BeginTyped ==
    ASSUME CallsTypeOK, NEW c \in Calls, NEW l \in CallLabel,
           NEW q \in Request, Begin(c, q, l)
    PROVE  at' \in [Calls -> CallLabel] /\ req' \in [Calls -> Request]
    BY DEF CallsTypeOK, Begin, Goto

\* A call that returns is blank again.
LEMMA ReturnTyped ==
    ASSUME CallsTypeOK, NEW c \in Calls, NEW l \in CallLabel,
           NEW q \in Request, Return(c, l, q)
    PROVE  CallsTypeOK'
    BY BlankTyped DEF CallsTypeOK, Return, Goto

\* So is one that is over, and a webhook's, which is still to be answered.
LEMMA EndCallTyped ==
    ASSUME CallsTypeOK, NEW c \in Calls, EndCall(c)
    PROVE  CallsTypeOK'
<1>1. req[c] \in Request /\ "answer" \in CallLabel /\ "idle" \in CallLabel
    BY DEF CallsTypeOK, CallLabel
<1> QED BY <1>1, ReturnTyped, BlankTyped DEF EndCall

\* The same of a call that goes on at l, or is over.
LEMMA ThenTyped ==
    ASSUME CallsTypeOK, NEW c \in Calls, NEW l \in CallLabel \cup {"end"},
           Then(c, l)
    PROVE  CallsTypeOK'
<1>1. CASE l = "end"
    BY <1>1, EndCallTyped DEF Then
<1>2. CASE l # "end"
    <2>1. l \in CallLabel /\ Goto(c, l) /\ UNCHANGED callVars
        BY <1>2 DEF Then
    <2> QED BY <2>1, GotoTyped DEF CallsTypeOK, callVars
<1> QED BY <1>1, <1>2

\* What the four kinds of calls are asked.
LEMMA RequestTyped ==
    /\ \A p \in Plans : [NoRequest EXCEPT !.task = "plan", !.plan = p] \in Request
    /\ \A r \in Checkouts :
           /\ [NoRequest EXCEPT !.task = "verify", !.ref = r] \in Request
           /\ [NoRequest EXCEPT !.task = "checkout", !.ref = r, !.plan = PlanOf[r]]
                  \in Request
    /\ \A w \in Webhook :
           [NoRequest EXCEPT !.task = "webhook", !.kind = w.kind, !.ref = w.ref]
               \in Request
    BY BillingAssumption DEF NoRequest, Request, Webhook

\* What the updates of a row make of it.
LEMMA UpdatesTyped ==
    /\ \A q \in PlanRow, n \in Nat, b \in BOOLEAN :
           /\ [q EXCEPT !.price = n, !.active = b] \in PlanRow
           /\ [q EXCEPT !.code = n] \in PlanRow
    /\ \A q \in Subscription :
           /\ [q EXCEPT !.status = "active"] \in Subscription
           /\ [q EXCEPT !.status = "canceled"] \in Subscription
           /\ \A r \in Checkouts : [q EXCEPT !.code = r] \in Subscription
    BY DEF PlanRow, Subscription

\* subs is a sequence of rows.
LEMMA SubsRows ==
    ASSUME subs \in Seq(Subscription)
    PROVE  /\ DOMAIN subs = 1 .. Len(subs) /\ Len(subs) \in Nat
           /\ DOMAIN subs \subseteq Nat
           /\ \A i \in DOMAIN subs : subs[i] \in Subscription
    OBVIOUS

\* Every step keeps the types.
LEMMA TypeStep ==
    ASSUME BillingTypeOK, StageInv, SettleInv, [BillingNext]_billingVars
    PROVE  BillingTypeOK'
<1> USE TypeParts DEF storedVars, callVars, paystackVars, boundVars
<1>0. RowsTypeOK /\ CallsTypeOK /\ RestTypeOK
    OBVIOUS
<1>1. ASSUME NEW e \in BOOLEAN, NEW s \in BOOLEAN, updateGatewaySettings(e, s)
      PROVE  BillingTypeOK'
    <2>1. RowsTypeOK'
        BY <1>0, <1>1 DEF updateGatewaySettings, Edit, RowsTypeOK
    <2>2. CallsTypeOK'
        BY <1>0, <1>1 DEF updateGatewaySettings, Edit, CallsTypeOK
    <2>3. RestTypeOK'
        BY <1>0, <1>1 DEF updateGatewaySettings, Edit, RestTypeOK
    <2> QED BY <2>1, <2>2, <2>3, TypePartsNext
<1>2. ASSUME NEW c \in Calls, NEW p \in Plans, NEW m \in Prices, NEW a \in BOOLEAN,
              WritePlan(c, p, m, a)
      PROVE  BillingTypeOK'
    <2>1. RowsTypeOK'
        <3>1. [plans[p] EXCEPT !.price = m, !.active = a] \in PlanRow
            BY <1>0, BillingAssumption, UpdatesTyped DEF RowsTypeOK
        <3> QED BY <1>0, <1>2, <3>1 DEF WritePlan, RowsTypeOK
    <2>2. CallsTypeOK'
        <3>1. CASE UNCHANGED <<at, req, plan>>
            BY <1>0, <1>2, <3>1 DEF WritePlan, CallsTypeOK
        <3>2. CASE Begin(c, [NoRequest EXCEPT !.task = "plan", !.plan = p], "syncPlan")
            <4>1. "syncPlan" \in CallLabel
                BY DEF CallLabel
            <4>2. [plans[p] EXCEPT !.price = m, !.active = a] \in PlanRow
                BY <1>0, BillingAssumption, UpdatesTyped DEF RowsTypeOK
            <4>3. at' \in [Calls -> CallLabel] /\ req' \in [Calls -> Request]
                BY <1>0, <3>2, <4>1, BeginTyped, RequestTyped
            <4> QED BY <1>0, <1>2, <4>2, <4>3 DEF WritePlan, CallsTypeOK
        <3> QED BY <1>2, <3>1, <3>2 DEF WritePlan
    <2>3. RestTypeOK'
        BY <1>0, <1>2 DEF WritePlan, Edit, RestTypeOK
    <2> QED BY <2>1, <2>2, <2>3, TypePartsNext
<1>3. ASSUME NEW c \in Calls, NEW r \in Checkouts, BeginCheckout(c, r)
      PROVE  BillingTypeOK'
    <2>1. RowsTypeOK'
        BY <1>0, <1>3 DEF BeginCheckout, RowsTypeOK
    <2>2. CallsTypeOK'
        <3>1. "findPlan" \in CallLabel
            BY DEF CallLabel
        <3> QED BY <1>0, <1>3, <3>1, BeginTyped, RequestTyped
                DEF BeginCheckout, CallsTypeOK, callVars
    <2>3. RestTypeOK'
        BY <1>0, <1>3 DEF BeginCheckout, RestTypeOK
    <2> QED BY <2>1, <2>2, <2>3, TypePartsNext
<1>4. ASSUME NEW c \in Calls, NEW r \in Checkouts, BeginVerify(c, r)
      PROVE  BillingTypeOK'
    <2>1. RowsTypeOK'
        BY <1>0, <1>4 DEF BeginVerify, RowsTypeOK
    <2>2. CallsTypeOK'
        <3>1. "verify" \in CallLabel
            BY DEF CallLabel
        <3> QED BY <1>0, <1>4, <3>1, BeginTyped, RequestTyped
                DEF BeginVerify, CallsTypeOK, callVars
    <2>3. RestTypeOK'
        BY <1>0, <1>4 DEF BeginVerify, RestTypeOK
    <2> QED BY <2>1, <2>2, <2>3, TypePartsNext
<1>5. ASSUME NEW c \in Calls, NEW w \in hooks, BeginWebhook(c, w)
      PROVE  BillingTypeOK'
    <2>1. RowsTypeOK'
        BY <1>0, <1>5 DEF BeginWebhook, RowsTypeOK
    <2>2. CallsTypeOK'
        <3>1. w \in Webhook
            BY <1>0 DEF RestTypeOK
        <3>2. (CASE w.kind = "charge.success" -> "findInvoice"
                 [] w.kind = "subscription.create" -> "findAccount"
                 [] w.kind = "subscription.disable" -> "disable") \in CallLabel
            BY <3>1 DEF Webhook, CallLabel
        <3> QED BY <1>0, <1>5, <3>1, <3>2, BeginTyped, RequestTyped
                DEF BeginWebhook, CallsTypeOK, callVars
    <2>3. RestTypeOK'
        BY <1>0, <1>5 DEF BeginWebhook, RestTypeOK
    <2> QED BY <2>1, <2>2, <2>3, TypePartsNext
<1>6. ASSUME NEW c \in Calls, SyncPlan(c)
      PROVE  BillingTypeOK'
    <2>1. RowsTypeOK'
        BY <1>0, <1>6 DEF SyncPlan, RowsTypeOK
    <2>2. CallsTypeOK'
        <3>1. (IF gateway.enabled /\ gateway.secret
               THEN "createPlan" ELSE afterSync(c))
                   \in CallLabel \cup {"end"}
            BY DEF afterSync, CallLabel
        <3> QED BY <1>0, <1>6, <3>1, ThenTyped DEF SyncPlan
    <2>3. RestTypeOK'
        BY <1>0, <1>6 DEF SyncPlan, RestTypeOK
    <2> QED BY <2>1, <2>2, <2>3, TypePartsNext
<1>7. ASSUME NEW c \in Calls, CreatePlan(c)
      PROVE  BillingTypeOK'
    <2>1. RowsTypeOK'
        BY <1>0, <1>7 DEF CreatePlan, RowsTypeOK
    <2>2. CallsTypeOK'
        <3>1. "storePlanCode" \in CallLabel
            BY DEF CallLabel
        <3>2. [plan[c] EXCEPT !.code = plan[c].price] \in PlanRow
            BY <1>0 DEF CallsTypeOK, PlanRow
        <3>3. plan' = [plan EXCEPT ![c] = [plan[c] EXCEPT !.code = plan[c].price]]
            BY <1>0, <1>7 DEF CreatePlan, CallsTypeOK
        <3> QED BY <1>0, <1>7, <3>1, <3>2, <3>3, GotoTyped
                   DEF CreatePlan, CallsTypeOK
    <2>3. RestTypeOK'
        BY <1>0, <1>7 DEF CreatePlan, RestTypeOK
    <2> QED BY <2>1, <2>2, <2>3, TypePartsNext
<1>8. ASSUME NEW c \in Calls, StorePlanCode(c)
      PROVE  BillingTypeOK'
    <2>0. [plans[req[c].plan] EXCEPT !.code = plan[c].code] \in PlanRow
        <3>1. plans[req[c].plan] \in PlanRow
            BY <1>0, <1>8 DEF StorePlanCode, StageInv, RowsTypeOK
        <3>2. plan[c].code \in Nat
            BY <1>0 DEF CallsTypeOK, PlanRow
        <3> QED BY <3>1, <3>2, UpdatesTyped
    <2>1. RowsTypeOK'
        BY <1>0, <1>8, <2>0 DEF StorePlanCode, RowsTypeOK
    <2>2. CallsTypeOK'
        <3>1. CASE EndCall(c)
            BY <1>0, <3>1, EndCallTyped
        <3>2. CASE ~ EndCall(c)
            <4>1. afterSync(c) \in CallLabel
                BY <1>8, <3>2 DEF StorePlanCode, afterSync, CallLabel
            <4>2. at' \in [Calls -> CallLabel]
                BY <1>0, <1>8, <3>2, <4>1, GotoTyped DEF StorePlanCode
            <4> QED BY <1>0, <1>8, <2>0, <3>2, <4>2
                       DEF StorePlanCode, CallsTypeOK
        <3> QED BY <3>1, <3>2
    <2>3. RestTypeOK'
        BY <1>0, <1>8 DEF StorePlanCode, RestTypeOK
    <2> QED BY <2>1, <2>2, <2>3, TypePartsNext
<1>9. ASSUME NEW c \in Calls, FindPlan(c)
      PROVE  BillingTypeOK'
    <2>1. RowsTypeOK'
        BY <1>0, <1>9 DEF FindPlan, RowsTypeOK
    <2>2. CallsTypeOK'
        <3>1. CASE EndCall(c)
            BY <1>0, <3>1, EndCallTyped
        <3>2. CASE ~ EndCall(c)
            <4>1. PICK l \in CallLabel : Goto(c, l)
                BY <1>9, <3>2 DEF FindPlan, CallLabel
            <4>2. req[c].plan \in Plans
                BY <1>9 DEF FindPlan, StageInv
            <4>3. at' \in [Calls -> CallLabel]
                BY <1>0, <4>1, GotoTyped
            <4> QED BY <1>0, <1>9, <3>2, <4>2, <4>3
                       DEF FindPlan, CallsTypeOK, RowsTypeOK
        <3> QED BY <3>1, <3>2
    <2>3. RestTypeOK'
        BY <1>0, <1>9 DEF FindPlan, RestTypeOK
    <2> QED BY <2>1, <2>2, <2>3, TypePartsNext
<1>10. ASSUME NEW c \in Calls, CreateInvoice(c)
      PROVE  BillingTypeOK'
    <2>1. RowsTypeOK'
        BY <1>0, <1>10
           DEF CreateInvoice, RowsTypeOK, StageInv, CallsTypeOK, PlanRow
    <2>2. CallsTypeOK'
        <3>1. PICK l \in CallLabel : Goto(c, l)
            BY <1>10 DEF CreateInvoice, CallLabel
        <3> QED BY <1>0, <1>10, <3>1, GotoTyped, BillingAssumption
                DEF CreateInvoice, CallsTypeOK, RowsTypeOK, StageInv
    <2>3. RestTypeOK'
        BY <1>0, <1>10 DEF CreateInvoice, RestTypeOK
    <2> QED BY <2>1, <2>2, <2>3, TypePartsNext
<1>11. ASSUME NEW c \in Calls, Initialize(c)
      PROVE  BillingTypeOK'
    <2>1. RowsTypeOK'
        BY <1>0, <1>11 DEF Initialize, RowsTypeOK
    <2>2. CallsTypeOK'
        BY <1>0, <1>11, EndCallTyped DEF Initialize
    <2>3. RestTypeOK'
        BY <1>0, <1>11
           DEF Initialize, RestTypeOK, StageInv, CallsTypeOK, PlanRow
    <2> QED BY <2>1, <2>2, <2>3, TypePartsNext
<1>12. ASSUME NEW c \in Calls, VerifyTransaction(c)
      PROVE  BillingTypeOK'
    <2>1. RowsTypeOK'
        BY <1>0, <1>12 DEF VerifyTransaction, RowsTypeOK
    <2>2. CallsTypeOK'
        <3>1. (IF succeeded(req[c].ref)
               THEN settle(req[c].ref) ELSE "end")
                   \in CallLabel \cup {"end"}
            BY DEF settle, CallLabel
        <3> QED BY <1>0, <1>12, <3>1, ThenTyped DEF VerifyTransaction
    <2>3. RestTypeOK'
        BY <1>0, <1>12 DEF VerifyTransaction, RestTypeOK
    <2> QED BY <2>1, <2>2, <2>3, TypePartsNext
<1>13. ASSUME NEW c \in Calls, FindInvoice(c)
      PROVE  BillingTypeOK'
    <2>1. RowsTypeOK'
        BY <1>0, <1>13 DEF FindInvoice, RowsTypeOK
    <2>2. CallsTypeOK'
        <3>1. (IF invoices[req[c].ref].status = "open"
               THEN settle(req[c].ref) ELSE "end")
                   \in CallLabel \cup {"end"}
            BY DEF settle, CallLabel
        <3> QED BY <1>0, <1>13, <3>1, ThenTyped DEF FindInvoice
    <2>3. RestTypeOK'
        BY <1>0, <1>13 DEF FindInvoice, RestTypeOK
    <2> QED BY <2>1, <2>2, <2>3, TypePartsNext
<1>14. ASSUME NEW c \in Calls, MarkPaid(c)
      PROVE  BillingTypeOK'
    <2>1. RowsTypeOK'
        BY <1>0, <1>14 DEF MarkPaid, RowsTypeOK
    <2>2. CallsTypeOK'
        <3>1. afterPaid(req[c].ref) \in CallLabel \cup {"end"}
            BY DEF afterPaid, CallLabel
        <3> QED BY <1>0, <1>14, <3>1, ThenTyped DEF MarkPaid
    <2>3. RestTypeOK'
        BY <1>0, <1>14 DEF MarkPaid, RestTypeOK
    <2> QED BY <2>1, <2>2, <2>3, TypePartsNext
<1>15. ASSUME NEW c \in Calls, StoreCustomer(c)
      PROVE  BillingTypeOK'
    <2>1. RowsTypeOK'
        BY <1>0, <1>15, BillingAssumption
           DEF StoreCustomer, RowsTypeOK, StageInv
    <2>2. CallsTypeOK'
        <3>1. PICK l \in CallLabel : Goto(c, l)
            BY <1>15 DEF StoreCustomer, CallLabel
        <3> QED BY <1>0, <1>15, <3>1, GotoTyped, BillingAssumption
                DEF StoreCustomer, CallsTypeOK, RowsTypeOK, StageInv
    <2>3. RestTypeOK'
        BY <1>0, <1>15 DEF StoreCustomer, RestTypeOK
    <2> QED BY <2>1, <2>2, <2>3, TypePartsNext
<1>16. ASSUME NEW c \in Calls, FindSubscription(c)
      PROVE  BillingTypeOK'
    <2>1. RowsTypeOK'
        BY <1>0, <1>16 DEF FindSubscription, RowsTypeOK
    <2>2. CallsTypeOK'
        <3>1. PICK l \in CallLabel : Goto(c, l)
            BY <1>16 DEF FindSubscription, CallLabel
        <3>2. at' \in [Calls -> CallLabel]
            BY <1>0, <3>1, GotoTyped
        <3>3. PICK i \in {0} \cup DOMAIN subs :
                  found' = [found EXCEPT ![c] = [org |-> OrgOf[req[c].ref], row |-> i]]
            BY <1>16 DEF FindSubscription
        <3>4. i \in Nat /\ OrgOf[req[c].ref] \in Orgs
            BY <1>0, <1>16, SubsRows, BillingAssumption
               DEF FindSubscription, RowsTypeOK, StageInv
        <3> QED BY <1>0, <1>16, <3>2, <3>3, <3>4
                   DEF FindSubscription, CallsTypeOK
    <2>3. RestTypeOK'
        BY <1>0, <1>16 DEF FindSubscription, RestTypeOK
    <2> QED BY <2>1, <2>2, <2>3, TypePartsNext
<1>17. ASSUME NEW c \in Calls, Activate(c)
      PROVE  BillingTypeOK'
    <2>1. RowsTypeOK'
        <3>1. CASE found[c].row = 0
            <4>1. [org |-> found[c].org, plan |-> PlanOf[req[c].ref],
                   status |-> "active", code |-> None] \in Subscription
                BY <1>17, BillingAssumption
                   DEF Activate, StageInv, SettleInv, Subscription
            <4> QED BY <1>0, <1>17, <3>1, <4>1 DEF Activate, RowsTypeOK
        <3>2. CASE found[c].row # 0
            <4>1. found[c].row \in DOMAIN subs
                BY <1>17, <3>2 DEF Activate, SettleInv
            <4>2. [subs[found[c].row] EXCEPT !.status = "active"] \in Subscription
                BY <1>0, <4>1, SubsRows, UpdatesTyped DEF RowsTypeOK
            <4>3. subs' = [subs EXCEPT ![found[c].row] =
                              [subs[found[c].row] EXCEPT !.status = "active"]]
                BY <1>17, <3>2 DEF Activate
            <4> QED BY <1>0, <1>17, <4>1, <4>2, <4>3 DEF Activate, RowsTypeOK
        <3> QED BY <3>1, <3>2
    <2>2. CallsTypeOK'
        BY <1>0, <1>17, EndCallTyped DEF Activate
    <2>3. RestTypeOK'
        BY <1>0, <1>17 DEF Activate, RestTypeOK
    <2> QED BY <2>1, <2>2, <2>3, TypePartsNext
<1>18. ASSUME NEW c \in Calls, FindAccount(c)
      PROVE  BillingTypeOK'
    <2>1. RowsTypeOK'
        BY <1>0, <1>18 DEF FindAccount, RowsTypeOK
    <2>2. CallsTypeOK'
        <3>1. CASE EndCall(c)
            BY <1>0, <3>1, EndCallTyped
        <3>2. CASE ~ EndCall(c)
            <4>1. PICK l \in CallLabel : Goto(c, l)
                BY <1>18, <3>2 DEF FindAccount, CallLabel
            <4>2. at' \in [Calls -> CallLabel]
                BY <1>0, <4>1, GotoTyped
            <4>3. PICK o \in Orgs : found' = [found EXCEPT ![c] = [org |-> o, row |-> 0]]
                BY <1>18, <3>2 DEF FindAccount
            <4> QED BY <1>0, <1>18, <3>2, <4>2, <4>3
                       DEF FindAccount, CallsTypeOK
        <3> QED BY <3>1, <3>2
    <2>3. RestTypeOK'
        BY <1>0, <1>18 DEF FindAccount, RestTypeOK
    <2> QED BY <2>1, <2>2, <2>3, TypePartsNext
<1>19. ASSUME NEW c \in Calls, FindUncoded(c)
      PROVE  BillingTypeOK'
    <2>1. RowsTypeOK'
        BY <1>0, <1>19 DEF FindUncoded, RowsTypeOK
    <2>2. CallsTypeOK'
        <3>1. CASE EndCall(c)
            BY <1>0, <3>1, EndCallTyped
        <3>2. CASE ~ EndCall(c)
            <4>1. PICK l \in CallLabel : Goto(c, l)
                BY <1>19, <3>2 DEF FindUncoded, CallLabel
            <4>2. at' \in [Calls -> CallLabel]
                BY <1>0, <4>1, GotoTyped
            <4>3. PICK i \in DOMAIN subs : found' = [found EXCEPT ![c].row = i]
                BY <1>19, <3>2 DEF FindUncoded
            <4>4. i \in Nat
                BY <1>0, SubsRows DEF RowsTypeOK
            <4> QED BY <1>0, <1>19, <3>2, <4>2, <4>3, <4>4
                       DEF FindUncoded, CallsTypeOK
        <3> QED BY <3>1, <3>2
    <2>3. RestTypeOK'
        BY <1>0, <1>19 DEF FindUncoded, RestTypeOK
    <2> QED BY <2>1, <2>2, <2>3, TypePartsNext
<1>20. ASSUME NEW c \in Calls, StoreCode(c)
      PROVE  BillingTypeOK'
    <2>1. RowsTypeOK'
        <3>1. found[c].row \in DOMAIN subs /\ req[c].ref \in Checkouts
            BY <1>20 DEF StoreCode, StageInv, SettleInv
        <3>2. [subs[found[c].row] EXCEPT !.code = req[c].ref] \in Subscription
            BY <1>0, <3>1, SubsRows, UpdatesTyped DEF RowsTypeOK
        <3>3. subs' = [subs EXCEPT ![found[c].row] =
                          [subs[found[c].row] EXCEPT !.code = req[c].ref]]
            BY <1>20 DEF StoreCode
        <3> QED BY <1>0, <1>20, <3>1, <3>2, <3>3 DEF StoreCode, RowsTypeOK
    <2>2. CallsTypeOK'
        BY <1>0, <1>20, EndCallTyped DEF StoreCode
    <2>3. RestTypeOK'
        BY <1>0, <1>20 DEF StoreCode, RestTypeOK
    <2> QED BY <2>1, <2>2, <2>3, TypePartsNext
<1>21. ASSUME NEW c \in Calls, Disable(c)
      PROVE  BillingTypeOK'
    <2>1. RowsTypeOK'
        <3>1. \A i \in DOMAIN subs :
                  (IF subs[i].code = req[c].ref
                   THEN [subs[i] EXCEPT !.status = "canceled"] ELSE subs[i])
                      \in Subscription
            BY <1>0, SubsRows, UpdatesTyped DEF RowsTypeOK
        <3>2. DOMAIN subs = 1 .. Len(subs) /\ Len(subs) \in Nat
            BY <1>0, SubsRows DEF RowsTypeOK
        <3> QED BY <1>0, <1>21, <3>1, <3>2 DEF Disable, RowsTypeOK
    <2>2. CallsTypeOK'
        BY <1>0, <1>21, EndCallTyped DEF Disable
    <2>3. RestTypeOK'
        BY <1>0, <1>21 DEF Disable, RestTypeOK
    <2> QED BY <2>1, <2>2, <2>3, TypePartsNext
<1>22. ASSUME NEW c \in Calls, Answer(c)
      PROVE  BillingTypeOK'
    <2>1. RowsTypeOK'
        BY <1>0, <1>22 DEF Answer, RowsTypeOK
    <2>2. CallsTypeOK'
        <3>1. "idle" \in CallLabel
            BY DEF CallLabel
        <3> QED BY <1>0, <1>22, <3>1, ReturnTyped, BlankTyped DEF Answer
    <2>3. RestTypeOK'
        BY <1>0, <1>22 DEF Answer, RestTypeOK, hook, Webhook
    <2> QED BY <2>1, <2>2, <2>3, TypePartsNext
<1>23. ASSUME NEW c \in Calls, CallFails(c)
      PROVE  BillingTypeOK'
    <2>1. RowsTypeOK'
        BY <1>0, <1>23 DEF CallFails, RowsTypeOK
    <2>2. CallsTypeOK'
        <3>1. "idle" \in CallLabel
            BY DEF CallLabel
        <3> QED BY <1>0, <1>23, <3>1, ReturnTyped, BlankTyped DEF CallFails
    <2>3. RestTypeOK'
        BY <1>0, <1>23 DEF CallFails, RestTypeOK
    <2> QED BY <2>1, <2>2, <2>3, TypePartsNext
<1>24. ASSUME NEW r \in Checkouts, Pay(r)
      PROVE  BillingTypeOK'
    <2>1. RowsTypeOK'
        BY <1>0, <1>24 DEF Pay, RowsTypeOK
    <2>2. CallsTypeOK'
        BY <1>0, <1>24 DEF Pay, CallsTypeOK
    <2>3. RestTypeOK'
        BY <1>0, <1>24 DEF Pay, RestTypeOK, hook, Webhook
    <2> QED BY <2>1, <2>2, <2>3, TypePartsNext
<1>25. ASSUME NEW r \in Checkouts, Decline(r)
      PROVE  BillingTypeOK'
    <2>1. RowsTypeOK'
        BY <1>0, <1>25 DEF Decline, RowsTypeOK
    <2>2. CallsTypeOK'
        BY <1>0, <1>25 DEF Decline, CallsTypeOK
    <2>3. RestTypeOK'
        BY <1>0, <1>25 DEF Decline, RestTypeOK
    <2> QED BY <2>1, <2>2, <2>3, TypePartsNext
<1>26. ASSUME NEW r \in Checkouts, EndSubscription(r)
      PROVE  BillingTypeOK'
    <2>1. RowsTypeOK'
        BY <1>0, <1>26 DEF EndSubscription, RowsTypeOK
    <2>2. CallsTypeOK'
        BY <1>0, <1>26 DEF EndSubscription, CallsTypeOK
    <2>3. RestTypeOK'
        BY <1>0, <1>26 DEF EndSubscription, RestTypeOK, hook, Webhook
    <2> QED BY <2>1, <2>2, <2>3, TypePartsNext
<1>27. CASE UNCHANGED billingVars
    BY <1>27 DEF billingVars, BillingTypeOK
<1> QED
    BY <1>1, <1>2, <1>3, <1>4, <1>5, <1>6, <1>7, <1>8, <1>9, <1>10, <1>11,
       <1>12, <1>13, <1>14, <1>15, <1>16, <1>17, <1>18, <1>19, <1>20, <1>21,
       <1>22, <1>23, <1>24, <1>25, <1>26, <1>27
       DEF BillingNext, BeginCall, Continue, Paystack

-----------------------------------------------------------------------------
(* What a step does to the calls.                                          *)

others(c) ==
    \A d \in Calls : d # c => at'[d] = at[d] /\ req'[d] = req[d]

othersFound(c) == \A d \in Calls : d # c => found'[d] = found[d]

\* A call goes on at l with what it was asked.
moves(c, l) == at'[c] = l /\ req'[c] = req[c] /\ others(c)

\* A call is over, or about to be answered.
ends(c) ==
    /\ others(c) /\ othersFound(c)
    /\ \/ at'[c] = "idle" /\ req'[c] = NoRequest
       \/ at'[c] = "answer" /\ req'[c] = req[c] /\ req[c].task = "webhook"

begins(c, q, l) == at[c] = "idle" /\ at'[c] = l /\ req'[c] = q /\ others(c)

\* A call that goes on keeps its request and moves alone.
LEMMA GotoMoves ==
    ASSUME BillingTypeOK, NEW c \in Calls, NEW l, Goto(c, l), UNCHANGED req
    PROVE  moves(c, l)
    BY DEF BillingTypeOK, Goto, moves, others

\* Only an idle call begins.
LEMMA BeginBegins ==
    ASSUME BillingTypeOK, NEW c \in Calls, NEW q, NEW l, Begin(c, q, l)
    PROVE  begins(c, q, l)
    BY DEF BillingTypeOK, Begin, Goto, begins, others

\* A call that returns is idle.
LEMMA ReturnEnds ==
    ASSUME BillingTypeOK, NEW c \in Calls, Return(c, "idle", NoRequest)
    PROVE  ends(c) /\ at'[c] = "idle" /\ req'[c] = NoRequest
    BY DEF BillingTypeOK, Return, Goto, ends, others, othersFound

\* A call that is over is idle, or a webhook to be answered.
LEMMA EndCallEnds ==
    ASSUME BillingTypeOK, NEW c \in Calls, EndCall(c)
    PROVE  ends(c)
<1>1. CASE req[c].task = "webhook"
    <2>1. Return(c, "answer", req[c])
        BY <1>1 DEF EndCall
    <2> QED BY <1>1, <2>1
               DEF BillingTypeOK, Return, Goto, ends, others, othersFound
<1>2. CASE req[c].task # "webhook"
    BY <1>2, ReturnEnds DEF EndCall
<1> QED BY <1>1, <1>2

\* A call that settles goes on, or is over.
LEMMA ThenMoves ==
    ASSUME BillingTypeOK, NEW c \in Calls, NEW l, Then(c, l)
    PROVE  \/ l = "end" /\ ends(c)
           \/ l # "end" /\ moves(c, l) /\ UNCHANGED found
    BY EndCallEnds, GotoMoves DEF Then, callVars

\* checkout begins with a reference nobody has used.
LEMMA CheckoutBegins ==
    ASSUME BillingTypeOK, NEW c \in Calls, NEW r \in Checkouts, BeginCheckout(c, r)
    PROVE  /\ at[c] = "idle" /\ at'[c] = "findPlan" /\ others(c)
           /\ req'[c].task = "checkout" /\ req'[c].ref = r
           /\ req'[c].plan = PlanOf[r]
           /\ invoices[r].status = "none" /\ \A d \in Calls : req[d].ref # r
           /\ UNCHANGED <<invoices, charges, hooks, found, subs>>
<1>1. begins(c, [NoRequest EXCEPT !.task = "checkout", !.ref = r,
                                  !.plan = PlanOf[r]], "findPlan")
    BY BeginBegins DEF BeginCheckout
<1>2. \A d \in Calls : req[d].ref # r
    BY DEF BeginCheckout
<1>3. invoices[r].status = "none" /\ UNCHANGED <<invoices, charges, hooks, found, subs>>
    BY DEF BeginCheckout, storedVars, paystackVars
<1> QED BY <1>1, <1>2, <1>3 DEF begins, NoRequest

\* verifyCheckout begins with an open invoice.
LEMMA VerifyBegins ==
    ASSUME BillingTypeOK, NEW c \in Calls, NEW r \in Checkouts, BeginVerify(c, r)
    PROVE  /\ at[c] = "idle" /\ at'[c] = "verify" /\ others(c)
           /\ req'[c].task = "verify" /\ req'[c].ref = r
           /\ invoices[r].status = "open"
           /\ UNCHANGED <<invoices, charges, hooks, found, subs>>
<1>1. begins(c, [NoRequest EXCEPT !.task = "verify", !.ref = r], "verify")
    BY BeginBegins DEF BeginVerify
<1>2. invoices[r].status = "open" /\ UNCHANGED <<invoices, charges, hooks, found, subs>>
    BY DEF BeginVerify, storedVars, paystackVars
<1> QED BY <1>1, <1>2 DEF begins, NoRequest

\* handleWebhook begins with a webhook that Paystack sends.
LEMMA WebhookBegins ==
    ASSUME BillingTypeOK, NEW c \in Calls, NEW w \in hooks, BeginWebhook(c, w)
    PROVE  /\ at[c] = "idle" /\ others(c)
           /\ at'[c] \in {"findInvoice", "findAccount", "disable"}
           /\ req'[c].task = "webhook" /\ req'[c].ref = w.ref
           /\ w.ref \in Checkouts
           /\ UNCHANGED <<invoices, charges, hooks, found, subs>>
<1>1. w \in Webhook
    BY DEF BillingTypeOK
<1>2. PICK l \in {"findInvoice", "findAccount", "disable"} :
          begins(c, [NoRequest EXCEPT !.task = "webhook", !.kind = w.kind,
                                      !.ref = w.ref], l)
    BY <1>1, BeginBegins DEF BeginWebhook, Webhook
<1>3. UNCHANGED <<invoices, charges, hooks, found, subs>>
    BY DEF BeginWebhook, storedVars, paystackVars
<1> QED BY <1>1, <1>2, <1>3 DEF begins, NoRequest, Webhook

\* A change of a plan begins its synchronization, or is only a write.
LEMMA PlanBegins ==
    ASSUME BillingTypeOK, NEW c \in Calls, NEW p \in Plans, NEW m \in Prices,
           NEW a \in BOOLEAN, WritePlan(c, p, m, a)
    PROVE  /\ \/ UNCHANGED <<at, req>>
              \/ /\ at[c] = "idle" /\ at'[c] = "syncPlan" /\ others(c)
                 /\ req'[c].task = "plan" /\ req'[c].plan = p
           /\ UNCHANGED <<invoices, charges, hooks, found, subs>>
<1>0. UNCHANGED <<invoices, charges, hooks, found, subs>>
    BY DEF WritePlan, paystackVars
<1>1. CASE Begin(c, [NoRequest EXCEPT !.task = "plan", !.plan = p], "syncPlan")
    <2>1. begins(c, [NoRequest EXCEPT !.task = "plan", !.plan = p], "syncPlan")
        BY <1>1, BeginBegins
    <2> QED BY <1>0, <2>1 DEF begins, NoRequest
<1>2. CASE UNCHANGED <<at, req, plan>>
    BY <1>0, <1>2
<1> QED BY <1>1, <1>2 DEF WritePlan

-----------------------------------------------------------------------------
(* The other conjuncts: one lemma per conjunct, one step per action.       *)

\* Every step keeps calls where their requests lead them.
LEMMA StageStep ==
    ASSUME BillingTypeOK, StageInv, [BillingNext]_billingVars
    PROVE  StageInv'
<1> USE BillingAssumption DEF StageInv, callVars, NoRequest, moves, ends,
                              others, storedVars, paystackVars, boundVars
<1>1. ASSUME NEW e \in BOOLEAN, NEW s \in BOOLEAN, updateGatewaySettings(e, s)
      PROVE  StageInv'
    BY <1>1 DEF updateGatewaySettings
<1>2. ASSUME NEW c \in Calls, NEW p \in Plans, NEW m \in Prices, NEW a \in BOOLEAN,
              WritePlan(c, p, m, a)
      PROVE  StageInv'
    BY <1>2, PlanBegins
<1>3. ASSUME NEW c \in Calls, NEW r \in Checkouts, BeginCheckout(c, r)
      PROVE  StageInv'
    BY <1>3, CheckoutBegins
<1>4. ASSUME NEW c \in Calls, NEW r \in Checkouts, BeginVerify(c, r)
      PROVE  StageInv'
    BY <1>4, VerifyBegins
<1>5. ASSUME NEW c \in Calls, NEW w \in hooks, BeginWebhook(c, w)
      PROVE  StageInv'
    BY <1>5, WebhookBegins
<1>6. ASSUME NEW c \in Calls, SyncPlan(c)
      PROVE  StageInv'
    BY <1>6, ThenMoves DEF SyncPlan, afterSync
<1>7. ASSUME NEW c \in Calls, CreatePlan(c)
      PROVE  StageInv'
    BY <1>7, GotoMoves DEF CreatePlan
<1>8. ASSUME NEW c \in Calls, StorePlanCode(c)
      PROVE  StageInv'
    BY <1>8, GotoMoves, EndCallEnds DEF StorePlanCode, afterSync
<1>9. ASSUME NEW c \in Calls, FindPlan(c)
      PROVE  StageInv'
    BY <1>9, GotoMoves, EndCallEnds DEF FindPlan
<1>10. ASSUME NEW c \in Calls, CreateInvoice(c)
      PROVE  StageInv'
    BY <1>10, GotoMoves DEF CreateInvoice
<1>11. ASSUME NEW c \in Calls, Initialize(c)
      PROVE  StageInv'
    BY <1>11, EndCallEnds DEF Initialize
<1>12. ASSUME NEW c \in Calls, VerifyTransaction(c)
      PROVE  StageInv'
    BY <1>12, ThenMoves DEF VerifyTransaction, settle, succeeded
<1>13. ASSUME NEW c \in Calls, FindInvoice(c)
      PROVE  StageInv'
    BY <1>13, ThenMoves DEF FindInvoice, settle
<1>14. ASSUME NEW c \in Calls, MarkPaid(c)
      PROVE  StageInv'
    BY <1>14, ThenMoves DEF MarkPaid, afterPaid
<1>15. ASSUME NEW c \in Calls, StoreCustomer(c)
      PROVE  StageInv'
    BY <1>15, GotoMoves DEF StoreCustomer
<1>16. ASSUME NEW c \in Calls, FindSubscription(c)
      PROVE  StageInv'
    BY <1>16, GotoMoves DEF FindSubscription
<1>17. ASSUME NEW c \in Calls, Activate(c)
      PROVE  StageInv'
    BY <1>17, EndCallEnds DEF Activate
<1>18. ASSUME NEW c \in Calls, FindAccount(c)
      PROVE  StageInv'
    BY <1>18, GotoMoves, EndCallEnds DEF FindAccount
<1>19. ASSUME NEW c \in Calls, FindUncoded(c)
      PROVE  StageInv'
    BY <1>19, GotoMoves, EndCallEnds DEF FindUncoded
<1>20. ASSUME NEW c \in Calls, StoreCode(c)
      PROVE  StageInv'
    BY <1>20, EndCallEnds DEF StoreCode
<1>21. ASSUME NEW c \in Calls, Disable(c)
      PROVE  StageInv'
    BY <1>21, EndCallEnds DEF Disable
<1>22. ASSUME NEW c \in Calls, Answer(c)
      PROVE  StageInv'
    BY <1>22, ReturnEnds DEF Answer, hook
<1>23. ASSUME NEW c \in Calls, CallFails(c)
      PROVE  StageInv'
    BY <1>23, ReturnEnds DEF CallFails
<1>24. ASSUME NEW r \in Checkouts, Pay(r)
      PROVE  StageInv'
    BY <1>24 DEF Pay, hook
<1>25. ASSUME NEW r \in Checkouts, Decline(r)
      PROVE  StageInv'
    BY <1>25 DEF Decline
<1>26. ASSUME NEW r \in Checkouts, EndSubscription(r)
      PROVE  StageInv'
    BY <1>26 DEF EndSubscription, hook
<1>27. CASE UNCHANGED billingVars
    BY <1>27 DEF billingVars
<1> HIDE BillingAssumption DEF StageInv
<1> QED
    BY <1>1, <1>2, <1>3, <1>4, <1>5, <1>6, <1>7, <1>8, <1>9, <1>10, <1>11,
       <1>12, <1>13, <1>14, <1>15, <1>16, <1>17, <1>18, <1>19, <1>20, <1>21,
       <1>22, <1>23, <1>24, <1>25, <1>26, <1>27
       DEF BillingNext, BeginCall, Continue, Paystack

\* A step that leaves invoices and charges alone keeps CheckoutInv, unless it
\* begins a checkout or moves one to or from its charge.
LEMMA CheckoutKept ==
    ASSUME StageInv, CheckoutInv, NEW c \in Calls, others(c),
           UNCHANGED <<invoices, charges>>,
           req'[c].task = "checkout" =>
               /\ req'[c] = req[c]
               /\ at'[c] = "initialize" <=> at[c] = "initialize"
    PROVE  CheckoutInv'
    BY DEF StageInv, CheckoutInv, others

\* Every step keeps a checkout the only one of its reference.
LEMMA CheckoutStep ==
    ASSUME BillingTypeOK, StageInv, CheckoutInv, SettleInv,
           [BillingNext]_billingVars
    PROVE  CheckoutInv'
<1> USE DEF StageInv, callVars, NoRequest, moves, ends, storedVars, paystackVars,
           boundVars
<1>1. ASSUME NEW e \in BOOLEAN, NEW s \in BOOLEAN, updateGatewaySettings(e, s)
      PROVE  CheckoutInv'
    BY <1>1 DEF updateGatewaySettings, CheckoutInv, others
<1>2. ASSUME NEW c \in Calls, NEW p \in Plans, NEW m \in Prices, NEW a \in BOOLEAN,
              WritePlan(c, p, m, a)
      PROVE  CheckoutInv'
    <2>1. UNCHANGED <<invoices, charges>>
        BY <1>2, PlanBegins
    <2>2. CASE UNCHANGED <<at, req>>
        BY <2>1, <2>2 DEF CheckoutInv
    <2>3. CASE at[c] = "idle" /\ others(c) /\ req'[c].task = "plan"
        BY <2>1, <2>3, CheckoutKept
    <2> QED BY <1>2, <2>2, <2>3, PlanBegins
<1>3. ASSUME NEW c \in Calls, NEW r \in Checkouts, BeginCheckout(c, r)
      PROVE  CheckoutInv'
    BY <1>3, CheckoutBegins DEF CheckoutInv, others
<1>4. ASSUME NEW c \in Calls, NEW r \in Checkouts, BeginVerify(c, r)
      PROVE  CheckoutInv'
    BY <1>4, CheckoutKept, VerifyBegins
<1>5. ASSUME NEW c \in Calls, NEW w \in hooks, BeginWebhook(c, w)
      PROVE  CheckoutInv'
    BY <1>5, CheckoutKept, WebhookBegins
<1>6. ASSUME NEW c \in Calls, SyncPlan(c)
      PROVE  CheckoutInv'
    BY <1>6, CheckoutKept, ThenMoves DEF SyncPlan, afterSync
<1>7. ASSUME NEW c \in Calls, CreatePlan(c)
      PROVE  CheckoutInv'
    BY <1>7, CheckoutKept, GotoMoves DEF CreatePlan
<1>8. ASSUME NEW c \in Calls, StorePlanCode(c)
      PROVE  CheckoutInv'
    BY <1>8, CheckoutKept, GotoMoves, EndCallEnds DEF StorePlanCode, afterSync
<1>9. ASSUME NEW c \in Calls, FindPlan(c)
      PROVE  CheckoutInv'
    BY <1>9, CheckoutKept, GotoMoves, EndCallEnds DEF FindPlan
<1>10. ASSUME NEW c \in Calls, CreateInvoice(c)
      PROVE  CheckoutInv'
    <2>1. moves(c, "initialize")
        BY <1>10, GotoMoves DEF CreateInvoice
    <2>2. at[c] = "createInvoice" /\ UNCHANGED charges
        BY <1>10 DEF CreateInvoice
    <2>3. req[c].task = "checkout" /\ req[c].ref \in Checkouts
        BY <2>2
    <2>4. \A r \in Checkouts : invoices'[r].status =
              IF r = req[c].ref THEN "open" ELSE invoices[r].status
        BY <1>10, <2>3 DEF CreateInvoice, BillingTypeOK
    <2> QED BY <2>1, <2>2, <2>3, <2>4 DEF CheckoutInv, others
<1>11. ASSUME NEW c \in Calls, Initialize(c)
      PROVE  CheckoutInv'
    BY <1>11, EndCallEnds DEF Initialize, CheckoutInv, others
<1>12. ASSUME NEW c \in Calls, VerifyTransaction(c)
      PROVE  CheckoutInv'
    BY <1>12, CheckoutKept, ThenMoves DEF VerifyTransaction, settle, succeeded
<1>13. ASSUME NEW c \in Calls, FindInvoice(c)
      PROVE  CheckoutInv'
    BY <1>13, CheckoutKept, ThenMoves DEF FindInvoice, settle
<1>14. ASSUME NEW c \in Calls, MarkPaid(c)
      PROVE  CheckoutInv'
    BY <1>14, ThenMoves DEF MarkPaid, afterPaid, SettleInv, CheckoutInv, others
<1>15. ASSUME NEW c \in Calls, StoreCustomer(c)
      PROVE  CheckoutInv'
    BY <1>15, CheckoutKept, GotoMoves DEF StoreCustomer
<1>16. ASSUME NEW c \in Calls, FindSubscription(c)
      PROVE  CheckoutInv'
    BY <1>16, CheckoutKept, GotoMoves DEF FindSubscription
<1>17. ASSUME NEW c \in Calls, Activate(c)
      PROVE  CheckoutInv'
    BY <1>17, CheckoutKept, EndCallEnds DEF Activate
<1>18. ASSUME NEW c \in Calls, FindAccount(c)
      PROVE  CheckoutInv'
    BY <1>18, CheckoutKept, GotoMoves, EndCallEnds DEF FindAccount
<1>19. ASSUME NEW c \in Calls, FindUncoded(c)
      PROVE  CheckoutInv'
    BY <1>19, CheckoutKept, GotoMoves, EndCallEnds DEF FindUncoded
<1>20. ASSUME NEW c \in Calls, StoreCode(c)
      PROVE  CheckoutInv'
    BY <1>20, CheckoutKept, EndCallEnds DEF StoreCode
<1>21. ASSUME NEW c \in Calls, Disable(c)
      PROVE  CheckoutInv'
    BY <1>21, CheckoutKept, EndCallEnds DEF Disable
<1>22. ASSUME NEW c \in Calls, Answer(c)
      PROVE  CheckoutInv'
    BY <1>22, CheckoutKept, ReturnEnds DEF Answer, hook
<1>23. ASSUME NEW c \in Calls, CallFails(c)
      PROVE  CheckoutInv'
    BY <1>23, CheckoutKept, ReturnEnds DEF CallFails
<1>24. ASSUME NEW r \in Checkouts, Pay(r)
      PROVE  CheckoutInv'
    BY <1>24 DEF Pay, hook, CheckoutInv, others
<1>25. ASSUME NEW r \in Checkouts, Decline(r)
      PROVE  CheckoutInv'
    BY <1>25 DEF Decline, CheckoutInv, others
<1>26. ASSUME NEW r \in Checkouts, EndSubscription(r)
      PROVE  CheckoutInv'
    BY <1>26 DEF EndSubscription, hook, CheckoutInv, others
<1>27. CASE UNCHANGED billingVars
    BY <1>27 DEF billingVars, CheckoutInv, others
<1> HIDE DEF StageInv
<1> QED
    BY <1>1, <1>2, <1>3, <1>4, <1>5, <1>6, <1>7, <1>8, <1>9, <1>10, <1>11,
       <1>12, <1>13, <1>14, <1>15, <1>16, <1>17, <1>18, <1>19, <1>20, <1>21,
       <1>22, <1>23, <1>24, <1>25, <1>26, <1>27
       DEF BillingNext, BeginCall, Continue, Paystack

\* A charge that succeeded keeps its amount.
LEMMA ChargesStay ==
    ASSUME BillingTypeOK, StageInv, CheckoutInv, [BillingNext]_billingVars
    PROVE  \A r \in Checkouts : succeeded(r) =>
               succeeded(r)' /\ charges'[r].amount = charges[r].amount
<1> DEFINE Goal == \A r \in Checkouts : succeeded(r) =>
               succeeded(r)' /\ charges'[r].amount = charges[r].amount
<1> USE DEF BillingTypeOK, succeeded
<1>1. ASSUME NEW c \in Calls, Initialize(c) PROVE Goal
    BY <1>1 DEF Initialize, StageInv, CheckoutInv
<1>2. ASSUME NEW r \in Checkouts, Pay(r) PROVE Goal
    BY <1>2 DEF Pay, hook
<1>3. ASSUME NEW r \in Checkouts, Decline(r) PROVE Goal
    BY <1>3 DEF Decline
<1>4. ASSUME NEW r \in Checkouts, EndSubscription(r) PROVE Goal
    BY <1>4 DEF EndSubscription, hook
<1>5. ASSUME NEW c \in Calls, BeginCall(c) PROVE UNCHANGED charges
    BY <1>5 DEF BeginCall, WritePlan, BeginCheckout, BeginVerify, BeginWebhook,
              storedVars, paystackVars
<1>6. ASSUME NEW c \in Calls,
              \/ SyncPlan(c)
              \/ CreatePlan(c)
              \/ StorePlanCode(c)
              \/ FindPlan(c)
              \/ CreateInvoice(c)
              \/ VerifyTransaction(c)
              \/ FindInvoice(c)
              \/ MarkPaid(c)
              \/ StoreCustomer(c)
              \/ FindSubscription(c)
              \/ Activate(c)
              \/ FindAccount(c)
              \/ FindUncoded(c)
              \/ StoreCode(c)
              \/ Disable(c)
              \/ Answer(c)
              \/ CallFails(c)
      PROVE  UNCHANGED charges
    BY <1>6 DEF SyncPlan, CreatePlan, StorePlanCode, FindPlan, CreateInvoice,
                VerifyTransaction, FindInvoice, MarkPaid, StoreCustomer,
                FindSubscription, Activate, FindAccount, FindUncoded,
                StoreCode, Disable, Answer, CallFails,
              storedVars, paystackVars
<1>7. ASSUME \/ (\E e, s \in BOOLEAN : updateGatewaySettings(e, s))
              \/ UNCHANGED billingVars
      PROVE  UNCHANGED charges
    BY <1>7 DEF updateGatewaySettings, billingVars, storedVars, paystackVars
<1>8. CASE UNCHANGED charges
    BY <1>8
<1> QED
    BY <1>1, <1>2, <1>3, <1>4, <1>5, <1>6, <1>7, <1>8
       DEF BillingNext, Continue, Paystack

\* Invoices are written by checkout and by settleInvoice only.
LEMMA InvoicesChange ==
    ASSUME [BillingNext]_billingVars
    PROVE  \/ UNCHANGED invoices
           \/ \E c \in Calls : CreateInvoice(c) \/ MarkPaid(c)
<1>1. ASSUME NEW c \in Calls, BeginCall(c) PROVE UNCHANGED invoices
    BY <1>1 DEF BeginCall, WritePlan, BeginCheckout, BeginVerify, BeginWebhook,
              storedVars, paystackVars
<1>2. ASSUME NEW c \in Calls,
              \/ SyncPlan(c)
              \/ CreatePlan(c)
              \/ StorePlanCode(c)
              \/ FindPlan(c)
              \/ Initialize(c)
              \/ VerifyTransaction(c)
              \/ FindInvoice(c)
              \/ StoreCustomer(c)
              \/ FindSubscription(c)
              \/ Activate(c)
              \/ FindAccount(c)
              \/ FindUncoded(c)
              \/ StoreCode(c)
              \/ Disable(c)
              \/ Answer(c)
              \/ CallFails(c)
      PROVE  UNCHANGED invoices
    BY <1>2 DEF SyncPlan, CreatePlan, StorePlanCode, FindPlan, Initialize,
                VerifyTransaction, FindInvoice, StoreCustomer,
                FindSubscription, Activate, FindAccount, FindUncoded,
                StoreCode, Disable, Answer, CallFails, storedVars, paystackVars
<1>3. ASSUME \/ (\E e, s \in BOOLEAN : updateGatewaySettings(e, s))
              \/ (\E r \in Checkouts : Pay(r))
              \/ (\E r \in Checkouts : Decline(r))
              \/ (\E r \in Checkouts : EndSubscription(r))
              \/ UNCHANGED billingVars
      PROVE  UNCHANGED invoices
    BY <1>3 DEF updateGatewaySettings, Pay, Decline, EndSubscription,
                billingVars, storedVars, paystackVars
<1> QED BY <1>1, <1>2, <1>3 DEF BillingNext, Continue, Paystack

\* An invoice keeps its amount, and stays paid; settleInvoice alone marks it so.
LEMMA InvoicesStay ==
    ASSUME BillingTypeOK, StageInv, CheckoutInv, SettleInv,
           [BillingNext]_billingVars
    PROVE  \A r \in Checkouts :
               /\ invoices[r].status # "none" =>
                      /\ invoices'[r].status # "none"
                      /\ invoices'[r].amount = invoices[r].amount
                      /\ invoices[r].status = "paid" => invoices'[r].status = "paid"
               /\ invoices'[r].status = "paid" =>
                      \/ invoices[r].status = "paid"
                      \/ invoices[r].status # "none" /\ paidExactly(r)
<1> SUFFICES ASSUME NEW c \in Calls, CreateInvoice(c) \/ MarkPaid(c),
                    NEW r \in Checkouts
             PROVE  /\ invoices[r].status # "none" =>
                           /\ invoices'[r].status # "none"
                           /\ invoices'[r].amount = invoices[r].amount
                           /\ invoices[r].status = "paid" =>
                                  invoices'[r].status = "paid"
                    /\ invoices'[r].status = "paid" =>
                           \/ invoices[r].status = "paid"
                           \/ invoices[r].status # "none" /\ paidExactly(r)
    BY InvoicesChange
<1>1. CASE CreateInvoice(c)
    BY <1>1 DEF BillingTypeOK, CreateInvoice, StageInv, CheckoutInv
<1>2. CASE MarkPaid(c)
    BY <1>2 DEF BillingTypeOK, MarkPaid, afterPaid, StageInv, SettleInv
<1> QED BY <1>1, <1>2

\* Subscriptions are written by settleInvoice and by two webhooks only.
LEMMA SubsChange ==
    ASSUME [BillingNext]_billingVars
    PROVE  \/ UNCHANGED subs
           \/ \E c \in Calls : Activate(c) \/ StoreCode(c) \/ Disable(c)
<1>1. ASSUME NEW c \in Calls, BeginCall(c) PROVE UNCHANGED subs
    BY <1>1 DEF BeginCall, WritePlan, BeginCheckout, BeginVerify, BeginWebhook,
              storedVars, paystackVars
<1>2. ASSUME NEW c \in Calls,
              \/ SyncPlan(c)
              \/ CreatePlan(c)
              \/ StorePlanCode(c)
              \/ FindPlan(c)
              \/ CreateInvoice(c)
              \/ Initialize(c)
              \/ VerifyTransaction(c)
              \/ FindInvoice(c)
              \/ MarkPaid(c)
              \/ StoreCustomer(c)
              \/ FindSubscription(c)
              \/ FindAccount(c)
              \/ FindUncoded(c)
              \/ Answer(c)
              \/ CallFails(c)
      PROVE  UNCHANGED subs
    BY <1>2 DEF SyncPlan, CreatePlan, StorePlanCode, FindPlan, CreateInvoice,
                Initialize, VerifyTransaction, FindInvoice, MarkPaid,
                StoreCustomer, FindSubscription, FindAccount, FindUncoded,
                Answer, CallFails, storedVars, paystackVars
<1>3. ASSUME \/ (\E e, s \in BOOLEAN : updateGatewaySettings(e, s))
              \/ (\E r \in Checkouts : Pay(r))
              \/ (\E r \in Checkouts : Decline(r))
              \/ (\E r \in Checkouts : EndSubscription(r))
              \/ UNCHANGED billingVars
      PROVE  UNCHANGED subs
    BY <1>3 DEF updateGatewaySettings, Pay, Decline, EndSubscription,
                billingVars, storedVars, paystackVars
<1> QED BY <1>1, <1>2, <1>3 DEF BillingNext, Continue, Paystack

\* A subscription keeps its account and its plan.
LEMMA SubsStay ==
    ASSUME BillingTypeOK, StageInv, SettleInv, [BillingNext]_billingVars
    PROVE  \A i \in DOMAIN subs :
               /\ i \in DOMAIN subs'
               /\ subs'[i].org = subs[i].org /\ subs'[i].plan = subs[i].plan
<1> SUFFICES ASSUME NEW c \in Calls, Activate(c) \/ StoreCode(c) \/ Disable(c),
                    NEW i \in DOMAIN subs
             PROVE  /\ i \in DOMAIN subs'
                    /\ subs'[i].org = subs[i].org /\ subs'[i].plan = subs[i].plan
    BY SubsChange
<1> USE SubsRows DEF BillingTypeOK, Subscription
<1>1. CASE Activate(c)
    BY <1>1 DEF Activate, StageInv, SettleInv
<1>2. CASE StoreCode(c)
    BY <1>2 DEF StoreCode, StageInv, SettleInv
<1>3. CASE Disable(c)
    BY <1>3 DEF Disable
<1> QED BY <1>1, <1>2, <1>3

\* Paystack sends webhooks of charges that succeeded only.
LEMMA HooksStay ==
    ASSUME BillingTypeOK, \A w \in hooks : succeeded(w.ref), [BillingNext]_billingVars
    PROVE  \A w \in hooks' : w \in hooks \/ (w.ref \in Checkouts /\ succeeded(w.ref)')
<1> DEFINE Goal == \A w \in hooks' : w \in hooks \/ (w.ref \in Checkouts /\ succeeded(w.ref)')
<1> USE DEF BillingTypeOK, succeeded, hook
<1>1. ASSUME NEW c \in Calls, Answer(c) PROVE Goal
    BY <1>1 DEF Answer, hook
<1>2. ASSUME NEW r \in Checkouts, Pay(r) PROVE Goal
    BY <1>2 DEF Pay, hook
<1>3. ASSUME NEW r \in Checkouts, EndSubscription(r) PROVE Goal
    BY <1>3 DEF EndSubscription, hook
<1>4. ASSUME NEW c \in Calls, BeginCall(c) PROVE UNCHANGED hooks
    BY <1>4 DEF BeginCall, WritePlan, BeginCheckout, BeginVerify, BeginWebhook,
              storedVars, paystackVars
<1>5. ASSUME NEW c \in Calls,
              \/ SyncPlan(c)
              \/ CreatePlan(c)
              \/ StorePlanCode(c)
              \/ FindPlan(c)
              \/ CreateInvoice(c)
              \/ Initialize(c)
              \/ VerifyTransaction(c)
              \/ FindInvoice(c)
              \/ MarkPaid(c)
              \/ StoreCustomer(c)
              \/ FindSubscription(c)
              \/ Activate(c)
              \/ FindAccount(c)
              \/ FindUncoded(c)
              \/ StoreCode(c)
              \/ Disable(c)
              \/ CallFails(c)
      PROVE  UNCHANGED hooks
    BY <1>5 DEF SyncPlan, CreatePlan, StorePlanCode, FindPlan, CreateInvoice,
                Initialize, VerifyTransaction, FindInvoice, MarkPaid,
                StoreCustomer, FindSubscription, Activate, FindAccount,
                FindUncoded, StoreCode, Disable, CallFails,
              storedVars, paystackVars
<1>6. ASSUME \/ (\E e, s \in BOOLEAN : updateGatewaySettings(e, s))
              \/ (\E r \in Checkouts : Decline(r))
              \/ UNCHANGED billingVars
      PROVE  UNCHANGED hooks
    BY <1>6
       DEF updateGatewaySettings, Decline, billingVars, storedVars, paystackVars
<1>7. CASE UNCHANGED hooks
    BY <1>7
<1> QED
    BY <1>1, <1>2, <1>3, <1>4, <1>5, <1>6, <1>7
       DEF BillingNext, Continue, Paystack

\* Only settleInvoice adds a subscription, after a paid invoice.
LEMMA ActivateStep ==
    ASSUME BillingTypeOK, StageInv, SettleInv, [BillingNext]_billingVars
    PROVE  \A i \in DOMAIN subs' :
               \/ /\ i \in DOMAIN subs
                  /\ subs'[i].org = subs[i].org /\ subs'[i].plan = subs[i].plan
               \/ \E r \in Checkouts :
                      /\ invoices[r].status = "paid"
                      /\ OrgOf[r] = subs'[i].org /\ PlanOf[r] = subs'[i].plan
<1> SUFFICES ASSUME NEW c \in Calls, Activate(c) \/ StoreCode(c) \/ Disable(c),
                    NEW i \in DOMAIN subs', i \notin DOMAIN subs
             PROVE  \E r \in Checkouts :
                        /\ invoices[r].status = "paid"
                        /\ OrgOf[r] = subs'[i].org /\ PlanOf[r] = subs'[i].plan
    BY SubsChange, SubsStay
<1> USE SubsRows DEF BillingTypeOK, Subscription
<1>1. CASE Activate(c)
    <2>1. /\ req[c].ref \in Checkouts /\ invoices[req[c].ref].status = "paid"
          /\ found[c].org = OrgOf[req[c].ref]
          /\ found[c].row \in {0} \cup DOMAIN subs
        BY <1>1 DEF Activate, StageInv, SettleInv
    <2>2. subs' = Append(subs, [org |-> found[c].org, plan |-> PlanOf[req[c].ref],
                                status |-> "active", code |-> None])
        BY <1>1, <2>1 DEF Activate
    <2>3. subs'[i] = [org |-> found[c].org, plan |-> PlanOf[req[c].ref],
                      status |-> "active", code |-> None]
        BY <2>2
    <2> QED BY <2>1, <2>3
<1>2. CASE StoreCode(c)
    BY <1>2 DEF StoreCode, StageInv, SettleInv
<1>3. CASE Disable(c)
    BY <1>3 DEF Disable
<1> QED BY <1>1, <1>2, <1>3

\* Every step keeps what settling calls have found.
LEMMA SettleStep ==
    ASSUME BillingTypeOK, StageInv, CheckoutInv, SettleInv, [BillingNext]_billingVars
    PROVE  SettleInv'
<1>0. /\ \A r \in Checkouts : succeeded(r) =>
             succeeded(r)' /\ charges'[r].amount = charges[r].amount
      /\ \A r \in Checkouts : invoices[r].status # "none" =>
             /\ invoices'[r].status # "none"
             /\ invoices'[r].amount = invoices[r].amount
             /\ invoices[r].status = "paid" => invoices'[r].status = "paid"
      /\ \A i \in DOMAIN subs : i \in DOMAIN subs'
      /\ \A w \in hooks' : w \in hooks \/ (w.ref \in Checkouts /\ succeeded(w.ref)')
      /\ \A w \in hooks : w.ref \in Checkouts
    <2>1. \A w \in hooks : succeeded(w.ref)
        BY DEF SettleInv
    <2>2. \A w \in hooks : w.ref \in Checkouts
        BY DEF BillingTypeOK, Webhook
    <2> QED BY <2>1, <2>2, ChargesStay, InvoicesStay, SubsStay, HooksStay
<1> USE BillingAssumption, <1>0 DEF StageInv, SettleInv, paidExactly,
                                    callVars, othersFound, NoRequest, moves,
                                    ends, others, storedVars, paystackVars,
                                    boundVars
<1>1. ASSUME NEW e \in BOOLEAN, NEW s \in BOOLEAN, updateGatewaySettings(e, s)
      PROVE  SettleInv'
    BY <1>1 DEF updateGatewaySettings
<1>2. ASSUME NEW c \in Calls, NEW p \in Plans, NEW m \in Prices, NEW a \in BOOLEAN,
              WritePlan(c, p, m, a)
      PROVE  SettleInv'
    BY <1>2, PlanBegins
<1>3. ASSUME NEW c \in Calls, NEW r \in Checkouts, BeginCheckout(c, r)
      PROVE  SettleInv'
    BY <1>3, CheckoutBegins
<1>4. ASSUME NEW c \in Calls, NEW r \in Checkouts, BeginVerify(c, r)
      PROVE  SettleInv'
    BY <1>4, VerifyBegins
<1>5. ASSUME NEW c \in Calls, NEW w \in hooks, BeginWebhook(c, w)
      PROVE  SettleInv'
    BY <1>5, WebhookBegins
<1>6. ASSUME NEW c \in Calls, SyncPlan(c)
      PROVE  SettleInv'
    BY <1>6, ThenMoves DEF SyncPlan, afterSync
<1>7. ASSUME NEW c \in Calls, CreatePlan(c)
      PROVE  SettleInv'
    BY <1>7, GotoMoves DEF CreatePlan
<1>8. ASSUME NEW c \in Calls, StorePlanCode(c)
      PROVE  SettleInv'
    BY <1>8, GotoMoves, EndCallEnds DEF StorePlanCode, afterSync
<1>9. ASSUME NEW c \in Calls, FindPlan(c)
      PROVE  SettleInv'
    BY <1>9, GotoMoves, EndCallEnds DEF FindPlan
<1>10. ASSUME NEW c \in Calls, CreateInvoice(c)
      PROVE  SettleInv'
    <2>1. moves(c, "initialize")
        BY <1>10, GotoMoves DEF CreateInvoice
    <2>2. UNCHANGED <<charges, hooks, subs, found>>
        BY <1>10 DEF CreateInvoice
    <2> QED BY <2>1, <2>2
<1>11. ASSUME NEW c \in Calls, Initialize(c)
      PROVE  SettleInv'
    BY <1>11, EndCallEnds DEF Initialize
<1>12. ASSUME NEW c \in Calls, VerifyTransaction(c)
      PROVE  SettleInv'
    <2>1. /\ at[c] = "verify" /\ UNCHANGED <<invoices, charges, hooks, subs>>
          /\ \/ ends(c)
             \/ /\ succeeded(req[c].ref) /\ UNCHANGED found
                /\ moves(c, settle(req[c].ref))
        BY <1>12, ThenMoves DEF VerifyTransaction
    <2>2. CASE ends(c)
        BY <2>1, <2>2
    <2>3. CASE moves(c, settle(req[c].ref)) /\ succeeded(req[c].ref)
        BY <2>1, <2>3 DEF settle
    <2> QED BY <2>1, <2>2, <2>3
<1>13. ASSUME NEW c \in Calls, FindInvoice(c)
      PROVE  SettleInv'
    <2>1. /\ at[c] = "findInvoice" /\ UNCHANGED <<invoices, charges, hooks, subs>>
          /\ \/ ends(c)
             \/ /\ invoices[req[c].ref].status = "open" /\ UNCHANGED found
                /\ moves(c, settle(req[c].ref))
        BY <1>13, ThenMoves DEF FindInvoice
    <2>2. CASE ends(c)
        BY <2>1, <2>2
    <2>3. CASE /\ moves(c, settle(req[c].ref))
               /\ invoices[req[c].ref].status = "open"
        BY <2>1, <2>3 DEF settle
    <2> QED BY <2>1, <2>2, <2>3
<1>14. ASSUME NEW c \in Calls, MarkPaid(c)
      PROVE  SettleInv'
    <2>1. req[c].ref \in Checkouts
        BY <1>14 DEF MarkPaid
    <2>2. invoices'[req[c].ref].status = "paid"
        BY <1>14, <2>1 DEF MarkPaid, BillingTypeOK
    <2>3. /\ UNCHANGED <<charges, hooks, subs>>
          /\ \/ ends(c)
             \/ moves(c, afterPaid(req[c].ref)) /\ UNCHANGED found
        BY <1>14, ThenMoves DEF MarkPaid
    <2>4. afterPaid(req[c].ref) \in {"storeCustomer", "findSubscription"}
        BY DEF afterPaid
    <2> QED BY <2>1, <2>2, <2>3, <2>4
<1>15. ASSUME NEW c \in Calls, StoreCustomer(c)
      PROVE  SettleInv'
    BY <1>15, GotoMoves DEF StoreCustomer
<1>16. ASSUME NEW c \in Calls, FindSubscription(c)
      PROVE  SettleInv'
    <2>1. moves(c, "activate") /\ at[c] = "findSubscription"
        BY <1>16, GotoMoves DEF FindSubscription
    <2>2. PICK i \in {0} \cup DOMAIN subs :
              found' = [found EXCEPT ![c] = [org |-> OrgOf[req[c].ref], row |-> i]]
        BY <1>16 DEF FindSubscription
    <2>3. /\ found'[c].org = OrgOf[req[c].ref] /\ found'[c].row = i
          /\ \A d \in Calls : d # c => found'[d] = found[d]
        BY <2>2 DEF BillingTypeOK
    <2>4. UNCHANGED <<invoices, charges, hooks, subs>>
        BY <1>16 DEF FindSubscription
    <2> QED BY <2>1, <2>3, <2>4
<1>17. ASSUME NEW c \in Calls, Activate(c)
      PROVE  SettleInv'
    <2>1. ends(c) /\ UNCHANGED <<invoices, charges, hooks>>
        BY <1>17, EndCallEnds DEF Activate
    <2> QED BY <2>1
<1>18. ASSUME NEW c \in Calls, FindAccount(c)
      PROVE  SettleInv'
    <2>1. UNCHANGED <<invoices, charges, hooks, subs>>
        BY <1>18 DEF FindAccount
    <2>2. CASE EndCall(c)
        BY <2>1, <2>2, EndCallEnds
    <2>3. CASE ~ EndCall(c)
        <3>1. moves(c, "findUncoded")
            BY <1>18, <2>3, GotoMoves DEF FindAccount
        <3>2. PICK o \in Orgs : found' = [found EXCEPT ![c] = [org |-> o, row |-> 0]]
            BY <1>18, <2>3 DEF FindAccount
        <3>3. /\ found'[c].org \in Orgs
              /\ \A d \in Calls : d # c => found'[d] = found[d]
            BY <3>2 DEF BillingTypeOK
        <3> QED BY <2>1, <3>1, <3>3
    <2> QED BY <2>2, <2>3
<1>19. ASSUME NEW c \in Calls, FindUncoded(c)
      PROVE  SettleInv'
    <2>1. UNCHANGED <<invoices, charges, hooks, subs>> /\ at[c] = "findUncoded"
        BY <1>19 DEF FindUncoded
    <2>2. CASE EndCall(c)
        BY <2>1, <2>2, EndCallEnds
    <2>3. CASE ~ EndCall(c)
        <3>1. moves(c, "storeCode")
            BY <1>19, <2>3, GotoMoves DEF FindUncoded
        <3>2. PICK i \in DOMAIN subs : found' = [found EXCEPT ![c].row = i]
            BY <1>19, <2>3 DEF FindUncoded
        <3>3. /\ found'[c].row = i /\ found'[c].org = found[c].org
              /\ \A d \in Calls : d # c => found'[d] = found[d]
            BY <3>2 DEF BillingTypeOK
        <3> QED BY <2>1, <3>1, <3>3
    <2> QED BY <2>2, <2>3
<1>20. ASSUME NEW c \in Calls, StoreCode(c)
      PROVE  SettleInv'
    BY <1>20, EndCallEnds DEF StoreCode
<1>21. ASSUME NEW c \in Calls, Disable(c)
      PROVE  SettleInv'
    BY <1>21, EndCallEnds DEF Disable
<1>22. ASSUME NEW c \in Calls, Answer(c)
      PROVE  SettleInv'
    BY <1>22, ReturnEnds DEF Answer, hook
<1>23. ASSUME NEW c \in Calls, CallFails(c)
      PROVE  SettleInv'
    BY <1>23, ReturnEnds DEF CallFails
<1>24. ASSUME NEW r \in Checkouts, Pay(r)
      PROVE  SettleInv'
    BY <1>24 DEF Pay, hook
<1>25. ASSUME NEW r \in Checkouts, Decline(r)
      PROVE  SettleInv'
    BY <1>25 DEF Decline
<1>26. ASSUME NEW r \in Checkouts, EndSubscription(r)
      PROVE  SettleInv'
    BY <1>26 DEF EndSubscription, hook
<1>27. CASE UNCHANGED billingVars
    BY <1>27 DEF billingVars
<1> HIDE BillingAssumption, <1>0 DEF StageInv, SettleInv
<1> QED
    BY <1>1, <1>2, <1>3, <1>4, <1>5, <1>6, <1>7, <1>8, <1>9, <1>10, <1>11,
       <1>12, <1>13, <1>14, <1>15, <1>16, <1>17, <1>18, <1>19, <1>20, <1>21,
       <1>22, <1>23, <1>24, <1>25, <1>26, <1>27
       DEF BillingNext, BeginCall, Continue, Paystack

\* No step marks an invoice paid that was not paid exactly.
LEMMA PaidExactlyStep ==
    ASSUME BillingTypeOK, StageInv, CheckoutInv, SettleInv, PaidExactly,
           [BillingNext]_billingVars
    PROVE  PaidExactly'
<1> SUFFICES ASSUME NEW r \in Checkouts, invoices'[r].status = "paid"
             PROVE  paidExactly(r)'
    BY DEF PaidExactly, paidExactly
<1>1. paidExactly(r) /\ invoices[r].status # "none"
    <2>1. CASE invoices[r].status = "paid"
        BY <2>1 DEF PaidExactly, paidExactly
    <2>2. CASE invoices[r].status # "paid"
        BY <2>2, InvoicesStay
    <2> QED BY <2>1, <2>2
<1> QED BY <1>1, ChargesStay, InvoicesStay DEF paidExactly

\* No step gives an account a subscription it has not paid for.
LEMMA SubscriptionStep ==
    ASSUME BillingTypeOK, StageInv, CheckoutInv, SettleInv, SubscriptionIsPaidFor,
           [BillingNext]_billingVars
    PROVE  SubscriptionIsPaidFor'
<1> SUFFICES ASSUME NEW i \in DOMAIN subs'
             PROVE  \E r \in Checkouts :
                        /\ invoices'[r].status = "paid"
                        /\ OrgOf[r] = subs'[i].org /\ PlanOf[r] = subs'[i].plan
    BY DEF SubscriptionIsPaidFor
<1>1. PICK r \in Checkouts :
          /\ invoices[r].status = "paid"
          /\ OrgOf[r] = subs'[i].org /\ PlanOf[r] = subs'[i].plan
    BY ActivateStep DEF SubscriptionIsPaidFor
<1> QED BY <1>1, InvoicesStay

-----------------------------------------------------------------------------
(* The theorems.                                                           *)

\* The invariant holds before anybody checks out.
LEMMA InitInv == BillingInit => BillingInv
<1> SUFFICES ASSUME BillingInit PROVE BillingInv
    OBVIOUS
<1>1. BillingTypeOK
    BY BlankTyped, BillingAssumption
       DEF BillingInit, BillingTypeOK, CallLabel, Webhook
<1>2. StageInv /\ CheckoutInv /\ SettleInv
    BY DEF BillingInit, StageInv, CheckoutInv, SettleInv, NoRequest
<1>3. PaidExactly /\ SubscriptionIsPaidFor
    BY DEF BillingInit, PaidExactly, SubscriptionIsPaidFor
<1> QED BY <1>1, <1>2, <1>3 DEF BillingInv

\* Every step keeps it.
LEMMA StepInv == BillingInv /\ [BillingNext]_billingVars => BillingInv'
    BY TypeStep, StageStep, CheckoutStep, SettleStep, PaidExactlyStep,
       SubscriptionStep
       DEF BillingInv

\* The inductive invariant holds in every state of every behaviour.
THEOREM BillingInvariance == BillingSpec => []BillingInv
    BY InitInv, StepInv, PTL DEF BillingSpec

\* Every variable keeps its type, for any number of calls at once.
THEOREM BillingTypeOKHolds == BillingSpec => []BillingTypeOK
<1>1. BillingInv => BillingTypeOK
    BY DEF BillingInv
<1> QED BY <1>1, BillingInvariance, PTL

\* Whatever administrators, customers and Paystack do, and whatever fails, an
\* invoice is marked paid only when exactly its amount was paid.
THEOREM PaidExactlyHolds == BillingSpec => []PaidExactly
<1>1. BillingInv => PaidExactly
    BY DEF BillingInv
<1> QED BY <1>1, BillingInvariance, PTL

\* However often and in whatever order webhooks come, an account has a
\* subscription only to a plan it has paid for.
THEOREM SubscriptionIsPaidForHolds == BillingSpec => []SubscriptionIsPaidFor
<1>1. BillingInv => SubscriptionIsPaidFor
    BY DEF BillingInv
<1> QED BY <1>1, BillingInvariance, PTL
=============================================================================
