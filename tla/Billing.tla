------------------------------ MODULE Billing ------------------------------
(***************************************************************************)
(* Payments through Paystack: token top-ups, subscriptions, plan changes   *)
(* and cancellations, and the webhook by which Paystack reports what       *)
(* happened.                                                               *)
(*                                                                         *)
(* The routes only open charges at Paystack; the webhook applies a paid    *)
(* charge (tokens for the user, or a subscription and a plan for the       *)
(* company), and refunds it when applying it throws.  Paystack sends an    *)
(* event again until it is answered 200, so a webhook may run twice, also  *)
(* at the same time, and in any order with the others.                     *)
(***************************************************************************)
EXTENDS Integers, FiniteSets, FiniteSetsExt

CONSTANTS
    Users, Companies,
    CompanyOf,      \* the company of each user: the customer of its charges
    Plans, Price,   \* the plans sold and what a period of each costs
    Interval,       \* the days of a period
    DaysLeft,       \* the days that may remain of the current period
    Grants,         \* the tokens a top-up may buy: the exchange rate moves
    Charges,        \* payment references: the bound on the payments
    Subscriptions,  \* subscription codes: the bound on the subscriptions
    Procs,          \* requests and webhooks in flight at once
    MaxFaults,      \* crashes, failing calls and lost answers
    None

ASSUME BillingAssumption ==
    /\ CompanyOf \in [Users -> Companies]
    /\ Price \in [Plans -> Nat]
    /\ Interval \in Nat \ {0}
    /\ DaysLeft \subseteq Nat
    /\ Grants \subseteq Nat \ {0}
    /\ MaxFaults \in Nat
    /\ "free" \notin Plans
    /\ None \notin Users \union Companies \union Plans \union Charges
                   \union Subscriptions
    /\ Companies \intersect Subscriptions = {}
    /\ IsFiniteSet(Charges) /\ IsFiniteSet(Subscriptions) /\ IsFiniteSet(Procs)

VARIABLES
    users,          \* the accounts that exist
    balance,        \* their currentTokens bought so far
    companies,      \* the companies that exist
    plan,           \* billing.plan of every company
    charges,        \* what Paystack knows of every payment reference
    recorded,       \* the references of the transaction documents
    refunded,       \* the charges Paystack was told to refund
    subscriptions,  \* what Paystack knows of every subscription
    sent,           \* the events Paystack has not seen answered
    retried,        \* the charges whose success it reports more than once
    handlers,       \* what every request in flight will do next
    faults,         \* the faults so far
    effects,        \* history: the tokens (top-up) or writes a charge caused
    cut,            \* history: the charges whose processing a failure cut short
    dropped         \* history: the charges whose refund failed too

documents == <<users, balance, companies, plan, recorded>>
paystack  == <<charges, refunded, subscriptions, sent>>
history   == <<retried, faults, effects, cut, dropped>>
vars      == <<documents, paystack, history, handlers>>

Actions == {"topUp", "new_subscription", "old_subscription", "change_plan"}

Kinds == {"charge.success", "charge.failed", "subscription.create",
          "subscription.not_renew"}

Event == [kind : {"charge.success", "charge.failed"}, of : Charges]
         \union [kind : {"subscription.create", "subscription.not_renew"},
                 of : Subscriptions]

ASSUME NoneIsNoEvent == None \notin Event

\* The metadata of a payment: change_plan carries no companyId.
Charge == [status   : {"none", "open", "paid", "failed"},
           action   : Actions \union {"none"},
           customer : Companies \union {None},
           user     : Users \union {None},
           plan     : Plans \union {None},
           old      : Subscriptions \union {None}]

Subscription == [status : {"none", "active", "cancelled"},
                 customer : Companies \union {None},
                 plan : Plans \union {None}]

Steps == {"idle", "find_user", "credit", "find_company", "subscribe", "write_plan",
          "record", "cancel_old", "refund", "find_customer", "downgrade", "upgrade", "answer",
          "change_cancel", "change_create", "cancel", "history",
          "reply_200", "reply_500"}

Handler == [step  : Steps,
            event : Event \union {None},
            company : Companies \union {None},        \* read before
            sub   : Subscriptions \union {None},      \* read before
            plan  : Plans \union {None}]              \* asked for

\* A webhook, and a request, at a step.
Webhook(step, e, k) == [step |-> step, event |-> e, company |-> k, sub |-> None,
                        plan |-> None]

Request(step, k, s, n) == [step |-> step, event |-> None, company |-> k, sub |-> s,
                           plan |-> n]

Idle == Request("idle", None, None, None)

TypeOK ==
    /\ users \subseteq Users
    /\ balance \in [Users -> Nat]
    /\ companies \subseteq Companies
    /\ plan \in [Companies -> Plans \union {"free"}]
    /\ charges \in [Charges -> Charge]
    /\ recorded \subseteq Charges
    /\ refunded \subseteq Charges
    /\ subscriptions \in [Subscriptions -> Subscription]
    /\ sent \subseteq Event
    /\ retried \subseteq Charges
    /\ handlers \in [Procs -> Handler]
    /\ faults \in 0 .. MaxFaults
    /\ effects \in [Charges -> Nat]
    /\ cut \subseteq Charges
    /\ dropped \subseteq Charges

NoCharge == [status |-> "none", action |-> "none", customer |-> None,
             user |-> None, plan |-> None, old |-> None]

NoSubscription == [status |-> "none", customer |-> None, plan |-> None]

Init ==
    /\ users = Users
    /\ balance = [u \in Users |-> 0]
    /\ companies = Companies
    /\ plan = [k \in Companies |-> "free"]
    /\ charges = [c \in Charges |-> NoCharge]
    /\ recorded = {}
    /\ refunded = {}
    /\ subscriptions = [s \in Subscriptions |-> NoSubscription]
    /\ sent = {}
    /\ retried = {}
    /\ handlers = [p \in Procs |-> Idle]
    /\ faults = 0
    /\ effects = [c \in Charges |-> 0]
    /\ cut = {}
    /\ dropped = {}

-----------------------------------------------------------------------------
(* What the handlers do next.                                              *)

At(p, step) == handlers[p].step = step

Continue(p, step) == handlers' = [handlers EXCEPT ![p].step = step]

\* Only the answer is left: nothing that was read matters any more.
Conclude(p) ==
    handlers' = [handlers EXCEPT ![p] = Webhook("answer", handlers[p].event, None)]

Finish(p) == handlers' = [handlers EXCEPT ![p] = Idle]

\* The charge or the subscription whose event p handles.
Subject(p) == handlers[p].event.of

Active(k) == {s \in Subscriptions : /\ subscriptions[s].status = "active"
                                    /\ subscriptions[s].customer = k}

TransactionHistory(customer) == {c \in Charges : charges[c].customer = customer}

\* POST /subscription for a customer; Paystack reports it.
Create(s, k, n) ==
    /\ subscriptions[s].status = "none"
    /\ subscriptions' = [subscriptions EXCEPT
                           ![s] = [status |-> "active", customer |-> k, plan |-> n]]
    /\ sent' = sent \union {[kind |-> "subscription.create", of |-> s]}

\* POST /subscription/disable: it fails for one that is disabled already.
Cancel(s) ==
    /\ subscriptions[s].status = "active"
    /\ subscriptions' = [subscriptions EXCEPT ![s].status = "cancelled"]
    /\ sent' = sent \union {[kind |-> "subscription.not_renew", of |-> s]}

-----------------------------------------------------------------------------
(* Opening a charge: the routes read, and call Paystack once.              *)

Open(c, charge) ==
    /\ charges[c].status = "none"
    /\ charges' = [charges EXCEPT ![c] = charge]
    /\ UNCHANGED <<documents, history, refunded, subscriptions, sent>>

TopUp(u, c) ==
    /\ u \in users
    /\ Open(c, [status |-> "open", action |-> "topUp", customer |-> CompanyOf[u],
                user |-> u, plan |-> None, old |-> None])
    /\ UNCHANGED handlers

SubscribeUser(k, n, action, c) ==
    /\ k \in companies
    /\ action \in {"new_subscription", "old_subscription"}
    /\ Open(c, [status |-> "open", action |-> action, customer |-> k,
                user |-> None, plan |-> n, old |-> None])
    /\ UNCHANGED handlers

\* prorateChange, times the days of a period: the price of the new plan less
\* what is left of the old one.
PriceDifference(old, new, days) == Price[new] * Interval - Price[old] * days

\* The client names both plans.  A dearer plan opens a charge; any other
\* cancels the subscription that was read and then creates one.
ChangePlan(p, k, old, new, days) ==
    /\ At(p, "idle")
    /\ k \in companies
    /\ \E s \in Active(k) :
          IF PriceDifference(old, new, days) > 0
          THEN /\ \E c \in Charges :
                    Open(c, [status |-> "open", action |-> "change_plan",
                             customer |-> k, user |-> None, plan |-> new,
                             old |-> s])
               /\ UNCHANGED handlers
          ELSE /\ handlers' = [handlers EXCEPT
                                 ![p] = Request("change_cancel", k, s, new)]
               /\ UNCHANGED <<documents, paystack, history>>

CancelForChange(p) ==
    /\ At(p, "change_cancel")
    /\ \/ /\ Cancel(handlers[p].sub)
          /\ Continue(p, "change_create")
       \/ /\ subscriptions[handlers[p].sub].status # "active"
          /\ Finish(p)
          /\ UNCHANGED <<subscriptions, sent>>
    /\ UNCHANGED <<documents, history, charges, refunded>>

\* The refund of a cheaper plan looks the history up by a token: it finds none.
CreateForChange(p, s) ==
    /\ At(p, "change_create")
    /\ Create(s, handlers[p].company, handlers[p].plan)
    /\ Finish(p)
    /\ UNCHANGED <<documents, history, charges, refunded>>

CancelSub(p, k) ==
    /\ At(p, "idle")
    /\ k \in companies
    /\ \E s \in Active(k) :
          handlers' = [handlers EXCEPT ![p] = Request("cancel", None, s, None)]
    /\ UNCHANGED <<documents, paystack, history>>

CancelSubscription(p) ==
    /\ At(p, "cancel")
    /\ \/ /\ Cancel(handlers[p].sub)
          /\ Continue(p, "history")
       \/ /\ subscriptions[handlers[p].sub].status # "active"
          /\ Finish(p)
          /\ UNCHANGED <<subscriptions, sent>>
    /\ UNCHANGED <<documents, history, charges, refunded>>

\* Reading metadata of the first transaction throws when there is none.
AnswerCancelSub(p) ==
    LET found == TransactionHistory(handlers[p].sub) IN
    /\ At(p, "history")
    /\ IF found = {} THEN refunded' = refunded
       ELSE \E c \in found : refunded' = refunded \union {c}
    /\ handlers' = [handlers EXCEPT
                      ![p] = Request(IF found = {} THEN "reply_500" ELSE "reply_200",
                                     None, None, None)]
    /\ UNCHANGED <<documents, history, charges, subscriptions, sent>>

Reply(p) ==
    /\ At(p, "reply_200") \/ At(p, "reply_500")
    /\ Finish(p)
    /\ UNCHANGED <<documents, paystack, history>>

-----------------------------------------------------------------------------
(* The customer at Paystack, and accounts that go away.                    *)

Settle(c, status, kind) ==
    /\ charges[c].status = "open"
    /\ charges' = [charges EXCEPT ![c].status = status]
    /\ sent' = sent \union {[kind |-> kind, of |-> c]}
    /\ UNCHANGED <<documents, history, refunded, subscriptions, handlers>>

Pay(c)     == Settle(c, "paid", "charge.success")
Decline(c) == Settle(c, "failed", "charge.failed")

DeleteUser(u) ==
    /\ u \in users
    /\ users' = users \ {u}
    /\ UNCHANGED <<balance, companies, plan, recorded, paystack, history, handlers>>

DeleteCompany(k) ==
    /\ k \in companies
    /\ companies' = companies \ {k}
    /\ UNCHANGED <<users, balance, plan, recorded, paystack, history, handlers>>

-----------------------------------------------------------------------------
(* The webhook.  It begins by asking Paystack whether the charge was paid;  *)
(* when that fails it answers 500 (Interrupt).                             *)

FirstStep(e) ==
    CASE e.kind = "charge.success" ->
           [topUp |-> "find_user", new_subscription |-> "find_company",
            old_subscription |-> "find_company",
            change_plan |-> "cancel_old"][charges[e.of].action]
      [] e.kind = "charge.failed" -> "answer"
      [] OTHER -> "find_customer"

Repeated(e) == {c \in Charges : e = [kind |-> "charge.success", of |-> c]}

HandledAlready(e) == \E q \in Procs : handlers[q].event = e

\* Paystack sends e, again if it gave up waiting for an earlier answer.  The
\* handler asks for a signature and does not verify it; the events here are
\* those that Paystack sends.
Deliver(p, e) ==
    /\ At(p, "idle")
    /\ e \in sent
    /\ handlers' = [handlers EXCEPT ![p] = Webhook(FirstStep(e), e, None)]
    /\ IF HandledAlready(e)
       THEN /\ faults < MaxFaults
            /\ faults' = faults + 1
            /\ retried' = retried \union Repeated(e)
       ELSE UNCHANGED <<faults, retried>>
    /\ UNCHANGED <<documents, paystack, effects, cut, dropped>>

\* The process dies, a call fails outside the try, or the answer is lost.
Interrupt(p) ==
    /\ ~ At(p, "idle")
    /\ faults < MaxFaults
    /\ faults' = faults + 1
    /\ retried' = retried \union Repeated(handlers[p].event)
    /\ Finish(p)
    /\ UNCHANGED <<documents, paystack, effects, cut, dropped>>

\* Mutation of Throw: the charge is not refunded.
ThrowUnrefunded(p) ==
    /\ Conclude(p)
    /\ UNCHANGED <<documents, paystack, history>>

\* Applying a charge throws after the step at which p is: the catch refunds.
Throw(p) ==
    /\ handlers' = [handlers EXCEPT ![p] = Webhook("refund", handlers[p].event, None)]
    /\ UNCHANGED <<documents, paystack, history>>

\* An await inside the try rejects: a call to another service or a write.
ApplyFails(p) ==
    /\ \E step \in {"find_user", "credit", "find_company", "subscribe",
                     "write_plan", "record", "cancel_old"} : At(p, step)
    /\ faults < MaxFaults
    /\ faults' = faults + 1
    /\ cut' = cut \union {Subject(p)}
    /\ Continue(p, "refund")
    /\ UNCHANGED <<documents, paystack, retried, effects, dropped>>

\* Mutation of FindUser: the document is written before the increment.
FindUserAndRecord(p) ==
    LET u == charges[Subject(p)].user IN
    /\ At(p, "find_user")
    /\ handlers' = [handlers EXCEPT ![p] = Webhook("credit", @.event, CompanyOf[u])]
    /\ recorded' = recorded \union {Subject(p)}
    /\ UNCHANGED <<users, balance, companies, plan, paystack, history>>

\* convertZarToClaudeTokens and User.findById.
FindUser(p) ==
    LET u == charges[Subject(p)].user IN
    /\ At(p, "find_user")
    /\ handlers' = [handlers EXCEPT
                      ![p] = Webhook("credit", handlers[p].event,
                                     IF u \in users THEN CompanyOf[u] ELSE None)]
    /\ UNCHANGED <<documents, paystack, history>>

\* Mutation of Credit: $set instead of $inc.
CreditBySetting(p, tokens) ==
    LET c == Subject(p)
        u == charges[c].user IN
    /\ At(p, "credit")
    /\ IF u \in users
       THEN /\ balance' = [balance EXCEPT ![u] = tokens]
            /\ effects' = [effects EXCEPT ![c] = @ + tokens]
       ELSE UNCHANGED <<balance, effects>>
    /\ Continue(p, "record")
    /\ UNCHANGED <<users, companies, plan, recorded, paystack, retried, faults, cut,
                   dropped>>

\* Mutation of Credit: the tokens are taken away.
CreditByDeducting(p, tokens) ==
    /\ At(p, "credit")
    /\ balance' = [balance EXCEPT ![charges[Subject(p)].user] = @ - tokens]
    /\ Continue(p, "record")
    /\ UNCHANGED <<users, companies, plan, recorded, paystack, history>>

\* updateOne with $inc: atomic, and nothing when the user is gone.
Credit(p, tokens) ==
    LET c == Subject(p)
        u == charges[c].user IN
    /\ At(p, "credit")
    /\ IF u \in users
       THEN /\ balance' = [balance EXCEPT ![u] = @ + tokens]
            /\ effects' = [effects EXCEPT ![c] = @ + tokens]
       ELSE UNCHANGED <<balance, effects>>
    /\ Continue(p, "record")
    /\ UNCHANGED <<users, companies, plan, recorded, paystack, retried, faults,
                   cut, dropped>>

\* Mutation of RecordTransaction: the user is required too.
RecordTransactionOfUser(p) ==
    LET c == Subject(p) IN
    /\ At(p, "record")
    /\ IF c \in recorded \/ charges[c].user \notin users
       THEN Throw(p)
       ELSE /\ recorded' = recorded \union {c}
            /\ Conclude(p)
            /\ UNCHANGED <<users, balance, companies, plan, paystack, history>>

\* The reference is unique and the company required.
RecordTransaction(p) ==
    LET c == Subject(p) IN
    /\ At(p, "record")
    /\ IF c \in recorded \/ handlers[p].company = None
       THEN Throw(p)
       ELSE /\ recorded' = recorded \union {c}
            /\ Conclude(p)
            /\ UNCHANGED <<users, balance, companies, plan, paystack, history>>

\* Mutation of FindCompany: the plan is written, and no subscription created.
FindCompanyUnsubscribed(p) ==
    /\ At(p, "find_company")
    /\ handlers' = [handlers EXCEPT
                      ![p] = Webhook("write_plan", @.event, charges[Subject(p)].customer)]
    /\ UNCHANGED <<documents, paystack, history>>

\* getCompanyById: without a company the next line throws.
FindCompany(p) ==
    LET charge == charges[Subject(p)] IN
    /\ At(p, "find_company")
    /\ IF charge.customer \in companies
       THEN /\ handlers' = [handlers EXCEPT
                  ![p] = Webhook(IF charge.action = "new_subscription"
                                 THEN "subscribe" ELSE "write_plan",
                                 handlers[p].event, charge.customer)]
            /\ UNCHANGED <<documents, paystack, history>>
       ELSE Throw(p)

\* Without a company in its metadata a plan change writes no document.
SubscribeAtPaystack(p, s) ==
    LET c == Subject(p) IN
    /\ At(p, "subscribe")
    /\ Create(s, charges[c].customer, charges[c].plan)
    /\ effects' = [effects EXCEPT ![c] = @ + 1]
    /\ IF charges[c].action = "change_plan" THEN Conclude(p)
       ELSE Continue(p, "write_plan")
    /\ UNCHANGED <<documents, charges, refunded, retried, faults, cut, dropped>>

WritePlan(p) ==
    LET c == Subject(p)
        k == handlers[p].company IN
    /\ At(p, "write_plan")
    /\ plan' = IF k \in companies THEN [plan EXCEPT ![k] = charges[c].plan] ELSE plan
    /\ IF charges[c].action = "new_subscription"
       THEN Continue(p, "record") /\ UNCHANGED effects
       ELSE Conclude(p) /\ effects' = [effects EXCEPT ![c] = @ + 1]
    /\ UNCHANGED <<users, balance, companies, recorded, paystack, retried,
                   faults, cut, dropped>>

\* Mutation of CancelOld: an old subscription that is gone does not matter.
CancelOldIfActive(p) ==
    LET s == charges[Subject(p)].old IN
    /\ At(p, "cancel_old")
    /\ \/ Cancel(s)
       \/ /\ subscriptions[s].status # "active"
          /\ UNCHANGED <<subscriptions, sent>>
    /\ Continue(p, "subscribe")
    /\ UNCHANGED <<documents, history, charges, refunded>>

CancelOld(p) ==
    LET s == charges[Subject(p)].old IN
    /\ At(p, "cancel_old")
    /\ \/ /\ Cancel(s)
          /\ Continue(p, "subscribe")
          /\ UNCHANGED <<documents, history, charges, refunded>>
       \/ /\ subscriptions[s].status # "active"
          /\ Throw(p)

\* After a refund that fails nothing is stored and nothing is sent:
\* logPaymentError is empty.  Both are answered 200.
Refund(p) ==
    /\ At(p, "refund")
    /\ \/ /\ refunded' = refunded \union {Subject(p)}
          /\ UNCHANGED <<faults, dropped>>
       \/ /\ faults < MaxFaults
          /\ faults' = faults + 1
          /\ dropped' = dropped \union {Subject(p)}
          /\ UNCHANGED refunded
    /\ Conclude(p)
    /\ UNCHANGED <<documents, charges, subscriptions, sent, retried, effects, cut>>

\* Company.findOne by the customer's address.  Only subscription.not_renew
\* returns without an answer when nobody is found.
FindCustomer(p) ==
    LET e == handlers[p].event
        k == subscriptions[e.of].customer IN
    /\ At(p, "find_customer")
    /\ handlers' =
          [handlers EXCEPT
             ![p] = IF k \in companies
                    THEN Webhook(IF e.kind = "subscription.create"
                                 THEN "upgrade" ELSE "downgrade", e, k)
                    ELSE IF e.kind = "subscription.create"
                         THEN Webhook("answer", e, None)
                         ELSE Idle]
    /\ UNCHANGED <<documents, paystack, history>>

\* handleSubscriptionCreate and the end of the not_renew branch.
ReportPlan(p) ==
    LET k == handlers[p].company IN
    /\ At(p, "upgrade") \/ At(p, "downgrade")
    /\ plan' = IF k \notin companies THEN plan
               ELSE [plan EXCEPT ![k] = IF At(p, "downgrade") THEN "free"
                                        ELSE subscriptions[Subject(p)].plan]
    /\ Conclude(p)
    /\ UNCHANGED <<users, balance, companies, recorded, paystack, history>>

Answer(p) ==
    /\ At(p, "answer")
    /\ sent' = sent \ {handlers[p].event}
    /\ Finish(p)
    /\ UNCHANGED <<documents, history, charges, refunded, subscriptions>>

Route ==
    \/ \E u \in Users, c \in Charges : TopUp(u, c)
    \/ \E k \in Companies, n \in Plans, a \in Actions, c \in Charges :
          SubscribeUser(k, n, a, c)
    \/ \E p \in Procs, k \in Companies, old, new \in Plans, days \in DaysLeft :
          ChangePlan(p, k, old, new, days)
    \/ \E p \in Procs, k \in Companies : CancelSub(p, k)

Environment ==
    \/ \E c \in Charges : Pay(c) \/ Decline(c)
    \/ \E u \in Users : DeleteUser(u)
    \/ \E k \in Companies : DeleteCompany(k)

\* What p does next, when nothing fails.
Proceed(p) ==
    \/ CancelForChange(p)
    \/ \E s \in Subscriptions : CreateForChange(p, s) \/ SubscribeAtPaystack(p, s)
    \/ CancelSubscription(p) \/ AnswerCancelSub(p) \/ Reply(p)
    \/ FindUser(p) \/ (\E tokens \in Grants : Credit(p, tokens))
    \/ RecordTransaction(p) \/ FindCompany(p) \/ WritePlan(p)
    \/ CancelOld(p) \/ Refund(p) \/ FindCustomer(p) \/ ReportPlan(p) \/ Answer(p)

Next ==
    \/ Route
    \/ Environment
    \/ \E p \in Procs : Proceed(p) \/ Interrupt(p) \/ ApplyFails(p)
    \/ \E p \in Procs, e \in sent : Deliver(p, e)

Spec == Init /\ [][Next]_vars

\* Handlers run on, and Paystack keeps sending an event it saw no answer to.
FairSpec ==
    /\ Spec
    /\ \A p \in Procs : WF_vars(Proceed(p))
    /\ \A e \in Event : WF_vars(\E p \in Procs : Deliver(p, e))

-----------------------------------------------------------------------------
(* Properties.                                                             *)

TopUpsOf(u) == {c \in Charges : charges[c].action = "topUp" /\ charges[c].user = u}

SumOfEffects(C) == MapThenSumSet(LAMBDA c : effects[c], C)

\* A balance is what its top-ups credited, whichever webhooks overlapped: none
\* of the increments of processPaymentWebhook is lost.
BalanceIsLedger == \A u \in Users : balance[u] = SumOfEffects(TopUpsOf(u))

\* A transaction document means that the charge was applied first, whatever
\* crashed in between; only a top-up whose user vanished meanwhile is recorded
\* without a credit.
RecordedIsApplied ==
    \A c \in recorded :
        \/ effects[c] > 0
        \/ charges[c].action = "topUp" /\ charges[c].user \notin users

\* A charge is both applied and refunded only when its webhook was delivered
\* again or a call failed half-way through applying it.
SettledOnce ==
    \A c \in refunded :
        effects[c] > 0 => c \in cut \/ c \in retried

\* Changing the plan replaces a subscription: a company never has more active
\* ones than its charges for new subscriptions created, however plan changes,
\* cancellations and webhooks overlap.
ChangeReplaces ==
    \A k \in Companies :
        Cardinality(Active(k)) <=
            SumOfEffects({c \in Charges : /\ charges[c].action = "new_subscription"
                                          /\ charges[c].customer = k})

\* A company is on a paid plan only for a subscription it had, or a payment for
\* an old one; with a recorded subscription it is on the free plan only after a
\* cancellation.
PlanHasCause ==
    \A k \in Companies :
        /\ plan[k] # "free" =>
              \/ \E s \in Subscriptions : /\ subscriptions[s].customer = k
                                          /\ subscriptions[s].plan = plan[k]
              \/ \E c \in Charges : /\ charges[c].action = "old_subscription"
                                     /\ charges[c].status = "paid"
                                     /\ charges[c].customer = k
                                     /\ charges[c].plan = plan[k]
        /\ plan[k] = "free" /\ k \in companies =>
              \/ \E s \in Subscriptions : /\ subscriptions[s].customer = k
                                          /\ subscriptions[s].status = "cancelled"
              \/ \A c \in recorded : charges[c].action = "new_subscription" =>
                                         charges[c].customer # k

Settled(c) == effects[c] > 0 \/ c \in refunded \union recorded

\* The bound on the subscriptions is, or may be, reached.
FewCodesLeft ==
    Cardinality({s \in Subscriptions : subscriptions[s].status = "none"}) < 2

\* Every payment is in the end applied or refunded, though webhooks die and the
\* processing fails at any call, because a webhook that was not answered is
\* delivered again; the one payment that is neither is that whose refund failed
\* after its processing did (processPaymentWebhook).
ChargesSettle ==
    \A c \in Charges :
        charges[c].status = "paid" ~> Settled(c) \/ c \in dropped \/ FewCodesLeft

\* "Still return 200 since the subscription was canceled"
\* (pawstackController.ts:317): a cancellation is not answered with an error,
\* not even if no transaction is found (:325-329).
CancelledIsNoError == \A p \in Procs : ~ At(p, "reply_500")

-----------------------------------------------------------------------------
(* The inductive invariants of the proofs.                                 *)

\* A charge that was opened says all that applying it reads.
ChargesKnown ==
    \A c \in Charges :
        IF charges[c].status = "none" THEN charges[c] = NoCharge
        ELSE /\ charges[c].action \in Actions
             /\ charges[c].customer \in Companies
             /\ charges[c].action = "topUp" => charges[c].user \in Users
             /\ charges[c].action # "topUp" => charges[c].plan \in Plans
             /\ charges[c].action = "change_plan" =>
                   /\ charges[c].old \in Subscriptions
                   /\ subscriptions[charges[c].old].customer = charges[c].customer

SubscriptionsKnown ==
    \A s \in Subscriptions :
        IF subscriptions[s].status = "none" THEN subscriptions[s] = NoSubscription
        ELSE subscriptions[s].customer \in Companies /\ subscriptions[s].plan \in Plans

\* What Paystack reports of a charge or a subscription is and stays true.
TrueReport(e) ==
    CASE e.kind = "charge.success" -> charges[e.of].status = "paid"
      [] e.kind = "charge.failed" -> charges[e.of].status = "failed"
      [] e.kind = "subscription.create" -> subscriptions[e.of].status # "none"
      [] e.kind = "subscription.not_renew" -> subscriptions[e.of].status = "cancelled"

ReportsTrue ==
    /\ \A e \in sent : TrueReport(e)
    /\ \A p \in Procs : handlers[p].event # None => TrueReport(handlers[p].event)

\* The steps by which the webhook applies a charge.
StepsOf(action) ==
    [topUp |-> {"find_user", "credit", "record"},
     new_subscription |-> {"find_company", "subscribe", "write_plan", "record"},
     old_subscription |-> {"find_company", "write_plan"},
     change_plan |-> {"cancel_old", "subscribe"}][action]

Applying == {"find_user", "credit", "find_company", "subscribe", "write_plan",
             "record", "cancel_old"}

Reporting == {"find_customer", "upgrade", "downgrade"}

Changing == {"change_cancel", "change_create"}

Success(c) == [kind |-> "charge.success", of |-> c]

\* p applies, or refunds, a charge that Paystack says is paid.
ChargeKept(p) ==
    /\ Subject(p) \in Charges
    /\ handlers[p].event = Success(Subject(p))
    /\ ~ At(p, "refund") => handlers[p].step \in StepsOf(charges[Subject(p)].action)
    /\ /\ At(p, "subscribe") \/ At(p, "write_plan") \/ At(p, "record")
       /\ charges[Subject(p)].action \in {"new_subscription", "old_subscription"}
       => handlers[p].company = charges[Subject(p)].customer

\* p writes the plan of the customer of the subscription that was reported.
ReportKept(p) ==
    LET e == handlers[p].event IN
    /\ e.kind \in {"subscription.create", "subscription.not_renew"}
    /\ e.of \in Subscriptions
    /\ At(p, "upgrade") => e.kind = "subscription.create"
    /\ At(p, "downgrade") => e.kind = "subscription.not_renew"
    /\ ~ At(p, "find_customer") => handlers[p].company = subscriptions[e.of].customer

\* p replaces a subscription of the company that asked.
ChangeKept(p) ==
    /\ handlers[p].sub \in Subscriptions
    /\ handlers[p].company \in Companies
    /\ handlers[p].company = subscriptions[handlers[p].sub].customer
    /\ handlers[p].plan \in Plans

\* What p read, or was given, fits the step it is at.
HandlerKnows(p) ==
    /\ At(p, "idle") => handlers[p] = Idle
    /\ handlers[p].step \in Applying \union {"refund"} => ChargeKept(p)
    /\ handlers[p].step \in Reporting => ReportKept(p)
    /\ handlers[p].step \in Changing => ChangeKept(p)
    /\ At(p, "cancel") \/ At(p, "history") => handlers[p].sub \in Subscriptions
    /\ handlers[p].event # None <=>
          handlers[p].step \in Applying \union Reporting \union {"refund", "answer"}

HandlersKnow == \A p \in Procs : HandlerKnows(p)

Known ==
    /\ TypeOK
    /\ ChargesKnown
    /\ SubscriptionsKnown
    /\ ReportsTrue
    /\ HandlersKnow

Untouched(c) == effects[c] = 0 /\ c \notin refunded \union recorded

\* Nothing happens for a charge before it is paid.
UnpaidUntouched == \A c \in Charges : charges[c].status # "paid" => Untouched(c)

Subscribed(c) ==
    \E s \in Subscriptions : /\ subscriptions[s].customer = charges[c].customer
                             /\ subscriptions[s].plan = charges[c].plan

CancelledFor(k) ==
    \E s \in Subscriptions : /\ subscriptions[s].customer = k
                             /\ subscriptions[s].status = "cancelled"

Handles(p, c) == handlers[p].event = Success(c)

\* The steps of p before the one it is at left their mark.
WorkDoneAt(p, c) ==
    /\ At(p, "record") => \/ effects[c] > 0
                          \/ charges[c].action = "topUp" /\ charges[c].user \notin users
    /\ (At(p, "write_plan") \/ At(p, "record")) /\ charges[c].action = "new_subscription"
          => effects[c] > 0 /\ Subscribed(c)
    /\ At(p, "record") /\ charges[c].action = "new_subscription"
          /\ charges[c].customer \in companies /\ plan[charges[c].customer] = "free"
          => CancelledFor(charges[c].customer)

WorkDone == \A p \in Procs, c \in Charges : Handles(p, c) => WorkDoneAt(p, c)

\* What the webhook p has, and has not, done for c.
OnceAt(p, c) ==
    /\ handlers[p].step \in {"find_user", "credit", "find_company", "cancel_old",
                             "subscribe"} => Untouched(c)
    /\ At(p, "write_plan") \/ At(p, "record") => c \notin refunded \union recorded
    /\ At(p, "credit") /\ handlers[p].company = None => charges[c].user \notin users
    /\ At(p, "record") /\ handlers[p].company = None => effects[c] = 0
    /\ At(p, "refund") /\ c \notin cut => effects[c] = 0

\* A charge whose success is reported once has one webhook, and that webhook
\* alone settles it.
HandledOnce ==
    \A c \in Charges \ retried :
        /\ \A p, q \in Procs : Handles(p, c) /\ Handles(q, c) => p = q
        /\ Success(c) \in sent /\ (\A p \in Procs : ~ Handles(p, c)) => Untouched(c)
        /\ \A p \in Procs : Handles(p, c) => OnceAt(p, c)

\* The requests and webhooks that cancelled a subscription of k and have not
\* created the one that replaces it.
Owing(k) ==
    {p \in Procs : \/ At(p, "change_create") /\ handlers[p].company = k
                   \/ /\ At(p, "subscribe")
                      /\ charges[Subject(p)].action = "change_plan"
                      /\ charges[Subject(p)].customer = k}

NewChargesOf(k) == {c \in Charges : /\ charges[c].action = "new_subscription"
                                    /\ charges[c].customer = k}

Replacing ==
    \A k \in Companies :
        Cardinality(Active(k)) + Cardinality(Owing(k)) <= SumOfEffects(NewChargesOf(k))
=============================================================================
