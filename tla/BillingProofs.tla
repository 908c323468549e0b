--------------------------- MODULE BillingProofs ---------------------------
(***************************************************************************)
(* What holds of the payments for every number of users, companies,        *)
(* charges, subscriptions and webhooks in flight.                          *)
(*                                                                         *)
(* Every action is first put in the form in which the proofs read it       *)
(* (StepIs).  Known collects the types and what the handlers remember; the *)
(* other invariants are proved one on top of another: nothing happens to a *)
(* charge before it is paid, a webhook at a later step did the earlier     *)
(* ones, and a charge that is reported once has one webhook.               *)
(***************************************************************************)
EXTENDS Billing, SumLemmas

-----------------------------------------------------------------------------
(* Types.                                                                  *)

LEMMA HandlerTypes ==
    ASSUME NEW step \in Steps
    PROVE  /\ \A e \in Event \union {None}, k \in Companies \union {None} :
                 Webhook(step, e, k) \in Handler
           /\ \A k \in Companies \union {None}, s \in Subscriptions \union {None},
                 n \in Plans \union {None} : Request(step, k, s, n) \in Handler
  BY DEF Handler, Webhook, Request

LEMMA HandlerFields ==
    ASSUME NEW h \in Handler
    PROVE  /\ h.step \in Steps /\ h.event \in Event \union {None}
           /\ h.company \in Companies \union {None} /\ h.sub \in Subscriptions \union {None}
           /\ h.plan \in Plans \union {None}
  BY DEF Handler

LEMMA IdleType == Idle \in Handler
  BY HandlerTypes DEF Idle, Steps

LEMMA InitKnown == Init => Known
<1>1. SUFFICES ASSUME Init PROVE Known
  OBVIOUS
<1>2. NoCharge \in Charge /\ NoSubscription \in Subscription
  BY DEF NoCharge, NoSubscription, Charge, Subscription
<1>3. TypeOK
  BY <1>1, <1>2, IdleType, BillingAssumption DEF Init, TypeOK
<1>4. ChargesKnown /\ SubscriptionsKnown
  BY <1>1 DEF Init, ChargesKnown, SubscriptionsKnown, NoCharge, NoSubscription
<1>5. ReportsTrue
  BY <1>1 DEF Init, ReportsTrue, Idle, Request
<1>6. HandlersKnow
  BY <1>1 DEF Init, HandlersKnow, HandlerKnows, Idle, Request, At, Applying, Reporting,
              Changing
<1>7. QED
  BY <1>3, <1>4, <1>5, <1>6 DEF Known

-----------------------------------------------------------------------------
(* What the actions do to the handlers.                                    *)

\* p, and no other, goes on as h.
Moves(p, h) ==
    /\ p \in Procs /\ h \in Handler
    /\ handlers'[p] = h
    /\ \A q \in Procs : q # p => handlers'[q] = handlers[q]
    /\ handlers' \in [Procs -> Handler]

\* The handler of p, at another step.
Onward(p, x) == [step |-> x, event |-> handlers[p].event, company |-> handlers[p].company,
                 sub |-> handlers[p].sub, plan |-> handlers[p].plan]

LEMMA MovesTo ==
    ASSUME TypeOK, NEW p \in Procs, NEW h \in Handler,
           handlers' = [handlers EXCEPT ![p] = h]
    PROVE  Moves(p, h)
  BY DEF Moves, TypeOK

LEMMA ContinueMoves ==
    ASSUME TypeOK, NEW p \in Procs, NEW x \in Steps, Continue(p, x)
    PROVE  Moves(p, Onward(p, x))
<1>1. handlers[p] \in Handler
  BY DEF TypeOK
<1>2. \A h \in Handler : [h EXCEPT !.step = x]
         = [step |-> x, event |-> h.event, company |-> h.company, sub |-> h.sub,
            plan |-> h.plan]
  BY DEF Handler
<1>3. [handlers[p] EXCEPT !.step = x] = Onward(p, x)
  BY <1>1, <1>2 DEF Onward
<1>4. Onward(p, x) \in Handler
  BY <1>1, HandlerFields DEF Handler, Onward
<1>5. QED
  BY <1>3, <1>4, MovesTo DEF Continue

LEMMA ConcludeMoves ==
    ASSUME TypeOK, NEW p \in Procs, Conclude(p)
    PROVE  Moves(p, Webhook("answer", handlers[p].event, None))
<1>1. handlers[p].event \in Event \union {None}
  BY HandlerFields DEF TypeOK
<1>2. Webhook("answer", handlers[p].event, None) \in Handler
  BY <1>1, HandlerTypes DEF Steps
<1>3. QED
  BY <1>2, MovesTo DEF Conclude

LEMMA FinishMoves ==
    ASSUME TypeOK, NEW p \in Procs, Finish(p)
    PROVE  Moves(p, Idle)
  BY IdleType, MovesTo DEF Finish

LEMMA ThrowMoves ==
    ASSUME TypeOK, NEW p \in Procs, Throw(p)
    PROVE  Moves(p, Webhook("refund", handlers[p].event, None))
<1>1. handlers[p].event \in Event \union {None}
  BY HandlerFields DEF TypeOK
<1>2. Webhook("refund", handlers[p].event, None) \in Handler
  BY <1>1, HandlerTypes DEF Steps
<1>3. QED
  BY <1>2, MovesTo DEF Throw

-----------------------------------------------------------------------------
(* What is known at a step.                                                *)

\* p applies or refunds the paid charge c.
Applies(p, c) ==
    /\ p \in Procs /\ c \in Charges
    /\ Subject(p) = c /\ handlers[p].event = Success(c)
    /\ charges[c].status = "paid"
    /\ charges[c].action \in Actions
    /\ charges[c].customer \in Companies
    /\ charges[c].action = "topUp" => charges[c].user \in Users
    /\ charges[c].action # "topUp" => charges[c].plan \in Plans
    /\ charges[c].action = "change_plan" =>
          /\ charges[c].old \in Subscriptions
          /\ subscriptions[charges[c].old].customer = charges[c].customer
    /\ ~ At(p, "refund") => handlers[p].step \in StepsOf(charges[c].action)
    /\ /\ At(p, "subscribe") \/ At(p, "write_plan") \/ At(p, "record")
       /\ charges[c].action \in {"new_subscription", "old_subscription"}
       => handlers[p].company = charges[c].customer

LEMMA AppliesAt ==
    ASSUME Known, NEW p \in Procs, handlers[p].step \in Applying \union {"refund"}
    PROVE  Applies(p, Subject(p))
<1> DEFINE c == Subject(p)
<1>1. ChargeKept(p) /\ handlers[p].event # None
  BY DEF Known, HandlersKnow, HandlerKnows
<1>2. c \in Charges /\ handlers[p].event = Success(c)
  BY <1>1 DEF ChargeKept
<1>3. TrueReport(Success(c))
  BY <1>1, <1>2 DEF Known, ReportsTrue
<1>4. charges[c].status = "paid"
  BY <1>3 DEF TrueReport, Success
<1>5. QED
  BY <1>1, <1>2, <1>4 DEF Known, ChargesKnown, ChargeKept, Applies

\* Which payments reach a step.
LEMMA ActionAt ==
    ASSUME NEW p, NEW c, Applies(p, c)
    PROVE  LET action == charges[c].action IN
           /\ At(p, "find_user") \/ At(p, "credit") => action = "topUp"
           /\ At(p, "cancel_old") => action = "change_plan"
           /\ At(p, "find_company") \/ At(p, "write_plan") =>
                 action \in {"new_subscription", "old_subscription"}
           /\ At(p, "subscribe") => action \in {"new_subscription", "change_plan"}
           /\ At(p, "record") => action \in {"topUp", "new_subscription"}
<1>1. charges[c].action \in Actions /\
      (~ At(p, "refund") => handlers[p].step \in StepsOf(charges[c].action))
  BY DEF Applies
<1>2. CASE charges[c].action = "topUp"
  BY <1>1, <1>2 DEF StepsOf, At
<1>3. CASE charges[c].action = "new_subscription"
  BY <1>1, <1>3 DEF StepsOf, At
<1>4. CASE charges[c].action = "old_subscription"
  BY <1>1, <1>4 DEF StepsOf, At
<1>5. CASE charges[c].action = "change_plan"
  BY <1>1, <1>5 DEF StepsOf, At
<1>6. QED
  BY <1>1, <1>2, <1>3, <1>4, <1>5 DEF Actions

-----------------------------------------------------------------------------
(* What each action does, with what is known when it is taken: the form in *)
(* which the proofs read it.                                               *)

KeepDocuments == UNCHANGED <<users, balance, companies, plan, recorded>>
KeepPaystack  == UNCHANGED <<charges, refunded, subscriptions, sent>>
KeepHistory   == UNCHANGED <<retried, faults, effects, cut, dropped>>

Opens(c, charge) ==
    /\ c \in Charges /\ charges[c] = NoCharge
    /\ charge \in Charge /\ charge.status = "open"
    /\ charge.action \in Actions /\ charge.customer \in Companies
    /\ charge.action = "topUp" => charge.user \in Users
    /\ charge.action # "topUp" => charge.plan \in Plans
    /\ charge.action = "change_plan" =>
          /\ charge.old \in Subscriptions
          /\ subscriptions[charge.old].customer = charge.customer
    /\ charges' = [charges EXCEPT ![c] = charge]
    /\ KeepDocuments /\ KeepHistory /\ UNCHANGED <<refunded, subscriptions, sent, handlers>>

Settles(c, status, kind) ==
    /\ c \in Charges /\ charges[c].status = "open"
    /\ \/ status = "paid" /\ kind = "charge.success"
       \/ status = "failed" /\ kind = "charge.failed"
    /\ charges' = [charges EXCEPT ![c] =
                     [status |-> status, action |-> charges[c].action,
                      customer |-> charges[c].customer, user |-> charges[c].user,
                      plan |-> charges[c].plan, old |-> charges[c].old]]
    /\ sent' = sent \union {[kind |-> kind, of |-> c]}
    /\ KeepDocuments /\ KeepHistory /\ UNCHANGED <<refunded, subscriptions, handlers>>

Removes ==
    /\ users' \subseteq users /\ companies' \subseteq companies
    /\ KeepPaystack /\ KeepHistory /\ UNCHANGED <<balance, plan, recorded, handlers>>

Cancelled(s) ==
    /\ s \in Subscriptions /\ subscriptions[s].status = "active"
    /\ subscriptions' = [subscriptions EXCEPT ![s] =
                           [status |-> "cancelled", customer |-> subscriptions[s].customer,
                            plan |-> subscriptions[s].plan]]
    /\ sent' = sent \union {[kind |-> "subscription.not_renew", of |-> s]}

Created(s, k, n) ==
    /\ s \in Subscriptions /\ subscriptions[s] = NoSubscription
    /\ k \in Companies /\ n \in Plans
    /\ subscriptions' = [subscriptions EXCEPT ![s] =
                           [status |-> "active", customer |-> k, plan |-> n]]
    /\ sent' = sent \union {[kind |-> "subscription.create", of |-> s]}

Cancels(p, s) ==
    /\ Cancelled(s)
    /\ \/ /\ At(p, "change_cancel") /\ s = handlers[p].sub /\ ChangeKept(p)
          /\ Moves(p, Onward(p, "change_create"))
       \/ At(p, "cancel") /\ Moves(p, Onward(p, "history"))
       \/ /\ At(p, "cancel_old") /\ Applies(p, Subject(p)) /\ s = charges[Subject(p)].old
          /\ charges[Subject(p)].action = "change_plan"
          /\ Moves(p, Onward(p, "subscribe"))
    /\ KeepDocuments /\ KeepHistory /\ UNCHANGED <<charges, refunded>>

Replaces(p, s) ==
    /\ At(p, "change_create") /\ ChangeKept(p)
    /\ Created(s, handlers[p].company, handlers[p].plan)
    /\ Moves(p, Idle)
    /\ KeepDocuments /\ KeepHistory /\ UNCHANGED <<charges, refunded>>

Subscribes(p, s) ==
    LET c == Subject(p) IN
    /\ At(p, "subscribe") /\ Applies(p, c)
    /\ Created(s, charges[c].customer, charges[c].plan)
    /\ effects' = [effects EXCEPT ![c] = @ + 1]
    /\ \/ /\ charges[c].action = "change_plan"
          /\ Moves(p, Webhook("answer", handlers[p].event, None))
       \/ /\ charges[c].action = "new_subscription"
          /\ Moves(p, Onward(p, "write_plan"))
    /\ KeepDocuments /\ UNCHANGED <<charges, refunded, retried, faults, cut, dropped>>

\* Only the handler of p changes, to h.
Turns(p, h) == Moves(p, h) /\ KeepDocuments /\ KeepPaystack /\ KeepHistory

Asks(p) ==
    /\ At(p, "idle")
    /\ \E s \in Subscriptions :
          \/ Turns(p, Request("cancel", None, s, None))
          \/ \E k \in Companies, n \in Plans :
                /\ subscriptions[s].customer = k
                /\ Turns(p, Request("change_cancel", k, s, n))

Ends(p) ==
    /\ handlers[p].step \in Changing \union {"cancel", "history", "reply_200", "reply_500",
                                             "find_customer"}
    /\ Turns(p, Idle) \/ Turns(p, Request("reply_500", None, None, None))

FindsUser(p) ==
    LET u == charges[Subject(p)].user IN
    /\ At(p, "find_user") /\ Applies(p, Subject(p))
    /\ Turns(p, Webhook("credit", handlers[p].event,
                        IF u \in users THEN CompanyOf[u] ELSE None))

FindsCompany(p) ==
    LET c == Subject(p) IN
    /\ At(p, "find_company") /\ Applies(p, c)
    /\ Turns(p, Webhook(IF charges[c].action = "new_subscription" THEN "subscribe"
                        ELSE "write_plan", handlers[p].event, charges[c].customer))

Throws(p) ==
    LET c == Subject(p) IN
    /\ Applies(p, c)
    /\ \/ At(p, "find_company") \/ At(p, "cancel_old")
       \/ At(p, "record") /\ (c \in recorded \/ handlers[p].company = None)
    /\ Turns(p, Webhook("refund", handlers[p].event, None))

FindsCustomer(p) ==
    LET e == handlers[p].event IN
    /\ At(p, "find_customer") /\ ReportKept(p)
    /\ \/ /\ e.kind = "subscription.create"
          /\ \/ Turns(p, Webhook("upgrade", e, subscriptions[e.of].customer))
             \/ Turns(p, Webhook("answer", e, None))
       \/ /\ e.kind = "subscription.not_renew"
          /\ Turns(p, Webhook("downgrade", e, subscriptions[e.of].customer))

Credits(p) ==
    LET c == Subject(p)
        u == charges[c].user IN
    /\ At(p, "credit") /\ Applies(p, c) /\ charges[c].action = "topUp"
    /\ \/ \E tokens \in Nat \ {0} :
             /\ u \in users
             /\ balance' = [balance EXCEPT ![u] = @ + tokens]
             /\ effects' = [effects EXCEPT ![c] = @ + tokens]
       \/ u \notin users /\ UNCHANGED <<balance, effects>>
    /\ Moves(p, Onward(p, "record"))
    /\ KeepPaystack
    /\ UNCHANGED <<users, companies, plan, recorded, retried, faults, cut, dropped>>

Records(p) ==
    LET c == Subject(p) IN
    /\ At(p, "record") /\ Applies(p, c)
    /\ c \notin recorded /\ handlers[p].company # None
    /\ recorded' = recorded \union {c}
    /\ Moves(p, Webhook("answer", handlers[p].event, None))
    /\ KeepPaystack /\ KeepHistory /\ UNCHANGED <<users, balance, companies, plan>>

Writes(p) ==
    LET c == Subject(p)
        k == handlers[p].company IN
    /\ At(p, "write_plan") /\ Applies(p, c)
    /\ plan' = IF k \in companies THEN [plan EXCEPT ![k] = charges[c].plan] ELSE plan
    /\ \/ /\ charges[c].action = "new_subscription"
          /\ Moves(p, Onward(p, "record")) /\ UNCHANGED effects
       \/ /\ charges[c].action = "old_subscription"
          /\ Moves(p, Webhook("answer", handlers[p].event, None))
          /\ effects' = [effects EXCEPT ![c] = @ + 1]
    /\ KeepPaystack
    /\ UNCHANGED <<users, balance, companies, recorded, retried, faults, cut, dropped>>

Refunds(p) ==
    LET c == Subject(p) IN
    /\ At(p, "refund") /\ Applies(p, c)
    /\ refunded' = refunded \/ refunded' = refunded \union {c}
    /\ faults' \in 0 .. MaxFaults
    /\ dropped' = dropped \/ dropped' = dropped \union {c}
    /\ Moves(p, Webhook("answer", handlers[p].event, None))
    /\ KeepDocuments /\ UNCHANGED <<charges, subscriptions, sent, retried, effects, cut>>

Reports(p) ==
    LET e == handlers[p].event
        k == handlers[p].company IN
    /\ ReportKept(p) /\ k = subscriptions[e.of].customer
    /\ \/ /\ At(p, "upgrade") /\ e.kind = "subscription.create"
          /\ plan' = IF k \in companies THEN [plan EXCEPT ![k] = subscriptions[e.of].plan]
                     ELSE plan
       \/ /\ At(p, "downgrade") /\ e.kind = "subscription.not_renew"
          /\ plan' = IF k \in companies THEN [plan EXCEPT ![k] = "free"] ELSE plan
    /\ Moves(p, Webhook("answer", e, None))
    /\ KeepPaystack /\ KeepHistory /\ UNCHANGED <<users, balance, companies, recorded>>

Answers(p) ==
    /\ At(p, "answer") /\ handlers[p].event # None
    /\ sent' = sent \ {handlers[p].event}
    /\ Moves(p, Idle)
    /\ KeepDocuments /\ KeepHistory /\ UNCHANGED <<charges, refunded, subscriptions>>

Interrupts(p) ==
    /\ ~ At(p, "idle")
    /\ retried' = retried \union Repeated(handlers[p].event)
    /\ faults' \in 0 .. MaxFaults
    /\ Moves(p, Idle)
    /\ KeepDocuments /\ KeepPaystack /\ UNCHANGED <<effects, cut, dropped>>

Fails(p) ==
    /\ handlers[p].step \in Applying /\ Applies(p, Subject(p))
    /\ faults' \in 0 .. MaxFaults
    /\ cut' = cut \union {Subject(p)}
    /\ Moves(p, Onward(p, "refund"))
    /\ KeepDocuments /\ KeepPaystack /\ UNCHANGED <<retried, effects, dropped>>

Delivers(p, e) ==
    /\ At(p, "idle") /\ e \in sent /\ TrueReport(e) /\ FirstStep(e) \in Steps
    /\ Moves(p, Webhook(FirstStep(e), e, None))
    /\ \/ /\ HandledAlready(e)
          /\ faults' \in 0 .. MaxFaults
          /\ retried' = retried \union Repeated(e)
       \/ ~ HandledAlready(e) /\ UNCHANGED <<faults, retried>>
    /\ KeepDocuments /\ KeepPaystack /\ UNCHANGED <<effects, cut, dropped>>

LEMMA OpenOpens ==
    ASSUME Known, NEW c \in Charges, NEW charge, Open(c, charge), UNCHANGED handlers,
           charge \in Charge, charge.status = "open",
           charge.action \in Actions, charge.customer \in Companies,
           charge.action = "topUp" => charge.user \in Users,
           charge.action # "topUp" => charge.plan \in Plans,
           charge.action = "change_plan" =>
              /\ charge.old \in Subscriptions
              /\ subscriptions[charge.old].customer = charge.customer
    PROVE  Opens(c, charge)
<1>1. charges[c] = NoCharge
  BY DEF Known, ChargesKnown, Open
<1>2. QED
  BY <1>1 DEF Open, Opens, documents, history, KeepDocuments, KeepHistory

LEMMA TopUpIs ==
    ASSUME Known, NEW u \in Users, NEW c \in Charges, TopUp(u, c)
    PROVE  \E charge : Opens(c, charge)
<1> DEFINE charge == [status |-> "open", action |-> "topUp", customer |-> CompanyOf[u],
                      user |-> u, plan |-> None, old |-> None]
<1>1. charge \in Charge /\ CompanyOf[u] \in Companies
  BY BillingAssumption DEF Charge, Actions
<1>2. Open(c, charge) /\ UNCHANGED handlers
  BY DEF TopUp
<1>3. charge.action = "topUp" /\ charge.action \in Actions
  BY DEF Actions
<1>4. charge.status = "open" /\ charge.customer = CompanyOf[u] /\ charge.user = u
  OBVIOUS
<1>5. Opens(c, charge)
  <2> HIDE DEF charge
  <2> QED BY <1>1, <1>2, <1>3, <1>4, OpenOpens
<1>6. QED
  BY <1>5

LEMMA SubscribeUserIs ==
    ASSUME Known, NEW k \in Companies, NEW n \in Plans, NEW a \in Actions,
           NEW c \in Charges, SubscribeUser(k, n, a, c)
    PROVE  \E charge : Opens(c, charge)
<1> DEFINE charge == [status |-> "open", action |-> a, customer |-> k,
                      user |-> None, plan |-> n, old |-> None]
<1>1. charge \in Charge
  BY DEF Charge
<1>2. Open(c, charge) /\ UNCHANGED handlers /\ a \in {"new_subscription", "old_subscription"}
  BY DEF SubscribeUser
<1>3. charge.status = "open" /\ charge.action = a /\ charge.customer = k /\ charge.plan = n
  OBVIOUS
<1>4. Opens(c, charge)
  <2> HIDE DEF charge
  <2> QED BY <1>1, <1>2, <1>3, OpenOpens
<1>5. QED
  BY <1>4

LEMMA RequestMoves ==
    ASSUME TypeOK, NEW p \in Procs, NEW step \in Steps, NEW k \in Companies \union {None},
           NEW s \in Subscriptions \union {None}, NEW n \in Plans \union {None},
           handlers' = [handlers EXCEPT ![p] = Request(step, k, s, n)]
    PROVE  Moves(p, Request(step, k, s, n))
  BY HandlerTypes, MovesTo

LEMMA WebhookMoves ==
    ASSUME TypeOK, NEW p \in Procs, NEW step \in Steps, NEW e \in Event \union {None},
           NEW k \in Companies \union {None},
           handlers' = [handlers EXCEPT ![p] = Webhook(step, e, k)]
    PROVE  Moves(p, Webhook(step, e, k))
  BY HandlerTypes, MovesTo

LEMMA ChangePlanIs ==
    ASSUME Known, NEW p \in Procs, NEW k \in Companies, NEW old \in Plans,
           NEW new \in Plans, NEW days \in DaysLeft, ChangePlan(p, k, old, new, days)
    PROVE  (\E d, charge : Opens(d, charge)) \/ Asks(p)
<1>1. PICK s \in Active(k) :
          \/ /\ \E c \in Charges :
                    Open(c, [status |-> "open", action |-> "change_plan",
                             customer |-> k, user |-> None, plan |-> new, old |-> s])
             /\ UNCHANGED handlers
          \/ /\ handlers' = [handlers EXCEPT ![p] = Request("change_cancel", k, s, new)]
             /\ UNCHANGED <<documents, paystack, history>>
  BY DEF ChangePlan
<1>2. s \in Subscriptions /\ subscriptions[s].customer = k
  BY DEF Active
<1>3. ASSUME NEW c \in Charges, UNCHANGED handlers,
             Open(c, [status |-> "open", action |-> "change_plan",
                      customer |-> k, user |-> None, plan |-> new, old |-> s])
      PROVE  \E charge : Opens(c, charge)
  <2> DEFINE charge == [status |-> "open", action |-> "change_plan",
                        customer |-> k, user |-> None, plan |-> new, old |-> s]
  <2>1. charge \in Charge
    BY <1>2 DEF Charge, Actions
  <2>2. charge.status = "open" /\ charge.action = "change_plan" /\ charge.customer = k
        /\ charge.plan = new /\ charge.old = s /\ charge.action \in Actions
    BY DEF Actions
  <2>3. Open(c, charge)
    BY <1>3
  <2>4. Opens(c, charge)
    <3> HIDE DEF charge
    <3> QED BY <2>1, <2>2, <2>3, <1>2, <1>3, OpenOpens
  <2>5. QED
    BY <2>4
<1>4. ASSUME handlers' = [handlers EXCEPT ![p] = Request("change_cancel", k, s, new)],
             UNCHANGED <<documents, paystack, history>>
      PROVE  Asks(p)
  <2>1. Moves(p, Request("change_cancel", k, s, new))
    BY <1>2, <1>4, RequestMoves DEF Known, Steps
  <2>2. Turns(p, Request("change_cancel", k, s, new))
    BY <1>4, <2>1 DEF Turns, documents, paystack, history, KeepDocuments, KeepPaystack,
       KeepHistory
  <2>3. QED
    BY <1>2, <2>2 DEF ChangePlan, Asks
<1>5. QED
  BY <1>1, <1>3, <1>4

LEMMA CancelSubIs ==
    ASSUME Known, NEW p \in Procs, NEW k \in Companies, CancelSub(p, k)
    PROVE  Asks(p)
<1>1. PICK s \in Active(k) :
          handlers' = [handlers EXCEPT ![p] = Request("cancel", None, s, None)]
  BY DEF CancelSub
<1>2. s \in Subscriptions
  BY DEF Active
<1>3. Moves(p, Request("cancel", None, s, None))
  BY <1>1, <1>2, RequestMoves DEF Known, Steps
<1>4. Turns(p, Request("cancel", None, s, None))
  BY <1>3 DEF CancelSub, Turns, documents, paystack, history, KeepDocuments, KeepPaystack,
     KeepHistory
<1>5. QED
  BY <1>2, <1>4 DEF CancelSub, Asks

LEMMA SettleIs ==
    ASSUME Known, NEW c \in Charges, NEW status, NEW kind, Settle(c, status, kind),
           \/ status = "paid" /\ kind = "charge.success"
           \/ status = "failed" /\ kind = "charge.failed"
    PROVE  Settles(c, status, kind)
<1>1. charges[c] \in Charge
  BY DEF Known, TypeOK
<1>2. \A charge \in Charge : [charge EXCEPT !.status = status] =
         [status |-> status, action |-> charge.action,
          customer |-> charge.customer, user |-> charge.user,
          plan |-> charge.plan, old |-> charge.old]
  BY DEF Charge
<1>3. charges' = [charges EXCEPT ![c] = [charges[c] EXCEPT !.status = status]]
  BY DEF Settle
<1>4. QED
  BY <1>1, <1>2, <1>3 DEF Settle, Settles, documents, history, KeepDocuments, KeepHistory

LEMMA RemovesIs ==
    ASSUME (\E u \in Users : DeleteUser(u)) \/ (\E k \in Companies : DeleteCompany(k))
    PROVE  Removes
  BY DEF DeleteUser, DeleteCompany, Removes, paystack, history, KeepPaystack, KeepHistory

LEMMA CancelIs ==
    ASSUME Known, NEW s \in Subscriptions, Cancel(s)
    PROVE  Cancelled(s)
<1>1. subscriptions[s] \in Subscription
  BY DEF Known, TypeOK
<1>2. \A d \in Subscription : [d EXCEPT !.status = "cancelled"] =
         [status |-> "cancelled", customer |-> d.customer, plan |-> d.plan]
  BY DEF Subscription
<1>3. subscriptions' = [subscriptions EXCEPT ![s] =
                           [subscriptions[s] EXCEPT !.status = "cancelled"]]
  BY DEF Cancel
<1>4. QED
  BY <1>1, <1>2, <1>3 DEF Cancel, Cancelled

LEMMA CreateIs ==
    ASSUME Known, NEW s \in Subscriptions, NEW k \in Companies, NEW n \in Plans,
           Create(s, k, n)
    PROVE  Created(s, k, n)
  BY DEF Known, SubscriptionsKnown, Create, Created

LEMMA AtChanging ==
    ASSUME Known, NEW p \in Procs
    PROVE  /\ handlers[p].step \in Changing => ChangeKept(p)
           /\ At(p, "cancel") \/ At(p, "history") => handlers[p].sub \in Subscriptions
           /\ handlers[p].step \in Reporting => ReportKept(p)
  BY DEF Known, HandlersKnow, HandlerKnows

\* An action that changes the handler only.
LEMMA TurnsTo ==
    ASSUME NEW p, NEW h, Moves(p, h), UNCHANGED <<documents, paystack, history>>
    PROVE  Turns(p, h)
  BY DEF Turns, documents, paystack, history, KeepDocuments, KeepPaystack, KeepHistory

LEMMA CancelForChangeIs ==
    ASSUME Known, NEW p \in Procs, CancelForChange(p)
    PROVE  (\E s : Cancels(p, s)) \/ Ends(p)
<1>1. At(p, "change_cancel") /\ ChangeKept(p)
  BY AtChanging DEF CancelForChange, At, Changing
<1>2. CASE Cancel(handlers[p].sub) /\ Continue(p, "change_create")
  <2>1. Moves(p, Onward(p, "change_create"))
    BY <1>2, ContinueMoves DEF Known, Steps
  <2>2. Cancelled(handlers[p].sub)
    BY <1>1, <1>2, CancelIs DEF ChangeKept
  <2>3. Cancels(p, handlers[p].sub)
    BY <1>1, <2>1, <2>2 DEF Cancels, CancelForChange, documents, history, KeepDocuments,
       KeepHistory
  <2>4. QED
    BY <2>3
<1>3. CASE Finish(p) /\ UNCHANGED <<subscriptions, sent>>
  <2>1. Moves(p, Idle)
    BY <1>3, FinishMoves DEF Known
  <2>2. Turns(p, Idle)
    BY <1>3, <2>1, TurnsTo DEF CancelForChange, paystack
  <2>3. QED
    BY <1>1, <2>2 DEF Ends, At, Changing
<1>4. QED
  BY <1>2, <1>3 DEF CancelForChange

LEMMA CancelSubscriptionIs ==
    ASSUME Known, NEW p \in Procs, CancelSubscription(p)
    PROVE  (\E s : Cancels(p, s)) \/ Ends(p)
<1>1. At(p, "cancel") /\ handlers[p].sub \in Subscriptions
  BY AtChanging DEF CancelSubscription
<1>2. CASE Cancel(handlers[p].sub) /\ Continue(p, "history")
  <2>1. Moves(p, Onward(p, "history"))
    BY <1>2, ContinueMoves DEF Known, Steps
  <2>2. Cancelled(handlers[p].sub)
    BY <1>1, <1>2, CancelIs
  <2>3. Cancels(p, handlers[p].sub)
    BY <1>1, <2>1, <2>2 DEF Cancels, CancelSubscription, documents, history, KeepDocuments,
       KeepHistory
  <2>4. QED
    BY <2>3
<1>3. CASE Finish(p) /\ UNCHANGED <<subscriptions, sent>>
  <2>1. Moves(p, Idle)
    BY <1>3, FinishMoves DEF Known
  <2>2. Turns(p, Idle)
    BY <1>3, <2>1, TurnsTo DEF CancelSubscription, paystack
  <2>3. QED
    BY <1>1, <2>2 DEF Ends, At
<1>4. QED
  BY <1>2, <1>3 DEF CancelSubscription

\* No payment has a subscription for its customer.
LEMMA AnswerCancelSubIs ==
    ASSUME Known, NEW p \in Procs, AnswerCancelSub(p)
    PROVE  Ends(p)
<1>1. handlers[p].sub \in Subscriptions
  BY AtChanging DEF AnswerCancelSub
<1>2. TransactionHistory(handlers[p].sub) = {}
  <2>1. \A c \in Charges : charges[c].customer \in Companies \union {None}
    BY DEF Known, TypeOK, Charge
  <2>2. QED
    BY <1>1, <2>1, BillingAssumption DEF TransactionHistory
<1>3. /\ refunded' = refunded
      /\ handlers' = [handlers EXCEPT ![p] = Request("reply_500", None, None, None)]
  BY <1>2 DEF AnswerCancelSub
<1>4. Moves(p, Request("reply_500", None, None, None))
  BY <1>3, RequestMoves DEF Known, Steps
<1>5. Turns(p, Request("reply_500", None, None, None))
  BY <1>3, <1>4, TurnsTo DEF AnswerCancelSub, paystack
<1>6. QED
  BY <1>5 DEF AnswerCancelSub, At, Ends

LEMMA ReplyIs ==
    ASSUME Known, NEW p \in Procs, Reply(p)
    PROVE  Ends(p)
<1>1. Moves(p, Idle)
  BY FinishMoves DEF Known, Reply
<1>2. Turns(p, Idle)
  BY <1>1, TurnsTo DEF Reply
<1>3. QED
  BY <1>2 DEF Reply, At, Ends

LEMMA CreateForChangeIs ==
    ASSUME Known, NEW p \in Procs, NEW s \in Subscriptions, CreateForChange(p, s)
    PROVE  Replaces(p, s)
<1>1. At(p, "change_create") /\ ChangeKept(p)
  BY AtChanging DEF CreateForChange, At, Changing
<1>2. Created(s, handlers[p].company, handlers[p].plan)
  BY <1>1, CreateIs DEF CreateForChange, ChangeKept
<1>3. Moves(p, Idle)
  BY FinishMoves DEF Known, CreateForChange
<1>4. QED
  BY <1>1, <1>2, <1>3 DEF CreateForChange, Replaces, documents, history, KeepDocuments,
     KeepHistory

LEMMA SubscribeAtPaystackIs ==
    ASSUME Known, NEW p \in Procs, NEW s \in Subscriptions, SubscribeAtPaystack(p, s)
    PROVE  Subscribes(p, s)
<1> DEFINE c == Subject(p)
<1>1. At(p, "subscribe") /\ Applies(p, c)
  BY AppliesAt DEF SubscribeAtPaystack, At, Applying
<1>2. charges[c].action \in {"new_subscription", "change_plan"}
  BY <1>1, ActionAt
<1>3. Create(s, charges[c].customer, charges[c].plan)
  BY DEF SubscribeAtPaystack
<1>4. Created(s, charges[c].customer, charges[c].plan)
  BY <1>1, <1>2, <1>3, CreateIs DEF Applies
<1>5. CASE charges[c].action = "change_plan"
  <2>1. Moves(p, Webhook("answer", handlers[p].event, None))
    BY <1>5, ConcludeMoves DEF Known, SubscribeAtPaystack
  <2>2. QED
    BY <1>1, <1>4, <1>5, <2>1 DEF SubscribeAtPaystack, Subscribes, documents, KeepDocuments
<1>6. CASE charges[c].action = "new_subscription"
  <2>1. Moves(p, Onward(p, "write_plan"))
    BY <1>6, ContinueMoves DEF Known, Steps, SubscribeAtPaystack
  <2>2. QED
    BY <1>1, <1>4, <1>6, <2>1 DEF SubscribeAtPaystack, Subscribes, documents, KeepDocuments
<1>7. QED
  BY <1>2, <1>5, <1>6

LEMMA FindUserIs ==
    ASSUME Known, NEW p \in Procs, FindUser(p)
    PROVE  FindsUser(p)
<1> DEFINE u == charges[Subject(p)].user
           k == IF u \in users THEN CompanyOf[u] ELSE None
<1>1. At(p, "find_user") /\ Applies(p, Subject(p))
  BY AppliesAt DEF FindUser, At, Applying
<1>2. u \in Users
  BY <1>1, ActionAt DEF Applies
<1>3. k \in Companies \union {None}
  BY <1>2, BillingAssumption
<1>4. handlers[p].event \in Event \union {None}
  BY HandlerFields DEF Known, TypeOK
<1>5. handlers' = [handlers EXCEPT ![p] = Webhook("credit", handlers[p].event, k)]
  BY DEF FindUser
<1>6. Moves(p, Webhook("credit", handlers[p].event, k))
  <2> HIDE DEF k
  <2> QED BY <1>3, <1>4, <1>5, WebhookMoves DEF Known, Steps
<1>7. QED
  BY <1>1, <1>6, TurnsTo DEF FindUser, FindsUser

LEMMA FindCompanyIs ==
    ASSUME Known, NEW p \in Procs, FindCompany(p)
    PROVE  FindsCompany(p) \/ Throws(p)
<1> DEFINE c == Subject(p)
           step == IF charges[c].action = "new_subscription" THEN "subscribe"
                   ELSE "write_plan"
<1>1. At(p, "find_company") /\ Applies(p, c)
  BY AppliesAt DEF FindCompany, At, Applying
<1>2. handlers[p].event \in Event \union {None} /\ charges[c].customer \in Companies
  BY <1>1, HandlerFields DEF Known, TypeOK, Applies
<1>3. CASE charges[c].customer \in companies
  <2>1. handlers' = [handlers EXCEPT
                       ![p] = Webhook(step, handlers[p].event, charges[c].customer)]
    BY <1>3 DEF FindCompany
  <2>2. step \in Steps
    BY DEF Steps
  <2>3. Moves(p, Webhook(step, handlers[p].event, charges[c].customer))
    <3> HIDE DEF step
    <3> QED BY <1>2, <2>1, <2>2, WebhookMoves DEF Known
  <2>4. Turns(p, Webhook(step, handlers[p].event, charges[c].customer))
    <3> HIDE DEF step
    <3> QED BY <1>3, <2>3, TurnsTo DEF FindCompany
  <2>5. QED
    BY <1>1, <2>4 DEF FindsCompany
<1>4. CASE charges[c].customer \notin companies
  <2>1. Throw(p)
    BY <1>4 DEF FindCompany
  <2>2. Turns(p, Webhook("refund", handlers[p].event, None))
    BY <2>1, ThrowMoves, TurnsTo DEF Throw, Known
  <2>3. QED
    BY <1>1, <2>2 DEF Throws
<1>5. QED
  BY <1>3, <1>4

LEMMA CreditIs ==
    ASSUME Known, NEW p \in Procs, NEW tokens \in Grants, Credit(p, tokens)
    PROVE  Credits(p)
<1>1. At(p, "credit") /\ Applies(p, Subject(p))
  BY AppliesAt DEF Credit, At, Applying
<1>2. charges[Subject(p)].action = "topUp"
  BY <1>1, ActionAt
<1>3. Moves(p, Onward(p, "record"))
  BY ContinueMoves DEF Known, Steps, Credit
<1>4. tokens \in Nat \ {0}
  BY BillingAssumption
<1>5. QED
  BY <1>1, <1>2, <1>3, <1>4 DEF Credit, Credits, paystack, KeepPaystack

LEMMA RecordTransactionIs ==
    ASSUME Known, NEW p \in Procs, RecordTransaction(p)
    PROVE  Records(p) \/ Throws(p)
<1> DEFINE c == Subject(p)
<1>1. At(p, "record") /\ Applies(p, c)
  BY AppliesAt DEF RecordTransaction, At, Applying
<1>2. CASE c \in recorded \/ handlers[p].company = None
  <2>1. Throw(p)
    BY <1>2 DEF RecordTransaction
  <2>2. Turns(p, Webhook("refund", handlers[p].event, None))
    BY <2>1, ThrowMoves, TurnsTo DEF Throw, Known
  <2>3. QED
    BY <1>1, <1>2, <2>2 DEF Throws
<1>3. CASE ~ (c \in recorded \/ handlers[p].company = None)
  <2>1. Moves(p, Webhook("answer", handlers[p].event, None))
    BY <1>3, ConcludeMoves DEF Known, RecordTransaction
  <2>2. QED
    BY <1>1, <1>3, <2>1 DEF RecordTransaction, Records, paystack, history, KeepPaystack,
       KeepHistory
<1>4. QED
  BY <1>2, <1>3

LEMMA WritePlanIs ==
    ASSUME Known, NEW p \in Procs, WritePlan(p)
    PROVE  Writes(p)
<1> DEFINE c == Subject(p)
<1>1. At(p, "write_plan") /\ Applies(p, c)
  BY AppliesAt DEF WritePlan, At, Applying
<1>2. charges[c].action \in {"new_subscription", "old_subscription"}
  BY <1>1, ActionAt
<1>3. CASE charges[c].action = "new_subscription"
  <2>1. Moves(p, Onward(p, "record"))
    BY <1>3, ContinueMoves DEF Known, Steps, WritePlan
  <2>2. QED
    BY <1>1, <1>3, <2>1 DEF WritePlan, Writes, paystack, KeepPaystack
<1>4. CASE charges[c].action = "old_subscription"
  <2>1. Moves(p, Webhook("answer", handlers[p].event, None))
    BY <1>4, ConcludeMoves DEF Known, WritePlan
  <2>2. QED
    BY <1>1, <1>4, <2>1 DEF WritePlan, Writes, paystack, KeepPaystack
<1>5. QED
  BY <1>2, <1>3, <1>4

LEMMA CancelOldIs ==
    ASSUME Known, NEW p \in Procs, CancelOld(p)
    PROVE  (\E s : Cancels(p, s)) \/ Throws(p)
<1> DEFINE c == Subject(p)
<1>1. At(p, "cancel_old") /\ Applies(p, c)
  BY AppliesAt DEF CancelOld, At, Applying
<1>2. charges[c].action = "change_plan" /\ charges[c].old \in Subscriptions
  BY <1>1, ActionAt DEF Applies
<1>3. CASE Throw(p)
  <2>1. Turns(p, Webhook("refund", handlers[p].event, None))
    BY <1>3, ThrowMoves, TurnsTo DEF Throw, Known
  <2>2. QED
    BY <1>1, <2>1 DEF Throws
<1>4. CASE /\ Cancel(charges[c].old) /\ Continue(p, "subscribe")
           /\ UNCHANGED <<documents, history, charges, refunded>>
  <2>1. Moves(p, Onward(p, "subscribe"))
    BY <1>4, ContinueMoves DEF Known, Steps
  <2>2. Cancelled(charges[c].old)
    BY <1>2, <1>4, CancelIs
  <2>3. Cancels(p, charges[c].old)
    BY <1>1, <1>2, <1>4, <2>1, <2>2 DEF Cancels, documents, history, KeepDocuments,
       KeepHistory
  <2>4. QED
    BY <2>3
<1>5. QED
  BY <1>3, <1>4 DEF CancelOld

LEMMA FaultsRise ==
    ASSUME TypeOK, faults < MaxFaults, faults' = faults + 1
    PROVE  faults' \in 0 .. MaxFaults
  BY BillingAssumption DEF TypeOK

LEMMA RefundIs ==
    ASSUME Known, NEW p \in Procs, Refund(p)
    PROVE  Refunds(p)
<1>1. At(p, "refund") /\ Applies(p, Subject(p))
  BY AppliesAt DEF Refund, At
<1>2. Moves(p, Webhook("answer", handlers[p].event, None))
  BY ConcludeMoves DEF Known, Refund
<1>3. faults' \in 0 .. MaxFaults
  BY FaultsRise DEF Refund, Known, TypeOK
<1>4. QED
  BY <1>1, <1>2, <1>3 DEF Refund, Refunds, documents, KeepDocuments

LEMMA FindCustomerIs ==
    ASSUME Known, NEW p \in Procs, FindCustomer(p)
    PROVE  FindsCustomer(p) \/ Ends(p)
<1> DEFINE e == handlers[p].event
           k == subscriptions[e.of].customer
<1>1. At(p, "find_customer") /\ ReportKept(p)
  BY AtChanging DEF FindCustomer, At, Reporting
<1>2. e.kind \in {"subscription.create", "subscription.not_renew"} /\ e.of \in Subscriptions
  BY <1>1 DEF ReportKept
<1>3. e \in Event \union {None} /\ k \in Companies \union {None}
  BY <1>2, HandlerFields DEF Known, TypeOK, Subscription
<1>4. UNCHANGED <<documents, paystack, history>>
  BY DEF FindCustomer
<1>5. ASSUME NEW step \in Steps, NEW j \in Companies \union {None},
             handlers' = [handlers EXCEPT ![p] = Webhook(step, e, j)]
      PROVE  Turns(p, Webhook(step, e, j))
  BY <1>3, <1>4, <1>5, WebhookMoves, TurnsTo DEF Known
<1>6. CASE k \in companies /\ e.kind = "subscription.create"
  <2>1. handlers' = [handlers EXCEPT ![p] = Webhook("upgrade", e, k)]
    BY <1>6 DEF FindCustomer
  <2>2. Turns(p, Webhook("upgrade", e, k))
    <3> HIDE DEF e, k
    <3> QED BY <1>3, <1>5, <2>1 DEF Steps
  <2>3. QED
    BY <1>1, <1>6, <2>2 DEF FindsCustomer
<1>7. CASE k \in companies /\ e.kind = "subscription.not_renew"
  <2>1. handlers' = [handlers EXCEPT ![p] = Webhook("downgrade", e, k)]
    BY <1>7 DEF FindCustomer
  <2>2. Turns(p, Webhook("downgrade", e, k))
    <3> HIDE DEF e, k
    <3> QED BY <1>3, <1>5, <2>1 DEF Steps
  <2>3. QED
    BY <1>1, <1>7, <2>2 DEF FindsCustomer
<1>8. CASE k \notin companies /\ e.kind = "subscription.create"
  <2>1. handlers' = [handlers EXCEPT ![p] = Webhook("answer", e, None)]
    BY <1>8 DEF FindCustomer
  <2>2. Turns(p, Webhook("answer", e, None))
    <3> HIDE DEF e, k
    <3> QED BY <1>3, <1>5, <2>1 DEF Steps
  <2>3. QED
    BY <1>1, <1>8, <2>2 DEF FindsCustomer
<1>9. CASE k \notin companies /\ e.kind = "subscription.not_renew"
  <2>1. handlers' = [handlers EXCEPT ![p] = Idle]
    BY <1>9 DEF FindCustomer
  <2>2. Turns(p, Idle)
    BY <1>4, <2>1, IdleType, MovesTo, TurnsTo DEF Known
  <2>3. QED
    BY <1>1, <2>2 DEF Ends, At
<1>10. QED
  BY <1>2, <1>6, <1>7, <1>8, <1>9

LEMMA ReportPlanIs ==
    ASSUME Known, NEW p \in Procs, ReportPlan(p)
    PROVE  Reports(p)
<1>1. ReportKept(p)
  BY AtChanging DEF ReportPlan, At, Reporting
<1>2. handlers[p].company = subscriptions[handlers[p].event.of].customer
  BY <1>1 DEF ReportPlan, ReportKept, At
<1>3. Moves(p, Webhook("answer", handlers[p].event, None))
  BY ConcludeMoves DEF Known, ReportPlan
<1>4. CASE At(p, "upgrade")
  BY <1>1, <1>2, <1>3, <1>4 DEF ReportPlan, Reports, ReportKept, At, Subject, paystack,
     history, KeepPaystack, KeepHistory
<1>5. CASE At(p, "downgrade")
  BY <1>1, <1>2, <1>3, <1>5 DEF ReportPlan, Reports, ReportKept, At, Subject, paystack,
     history, KeepPaystack, KeepHistory
<1>6. QED
  BY <1>4, <1>5 DEF ReportPlan

LEMMA AnswerIs ==
    ASSUME Known, NEW p \in Procs, Answer(p)
    PROVE  Answers(p)
<1>1. At(p, "answer") /\ handlers[p].event # None
  BY DEF Known, HandlersKnow, HandlerKnows, Answer, At
<1>2. Moves(p, Idle)
  BY FinishMoves DEF Known, Answer
<1>3. QED
  BY <1>1, <1>2 DEF Answer, Answers, documents, history, KeepDocuments, KeepHistory

LEMMA InterruptIs ==
    ASSUME Known, NEW p \in Procs, Interrupt(p)
    PROVE  Interrupts(p)
<1>1. Moves(p, Idle)
  BY FinishMoves DEF Known, Interrupt
<1>2. faults' \in 0 .. MaxFaults
  BY FaultsRise DEF Interrupt, Known
<1>3. QED
  BY <1>1, <1>2 DEF Interrupt, Interrupts, documents, paystack, KeepDocuments, KeepPaystack

LEMMA ApplyFailsIs ==
    ASSUME Known, NEW p \in Procs, ApplyFails(p)
    PROVE  Fails(p)
<1>1. handlers[p].step \in Applying
  BY DEF ApplyFails, At, Applying
<1>2. Applies(p, Subject(p))
  BY <1>1, AppliesAt
<1>3. Moves(p, Onward(p, "refund"))
  BY ContinueMoves DEF Known, Steps, ApplyFails
<1>4. faults' \in 0 .. MaxFaults
  BY FaultsRise DEF ApplyFails, Known
<1>5. QED
  BY <1>1, <1>2, <1>3, <1>4 DEF ApplyFails, Fails, documents, paystack, KeepDocuments,
     KeepPaystack

\* A webhook begins with the step of the action that was paid.
LEMMA FirstStepIs ==
    ASSUME Known, NEW e \in Event, TrueReport(e)
    PROVE  /\ e.kind = "charge.success" =>
                 LET action == charges[e.of].action IN
                 /\ e = Success(e.of) /\ e.of \in Charges /\ action \in Actions
                 /\ action = "topUp" => FirstStep(e) = "find_user"
                 /\ action \in {"new_subscription", "old_subscription"} =>
                       FirstStep(e) = "find_company"
                 /\ action = "change_plan" => FirstStep(e) = "cancel_old"
           /\ e.kind = "charge.failed" => FirstStep(e) = "answer"
           /\ e.kind \in {"subscription.create", "subscription.not_renew"} =>
                 e.of \in Subscriptions /\ FirstStep(e) = "find_customer"
           /\ e.kind \in Kinds
<1>1. CASE e.kind = "charge.success"
  <2>1. e.of \in Charges /\ e = Success(e.of)
    BY <1>1 DEF Event, Success
  <2>2. charges[e.of].status = "paid"
    BY <1>1 DEF TrueReport
  <2>3. charges[e.of].action \in Actions
    BY <2>1, <2>2 DEF Known, ChargesKnown
  <2>4. FirstStep(e) = [topUp |-> "find_user", new_subscription |-> "find_company",
                        old_subscription |-> "find_company",
                        change_plan |-> "cancel_old"][charges[e.of].action]
    BY <1>1 DEF FirstStep
  <2>5. QED
    BY <1>1, <2>1, <2>3, <2>4 DEF Actions, Kinds
<1>2. CASE e.kind # "charge.success"
  BY <1>2 DEF FirstStep, Event, Kinds
<1>3. QED
  BY <1>1, <1>2

LEMMA DeliverIs ==
    ASSUME Known, NEW p \in Procs, NEW e \in sent, Deliver(p, e)
    PROVE  Delivers(p, e)
<1>1. e \in Event /\ TrueReport(e)
  BY DEF Known, TypeOK, ReportsTrue
<1>2. FirstStep(e) \in Steps
  BY <1>1, FirstStepIs DEF Kinds, Actions, Steps
<1>3. Moves(p, Webhook(FirstStep(e), e, None))
  BY <1>1, <1>2, WebhookMoves DEF Deliver, Known
<1>4. CASE HandledAlready(e)
  BY <1>1, <1>2, <1>3, <1>4, FaultsRise DEF Deliver, Delivers, documents, paystack,
     KeepDocuments, KeepPaystack, Known
<1>5. CASE ~ HandledAlready(e)
  BY <1>1, <1>2, <1>3, <1>5 DEF Deliver, Delivers, documents, paystack,
     KeepDocuments, KeepPaystack, Known
<1>6. QED
  BY <1>4, <1>5

\* Every step, in that form.
LEMMA StepIs ==
    ASSUME Known, Next
    PROVE  \/ \E d, charge : Opens(d, charge)
           \/ \E d, status, kind : Settles(d, status, kind)
           \/ Removes
           \/ \E p \in Procs : \E s : Cancels(p, s) \/ Replaces(p, s) \/ Subscribes(p, s)
           \/ \E p \in Procs : \/ Asks(p) \/ Ends(p) \/ FindsUser(p) \/ FindsCompany(p)
                               \/ Throws(p) \/ FindsCustomer(p) \/ Credits(p) \/ Records(p)
                               \/ Writes(p) \/ Refunds(p) \/ Reports(p) \/ Answers(p)
                               \/ Interrupts(p) \/ Fails(p)
           \/ \E p \in Procs, e \in sent : Delivers(p, e)
<1>1. CASE Route
  BY <1>1, TopUpIs, SubscribeUserIs, ChangePlanIs, CancelSubIs DEF Route
<1>2. CASE Environment
  <2>1. ASSUME NEW c \in Charges, Pay(c) \/ Decline(c)
        PROVE  \E status, kind : Settles(c, status, kind)
    BY <2>1, SettleIs DEF Pay, Decline
  <2>2. QED
    BY <1>2, <2>1, RemovesIs DEF Environment
<1>3. ASSUME NEW p \in Procs, Proceed(p)
      PROVE  \/ \E s : Cancels(p, s) \/ Replaces(p, s) \/ Subscribes(p, s)
             \/ Ends(p) \/ FindsUser(p) \/ FindsCompany(p) \/ Throws(p)
             \/ FindsCustomer(p) \/ Credits(p) \/ Records(p) \/ Writes(p) \/ Refunds(p)
             \/ Reports(p) \/ Answers(p)
  <2>1. \/ CancelForChange(p) \/ CancelSubscription(p) \/ AnswerCancelSub(p) \/ Reply(p)
        \/ \E s \in Subscriptions : CreateForChange(p, s) \/ SubscribeAtPaystack(p, s)
        \/ FindUser(p) \/ (\E tokens \in Grants : Credit(p, tokens))
        \/ RecordTransaction(p) \/ FindCompany(p) \/ WritePlan(p)
        \/ CancelOld(p) \/ Refund(p) \/ FindCustomer(p) \/ ReportPlan(p) \/ Answer(p)
    BY <1>3 DEF Proceed
  <2>2. CASE CancelForChange(p) \/ CancelSubscription(p) \/ AnswerCancelSub(p) \/ Reply(p)
    BY <2>2, CancelForChangeIs, CancelSubscriptionIs, AnswerCancelSubIs, ReplyIs
  <2>3. CASE \E s \in Subscriptions : CreateForChange(p, s) \/ SubscribeAtPaystack(p, s)
    BY <2>3, CreateForChangeIs, SubscribeAtPaystackIs
  <2>4. CASE FindUser(p) \/ (\E tokens \in Grants : Credit(p, tokens))
    BY <2>4, FindUserIs, CreditIs
  <2>5. CASE RecordTransaction(p) \/ FindCompany(p) \/ WritePlan(p)
    BY <2>5, RecordTransactionIs, FindCompanyIs, WritePlanIs
  <2>6. CASE CancelOld(p) \/ Refund(p) \/ FindCustomer(p)
    BY <2>6, CancelOldIs, RefundIs, FindCustomerIs
  <2>7. CASE ReportPlan(p) \/ Answer(p)
    BY <2>7, ReportPlanIs, AnswerIs
  <2>8. QED
    BY <2>1, <2>2, <2>3, <2>4, <2>5, <2>6, <2>7
<1>4. ASSUME NEW p \in Procs, Interrupt(p) \/ ApplyFails(p)
      PROVE  Interrupts(p) \/ Fails(p)
  BY <1>4, InterruptIs, ApplyFailsIs
<1>5. ASSUME NEW p \in Procs, NEW e \in sent, Deliver(p, e)
      PROVE  Delivers(p, e)
  BY <1>5, DeliverIs
<1>6. QED
  BY <1>1, <1>2, <1>3, <1>4, <1>5 DEF Next

-----------------------------------------------------------------------------
(* A step keeps the types.                                                 *)

LEMMA TypeStep ==
    ASSUME Known, [Next]_vars
    PROVE  TypeOK'
<1>1. ASSUME NEW c, NEW charge, Opens(c, charge)
      PROVE  TypeOK'
  BY <1>1 DEF Opens, Known, TypeOK, KeepDocuments, KeepPaystack, KeepHistory
<1>2. ASSUME NEW c, NEW status, NEW kind, Settles(c, status, kind)
      PROVE  TypeOK'
  <2>1. charges[c] \in Charge /\ charges' = [charges EXCEPT ![c] = charges'[c]]
    BY <1>2 DEF Settles, Known, TypeOK
  <2>2. charges'[c] \in Charge
    BY <1>2, <2>1 DEF Settles, Charge
  <2>3. sent' \subseteq Event
    BY <1>2 DEF Settles, Known, TypeOK, Event
  <2>4. QED
    BY <1>2, <2>1, <2>2, <2>3 DEF Settles, Known, TypeOK, KeepDocuments, KeepPaystack,
                                  KeepHistory
<1>3. ASSUME Removes
      PROVE  TypeOK'
  BY <1>3 DEF Removes, Known, TypeOK, KeepDocuments, KeepPaystack, KeepHistory
<1>4. ASSUME NEW p \in Procs, NEW s, Cancels(p, s)
      PROVE  TypeOK'
  <2>1. subscriptions[s] \in Subscription /\ s \in Subscriptions
    BY <1>4 DEF Cancels, Cancelled, Known, TypeOK
  <2>2. subscriptions' \in [Subscriptions -> Subscription]
    BY <1>4, <2>1 DEF Cancels, Cancelled, Known, TypeOK, Subscription
  <2>3. sent' \subseteq Event
    BY <1>4 DEF Cancels, Cancelled, Known, TypeOK, Event
  <2>4. handlers' \in [Procs -> Handler]
    BY <1>4 DEF Cancels, Moves
  <2>5. QED
    BY <1>4, <2>2, <2>3, <2>4 DEF Cancels, Known, TypeOK, KeepDocuments, KeepPaystack,
                                  KeepHistory
<1>5. ASSUME NEW p \in Procs, NEW s, Replaces(p, s) \/ Subscribes(p, s)
      PROVE  TypeOK'
  <2>1. subscriptions' \in [Subscriptions -> Subscription]
    BY <1>5 DEF Replaces, Subscribes, Created, Known, TypeOK, Subscription
  <2>2. sent' \subseteq Event
    BY <1>5 DEF Replaces, Subscribes, Created, Known, TypeOK, Event
  <2>3. handlers' \in [Procs -> Handler]
    BY <1>5 DEF Replaces, Subscribes, Moves
  <2>4. effects' \in [Charges -> Nat]
    BY <1>5 DEF Replaces, Subscribes, Known, TypeOK, KeepHistory
  <2>5. QED
    BY <1>5, <2>1, <2>2, <2>3, <2>4 DEF Replaces, Subscribes, Known, TypeOK, KeepDocuments,
                                        KeepPaystack, KeepHistory
<1>6. ASSUME NEW p \in Procs, Asks(p) \/ Ends(p) \/ FindsUser(p) \/ FindsCompany(p)
                    \/ Throws(p) \/ FindsCustomer(p)
      PROVE  TypeOK'
  <2>1. PICK h : Turns(p, h)
    BY <1>6 DEF Asks, Ends, FindsUser, FindsCompany, Throws, FindsCustomer
  <2>2. QED
    BY <2>1 DEF Turns, Moves, Known, TypeOK, KeepDocuments, KeepPaystack, KeepHistory
<1>7. ASSUME NEW p \in Procs, Credits(p)
      PROVE  TypeOK'
  BY <1>7 DEF Credits, Applies, Moves, Known, TypeOK, KeepDocuments, KeepPaystack, KeepHistory
<1>8. ASSUME NEW p \in Procs, Records(p)
      PROVE  TypeOK'
  BY <1>8 DEF Records, Applies, Moves, Known, TypeOK, KeepDocuments, KeepPaystack, KeepHistory
<1>9. ASSUME NEW p \in Procs, Writes(p)
      PROVE  TypeOK'
  BY <1>9 DEF Writes, Applies, Moves, Known, TypeOK, KeepDocuments, KeepPaystack, KeepHistory
<1>10. ASSUME NEW p \in Procs, Refunds(p)
      PROVE  TypeOK'
  BY <1>10 DEF Refunds, Applies, Moves, Known, TypeOK, KeepDocuments, KeepPaystack,
               KeepHistory
<1>11. ASSUME NEW p \in Procs, Reports(p)
      PROVE  TypeOK'
  <2>1. handlers[p].event.of \in Subscriptions
    BY <1>11 DEF Reports, ReportKept
  <2>2. subscriptions[handlers[p].event.of].status # "none"
         => subscriptions[handlers[p].event.of].plan \in Plans
    BY <2>1 DEF Known, SubscriptionsKnown
  <2>3. handlers[p].event.kind = "subscription.create"
         => subscriptions[handlers[p].event.of].status # "none"
    <3>1. handlers[p].event # None
      BY <1>11 DEF Reports, Known, HandlersKnow, HandlerKnows, At, Reporting
    <3>2. QED
      BY <3>1 DEF Known, ReportsTrue, TrueReport
  <2>4. plan' \in [Companies -> Plans \union {"free"}]
    BY <1>11, <2>2, <2>3 DEF Reports, Known, TypeOK
  <2>5. QED
    BY <1>11, <2>4 DEF Reports, Moves, Known, TypeOK, KeepDocuments, KeepPaystack, KeepHistory
<1>12. ASSUME NEW p \in Procs, Answers(p)
      PROVE  TypeOK'
  BY <1>12 DEF Answers, Moves, Known, TypeOK, KeepDocuments, KeepPaystack, KeepHistory
<1>13. ASSUME NEW p \in Procs, Interrupts(p)
      PROVE  TypeOK'
  BY <1>13 DEF Interrupts, Repeated, Moves, Known, TypeOK, KeepDocuments, KeepPaystack,
               KeepHistory
<1>14. ASSUME NEW p \in Procs, Fails(p)
      PROVE  TypeOK'
  BY <1>14 DEF Fails, Applies, Moves, Known, TypeOK, KeepDocuments, KeepPaystack, KeepHistory
<1>15. ASSUME NEW p \in Procs, NEW e \in sent, Delivers(p, e)
      PROVE  TypeOK'
  BY <1>15 DEF Delivers, Repeated, Moves, Known, TypeOK, KeepDocuments, KeepPaystack,
               KeepHistory
<1>16. CASE UNCHANGED vars
  BY <1>16 DEF vars, documents, paystack, history, Known, TypeOK
<1>17. QED
  BY <1>1, <1>2, <1>3, <1>4, <1>5, <1>6, <1>7, <1>8, <1>9, <1>10, <1>11, <1>12, <1>13, <1>14,
  <1>15, <1>16, StepIs

-----------------------------------------------------------------------------
(* What a step never takes back.                                           *)

\* What a step never takes back: an opened charge keeps all but its status, and
\* stays paid or failed.
ChargesStay ==
    \A c \in Charges : charges[c].status # "none" =>
        /\ charges'[c].action = charges[c].action
        /\ charges'[c].customer = charges[c].customer
        /\ charges'[c].user = charges[c].user
        /\ charges'[c].plan = charges[c].plan
        /\ charges'[c].old = charges[c].old
        /\ charges'[c].status # "none"
        /\ charges[c].status \in {"paid", "failed"} => charges'[c].status = charges[c].status

\* A subscription keeps its customer and its plan, and stays cancelled.
SubscriptionsStay ==
    \A s \in Subscriptions : subscriptions[s].status # "none" =>
        /\ subscriptions'[s].customer = subscriptions[s].customer
        /\ subscriptions'[s].plan = subscriptions[s].plan
        /\ subscriptions'[s].status # "none"
        /\ subscriptions[s].status = "cancelled" => subscriptions'[s].status = "cancelled"

LEMMA ChargesStayStep ==
    ASSUME Known, [Next]_vars
    PROVE  ChargesStay
<1>1. ASSUME NEW c, NEW charge, Opens(c, charge)
      PROVE  ChargesStay
  BY <1>1 DEF Opens, ChargesStay, NoCharge, Known, TypeOK
<1>2. ASSUME NEW c, NEW status, NEW kind, Settles(c, status, kind)
      PROVE  ChargesStay
  BY <1>2 DEF Settles, ChargesStay, Known, TypeOK
<1>3. ASSUME Removes
      PROVE  ChargesStay
  BY <1>3 DEF Removes, ChargesStay, KeepPaystack
<1>4. ASSUME NEW p \in Procs, NEW s, Cancels(p, s) \/ Replaces(p, s) \/ Subscribes(p, s)
      PROVE  ChargesStay
  BY <1>4 DEF Cancels, Replaces, Subscribes, ChargesStay
<1>5. ASSUME NEW p \in Procs, Asks(p) \/ Ends(p) \/ FindsUser(p) \/ FindsCompany(p)
                    \/ Throws(p) \/ FindsCustomer(p) \/ Credits(p) \/ Records(p) \/ Writes(p)
                    \/ Refunds(p) \/ Reports(p) \/ Answers(p) \/ Interrupts(p) \/ Fails(p)
      PROVE  ChargesStay
  <2>1. UNCHANGED charges
    BY <1>5 DEF Asks, Ends, FindsUser, FindsCompany, Throws, FindsCustomer, Credits, Records,
                Writes, Refunds, Reports, Answers, Interrupts, Fails, Turns, KeepPaystack
  <2>2. QED
    BY <2>1 DEF ChargesStay
<1>6. ASSUME NEW p \in Procs, NEW e \in sent, Delivers(p, e)
      PROVE  ChargesStay
  BY <1>6 DEF Delivers, ChargesStay, KeepPaystack
<1>7. CASE UNCHANGED vars
  BY <1>7 DEF vars, documents, paystack, history, ChargesStay
<1>8. QED
  BY <1>1, <1>2, <1>3, <1>4, <1>5, <1>6, <1>7, StepIs

LEMMA SubscriptionsStayStep ==
    ASSUME Known, [Next]_vars
    PROVE  SubscriptionsStay
<1>1. ASSUME NEW c, NEW charge, Opens(c, charge)
      PROVE  SubscriptionsStay
  BY <1>1 DEF Opens, SubscriptionsStay
<1>2. ASSUME NEW c, NEW status, NEW kind, Settles(c, status, kind)
      PROVE  SubscriptionsStay
  BY <1>2 DEF Settles, SubscriptionsStay
<1>3. ASSUME Removes
      PROVE  SubscriptionsStay
  BY <1>3 DEF Removes, SubscriptionsStay, KeepPaystack
<1>4. ASSUME NEW p \in Procs, NEW s, Cancels(p, s)
      PROVE  SubscriptionsStay
  BY <1>4 DEF Cancels, Cancelled, SubscriptionsStay, Known, TypeOK
<1>5. ASSUME NEW p \in Procs, NEW s, Replaces(p, s) \/ Subscribes(p, s)
      PROVE  SubscriptionsStay
  BY <1>5 DEF Replaces, Subscribes, Created, NoSubscription, SubscriptionsStay, Known, TypeOK
<1>6. ASSUME NEW p \in Procs, Asks(p) \/ Ends(p) \/ FindsUser(p) \/ FindsCompany(p)
                    \/ Throws(p) \/ FindsCustomer(p) \/ Credits(p) \/ Records(p) \/ Writes(p)
                    \/ Refunds(p) \/ Reports(p) \/ Answers(p) \/ Interrupts(p) \/ Fails(p)
      PROVE  SubscriptionsStay
  <2>1. UNCHANGED subscriptions
    BY <1>6 DEF Asks, Ends, FindsUser, FindsCompany, Throws, FindsCustomer, Credits, Records,
                Writes, Refunds, Reports, Answers, Interrupts, Fails, Turns, KeepPaystack
  <2>2. QED
    BY <2>1 DEF SubscriptionsStay
<1>7. ASSUME NEW p \in Procs, NEW e \in sent, Delivers(p, e)
      PROVE  SubscriptionsStay
  BY <1>7 DEF Delivers, SubscriptionsStay, KeepPaystack
<1>8. CASE UNCHANGED vars
  BY <1>8 DEF vars, documents, paystack, history, SubscriptionsStay
<1>9. QED
  BY <1>1, <1>2, <1>3, <1>4, <1>5, <1>6, <1>7, <1>8, StepIs

LEMMA ReportStays ==
    ASSUME NEW e \in Event, TrueReport(e), ChargesStay, SubscriptionsStay
    PROVE  TrueReport(e)'
  BY DEF Event, TrueReport, ChargesStay, SubscriptionsStay

LEMMA ChargesKnownStep ==
    ASSUME Known, TypeOK', [Next]_vars
    PROVE  ChargesKnown'
<1>1. ASSUME NEW c, NEW charge, Opens(c, charge)
      PROVE  ChargesKnown'
  BY <1>1, SubscriptionsStayStep DEF Opens, Known, TypeOK, ChargesKnown, SubscriptionsKnown,
                                     NoCharge
<1>2. ASSUME NEW c, NEW status, NEW kind, Settles(c, status, kind)
      PROVE  ChargesKnown'
  BY <1>2 DEF Settles, Known, TypeOK, ChargesKnown, Actions
<1>3. ASSUME Removes
      PROVE  ChargesKnown'
  BY <1>3 DEF Removes, KeepPaystack, Known, ChargesKnown
<1>4. ASSUME NEW p \in Procs, NEW s, Cancels(p, s) \/ Replaces(p, s) \/ Subscribes(p, s)
      PROVE  ChargesKnown'
  <2>1. \A c \in Charges : charges[c].status # "none" /\ charges[c].action = "change_plan"
          => subscriptions[charges[c].old].status # "none"
    BY BillingAssumption DEF Known, ChargesKnown, SubscriptionsKnown, NoSubscription
  <2>2. SubscriptionsStay /\ UNCHANGED charges
    BY <1>4, SubscriptionsStayStep DEF Cancels, Replaces, Subscribes
  <2>3. QED
    BY <2>1, <2>2 DEF SubscriptionsStay, Known, ChargesKnown
<1>5. ASSUME NEW p \in Procs, Asks(p) \/ Ends(p) \/ FindsUser(p) \/ FindsCompany(p)
                    \/ Throws(p) \/ FindsCustomer(p) \/ Credits(p) \/ Records(p) \/ Writes(p)
                    \/ Refunds(p) \/ Reports(p) \/ Answers(p) \/ Interrupts(p) \/ Fails(p)
      PROVE  ChargesKnown'
  <2>1. UNCHANGED <<charges, subscriptions>>
    BY <1>5 DEF Asks, Ends, FindsUser, FindsCompany, Throws, FindsCustomer, Credits, Records,
                Writes, Refunds, Reports, Answers, Interrupts, Fails, Turns, KeepPaystack
  <2>2. QED
    BY <2>1 DEF Known, ChargesKnown
<1>6. ASSUME NEW p \in Procs, NEW e \in sent, Delivers(p, e)
      PROVE  ChargesKnown'
  BY <1>6 DEF Delivers, KeepPaystack, Known, ChargesKnown
<1>7. CASE UNCHANGED vars
  BY <1>7 DEF vars, documents, paystack, history, Known, ChargesKnown
<1>8. QED
  BY <1>1, <1>2, <1>3, <1>4, <1>5, <1>6, <1>7, StepIs

LEMMA SubscriptionsKnownStep ==
    ASSUME Known, TypeOK', [Next]_vars
    PROVE  SubscriptionsKnown'
<1>1. ASSUME NEW c, NEW charge, Opens(c, charge)
      PROVE  SubscriptionsKnown'
  BY <1>1 DEF Opens, Known, SubscriptionsKnown
<1>2. ASSUME NEW c, NEW status, NEW kind, Settles(c, status, kind)
      PROVE  SubscriptionsKnown'
  BY <1>2 DEF Settles, Known, SubscriptionsKnown
<1>3. ASSUME Removes
      PROVE  SubscriptionsKnown'
  BY <1>3 DEF Removes, KeepPaystack, Known, SubscriptionsKnown
<1>4. ASSUME NEW p \in Procs, NEW s, Cancels(p, s)
      PROVE  SubscriptionsKnown'
  BY <1>4 DEF Cancels, Cancelled, Known, TypeOK, SubscriptionsKnown
<1>5. ASSUME NEW p \in Procs, NEW s, Replaces(p, s) \/ Subscribes(p, s)
      PROVE  SubscriptionsKnown'
  BY <1>5 DEF Replaces, Subscribes, Created, Known, TypeOK, SubscriptionsKnown
<1>6. ASSUME NEW p \in Procs, Asks(p) \/ Ends(p) \/ FindsUser(p) \/ FindsCompany(p)
                    \/ Throws(p) \/ FindsCustomer(p) \/ Credits(p) \/ Records(p) \/ Writes(p)
                    \/ Refunds(p) \/ Reports(p) \/ Answers(p) \/ Interrupts(p) \/ Fails(p)
      PROVE  SubscriptionsKnown'
  <2>1. UNCHANGED <<charges, subscriptions>>
    BY <1>6 DEF Asks, Ends, FindsUser, FindsCompany, Throws, FindsCustomer, Credits, Records,
                Writes, Refunds, Reports, Answers, Interrupts, Fails, Turns, KeepPaystack
  <2>2. QED
    BY <2>1 DEF Known, SubscriptionsKnown
<1>7. ASSUME NEW p \in Procs, NEW e \in sent, Delivers(p, e)
      PROVE  SubscriptionsKnown'
  BY <1>7 DEF Delivers, KeepPaystack, Known, SubscriptionsKnown
<1>8. CASE UNCHANGED vars
  BY <1>8 DEF vars, documents, paystack, history, Known, SubscriptionsKnown
<1>9. QED
  BY <1>1, <1>2, <1>3, <1>4, <1>5, <1>6, <1>7, <1>8, StepIs

-----------------------------------------------------------------------------
(* What a handler knows stays true, and what it learns is true.            *)

LEMMA KnowsStays ==
    ASSUME Known, ChargesStay, SubscriptionsStay, NEW q \in Procs,
           handlers'[q] = handlers[q]
    PROVE  HandlerKnows(q)'
<1>1. HandlerKnows(q)
  BY DEF Known, HandlersKnow
<1>2. ASSUME handlers[q].step \in Applying \union {"refund"}
      PROVE  ChargeKept(q)'
  <2>1. Applies(q, Subject(q))
    BY <1>2, AppliesAt
  <2>2. ChargeKept(q)
    BY <1>1, <1>2 DEF HandlerKnows
  <2>3. /\ charges'[Subject(q)].action = charges[Subject(q)].action
        /\ charges'[Subject(q)].customer = charges[Subject(q)].customer
    BY <2>1 DEF Applies, ChargesStay
  <2>4. QED
    BY <2>2, <2>3 DEF ChargeKept, Subject, At
<1>3. ASSUME handlers[q].step \in Reporting
      PROVE  ReportKept(q)'
  <2>1. ReportKept(q) /\ handlers[q].event # None
    BY <1>1, <1>3 DEF HandlerKnows
  <2>2. TrueReport(handlers[q].event)
    BY <2>1 DEF Known, ReportsTrue
  <2>3. subscriptions[handlers[q].event.of].status # "none"
    BY <2>1, <2>2 DEF ReportKept, TrueReport
  <2>4. QED
    BY <2>1, <2>3 DEF ReportKept, SubscriptionsStay, At
<1>4. ASSUME handlers[q].step \in Changing
      PROVE  ChangeKept(q)'
  <2>1. ChangeKept(q)
    BY <1>1, <1>4 DEF HandlerKnows
  <2>2. subscriptions[handlers[q].sub].status # "none"
    BY <2>1, BillingAssumption DEF ChangeKept, Known, SubscriptionsKnown, NoSubscription
  <2>3. QED
    BY <2>1, <2>2 DEF ChangeKept, SubscriptionsStay
<1>5. QED
  BY <1>1, <1>2, <1>3, <1>4 DEF HandlerKnows, At

\* A handler that has no charge, report or subscription to remember.
LEMMA KnowsSimple ==
    ASSUME NEW p \in Procs,
           \/ handlers'[p] = Idle
           \/ handlers'[p] = Request("reply_500", None, None, None)
           \/ \E e : e # None /\ handlers'[p] = Webhook("answer", e, None)
           \/ \E s \in Subscriptions : handlers'[p] = Request("cancel", None, s, None)
    PROVE  HandlerKnows(p)'
<1> USE DEF HandlerKnows, At, Idle, Request, Webhook, Applying, Reporting, Changing
<1>1. CASE handlers'[p] = Idle \/ handlers'[p] = Request("reply_500", None, None, None)
  BY <1>1
<1>2. CASE \E e : e # None /\ handlers'[p] = Webhook("answer", e, None)
  BY <1>2
<1>3. CASE \E s \in Subscriptions : handlers'[p] = Request("cancel", None, s, None)
  BY <1>3
<1>4. QED
  BY <1>1, <1>2, <1>3

LEMMA HandlersKnowStep ==
    ASSUME Known, TypeOK', Next
    PROVE  HandlersKnow'
<1>1. ChargesStay /\ SubscriptionsStay
  BY ChargesStayStep, SubscriptionsStayStep
<1>2. ASSUME NEW p \in Procs, HandlerKnows(p)',
             \A q \in Procs : q # p => handlers'[q] = handlers[q]
      PROVE  HandlersKnow'
  BY <1>1, <1>2, KnowsStays DEF HandlersKnow
<1>3. CASE UNCHANGED handlers
  BY <1>1, <1>3, KnowsStays DEF HandlersKnow
<1>4. ASSUME NEW p \in Procs, Applies(p, Subject(p)), Subject(p)' = Subject(p),
             handlers'[p].event = handlers[p].event,
             handlers'[p].step \in Applying \union {"refund"},
             handlers'[p].step = "refund"
                \/ handlers'[p].step \in StepsOf(charges[Subject(p)].action),
             /\ handlers'[p].step \in {"subscribe", "write_plan", "record"}
             /\ charges[Subject(p)].action \in {"new_subscription", "old_subscription"}
             => handlers'[p].company = charges[Subject(p)].customer
      PROVE  HandlerKnows(p)'
  <2>1. /\ charges'[Subject(p)].action = charges[Subject(p)].action
        /\ charges'[Subject(p)].customer = charges[Subject(p)].customer
    BY <1>1, <1>4 DEF Applies, ChargesStay
  <2>2. ChargeKept(p)'
    BY <1>4, <2>1 DEF ChargeKept, Applies, At
  <2>3. handlers'[p].event # None
    BY <1>4, NoneIsNoEvent DEF Applies, Success, Event
  <2>4. QED
    BY <1>4, <2>2, <2>3 DEF HandlerKnows, At, Applying, Reporting, Changing
<1>5. ASSUME (\E d, charge : Opens(d, charge))
                    \/ (\E d, status, kind : Settles(d, status, kind)) \/ Removes
      PROVE  HandlersKnow'
  BY <1>5, <1>3 DEF Opens, Settles, Removes
<1>6. ASSUME NEW p \in Procs, Asks(p) \/ Ends(p)
      PROVE  HandlersKnow'
  <2>1. ASSUME \/ handlers'[p] = Idle
            \/ handlers'[p] = Request("reply_500", None, None, None)
            \/ \E s \in Subscriptions : handlers'[p] = Request("cancel", None, s, None)
        PROVE  HandlerKnows(p)'
    BY <2>1, KnowsSimple
  <2>2. ASSUME \E s \in Subscriptions, k \in Companies, m \in Plans :
                /\ subscriptions[s].customer = k
                /\ Turns(p, Request("change_cancel", k, s, m))
        PROVE  HandlerKnows(p)'
    BY <2>2, BillingAssumption DEF Turns, Moves, KeepPaystack, ChangeKept, HandlerKnows, At,
       Request, Applying, Reporting, Changing
  <2>3. HandlerKnows(p)' /\ \A q \in Procs : q # p => handlers'[q] = handlers[q]
    BY <1>6, <2>1, <2>2 DEF Asks, Ends, Turns, Moves
  <2>4. QED
    BY <1>2, <2>3
<1>7. ASSUME NEW p \in Procs, NEW s, Cancels(p, s)
      PROVE  HandlersKnow'
  <2>1. CASE At(p, "change_cancel") /\ ChangeKept(p) /\ Moves(p, Onward(p, "change_create"))
    <3>1. subscriptions[handlers[p].sub].status # "none"
      BY <2>1, BillingAssumption DEF ChangeKept, Known, SubscriptionsKnown, NoSubscription
    <3>2. handlers[p].event = None
      BY <2>1 DEF Known, HandlersKnow, HandlerKnows, At, Applying, Reporting
    <3>3. ChangeKept(p)'
      BY <1>1, <2>1, <3>1 DEF ChangeKept, Moves, Onward, SubscriptionsStay
    <3>4. QED
      BY <2>1, <3>2, <3>3, <1>2 DEF Moves, HandlerKnows, At, Onward, Applying, Reporting,
                                    Changing
  <2>2. CASE At(p, "cancel") /\ Moves(p, Onward(p, "history"))
    <3>1. handlers[p].event = None /\ handlers[p].sub \in Subscriptions
      BY <2>2 DEF Known, HandlersKnow, HandlerKnows, At, Applying, Reporting
    <3>2. QED
      BY <2>2, <3>1, <1>2 DEF Moves, HandlerKnows, At, Onward, Applying, Reporting, Changing
  <2>3. CASE /\ Applies(p, Subject(p)) /\ Moves(p, Onward(p, "subscribe"))
             /\ charges[Subject(p)].action = "change_plan"
    <3>1. HandlerKnows(p)'
      BY <2>3, <1>4 DEF Moves, Onward, Subject, Applying, StepsOf
    <3>2. QED
      BY <2>3, <3>1, <1>2 DEF Moves
  <2>4. QED
    BY <1>7, <2>1, <2>2, <2>3 DEF Cancels
<1>8. ASSUME NEW p \in Procs, NEW s, Replaces(p, s)
      PROVE  HandlersKnow'
  BY <1>8, <1>2, KnowsSimple DEF Replaces, Moves
<1>9. ASSUME NEW p \in Procs, NEW s, Subscribes(p, s)
      PROVE  HandlersKnow'
  <2>1. handlers[p].event # None /\ Applies(p, Subject(p))
    BY <1>9, NoneIsNoEvent DEF Subscribes, Applies, Success, Event
  <2>2. CASE Moves(p, Webhook("answer", handlers[p].event, None))
    BY <1>2, <2>1, <2>2, KnowsSimple DEF Moves
  <2>3. CASE /\ charges[Subject(p)].action = "new_subscription"
             /\ Moves(p, Onward(p, "write_plan"))
    <3>1. handlers[p].company = charges[Subject(p)].customer
      BY <1>9, <2>1, <2>3 DEF Subscribes, Applies
    <3>2. HandlerKnows(p)'
      BY <2>1, <2>3, <3>1, <1>4 DEF Moves, Onward, Subject, Applying, StepsOf
    <3>3. QED
      BY <2>3, <3>2, <1>2 DEF Moves
  <2>4. QED
    BY <1>9, <2>2, <2>3 DEF Subscribes
<1>10. ASSUME NEW p \in Procs, FindsUser(p)
      PROVE  HandlersKnow'
  <2>1. Applies(p, Subject(p)) /\ charges[Subject(p)].action = "topUp"
    BY <1>10, ActionAt DEF FindsUser
  <2>2. "credit" \in StepsOf(charges[Subject(p)].action)
    BY <2>1 DEF StepsOf
  <2>3. handlers'[p].step = "credit" /\ handlers'[p].event = handlers[p].event
    BY <1>10 DEF FindsUser, Turns, Moves, Webhook
  <2>4. HandlerKnows(p)'
    BY <2>1, <2>2, <2>3, <1>4 DEF Subject, Applying
  <2>5. QED
    BY <1>10, <2>4, <1>2 DEF FindsUser, Turns, Moves
<1>11. ASSUME NEW p \in Procs, FindsCompany(p)
      PROVE  HandlersKnow'
  <2>1. /\ Applies(p, Subject(p))
        /\ charges[Subject(p)].action \in {"new_subscription", "old_subscription"}
    BY <1>11, ActionAt DEF FindsCompany
  <2>2. HandlerKnows(p)'
    BY <1>11, <2>1, <1>4 DEF FindsCompany, Turns, Moves, Webhook, Subject, Applying, StepsOf
  <2>3. QED
    BY <1>11, <2>2, <1>2 DEF FindsCompany, Turns, Moves
<1>12. ASSUME NEW p \in Procs, Throws(p)
      PROVE  HandlersKnow'
  <2>1. HandlerKnows(p)'
    BY <1>12, <1>4 DEF Throws, Turns, Moves, Webhook, Subject, Applying
  <2>2. QED
    BY <1>12, <2>1, <1>2 DEF Throws, Turns, Moves
<1>13. ASSUME NEW p \in Procs, FindsCustomer(p)
      PROVE  HandlersKnow'
  <2>1. ReportKept(p) /\ handlers[p].event # None
    BY <1>13 DEF FindsCustomer, Known, HandlersKnow, HandlerKnows, At, Reporting
  <2>2. ASSUME handlers'[p] = Webhook("answer", handlers[p].event, None)
        PROVE  HandlerKnows(p)'
    BY <2>1, <2>2, KnowsSimple
  <2>3. ASSUME /\ handlers'[p].event = handlers[p].event
             /\ handlers'[p].company = subscriptions[handlers[p].event.of].customer
             /\ \/ /\ handlers'[p].step = "upgrade"
                   /\ handlers[p].event.kind = "subscription.create"
                \/ /\ handlers'[p].step = "downgrade"
                   /\ handlers[p].event.kind = "subscription.not_renew"
             /\ UNCHANGED subscriptions
        PROVE  HandlerKnows(p)'
    BY <2>1, <2>3 DEF HandlerKnows, ReportKept, At, Applying, Reporting, Changing
  <2>4. HandlerKnows(p)'
    BY <1>13, <2>2, <2>3 DEF FindsCustomer, Turns, Moves, Webhook, KeepPaystack
  <2>5. QED
    BY <1>13, <2>4, <1>2 DEF FindsCustomer, Turns, Moves
<1>14. ASSUME NEW p \in Procs, Credits(p)
      PROVE  HandlersKnow'
  <2>1. Applies(p, Subject(p)) /\ charges[Subject(p)].action = "topUp"
    BY <1>14 DEF Credits
  <2>2. "record" \in StepsOf(charges[Subject(p)].action)
    BY <2>1 DEF StepsOf
  <2>3. handlers'[p].step = "record" /\ handlers'[p].event = handlers[p].event
    BY <1>14 DEF Credits, Moves, Onward
  <2>4. HandlerKnows(p)'
    BY <2>1, <2>2, <2>3, <1>4 DEF Subject, Applying
  <2>5. QED
    BY <1>14, <2>4, <1>2 DEF Credits, Moves
<1>15. ASSUME NEW p \in Procs, Records(p) \/ Refunds(p) \/ Reports(p)
      PROVE  HandlersKnow'
  <2>1. handlers[p].event # None
    BY <1>15, NoneIsNoEvent DEF Records, Refunds, Reports, Known, HandlersKnow, HandlerKnows,
                                At,
       Applying, Reporting
  <2>2. QED
    BY <1>15, <2>1, <1>2, KnowsSimple DEF Records, Refunds, Reports, Moves
<1>16. ASSUME NEW p \in Procs, Writes(p)
      PROVE  HandlersKnow'
  <2>1. handlers[p].event # None /\ Applies(p, Subject(p))
    BY <1>16, NoneIsNoEvent DEF Writes, Applies, Success, Event
  <2>2. CASE Moves(p, Webhook("answer", handlers[p].event, None))
    BY <1>2, <2>1, <2>2, KnowsSimple DEF Moves
  <2>3. CASE /\ charges[Subject(p)].action = "new_subscription"
             /\ Moves(p, Onward(p, "record"))
    <3>1. handlers[p].company = charges[Subject(p)].customer
      BY <1>16, <2>1, <2>3 DEF Writes, Applies
    <3>2. HandlerKnows(p)'
      BY <2>1, <2>3, <3>1, <1>4 DEF Moves, Onward, Subject, Applying, StepsOf
    <3>3. QED
      BY <2>3, <3>2, <1>2 DEF Moves
  <2>4. QED
    BY <1>16, <2>2, <2>3 DEF Writes
<1>17. ASSUME NEW p \in Procs, Answers(p) \/ Interrupts(p)
      PROVE  HandlersKnow'
  BY <1>17, <1>2, KnowsSimple DEF Answers, Interrupts, Moves
<1>18. ASSUME NEW p \in Procs, Fails(p)
      PROVE  HandlersKnow'
  <2>1. HandlerKnows(p)'
    BY <1>18, <1>4 DEF Fails, Moves, Onward, Subject, Applying
  <2>2. QED
    BY <1>18, <2>1, <1>2 DEF Fails, Moves
<1>19. ASSUME NEW p \in Procs, NEW e \in sent, Delivers(p, e)
      PROVE  HandlersKnow'
  <2>1. e \in Event /\ TrueReport(e) /\ e # None
    BY <1>19, NoneIsNoEvent DEF Delivers, Known, TypeOK
  <2>2. /\ handlers'[p] = Webhook(FirstStep(e), e, None)
        /\ UNCHANGED <<charges, subscriptions>>
    BY <1>19 DEF Delivers, Moves, KeepPaystack
  <2>3. ASSUME e.kind = "charge.success"
        PROVE  HandlerKnows(p)'
    <3>1. /\ e = Success(e.of) /\ e.of \in Charges
          /\ FirstStep(e) \in {"find_user", "find_company", "cancel_old"}
          /\ FirstStep(e) \in StepsOf(charges[e.of].action)
      BY <2>1, <2>3, FirstStepIs DEF Actions, StepsOf
    <3>2. ChargeKept(p)'
      BY <2>2, <3>1 DEF ChargeKept, Webhook, Subject, At
    <3>3. QED
      BY <2>1, <2>2, <3>1, <3>2 DEF HandlerKnows, At, Webhook, Applying, Reporting, Changing
  <2>4. ASSUME e.kind = "charge.failed"
        PROVE  HandlerKnows(p)'
    BY <2>1, <2>2, <2>4, FirstStepIs, KnowsSimple
  <2>5. ASSUME e.kind \in {"subscription.create", "subscription.not_renew"}
        PROVE  HandlerKnows(p)'
    <3>1. e.of \in Subscriptions /\ FirstStep(e) = "find_customer"
      BY <2>1, <2>5, FirstStepIs
    <3>2. ReportKept(p)'
      BY <2>2, <2>5, <3>1 DEF ReportKept, Webhook, At
    <3>3. QED
      BY <2>1, <2>2, <3>1, <3>2 DEF HandlerKnows, At, Webhook, Applying, Reporting, Changing
  <2>6. HandlerKnows(p)'
    BY <2>1, <2>3, <2>4, <2>5, FirstStepIs DEF Kinds
  <2>7. QED
    BY <1>19, <2>6, <1>2 DEF Delivers, Moves
<1>20. QED
  BY <1>5, <1>6, <1>7, <1>8, <1>9, <1>10, <1>11, <1>12, <1>13, <1>14, <1>15, <1>16, <1>17,
  <1>18, <1>19, StepIs

-----------------------------------------------------------------------------
(* What Paystack reports is, and stays, true.                              *)

\* A handler goes on with its event, drops it, or takes one that Paystack sends.
EventsMove ==
    \A q \in Procs : \/ handlers'[q].event \in {None, handlers[q].event}
                     \/ handlers'[q].event \in sent

LEMMA EventsMoveStep ==
    ASSUME Known, [Next]_vars
    PROVE  EventsMove
<1>1. ASSUME (\E d, charge : Opens(d, charge))
                    \/ (\E d, status, kind : Settles(d, status, kind)) \/ Removes
      PROVE  EventsMove
  BY <1>1 DEF Opens, Settles, Removes, EventsMove
<1>2. ASSUME NEW p \in Procs, NEW s, Cancels(p, s) \/ Replaces(p, s) \/ Subscribes(p, s)
      PROVE  EventsMove
  BY <1>2 DEF Cancels, Replaces, Subscribes, Moves, Onward, Webhook, Idle, Request, EventsMove
<1>3. ASSUME NEW p \in Procs, Asks(p) \/ Ends(p)
      PROVE  EventsMove
  <2>1. \A x, k, s, n : Request(x, k, s, n).event = None
    BY DEF Request
  <2>2. handlers'[p].event = None
    BY <1>3, <2>1 DEF Asks, Ends, Turns, Moves, Idle
  <2>3. \A q \in Procs : q # p => handlers'[q] = handlers[q]
    BY <1>3 DEF Asks, Ends, Turns, Moves
  <2>4. QED
    BY <2>2, <2>3 DEF EventsMove
<1>4. ASSUME NEW p \in Procs, FindsUser(p)
      PROVE  EventsMove
  BY <1>4 DEF FindsUser, Turns, Moves, Webhook, EventsMove
<1>5. ASSUME NEW p \in Procs, FindsCompany(p)
      PROVE  EventsMove
  BY <1>5 DEF FindsCompany, Turns, Moves, Webhook, EventsMove
<1>6. ASSUME NEW p \in Procs, Throws(p)
      PROVE  EventsMove
  BY <1>6 DEF Throws, Turns, Moves, Webhook, EventsMove
<1>7. ASSUME NEW p \in Procs, FindsCustomer(p)
      PROVE  EventsMove
  BY <1>7 DEF FindsCustomer, Turns, Moves, Webhook, EventsMove
<1>8. ASSUME NEW p \in Procs, Credits(p) \/ Records(p) \/ Writes(p) \/ Refunds(p)
                    \/ Reports(p) \/ Answers(p) \/ Interrupts(p) \/ Fails(p)
      PROVE  EventsMove
  BY <1>8 DEF Credits, Records, Writes, Refunds, Reports, Answers, Interrupts, Fails, Moves,
              Onward, Webhook, Idle, Request, EventsMove
<1>9. ASSUME NEW p \in Procs, NEW e \in sent, Delivers(p, e)
      PROVE  EventsMove
  BY <1>9 DEF Delivers, Moves, Webhook, EventsMove
<1>10. CASE UNCHANGED vars
  BY <1>10 DEF vars, documents, paystack, history, EventsMove
<1>11. QED
  BY <1>1, <1>2, <1>3, <1>4, <1>5, <1>6, <1>7, <1>8, <1>9, <1>10, StepIs

\* What is sent was sent before, or is a true report of this step.
SentMove == \A e \in sent' : e \in sent \/ TrueReport(e)'

LEMMA SentMoveStep ==
    ASSUME Known, [Next]_vars
    PROVE  SentMove
<1>1. ASSUME NEW c, NEW charge, Opens(c, charge)
      PROVE  SentMove
  BY <1>1 DEF Opens, SentMove
<1>2. ASSUME NEW c, NEW status, NEW kind, Settles(c, status, kind)
      PROVE  SentMove
  <2>1. charges'[c].status = status
    BY <1>2 DEF Settles, Known, TypeOK
  <2>2. TrueReport([kind |-> kind, of |-> c])'
    BY <1>2, <2>1 DEF Settles, TrueReport
  <2>3. QED
    BY <1>2, <2>2 DEF Settles, SentMove
<1>3. ASSUME Removes
      PROVE  SentMove
  BY <1>3 DEF Removes, KeepPaystack, SentMove
<1>4. ASSUME NEW p \in Procs, NEW s, Cancels(p, s)
      PROVE  SentMove
  <2>1. subscriptions'[s].status = "cancelled"
    BY <1>4 DEF Cancels, Cancelled, Known, TypeOK
  <2>2. TrueReport([kind |-> "subscription.not_renew", of |-> s])'
    BY <2>1 DEF TrueReport
  <2>3. QED
    BY <1>4, <2>2 DEF Cancels, Cancelled, SentMove
<1>5. ASSUME NEW p \in Procs, NEW s, Replaces(p, s) \/ Subscribes(p, s)
      PROVE  SentMove
  <2>1. subscriptions'[s].status = "active"
    BY <1>5 DEF Replaces, Subscribes, Created, Known, TypeOK
  <2>2. TrueReport([kind |-> "subscription.create", of |-> s])'
    BY <2>1 DEF TrueReport
  <2>3. QED
    BY <1>5, <2>2 DEF Replaces, Subscribes, Created, SentMove
<1>6. ASSUME NEW p \in Procs, Asks(p) \/ Ends(p) \/ FindsUser(p) \/ FindsCompany(p)
                    \/ Throws(p) \/ FindsCustomer(p)
      PROVE  SentMove
  BY <1>6 DEF Asks, Ends, FindsUser, FindsCompany, Throws, FindsCustomer, Turns, KeepPaystack,
              SentMove
<1>7. ASSUME NEW p \in Procs, Credits(p) \/ Records(p) \/ Writes(p) \/ Refunds(p)
                    \/ Reports(p) \/ Answers(p) \/ Interrupts(p) \/ Fails(p)
      PROVE  SentMove
  BY <1>7 DEF Credits, Records, Writes, Refunds, Reports, Answers, Interrupts, Fails,
              KeepPaystack, SentMove
<1>8. ASSUME NEW p \in Procs, NEW e \in sent, Delivers(p, e)
      PROVE  SentMove
  BY <1>8 DEF Delivers, KeepPaystack, SentMove
<1>9. CASE UNCHANGED vars
  BY <1>9 DEF vars, documents, paystack, history, SentMove
<1>10. QED
  BY <1>1, <1>2, <1>3, <1>4, <1>5, <1>6, <1>7, <1>8, <1>9, StepIs

LEMMA ReportsTrueStep ==
    ASSUME Known, [Next]_vars
    PROVE  ReportsTrue'
<1>1. ChargesStay /\ SubscriptionsStay /\ EventsMove /\ SentMove
  BY ChargesStayStep, SubscriptionsStayStep, EventsMoveStep, SentMoveStep
<1>2. \A e \in Event : TrueReport(e) => TrueReport(e)'
  BY <1>1, ReportStays
<1>3. \A e \in sent' : TrueReport(e)'
  BY <1>1, <1>2 DEF SentMove, Known, TypeOK, ReportsTrue
<1>4. ASSUME NEW q \in Procs, handlers'[q].event # None
      PROVE  TrueReport(handlers[q].event)'
  <2>1. CASE handlers'[q].event \in sent
    BY <1>2, <2>1 DEF Known, TypeOK, ReportsTrue
  <2>2. CASE handlers'[q].event = handlers[q].event
    <3>1. handlers[q].event \in Event \union {None}
      BY HandlerFields DEF Known, TypeOK
    <3>2. QED
      BY <1>2, <1>4, <2>2, <3>1 DEF Known, ReportsTrue
  <2>3. QED
    BY <1>1, <1>4, <2>1, <2>2 DEF EventsMove
<1>5. QED
  BY <1>3, <1>4 DEF ReportsTrue

LEMMA KnownStep ==
    ASSUME Known, [Next]_vars
    PROVE  Known'
<1>1. TypeOK' /\ ReportsTrue'
  BY TypeStep, ReportsTrueStep
<1>2. ChargesKnown' /\ SubscriptionsKnown'
  BY <1>1, ChargesKnownStep, SubscriptionsKnownStep
<1>3. HandlersKnow'
  <2>1. CASE UNCHANGED vars
    BY <2>1, ChargesStayStep, SubscriptionsStayStep, KnowsStays DEF HandlersKnow, vars
  <2>2. QED
    BY <1>1, <2>1, HandlersKnowStep
<1>4. QED
  BY <1>1, <1>2, <1>3 DEF Known

\* What is known holds in every state, for any users, companies, charges,
\* subscriptions, faults and webhooks in flight.
THEOREM BillingKnown == Spec => []Known
  BY InitKnown, KnownStep, PTL DEF Spec

\* Every variable has its type: a webhook finds the charge, the user, the
\* company and the subscription of its event.
THEOREM BillingTypes == Spec => []TypeOK
<1>1. Known => TypeOK
  BY DEF Known
<1>2. QED
  BY <1>1, BillingKnown, PTL

-----------------------------------------------------------------------------
(* What a charge has caused.                                               *)

SameOutcome(c) ==
    /\ effects'[c] = effects[c]
    /\ c \in refunded' <=> c \in refunded
    /\ c \in recorded' <=> c \in recorded

\* Only the step of a webhook that applies or refunds a charge changes what it
\* has caused, and nothing is taken back.
OutcomesMove ==
    /\ \A c \in Charges : \/ SameOutcome(c)
                          \/ \E p \in Procs : Applies(p, c) /\ handlers'[p] # handlers[p]
    /\ \A c \in Charges : effects'[c] >= effects[c]
    /\ recorded \subseteq recorded' /\ refunded \subseteq refunded'
    /\ retried \subseteq retried' /\ cut \subseteq cut'
    /\ users' \subseteq users /\ companies' \subseteq companies

LEMMA OutcomesMoveStep ==
    ASSUME Known, [Next]_vars
    PROVE  OutcomesMove
<1> USE DEF Known, TypeOK
<1>1. ASSUME (\E d, charge : Opens(d, charge))
                    \/ (\E d, status, kind : Settles(d, status, kind)) \/ Removes
      PROVE  OutcomesMove
  BY <1>1 DEF Opens, Settles, Removes, OutcomesMove, SameOutcome, KeepDocuments, KeepPaystack,
              KeepHistory
<1>2. ASSUME NEW p \in Procs, NEW s, Cancels(p, s) \/ Replaces(p, s)
      PROVE  OutcomesMove
  BY <1>2 DEF Cancels, Replaces, OutcomesMove, SameOutcome, KeepDocuments, KeepPaystack,
              KeepHistory
<1>3. ASSUME NEW p \in Procs, NEW s, Subscribes(p, s)
      PROVE  OutcomesMove
  <2>1. handlers'[p] # handlers[p]
    BY <1>3 DEF Subscribes, Moves, At, Onward, Webhook
  <2>2. QED
    BY <1>3, <2>1 DEF Subscribes, OutcomesMove, SameOutcome, KeepDocuments, KeepPaystack,
                      KeepHistory
<1>4. ASSUME NEW p \in Procs, Asks(p) \/ Ends(p) \/ FindsUser(p) \/ FindsCompany(p)
                    \/ Throws(p) \/ FindsCustomer(p)
      PROVE  OutcomesMove
  <2>1. KeepDocuments /\ KeepPaystack /\ KeepHistory
    BY <1>4 DEF Asks, Ends, FindsUser, FindsCompany, Throws, FindsCustomer, Turns
  <2>2. QED
    BY <2>1 DEF OutcomesMove, SameOutcome, KeepDocuments, KeepPaystack, KeepHistory
<1>5. ASSUME NEW p \in Procs, Credits(p)
      PROVE  OutcomesMove
  <2>1. handlers'[p] # handlers[p]
    BY <1>5 DEF Credits, Moves, At, Onward, Webhook
  <2>2. QED
    BY <1>5, <2>1 DEF Credits, OutcomesMove, SameOutcome, KeepDocuments, KeepPaystack,
                      KeepHistory
<1>6. ASSUME NEW p \in Procs, Records(p)
      PROVE  OutcomesMove
  <2>1. handlers'[p] # handlers[p]
    BY <1>6 DEF Records, Moves, At, Onward, Webhook
  <2>2. QED
    BY <1>6, <2>1 DEF Records, OutcomesMove, SameOutcome, KeepDocuments, KeepPaystack,
                      KeepHistory
<1>7. ASSUME NEW p \in Procs, Writes(p)
      PROVE  OutcomesMove
  <2>1. handlers'[p] # handlers[p]
    BY <1>7 DEF Writes, Moves, At, Onward, Webhook
  <2>2. QED
    BY <1>7, <2>1 DEF Writes, OutcomesMove, SameOutcome, KeepDocuments, KeepPaystack,
                      KeepHistory
<1>8. ASSUME NEW p \in Procs, Refunds(p)
      PROVE  OutcomesMove
  <2>1. handlers'[p] # handlers[p]
    BY <1>8 DEF Refunds, Moves, At, Onward, Webhook
  <2>2. QED
    BY <1>8, <2>1 DEF Refunds, OutcomesMove, SameOutcome, KeepDocuments, KeepPaystack,
                      KeepHistory
<1>9. ASSUME NEW p \in Procs, Reports(p)
      PROVE  OutcomesMove
  BY <1>9 DEF Reports, OutcomesMove, SameOutcome, KeepDocuments, KeepPaystack, KeepHistory
<1>10. ASSUME NEW p \in Procs, Answers(p)
      PROVE  OutcomesMove
  BY <1>10 DEF Answers, OutcomesMove, SameOutcome, KeepDocuments, KeepPaystack, KeepHistory
<1>11. ASSUME NEW p \in Procs, Interrupts(p)
      PROVE  OutcomesMove
  BY <1>11 DEF Interrupts, OutcomesMove, SameOutcome, KeepDocuments, KeepPaystack, KeepHistory
<1>12. ASSUME NEW p \in Procs, Fails(p)
      PROVE  OutcomesMove
  BY <1>12 DEF Fails, OutcomesMove, SameOutcome, KeepDocuments, KeepPaystack, KeepHistory
<1>13. ASSUME NEW p \in Procs, NEW e \in sent, Delivers(p, e)
      PROVE  OutcomesMove
  BY <1>13 DEF Delivers, OutcomesMove, SameOutcome, KeepDocuments, KeepPaystack, KeepHistory
<1>14. CASE UNCHANGED vars
  BY <1>14 DEF vars, documents, paystack, history, OutcomesMove, SameOutcome
<1>15. QED
  BY <1>1, <1>2, <1>3, <1>4, <1>5, <1>6, <1>7, <1>8, <1>9, <1>10, <1>11, <1>12, <1>13, <1>14,
  StepIs

LEMMA UnpaidUntouchedStep ==
    ASSUME Known, UnpaidUntouched, [Next]_vars
    PROVE  UnpaidUntouched'
<1>1. SUFFICES ASSUME NEW c \in Charges, charges'[c].status # "paid"
               PROVE  Untouched(c)'
  BY DEF UnpaidUntouched
<1>2. charges[c].status # "paid"
  BY <1>1, ChargesStayStep DEF ChargesStay
<1>3. Untouched(c) /\ ~ \E p \in Procs : Applies(p, c)
  BY <1>2 DEF UnpaidUntouched, Applies
<1>4. SameOutcome(c)
  BY <1>3, OutcomesMoveStep DEF OutcomesMove
<1>5. QED
  BY <1>3, <1>4 DEF SameOutcome, Untouched

-----------------------------------------------------------------------------
(* Balances.                                                               *)

LEMMA EffectsSum ==
    ASSUME NEW C
    PROVE  SumOfEffects(C) = Sum(effects, C)
  BY DEF SumOfEffects, Sum

LEMMA LedgerNext ==
    ASSUME NEW u
    PROVE  SumOfEffects(TopUpsOf(u))' = Sum(effects', TopUpsOf(u)')
  BY DEF SumOfEffects, Sum, MapThenSumSet, MapThenFoldSet

LEMMA TopUpsFinite ==
    ASSUME Known, NEW u
    PROVE  /\ TopUpsOf(u) \subseteq Charges /\ IsFiniteSet(TopUpsOf(u))
           /\ \A c \in TopUpsOf(u) : effects[c] \in Nat
  BY BillingAssumption, FS_Subset DEF TopUpsOf, Known, TypeOK

LEMMA InitLedger == Init => BalanceIsLedger
<1>1. SUFFICES ASSUME Init, NEW u \in Users PROVE balance[u] = SumOfEffects(TopUpsOf(u))
  BY DEF BalanceIsLedger
<1>2. TopUpsOf(u) = {}
  BY <1>1 DEF Init, NoCharge, TopUpsOf
<1>3. Sum(effects, TopUpsOf(u)) = 0
  BY <1>2, SumEmpty
<1>4. SumOfEffects(TopUpsOf(u)) = 0
  BY <1>3, EffectsSum
<1>5. QED
  BY <1>1, <1>4 DEF Init

\* The ledger of u follows when nothing is credited to u.
LEMMA LedgerKept ==
    ASSUME Known, BalanceIsLedger, NEW u \in Users, balance'[u] = balance[u],
           TopUpsOf(u)' = TopUpsOf(u), \A c \in TopUpsOf(u) : effects'[c] = effects[c]
    PROVE  balance'[u] = SumOfEffects(TopUpsOf(u))'
<1>1. Sum(effects, TopUpsOf(u)) = Sum(effects', TopUpsOf(u))
  BY TopUpsFinite, SumSame
<1>2. SumOfEffects(TopUpsOf(u))' = Sum(effects', TopUpsOf(u))
  BY LedgerNext
<1>3. SumOfEffects(TopUpsOf(u)) = Sum(effects, TopUpsOf(u))
  BY EffectsSum
<1>4. QED
  BY <1>1, <1>2, <1>3 DEF BalanceIsLedger

LEMMA LedgerStep ==
    ASSUME Known, UnpaidUntouched, BalanceIsLedger, [Next]_vars
    PROVE  BalanceIsLedger'
<1> SUFFICES ASSUME NEW u \in Users
             PROVE  balance'[u] = SumOfEffects(TopUpsOf(u))'
  BY DEF BalanceIsLedger
<1>1. ASSUME NEW c, NEW charge, Opens(c, charge)
      PROVE  balance'[u] = SumOfEffects(TopUpsOf(u))'
  <2>1. UNCHANGED <<balance, effects>>
    BY <1>1 DEF Opens, KeepDocuments, KeepHistory
  <2>2. effects[c] = 0 /\ c \in Charges /\ c \notin TopUpsOf(u)
    BY <1>1 DEF Opens, NoCharge, UnpaidUntouched, Untouched, TopUpsOf
  <2>3. CASE TopUpsOf(u)' = TopUpsOf(u)
    BY <2>1, <2>3, LedgerKept
  <2>4. CASE TopUpsOf(u)' = TopUpsOf(u) \union {c}
    <3>1. Sum(effects, TopUpsOf(u) \union {c}) = Sum(effects, TopUpsOf(u))
      BY <2>2, TopUpsFinite, SumZero
    <3>2. SumOfEffects(TopUpsOf(u))' = Sum(effects, TopUpsOf(u) \union {c})
      BY <2>1, <2>4, LedgerNext
    <3>3. SumOfEffects(TopUpsOf(u)) = Sum(effects, TopUpsOf(u))
      BY EffectsSum
    <3>4. QED
      BY <2>1, <3>1, <3>2, <3>3 DEF BalanceIsLedger
  <2>5. TopUpsOf(u)' \in {TopUpsOf(u), TopUpsOf(u) \union {c}}
    BY <1>1 DEF Opens, TopUpsOf, NoCharge, Known, TypeOK
  <2>6. QED
    BY <2>3, <2>4, <2>5
<1>2. ASSUME NEW c, NEW status, NEW kind, Settles(c, status, kind)
      PROVE  balance'[u] = SumOfEffects(TopUpsOf(u))'
  <2>1. UNCHANGED <<balance, effects>>
    BY <1>2 DEF Settles, KeepDocuments, KeepHistory
  <2>2. TopUpsOf(u)' = TopUpsOf(u)
    BY <1>2 DEF Settles, TopUpsOf, Known, TypeOK
  <2>3. QED
    BY <2>1, <2>2, LedgerKept
<1>3. ASSUME Removes
      PROVE  balance'[u] = SumOfEffects(TopUpsOf(u))'
  <2>1. UNCHANGED <<balance, charges, effects>>
    BY <1>3 DEF Removes, KeepPaystack, KeepHistory
  <2>2. TopUpsOf(u)' = TopUpsOf(u)
    BY <2>1 DEF TopUpsOf
  <2>3. QED
    BY <2>1, <2>2, LedgerKept
<1>4. ASSUME NEW p \in Procs, NEW s, Subscribes(p, s)
      PROVE  balance'[u] = SumOfEffects(TopUpsOf(u))'
  <2>1. UNCHANGED <<balance, charges>>
    BY <1>4 DEF Subscribes, Writes, KeepDocuments, KeepPaystack
  <2>2. \A x \in TopUpsOf(u) : effects'[x] = effects[x]
    BY <1>4 DEF Subscribes, Writes, TopUpsOf, Applies, Known, TypeOK
  <2>3. TopUpsOf(u)' = TopUpsOf(u)
    BY <2>1 DEF TopUpsOf
  <2>4. QED
    BY <2>1, <2>2, <2>3, LedgerKept
<1>5. ASSUME NEW p \in Procs, Writes(p)
      PROVE  balance'[u] = SumOfEffects(TopUpsOf(u))'
  <2>1. UNCHANGED <<balance, charges>>
    BY <1>5 DEF Subscribes, Writes, KeepDocuments, KeepPaystack
  <2>2. \A x \in TopUpsOf(u) : effects'[x] = effects[x]
    BY <1>5 DEF Subscribes, Writes, TopUpsOf, Applies, Known, TypeOK
  <2>3. TopUpsOf(u)' = TopUpsOf(u)
    BY <2>1 DEF TopUpsOf
  <2>4. QED
    BY <2>1, <2>2, <2>3, LedgerKept
<1>6. ASSUME NEW p \in Procs, Credits(p)
      PROVE  balance'[u] = SumOfEffects(TopUpsOf(u))'
  <2>1. TopUpsOf(u)' = TopUpsOf(u)
    BY <1>6 DEF Credits, TopUpsOf, KeepPaystack
  <2> DEFINE c == Subject(p)
  <2>2. c \in Charges /\ charges[c].action = "topUp" /\ charges[c].user \in Users
    BY <1>6 DEF Credits, Applies
  <2>3. CASE UNCHANGED <<balance, effects>>
    BY <2>1, <2>3, LedgerKept
  <2>4. CASE charges[c].user # u
    <3>1. balance'[u] = balance[u]
      BY <1>6, <2>2, <2>4 DEF Credits, Known, TypeOK
    <3>2. \A x \in TopUpsOf(u) : effects'[x] = effects[x]
      BY <1>6, <2>2, <2>4 DEF Credits, TopUpsOf, Known, TypeOK
    <3>3. QED
      BY <2>1, <3>1, <3>2, LedgerKept
  <2>5. ASSUME NEW tokens \in Nat \ {0}, charges[c].user = u,
               balance' = [balance EXCEPT ![charges[c].user] = balance[charges[c].user] + tokens],
               effects' = [effects EXCEPT ![c] = effects[c] + tokens]
        PROVE  balance'[u] = SumOfEffects(TopUpsOf(u))'
    <3> DEFINE T == TopUpsOf(u)
    <3>1. c \in T /\ T \subseteq Charges /\ IsFiniteSet(T)
      BY <2>2, <2>5, TopUpsFinite DEF TopUpsOf
    <3>2. effects \in [Charges -> Nat] /\ balance \in [Users -> Nat]
      BY DEF Known, TypeOK
    <3>3. balance[u] = Sum(effects, T)
      BY EffectsSum DEF BalanceIsLedger
    <3>4. SumOfEffects(TopUpsOf(u))' = Sum(effects', T)
      BY <2>1, LedgerNext
    <3> HIDE DEF T, c
    <3>5. /\ effects'[c] = effects[c] + tokens
          /\ \A x \in T : effects[x] \in Nat /\ effects'[x] \in Nat
          /\ \A x \in T \ {c} : effects[x] = effects'[x]
      BY <2>5, <3>1, <3>2
    <3>6. Sum(effects', T) = Sum(effects, T) - effects[c] + effects'[c]
      BY <3>1, <3>5, SumChange
    <3>7. balance'[u] = balance[u] + tokens
      BY <2>5, <3>2
    <3>8. balance[u] \in Nat /\ effects[c] \in Nat
      BY <3>1, <3>2
    <3>9. QED
      BY <2>5, <3>3, <3>4, <3>5, <3>6, <3>7, <3>8
  <2>6. \/ UNCHANGED <<balance, effects>>
        \/ \E tokens \in Nat \ {0} :
              /\ balance' = [balance EXCEPT ![charges[c].user] = balance[charges[c].user] + tokens]
              /\ effects' = [effects EXCEPT ![c] = effects[c] + tokens]
    BY <1>6 DEF Credits
  <2>7. QED
    <3> HIDE DEF c
    <3> QED BY <2>3, <2>4, <2>5, <2>6
<1>7. ASSUME NEW p \in Procs, NEW s, Cancels(p, s) \/ Replaces(p, s) \/ Asks(p) \/ Ends(p)
                    \/ FindsUser(p) \/ FindsCompany(p) \/ Throws(p) \/ FindsCustomer(p)
                    \/ Records(p) \/ Refunds(p) \/ Reports(p) \/ Answers(p) \/ Interrupts(p)
                    \/ Fails(p)
      PROVE  balance'[u] = SumOfEffects(TopUpsOf(u))'
  <2>1. UNCHANGED <<balance, charges, effects>>
    BY <1>7 DEF Cancels, Replaces, Asks, Ends, FindsUser, FindsCompany, Throws, FindsCustomer,
                Records, Refunds, Reports, Answers, Interrupts, Fails, Turns, KeepDocuments,
                KeepPaystack, KeepHistory
  <2>2. TopUpsOf(u)' = TopUpsOf(u)
    BY <2>1 DEF TopUpsOf
  <2>3. QED
    BY <2>1, <2>2, LedgerKept
<1>8. ASSUME NEW p \in Procs, NEW e \in sent, Delivers(p, e)
      PROVE  balance'[u] = SumOfEffects(TopUpsOf(u))'
  <2>1. UNCHANGED <<balance, charges, effects>>
    BY <1>8 DEF Delivers, KeepDocuments, KeepPaystack, KeepHistory
  <2>2. TopUpsOf(u)' = TopUpsOf(u)
    BY <2>1 DEF TopUpsOf
  <2>3. QED
    BY <2>1, <2>2, LedgerKept
<1>9. CASE UNCHANGED vars
  <2>1. UNCHANGED <<balance, charges, effects>>
    BY <1>9 DEF vars, documents, paystack, history
  <2>2. TopUpsOf(u)' = TopUpsOf(u)
    BY <2>1 DEF TopUpsOf
  <2>3. QED
    BY <2>1, <2>2, LedgerKept
<1>10. QED
  BY <1>1, <1>2, <1>3, <1>4, <1>5, <1>6, <1>7, <1>8, <1>9, StepIs

-----------------------------------------------------------------------------
(* Transaction documents.                                                  *)

\* A company goes back to the free plan only when a subscription was cancelled.
PlanFreed ==
    \A k \in Companies : plan'[k] = "free" /\ plan[k] # "free" => CancelledFor(k)

LEMMA PlanFreedStep ==
    ASSUME Known, [Next]_vars
    PROVE  PlanFreed
<1>1. ASSUME (\E d, charge : Opens(d, charge))
                    \/ (\E d, status, kind : Settles(d, status, kind)) \/ Removes
      PROVE  PlanFreed
  BY <1>1 DEF Opens, Settles, Removes, PlanFreed, KeepDocuments
<1>2. ASSUME NEW p \in Procs, Asks(p) \/ Ends(p) \/ FindsUser(p) \/ FindsCompany(p)
                    \/ Throws(p) \/ FindsCustomer(p)
      PROVE  PlanFreed
  BY <1>2 DEF Asks, Ends, FindsUser, FindsCompany, Throws, FindsCustomer, Turns, PlanFreed,
              KeepDocuments
<1>3. ASSUME NEW p \in Procs, NEW s, Cancels(p, s) \/ Replaces(p, s) \/ Subscribes(p, s)
                    \/ Credits(p) \/ Records(p) \/ Refunds(p) \/ Answers(p) \/ Interrupts(p)
                    \/ Fails(p)
      PROVE  PlanFreed
  BY <1>3 DEF Cancels, Replaces, Subscribes, Credits, Records, Refunds, Answers, Interrupts,
              Fails, PlanFreed, KeepDocuments
<1>4. ASSUME NEW p \in Procs, Writes(p)
      PROVE  PlanFreed
  <2>1. charges[Subject(p)].plan # "free"
    BY <1>4, BillingAssumption DEF Writes, Applies
  <2>2. QED
    BY <1>4, <2>1 DEF Writes, PlanFreed, Known, TypeOK
<1>5. ASSUME NEW p \in Procs, Reports(p)
      PROVE  PlanFreed
  <2> DEFINE e == handlers[p].event
              k == handlers[p].company
  <2>1. /\ e # None /\ e.of \in Subscriptions /\ k = subscriptions[e.of].customer
        /\ TrueReport(e)
    BY <1>5 DEF Reports, ReportKept, Known, HandlersKnow, HandlerKnows, At, Reporting,
                ReportsTrue
  <2>2. CASE e.kind = "subscription.not_renew"
    <3>1. CancelledFor(k)
      BY <2>1, <2>2 DEF TrueReport, CancelledFor
    <3>2. QED
      BY <1>5, <2>2, <3>1 DEF Reports, PlanFreed, Known, TypeOK
  <2>3. CASE e.kind = "subscription.create"
    <3>1. subscriptions[e.of].plan # "free"
      BY <2>1, <2>3, BillingAssumption DEF TrueReport, Known, SubscriptionsKnown
    <3>2. QED
      BY <1>5, <2>3, <3>1 DEF Reports, PlanFreed, Known, TypeOK
  <2>4. QED
    BY <1>5, <2>2, <2>3 DEF Reports, ReportKept
<1>6. ASSUME NEW p \in Procs, NEW e \in sent, Delivers(p, e)
      PROVE  PlanFreed
  BY <1>6 DEF Delivers, PlanFreed, KeepDocuments
<1>7. CASE UNCHANGED vars
  BY <1>7 DEF vars, documents, paystack, history, PlanFreed
<1>8. QED
  BY <1>1, <1>2, <1>3, <1>4, <1>5, <1>6, <1>7, StepIs

LEMMA CancelledStays ==
    ASSUME NEW k \in Companies, CancelledFor(k), SubscriptionsStay
    PROVE  CancelledFor(k)'
  BY DEF CancelledFor, SubscriptionsStay

LEMMA SubscribedStays ==
    ASSUME Known, NEW c \in Charges, charges[c].status = "paid",
           charges[c].customer \in Companies,
           Subscribed(c), ChargesStay, SubscriptionsStay
    PROVE  Subscribed(c)'
<1>1. PICK s \in Subscriptions : /\ subscriptions[s].customer = charges[c].customer
                                 /\ subscriptions[s].plan = charges[c].plan
  BY DEF Subscribed
<1>2. subscriptions[s].status # "none"
  BY <1>1, BillingAssumption DEF Known, SubscriptionsKnown, NoSubscription
<1>3. QED
  BY <1>1, <1>2 DEF Subscribed, ChargesStay, SubscriptionsStay

LEMMA HandlesIs ==
    ASSUME NEW p, NEW c, Handles(p, c)
    PROVE  Subject(p) = c
  BY DEF Handles, Success, Subject

LEMMA WorkStays ==
    ASSUME Known, WorkDone, [Next]_vars, NEW q \in Procs, NEW c \in Charges, Handles(q, c)',
           handlers'[q] = handlers[q]
    PROVE  WorkDoneAt(q, c)'
<1>1. Handles(q, c) /\ WorkDoneAt(q, c) /\ Subject(q) = c
  BY HandlesIs DEF Handles, WorkDone
<1>2. CASE ~ At(q, "record") /\ ~ At(q, "write_plan")
  BY <1>2 DEF WorkDoneAt, At
<1>3. CASE At(q, "record") \/ At(q, "write_plan")
  <2>1. Applies(q, c)
    BY <1>1, <1>3, AppliesAt DEF At, Applying
  <2>2. charges[c].customer \in Companies /\ charges[c].status = "paid"
    BY <2>1 DEF Applies
  <2>3. ChargesStay /\ SubscriptionsStay /\ OutcomesMove /\ PlanFreed
    BY ChargesStayStep, SubscriptionsStayStep, OutcomesMoveStep, PlanFreedStep
  <2>4. /\ charges'[c].action = charges[c].action /\ charges'[c].user = charges[c].user
        /\ charges'[c].customer = charges[c].customer
    BY <2>2, <2>3 DEF ChargesStay
  <2>5. effects[c] > 0 => effects'[c] > 0
    <3>1. effects'[c] >= effects[c] /\ effects[c] \in Nat /\ effects'[c] \in Nat
      BY <2>3, TypeStep DEF OutcomesMove, Known, TypeOK
    <3>2. QED
      BY <3>1
  <2>6. Subscribed(c) => Subscribed(c)'
    BY <2>2, <2>3, SubscribedStays
  <2>7. ASSUME CancelledFor(charges[c].customer)
        PROVE  CancelledFor(charges[c].customer)'
    BY <2>2, <2>3, <2>4, <2>7 DEF CancelledFor, SubscriptionsStay
  <2>8. users' \subseteq users /\ companies' \subseteq companies
    BY <2>3 DEF OutcomesMove
  <2>9. plan'[charges[c].customer] = "free" =>
            plan[charges[c].customer] = "free" \/ CancelledFor(charges[c].customer)
    BY <2>2, <2>3 DEF PlanFreed
  <2>10. QED
    BY <1>1, <1>3, <2>4, <2>5, <2>6, <2>7, <2>8, <2>9 DEF WorkDoneAt, At
<1>4. QED
  BY <1>2, <1>3

LEMMA WorkDoneStep ==
    ASSUME Known, WorkDone, [Next]_vars
    PROVE  WorkDone'
<1> SUFFICES ASSUME NEW q \in Procs, NEW c \in Charges, Handles(q, c)'
             PROVE  WorkDoneAt(q, c)'
  BY DEF WorkDone
<1>1. handlers'[q] = handlers[q] => WorkDoneAt(q, c)'
  BY WorkStays
<1>2. handlers'[q].step \notin {"write_plan", "record"} => WorkDoneAt(q, c)'
  BY DEF WorkDoneAt, At
<1>3. ASSUME NEW p, Handles(p, c)', handlers'[p].event = handlers[p].event
      PROVE  Subject(p) = c /\ Handles(p, c)
  BY <1>3, HandlesIs DEF Handles
<1>4. ASSUME (\E d, charge : Opens(d, charge))
                    \/ (\E d, status, kind : Settles(d, status, kind)) \/ Removes
      PROVE  WorkDoneAt(q, c)'
  BY <1>4, <1>1 DEF Opens, Settles, Removes
<1>5. ASSUME NEW p \in Procs, NEW s, Cancels(p, s) \/ Replaces(p, s)
      PROVE  WorkDoneAt(q, c)'
  BY <1>5, <1>1, <1>2 DEF Cancels, Replaces, Moves, Onward, Idle, Request
<1>6. ASSUME NEW p \in Procs, NEW s, Subscribes(p, s)
      PROVE  WorkDoneAt(q, c)'
  <2>1. CASE q # p \/ handlers'[p] = Webhook("answer", handlers[p].event, None)
    BY <1>6, <2>1, <1>1, <1>2 DEF Subscribes, Moves, Webhook
  <2>2. CASE /\ q = p /\ charges[Subject(p)].action = "new_subscription"
             /\ handlers'[p] = Onward(p, "write_plan")
    <3>1. handlers'[p].step = "write_plan" /\ Subject(p) = c /\ UNCHANGED charges
      BY <1>6, <2>2, <1>3 DEF Subscribes, Onward
    <3>2. effects'[c] > 0
      BY <1>6, <3>1 DEF Subscribes, Known, TypeOK
    <3>3. /\ s \in Subscriptions /\ subscriptions'[s].customer = charges[c].customer
          /\ subscriptions'[s].plan = charges[c].plan
      BY <1>6, <3>1 DEF Subscribes, Created, Known, TypeOK
    <3>4. Subscribed(c)'
      BY <3>1, <3>3 DEF Subscribed
    <3>5. QED
      BY <2>2, <3>1, <3>2, <3>4 DEF WorkDoneAt, At
  <2>3. QED
    BY <1>6, <2>1, <2>2 DEF Subscribes, Moves
<1>7. ASSUME NEW p \in Procs, Asks(p) \/ Ends(p)
      PROVE  WorkDoneAt(q, c)'
  <2>1. \A x, k, s, m : Request(x, k, s, m).step = x
    BY DEF Request
  <2>2. handlers'[p].step \in {"cancel", "change_cancel", "idle", "reply_500"}
    BY <1>7, <2>1 DEF Asks, Ends, Turns, Moves, Idle
  <2>3. q # p => handlers'[q] = handlers[q]
    BY <1>7 DEF Asks, Ends, Turns, Moves
  <2>4. QED
    BY <2>2, <2>3, <1>1, <1>2
<1>8. ASSUME NEW p \in Procs, FindsUser(p) \/ Throws(p) \/ FindsCustomer(p)
      PROVE  WorkDoneAt(q, c)'
  <2>1. handlers'[p].step \in {"credit", "refund", "upgrade", "downgrade", "answer"}
    BY <1>8 DEF FindsUser, Throws, FindsCustomer, Turns, Moves, Webhook
  <2>2. QED
    BY <1>8, <2>1, <1>1, <1>2 DEF FindsUser, Throws, FindsCustomer, Turns, Moves
<1>9. ASSUME NEW p \in Procs, FindsCompany(p)
      PROVE  WorkDoneAt(q, c)'
  <2>1. CASE q # p
    BY <1>9, <2>1, <1>1 DEF FindsCompany, Turns, Moves
  <2>2. CASE q = p /\ charges[c].action = "new_subscription"
    <3>1. Subject(p) = c
      BY <1>9, <2>2, <1>3 DEF FindsCompany, Turns, Moves, Webhook
    <3>2. handlers'[p].step = "subscribe"
      BY <1>9, <2>2, <3>1 DEF FindsCompany, Turns, Moves, Webhook
    <3>3. QED
      BY <2>2, <3>2, <1>2
  <2>3. CASE q = p /\ charges[c].action # "new_subscription"
    <3>1. Subject(p) = c
      BY <1>9, <2>3, <1>3 DEF FindsCompany, Turns, Moves, Webhook
    <3>2. handlers'[p].step = "write_plan" /\ UNCHANGED charges
      BY <1>9, <2>3, <3>1 DEF FindsCompany, Turns, Moves, Webhook, KeepPaystack
    <3>3. QED
      BY <2>3, <3>2 DEF WorkDoneAt, At
  <2>4. QED
    BY <2>1, <2>2, <2>3
<1>10. ASSUME NEW p \in Procs, Credits(p)
      PROVE  WorkDoneAt(q, c)'
  <2>1. CASE q # p
    BY <1>10, <2>1, <1>1 DEF Credits, Moves
  <2>2. CASE q = p
    <3>1. Subject(p) = c
      BY <1>10, <2>2, <1>3 DEF Credits, Moves, Onward
    <3>2. /\ handlers'[p].step = "record" /\ charges[c].action = "topUp"
          /\ UNCHANGED <<charges, users>>
      BY <1>10, <3>1 DEF Credits, Moves, Onward, KeepPaystack
    <3>3. effects'[c] > 0 \/ charges[c].user \notin users
      BY <1>10, <3>1 DEF Credits, Known, TypeOK
    <3>4. QED
      BY <2>2, <3>2, <3>3 DEF WorkDoneAt, At
  <2>3. QED
    BY <2>1, <2>2
<1>11. ASSUME NEW p \in Procs, Writes(p)
      PROVE  WorkDoneAt(q, c)'
  <2>1. CASE q # p \/ handlers'[p] = Webhook("answer", handlers[p].event, None)
    BY <1>11, <2>1, <1>1, <1>2 DEF Writes, Moves, Webhook
  <2>2. CASE /\ q = p /\ charges[Subject(p)].action = "new_subscription"
             /\ handlers'[p] = Onward(p, "record")
             /\ UNCHANGED effects
    <3>1. handlers'[p].step = "record" /\ Subject(p) = c /\ Handles(p, c)
      BY <2>2, <1>3 DEF Onward
    <3>2. UNCHANGED <<charges, effects, subscriptions, companies>>
      BY <1>11, <2>2 DEF Writes, KeepPaystack
    <3>3. effects[c] > 0 /\ Subscribed(c)
      BY <1>11, <2>2, <3>1 DEF Writes, WorkDone, WorkDoneAt
    <3>4. Subscribed(c)'
      BY <3>2, <3>3 DEF Subscribed
    <3>5. /\ handlers[p].company = charges[c].customer /\ charges[c].customer \in Companies
          /\ charges[c].plan \in Plans
      BY <1>11, <2>2, <3>1 DEF Writes, Applies
    <3>6. charges[c].customer \in companies => plan'[charges[c].customer] # "free"
      BY <1>11, <3>1, <3>5, BillingAssumption DEF Writes, Known, TypeOK
    <3>7. QED
      BY <2>2, <3>1, <3>2, <3>3, <3>4, <3>6 DEF WorkDoneAt, At
  <2>3. QED
    BY <1>11, <2>1, <2>2 DEF Writes, Moves
<1>12. ASSUME NEW p \in Procs, Records(p) \/ Refunds(p) \/ Reports(p)
      PROVE  WorkDoneAt(q, c)'
  BY <1>12, <1>1, <1>2 DEF Records, Refunds, Reports, Moves, Webhook
<1>13. ASSUME NEW p \in Procs, Answers(p) \/ Interrupts(p) \/ Fails(p)
      PROVE  WorkDoneAt(q, c)'
  BY <1>13, <1>1, <1>2 DEF Answers, Interrupts, Fails, Moves, Idle, Request, Onward
<1>14. ASSUME NEW p \in Procs, NEW e \in sent, Delivers(p, e)
      PROVE  WorkDoneAt(q, c)'
  <2>1. FirstStep(e) \notin {"write_plan", "record"}
    BY <1>14, FirstStepIs DEF Delivers, Known, TypeOK, Kinds, Actions
  <2>2. QED
    BY <1>14, <2>1, <1>1, <1>2 DEF Delivers, Moves, Webhook
<1>15. CASE UNCHANGED vars
  BY <1>15, <1>1 DEF vars
<1>16. QED
  BY <1>1, <1>4, <1>5, <1>6, <1>7, <1>8, <1>9, <1>10, <1>11, <1>12, <1>13, <1>14, <1>15,
  StepIs

\* Only a transaction that is recorded now is new.
LEMMA RecordedMoves ==
    ASSUME Known, [Next]_vars, NEW c \in recorded'
    PROVE  c \in recorded \/ \E p \in Procs : Records(p) /\ c = Subject(p)
<1>1. ASSUME NEW p \in Procs, Records(p)
      PROVE  c \in recorded \/ c = Subject(p)
  BY <1>1 DEF Records
<1>2. ASSUME (\E d, charge : Opens(d, charge))
                    \/ (\E d, status, kind : Settles(d, status, kind)) \/ Removes
      PROVE  UNCHANGED recorded
  BY <1>2 DEF Opens, Settles, Removes, Turns, KeepDocuments
<1>3. ASSUME NEW p \in Procs, NEW s, Cancels(p, s) \/ Replaces(p, s) \/ Subscribes(p, s)
      PROVE  UNCHANGED recorded
  BY <1>3 DEF Cancels, Replaces, Subscribes, Turns, KeepDocuments
<1>4. ASSUME NEW p \in Procs, Asks(p) \/ Ends(p) \/ FindsUser(p) \/ FindsCompany(p)
                    \/ Throws(p) \/ FindsCustomer(p)
      PROVE  UNCHANGED recorded
  BY <1>4 DEF Asks, Ends, FindsUser, FindsCompany, Throws, FindsCustomer, Turns, KeepDocuments
<1>5. ASSUME NEW p \in Procs, Credits(p) \/ Writes(p) \/ Refunds(p) \/ Reports(p)
      PROVE  UNCHANGED recorded
  BY <1>5 DEF Credits, Writes, Refunds, Reports, Turns, KeepDocuments
<1>6. ASSUME NEW p \in Procs, Answers(p) \/ Interrupts(p) \/ Fails(p)
      PROVE  UNCHANGED recorded
  BY <1>6 DEF Answers, Interrupts, Fails, Turns, KeepDocuments
<1>7. ASSUME NEW p \in Procs, NEW e \in sent, Delivers(p, e)
      PROVE  UNCHANGED recorded
  BY <1>7 DEF Delivers, KeepDocuments
<1>8. QED
  BY <1>1, <1>2, <1>3, <1>4, <1>5, <1>6, <1>7, StepIs DEF vars, documents

LEMMA RecordedIsAppliedStep ==
    ASSUME Known, WorkDone, RecordedIsApplied, [Next]_vars
    PROVE  RecordedIsApplied'
<1>1. SUFFICES ASSUME NEW c \in recorded'
               PROVE  \/ effects'[c] > 0
                      \/ charges'[c].action = "topUp" /\ charges'[c].user \notin users'
  BY DEF RecordedIsApplied
<1>2. TypeOK' /\ ChargesStay /\ OutcomesMove
  BY TypeStep, ChargesStayStep, OutcomesMoveStep
<1>3. c \in Charges
  BY <1>2 DEF TypeOK
<1>4. effects'[c] >= effects[c] /\ effects[c] \in Nat /\ effects'[c] \in Nat /\ users' \subseteq users
  BY <1>2, <1>3 DEF Known, TypeOK, OutcomesMove
<1>5. \/ effects[c] > 0
      \/ /\ charges[c].action = "topUp" /\ charges[c].user \notin users
         /\ charges[c].status # "none"
  <2>1. CASE c \in recorded
    BY <1>3, <2>1 DEF RecordedIsApplied, Known, ChargesKnown, NoCharge
  <2>2. ASSUME NEW p \in Procs, Records(p), c = Subject(p)
        PROVE  \/ effects[c] > 0
               \/ /\ charges[c].action = "topUp" /\ charges[c].user \notin users
                  /\ charges[c].status # "none"
    <3>1. Handles(p, c) /\ charges[c].status = "paid" /\ At(p, "record")
      BY <2>2 DEF Records, Applies, Handles
    <3>2. QED
      BY <1>3, <3>1 DEF WorkDone, WorkDoneAt
  <2>3. c \in recorded \/ \E p \in Procs : Records(p) /\ c = Subject(p)
    BY RecordedMoves
  <2>4. QED
    BY <2>1, <2>2, <2>3
<1>6. QED
  BY <1>2, <1>3, <1>4, <1>5 DEF ChargesStay

-----------------------------------------------------------------------------
(* Charges that are reported once.                                         *)

\* A webhook for c that begins is the only one, unless c is reported again; one
\* that ends without an answer makes Paystack report again.
EventOnce(q, c) ==
    /\ Handles(q, c)' =>
          \/ Handles(q, c)
          \/ /\ Success(c) \in sent /\ \A r \in Procs : ~ Handles(r, c)
             /\ \A r \in Procs : r # q => handlers'[r] = handlers[r]
             /\ handlers'[q].step \in {"find_user", "find_company", "cancel_old"}
    /\ Handles(q, c) /\ ~ Handles(q, c)' => Success(c) \notin sent'
    /\ Success(c) \in sent' => Success(c) \in sent \/ charges[c].status = "open"

LEMMA SuccessIs ==
    ASSUME NEW c, NEW d
    PROVE  /\ Success(c) = Success(d) => c = d
           /\ Success(c).kind = "charge.success" /\ Success(c).of = c
           /\ \A s : Success(c) # [kind |-> "subscription.create", of |-> s]
           /\ \A s : Success(c) # [kind |-> "subscription.not_renew", of |-> s]
           /\ c \in Charges => Success(c) # None
  BY NoneIsNoEvent DEF Success, Event

\* Requests, and reports of subscriptions, are no webhook of a charge.
LEMMA ChargeSteps ==
    ASSUME Known, NEW p \in Procs, NEW c \in Charges, Handles(p, c)
    PROVE  handlers[p].step \in Applying \union {"refund", "answer"}
<1>1. handlers[p].event # None /\ handlers[p].event.kind = "charge.success"
  BY SuccessIs DEF Handles
<1>2. QED
  BY <1>1 DEF Known, HandlersKnow, HandlerKnows, ReportKept

LEMMA EventOnceStep ==
    ASSUME Known, [Next]_vars, NEW q \in Procs, NEW c \in Charges, c \notin retried'
    PROVE  EventOnce(q, c)
<1> USE DEF EventOnce, Handles
<1>1. ASSUME handlers'[q].event = handlers[q].event, sent' \subseteq sent
      PROVE  EventOnce(q, c)
  BY <1>1
<1>2. ASSUME ~ Handles(q, c), ~ Handles(q, c)', Success(c) \in sent' => Success(c) \in sent
      PROVE  EventOnce(q, c)
  BY <1>2
<1>3. ASSUME NEW p \in Procs, q = p,
             handlers[p].step \notin Applying \union {"refund", "answer"}
      PROVE  ~ Handles(q, c)
  BY <1>3, ChargeSteps
<1>4. ASSUME (\E d, charge : Opens(d, charge)) \/ Removes
      PROVE  EventOnce(q, c)
  BY <1>4, <1>1 DEF Opens, Removes, KeepPaystack
<1>5. ASSUME NEW d, NEW status, NEW kind, Settles(d, status, kind)
      PROVE  EventOnce(q, c)
  <2>1. Success(c) = [kind |-> kind, of |-> d] => c = d
    BY DEF Success
  <2>2. QED
    BY <1>5, <2>1 DEF Settles
<1>6. ASSUME NEW p \in Procs, NEW s, Cancels(p, s)
      PROVE  EventOnce(q, c)
  <2>1. handlers'[q].event = handlers[q].event
    BY <1>6 DEF Cancels, Moves, Onward
  <2>2. QED
    BY <1>6, <2>1, SuccessIs DEF Cancels, Cancelled
<1>7. ASSUME NEW p \in Procs, NEW s, Replaces(p, s)
      PROVE  EventOnce(q, c)
  <2>1. handlers'[q].event = handlers[q].event \/ (~ Handles(q, c) /\ ~ Handles(q, c)')
    BY <1>7, <1>3, SuccessIs DEF Replaces, Moves, At, Applying, Idle, Request
  <2>2. QED
    BY <1>7, <2>1, SuccessIs DEF Replaces, Created
<1>8. ASSUME NEW p \in Procs, NEW s, Subscribes(p, s)
      PROVE  EventOnce(q, c)
  <2>1. handlers'[q].event = handlers[q].event
    BY <1>8 DEF Subscribes, Moves, Onward, Webhook
  <2>2. QED
    BY <1>8, <2>1, SuccessIs DEF Subscribes, Created
<1>9. ASSUME NEW p \in Procs, Asks(p) \/ Ends(p)
      PROVE  EventOnce(q, c)
  <2>1. \A x, k, s, m : Request(x, k, s, m).event = None
    BY DEF Request
  <2>2. handlers'[p].event = None
    BY <1>9, <2>1 DEF Asks, Ends, Turns, Moves, Idle
  <2>3. handlers[p].step \notin Applying \union {"refund", "answer"}
    BY <1>9 DEF Asks, Ends, At, Applying, Changing
  <2>4. sent' = sent /\ (q # p => handlers'[q] = handlers[q])
    BY <1>9 DEF Asks, Ends, Turns, Moves, KeepPaystack
  <2>5. CASE q = p
    BY <2>2, <2>3, <2>4, <2>5, <1>2, <1>3, SuccessIs
  <2>6. CASE q # p
    BY <2>4, <2>6, <1>1
  <2>7. QED
    BY <2>5, <2>6
<1>10. ASSUME NEW p \in Procs, FindsUser(p) \/ FindsCompany(p) \/ Throws(p)
      PROVE  EventOnce(q, c)
  <2>1. handlers'[q].event = handlers[q].event
    BY <1>10 DEF FindsUser, FindsCompany, Throws, Turns, Moves, Webhook
  <2>2. QED
    BY <1>10, <2>1, <1>1 DEF FindsUser, FindsCompany, Throws, Turns, KeepPaystack
<1>11. ASSUME NEW p \in Procs, FindsCustomer(p) \/ Credits(p) \/ Records(p) \/ Writes(p)
      PROVE  EventOnce(q, c)
  <2>1. handlers'[q].event = handlers[q].event
    BY <1>11 DEF FindsCustomer, Credits, Records, Writes, Turns, Moves, Webhook, Onward
  <2>2. QED
    BY <1>11, <2>1, <1>1 DEF FindsCustomer, Credits, Records, Writes, Turns, KeepPaystack
<1>12. ASSUME NEW p \in Procs, Refunds(p) \/ Reports(p) \/ Fails(p)
      PROVE  EventOnce(q, c)
  <2>1. handlers'[q].event = handlers[q].event
    BY <1>12 DEF Refunds, Reports, Fails, Moves, Webhook, Onward
  <2>2. QED
    BY <1>12, <2>1, <1>1 DEF Refunds, Reports, Fails, KeepPaystack
<1>13. ASSUME NEW p \in Procs, Answers(p)
      PROVE  EventOnce(q, c)
  <2>1. handlers'[p].event = None
    BY <1>13 DEF Answers, Moves, Idle, Request
  <2>2. CASE q = p
    BY <1>13, <2>1, <2>2, SuccessIs DEF Answers
  <2>3. CASE q # p
    BY <1>13, <2>3, <1>1 DEF Answers, Moves
  <2>4. QED
    BY <2>2, <2>3
<1>14. ASSUME NEW p \in Procs, Interrupts(p)
      PROVE  EventOnce(q, c)
  <2>1. handlers'[p].event = None
    BY <1>14 DEF Interrupts, Moves, Idle, Request
  <2>2. CASE q = p
    <3>1. ~ Handles(q, c)
      BY <1>14, <2>2 DEF Interrupts, Repeated, Success
    <3>2. QED
      BY <1>14, <2>1, <2>2, <3>1, <1>2, SuccessIs DEF Interrupts, KeepPaystack
  <2>3. CASE q # p
    BY <1>14, <2>3, <1>1 DEF Interrupts, Moves, KeepPaystack
  <2>4. QED
    BY <2>2, <2>3
<1>15. ASSUME NEW p \in Procs, NEW e \in sent, Delivers(p, e)
      PROVE  EventOnce(q, c)
  <2>1. handlers'[p].event = e /\ handlers'[p].step = FirstStep(e) /\ sent' = sent
    BY <1>15 DEF Delivers, Moves, Webhook, KeepPaystack
  <2>2. CASE q # p
    BY <1>15, <2>1, <2>2, <1>1 DEF Delivers, Moves
  <2>3. CASE q = p /\ e # Success(c)
    <3>1. ~ Handles(q, c)
      BY <1>15, <2>3, <1>3 DEF Delivers, At, Applying
    <3>2. QED
      BY <2>1, <2>3, <3>1, <1>2
  <2>4. CASE q = p /\ e = Success(c)
    <3>1. ~ HandledAlready(e)
      BY <1>15, <2>4 DEF Delivers, Repeated, Success
    <3>2. FirstStep(e) \in {"find_user", "find_company", "cancel_old"}
      <4>1. e \in Event /\ TrueReport(e) /\ e.kind = "charge.success"
        BY <1>15, <2>4, SuccessIs DEF Delivers, Known, TypeOK
      <4>2. QED
        BY <4>1, FirstStepIs DEF Actions
    <3>3. \A r \in Procs : ~ Handles(r, c)
      BY <2>4, <3>1 DEF HandledAlready
    <3>4. QED
      BY <1>15, <2>1, <2>4, <3>2, <3>3 DEF Delivers, Moves
  <2>5. QED
    BY <2>2, <2>3, <2>4
<1>16. CASE UNCHANGED vars
  BY <1>16, <1>1 DEF vars, paystack
<1>17. QED
  BY <1>4, <1>5, <1>6, <1>7, <1>8, <1>9, <1>10, <1>11, <1>12, <1>13, <1>14, <1>15, <1>16,
  StepIs

-----------------------------------------------------------------------------
(* What the one webhook of a charge has, and has not, done.                *)

\* Another webhook's step leaves what q did for c as it was.
LEMMA OnceStays ==
    ASSUME Known, [Next]_vars, NEW q \in Procs, NEW c \in Charges, Handles(q, c),
           OnceAt(q, c), \A r \in Procs : Handles(r, c) => r = q,
           handlers'[q] = handlers[q]
    PROVE  OnceAt(q, c)'
<1>1. OutcomesMove /\ ChargesStay
  BY OutcomesMoveStep, ChargesStayStep
<1>2. SameOutcome(c)
  <2>1. \A r \in Procs : Applies(r, c) => Handles(r, c)
    BY DEF Applies, Handles
  <2>2. QED
    BY <1>1, <2>1 DEF OutcomesMove
<1>3. CASE handlers[q].step \in Applying \union {"refund"}
  <2>1. charges'[c].user = charges[c].user
    <3>1. Subject(q) = c
      BY HandlesIs
    <3>2. charges[c].status = "paid"
      BY <1>3, <3>1, AppliesAt DEF Applies
    <3>3. QED
      BY <1>1, <3>2 DEF ChargesStay
  <2>2. QED
    BY <1>1, <1>2, <2>1 DEF OutcomesMove, SameOutcome, OnceAt, Untouched, At
<1>4. CASE handlers[q].step \notin Applying \union {"refund"}
  BY <1>4 DEF OnceAt, At, Applying
<1>5. QED
  BY <1>3, <1>4

LEMMA OnceMoves ==
    ASSUME Known, [Next]_vars, NEW q \in Procs, NEW c \in Charges, Handles(q, c),
           Handles(q, c)', OnceAt(q, c), \A r \in Procs : Handles(r, c) => r = q
    PROVE  OnceAt(q, c)'
<1>1. handlers'[q] = handlers[q] => OnceAt(q, c)'
  BY OnceStays
<1>2. Subject(q) = c
  BY HandlesIs
<1>3. handlers'[q].step \in {"idle", "answer", "reply_500", "history", "change_create",
                             "upgrade", "downgrade"} => OnceAt(q, c)'
  BY DEF OnceAt, At
<1> USE DEF OnceAt, At
<1>4. ASSUME (\E d, charge : Opens(d, charge))
                    \/ (\E d, status, kind : Settles(d, status, kind)) \/ Removes
      PROVE  OnceAt(q, c)'
  BY <1>4, <1>1 DEF Opens, Settles, Removes
<1>5. ASSUME NEW p \in Procs, NEW s, Cancels(p, s)
      PROVE  OnceAt(q, c)'
  <2>1. handlers'[q] = handlers[q] \/ handlers'[q].step \in {"history", "change_create"}
          \/ (q = p /\ At(p, "cancel_old") /\ handlers'[q].step = "subscribe")
    BY <1>5 DEF Cancels, Moves, Onward
  <2>2. UNCHANGED <<effects, refunded, recorded>>
    BY <1>5 DEF Cancels, KeepDocuments, KeepHistory
  <2>3. QED
    BY <2>1, <2>2, <1>1, <1>3 DEF Untouched
<1>6. ASSUME NEW p \in Procs, NEW s, Replaces(p, s)
      PROVE  OnceAt(q, c)'
  BY <1>6, <1>1, <1>3 DEF Replaces, Moves, Idle, Request
<1>7. ASSUME NEW p \in Procs, NEW s, Subscribes(p, s)
      PROVE  OnceAt(q, c)'
  <2>1. handlers'[q] = handlers[q] \/ handlers'[q].step = "answer"
          \/ (q = p /\ At(p, "subscribe") /\ handlers'[q].step = "write_plan")
    BY <1>7 DEF Subscribes, Moves, Onward, Webhook
  <2>2. UNCHANGED <<refunded, recorded>>
    BY <1>7 DEF Subscribes, KeepDocuments
  <2>3. QED
    BY <2>1, <2>2, <1>1, <1>3 DEF Untouched
<1>8. ASSUME NEW p \in Procs, Asks(p) \/ Ends(p)
      PROVE  OnceAt(q, c)'
  <2>1. q # p
    BY <1>8, ChargeSteps DEF Asks, Ends, Applying, Changing
  <2>2. QED
    BY <1>8, <2>1, <1>1 DEF Asks, Ends, Turns, Moves
<1>9. ASSUME NEW p \in Procs, FindsUser(p)
      PROVE  OnceAt(q, c)'
  <2>1. CASE q # p
    BY <1>9, <2>1, <1>1 DEF FindsUser, Turns, Moves
  <2>2. CASE q = p
    <3>1. UNCHANGED <<effects, refunded, recorded, charges, users>>
      BY <1>9 DEF FindsUser, Turns, KeepDocuments, KeepPaystack, KeepHistory
    <3>2. Untouched(c) /\ charges[c].user \in Users
      BY <1>9, <2>2, <1>2, ActionAt DEF FindsUser, Applies
    <3>3. handlers'[q].step = "credit"
      BY <1>9, <2>2 DEF FindsUser, Turns, Moves, Webhook
    <3>4. handlers'[q].company = None => charges[c].user \notin users
      BY <1>9, <2>2, <1>2, <3>2, BillingAssumption DEF FindsUser, Turns, Moves, Webhook
    <3>5. QED
      BY <3>1, <3>2, <3>3, <3>4 DEF Untouched
  <2>3. QED
    BY <2>1, <2>2
<1>10. ASSUME NEW p \in Procs, FindsCompany(p)
      PROVE  OnceAt(q, c)'
  <2>1. CASE q # p
    BY <1>10, <2>1, <1>1 DEF FindsCompany, Turns, Moves
  <2>2. CASE q = p
    <3>1. UNCHANGED <<effects, refunded, recorded>>
      BY <1>10 DEF FindsCompany, Turns, KeepDocuments, KeepPaystack, KeepHistory
    <3>2. Untouched(c)
      BY <1>10, <2>2 DEF FindsCompany
    <3>3. handlers'[q].step \in {"subscribe", "write_plan"}
      BY <1>10, <2>2 DEF FindsCompany, Turns, Moves, Webhook
    <3>4. QED
      BY <3>1, <3>2, <3>3 DEF Untouched
  <2>3. QED
    BY <2>1, <2>2
<1>11. ASSUME NEW p \in Procs, Throws(p)
      PROVE  OnceAt(q, c)'
  <2>1. CASE q # p
    BY <1>11, <2>1, <1>1 DEF Throws, Turns, Moves
  <2>2. CASE q = p
    <3>1. UNCHANGED effects
      BY <1>11 DEF Throws, Turns, KeepHistory
    <3>2. effects[c] = 0
      BY <1>11, <2>2, <1>2 DEF Throws, Untouched
    <3>3. handlers'[q].step = "refund"
      BY <1>11, <2>2 DEF Throws, Turns, Moves, Webhook
    <3>4. QED
      BY <3>1, <3>2, <3>3
  <2>3. QED
    BY <2>1, <2>2
<1>12. ASSUME NEW p \in Procs, FindsCustomer(p)
      PROVE  OnceAt(q, c)'
  BY <1>12, <1>1, <1>3 DEF FindsCustomer, Turns, Moves, Webhook
<1>13. ASSUME NEW p \in Procs, Credits(p)
      PROVE  OnceAt(q, c)'
  <2>1. CASE q # p
    BY <1>13, <2>1, <1>1 DEF Credits, Moves
  <2>2. CASE q = p
    <3>1. UNCHANGED <<refunded, recorded>> /\ Untouched(c)
      BY <1>13, <2>2 DEF Credits, KeepPaystack
    <3>2. handlers'[q].step = "record" /\ handlers'[q].company = handlers[q].company
      BY <1>13, <2>2 DEF Credits, Moves, Onward
    <3>3. handlers[q].company = None => effects'[c] = effects[c]
      BY <1>13, <2>2, <1>2 DEF Credits
    <3>4. QED
      BY <3>1, <3>2, <3>3 DEF Untouched
  <2>3. QED
    BY <2>1, <2>2
<1>14. ASSUME NEW p \in Procs, Records(p) \/ Refunds(p) \/ Reports(p)
      PROVE  OnceAt(q, c)'
  BY <1>14, <1>1, <1>3 DEF Records, Refunds, Reports, Moves, Webhook
<1>15. ASSUME NEW p \in Procs, Writes(p)
      PROVE  OnceAt(q, c)'
  <2>1. CASE q # p
    BY <1>15, <2>1, <1>1 DEF Writes, Moves
  <2>2. CASE q = p
    <3>1. UNCHANGED <<refunded, recorded>> /\ c \notin refunded \union recorded
      BY <1>15, <2>2 DEF Writes, KeepPaystack
    <3>2. CASE handlers'[q].step = "answer"
      BY <3>2, <1>3
    <3>3. CASE handlers'[q].step = "record" /\ charges[c].action = "new_subscription"
               /\ handlers'[q].company = handlers[q].company
      <4>1. handlers[q].company \in Companies
        BY <1>15, <2>2, <3>3, <1>2 DEF Writes, Applies
      <4>2. QED
        BY <3>1, <3>3, <4>1, BillingAssumption
    <3>4. QED
      BY <1>15, <2>2, <3>2, <3>3, <1>2 DEF Writes, Moves, Onward, Webhook
  <2>3. QED
    BY <2>1, <2>2
<1>16. ASSUME NEW p \in Procs, Answers(p) \/ Interrupts(p)
      PROVE  OnceAt(q, c)'
  BY <1>16, <1>1, <1>3 DEF Answers, Interrupts, Moves, Idle, Request
<1>17. ASSUME NEW p \in Procs, Fails(p)
      PROVE  OnceAt(q, c)'
  <2>1. CASE q # p
    BY <1>17, <2>1, <1>1 DEF Fails, Moves
  <2>2. CASE q = p
    BY <1>17, <2>2, <1>2 DEF Fails, Moves, Onward
  <2>3. QED
    BY <2>1, <2>2
<1>18. ASSUME NEW p \in Procs, NEW e \in sent, Delivers(p, e)
      PROVE  OnceAt(q, c)'
  <2>1. q # p
    BY <1>18, ChargeSteps DEF Delivers, Applying
  <2>2. QED
    BY <1>18, <2>1, <1>1 DEF Delivers, Moves
<1>19. CASE UNCHANGED vars
  BY <1>19, <1>1 DEF vars
<1>20. QED
  BY <1>1, <1>4, <1>5, <1>6, <1>7, <1>8, <1>9, <1>10, <1>11, <1>12, <1>13, <1>14, <1>15,
  <1>16, <1>17, <1>18, <1>19, StepIs

\* Paystack reports a payment when it is made, and from then on.
LEMMA SuccessSent ==
    ASSUME Known, [Next]_vars, NEW c \in Charges, Success(c) \in sent'
    PROVE  Success(c) \in sent \/ charges[c].status = "open"
<1>1. ASSUME NEW d, NEW status, NEW kind, Settles(d, status, kind)
      PROVE  Success(c) \in sent \/ charges[c].status = "open"
  BY <1>1 DEF Settles, Success
<1>2. ASSUME (\E d, charge : Opens(d, charge)) \/ Removes
      PROVE  sent' = sent
  BY <1>2 DEF Opens, Removes, KeepPaystack
<1>3. ASSUME NEW p \in Procs, NEW s, Cancels(p, s) \/ Replaces(p, s) \/ Subscribes(p, s)
      PROVE  Success(c) \in sent
  BY <1>3, SuccessIs DEF Cancels, Replaces, Subscribes, Cancelled, Created
<1>4. ASSUME NEW p \in Procs, Asks(p) \/ Ends(p) \/ FindsUser(p) \/ FindsCompany(p)
                    \/ Throws(p)
                              \/ FindsCustomer(p)
      PROVE  sent' = sent
  BY <1>4 DEF Asks, Ends, FindsUser, FindsCompany, Throws, FindsCustomer, Turns, KeepPaystack
<1>5. ASSUME NEW p \in Procs, Credits(p) \/ Records(p) \/ Writes(p) \/ Refunds(p)
                    \/ Reports(p)
                              \/ Interrupts(p) \/ Fails(p) \/ \E e \in sent : Delivers(p, e)
      PROVE  sent' = sent
  BY <1>5 DEF Credits, Records, Writes, Refunds, Reports, Interrupts, Fails, Delivers,
              KeepPaystack
<1>6. ASSUME NEW p \in Procs, Answers(p)
      PROVE  Success(c) \in sent
  BY <1>6 DEF Answers
<1>7. CASE UNCHANGED vars
  BY <1>7 DEF vars, paystack
<1>8. QED
  BY <1>1, <1>2, <1>3, <1>4, <1>5, <1>6, <1>7, StepIs

LEMMA HandledOnceStep ==
    ASSUME Known, UnpaidUntouched, HandledOnce, [Next]_vars
    PROVE  HandledOnce'
<1> SUFFICES ASSUME NEW c \in Charges, c \notin retried'
             PROVE  /\ \A p, q \in Procs : Handles(p, c)' /\ Handles(q, c)' => p = q
                    /\ Success(c) \in sent' /\ (\A p \in Procs : ~ Handles(p, c)')
                          => Untouched(c)'
                    /\ \A p \in Procs : Handles(p, c)' => OnceAt(p, c)'
  BY DEF HandledOnce
<1>1. OutcomesMove
  BY OutcomesMoveStep
<1>2. c \in Charges \ retried
  BY <1>1 DEF OutcomesMove
<1>3. \A q \in Procs : EventOnce(q, c)
  BY EventOnceStep
<1>4. ASSUME NEW p \in Procs, NEW q \in Procs, Handles(p, c)', Handles(q, c)', p # q
      PROVE  FALSE
  <2>1. ASSUME NEW r \in Procs, NEW o \in Procs, r # o, ~ Handles(r, c),
               Handles(r, c)', Handles(o, c)'
        PROVE  FALSE
    <3>1. /\ \A x \in Procs : ~ Handles(x, c)
          /\ handlers'[o] = handlers[o]
      BY <2>1, <1>3 DEF EventOnce
    <3>2. QED
      BY <2>1, <3>1 DEF Handles
  <2>2. Handles(p, c) /\ Handles(q, c)
    BY <1>4, <2>1
  <2>3. QED
    BY <1>2, <1>4, <2>2 DEF HandledOnce
<1>5. ASSUME \A p \in Procs : ~ Handles(p, c), Success(c) \in sent
                    \/ charges[c].status = "open"
      PROVE  Untouched(c) /\ Untouched(c)'
  <2>1. Untouched(c)
    BY <1>2, <1>5 DEF HandledOnce, UnpaidUntouched
  <2>2. SameOutcome(c)
    BY <1>1, <1>5 DEF OutcomesMove, Applies, Handles
  <2>3. QED
    BY <2>1, <2>2 DEF SameOutcome, Untouched
<1>6. ASSUME Success(c) \in sent', \A p \in Procs : ~ Handles(p, c)'
      PROVE  Untouched(c)'
  <2>1. \A p \in Procs : ~ Handles(p, c)
    BY <1>3, <1>6 DEF EventOnce
  <2>2. Success(c) \in sent \/ charges[c].status = "open"
    BY <1>6, SuccessSent
  <2>3. QED
    BY <2>1, <2>2, <1>5
<1>7. ASSUME NEW q \in Procs, Handles(q, c)'
      PROVE  OnceAt(q, c)'
  <2>1. CASE Handles(q, c)
    <3>1. OnceAt(q, c) /\ \A r \in Procs : Handles(r, c) => r = q
      BY <1>2, <2>1 DEF HandledOnce
    <3>2. QED
      BY <1>7, <2>1, <3>1, OnceMoves
  <2>2. CASE ~ Handles(q, c)
    <3>1. /\ Success(c) \in sent /\ \A r \in Procs : ~ Handles(r, c)
          /\ handlers'[q].step \in {"find_user", "find_company", "cancel_old"}
      BY <1>3, <1>7, <2>2 DEF EventOnce
    <3>2. Untouched(c)'
      BY <3>1, <1>5
    <3>3. QED
      BY <3>1, <3>2 DEF OnceAt, At
  <2>3. QED
    BY <2>1, <2>2
<1>8. QED
  BY <1>4, <1>6, <1>7

-----------------------------------------------------------------------------
(* Charges that are applied and refunded.                                  *)

LEMMA RefundedMoves ==
    ASSUME Known, [Next]_vars, NEW c \in refunded'
    PROVE  c \in refunded \/ \E p \in Procs : Refunds(p) /\ c = Subject(p)
<1>1. ASSUME NEW p \in Procs, Refunds(p)
      PROVE  c \in refunded \/ c = Subject(p)
  BY <1>1 DEF Refunds
<1>2. ASSUME (\E d, charge : Opens(d, charge))
                    \/ (\E d, status, kind : Settles(d, status, kind)) \/ Removes
      PROVE  UNCHANGED refunded
  BY <1>2 DEF Opens, Settles, Removes, KeepPaystack
<1>3. ASSUME NEW p \in Procs, NEW s, Cancels(p, s) \/ Replaces(p, s) \/ Subscribes(p, s)
      PROVE  UNCHANGED refunded
  BY <1>3 DEF Cancels, Replaces, Subscribes
<1>4. ASSUME NEW p \in Procs, Asks(p) \/ Ends(p) \/ FindsUser(p) \/ FindsCompany(p)
                    \/ Throws(p)
                              \/ FindsCustomer(p)
      PROVE  UNCHANGED refunded
  BY <1>4 DEF Asks, Ends, FindsUser, FindsCompany, Throws, FindsCustomer, Turns, KeepPaystack
<1>5. ASSUME NEW p \in Procs, Credits(p) \/ Records(p) \/ Writes(p) \/ Reports(p)
                    \/ Answers(p)
                              \/ Interrupts(p) \/ Fails(p) \/ \E e \in sent : Delivers(p, e)
      PROVE  UNCHANGED refunded
  BY <1>5 DEF Credits, Records, Writes, Reports, Answers, Interrupts, Fails, Delivers,
              KeepPaystack
<1>6. CASE UNCHANGED vars
  BY <1>6 DEF vars, paystack
<1>7. QED
  BY <1>1, <1>2, <1>3, <1>4, <1>5, <1>6, StepIs

\* The steps of a webhook that apply a charge.
Effective == {"credit", "subscribe", "write_plan"}

LEMMA EffectsMoves ==
    ASSUME Known, [Next]_vars, NEW c \in Charges, effects'[c] # effects[c]
    PROVE  \E p \in Procs : Applies(p, c) /\ handlers[p].step \in Effective
<1>1. ASSUME NEW p \in Procs, Credits(p) \/ Writes(p) \/ \E s : Subscribes(p, s)
      PROVE  Applies(p, c) /\ handlers[p].step \in Effective
  <2>1. Applies(p, Subject(p)) /\ handlers[p].step \in Effective
    BY <1>1 DEF Credits, Writes, Subscribes, At, Effective
  <2>2. c # Subject(p) => effects'[c] = effects[c]
    BY <1>1, <2>1 DEF Credits, Writes, Subscribes, Known, TypeOK
  <2>3. QED
    BY <2>1, <2>2
<1>2. ASSUME (\E d, charge : Opens(d, charge))
                    \/ (\E d, status, kind : Settles(d, status, kind)) \/ Removes
      PROVE  FALSE
  BY <1>2 DEF Opens, Settles, Removes, KeepHistory
<1>3. ASSUME NEW p \in Procs, NEW s, Cancels(p, s) \/ Replaces(p, s)
      PROVE  FALSE
  BY <1>3 DEF Cancels, Replaces, KeepHistory
<1>4. ASSUME NEW p \in Procs, Asks(p) \/ Ends(p) \/ FindsUser(p) \/ FindsCompany(p)
                    \/ Throws(p)
                              \/ FindsCustomer(p)
      PROVE  FALSE
  BY <1>4 DEF Asks, Ends, FindsUser, FindsCompany, Throws, FindsCustomer, Turns, KeepHistory
<1>5. ASSUME NEW p \in Procs, Records(p) \/ Refunds(p) \/ Reports(p) \/ Answers(p)
                              \/ Interrupts(p) \/ Fails(p) \/ \E e \in sent : Delivers(p, e)
      PROVE  FALSE
  BY <1>5 DEF Records, Refunds, Reports, Answers, Interrupts, Fails, Delivers, KeepHistory
<1>6. CASE UNCHANGED vars
  BY <1>6 DEF vars, history
<1>7. QED
  BY <1>1, <1>2, <1>3, <1>4, <1>5, <1>6, StepIs

LEMMA SettledOnceStep ==
    ASSUME Known, HandledOnce, SettledOnce, [Next]_vars
    PROVE  SettledOnce'
<1>1. SUFFICES ASSUME NEW c \in refunded', effects'[c] > 0, c \notin retried'
               PROVE  c \in cut'
  BY DEF SettledOnce
<1>2. OutcomesMove /\ TypeOK'
  BY OutcomesMoveStep, TypeStep
<1>3. c \in Charges /\ c \notin retried /\ (c \in cut => c \in cut')
  BY <1>1, <1>2 DEF OutcomesMove, TypeOK
<1>4. effects[c] \in Nat /\ effects'[c] \in Nat
  BY <1>2, <1>3 DEF Known, TypeOK
<1>5. ASSUME NEW p \in Procs, Applies(p, c)
      PROVE  OnceAt(p, c)
  BY <1>3, <1>5 DEF Applies, Handles, HandledOnce
<1>6. CASE c \in refunded
  <2>1. CASE effects'[c] = effects[c]
    BY <1>1, <1>3, <1>6, <2>1 DEF SettledOnce
  <2>2. CASE effects'[c] # effects[c]
    <3>1. PICK p \in Procs : Applies(p, c) /\ handlers[p].step \in Effective
      BY <1>3, <2>2, EffectsMoves
    <3>2. c \notin refunded
      BY <1>5, <3>1 DEF OnceAt, Untouched, At, Effective
    <3>3. QED
      BY <1>6, <3>2
  <2>3. QED
    BY <2>1, <2>2
<1>7. CASE c \notin refunded
  <2>1. PICK p \in Procs : Refunds(p) /\ c = Subject(p)
    BY <1>1, <1>7, RefundedMoves
  <2>2. At(p, "refund") /\ Applies(p, c) /\ effects' = effects /\ cut' = cut
    BY <2>1 DEF Refunds
  <2>3. c \notin cut => effects[c] = 0
    BY <1>5, <2>2 DEF OnceAt
  <2>4. QED
    BY <1>1, <2>2, <2>3
<1>8. QED
  BY <1>6, <1>7

-----------------------------------------------------------------------------
(* The plan in the company document.                                       *)

\* A subscription, or a payment for one, that explains the plan n of k.
Cause(k, n) ==
    \/ \E s \in Subscriptions : subscriptions[s].customer = k /\ subscriptions[s].plan = n
    \/ \E c \in Charges : /\ charges[c].action = "old_subscription"
                          /\ charges[c].status = "paid"
                          /\ charges[c].customer = k
                          /\ charges[c].plan = n

LEMMA CauseStays ==
    ASSUME Known, ChargesStay, SubscriptionsStay, NEW k \in Companies, NEW n, Cause(k, n)
    PROVE  Cause(k, n)'
<1>1. ASSUME NEW s \in Subscriptions,
             subscriptions[s].customer = k, subscriptions[s].plan = n
      PROVE  Cause(k, n)'
  <2>1. subscriptions[s].status # "none"
    BY <1>1, BillingAssumption DEF Known, SubscriptionsKnown, NoSubscription
  <2>2. QED
    BY <1>1, <2>1 DEF SubscriptionsStay, Cause
<1>2. ASSUME NEW c \in Charges, charges[c].action = "old_subscription",
             charges[c].status = "paid", charges[c].customer = k, charges[c].plan = n
      PROVE  Cause(k, n)'
  BY <1>2 DEF ChargesStay, Cause
<1>3. QED
  BY <1>1, <1>2 DEF Cause

\* A step leaves the plan of k, frees it, or writes one that has a cause.
PlanMoves(k) ==
    \/ plan'[k] = plan[k]
    \/ plan'[k] = "free"
    \/ \E n : plan'[k] = n /\ Cause(k, n)

LEMMA PlanMovesStep ==
    ASSUME Known, WorkDone, [Next]_vars, NEW k \in Companies
    PROVE  PlanMoves(k)
<1>1. ASSUME (\E d, charge : Opens(d, charge))
                    \/ (\E d, status, kind : Settles(d, status, kind)) \/ Removes
      PROVE  PlanMoves(k)
  BY <1>1 DEF Opens, Settles, Removes, KeepDocuments, PlanMoves
<1>2. ASSUME NEW p \in Procs, NEW s, Cancels(p, s) \/ Replaces(p, s) \/ Subscribes(p, s)
      PROVE  PlanMoves(k)
  BY <1>2 DEF Cancels, Replaces, Subscribes, KeepDocuments, PlanMoves
<1>3. ASSUME NEW p \in Procs, Asks(p) \/ Ends(p) \/ FindsUser(p) \/ FindsCompany(p)
                    \/ Throws(p)
                              \/ FindsCustomer(p)
      PROVE  PlanMoves(k)
  BY <1>3 DEF Asks, Ends, FindsUser, FindsCompany, Throws, FindsCustomer, Turns,
              KeepDocuments,
              PlanMoves
<1>4. ASSUME NEW p \in Procs, Credits(p) \/ Records(p) \/ Refunds(p) \/ Answers(p)
                              \/ Interrupts(p) \/ Fails(p) \/ \E e \in sent : Delivers(p, e)
      PROVE  PlanMoves(k)
  BY <1>4 DEF Credits, Records, Refunds, Answers, Interrupts, Fails, Delivers, KeepDocuments,
              PlanMoves
<1>5. ASSUME NEW p \in Procs, Writes(p)
      PROVE  PlanMoves(k)
  <2> DEFINE c == Subject(p)
  <2>1. /\ At(p, "write_plan") /\ Applies(p, c)
        /\ charges[c].action \in {"new_subscription", "old_subscription"}
    BY <1>5 DEF Writes
  <2>2. Handles(p, c) /\ c \in Charges /\ handlers[p].company = charges[c].customer
    BY <2>1 DEF Applies, Handles
  <2>3. plan'[k] # plan[k] => k = charges[c].customer /\ plan'[k] = charges[c].plan
    BY <1>5, <2>2 DEF Writes, Known, TypeOK
  <2>4. CASE charges[c].action = "old_subscription"
    <3>1. charges[c].status = "paid"
      BY <2>1 DEF Applies
    <3>2. QED
      BY <2>2, <2>3, <2>4, <3>1 DEF PlanMoves, Cause
  <2>5. CASE charges[c].action = "new_subscription"
    <3>1. Subscribed(c)
      BY <2>1, <2>2, <2>5 DEF WorkDone, WorkDoneAt
    <3>2. QED
      BY <2>3, <3>1 DEF Subscribed, PlanMoves, Cause
  <2>6. QED
    BY <2>1, <2>4, <2>5
<1>6. ASSUME NEW p \in Procs, Reports(p)
      PROVE  PlanMoves(k)
  <2>1. handlers[p].event.of \in Subscriptions
    BY <1>6 DEF Reports, ReportKept
  <2>2. QED
    BY <1>6, <2>1 DEF Reports, PlanMoves, Cause, Known, TypeOK
<1>7. CASE UNCHANGED vars
  BY <1>7 DEF vars, documents, PlanMoves
<1>8. QED
  BY <1>1, <1>2, <1>3, <1>4, <1>5, <1>6, <1>7, StepIs

LEMMA PlanHasCauseStep ==
    ASSUME Known, UnpaidUntouched, WorkDone, PlanHasCause, [Next]_vars
    PROVE  PlanHasCause'
<1> SUFFICES ASSUME NEW k \in Companies
             PROVE  /\ plan'[k] # "free" => \E n : plan'[k] = n /\ Cause(k, n)'
                    /\ plan'[k] = "free" /\ k \in companies' =>
                          \/ CancelledFor(k)'
                          \/ \A c \in recorded' : charges'[c].action = "new_subscription" =>
                                                      charges'[c].customer # k
  BY DEF PlanHasCause, Cause, CancelledFor
<1>1. /\ ChargesStay /\ SubscriptionsStay /\ OutcomesMove /\ PlanFreed /\ PlanMoves(k)
  BY ChargesStayStep, SubscriptionsStayStep, OutcomesMoveStep, PlanFreedStep, PlanMovesStep
<1>2. ASSUME plan'[k] # "free"
      PROVE  \E n : plan'[k] = n /\ Cause(k, n)'
  <2>1. PICK n : plan'[k] = n /\ Cause(k, n)
    <3>1. plan[k] # "free" => Cause(k, plan[k])
      BY DEF PlanHasCause, Cause
    <3>2. QED
      BY <1>1, <1>2, <3>1 DEF PlanMoves
  <2>2. Cause(k, n)'
    BY <1>1, <2>1, CauseStays
  <2>3. QED
    BY <2>1, <2>2
<1>3. ASSUME plan'[k] = "free", k \in companies', NEW c \in recorded',
             charges'[c].action = "new_subscription", charges'[c].customer = k
      PROVE  CancelledFor(k)'
  <2>1. k \in companies
    BY <1>1, <1>3 DEF OutcomesMove
  <2>2. CASE plan[k] # "free"
    BY <1>1, <1>3, <2>2, CancelledStays DEF PlanFreed
  <2>3. CASE plan[k] = "free" /\ c \in recorded
    <3>1. charges[c].action = "new_subscription" /\ charges[c].customer = k
      <4>1. c \in Charges
        BY <2>3 DEF Known, TypeOK
      <4>2. charges[c].status # "none"
        BY <2>3, <4>1 DEF UnpaidUntouched, Untouched
      <4>3. QED
        BY <1>1, <1>3, <4>1, <4>2 DEF ChargesStay
    <3>2. CancelledFor(k)
      BY <2>1, <2>3, <3>1 DEF PlanHasCause, CancelledFor
    <3>3. QED
      BY <1>1, <3>2, CancelledStays
  <2>4. CASE plan[k] = "free" /\ c \notin recorded
    <3>1. PICK p \in Procs : Records(p) /\ c = Subject(p)
      BY <1>3, <2>4, RecordedMoves
    <3>2. At(p, "record") /\ Applies(p, c) /\ charges' = charges
      BY <3>1 DEF Records, KeepPaystack
    <3>3. Handles(p, c) /\ c \in Charges
      BY <3>2 DEF Applies, Handles
    <3>4. CancelledFor(k)
      BY <1>3, <2>1, <2>4, <3>2, <3>3 DEF WorkDone, WorkDoneAt
    <3>5. QED
      BY <1>1, <3>4, CancelledStays
  <2>5. QED
    BY <2>2, <2>3, <2>4
<1>4. QED
  BY <1>2, <1>3

-----------------------------------------------------------------------------
(* The charges for new subscriptions, and what they created.               *)

LEMMA NewSumNext ==
    ASSUME NEW k
    PROVE  SumOfEffects(NewChargesOf(k))' = Sum(effects', NewChargesOf(k)')
  BY DEF SumOfEffects, Sum, MapThenSumSet, MapThenFoldSet

LEMMA NewChargesFinite ==
    ASSUME Known, NEW k
    PROVE  /\ NewChargesOf(k) \subseteq Charges /\ IsFiniteSet(NewChargesOf(k))
           /\ \A c \in NewChargesOf(k) : effects[c] \in Nat
           /\ SumOfEffects(NewChargesOf(k)) = Sum(effects, NewChargesOf(k))
           /\ SumOfEffects(NewChargesOf(k)) \in Nat
<1>1. /\ NewChargesOf(k) \subseteq Charges /\ IsFiniteSet(NewChargesOf(k))
      /\ \A c \in NewChargesOf(k) : effects[c] \in Nat
  BY BillingAssumption, FS_Subset DEF NewChargesOf, Known, TypeOK
<1>2. SumOfEffects(NewChargesOf(k)) = Sum(effects, NewChargesOf(k))
  BY EffectsSum
<1>3. Sum(effects, NewChargesOf(k)) \in Nat
  BY <1>1, SumNat
<1>4. QED
  BY <1>1, <1>2, <1>3

LEMMA NewSumKept ==
    ASSUME Known, NEW k, NewChargesOf(k)' = NewChargesOf(k),
           \A c \in NewChargesOf(k) : effects'[c] = effects[c]
    PROVE  SumOfEffects(NewChargesOf(k))' = SumOfEffects(NewChargesOf(k))
<1>1. Sum(effects, NewChargesOf(k)) = Sum(effects', NewChargesOf(k))
  BY NewChargesFinite, SumSame
<1>2. SumOfEffects(NewChargesOf(k))' = Sum(effects', NewChargesOf(k))
  BY NewSumNext
<1>3. QED
  BY <1>1, <1>2, NewChargesFinite

\* The charges for new subscriptions cause no less than before.
NewSumStays(k) ==
    SumOfEffects(NewChargesOf(k))' = SumOfEffects(NewChargesOf(k))

LEMMA NewSumOpens ==
    ASSUME Known, UnpaidUntouched, NEW k \in Companies, NEW c, NEW charge, Opens(c, charge)
    PROVE  NewSumStays(k)
<1>1. /\ c \in Charges /\ charges[c] = NoCharge /\ effects' = effects
      /\ charges' = [charges EXCEPT ![c] = charge]
  BY DEF Opens, KeepHistory
<1>2. effects[c] = 0
  BY <1>1 DEF UnpaidUntouched, Untouched, NoCharge
<1>3. CASE charge.action = "new_subscription" /\ charge.customer = k
  <2>1. NewChargesOf(k)' = NewChargesOf(k) \union {c}
    BY <1>1, <1>3 DEF NewChargesOf, Known, TypeOK
  <2>2. SumOfEffects(NewChargesOf(k))' = Sum(effects', NewChargesOf(k) \union {c})
    BY <2>1, NewSumNext
  <2>3. Sum(effects, NewChargesOf(k) \union {c}) = Sum(effects, NewChargesOf(k))
    BY <1>2, NewChargesFinite, SumZero
  <2>4. QED
    BY <1>1, <2>2, <2>3, NewChargesFinite DEF NewSumStays
<1>4. CASE ~ (charge.action = "new_subscription" /\ charge.customer = k)
  <2>1. NewChargesOf(k)' = NewChargesOf(k)
    BY <1>1, <1>4, BillingAssumption DEF NewChargesOf, Known, TypeOK, NoCharge
  <2>2. QED
    BY <1>1, <2>1, NewSumKept DEF NewSumStays
<1>5. QED
  BY <1>3, <1>4

LEMMA NewSumSubscribes ==
    ASSUME Known, NEW k \in Companies, NEW p \in Procs, NEW s, Subscribes(p, s),
           charges[Subject(p)].action = "new_subscription", charges[Subject(p)].customer = k
    PROVE  SumOfEffects(NewChargesOf(k))' = SumOfEffects(NewChargesOf(k)) + 1
<1> DEFINE c == Subject(p)
<1>1. /\ c \in Charges /\ charges' = charges
      /\ effects' = [effects EXCEPT ![c] = @ + 1]
  BY DEF Subscribes, Applies
<1>2. c \in NewChargesOf(k) /\ NewChargesOf(k)' = NewChargesOf(k)
  BY <1>1 DEF NewChargesOf
<1>3. /\ \A x \in NewChargesOf(k) : effects[x] \in Nat /\ effects'[x] \in Nat
      /\ \A x \in NewChargesOf(k) \ {c} : effects[x] = effects'[x]
      /\ effects'[c] = effects[c] + 1 /\ effects[c] \in Nat
  BY <1>1, NewChargesFinite DEF Known, TypeOK
<1>4. Sum(effects', NewChargesOf(k)) = Sum(effects, NewChargesOf(k)) - effects[c] + effects'[c]
  <2> HIDE DEF c
  <2> QED BY <1>2, <1>3, NewChargesFinite, SumChange
<1>5. SumOfEffects(NewChargesOf(k))' = Sum(effects', NewChargesOf(k))
  BY <1>2, NewSumNext
<1>6. QED
  BY <1>3, <1>4, <1>5, NewChargesFinite

LEMMA NewSumOthers ==
    ASSUME Known, UnpaidUntouched, NEW k \in Companies, [Next]_vars,
           \A p \in Procs : \A s : Subscribes(p, s) =>
              ~ (charges[Subject(p)].action = "new_subscription"
                 /\ charges[Subject(p)].customer = k)
    PROVE  NewSumStays(k)
<1>1. ASSUME NEW c, NEW charge, Opens(c, charge)
      PROVE  NewSumStays(k)
  BY <1>1, NewSumOpens
<1>2. ASSUME NEW c, NEW status, NEW kind, Settles(c, status, kind)
      PROVE  NewSumStays(k)
  <2>1. \A d \in Charges : /\ charges'[d].action = charges[d].action
                           /\ charges'[d].customer = charges[d].customer
    BY <1>2 DEF Settles, Known, TypeOK
  <2>2. NewChargesOf(k)' = NewChargesOf(k)
    BY <2>1 DEF NewChargesOf
  <2>3. effects' = effects
    BY <1>2 DEF Settles, KeepHistory
  <2>4. QED
    BY <2>2, <2>3, NewSumKept DEF NewSumStays
<1>3. ASSUME charges' = charges, \A c \in NewChargesOf(k) : effects'[c] = effects[c]
      PROVE  NewSumStays(k)
  <2>1. NewChargesOf(k)' = NewChargesOf(k)
    BY <1>3 DEF NewChargesOf
  <2>2. QED
    BY <1>3, <2>1, NewSumKept DEF NewSumStays
<1>4. ASSUME Removes \/ UNCHANGED vars
      PROVE  NewSumStays(k)
  BY <1>3, <1>4 DEF Removes, vars, paystack, history, KeepPaystack, KeepHistory
<1>5. ASSUME NEW p \in Procs, NEW s, Cancels(p, s) \/ Replaces(p, s)
      PROVE  NewSumStays(k)
  BY <1>3, <1>5 DEF Cancels, Replaces, KeepHistory
<1>6. ASSUME NEW p \in Procs, Asks(p) \/ Ends(p) \/ FindsUser(p) \/ FindsCompany(p)
                    \/ Throws(p)
                              \/ FindsCustomer(p)
      PROVE  NewSumStays(k)
  BY <1>3, <1>6 DEF Asks, Ends, FindsUser, FindsCompany, Throws, FindsCustomer, Turns,
                    KeepPaystack, KeepHistory
<1>7. ASSUME NEW p \in Procs, Records(p) \/ Refunds(p) \/ Reports(p) \/ Answers(p)
                              \/ Interrupts(p) \/ Fails(p) \/ \E e \in sent : Delivers(p, e)
      PROVE  NewSumStays(k)
  BY <1>3, <1>7 DEF Records, Refunds, Reports, Answers, Interrupts, Fails, Delivers,
                    KeepPaystack, KeepHistory
<1>8. ASSUME NEW p \in Procs, Credits(p) \/ Writes(p) \/ \E s : Subscribes(p, s)
      PROVE  NewSumStays(k)
  <2>1. /\ charges' = charges
        /\ \A c \in Charges : c # Subject(p) => effects'[c] = effects[c]
    BY <1>8 DEF Credits, Writes, Subscribes, KeepPaystack, Known, TypeOK
  <2>2. Subject(p) \in NewChargesOf(k) => effects'[Subject(p)] = effects[Subject(p)]
    BY <1>8 DEF Credits, Writes, Subscribes, NewChargesOf
  <2>3. \A c \in NewChargesOf(k) : effects'[c] = effects[c]
    BY <2>1, <2>2 DEF NewChargesOf
  <2>4. QED
    BY <1>3, <2>1, <2>3
<1>9. QED
  BY <1>1, <1>2, <1>4, <1>5, <1>6, <1>7, <1>8, StepIs

-----------------------------------------------------------------------------
(* The subscriptions that are active, and those a change owes.              *)

LEMMA Counted ==
    ASSUME Known, NEW k
    PROVE  /\ IsFiniteSet(Active(k)) /\ Cardinality(Active(k)) \in Nat
           /\ IsFiniteSet(Owing(k)) /\ Cardinality(Owing(k)) \in Nat
<1>1. Active(k) \subseteq Subscriptions /\ Owing(k) \subseteq Procs
  BY DEF Active, Owing
<1>2. QED
  BY <1>1, BillingAssumption, FS_Subset, FS_CardinalityType

LEMMA CreatedActive ==
    ASSUME Known, NEW k \in Companies, NEW s, NEW j, NEW n, Created(s, j, n)
    PROVE  /\ k = j => Cardinality(Active(k)') = Cardinality(Active(k)) + 1
           /\ k # j => Active(k)' = Active(k)
<1>1. /\ s \in Subscriptions /\ subscriptions[s] = NoSubscription
      /\ subscriptions' = [subscriptions EXCEPT
                             ![s] = [status |-> "active", customer |-> j, plan |-> n]]
  BY DEF Created
<1>2. s \notin Active(k)
  BY <1>1 DEF Active, NoSubscription
<1>3. Active(k)' = IF k = j THEN Active(k) \union {s} ELSE Active(k)
  BY <1>1, <1>2 DEF Active, Known, TypeOK
<1>4. Cardinality(Active(k) \union {s}) = Cardinality(Active(k)) + 1
  BY <1>2, Counted, FS_AddElement
<1>5. QED
  BY <1>3, <1>4

LEMMA CancelledActive ==
    ASSUME Known, NEW k \in Companies, NEW s, Cancelled(s)
    PROVE  /\ k = subscriptions[s].customer =>
                 Cardinality(Active(k)') = Cardinality(Active(k)) - 1
           /\ k # subscriptions[s].customer => Active(k)' = Active(k)
<1>1. /\ s \in Subscriptions /\ subscriptions[s].status = "active"
      /\ subscriptions' = [subscriptions EXCEPT
                             ![s] = [status |-> "cancelled",
                                     customer |-> subscriptions[s].customer,
                                     plan |-> subscriptions[s].plan]]
  BY DEF Cancelled
<1>2. Active(k)' = Active(k) \ {s}
  BY <1>1 DEF Active, Known, TypeOK
<1>3. s \in Active(k) <=> k = subscriptions[s].customer
  BY <1>1 DEF Active
<1>4. s \in Active(k) => Cardinality(Active(k) \ {s}) = Cardinality(Active(k)) - 1
  BY Counted, FS_RemoveElement
<1>5. QED
  BY <1>2, <1>3, <1>4

\* Whatever p does, the others owe what they did.
LEMMA OwingOfOthers ==
    ASSUME Known, [Next]_vars, NEW k \in Companies, NEW p \in Procs, NEW h, Moves(p, h)
    PROVE  Owing(k)' \ {p} = Owing(k) \ {p}
<1> SUFFICES ASSUME NEW q \in Procs, q # p
             PROVE  q \in Owing(k)' <=> q \in Owing(k)
  BY DEF Owing
<1>1. handlers'[q] = handlers[q] /\ ChargesStay
  BY ChargesStayStep DEF Moves
<1>2. At(q, "subscribe") =>
         /\ charges'[Subject(q)].action = charges[Subject(q)].action
         /\ charges'[Subject(q)].customer = charges[Subject(q)].customer
  <2>1. SUFFICES ASSUME At(q, "subscribe")
                 PROVE  /\ charges'[Subject(q)].action = charges[Subject(q)].action
                        /\ charges'[Subject(q)].customer = charges[Subject(q)].customer
    OBVIOUS
  <2>2. Applies(q, Subject(q))
    BY <2>1, AppliesAt DEF At, Applying
  <2>3. QED
    BY <1>1, <2>2 DEF Applies, ChargesStay
<1>3. QED
  BY <1>1, <1>2 DEF Owing, At, Subject

\* A webhook or a request that does not go on to create a subscription owes none.
LEMMA OwesNothing ==
    ASSUME Known, [Next]_vars, NEW k \in Companies, NEW p \in Procs, NEW h, Moves(p, h),
           h.step \notin {"change_create", "subscribe"}
    PROVE  /\ Cardinality(Owing(k)') <= Cardinality(Owing(k))
           /\ p \in Owing(k) => Cardinality(Owing(k)') = Cardinality(Owing(k)) - 1
<1>1. p \notin Owing(k)'
  BY DEF Owing, Moves, At
<1>2. Owing(k)' = Owing(k) \ {p}
  BY <1>1, OwingOfOthers
<1>3. p \notin Owing(k) => Owing(k) \ {p} = Owing(k)
  OBVIOUS
<1>4. p \in Owing(k) => Cardinality(Owing(k) \ {p}) = Cardinality(Owing(k)) - 1
  BY Counted, FS_RemoveElement
<1>5. Cardinality(Owing(k)) \in Nat
  BY Counted
<1>6. CASE p \in Owing(k)
  <2>1. Cardinality(Owing(k)') = Cardinality(Owing(k)) - 1
    BY <1>2, <1>4, <1>6
  <2>2. QED
    BY <1>5, <2>1
<1>7. CASE p \notin Owing(k)
  <2>1. Cardinality(Owing(k)') = Cardinality(Owing(k))
    BY <1>2, <1>3, <1>7
  <2>2. QED
    BY <1>5, <1>7, <2>1
<1>8. QED
  BY <1>6, <1>7

\* Owing one more is all that one step can add.
LEMMA OwesOne ==
    ASSUME Known, [Next]_vars, NEW k \in Companies, NEW p \in Procs, NEW h, Moves(p, h)
    PROVE  Cardinality(Owing(k)') <= Cardinality(Owing(k)) + 1
<1>1. Owing(k)' = Owing(k) \ {p} \/ Owing(k)' = Owing(k) \union {p}
  BY OwingOfOthers
<1>2. Cardinality(Owing(k)) \in Nat /\ IsFiniteSet(Owing(k))
  BY Counted
<1>3. CASE p \in Owing(k)
  <2>1. Owing(k) \union {p} = Owing(k)
    BY <1>3
  <2>2. Cardinality(Owing(k) \ {p}) = Cardinality(Owing(k)) - 1
    BY <1>2, <1>3, FS_RemoveElement
  <2>3. \/ Cardinality(Owing(k)') = Cardinality(Owing(k)) - 1
        \/ Cardinality(Owing(k)') = Cardinality(Owing(k))
    BY <1>1, <2>1, <2>2
  <2>4. QED
    BY <1>2, <2>3
<1>4. CASE p \notin Owing(k)
  <2>1. Owing(k) \ {p} = Owing(k)
    BY <1>4
  <2>2. Cardinality(Owing(k) \union {p}) = Cardinality(Owing(k)) + 1
    BY <1>2, <1>4, FS_AddElement
  <2>3. \/ Cardinality(Owing(k)') = Cardinality(Owing(k)) + 1
        \/ Cardinality(Owing(k)') = Cardinality(Owing(k))
    BY <1>1, <2>1, <2>2
  <2>4. QED
    BY <1>2, <2>3
<1>5. QED
  BY <1>3, <1>4

-----------------------------------------------------------------------------
(* Subscriptions and charges in balance.                                   *)

Balanced(k) ==
    Cardinality(Active(k)) + Cardinality(Owing(k)) <= SumOfEffects(NewChargesOf(k))

LEMMA BalancedKept ==
    ASSUME Known, NEW k \in Companies, Balanced(k), NewSumStays(k),
           Active(k)' = Active(k),
           \/ Cardinality(Owing(k)') <= Cardinality(Owing(k))
           \/ Owing(k)' = Owing(k)
    PROVE  Balanced(k)'
<1>1. Cardinality(Active(k)') = Cardinality(Active(k))
  OBVIOUS
<1>2. Cardinality(Owing(k)') <= Cardinality(Owing(k))
  <2>1. CASE Owing(k)' = Owing(k)
    <3>1. Cardinality(Owing(k)') = Cardinality(Owing(k))
      BY <2>1
    <3>2. QED
      BY <3>1, Counted
  <2>2. QED
    BY <2>1
<1>3. Owing(k)' \subseteq Procs
  BY DEF Owing
<1>4. Cardinality(Owing(k)') \in Nat
  BY <1>3, BillingAssumption, FS_Subset, FS_CardinalityType
<1>5. SumOfEffects(NewChargesOf(k))' = SumOfEffects(NewChargesOf(k))
  BY DEF NewSumStays
<1>6. QED
  BY <1>1, <1>2, <1>4, <1>5, Counted, NewChargesFinite DEF Balanced

LEMMA BalancedStep ==
    ASSUME Known, UnpaidUntouched, NEW k \in Companies, Balanced(k), [Next]_vars
    PROVE  Balanced(k)'
<1>1. /\ Cardinality(Active(k)) \in Nat /\ Cardinality(Owing(k)) \in Nat
      /\ SumOfEffects(NewChargesOf(k)) \in Nat
  BY Counted, NewChargesFinite
<1>2. /\ Cardinality(Owing(k)') \in Nat /\ Cardinality(Active(k)') \in Nat
  <2>1. Owing(k)' \subseteq Procs /\ Active(k)' \subseteq Subscriptions
    BY DEF Owing, Active
  <2>2. QED
    BY <2>1, BillingAssumption, FS_Subset, FS_CardinalityType
<1>3. \A p \in Procs : \A s : Subscribes(p, s) => At(p, "subscribe")
  BY DEF Subscribes
<1>4. ASSUME \A p \in Procs : \A s : ~ Subscribes(p, s)
      PROVE  NewSumStays(k)
  BY <1>4, NewSumOthers
<1>5. ASSUME NEW p \in Procs, NEW s, Subscribes(p, s)
      PROVE  Balanced(k)'
  <2> DEFINE c == Subject(p)
  <2>1. PICK h : Moves(p, h) /\ h.step \notin {"change_create", "subscribe"}
    BY <1>5 DEF Subscribes, Webhook, Onward
  <2>2. /\ Cardinality(Owing(k)') <= Cardinality(Owing(k))
        /\ p \in Owing(k) => Cardinality(Owing(k)') = Cardinality(Owing(k)) - 1
    BY <2>1, OwesNothing
  <2>3. Created(s, charges[c].customer, charges[c].plan) /\ At(p, "subscribe")
    BY <1>5 DEF Subscribes
  <2>4. CASE charges[c].customer = k /\ charges[c].action = "new_subscription"
    <3>1. SumOfEffects(NewChargesOf(k))' = SumOfEffects(NewChargesOf(k)) + 1
      BY <1>5, <2>4, NewSumSubscribes
    <3>2. Cardinality(Active(k)') = Cardinality(Active(k)) + 1
      BY <2>3, <2>4, CreatedActive
    <3>3. QED
      BY <1>1, <1>2, <2>2, <3>1, <3>2 DEF Balanced
  <2>5. ASSUME ~ (charges[c].customer = k /\ charges[c].action = "new_subscription")
        PROVE  NewSumStays(k)
    <3>1. /\ charges' = charges /\ c \in Charges
          /\ \A d \in Charges : d # c => effects'[d] = effects[d]
      BY <1>5 DEF Subscribes, Applies, Known, TypeOK
    <3>2. NewChargesOf(k)' = NewChargesOf(k)
      BY <3>1 DEF NewChargesOf
    <3>3. \A d \in NewChargesOf(k) : effects'[d] = effects[d]
      BY <2>5, <3>1 DEF NewChargesOf
    <3>4. QED
      BY <3>2, <3>3, NewSumKept DEF NewSumStays
  <2>6. CASE charges[c].customer = k /\ charges[c].action # "new_subscription"
    <3>1. p \in Owing(k)
      BY <1>5, <2>3, <2>6 DEF Subscribes, Owing
    <3>2. Cardinality(Active(k)') = Cardinality(Active(k)) + 1
      BY <2>3, <2>6, CreatedActive
    <3>3. Cardinality(Owing(k)') = Cardinality(Owing(k)) - 1
      BY <2>2, <3>1
    <3>4. SumOfEffects(NewChargesOf(k))' = SumOfEffects(NewChargesOf(k))
      BY <2>5, <2>6 DEF NewSumStays
    <3>5. QED
      BY <1>1, <1>2, <3>2, <3>3, <3>4 DEF Balanced
  <2>7. CASE charges[c].customer # k
    <3>1. Active(k)' = Active(k)
      BY <2>3, <2>7, CreatedActive
    <3>2. QED
      BY <2>2, <2>5, <2>7, <3>1, BalancedKept
  <2>8. QED
    BY <2>4, <2>6, <2>7
<1>6. ASSUME NEW p \in Procs, NEW s, Replaces(p, s)
      PROVE  Balanced(k)'
  <2>1. Moves(p, Idle) /\ Idle.step \notin {"change_create", "subscribe"}
    BY <1>6 DEF Replaces, Idle, Request
  <2>2. /\ Cardinality(Owing(k)') <= Cardinality(Owing(k))
        /\ p \in Owing(k) => Cardinality(Owing(k)') = Cardinality(Owing(k)) - 1
    BY <2>1, OwesNothing
  <2>3. Created(s, handlers[p].company, handlers[p].plan) /\ At(p, "change_create")
    BY <1>6 DEF Replaces
  <2>4. NewSumStays(k)
    <3>1. charges' = charges /\ effects' = effects
      BY <1>6 DEF Replaces, KeepHistory
    <3>2. NewChargesOf(k)' = NewChargesOf(k)
      BY <3>1 DEF NewChargesOf
    <3>3. QED
      BY <3>1, <3>2, NewSumKept DEF NewSumStays
  <2>5. CASE handlers[p].company = k
    <3>1. p \in Owing(k)
      BY <2>3, <2>5 DEF Owing
    <3>2. Cardinality(Active(k)') = Cardinality(Active(k)) + 1
      BY <2>3, <2>5, CreatedActive
    <3>3. Cardinality(Owing(k)') = Cardinality(Owing(k)) - 1
      BY <2>2, <3>1
    <3>4. SumOfEffects(NewChargesOf(k))' = SumOfEffects(NewChargesOf(k))
      BY <2>4 DEF NewSumStays
    <3>5. QED
      BY <1>1, <1>2, <3>2, <3>3, <3>4 DEF Balanced
  <2>6. CASE handlers[p].company # k
    <3>1. Active(k)' = Active(k)
      BY <2>3, <2>6, CreatedActive
    <3>2. QED
      BY <2>2, <2>4, <3>1, BalancedKept
  <2>7. QED
    BY <2>5, <2>6
<1>7. ASSUME NEW p \in Procs, NEW s, Cancels(p, s)
      PROVE  Balanced(k)'
  <2>1. NewSumStays(k)
    <3>1. charges' = charges /\ effects' = effects
      BY <1>7 DEF Cancels, KeepHistory
    <3>2. NewChargesOf(k)' = NewChargesOf(k)
      BY <3>1 DEF NewChargesOf
    <3>3. QED
      BY <3>1, <3>2, NewSumKept DEF NewSumStays
  <2>2. Cancelled(s) /\ \E h : Moves(p, h)
    BY <1>7 DEF Cancels
  <2>3. CASE subscriptions[s].customer = k
    <3>1. Cardinality(Active(k)') = Cardinality(Active(k)) - 1
      BY <2>2, <2>3, CancelledActive
    <3>2. Cardinality(Owing(k)') <= Cardinality(Owing(k)) + 1
      BY <2>2, OwesOne
    <3>3. SumOfEffects(NewChargesOf(k))' = SumOfEffects(NewChargesOf(k))
      BY <2>1 DEF NewSumStays
    <3>4. QED
      BY <1>1, <1>2, <3>1, <3>2, <3>3 DEF Balanced
  <2>4. CASE subscriptions[s].customer # k
    <3>1. Active(k)' = Active(k)
      BY <2>2, <2>4, CancelledActive
    <3>2. p \notin Owing(k)'
      <4>1. CASE At(p, "cancel") /\ Moves(p, Onward(p, "history"))
        BY <4>1 DEF Owing, Moves, Onward, At
      <4>2. CASE /\ At(p, "change_cancel") /\ s = handlers[p].sub /\ ChangeKept(p)
                 /\ Moves(p, Onward(p, "change_create"))
        BY <2>4, <4>2 DEF Owing, Moves, Onward, At, ChangeKept
      <4>3. CASE /\ At(p, "cancel_old") /\ Applies(p, Subject(p)) /\ s = charges[Subject(p)].old
                 /\ charges[Subject(p)].action = "change_plan"
                 /\ Moves(p, Onward(p, "subscribe"))
        <5>1. Subject(p)' = Subject(p) /\ charges' = charges /\ handlers'[p].step = "subscribe"
          BY <1>7, <4>3 DEF Moves, Onward, Subject, Cancels
        <5>2. charges[Subject(p)].customer # k
          BY <2>4, <4>3 DEF Applies
        <5>3. QED
          BY <5>1, <5>2 DEF Owing, At
      <4>4. QED
        BY <1>7, <4>1, <4>2, <4>3 DEF Cancels
    <3>3. Owing(k)' = Owing(k) \ {p}
      BY <2>2, <3>2, OwingOfOthers
    <3>4. CASE p \in Owing(k)
      <4>1. Cardinality(Owing(k) \ {p}) = Cardinality(Owing(k)) - 1
        BY <3>4, Counted, FS_RemoveElement
      <4>2. Cardinality(Owing(k)') <= Cardinality(Owing(k))
        <5>1. Cardinality(Owing(k)') = Cardinality(Owing(k)) - 1
          BY <3>3, <4>1
        <5>2. QED
          BY <1>1, <5>1
      <4>3. QED
        BY <2>1, <3>1, <4>2, BalancedKept
    <3>5. CASE p \notin Owing(k)
      <4>1. Owing(k)' = Owing(k)
        BY <3>3, <3>5
      <4>2. QED
        BY <2>1, <3>1, <4>1, BalancedKept
    <3>6. QED
      BY <3>4, <3>5
  <2>5. QED
    BY <2>3, <2>4
<1>8. ASSUME \A p \in Procs : \A s : ~ Subscribes(p, s) /\ ~ Replaces(p, s) /\ ~ Cancels(p, s)
      PROVE  Balanced(k)'
  <2>1. NewSumStays(k)
    BY <1>8, <1>4
  <2>2. subscriptions' = subscriptions
    <3>1. ASSUME (\E d, charge : Opens(d, charge))
                        \/ (\E d, status, kind : Settles(d, status, kind)) \/ Removes
          PROVE  subscriptions' = subscriptions
      BY <3>1 DEF Opens, Settles, Removes, KeepPaystack
    <3>2. ASSUME NEW p \in Procs, Asks(p) \/ Ends(p) \/ FindsUser(p) \/ FindsCompany(p)
                        \/ Throws(p)
                                  \/ FindsCustomer(p)
          PROVE  subscriptions' = subscriptions
      BY <3>2 DEF Asks, Ends, FindsUser, FindsCompany, Throws, FindsCustomer, Turns,
                  KeepPaystack
    <3>3. ASSUME NEW p \in Procs, Credits(p) \/ Records(p) \/ Writes(p) \/ Refunds(p)
                        \/ Reports(p)
                                  \/ Answers(p) \/ Interrupts(p) \/ Fails(p) \/ \E e \in sent : Delivers(p, e)
          PROVE  subscriptions' = subscriptions
      BY <3>3 DEF Credits, Records, Writes, Refunds, Reports, Answers, Interrupts, Fails,
                  Delivers, KeepPaystack
    <3>4. CASE UNCHANGED vars
      BY <3>4 DEF vars, paystack
    <3>5. QED
      BY <1>8, <3>1, <3>2, <3>3, <3>4, StepIs
  <2>3. Active(k)' = Active(k)
    BY <2>2 DEF Active
  <2>4. ASSUME NEW p \in Procs, NEW h, Moves(p, h),
               h.step \notin {"change_create", "subscribe"}
        PROVE  Balanced(k)'
    <3>1. Cardinality(Owing(k)') <= Cardinality(Owing(k))
      BY <2>4, OwesNothing
    <3>2. QED
      BY <2>1, <2>3, <3>1, BalancedKept
  <2>5. ASSUME handlers' = handlers
        PROVE  Balanced(k)'
    <3>1. \A p \in Procs : p \in Owing(k)' <=> p \in Owing(k)
      <4> SUFFICES ASSUME NEW p \in Procs
                   PROVE  p \in Owing(k)' <=> p \in Owing(k)
        OBVIOUS
      <4>1. CASE At(p, "subscribe")
        <5>1. Applies(p, Subject(p)) /\ ChargesStay
          BY <4>1, AppliesAt, ChargesStayStep DEF At, Applying
        <5>2. /\ charges'[Subject(p)].action = charges[Subject(p)].action
              /\ charges'[Subject(p)].customer = charges[Subject(p)].customer
          BY <5>1 DEF Applies, ChargesStay
        <5>3. QED
          BY <2>5, <5>2 DEF Owing, At, Subject
      <4>2. CASE ~ At(p, "subscribe")
        BY <2>5, <4>2 DEF Owing, At
      <4>3. QED
        BY <4>1, <4>2
    <3>2. Owing(k)' = Owing(k)
      BY <3>1 DEF Owing
    <3>3. QED
      BY <2>1, <2>3, <3>2, BalancedKept
  <2>6. ASSUME (\E d, charge : Opens(d, charge))
                      \/ (\E d, status, kind : Settles(d, status, kind)) \/ Removes
               \/ UNCHANGED vars
        PROVE  Balanced(k)'
    BY <2>5, <2>6 DEF Opens, Settles, Removes, vars
  <2>7. ASSUME NEW p \in Procs, Asks(p) \/ Ends(p) \/ FindsUser(p) \/ Throws(p)
                      \/ FindsCustomer(p)
        PROVE  Balanced(k)'
    BY <2>4, <2>7 DEF Asks, Ends, FindsUser, Throws, FindsCustomer, Turns, Idle, Request,
                      Webhook
  <2>8. ASSUME NEW p \in Procs, FindsCompany(p)
        PROVE  Balanced(k)'
    <3>1. CASE charges[Subject(p)].action # "new_subscription"
      BY <2>4, <2>8, <3>1 DEF FindsCompany, Turns, Webhook
    <3>2. CASE charges[Subject(p)].action = "new_subscription"
      <4>1. /\ handlers'[p].step = "subscribe" /\ handlers'[p].event = handlers[p].event
            /\ charges' = charges /\ \E h : Moves(p, h)
        BY <2>8, <3>2 DEF FindsCompany, Turns, Moves, Webhook, KeepPaystack
      <4>2. p \notin Owing(k)' /\ p \notin Owing(k)
        BY <2>8, <3>2, <4>1 DEF FindsCompany, Owing, At, Subject
      <4>3. Owing(k)' = Owing(k)
        BY <4>1, <4>2, OwingOfOthers
      <4>4. QED
        BY <2>1, <2>3, <4>3, BalancedKept
    <3>3. QED
      BY <3>1, <3>2
  <2>9. ASSUME NEW p \in Procs, Credits(p) \/ Records(p) \/ Writes(p) \/ Refunds(p)
                      \/ Reports(p)
                                \/ Answers(p) \/ Interrupts(p) \/ Fails(p)
        PROVE  Balanced(k)'
    <3>1. \E h : Moves(p, h) /\ h.step \notin {"change_create", "subscribe"}
      BY <2>9 DEF Credits, Records, Writes, Refunds, Reports, Answers, Interrupts, Fails,
                  Idle,
                  Request, Webhook, Onward
    <3>2. QED
      BY <2>4, <3>1
  <2>10. ASSUME NEW p \in Procs, NEW e \in sent, Delivers(p, e)
         PROVE  Balanced(k)'
    <3>1. /\ Moves(p, Webhook(FirstStep(e), e, None)) /\ e \in Event /\ TrueReport(e)
      BY <2>10 DEF Delivers, Known, TypeOK
    <3>2. FirstStep(e) \notin {"change_create", "subscribe"}
      BY <3>1, FirstStepIs DEF Event, Actions
    <3>3. QED
      BY <2>4, <3>1, <3>2 DEF Webhook
  <2>11. QED
    BY <1>8, <2>6, <2>7, <2>8, <2>9, <2>10, StepIs
<1>9. QED
  BY <1>5, <1>6, <1>7, <1>8

LEMMA InitRest ==
    Init => /\ UnpaidUntouched /\ WorkDone /\ RecordedIsApplied
            /\ HandledOnce /\ SettledOnce /\ PlanHasCause
<1> SUFFICES ASSUME Init
             PROVE  /\ UnpaidUntouched /\ WorkDone /\ RecordedIsApplied
                    /\ HandledOnce /\ SettledOnce /\ PlanHasCause
  OBVIOUS
<1>1. \A c \in Charges : Untouched(c)
  BY DEF Init, Untouched
<1>2. \A p \in Procs, c \in Charges : ~ Handles(p, c)
  BY SuccessIs DEF Init, Handles, Idle, Request
<1>3. UnpaidUntouched /\ WorkDone /\ HandledOnce
  BY <1>1, <1>2 DEF UnpaidUntouched, WorkDone, HandledOnce
<1>4. recorded = {} /\ refunded = {} /\ \A k \in Companies : plan[k] = "free"
  BY DEF Init
<1>5. QED
  BY <1>3, <1>4 DEF RecordedIsApplied, SettledOnce, PlanHasCause

LEMMA InitReplacing == Init => Replacing
<1> SUFFICES ASSUME Init, NEW k \in Companies
             PROVE  Cardinality(Active(k)) + Cardinality(Owing(k)) <= SumOfEffects(NewChargesOf(k))
  BY DEF Replacing
<1>1. Active(k) = {}
  BY DEF Init, Active, NoSubscription
<1>2. Owing(k) = {}
  BY DEF Init, Owing, At, Idle, Request
<1>3. Cardinality(Active(k)) + Cardinality(Owing(k)) = 0
  <2>1. Cardinality(Active(k)) = 0
    BY <1>1, FS_EmptySet
  <2>2. Cardinality(Owing(k)) = 0
    BY <1>2, FS_EmptySet
  <2>3. QED
    BY <2>1, <2>2
<1>4. SumOfEffects(NewChargesOf(k)) \in Nat
  BY InitKnown, NewChargesFinite
<1>5. QED
  BY <1>3, <1>4

LEMMA ReplacingStep ==
    ASSUME Known, UnpaidUntouched, Replacing, [Next]_vars
    PROVE  Replacing'
<1> SUFFICES ASSUME NEW k \in Companies
             PROVE  Balanced(k)'
  BY DEF Replacing, Balanced
<1>1. Balanced(k)
  BY DEF Replacing, Balanced
<1>2. QED
  BY <1>1, BalancedStep

LEMMA ReplacingReplaces ==
    ASSUME Known, Replacing
    PROVE  ChangeReplaces
<1> SUFFICES ASSUME NEW k \in Companies
             PROVE  Cardinality(Active(k)) <= SumOfEffects(NewChargesOf(k))
  BY DEF ChangeReplaces, NewChargesOf
<1>1. Cardinality(Active(k)) + Cardinality(Owing(k)) <= SumOfEffects(NewChargesOf(k))
  BY DEF Replacing
<1>2. /\ Cardinality(Active(k)) \in Nat /\ Cardinality(Owing(k)) \in Nat
      /\ SumOfEffects(NewChargesOf(k)) \in Nat
  BY Counted, NewChargesFinite
<1>3. QED
  BY <1>1, <1>2

-----------------------------------------------------------------------------
(* The safety properties of the payments.                                  *)

\* Nothing happens for a charge before the webhook was told that it is paid: no
\* route of the API applies, records or refunds one.
THEOREM UntouchedBeforePaid == Spec => []UnpaidUntouched
<1>1. Init => UnpaidUntouched
  BY InitRest
<1>2. Known /\ UnpaidUntouched /\ [Next]_vars => UnpaidUntouched'
  BY UnpaidUntouchedStep
<1>3. QED
  BY <1>1, <1>2, BillingKnown, PTL DEF Spec

\* No increment of currentTokens is lost or made twice by webhooks that overlap:
\* a balance is the sum of what its top-ups credited.
THEOREM BalancesAddUp == Spec => []BalanceIsLedger
<1>1. Known /\ UnpaidUntouched /\ BalanceIsLedger /\ [Next]_vars => BalanceIsLedger'
  BY LedgerStep
<1>2. QED
  BY <1>1, InitLedger, BillingKnown, UntouchedBeforePaid, PTL DEF Spec

\* When a webhook comes to a later step, the earlier ones left their mark,
\* whatever ran in between.
THEOREM WorkIsDone == Spec => []WorkDone
<1>1. Init => WorkDone
  BY InitRest
<1>2. Known /\ WorkDone /\ [Next]_vars => WorkDone'
  BY WorkDoneStep
<1>3. QED
  BY <1>1, <1>2, BillingKnown, PTL DEF Spec

\* A transaction document is written after what it records, whatever crashed.
THEOREM RecordsAreApplied == Spec => []RecordedIsApplied
<1>1. Init => RecordedIsApplied
  BY InitRest
<1>2. Known /\ WorkDone /\ RecordedIsApplied /\ [Next]_vars => RecordedIsApplied'
  BY RecordedIsAppliedStep
<1>3. QED
  BY <1>1, <1>2, BillingKnown, WorkIsDone, PTL DEF Spec

\* A charge whose success is reported once is handled by one webhook, which alone
\* applies, records or refunds it.
THEOREM ChargesHandledOnce == Spec => []HandledOnce
<1>1. Init => HandledOnce
  BY InitRest
<1>2. Known /\ UnpaidUntouched /\ HandledOnce /\ [Next]_vars => HandledOnce'
  BY HandledOnceStep
<1>3. QED
  BY <1>1, <1>2, BillingKnown, UntouchedBeforePaid, PTL DEF Spec

\* Applying and refunding the same charge takes a second delivery, or a failure
\* half-way through applying it.
THEOREM ChargesSettleOnce == Spec => []SettledOnce
<1>1. Init => SettledOnce
  BY InitRest
<1>2. Known /\ HandledOnce /\ SettledOnce /\ [Next]_vars => SettledOnce'
  BY SettledOnceStep
<1>3. QED
  BY <1>1, <1>2, BillingKnown, ChargesHandledOnce, PTL DEF Spec

\* A plan change never adds a subscription: what a company holds, and what its
\* plan changes still owe it, are the subscriptions its charges created.
THEOREM PlanChangesReplace == Spec => []ChangeReplaces
<1>1. Known /\ UnpaidUntouched /\ Replacing /\ [Next]_vars => Replacing'
  BY ReplacingStep
<1>2. Known /\ Replacing => ChangeReplaces
  BY ReplacingReplaces
<1>3. QED
  BY <1>1, <1>2, InitReplacing, BillingKnown, UntouchedBeforePaid, PTL DEF Spec

\* The plan in the company document is the one of a subscription, or of a payment
\* for an old one; a recorded subscription is undone by a cancellation only.
THEOREM PlansHaveCauses == Spec => []PlanHasCause
<1>1. Init => PlanHasCause
  BY InitRest
<1>2. Known /\ UnpaidUntouched /\ WorkDone /\ PlanHasCause /\ [Next]_vars => PlanHasCause'
  BY PlanHasCauseStep
<1>3. QED
  BY <1>1, <1>2, BillingKnown, UntouchedBeforePaid, WorkIsDone, PTL DEF Spec
=============================================================================
