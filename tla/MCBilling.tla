----------------------------- MODULE MCBilling -----------------------------
(* Instances of Billing for TLC.  Top-ups and subscriptions touch disjoint  *)
(* documents: the initial state picks what the clients use, and whether the *)
(* company may be deleted.                                                 *)
EXTENDS Billing, TLC

CONSTANTS u1, k1, c1, c2, s1, s2, s3, basic, pro, p1, p2

VARIABLE scenario

Scenarios == {"tokens", "plans", "faults"}

\* Every user belongs to the one company.
MCCompanyOf == [u \in Users |-> k1]

\* With a whole period left, a change between plans of one price is free.
MCPrice == [n \in Plans |-> IF n = basic THEN 1 ELSE 2]

MCInit == Init /\ scenario \in Scenarios

\* The first charge subscribes to the basic plan, the second does anything else.
MCOffered(c) ==
    CASE scenario = "tokens" -> charges[c].action = "topUp"
      [] scenario = "plans"  -> /\ charges[c].action # "topUp"
                                /\ c = c1 => /\ charges[c].action = "new_subscription"
                                             /\ charges[c].plan = basic
      [] OTHER -> charges[c].action = IF c = c1 THEN "new_subscription"
                                      ELSE "change_plan"

\* Paystack hands the codes out in order.
MCCodesInOrder ==
    /\ subscriptions[s2].status # "none" => subscriptions[s1].status # "none"
    /\ subscriptions[s3].status # "none" => subscriptions[s2].status # "none"

\* p1 runs the routes, and p2 the webhooks that report on a subscription.
MCStep ==
    /\ scenario' = scenario
    /\ MCCodesInOrder'
    /\ \A c \in Charges : charges'[c].status # "none" => MCOffered(c)'
    /\ scenario # "tokens" =>
          /\ users' = users
          /\ \A c \in Charges : charges'[c].status # "failed"
          /\ handlers'[p1].step \notin {"find_customer", "upgrade", "downgrade"}
          /\ handlers'[p2].step \notin {"change_cancel", "cancel"}
    /\ scenario = "plans" => /\ faults' = faults /\ companies' = companies
                             /\ subscriptions'[s3].status = "none"
    /\ scenario = "faults" => /\ handlers'[p1].step \notin {"change_cancel", "cancel"}

MCNext == Next /\ MCStep

MCFairSpec ==
    /\ MCInit
    /\ [][MCNext]_<<vars, scenario>>
    /\ \A p \in Procs : WF_vars(Proceed(p))
    /\ \A e \in Event : WF_vars(\E p \in Procs : Deliver(p, e))
=============================================================================
