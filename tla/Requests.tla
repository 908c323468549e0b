------------------------------ MODULE Requests ------------------------------
(***************************************************************************)
(* What stands before the handlers: the filters and limits in the order    *)
(* app.ts mounts them, the store of their violations, and the blacklist.   *)
(*                                                                         *)
(* The limits count in the memory of the process, a window at a time; a    *)
(* refusal is answered at once and counted against the address when its    *)
(* log entry is written, which other requests may overtake.  The check of  *)
(* the violations of an address is exported and not mounted; it acts here  *)
(* as it would if it were.  Suspicious requests are logged and served, so  *)
(* they do not appear; their bodies are not parsed yet when they are       *)
(* looked at.                                                              *)
(***************************************************************************)
EXTENDS Integers, FiniteSets, FiniteSetsExt, Sequences

CONSTANTS
    Ips, Emails,
    Begins,             \* pairs of addresses, the text of one begins that of the other
    Whitelisted,        \* addresses of the host itself
    MaxHits,            \* 1 here; 200, 5000, 20, 50 and 3 in the program
    BlockAfter,         \* 50 violations
    Day, MaxTime,
    MaxRefused,         \* bound: refusals per address and time
    MaxOver,            \* bound: requests the authLimiter counts past the limit
    MaxOpen,            \* bound: requests of an address under way
    None

VARIABLES
    now,
    hits,               \* per limit and client, in the current window
    open,               \* per address, requests the authLimiter counted and not answered
    pending,            \* per address and limit, refusals whose log entry is being written
    violations,         \* violationStore: per address and limit, count and last time
    blacklist,          \* blacklistedIPs
    refused             \* history: per address and time, the refusals

requestVars == <<now, hits, open, pending, violations, blacklist, refused>>

-----------------------------------------------------------------------------
(* A request: its address, the mail of its body, its method, and the path  *)
(* as the filters tell paths apart.                                        *)

\* HEAD stands for OPTIONS, too: preflights and HEAD requests end before the routes.
Methods == {"GET", "POST", "HEAD"}

Paths == {"health", "read", "login", "reset", "admin", "other"}

RequestType == [ip : Ips, email : Emails \union {None}, method : Methods,
                path : Paths, large : BOOLEAN]

\* In the order they are mounted: two for every path, one for the paths of
\* authentication, two in its router.
Limits == <<"burst-protection", "general", "authLimiter", "authentication", "password-reset">>

LimitNames == {"burst-protection", "general", "authLimiter", "authentication",
               "password-reset"}

\* Those with a handler of their own, which records the refusal.
Recording == LimitNames \ {"authLimiter"}

AuthPaths == {"login", "reset"}

\* Reads of the exempt paths are not counted among all requests.
Counts(limit, r) ==
    /\ r.method # "HEAD"
    /\ CASE limit = "burst-protection" -> r.path # "health"
         [] limit = "general" -> r.path \notin {"health", "read"}
         [] limit = "authLimiter" -> r.path \in AuthPaths
         [] limit = "authentication" -> r.path = "login" /\ r.method = "POST"
         [] limit = "password-reset" -> r.path = "reset" /\ r.method = "POST"

\* A login counts for its address with its mail, a reset for its mail alone.
ClientOf(limit, r) ==
    CASE limit = "authentication" -> <<r.ip, r.email>>
      [] limit = "password-reset" -> IF r.email # None THEN <<None, r.email>> ELSE <<r.ip, None>>
      [] OTHER -> <<r.ip, None>>

Clients == (Ips \union {None}) \X (Emails \union {None})

\* ipFiltering, in production, and requestValidation.
Filtered(r) ==
    \/ r.ip \in blacklist
    \/ r.path = "admin" /\ r.ip \notin Whitelisted
    \/ r.large

Exceeds(limit, r) == Counts(limit, r) /\ hits[limit][ClientOf(limit, r)] >= MaxHits

\* The limits a request gets to: those that count it, up to the one that
\* refuses it.
Reached(r) ==
    {Limits[i] : i \in {i \in DOMAIN Limits :
        Counts(Limits[i], r) /\ \A j \in 1..(i - 1) : ~Exceeds(Limits[j], r)}}

\* A count past the limit is kept at it, but the one of the authLimiter, which
\* may be taken back.
Counted(limit, count) ==
    IF limit # "authLimiter" /\ count = MaxHits THEN count ELSE count + 1

\* Every limit the request reaches counts it, the one that refuses it too; a
\* request that none counts changes nothing.
Receive(r) ==
    /\ ~Filtered(r)
    /\ \E reached \in {Reached(r)} : LET refusing == {l \in reached : Exceeds(l, r)} IN
          /\ reached # {}
          /\ "authLimiter" \in reached =>
                /\ hits["authLimiter"][<<r.ip, None>>] < MaxHits + MaxOver
                /\ open[r.ip] < MaxOpen
          /\ hits' = [l \in DOMAIN hits |->
                         IF l \in reached
                         THEN [hits[l] EXCEPT ![ClientOf(l, r)] = Counted(l, @)] ELSE hits[l]]
          /\ open' = IF "authLimiter" \in reached \ refusing
                     THEN [open EXCEPT ![r.ip] = @ + 1] ELSE open
          /\ IF refusing \subseteq {"authLimiter"} THEN UNCHANGED <<pending, refused>>
             ELSE /\ refused[r.ip][now] < MaxRefused
                  /\ \E l \in refusing : pending' = [pending EXCEPT ![r.ip][l] = @ + 1]
                  /\ refused' = [refused EXCEPT ![r.ip][now] = @ + 1]
    /\ UNCHANGED <<now, violations, blacklist>>

\* The authLimiter takes a request back when its answer is a success, from
\* the window of the answer.
Answer(ip, success) ==
    /\ open[ip] > 0
    /\ open' = [open EXCEPT ![ip] = @ - 1]
    /\ LET client == <<ip, None>>
       IN hits' = IF success /\ hits["authLimiter"][client] > 0
                  THEN [hits EXCEPT !["authLimiter"][client] = @ - 1] ELSE hits
    /\ UNCHANGED <<now, pending, violations, blacklist, refused>>

\* The store of express-rate-limit forgets all clients of a limit at once.
WindowEnds(limit) ==
    /\ hits' = [hits EXCEPT ![limit] = [c \in Clients |-> 0]]
    /\ UNCHANGED <<now, open, pending, violations, blacklist, refused>>

-----------------------------------------------------------------------------
(* Violations.                                                             *)

Kinds == Recording \union {"ip-blocked"}

NoViolation == [count |-> 0, last |-> 0]

\* Mutation of Violated: the time of the first violation is kept.
ViolatedSince(v) ==
    [count |-> v.count + 1, last |-> IF v.count = 0 THEN now ELSE v.last]

Violated(v) == [count |-> v.count + 1, last |-> now]

\* logRateLimitViolation goes on when its log entry is written, or failed.
logRateLimitViolation(ip, kind) ==
    /\ pending[ip][kind] > 0
    /\ pending' = [pending EXCEPT ![ip][kind] = @ - 1]
    /\ violations' = [violations EXCEPT ![ip][kind] = Violated(@)]
    /\ UNCHANGED <<now, hits, open, blacklist, refused>>

\* The keys that begin with the address count, and all that an entry counted
\* since it was made if its last violation is recent.
RecentOf(ip) ==
    LET begun == {other \in Ips : <<ip, other>> \in Begins}
        recent == {k \in begun \X Kinds : /\ violations[k[1]][k[2]].count > 0
                                         /\ violations[k[1]][k[2]].last > now - Day}
    IN MapThenSumSet(LAMBDA k : violations[k[1]][k[2]].count, recent)

\* A request of an address that is blocked is a violation of its own.
checkViolationHistory(ip) ==
    /\ refused[ip][now] < MaxRefused
    /\ RecentOf(ip) > BlockAfter
    /\ pending' = [pending EXCEPT ![ip]["ip-blocked"] = @ + 1]
    /\ refused' = [refused EXCEPT ![ip][now] = @ + 1]
    /\ UNCHANGED <<now, hits, open, violations, blacklist>>

cleanupViolationStore ==
    /\ violations' = [ip \in Ips |-> [k \in Kinds |->
                         IF violations[ip][k].last < now - Day THEN NoViolation
                         ELSE violations[ip][k]]]
    /\ UNCHANGED <<now, hits, open, pending, blacklist, refused>>

Elapse ==
    /\ now < MaxTime
    /\ now' = now + 1
    /\ UNCHANGED <<hits, open, pending, violations, blacklist, refused>>

blacklistIP(ip) ==
    /\ blacklist' = blacklist \union {ip}
    /\ UNCHANGED <<now, hits, open, pending, violations, refused>>

removeFromBlacklist(ip) ==
    /\ blacklist' = blacklist \ {ip}
    /\ UNCHANGED <<now, hits, open, pending, violations, refused>>

clearBlacklist ==
    /\ blacklist' = {}
    /\ UNCHANGED <<now, hits, open, pending, violations, refused>>

-----------------------------------------------------------------------------
RequestsInit ==
    /\ now = 1 /\ blacklist = {}
    /\ hits = [l \in LimitNames |-> [c \in Clients |-> 0]]
    /\ open = [ip \in Ips |-> 0]
    /\ pending = [ip \in Ips |-> [k \in Kinds |-> 0]]
    /\ violations = [ip \in Ips |-> [k \in Kinds |-> NoViolation]]
    /\ refused = [ip \in Ips |-> [t \in 1..MaxTime |-> 0]]

RequestsNext ==
    \/ \E r \in RequestType : Receive(r)
    \/ \E ip \in Ips :
          \/ \E success \in BOOLEAN : Answer(ip, success)
          \/ \E k \in Kinds : logRateLimitViolation(ip, k)
          \/ checkViolationHistory(ip)
          \/ blacklistIP(ip)
          \/ removeFromBlacklist(ip)
    \/ \E l \in LimitNames : WindowEnds(l)
    \/ cleanupViolationStore
    \/ Elapse
    \/ clearBlacklist

-----------------------------------------------------------------------------
(* Plans: what a plan allows of a resource, -1 for any number.             *)

BILLING_PLANS ==
    [free         |-> [applications |-> 2, views |-> 10, controllers |-> 15, users |-> 3,
                       plugins |-> 5, modules |-> 20, deployments |-> 30,
                       viewsPerApp |-> 5, controllersPerApp |-> 8, domainsPerApp |-> 10,
                       secretsPerApp |-> 5, storageGB |-> 1, invocations |-> 10000],
     basic        |-> [applications |-> 5, views |-> 50, controllers |-> 75, users |-> 10,
                       plugins |-> 20, modules |-> 100, deployments |-> 100,
                       viewsPerApp |-> 15, controllersPerApp |-> 20, domainsPerApp |-> 1,
                       secretsPerApp |-> 20, storageGB |-> 5, invocations |-> 50000],
     professional |-> [applications |-> 15, views |-> 200, controllers |-> 300, users |-> 25,
                       plugins |-> 75, modules |-> 500, deployments |-> 500,
                       viewsPerApp |-> 50, controllersPerApp |-> 75, domainsPerApp |-> 3,
                       secretsPerApp |-> 100, storageGB |-> 25, invocations |-> 250000],
     business     |-> [applications |-> 50, views |-> 1000, controllers |-> 1500, users |-> 100,
                       plugins |-> 300, modules |-> 2000, deployments |-> 2000,
                       viewsPerApp |-> 200, controllersPerApp |-> 300, domainsPerApp |-> 10,
                       secretsPerApp |-> 500, storageGB |-> 100, invocations |-> 1000000],
     enterprise   |-> [applications |-> -1, views |-> -1, controllers |-> -1, users |-> -1,
                       plugins |-> -1, modules |-> -1, deployments |-> -1,
                       viewsPerApp |-> -1, controllersPerApp |-> -1, domainsPerApp |-> -1,
                       secretsPerApp |-> -1, storageGB |-> -1, invocations |-> -1]]

\* Dollars a month and a year; that of an enterprise is agreed on.
PLAN_PRICING ==
    [free |-> <<0, 0>>, basic |-> <<19, 190>>, professional |-> <<199, 1990>>,
     business |-> <<599, 5990>>]

\* The numbers in the texts that advertise a plan; the enterprise's are words.
PLAN_FEATURES ==
    LET of(apps, views, controllers, users, plugins, deployments, gb, calls) ==
          [applications |-> apps, views |-> views, controllers |-> controllers,
           users |-> users, plugins |-> plugins, deployments |-> deployments,
           storageGB |-> gb, invocations |-> calls]
    IN [free         |-> of(2, 10, 15, 3, 5, 30, 1, 10000),
        basic        |-> of(5, 50, 75, 10, 20, 100, 5, 50000),
        professional |-> of(15, 200, 300, 25, 75, 500, 25, 250000),
        business     |-> of(50, 1000, 1500, 100, 300, 2000, 100, 1000000)]

isUnlimited(value) == value = -1

isOperationAllowed(plan, resource, count) ==
    LET limit == BILLING_PLANS[plan][resource]
    IN isUnlimited(limit) \/ count < limit

-----------------------------------------------------------------------------
(* Properties.                                                             *)

RefusedOf(ip, times) == MapThenSumSet(LAMBDA t : refused[ip][t], times)

PendingOf(ip) == MapThenSumSet(LAMBDA k : pending[ip][k], Kinds)

\* The store never loses a refusal of the last day, whatever sweeps, windows
\* and entries still being written come between, so that an address with more
\* than BlockAfter of them is blocked; and it never counts a refusal twice, so
\* that an address is blocked for as many refusals, its own or of addresses
\* that begin with it (rateLimiting.middleware.ts 28-36, 186-193, 207-215).
ViolationsKept ==
    \A ip \in Ips :
        /\ RefusedOf(ip, {t \in 1..now : t > now - Day}) <= RecentOf(ip) + PendingOf(ip)
        /\ LET begun == {other \in Ips : <<ip, other>> \in Begins}
           IN RecentOf(ip) <= MapThenSumSet(LAMBDA o : RefusedOf(o, 1..now) - PendingOf(o), begun)

\* A plan that costs more allows whatever a cheaper one allows, of every
\* resource but the domains of an application (billingPlans.ts 54-249, 381).
PlansGrow ==
    LET rank == <<"free", "basic", "professional", "business", "enterprise">>
        growing == DOMAIN BILLING_PLANS["free"] \ {"domainsPerApp"}
        limits == UNION {{BILLING_PLANS[p][r] : r \in growing} : p \in DOMAIN BILLING_PLANS}
    IN \A i, j \in DOMAIN rank, r \in growing, n \in {m \in limits : m >= 0} :
          i < j /\ isOperationAllowed(rank[i], r, n) => isOperationAllowed(rank[j], r, n)

\* What is advertised of a plan is what it allows, to the last one, and a plan
\* with more of anything costs more, in every period.
AdvertisedIsAllowed ==
    \A p \in DOMAIN PLAN_FEATURES, r \in DOMAIN PLAN_FEATURES["free"] :
        LET n == PLAN_FEATURES[p][r] IN
        /\ isOperationAllowed(p, r, n - 1) /\ ~ isOperationAllowed(p, r, n)
        /\ \A q \in DOMAIN PLAN_PRICING, i \in 1..2 :
              isOperationAllowed(q, r, n) <=> PLAN_PRICING[q][i] > PLAN_PRICING[p][i]
=============================================================================
