----------------------------- MODULE MCServices -----------------------------
(***************************************************************************)
(* The services around the core, side by side: in every behaviour one of   *)
(* them runs, chosen by part, and the others rest in their initial states. *)
(* The parts "starts", "events" and "backups" are the session tracker,     *)
(* "waitlist", "ways" and "connections" the accounts.  The computations    *)
(* have no steps: their input is sample.                                   *)
(***************************************************************************)
EXTENDS Sessions, TLC

CONSTANTS
    h1, d1, d2, x1, e1, e2, g1, f1, f2, v1, p1, p2,             \* Sessions
    Users, Domain, Providers, Services, WhitelistEnabled, ClaudeConfigured,
    MaxRetries, Loops,                                          \* ValidationReports
    Ips, Emails, Begins, Whitelisted, MaxHits, BlockAfter, Day, MaxTime,
    MaxRefused, MaxOver, MaxOpen,                               \* Requests
    i1, i2,
    KeyIds, Companies, Addresses, Workers, MaxVersion,            \* ApiKeys
    Lower, Exempt,                                              \* References
    c1, c2, t1, t2                                              \* Analytics

ASSUME AccountsAssumption ==
    /\ IsFiniteSet(Users) /\ None \notin Users /\ WhitelistEnabled \in BOOLEAN
    /\ {"figma", "claude", "atlassian"} \subseteq Services

\* A task is tried once at least.  That powers of two double is arithmetic, said
\* here because the provers know nothing of exponents.
ASSUME ReportsAssumption ==
    /\ MaxRetries \in Nat \ {0}
    /\ Loops \subseteq Nat
    /\ 2 ^ 0 = 1 /\ \A n \in 0..MaxRetries : 2 ^ n \in Nat /\ 2 ^ (n + 1) = 2 ^ n + 2 ^ n

\* Every address begins with itself, and there are finitely many.
ASSUME RequestsAssumption ==
    /\ IsFiniteSet(Ips) /\ \A ip \in Ips : <<ip, ip>> \in Begins
    /\ Day \in Nat /\ MaxTime \in Nat \ {0}

\* Two conversations have two identifiers.
ASSUME HistoriesAssumption == c1 # c2

VARIABLES
    part, sample,
    entries, accounts, handlers, together, intruders, proven, granted,
    task, config, environment, byHand,
    now, hits, open, pending, violations, blacklist, refused,
    keys, workers, made

Accounts == INSTANCE Accounts
Reports == INSTANCE ValidationReports
Requests == INSTANCE Requests
ApiKeys == INSTANCE ApiKeys
References == INSTANCE References
Analytics == INSTANCE Analytics

accountVars == <<entries, accounts, handlers, together, intruders, proven, granted>>

reportVars == <<task, config, environment, byHand>>

requestVars == <<now, hits, open, pending, violations, blacklist, refused>>

keyVars == <<keys, workers, made>>

serviceVars == <<part, sample, sessionVars, accountVars, reportVars, requestVars, keyVars>>

-----------------------------------------------------------------------------
(* The tracker: one instance for every group of its routes.                *)

MCCarriedKey == [s \in ClientIds |-> <<"hashed", h1>>]

MCStartSteps == {"idle", "find_existing", "find_previous", "insert", "touch", "update"}

MCEventSteps == {"idle", "find_existing", "find_previous", "insert", "recover", "close", "save_event"}

MCBackupSteps == {"idle", "minimal", "find_backup", "save_backup", "clear"}

MCTrackerStep ==
    /\ SessionsNext
    /\ \A p \in Procs : procs'[p] # procs[p] =>
          CASE part = "starts" -> /\ procs'[p].step \in MCStartSteps \union {"save_event"}
                                  /\ procs'[p].event # None => procs'[p].event.kind = "tab_close"
                                  /\ procs'[p].id # x1
                                  /\ procs'[p].key \in {None, <<"hashed", h1>>}
            [] part = "events" -> /\ procs'[p].step \in MCEventSteps
                                  /\ procs'[p].id \in {None, d1, x1}
            [] part = "backups" -> /\ procs'[p].step \in MCBackupSteps
                                   /\ procs'[p].id \in {None, x1}

(* Accounts: the waitlist, the ways into an account, and its connections.  *)

MCJoinSteps == {"join_position", "join_save"}

MCConnectSteps == {"exchange", "connect"}

MCAccountSteps ==
    CASE part = "waitlist" -> {"idle"} \union MCJoinSteps
      [] part = "ways" -> Accounts!Steps \ (MCJoinSteps \union MCConnectSteps)
      [] part = "connections" -> {"idle"} \union MCConnectSteps

\* Outside the waitlist one address is enough, whose document changes twice; in
\* "ways" its entry is whitelisted or there is none, and an account with a
\* password has one provider at most, which changes once.
MCAccountsStep ==
    /\ Accounts!AccountsNext
    /\ \A p \in Procs : /\ handlers'[p].step \in MCAccountSteps
                        /\ part # "waitlist" => handlers'[p].user \in {None, CHOOSE u \in Users : TRUE}
    /\ \A u \in Users :
          /\ entries'[u].position <= 3 /\ accounts'[u].version <= 2
          /\ part = "waitlist" => accounts'[u] = Accounts!NoAccount
          /\ part = "ways" => /\ accounts'[u].connected = {}
                              /\ entries'[u].exists = entries'[u].whitelisted
                              /\ accounts'[u].hasPassword
                                    => /\ Cardinality(accounts'[u].providers) <= 1
                                       /\ accounts'[u].version <= 1
          /\ part = "connections" => entries'[u] = Accounts!NoEntry
          /\ part # "waitlist" /\ u # (CHOOSE x \in Users : TRUE)
                => accounts'[u] = Accounts!NoAccount /\ entries'[u] = Accounts!NoEntry

(* Requests: one address makes every call, the other only reads, and is on *)
(* the blacklist only before anything is refused; two refusals, of a read, *)
(* a login or another call, or of an address with violations.              *)

MCBegins == {<<i1, i1>>, <<i2, i2>>, <<i1, i2>>}

MCRefusals == 2

MCRefused ==
    LET of(ip) == refused[ip][1] + refused[ip][2] + refused[ip][3] IN of(i1) + of(i2)

MCRequestsStep ==
    /\ Requests!RequestsNext
    /\ MCRefused' <= MCRefusals
    /\ hits'["general"][<<i2, None>>] = 0
    /\ hits'["burst-protection"][<<i1, None>>] <= hits'["general"][<<i1, None>>]
    /\ pending'[i2]["ip-blocked"] = 0 /\ pending'[i1]["password-reset"] = 0
    /\ \/ MCRefused' = 0 /\ now' = 1 /\ blacklist' \subseteq {i2}
       \/ /\ blacklist' = {} /\ (open'[i1] > 0 => pending'[i1]["authentication"] > 0)
          /\ hits'["authLimiter"][<<i1, None>>] <= MaxHits

-----------------------------------------------------------------------------
(* Applications: two views and a controller; their code refers to what is  *)
(* there and to what is not, in the case the names have and another.       *)

MCNames == {"home", "Home", "cart", "gone", "Gone", "e1", "e2", "E9"}

MCLower == [n \in MCNames |-> CASE n = "Home" -> "home" [] n = "Gone" -> "gone"
                                [] n = "E9" -> "e9" [] OTHER -> n]

MCRef(kind, target, method) == [kind |-> kind, target |-> target, method |-> method]

MCRefs == {MCRef("view", "home", None), MCRef("view", "Gone", None), MCRef("view", "gone", None),
           MCRef("endpoint", "/a", "GET"), MCRef("endpoint", "/a", "POST"),
           MCRef("endpoint", "/b", "GET"), MCRef("plugin", "lost", None)}

MCCodes(n) == [refs : UNION {[1..k -> MCRefs] : k \in 0..n}, bearer : BOOLEAN]

MCElement(id, event, code, settings) ==
    [id |-> id, handlers |-> [e \in {event} |-> <<[executeCode |-> code, code |-> code]>>],
     settings |-> settings]

MCApplication(code, other, settings, plugins) ==
    [views |-> << [id |-> "home", names |-> {}, layout |-> <<MCElement("e1", "onClick", code, settings)>>],
                  [id |-> "cart", names |-> {}, layout |-> <<MCElement("e2", "onLoad", other, <<>>)>>],
                  [id |-> None, names |-> {}, layout |-> <<>>] >>,
     controllers |-> << [id |-> "a", method |-> "GET", path |-> "/a", plugins |-> plugins,
                         steps |-> <<[refs |-> <<MCRef("plugin", "lost", None)>>, bearer |-> FALSE]>>] >>,
     plugins |-> plugins, available |-> plugins]

MCApplications ==
    {MCApplication(code, other, settings, plugins) :
        code \in MCCodes(2), other \in {c \in MCCodes(1) : ~c.bearer},
        settings \in {<<>>, <<MCRef("view", "Gone", None)>>, <<MCRef("element", "E9", None)>>},
        plugins \in {{}, {"auth"}}}

\* A name is the name of something.
ASSUME ApplicationsAssumption == None \notin MCNames \union {r.target : r \in MCRefs}

(* Histories of use: two conversations and an execution, with at most a     *)
(* message each, or of applications and users that are named in part; or   *)
(* one conversation and an execution of two tasks.                         *)

MCTokens(i, o) == [in |-> i, out |-> o]

MCMessages(c) ==
    {{}} \union {{[id |-> c, day |-> d, tokens |-> t]} :
                    d \in {1, 2, None}, t \in {None, MCTokens(1, 1)}}

\* An identifier, and documents of two applications, of one name or renamed.
MCBare == [value |-> "a", id |-> None, name |-> None]

MCShop(id, name) == [value |-> None, id |-> id, name |-> name]

MCUsers == {"user", "userId"}

MCConversations(c) ==
    UNION {[id : {c}, day : {1, 2}, app : {MCBare}, found : {MCUsers}, status : {"done", "error"},
            tokens : {MCTokens(1, 0)}, messages : {ms}] : ms \in MCMessages(c)}

MCNamed(c) ==
    [id : {c}, day : {1, 2},
     app : {MCBare, MCShop("b", "shop"), MCShop("b", "store"), MCShop("c", "shop")},
     found : SUBSET MCUsers \ {{}}, status : {"done"}, tokens : {MCTokens(1, 0)},
     messages : {{}, {[id |-> c, day |-> None, tokens |-> MCTokens(1, 1)]}}]

MCPlain == [id |-> c1, day |-> 1, app |-> MCBare, found |-> MCUsers, status |-> "done",
            tokens |-> MCTokens(1, 0), messages |-> {}]

MCTask == [type : {"code"}, done : {TRUE}, tokens : {None, MCTokens(1, 1)}, time : {None, 1}]

MCRecord == [tokens : {None, MCTokens(2, 2)}, time : {None, 2}]

MCExecution == [id |-> 1, conversation |-> c1, day |-> 2, hour |-> 1, outcome |-> "completed",
                duration |-> 1, map |-> <<>>, status |-> <<>>]

MCExecutionsOf(D, E) ==
    [id : {1}, conversation : {c1}, day : {1, 2, 3}, hour : {1},
     outcome : {"failed", "completed"}, duration : {1},
     map : [D -> MCTask], status : [E -> MCRecord]]

MCExecutions == UNION {MCExecutionsOf(D, E) : D, E \in SUBSET {t1, t2}}

MCHistories ==
    {[conversations |-> {c, d}, executions |-> {MCExecution}] :
        c \in MCConversations(c1), d \in MCConversations(c2)}
    \union {[conversations |-> {c, d}, executions |-> {MCExecution}] :
        c \in MCNamed(c1), d \in MCNamed(c2)}
    \union {[conversations |-> {MCPlain}, executions |-> {e}] : e \in MCExecutions}
    \union {[conversations |-> {}, executions |-> {}]}

\* With no end of a range it starts on the second day.
MCToday == 32

MCQueries == {[first |-> f, last |-> l, apps |-> apps] :
                 f \in {None, 1}, l \in {2, 3}, apps \in {{}, {"a"}}}

-----------------------------------------------------------------------------
MCInit ==
    /\ SessionsInit /\ Accounts!AccountsInit /\ Reports!ReportsInit
    /\ Requests!RequestsInit /\ ApiKeys!KeysInit
    /\ \/ /\ part \in {"starts", "events", "backups", "waitlist", "ways", "connections",
                       "reports", "settings", "requests", "keys", "plans"}
          /\ sample = None
       \/ part = "applications" /\ sample \in MCApplications
       \/ part = "histories" /\ sample \in MCHistories
    /\ part # "settings" => DOMAIN environment = {}

MCNext ==
    /\ UNCHANGED <<part, sample>>
    /\ IF part \in {"starts", "events", "backups"} THEN MCTrackerStep ELSE UNCHANGED sessionVars
    /\ IF part \in {"waitlist", "ways", "connections"} THEN MCAccountsStep
       ELSE UNCHANGED accountVars
    /\ CASE part = "reports" -> Reports!TaskNext
         [] part = "settings" -> Reports!SettingsNext
         [] OTHER -> UNCHANGED reportVars
    /\ IF part = "requests" THEN MCRequestsStep ELSE UNCHANGED requestVars
    /\ IF part = "keys" THEN ApiKeys!KeysNext ELSE UNCHANGED keyVars

MCSpec == MCInit /\ [][MCNext]_serviceVars

MCSymmetry == Permutations(Procs) \union Permutations(Providers)

-----------------------------------------------------------------------------
(* Properties.                                                             *)

\* The tracker keeps its sessions whole (Sessions!TrackerSafe).
TrackerHolds == part \in {"starts", "events", "backups"} => SessionsTypeOK /\ TrackerSafe

\* The waitlist, the whitelist and the ways into an account (Accounts!AccountsSafe).
AccountsHold == part \in {"waitlist", "ways", "connections"} => Accounts!AccountsSafe

\* The retries of a fix task end, with an error that nobody retries
\* (ValidationReports!RetriesEnd); and a validation that is on runs, whatever
\* was applied to it in whatever order, but for what was set by hand
\* (ValidationReports!EnabledRuns).
ReportsHold ==
    /\ part = "reports" => Reports!RetriesEnd
    /\ part = "settings" => Reports!EnabledRuns

\* What is refused is counted for a day, once (Requests!ViolationsKept).
RefusalsKept == part = "requests" => Requests!ViolationsKept

\* A key that was withdrawn stays withdrawn (ApiKeys!WithdrawnStays).
KeysWithdrawn == ApiKeys!WithdrawnStays

\* For every application the diagnosis is complete, agrees with the analyser
\* where it can, and the report made of the analysis leaves nothing out.
ReferencesHold ==
    part = "applications" => /\ References!DiagnosisComplete(sample)
                             /\ References!AnalysersAgree(sample)
                             /\ Reports!ReportComplete(References!analyze(sample))

\* The numbers shown to users: those of the dashboard agree with each other,
\* whichever way the use of tokens is split and whichever route shows them, its
\* pages hold every row once and its trend compares sums (Analytics), and a plan
\* that costs more allows more, as advertised (Requests!PlansGrow).
NumbersHold ==
    /\ part = "histories" => /\ Analytics!TotalsAgree(sample)
                             /\ Analytics!DaysAgree(sample)
                             /\ Analytics!GroupsAgree(sample)
                             /\ Analytics!CutLosesExecutions(sample, 1, 3)
                             /\ \A query \in MCQueries :
                                   Analytics!RoutesAgree(sample, query, MCToday)
    /\ part = "plans" => /\ Requests!PlansGrow /\ Requests!AdvertisedIsAllowed
                         /\ Analytics!TrendComparesSums
                         /\ \A n \in 0..5, width \in 1..6 :
                               Analytics!PagesAgree([i \in 1..n |-> i], width)
=============================================================================
