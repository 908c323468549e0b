----------------------------- MODULE Analytics -----------------------------
(***************************************************************************)
(* The usage reports of a user: operators over the conversations, their    *)
(* messages, and the executions they led to, as the routes under           *)
(* /users/analytics compute them.                                          *)
(*                                                                         *)
(* A conversation, a message and an execution are records with an          *)
(* identifier.  Tokens are [in, out]; costs are millionths of a dollar and *)
(* rates are kept as the two counts they divide.  Of a conversation's      *)
(* currentApplication the reports read three things, which need not go     *)
(* together: app.value, what a filter compares; app.id and app.name, those *)
(* of an embedded document.  found has the fields that name the user.      *)
(***************************************************************************)
EXTENDS Integers, Sequences, FiniteSets, FiniteSetsExt, SequencesExt

CONSTANT None

Size(t) == IF t = None THEN 0 ELSE t.in + t.out

Cost(t) == IF t = None THEN 0 ELSE 3 * t.in + 15 * t.out

NoTokens == [in |-> 0, out |-> 0]

Plus(t, u) == IF u = None THEN t ELSE [in |-> t.in + u.in, out |-> t.out + u.out]

-----------------------------------------------------------------------------
(* What a report is about.                                                 *)

InRange(docs, range) == {d \in docs : range.first <= d.day /\ d.day <= range.last}

\* Executions follow their conversations.
ReportOf(db, convs, range) ==
    [conversations |-> InRange(convs, range),
     executions    |-> {e \in InRange(db.executions, range) :
                           e.conversation \in {c.id : c \in InRange(convs, range)}}]

FoundBy(convs, field) == {c \in convs : field \in c.found}

\* getUserAnalyticsDashboard: an empty list of applications is no filter.
Dashboard(db, filters) ==
    ReportOf(db, {c \in FoundBy(db.conversations, "user") :
                     filters.apps # {} => c.app.value \in filters.apps}, filters.range)

\* getDetailedAnalyticsData goes by another field of a conversation, and does
\* not look at the applications.
Detailed(db, filters) == ReportOf(db, FoundBy(db.conversations, "userId"), filters.range)

Messages(convs) == UNION {c.messages : c \in convs}

\* The tasks of an execution's map, and those a status is recorded of.
Mapped(e) == DOMAIN e.map

Recorded(e) == DOMAIN e.status

-----------------------------------------------------------------------------
(* calculateTokenAnalytics.                                                *)

\* Every message, every recorded task and every task of a map.
Total(report, Of(_)) ==
    SumFunction([m \in Messages(report.conversations) |-> Of(m.tokens)])
    + SumFunction([e \in report.executions |->
          SumFunction([t \in Recorded(e) |-> Of(e.status[t].tokens)])
          + SumFunction([t \in Mapped(e) |-> Of(e.map[t].tokens)])])

TotalTokens(report) == Total(report, Size)

TotalCost(report) == Total(report, Cost)

\* A message without a time belongs to the day of its conversation.
MessageDay(c, m) == IF m.day = None THEN c.day ELSE m.day

MessagesOf(c, d) == {m \in c.messages : MessageDay(c, m) = d}

Days(convs) == UNION {{c.day} \union {MessageDay(c, m) : m \in c.messages} : c \in convs}

DayOf(report, d) ==
    LET convs == report.conversations IN
    [day |-> d,
     tokens |-> SumFunction([c \in convs |->
                   SumFunction([m \in MessagesOf(c, d) |-> Size(m.tokens)])]),
     cost |-> SumFunction([c \in convs |->
                   SumFunction([m \in MessagesOf(c, d) |-> Cost(m.tokens)])]),
     conversations |-> Cardinality({c \in convs : c.day = d}),
     executions |-> Cardinality({e \in report.executions : e.day = d})]

\* The elements of S, those of a lower rank first.
Ranked(S, rank) ==
    CHOOSE s \in SetToSeqs(S) : \A i, j \in DOMAIN s : i < j => rank[s[i]] <= rank[s[j]]

Ascending(S, field) == Ranked(S, [x \in S |-> x[field]])

Descending(S, field) == Ranked(S, [x \in S |-> 0 - x[field]])

FirstTen(s) == SubSeq(s, 1, Min({10, Len(s)}))

\* One entry per day of a conversation or message, in order; an execution of
\* another day is not counted.
DailyUsage(report) ==
    Ascending({DayOf(report, d) : d \in Days(report.conversations)}, "day")

\* Months add up the counters of the conversations themselves; monthOf is the
\* month of a day.
MonthlyUsage(report, monthOf) ==
    {[month |-> monthOf[c.day],
      tokens |-> SumFunction([x \in {x \in report.conversations : monthOf[x.day] = monthOf[c.day]}
                                 |-> Size(x.tokens)]),
      conversations |-> Cardinality({x \in report.conversations : monthOf[x.day] = monthOf[c.day]})]
       : c \in report.conversations}

\* One model is assumed.
ModelBreakdown(report) ==
    [tokens |-> TotalTokens(report), cost |-> TotalCost(report),
     uses |-> Cardinality(report.conversations)]

-----------------------------------------------------------------------------
(* calculateConversationAnalytics and generateChartData.                   *)

OfStatus(convs, status) == {c \in convs : c.status = status}

\* The conversations that have the key k.
Group(convs, key, k) == {c \in convs : key[c] = k}

GroupOf(convs, key, k) ==
    [key |-> k,
     count |-> Cardinality(Group(convs, key, k)),
     succeeded |-> Cardinality(Group(OfStatus(convs, "done"), key, k)),
     tokens |-> SumFunction([c \in Group(convs, key, k) |-> Size(c.tokens)])]

Grouped(convs, key) == {GroupOf(convs, key, k) : k \in {key[c] : c \in convs}}

AppId(c) == IF c.app.id = None THEN "unknown" ELSE c.app.id

AppName(c) == IF c.app.name = None THEN "Unknown" ELSE c.app.name

ConversationsByApplication(convs) == Grouped(convs, [c \in convs |-> AppId(c)])

\* The charts and the insights go by the name, which several may have.
ApplicationsByName(convs) == Grouped(convs, [c \in convs |-> AppName(c)])

ConversationsByStatus(convs) == Grouped(convs, [c \in convs |-> c.status])

ExecutionsOf(report, id) == {e \in report.executions : e.conversation = id}

\* The ten latest, with what they executed.
RecentConversations(report) ==
    LET latest == FirstTen(Descending(report.conversations, "day"))
    IN [i \in DOMAIN latest |->
          [id |-> latest[i].id, day |-> latest[i].day,
           steps |-> Cardinality(ExecutionsOf(report, latest[i].id))]]

DailyTokenUsage(convs) == Grouped(convs, [c \in convs |-> c.day])

ConversationTrends(convs) ==
    {[day |-> g.key, count |-> g.count, succeeded |-> g.succeeded] : g \in DailyTokenUsage(convs)}

ExecutionPerformance(execs) ==
    {[day |-> d,
      count |-> Cardinality({e \in execs : e.day = d}),
      succeeded |-> Cardinality({e \in execs : e.day = d /\ e.outcome = "completed"}),
      time |-> SumFunction([e \in {e \in execs : e.day = d} |-> e.duration])]
       : d \in {e.day : e \in execs}}

\* The ten that were used most.
TopApplications(convs) ==
    FirstTen(Descending(ApplicationsByName(convs), "count"))

-----------------------------------------------------------------------------
(* calculateExecutionAnalytics.                                            *)

Complexity(steps) ==
    CASE steps > 50 -> "very_complex"
      [] steps > 20 /\ steps <= 50 -> "complex"
      [] steps > 10 /\ steps <= 20 -> "moderate"
      [] OTHER -> "simple"

MapOf(report, id) ==
    LET steps == Cardinality(ExecutionsOf(report, id))
    IN [conversation |-> id, steps |-> steps,
        time |-> SumFunction([e \in ExecutionsOf(report, id) |-> e.duration]),
        complexity |-> Complexity(steps)]

BiggestExecutionMaps(report) ==
    FirstTen(Descending({MapOf(report, id) : id \in {e.conversation : e \in report.executions}},
                        "steps"))

\* A recorded task has the type that the map gives it.
TypeOf(e, t) == IF t \in Mapped(e) THEN e.map[t].type ELSE "unknown"

\* Mutation of Unmapped: what is recorded is added to what is mapped.
UnmappedTwice(e, field) == {t \in Recorded(e) : e.status[t][field] # None}

\* What is recorded of a task is added when the map does not have it.
Unmapped(e, field) ==
    {t \in Recorded(e) : /\ e.status[t][field] # None
                         /\ t \in Mapped(e) => e.map[t][field] = None}

MappedOf(e, type) == {t \in Mapped(e) : e.map[t].type = type}

UnmappedOf(e, field, type) == {t \in Unmapped(e, field) : TypeOf(e, t) = type}

StepType(execs, type) ==
    [type |-> type,
     count |-> SumFunction([e \in execs |-> Cardinality(MappedOf(e, type))]),
     succeeded |-> SumFunction([e \in execs |->
                      Cardinality({t \in MappedOf(e, type) : e.map[t].done})]),
     tokens |-> SumFunction([e \in execs |->
                   SumFunction([t \in MappedOf(e, type) |-> Size(e.map[t].tokens)])
                   + SumFunction([t \in UnmappedOf(e, "tokens", type) |-> Size(e.status[t].tokens)])]),
     time |-> SumFunction([e \in execs |->
                 SumFunction([t \in {t \in MappedOf(e, type) : e.map[t].time # None} |-> e.map[t].time])
                 + SumFunction([t \in UnmappedOf(e, "time", type) |-> e.status[t].time])])]

TypesOf(e) == {TypeOf(e, t) : t \in Mapped(e) \union Recorded(e)}

ExecutionsByType(execs) ==
    {StepType(execs, type) : type \in UNION {TypesOf(e) : e \in execs}}

\* The average of nothing is 0.
AverageExecutionTime(execs) ==
    IF execs = {} THEN 0 ELSE SumFunction([e \in execs |-> e.duration]) \div Cardinality(execs)

PeakUsageHours(execs) ==
    Descending({[hour |-> h, count |-> Cardinality({e \in execs : e.hour = h})]
                   : h \in {e.hour : e \in execs}}, "count")

-----------------------------------------------------------------------------
(* getDetailedAnalyticsData: the tasks of the map, then the recorded ones   *)
(* that are not among them.                                                *)

StepsOf(e) ==
    {[execution |-> e.id, task |-> t, tokens |-> e.map[t].tokens] : t \in Mapped(e)}
    \union {[execution |-> e.id, task |-> t, tokens |-> e.status[t].tokens]
               : t \in Recorded(e) \ Mapped(e)}

ExecutionSteps(report) == UNION {StepsOf(e) : e \in report.executions}

TotalTokensFromMessages(report) ==
    SumFunction([m \in Messages(report.conversations) |-> Size(m.tokens)])

TotalTokensFromExecutions(report) ==
    SumFunction([s \in ExecutionSteps(report) |-> Size(s.tokens)])

\* A page; a limit of 0 is the default, as is a missing one.
DefaultLimit == 50

PageOf(items, offset, limit) ==
    LET width == IF limit = 0 THEN DefaultLimit ELSE limit
    IN [items |-> SubSeq(items, offset + 1, Min({offset + width, Len(items)})),
        more  |-> offset + width < Len(items)]

-----------------------------------------------------------------------------
(* generateInsights.                                                       *)

SumCost(days, first, last) == SumFunction([i \in first .. last |-> days[i].cost])

\* The last three days of seven or more against the four before them.
CostEfficiencyTrend(days) ==
    LET n == Len(days)
        recent == SumCost(days, n - 2, n)
        before == SumCost(days, n - 6, n - 3)
    IN CASE n < 7 -> "stable"
         [] n >= 7 /\ 10 * recent < 9 * before -> "improving"
         [] n >= 7 /\ 10 * recent > 11 * before -> "declining"
         [] OTHER -> "stable"

\* Without conversations the success rate is 100.
SuccessBelow(convs, percent) ==
    100 * (Cardinality(convs) - Cardinality(OfStatus(convs, "error")))
       < percent * Cardinality(convs)

\* The first of the groups that were used most, or a default.
MostUsed(groups, default) ==
    IF groups = {} THEN default
    ELSE (CHOOSE g \in groups : \A h \in groups : h.count <= g.count).key

\* Days of the week.
MostActiveDay(convs) == MostUsed(Grouped(convs, [c \in convs |-> c.day % 7]), 1)

MostUsedApplication(convs) == MostUsed(ApplicationsByName(convs), None)

Dollar == 1000000

Recommendations(report, cost) ==
    (IF SuccessBelow(report.conversations, 90) THEN {"review"} ELSE {})
    \union (IF cost > 50 * Dollar THEN {"monitor"} ELSE {})
    \union (IF Cardinality(report.conversations) > 100 THEN {"archive"} ELSE {})

Alerts(report, cost) ==
    (IF cost > 100 * Dollar THEN {"cost"} ELSE {})
    \union (IF SuccessBelow(report.conversations, 80) THEN {"success"} ELSE {})
    \union (IF 5 * Cardinality({e \in report.executions : e.outcome = "failed"})
               > Cardinality(report.executions) THEN {"failures"} ELSE {})

Insights(report) ==
    [day |-> MostActiveDay(report.conversations),
     app |-> MostUsedApplication(report.conversations),
     trend |-> CostEfficiencyTrend(DailyUsage(report)),
     recommendations |-> Recommendations(report, TotalCost(report)),
     alerts |-> Alerts(report, TotalCost(report))]

-----------------------------------------------------------------------------
(* The routes.  A query has the two ends of a range and the applications.   *)

DefaultDays == 30

\* Without both ends of a range: the last thirty days.
RangeOf(query, today) ==
    IF None \in {query.first, query.last}
    THEN [first |-> today - DefaultDays, last |-> today]
    ELSE [first |-> query.first, last |-> query.last]

getAnalyticsDashboard(db, query, today) ==
    Dashboard(db, [range |-> RangeOf(query, today), apps |-> query.apps])

\* The next three and the insights do not look at the applications.
getTokenAnalytics(db, query, today) ==
    LET report == getAnalyticsDashboard(db, [query EXCEPT !.apps = {}], today)
    IN [total |-> TotalTokens(report), model |-> ModelBreakdown(report),
        chart |-> DailyTokenUsage(report.conversations)]

getExecutionAnalytics(db, query, today) ==
    LET report == getAnalyticsDashboard(db, [query EXCEPT !.apps = {}], today)
    IN [types |-> ExecutionsByType(report.executions),
        chart |-> ExecutionPerformance(report.executions)]

\* calculateApplicationStats returns nothing yet: only the chart is filled.
getApplicationStats(db, query, today) ==
    LET report == getAnalyticsDashboard(db, [query EXCEPT !.apps = {}], today)
    IN [stats |-> {}, chart |-> TopApplications(report.conversations)]

getConversationAnalytics(db, query, today) ==
    LET report == getAnalyticsDashboard(db, query, today)
    IN [total |-> Cardinality(report.conversations),
        statuses |-> ConversationsByStatus(report.conversations),
        recent |-> RecentConversations(report),
        chart |-> ConversationTrends(report.conversations)]

\* Here the success rate is that of the finished ones, and 0 of none.
getInsights(db, query, today) ==
    LET report == getAnalyticsDashboard(db, [query EXCEPT !.apps = {}], today)
        all == Cardinality(report.conversations)
        done == Cardinality(OfStatus(report.conversations, "done"))
    IN [insights |-> Insights(report), conversations |-> all, tokens |-> TotalTokens(report),
        success |-> IF all = 0 THEN 0 ELSE (100 * done) \div all]

getDetailedAnalytics(db, query, today) ==
    LET report == Detailed(db, [range |-> RangeOf(query, today), apps |-> query.apps])
    IN [steps |-> ExecutionSteps(report),
        tokens |-> TotalTokensFromMessages(report) + TotalTokensFromExecutions(report)]

-----------------------------------------------------------------------------
(* What the collections hold: an identifier names one document, a message  *)
(* belongs to one conversation.                                            *)

IsUse(tokens) == tokens = None \/ (tokens.in \in Nat /\ tokens.out \in Nat)

IsConversation(c) ==
    /\ c.day \in Int /\ IsUse(c.tokens) /\ IsFiniteSet(c.messages)
    /\ \A m \in c.messages : IsUse(m.tokens) /\ m.day \in Int \union {None}

IsExecution(e) ==
    /\ e.day \in Int /\ IsFiniteSet(Mapped(e)) /\ IsFiniteSet(Recorded(e))
    /\ \A t \in Mapped(e) : IsUse(e.map[t].tokens)
    /\ \A t \in Recorded(e) : IsUse(e.status[t].tokens)

IsHistory(db) ==
    /\ IsFiniteSet(db.conversations) /\ IsFiniteSet(db.executions)
    /\ \A c \in db.conversations : IsConversation(c)
    /\ \A c, d \in db.conversations :
          c # d => c.id # d.id /\ c.messages \intersect d.messages = {}
    /\ \A e \in db.executions : IsExecution(e)
    /\ \A e, f \in db.executions : e.id = f.id => e = f

\* The executions of a report follow its conversations.
IsReport(report) ==
    /\ IsHistory(report)
    /\ \A e \in report.executions : \E c \in report.conversations : c.id = e.conversation

-----------------------------------------------------------------------------
(* Properties of the reports of a database.                                *)

\* The sum of a field, of the members of a set or along a sequence.
SumOf(S, field) == SumFunction([x \in S |-> x[field]])

SumAlong(s, field) == SumFunction([i \in DOMAIN s |-> s[i][field]])

\* The tokens recorded of tasks that the map has, too.
RecordedTwice(execs) ==
    SumFunction([e \in execs |-> SumFunction(
        [t \in Recorded(e) \intersect Mapped(e) |-> Size(e.status[t].tokens)])])

\* Those of tasks whose tokens the map does not have.
RecordedAlone(execs) ==
    SumFunction([e \in execs |-> SumFunction(
        [t \in {t \in Recorded(e) \intersect Mapped(e) : e.map[t].tokens = None}
            |-> Size(e.status[t].tokens)])])

\* The three counts of tokens differ by what they do with a task that is both
\* in the map and recorded: the steps take the map, the types take the record
\* where the map has no tokens, the total takes both.
TotalsAgree(report) ==
    LET execs == report.executions
        steps == TotalTokensFromExecutions(report)
    IN /\ TotalTokens(report) = TotalTokensFromMessages(report) + steps + RecordedTwice(execs)
       /\ SumOf(ExecutionsByType(execs), "tokens") = steps + RecordedAlone(execs)
       /\ SumOf(ExecutionsByType(execs), "count")
             = SumFunction([e \in execs |-> Cardinality(Mapped(e))])

\* Months of two days.
MonthOf(report) == [d \in {c.day : c \in report.conversations} |-> d \div 2]

\* The days hold every message and every conversation once, in order; of the
\* executions they hold those of a day with a conversation or message.  The
\* months hold every conversation once.
DaysAgree(report) ==
    LET days == DailyUsage(report)
    IN /\ SumAlong(days, "tokens") = TotalTokensFromMessages(report)
       /\ SumAlong(days, "conversations") = Cardinality(report.conversations)
       /\ SumAlong(days, "executions")
             = Cardinality({e \in report.executions : e.day \in Days(report.conversations)})
       /\ \A i, j \in DOMAIN days : i < j => days[i].day < days[j].day
       /\ SumOf(MonthlyUsage(report, MonthOf(report)), "conversations")
             = Cardinality(report.conversations)

\* Every conversation is in one group, and no group succeeds more often than it
\* was used.
Partition(convs, groups) ==
    /\ SumOf(groups, "count") = Cardinality(convs)
    /\ SumOf(groups, "tokens") = SumFunction([c \in convs |-> Size(c.tokens)])
    /\ \A g \in groups : g.succeeded <= g.count

\* Applications of one identifier have one name.
NamesFollowIds(convs) == \A c, d \in convs : AppId(c) = AppId(d) => AppName(c) = AppName(d)

\* The groups partition the conversations, and by name none is smaller than by
\* identifier; the maps that are shown hold no execution twice, and all of ten
\* conversations; an alert always comes with its recommendation.
GroupsAgree(report) ==
    LET convs == report.conversations
        maps == BiggestExecutionMaps(report)
    IN
    /\ Partition(convs, ConversationsByApplication(convs))
    /\ Partition(convs, ApplicationsByName(convs))
    /\ NamesFollowIds(convs) => \A g \in ConversationsByApplication(convs) :
          \E h \in ApplicationsByName(convs) : g.count <= h.count
    /\ Partition(convs, DailyTokenUsage(convs))
    /\ Partition(convs, ConversationsByStatus(convs))
    /\ SumAlong(maps, "steps") <= Cardinality(report.executions)
    /\ Cardinality({e.conversation : e \in report.executions}) <= 10
          => SumAlong(maps, "steps") = Cardinality(report.executions)
    /\ \A cost \in {0, 50 * Dollar + 1, 100 * Dollar + 1} :
          /\ "success" \in Alerts(report, cost) => "review" \in Recommendations(report, cost)
          /\ "cost" \in Alerts(report, cost) => "monitor" \in Recommendations(report, cost)
          /\ convs = {} => Alerts(report, cost) \subseteq {"cost"}

\* A range cut in two reports every conversation once, but loses the executions
\* that are on the other side of the cut than their conversation.
CutLosesExecutions(db, cut, last) ==
    LET of(a, b) == Dashboard(db, [range |-> [first |-> a, last |-> b], apps |-> {}])
        whole == of(1, last)  before == of(1, cut)  after == of(cut + 1, last)
    IN /\ before.conversations \union after.conversations = whole.conversations
       /\ before.conversations \intersect after.conversations = {}
       /\ whole.executions \ (before.executions \union after.executions)
             = {e \in whole.executions : \E c \in whole.conversations :
                   c.id = e.conversation /\ (c.day <= cut <=> e.day > cut)}

\* What the routes of one query say of each other: the applications narrow the
\* dashboard and the conversations only; the details show no more use than the
\* types of execution do, as long as userId names nobody that user does not; what
\* is shown for days, statuses and the recent conversations (ten, at most) adds up
\* to the totals beside it; the name that the insights give is used as often as
\* the first of the chart; and with nothing to report the insights show a success
\* rate of 0 but do not alert.
RoutesAgree(db, query, today) ==
    LET tokens == getTokenAnalytics(db, query, today)
        convs  == getConversationAnalytics(db, query, today)
        execs  == getExecutionAnalytics(db, query, today)
        apps   == getApplicationStats(db, query, today)
        hints  == getInsights(db, query, today)
        detail == getDetailedAnalytics(db, query, today)
        narrow == getAnalyticsDashboard(db, query, today)
        wide   == getAnalyticsDashboard(db, [query EXCEPT !.apps = {}], today)
        typed  == SumOf(execs.types, "tokens") + TotalTokensFromMessages(wide)
    IN /\ TotalTokens(narrow) <= tokens.total
       /\ typed <= tokens.total
       /\ FoundBy(db.conversations, "userId") \subseteq FoundBy(db.conversations, "user")
             => detail.tokens <= typed
       /\ hints.tokens = tokens.total /\ convs.total <= hints.conversations
       /\ query.apps = {} => convs.total = hints.conversations
       /\ SumOf(convs.chart, "count") = convs.total
       /\ SumOf(convs.statuses, "count") = convs.total
       /\ SumAlong(convs.recent, "steps") <= Cardinality(narrow.executions)
       /\ convs.total <= 10 => SumAlong(convs.recent, "steps") = Cardinality(narrow.executions)
       /\ SumOf(execs.chart, "count") = Cardinality(wide.executions)
       /\ apps.chart # <<>> =>
             \E g \in ApplicationsByName(wide.conversations) :
                g.key = hints.insights.app /\ g.count = apps.chart[1].count
       /\ wide.conversations = {} =>
             hints.success = 0 /\ hints.insights.recommendations = {} /\ hints.insights.alerts = {}

\* The trend compares the sum of three days with the sum of four: use that never
\* changes is called an improvement, and what grew by a third is called stable.
TrendComparesSums ==
    \A n \in 7..9, cost \in 1..4 :
       /\ CostEfficiencyTrend([i \in 1..n |-> [cost |-> cost]]) = "improving"
       /\ CostEfficiencyTrend([i \in 1..n |-> [cost |-> IF i <= n - 3 THEN 3 * cost ELSE 4 * cost]])
             = "stable"

\* Pages of any width, one after the other, hold the list, and "more" is true
\* of every page but the last.
PagesAgree(items, width) ==
    LET pages == {k \in 0 .. Len(items) : k * width < Len(items)}
        page(k) == PageOf(items, k * width, width)
    IN /\ FlattenSeq([k \in 1 .. Cardinality(pages) |-> page(k - 1).items]) = items
       /\ \A k \in pages : page(k).more <=> k + 1 \in pages
=============================================================================
