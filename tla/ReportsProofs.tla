--------------------------- MODULE ReportsProofs ---------------------------
(***************************************************************************)
(* What the reports show is true: the numbers of Analytics and of the      *)
(* plans of Requests, then the diagnosis, the analysis and the report of   *)
(* the references of an application.                                       *)
(*                                                                         *)
(* Each is proved of every history, query, page or application of the      *)
(* right shape, and from that of the samples of MCServices.  A recursive   *)
(* function is used through its first fixed point, found by counting up;   *)
(* lists are used through their length, their members and their indices.   *)
(***************************************************************************)
EXTENDS MCServices, SumLemmas, SequenceTheorems, TLAPS

\* The sums of the reports are those of the lemmas.
LEMMA SumInReports ==
    ASSUME NEW f
    PROVE  Analytics!SumFunction(f) = Sum(f, DOMAIN f)
  BY DEF Analytics!SumFunction, Analytics!SumFunctionOnSet, Analytics!FoldFunctionOnSet,
         Sum, MapThenSumSet, Analytics!MapThenFoldSet, MapThenFoldSet

LEMMA SumOverSet ==
    ASSUME NEW g, NEW S, IsFiniteSet(S)
    PROVE  Analytics!SumFunction([x \in S |-> g[x]]) = Sum(g, S)
<1> DEFINE f == [x \in S |-> g[x]]
<1>1. DOMAIN f = S /\ \A x \in S : f[x] = g[x]
  OBVIOUS
<1> HIDE DEF f
<1>2. Sum(f, S) = Sum(g, S)
  BY <1>1, SumSame
<1>3. Analytics!SumFunction(f) = Sum(f, S)
  BY <1>1, SumInReports
<1>4. QED
  BY <1>2, <1>3 DEF f

\* So are their finite sets and sizes.
LEMMA FiniteInReports ==
    ASSUME NEW S
    PROVE  Analytics!IsFiniteSet(S) = IsFiniteSet(S)
  BY DEF Analytics!IsFiniteSet, IsFiniteSet

LEMMA SizeInReports ==
    ASSUME NEW S
    PROVE  Analytics!Cardinality(S) = Cardinality(S)
  BY DEF Analytics!Cardinality, Cardinality

\* What is used is a number.
LEMMA UseNat ==
    ASSUME NEW t, Analytics!IsUse(t)
    PROVE  Analytics!Size(t) \in Nat /\ Analytics!Cost(t) \in Nat
  BY DEF Analytics!IsUse, Analytics!Size, Analytics!Cost

\* The tokens of a task in the map of an execution, and those recorded of it.
MapUse(e) == [t \in Analytics!Mapped(e) |-> Analytics!Size(e.map[t].tokens)]

StatusUse(e) == [t \in Analytics!Recorded(e) |-> Analytics!Size(e.status[t].tokens)]

InMap(e) == Sum(MapUse(e), Analytics!Mapped(e))

InStatus(e) == Sum(StatusUse(e), Analytics!Recorded(e))

\* Those of tasks that the map has, too, has not, and has without tokens.
Twice(e) == Sum(StatusUse(e), Analytics!Recorded(e) \intersect Analytics!Mapped(e))

Only(e) == Sum(StatusUse(e), Analytics!Recorded(e) \ Analytics!Mapped(e))

WithoutUse(e) ==
    {t \in Analytics!Recorded(e) \intersect Analytics!Mapped(e) : e.map[t].tokens = None}

Alone(e) == Sum(StatusUse(e), WithoutUse(e))

LEMMA StatusSum ==
    ASSUME NEW e, Analytics!IsExecution(e), NEW S \in SUBSET Analytics!Recorded(e)
    PROVE  /\ IsFiniteSet(S) /\ \A t \in S : StatusUse(e)[t] \in Nat
           /\ Analytics!SumFunction([t \in S |-> Analytics!Size(e.status[t].tokens)])
                 = Sum(StatusUse(e), S)
           /\ Sum(StatusUse(e), S) \in Nat
<1>1. IsFiniteSet(S)
  BY FiniteInReports, FS_Subset DEF Analytics!IsExecution
<1>2. \A t \in S : StatusUse(e)[t] = Analytics!Size(e.status[t].tokens)
  BY DEF StatusUse
<1>3. \A t \in S : StatusUse(e)[t] \in Nat
  BY UseNat DEF StatusUse, Analytics!IsExecution
<1>4. [t \in S |-> Analytics!Size(e.status[t].tokens)] = [t \in S |-> StatusUse(e)[t]]
  BY <1>2
<1>5. QED
  BY <1>1, <1>3, <1>4, SumOverSet, SumNat

LEMMA MapSum ==
    ASSUME NEW e, Analytics!IsExecution(e), NEW S \in SUBSET Analytics!Mapped(e)
    PROVE  /\ IsFiniteSet(S) /\ \A t \in S : MapUse(e)[t] \in Nat
           /\ Analytics!SumFunction([t \in S |-> Analytics!Size(e.map[t].tokens)])
                 = Sum(MapUse(e), S)
           /\ Sum(MapUse(e), S) \in Nat
<1>1. IsFiniteSet(S)
  BY FiniteInReports, FS_Subset DEF Analytics!IsExecution
<1>2. \A t \in S : MapUse(e)[t] = Analytics!Size(e.map[t].tokens)
  BY DEF MapUse
<1>3. \A t \in S : MapUse(e)[t] \in Nat
  BY UseNat DEF MapUse, Analytics!IsExecution
<1>4. [t \in S |-> Analytics!Size(e.map[t].tokens)] = [t \in S |-> MapUse(e)[t]]
  BY <1>2
<1>5. QED
  BY <1>1, <1>3, <1>4, SumOverSet, SumNat

\* The parts of what is recorded of an execution.
LEMMA ExecutionUse ==
    ASSUME NEW e, Analytics!IsExecution(e)
    PROVE  /\ InMap(e) \in Nat /\ InStatus(e) \in Nat /\ Twice(e) \in Nat
           /\ Only(e) \in Nat /\ Alone(e) \in Nat /\ Alone(e) <= Twice(e)
           /\ InStatus(e) = Twice(e) + Only(e)
<1> DEFINE R == Analytics!Recorded(e)
           T == R \intersect Analytics!Mapped(e)
<1>1. T \in SUBSET R /\ R \ T = R \ Analytics!Mapped(e) /\ WithoutUse(e) \in SUBSET T
      /\ R \in SUBSET R /\ (R \ Analytics!Mapped(e)) \in SUBSET R
  BY DEF WithoutUse
<1>2. IsFiniteSet(R) /\ IsFiniteSet(T) /\ \A t \in R : StatusUse(e)[t] \in Nat
  BY <1>1, StatusSum
<1>3. InStatus(e) = Twice(e) + Only(e)
  <2>1. Sum(StatusUse(e), R) = Sum(StatusUse(e), T) + Sum(StatusUse(e), R \ T)
    <3> HIDE DEF R, T
    <3> QED BY <1>1, <1>2, SumUnion
  <2>2. QED
    BY <1>1, <2>1 DEF InStatus, Twice, Only
<1>4. Alone(e) <= Twice(e)
  <2>1. \A t \in T : StatusUse(e)[t] \in Nat
    BY <1>2
  <2>2. Sum(StatusUse(e), WithoutUse(e)) <= Sum(StatusUse(e), T)
    <3> HIDE DEF R, T
    <3> QED BY <1>1, <1>2, <2>1, SumSubset
  <2>3. QED
    BY <2>2 DEF Alone, Twice
<1>5. InMap(e) \in Nat
  BY MapSum DEF InMap
<1>6. InStatus(e) \in Nat /\ Twice(e) \in Nat /\ Only(e) \in Nat /\ Alone(e) \in Nat
  <2>1. WithoutUse(e) \in SUBSET R
    BY <1>1
  <2>2. QED
    BY <1>1, <2>1, StatusSum DEF InStatus, Twice, Only, Alone
<1>7. QED
  BY <1>3, <1>4, <1>5, <1>6

\* What is recorded of the executions of a report, in functions.
StatusSums(execs) == [e \in execs |-> InStatus(e)]

MapSums(execs) == [e \in execs |-> InMap(e)]

TwiceSums(execs) == [e \in execs |-> Twice(e)]

OnlySums(execs) == [e \in execs |-> Only(e)]

AloneSums(execs) == [e \in execs |-> Alone(e)]

\* The executions of a report.
IsLog(execs) ==
    /\ IsFiniteSet(execs) /\ \A e \in execs : Analytics!IsExecution(e)
    /\ \A e, f \in execs : e.id = f.id => e = f

LEMMA ReportLog ==
    ASSUME NEW report, Analytics!IsHistory(report)
    PROVE  IsLog(report.executions) /\ IsFiniteSet(report.conversations)
  BY FiniteInReports DEF Analytics!IsHistory, IsLog

LEMMA LogSums ==
    ASSUME NEW execs, IsLog(execs)
    PROVE  /\ Sum(StatusSums(execs), execs)
                 = Sum(TwiceSums(execs), execs) + Sum(OnlySums(execs), execs)
           /\ Sum(StatusSums(execs), execs) \in Nat /\ Sum(MapSums(execs), execs) \in Nat
           /\ Sum(TwiceSums(execs), execs) \in Nat /\ Sum(OnlySums(execs), execs) \in Nat
           /\ Sum(AloneSums(execs), execs) \in Nat
           /\ Sum(AloneSums(execs), execs) <= Sum(TwiceSums(execs), execs)
<1>1. \A e \in execs : /\ StatusSums(execs)[e] \in Nat /\ MapSums(execs)[e] \in Nat
                       /\ TwiceSums(execs)[e] \in Nat /\ OnlySums(execs)[e] \in Nat
                       /\ AloneSums(execs)[e] \in Nat
                       /\ AloneSums(execs)[e] <= TwiceSums(execs)[e]
                       /\ StatusSums(execs)[e] = TwiceSums(execs)[e] + OnlySums(execs)[e]
  BY ExecutionUse DEF StatusSums, MapSums, TwiceSums, OnlySums, AloneSums, IsLog
<1>2. IsFiniteSet(execs)
  BY DEF IsLog
<1>3. Sum(StatusSums(execs), execs) = Sum(TwiceSums(execs), execs) + Sum(OnlySums(execs), execs)
  BY <1>1, <1>2, SumPlus
<1>4. Sum(AloneSums(execs), execs) <= Sum(TwiceSums(execs), execs)
  BY <1>1, <1>2, SumLess
<1>5. QED
  BY <1>1, <1>2, <1>3, <1>4, SumNat

\* The total takes both the map and the record.
LEMMA TotalIs ==
    ASSUME NEW report, Analytics!IsHistory(report)
    PROVE  Analytics!TotalTokens(report)
              = Analytics!TotalTokensFromMessages(report)
                + (Sum(StatusSums(report.executions), report.executions)
                   + Sum(MapSums(report.executions), report.executions))
<1> DEFINE execs == report.executions
           both == [e \in execs |-> InStatus(e) + InMap(e)]
<1>1. IsLog(execs)
  BY ReportLog
<1>2. ASSUME NEW e \in execs
      PROVE  /\ Analytics!SumFunction([t \in Analytics!Recorded(e) |->
                    Analytics!Size(e.status[t].tokens)]) = InStatus(e)
             /\ Analytics!SumFunction([t \in Analytics!Mapped(e) |->
                    Analytics!Size(e.map[t].tokens)]) = InMap(e)
  BY <1>1, StatusSum, MapSum DEF IsLog, InStatus, InMap
<1>3. Analytics!TotalTokens(report)
         = Analytics!TotalTokensFromMessages(report) + Analytics!SumFunction(both)
  BY <1>2 DEF Analytics!TotalTokens, Analytics!Total, Analytics!TotalTokensFromMessages
<1>4. Analytics!SumFunction(both) = Sum(both, execs)
  <2>1. DOMAIN both = execs
    OBVIOUS
  <2> HIDE DEF both, execs
  <2>2. QED
    BY <2>1, SumInReports
<1>5. Sum(both, execs) = Sum(StatusSums(execs), execs) + Sum(MapSums(execs), execs)
  <2>1. \A e \in execs : /\ StatusSums(execs)[e] \in Nat /\ MapSums(execs)[e] \in Nat
                         /\ both[e] = StatusSums(execs)[e] + MapSums(execs)[e]
    BY <1>1, ExecutionUse DEF StatusSums, MapSums, IsLog
  <2>2. IsFiniteSet(execs)
    BY <1>1 DEF IsLog
  <2> HIDE DEF both, execs
  <2>3. QED
    BY <2>1, <2>2, SumPlus
<1>6. QED
  BY <1>3, <1>4, <1>5

\* The messages use a number of tokens.
LEMMA MessagesNat ==
    ASSUME NEW report, Analytics!IsHistory(report)
    PROVE  /\ Analytics!TotalTokensFromMessages(report) \in Nat
           /\ IsFiniteSet(Analytics!Messages(report.conversations))
           /\ \A m \in Analytics!Messages(report.conversations) : Analytics!Size(m.tokens) \in Nat
<1> DEFINE convs == report.conversations
           M == Analytics!Messages(convs)
           S == {c.messages : c \in convs}
           f == [m \in M |-> Analytics!Size(m.tokens)]
           key == [c \in convs |-> c.messages]
<1>1. IsFiniteSet(convs) /\ \A c \in convs : IsFiniteSet(c.messages)
                                               /\ \A m \in c.messages : Analytics!IsUse(m.tokens)
  BY FiniteInReports DEF Analytics!IsHistory, Analytics!IsConversation
<1>2. IsFiniteSet(S)
  <2>1. S = {key[c] : c \in convs}
    OBVIOUS
  <2> HIDE DEF key
  <2>2. QED
    BY <1>1, <2>1, KeysFinite
<1>3. IsFiniteSet(M)
  <2>1. \A T \in S : IsFiniteSet(T)
    BY <1>1
  <2>2. M = UNION S
    BY DEF Analytics!Messages
  <2> HIDE DEF S, M
  <2>3. QED
    BY <1>2, <2>1, <2>2, FS_UNION
<1>4. \A m \in M : Analytics!Size(m.tokens) \in Nat
  BY <1>1, UseNat DEF Analytics!Messages
<1>5. Analytics!TotalTokensFromMessages(report) = Analytics!SumFunction(f)
  BY DEF Analytics!TotalTokensFromMessages
<1>6. DOMAIN f = M /\ \A m \in M : f[m] \in Nat
  BY <1>4
<1>7. Analytics!SumFunction(f) \in Nat
  <2> HIDE DEF f, M
  <2> QED BY <1>3, <1>6, SumInReports, SumNat
<1>8. QED
  BY <1>3, <1>4, <1>5, <1>7

\* The steps of one execution.
StepUse(steps) == [s \in steps |-> Analytics!Size(s.tokens)]

LEMMA StepsOfSum ==
    ASSUME NEW e, Analytics!IsExecution(e), NEW steps, Analytics!StepsOf(e) \subseteq steps
    PROVE  /\ IsFiniteSet(Analytics!StepsOf(e))
           /\ \A s \in Analytics!StepsOf(e) : StepUse(steps)[s] \in Nat
           /\ Sum(StepUse(steps), Analytics!StepsOf(e)) = InMap(e) + Only(e)
<1> DEFINE M == Analytics!Mapped(e)
           N == Analytics!Recorded(e) \ Analytics!Mapped(e)
           bm == [t \in M |-> [execution |-> e.id, task |-> t, tokens |-> e.map[t].tokens]]
           bn == [t \in N |-> [execution |-> e.id, task |-> t, tokens |-> e.status[t].tokens]]
           A == {bm[t] : t \in M}
           B == {bn[t] : t \in N}
           f == StepUse(steps)
<1>1. Analytics!StepsOf(e) = A \union B
  BY DEF Analytics!StepsOf
<1>2. A \intersect B = {}
  <2>1. ASSUME NEW s \in A, NEW r \in B PROVE s # r
    <3>1. PICK t \in M : s.task = t
      OBVIOUS
    <3>2. PICK u \in N : r.task = u
      OBVIOUS
    <3>3. QED
      BY <3>1, <3>2
  <2> HIDE DEF A, B
  <2>2. QED
    BY <2>1
<1>3. OneToOne(bm, M, A) /\ OneToOne(bn, N, B)
  <2>1. \A t, u \in M : bm[t] = bm[u] => t = u
    <3>1. \A t \in M : bm[t].task = t
      OBVIOUS
    <3> HIDE DEF bm
    <3>2. QED
      BY <3>1
  <2>2. \A t, u \in N : bn[t] = bn[u] => t = u
    <3>1. \A t \in N : bn[t].task = t
      OBVIOUS
    <3> HIDE DEF bn
    <3>2. QED
      BY <3>1
  <2> HIDE DEF bm, bn
  <2>3. QED
    BY <2>1, <2>2 DEF OneToOne
<1>4. IsFiniteSet(M) /\ IsFiniteSet(N) /\ (\A t \in M : MapUse(e)[t] \in Nat)
      /\ (\A t \in N : StatusUse(e)[t] \in Nat)
  <2>1. M \in SUBSET Analytics!Mapped(e) /\ N \in SUBSET Analytics!Recorded(e)
    OBVIOUS
  <2>2. QED
    BY <2>1, MapSum, StatusSum
<1>5. \A t \in M : bm[t] \in steps /\ f[bm[t]] = MapUse(e)[t]
  BY <1>1 DEF StepUse, MapUse
<1>6. \A t \in N : bn[t] \in steps /\ f[bn[t]] = StatusUse(e)[t]
  BY <1>1 DEF StepUse, StatusUse
<1>7. IsFiniteSet(A) /\ Sum(f, A) = InMap(e)
  <2>1. \A t \in M : MapUse(e)[t] \in Nat /\ f[bm[t]] = MapUse(e)[t]
    BY <1>4, <1>5
  <2> HIDE DEF A, bm, f
  <2>2. QED
    BY <1>3, <1>4, <2>1, SumRenamed DEF InMap
<1>8. IsFiniteSet(B) /\ Sum(f, B) = Only(e)
  <2>1. \A t \in N : StatusUse(e)[t] \in Nat /\ f[bn[t]] = StatusUse(e)[t]
    BY <1>4, <1>6
  <2> HIDE DEF B, bn, f
  <2>2. QED
    BY <1>3, <1>4, <2>1, SumRenamed DEF Only
<1>9. \A s \in A \union B : f[s] \in Nat
  <2>1. \A s \in A : f[s] \in Nat
    BY <1>4, <1>5
  <2>2. \A s \in B : f[s] \in Nat
    BY <1>4, <1>6
  <2>3. QED
    BY <2>1, <2>2
<1>10. IsFiniteSet(A \union B) /\ Sum(f, A \union B) = Sum(f, A) + Sum(f, B)
  <2> HIDE DEF A, B, f
  <2> QED BY <1>2, <1>7, <1>8, <1>9, SumDisjoint, FS_Union
<1>11. QED
  <2> HIDE DEF A, B
  <2> QED BY <1>1, <1>7, <1>8, <1>9, <1>10

\* The steps take the map where it has a task.
LEMMA StepsIs ==
    ASSUME NEW report, Analytics!IsHistory(report)
    PROVE  Analytics!TotalTokensFromExecutions(report)
              = Sum(MapSums(report.executions), report.executions)
                + Sum(OnlySums(report.executions), report.executions)
<1> DEFINE execs == report.executions
           steps == Analytics!ExecutionSteps(report)
           f == StepUse(steps)
           share == [e \in execs |-> Analytics!StepsOf(e)]
           g == [e \in execs |-> InMap(e) + Only(e)]
<1>1. IsLog(execs)
  BY ReportLog
<1>2. Whole(share, execs) = steps
  BY DEF Whole, Analytics!ExecutionSteps
<1>3. \A e \in execs : IsFiniteSet(share[e]) /\ g[e] = Sum(f, share[e])
                       /\ \A s \in share[e] : f[s] \in Nat
  <2>1. SUFFICES ASSUME NEW e \in execs
                 PROVE  IsFiniteSet(share[e]) /\ g[e] = Sum(f, share[e])
                        /\ \A s \in share[e] : f[s] \in Nat
    OBVIOUS
  <2>2. Analytics!IsExecution(e) /\ Analytics!StepsOf(e) \subseteq steps
    BY <1>1 DEF IsLog, Analytics!ExecutionSteps
  <2>3. share[e] = Analytics!StepsOf(e) /\ g[e] = InMap(e) + Only(e)
    OBVIOUS
  <2> HIDE DEF share, g, steps
  <2>4. QED
    BY <2>2, <2>3, StepsOfSum
<1>4. \A e, d \in execs : e # d => share[e] \intersect share[d] = {}
  <2>1. ASSUME NEW e \in execs, NEW s \in share[e] PROVE s.execution = e.id
    BY DEF Analytics!StepsOf
  <2> HIDE DEF share
  <2>2. QED
    BY <1>1, <2>1 DEF IsLog
<1>5. IsFiniteSet(steps) /\ Sum(f, steps) = Sum(g, execs)
  <2>1. IsFiniteSet(execs)
    BY <1>1 DEF IsLog
  <2>2. \A e \in execs : IsFiniteSet(share[e]) /\ g[e] = Sum(f, share[e])
    BY <1>3
  <2>3. \A e \in execs : \A s \in share[e] : f[s] \in Nat
    BY <1>3
  <2> HIDE DEF share, g, f, steps, execs
  <2>4. QED
    BY <1>2, <1>4, <2>1, <2>2, <2>3, SumParts
<1>6. Analytics!TotalTokensFromExecutions(report) = Sum(f, steps)
  <2>1. DOMAIN f = steps
    BY DEF StepUse
  <2>2. Analytics!TotalTokensFromExecutions(report) = Analytics!SumFunction(f)
    BY DEF Analytics!TotalTokensFromExecutions, StepUse
  <2> HIDE DEF f, steps
  <2>3. QED
    BY <2>1, <2>2, SumInReports
<1>7. Sum(g, execs) = Sum(MapSums(execs), execs) + Sum(OnlySums(execs), execs)
  <2>1. \A e \in execs : /\ MapSums(execs)[e] \in Nat /\ OnlySums(execs)[e] \in Nat
                         /\ g[e] = MapSums(execs)[e] + OnlySums(execs)[e]
    BY <1>1, ExecutionUse DEF MapSums, OnlySums, IsLog
  <2>2. IsFiniteSet(execs)
    BY <1>1 DEF IsLog
  <2> HIDE DEF g, execs
  <2>3. QED
    BY <2>1, <2>2, SumPlus
<1>8. QED
  BY <1>5, <1>6, <1>7

\* The tokens recorded twice, and those recorded alone, in functions.
LEMMA RecordedIs ==
    ASSUME NEW execs, IsLog(execs)
    PROVE  /\ Analytics!RecordedTwice(execs) = Sum(TwiceSums(execs), execs)
           /\ Analytics!RecordedAlone(execs) = Sum(AloneSums(execs), execs)
<1>1. ASSUME NEW e \in execs
      PROVE  /\ Analytics!SumFunction(
                   [t \in Analytics!Recorded(e) \intersect Analytics!Mapped(e) |->
                       Analytics!Size(e.status[t].tokens)]) = Twice(e)
             /\ Analytics!SumFunction(
                   [t \in {t \in Analytics!Recorded(e) \intersect Analytics!Mapped(e) :
                              e.map[t].tokens = None} |->
                       Analytics!Size(e.status[t].tokens)]) = Alone(e)
  <2>1. Analytics!IsExecution(e)
        /\ (Analytics!Recorded(e) \intersect Analytics!Mapped(e)) \in SUBSET Analytics!Recorded(e)
        /\ WithoutUse(e) \in SUBSET Analytics!Recorded(e)
    BY DEF IsLog, WithoutUse
  <2>2. QED
    BY <2>1, StatusSum DEF Twice, Alone, WithoutUse
<1>2. /\ Analytics!RecordedTwice(execs) = Analytics!SumFunction(TwiceSums(execs))
      /\ Analytics!RecordedAlone(execs) = Analytics!SumFunction(AloneSums(execs))
  BY <1>1 DEF Analytics!RecordedTwice, Analytics!RecordedAlone, TwiceSums, AloneSums
<1>3. DOMAIN TwiceSums(execs) = execs /\ DOMAIN AloneSums(execs) = execs
  BY DEF TwiceSums, AloneSums
<1>4. QED
  BY <1>2, <1>3, SumInReports

Records(rec, K) == {rec[k] : k \in K}

Distinct(rec, K) == \A k, l \in K : rec[k] = rec[l] => k = l

HasField(rec, K, field, g) == \A k \in K : g[k] \in Nat /\ rec[k][field] = g[k]

\* The sum of a field of distinct records.
LEMMA SumOfRecords ==
    ASSUME NEW rec, NEW field, NEW K, IsFiniteSet(K), NEW g,
           Distinct(rec, K), HasField(rec, K, field, g)
    PROVE  /\ IsFiniteSet(Records(rec, K)) /\ Cardinality(Records(rec, K)) = Cardinality(K)
           /\ Analytics!SumOf(Records(rec, K), field) = Sum(g, K)
<1> DEFINE S == Records(rec, K)
           f == [x \in S |-> x[field]]
<1>1. OneToOne(rec, K, S)
  BY DEF OneToOne, Records, Distinct
<1>2. \A k \in K : g[k] \in Nat /\ f[rec[k]] = g[k]
  BY DEF Records, HasField
<1>3. Analytics!SumOf(S, field) = Analytics!SumFunction(f) /\ DOMAIN f = S
  BY DEF Analytics!SumOf
<1> HIDE DEF f, S
<1>4. IsFiniteSet(S) /\ Cardinality(S) = Cardinality(K) /\ Sum(f, S) = Sum(g, K)
  BY <1>1, <1>2, SumRenamed
<1>5. QED
  BY <1>3, <1>4, SumInReports DEF S

\* The types of a log.
Types(execs) == UNION {Analytics!TypesOf(e) : e \in execs}

LEMMA TypesFinite ==
    ASSUME NEW execs, IsLog(execs)
    PROVE  IsFiniteSet(Types(execs))
<1> DEFINE share == [e \in execs |-> Analytics!TypesOf(e)]
           S == {share[e] : e \in execs}
<1>1. ASSUME NEW e \in execs PROVE IsFiniteSet(Analytics!TypesOf(e))
  <2> DEFINE D == Analytics!Mapped(e) \union Analytics!Recorded(e)
             key == [t \in D |-> Analytics!TypeOf(e, t)]
  <2>1. IsFiniteSet(D)
    BY FiniteInReports, FS_Union DEF IsLog, Analytics!IsExecution
  <2>2. Analytics!TypesOf(e) = {key[t] : t \in D}
    BY DEF Analytics!TypesOf
  <2> HIDE DEF D, key
  <2>3. QED
    BY <2>1, <2>2, KeysFinite
<1>2. IsFiniteSet(S)
  <2>1. IsFiniteSet(execs)
    BY DEF IsLog
  <2> HIDE DEF share
  <2>2. QED
    BY <2>1, KeysFinite
<1>3. \A X \in S : IsFiniteSet(X)
  BY <1>1
<1>4. Types(execs) = UNION S
  BY DEF Types
<1>5. QED
  <2> HIDE DEF S
  <2> QED BY <1>2, <1>3, <1>4, FS_UNION

\* The use of an execution by type.
TypeUse(e, type) == Sum(MapUse(e), Analytics!MappedOf(e, type))

TypeStatus(e, type) == Sum(StatusUse(e), Analytics!UnmappedOf(e, "tokens", type))

LEMMA UnmappedSum ==
    ASSUME NEW e, Analytics!IsExecution(e)
    PROVE  Sum(StatusUse(e), Analytics!Unmapped(e, "tokens")) = Only(e) + Alone(e)
<1> DEFINE U == Analytics!Unmapped(e, "tokens")
           N == Analytics!Recorded(e) \ Analytics!Mapped(e)
           W == N \union WithoutUse(e)
           f == StatusUse(e)
<1>1. U \in SUBSET W /\ W \in SUBSET Analytics!Recorded(e)
      /\ N \in SUBSET Analytics!Recorded(e) /\ WithoutUse(e) \in SUBSET Analytics!Recorded(e)
  BY DEF Analytics!Unmapped, WithoutUse
<1>2. \A t \in W \ U : f[t] = 0
  BY DEF Analytics!Unmapped, WithoutUse, StatusUse, Analytics!Size
<1>3. IsFiniteSet(W) /\ \A t \in W : f[t] \in Nat
  BY <1>1, StatusSum
<1>4. Sum(f, W) = Sum(f, U)
  <2> HIDE DEF f, W, U
  <2> QED BY <1>1, <1>2, <1>3, SumZeros
<1>5. N \intersect WithoutUse(e) = {}
  BY DEF WithoutUse
<1>6. IsFiniteSet(N) /\ IsFiniteSet(WithoutUse(e))
  BY <1>1, StatusSum
<1>7. Sum(f, W) = Sum(f, N) + Sum(f, WithoutUse(e))
  <2> HIDE DEF f, N
  <2> QED BY <1>3, <1>5, <1>6, SumDisjoint
<1>8. QED
  BY <1>4, <1>7 DEF Only, Alone

LEMMA TypeUseSum ==
    ASSUME NEW e, Analytics!IsExecution(e), NEW K, IsFiniteSet(K), Analytics!TypesOf(e) \subseteq K
    PROVE  /\ \A type \in K : TypeUse(e, type) \in Nat /\ TypeStatus(e, type) \in Nat
           /\ Sum([type \in K |-> TypeUse(e, type)], K) = InMap(e)
           /\ Sum([type \in K |-> TypeStatus(e, type)], K) = Only(e) + Alone(e)
           /\ Sum([type \in K |-> Cardinality(Analytics!MappedOf(e, type))], K)
                 = Cardinality(Analytics!Mapped(e))
<1> DEFINE M == Analytics!Mapped(e)
           U == Analytics!Unmapped(e, "tokens")
           mkey == [t \in M |-> e.map[t].type]
           ukey == [t \in U |-> Analytics!TypeOf(e, t)]
           uses == [type \in K |-> TypeUse(e, type)]
           recs == [type \in K |-> TypeStatus(e, type)]
           nums == [type \in K |-> Cardinality(Analytics!MappedOf(e, type))]
<1>1. U \in SUBSET Analytics!Recorded(e) /\ M \in SUBSET Analytics!Mapped(e)
  BY DEF Analytics!Unmapped
<1>2. IsFiniteSet(M) /\ IsFiniteSet(U) /\ (\A t \in M : MapUse(e)[t] \in Nat)
      /\ \A t \in U : StatusUse(e)[t] \in Nat
  BY <1>1, StatusSum, MapSum
<1>3. /\ \A t \in M : mkey[t] \in K
      /\ \A t \in U : ukey[t] \in K
  BY <1>1 DEF Analytics!TypesOf, Analytics!TypeOf
<1>4. \A type \in K : /\ Analytics!MappedOf(e, type) = Having(M, mkey, type)
                      /\ Analytics!UnmappedOf(e, "tokens", type) = Having(U, ukey, type)
  BY DEF Analytics!MappedOf, Analytics!UnmappedOf, Having
<1>5. \A type \in K : /\ uses[type] = Sum(MapUse(e), Having(M, mkey, type))
                      /\ recs[type] = Sum(StatusUse(e), Having(U, ukey, type))
                      /\ nums[type] = Cardinality(Having(M, mkey, type))
  BY <1>4 DEF TypeUse, TypeStatus
<1>6. \A type \in K : TypeUse(e, type) \in Nat /\ TypeStatus(e, type) \in Nat
  <2>1. SUFFICES ASSUME NEW type \in K
                 PROVE  TypeUse(e, type) \in Nat /\ TypeStatus(e, type) \in Nat
    OBVIOUS
  <2>2. Analytics!MappedOf(e, type) \in SUBSET Analytics!Mapped(e)
        /\ Analytics!UnmappedOf(e, "tokens", type) \in SUBSET Analytics!Recorded(e)
    BY <1>1 DEF Analytics!MappedOf, Analytics!UnmappedOf
  <2>3. QED
    BY <2>2, MapSum, StatusSum DEF TypeUse, TypeStatus
<1>7. Sum(uses, K) = InMap(e)
  <2>1. \A t \in M : MapUse(e)[t] \in Nat /\ mkey[t] \in K
    BY <1>2, <1>3
  <2>2. Sum(uses, K) = Sum(MapUse(e), M)
    <3>1. \A type \in K : uses[type] = Sum(MapUse(e), Having(M, mkey, type))
      BY <1>5
    <3> DEFINE f == MapUse(e)
    <3> HIDE DEF uses, mkey, M, f
    <3> QED BY <1>2, <2>1, <3>1, SumByKey
  <2>3. QED
    BY <2>2 DEF InMap
<1>8. Sum(recs, K) = Only(e) + Alone(e)
  <2>1. \A t \in U : StatusUse(e)[t] \in Nat /\ ukey[t] \in K
    BY <1>2, <1>3
  <2>2. Sum(recs, K) = Sum(StatusUse(e), U)
    <3>1. \A type \in K : recs[type] = Sum(StatusUse(e), Having(U, ukey, type))
      BY <1>5
    <3> DEFINE f == StatusUse(e)
    <3> HIDE DEF recs, ukey, U, f
    <3> QED BY <1>2, <2>1, <3>1, SumByKey
  <2>3. QED
    BY <2>2, UnmappedSum
<1>9. Sum(nums, K) = Cardinality(M)
  <2>1. /\ \A type \in K : nums[type] = Cardinality(Having(M, mkey, type))
        /\ \A t \in M : mkey[t] \in K
    BY <1>3, <1>5
  <2> HIDE DEF nums, mkey, M
  <2> QED BY <1>2, <2>1, CardByKey
<1>10. QED
  BY <1>6, <1>7, <1>8, <1>9

\* What the types are given of an execution.
TypeTokens(e, types) == [type \in types |-> TypeUse(e, type) + TypeStatus(e, type)]

TypeCount(e, types) == [type \in types |-> Cardinality(Analytics!MappedOf(e, type))]

LEMMA TypeIs ==
    ASSUME NEW execs, IsLog(execs), NEW types, NEW type \in types
    PROVE  /\ Analytics!StepType(execs, type).type = type
           /\ Analytics!StepType(execs, type).tokens
                 = Sum([e \in execs |-> TypeTokens(e, types)[type]], execs)
           /\ Analytics!StepType(execs, type).count
                 = Sum([e \in execs |-> TypeCount(e, types)[type]], execs)
<1> DEFINE tokens == [e \in execs |-> TypeTokens(e, types)[type]]
           count == [e \in execs |-> TypeCount(e, types)[type]]
<1>1. ASSUME NEW e \in execs
      PROVE  /\ Analytics!SumFunction([t \in Analytics!MappedOf(e, type) |->
                    Analytics!Size(e.map[t].tokens)]) = TypeUse(e, type)
             /\ Analytics!SumFunction([t \in Analytics!UnmappedOf(e, "tokens", type) |->
                    Analytics!Size(e.status[t].tokens)]) = TypeStatus(e, type)
             /\ Analytics!Cardinality(Analytics!MappedOf(e, type))
                    = Cardinality(Analytics!MappedOf(e, type))
  <2>1. Analytics!IsExecution(e)
        /\ Analytics!MappedOf(e, type) \in SUBSET Analytics!Mapped(e)
        /\ Analytics!UnmappedOf(e, "tokens", type) \in SUBSET Analytics!Recorded(e)
    BY DEF IsLog, Analytics!MappedOf, Analytics!UnmappedOf, Analytics!Unmapped
  <2>2. QED
    BY <2>1, StatusSum, MapSum, SizeInReports DEF TypeUse, TypeStatus
<1>2. /\ Analytics!StepType(execs, type).type = type
      /\ Analytics!StepType(execs, type).tokens = Analytics!SumFunction(tokens)
      /\ Analytics!StepType(execs, type).count = Analytics!SumFunction(count)
  <2>1. /\ Analytics!StepType(execs, type).type = type
        /\ Analytics!StepType(execs, type).tokens
           = Analytics!SumFunction([e \in execs |->
                 Analytics!SumFunction([t \in Analytics!MappedOf(e, type) |->
                    Analytics!Size(e.map[t].tokens)])
                 + Analytics!SumFunction([t \in Analytics!UnmappedOf(e, "tokens", type) |->
                    Analytics!Size(e.status[t].tokens)])])
        /\ Analytics!StepType(execs, type).count
           = Analytics!SumFunction([e \in execs |->
                 Analytics!Cardinality(Analytics!MappedOf(e, type))])
    BY DEF Analytics!StepType
  <2>2. tokens = [e \in execs |->
                 Analytics!SumFunction([t \in Analytics!MappedOf(e, type) |->
                    Analytics!Size(e.map[t].tokens)])
                 + Analytics!SumFunction([t \in Analytics!UnmappedOf(e, "tokens", type) |->
                    Analytics!Size(e.status[t].tokens)])]
    BY <1>1 DEF TypeTokens
  <2>3. count = [e \in execs |-> Analytics!Cardinality(Analytics!MappedOf(e, type))]
    BY <1>1 DEF TypeCount
  <2>4. QED
    BY <2>1, <2>2, <2>3
<1>3. DOMAIN tokens = execs /\ DOMAIN count = execs
  OBVIOUS
<1>4. QED
  <2> HIDE DEF tokens, count
  <2>1. /\ Analytics!StepType(execs, type).tokens = Sum(tokens, execs)
        /\ Analytics!StepType(execs, type).count = Sum(count, execs)
    BY <1>2, <1>3, SumInReports
  <2>2. QED
    BY <1>2, <2>1 DEF tokens, count

\* The types take the record where the map has no tokens.
LEMMA TypesIs ==
    ASSUME NEW execs, IsLog(execs)
    PROVE  /\ Analytics!SumOf(Analytics!ExecutionsByType(execs), "tokens")
                 = Sum(MapSums(execs), execs)
                   + (Sum(OnlySums(execs), execs) + Sum(AloneSums(execs), execs))
           /\ Analytics!SumOf(Analytics!ExecutionsByType(execs), "count")
                 = Analytics!SumFunction([e \in execs |->
                       Analytics!Cardinality(Analytics!Mapped(e))])
<1> DEFINE T == Types(execs)
           rec == [type \in T |-> Analytics!StepType(execs, type)]
           h == [e \in execs |-> TypeTokens(e, T)]
           k == [e \in execs |-> TypeCount(e, T)]
           hv == [type \in T |-> [e \in execs |-> h[e][type]]]
           kv == [type \in T |-> [e \in execs |-> k[e][type]]]
           row == [e \in execs |-> InMap(e) + (Only(e) + Alone(e))]
           nrow == [e \in execs |-> Cardinality(Analytics!Mapped(e))]
           column == [type \in T |-> Sum(hv[type], execs)]
           ncolumn == [type \in T |-> Sum(kv[type], execs)]
<1>1. IsFiniteSet(execs) /\ IsFiniteSet(T)
  BY TypesFinite DEF IsLog
<1>2. ASSUME NEW e \in execs
      PROVE  /\ \A type \in T : h[e][type] \in Nat /\ k[e][type] \in Nat
             /\ row[e] = Sum(h[e], T) /\ nrow[e] = Sum(k[e], T)
  <2> DEFINE uses == [type \in T |-> TypeUse(e, type)]
             recs == [type \in T |-> TypeStatus(e, type)]
             sums == TypeTokens(e, T)
  <2>1. Analytics!IsExecution(e) /\ Analytics!TypesOf(e) \subseteq T
    BY DEF IsLog, Types
  <2>2. /\ \A type \in T : TypeUse(e, type) \in Nat /\ TypeStatus(e, type) \in Nat
        /\ Sum(uses, T) = InMap(e) /\ Sum(recs, T) = Only(e) + Alone(e)
        /\ Sum(TypeCount(e, T), T) = Cardinality(Analytics!Mapped(e))
    <3> HIDE DEF T
    <3> QED BY <1>1, <2>1, TypeUseSum DEF TypeCount
  <2>3. \A type \in T : uses[type] \in Nat /\ recs[type] \in Nat
                        /\ sums[type] = uses[type] + recs[type]
    BY <2>2 DEF TypeTokens
  <2>4. Sum(sums, T) = Sum(uses, T) + Sum(recs, T)
    <3> HIDE DEF sums, uses, recs, T
    <3> QED BY <1>1, <2>3, SumPlus
  <2>5. \A type \in T : TypeCount(e, T)[type] \in Nat
    <3>1. ASSUME NEW type \in T PROVE Cardinality(Analytics!MappedOf(e, type)) \in Nat
      <4>1. Analytics!MappedOf(e, type) \in SUBSET Analytics!Mapped(e)
        BY DEF Analytics!MappedOf
      <4>2. QED
        BY <2>1, <4>1, MapSum, FS_CardinalityType
    <3>2. QED
      BY <3>1 DEF TypeCount
  <2>6. h[e] = sums /\ k[e] = TypeCount(e, T) /\ row[e] = InMap(e) + (Only(e) + Alone(e))
        /\ nrow[e] = Cardinality(Analytics!Mapped(e))
    OBVIOUS
  <2>7. \A type \in T : sums[type] \in Nat
    BY <2>3
  <2> HIDE DEF h, k, row, nrow, sums, T, uses, recs
  <2>8. QED
    BY <2>2, <2>4, <2>5, <2>6, <2>7
<1>3. Sum(row, execs) = Sum(column, T) /\ Sum(nrow, execs) = Sum(ncolumn, T)
  <2>1. RowSums(row, h, execs, T) /\ RowSums(nrow, k, execs, T)
    BY <1>2 DEF RowSums
  <2>2. Turned(hv, h, execs, T) /\ Turned(kv, k, execs, T)
    BY <1>2 DEF Turned
  <2>3. RowSums(column, hv, T, execs) /\ RowSums(ncolumn, kv, T, execs)
    BY DEF RowSums
  <2> HIDE DEF row, column, nrow, ncolumn, h, k, hv, kv, T
  <2>4. Sum(row, execs) = Sum(column, T)
    BY <1>1, <2>1, <2>2, <2>3, SumSwap
  <2>5. Sum(nrow, execs) = Sum(ncolumn, T)
    BY <1>1, <2>1, <2>2, <2>3, SumSwap
  <2>6. QED
    BY <2>4, <2>5
<1>4. ASSUME NEW type \in T
      PROVE  /\ rec[type].type = type
             /\ column[type] \in Nat /\ rec[type]["tokens"] = column[type]
             /\ ncolumn[type] \in Nat /\ rec[type]["count"] = ncolumn[type]
  <2> DEFINE c == [e \in execs |-> h[e][type]]
             n == [e \in execs |-> k[e][type]]
  <2>1. \A e \in execs : c[e] \in Nat /\ n[e] \in Nat
    BY <1>2
  <2>2. Sum(c, execs) \in Nat /\ Sum(n, execs) \in Nat
    <3> HIDE DEF c, n
    <3> QED BY <1>1, <2>1, SumNat
  <2>3. c = [e \in execs |-> TypeTokens(e, T)[type]] /\ n = [e \in execs |-> TypeCount(e, T)[type]]
    OBVIOUS
  <2>4. /\ Analytics!StepType(execs, type).type = type
        /\ Analytics!StepType(execs, type).tokens = Sum(c, execs)
        /\ Analytics!StepType(execs, type).count = Sum(n, execs)
    <3> HIDE DEF T, c, n
    <3> QED BY <2>3, TypeIs
  <2>5. column[type] = Sum(c, execs) /\ ncolumn[type] = Sum(n, execs)
        /\ rec[type] = Analytics!StepType(execs, type)
    OBVIOUS
  <2> HIDE DEF c, n, column, ncolumn, rec
  <2>6. QED
    BY <2>2, <2>4, <2>5
<1>5. Analytics!ExecutionsByType(execs) = Records(rec, T)
  BY DEF Analytics!ExecutionsByType, Types, Records
<1>6. Distinct(rec, T) /\ HasField(rec, T, "tokens", column) /\ HasField(rec, T, "count", ncolumn)
  <2> HIDE DEF rec, column, ncolumn
  <2> QED BY <1>4 DEF Distinct, HasField
<1>7. /\ Analytics!SumOf(Analytics!ExecutionsByType(execs), "tokens") = Sum(column, T)
      /\ Analytics!SumOf(Analytics!ExecutionsByType(execs), "count") = Sum(ncolumn, T)
  <2> HIDE DEF rec, column, ncolumn, T
  <2> QED BY <1>1, <1>5, <1>6, SumOfRecords
<1>8. Sum(row, execs) = Sum(MapSums(execs), execs)
         + (Sum(OnlySums(execs), execs) + Sum(AloneSums(execs), execs))
  <2> DEFINE g == [e \in execs |-> Only(e) + Alone(e)]
  <2>1. \A e \in execs : /\ OnlySums(execs)[e] \in Nat /\ AloneSums(execs)[e] \in Nat
                         /\ g[e] = OnlySums(execs)[e] + AloneSums(execs)[e]
    BY ExecutionUse DEF OnlySums, AloneSums, IsLog
  <2>2. \A e \in execs : MapSums(execs)[e] \in Nat /\ g[e] \in Nat /\ row[e] = MapSums(execs)[e] + g[e]
    BY ExecutionUse DEF MapSums, IsLog
  <2> HIDE DEF g, row
  <2>3. Sum(g, execs) = Sum(OnlySums(execs), execs) + Sum(AloneSums(execs), execs)
    BY <1>1, <2>1, SumPlus
  <2>4. Sum(row, execs) = Sum(MapSums(execs), execs) + Sum(g, execs)
    BY <1>1, <2>2, SumPlus
  <2>5. QED
    BY <2>3, <2>4
<1>9. Analytics!SumFunction([e \in execs |-> Analytics!Cardinality(Analytics!Mapped(e))])
         = Sum(nrow, execs)
  <2>1. nrow = [e \in execs |-> Analytics!Cardinality(Analytics!Mapped(e))] /\ DOMAIN nrow = execs
    BY SizeInReports
  <2> HIDE DEF nrow
  <2>2. QED
    BY <2>1, SumInReports
<1>10. QED
  BY <1>3, <1>7, <1>8, <1>9

\* The three totals of tokens of a report differ by what they do with a task
\* that is in the map and recorded (calculateTokenAnalytics,
\* calculateExecutionAnalytics and getDetailedAnalyticsData, for every report).
THEOREM TotalsAlwaysAgree ==
    ASSUME NEW report, Analytics!IsHistory(report)
    PROVE  Analytics!TotalsAgree(report)
<1> DEFINE execs == report.executions
<1>1. IsLog(execs)
  BY ReportLog
<1>2. Analytics!TotalTokensFromMessages(report) \in Nat
  BY MessagesNat
<1>3. /\ Analytics!TotalTokens(report) = Analytics!TotalTokensFromMessages(report)
            + (Sum(StatusSums(execs), execs) + Sum(MapSums(execs), execs))
      /\ Analytics!TotalTokensFromExecutions(report)
            = Sum(MapSums(execs), execs) + Sum(OnlySums(execs), execs)
  BY TotalIs, StepsIs
<1>4. /\ Analytics!SumOf(Analytics!ExecutionsByType(execs), "tokens")
            = Sum(MapSums(execs), execs)
              + (Sum(OnlySums(execs), execs) + Sum(AloneSums(execs), execs))
      /\ Analytics!SumOf(Analytics!ExecutionsByType(execs), "count")
            = Analytics!SumFunction([e \in execs |-> Analytics!Cardinality(Analytics!Mapped(e))])
  BY <1>1, TypesIs
<1>5. /\ Analytics!RecordedTwice(execs) = Sum(TwiceSums(execs), execs)
      /\ Analytics!RecordedAlone(execs) = Sum(AloneSums(execs), execs)
  BY <1>1, RecordedIs
<1>6. /\ Sum(StatusSums(execs), execs) = Sum(TwiceSums(execs), execs) + Sum(OnlySums(execs), execs)
      /\ Sum(StatusSums(execs), execs) \in Nat /\ Sum(MapSums(execs), execs) \in Nat
      /\ Sum(TwiceSums(execs), execs) \in Nat /\ Sum(OnlySums(execs), execs) \in Nat
      /\ Sum(AloneSums(execs), execs) \in Nat
  BY <1>1, LogSums
<1>7. QED
  BY <1>2, <1>3, <1>4, <1>5, <1>6 DEF Analytics!TotalsAgree

-----------------------------------------------------------------------------
(* The days and months of a report.                                        *)

\* Ranked ranks.
LEMMA RankedIs ==
    ASSUME NEW S, IsFiniteSet(S), NEW rank, \A x \in S : rank[x] \in Int
    PROVE  /\ IsRanking(Analytics!Ranked(S, rank), S, rank)
           /\ OneToOne(Analytics!Ranked(S, rank), 1 .. Cardinality(S), S)
           /\ Analytics!Ranked(S, rank) \in Seq(S)
           /\ DOMAIN Analytics!Ranked(S, rank) = 1 .. Cardinality(S)
           /\ IsFiniteSet(1 .. Cardinality(S))
           /\ Len(Analytics!Ranked(S, rank)) = Cardinality(S)
<1> DEFINE r == Analytics!Ranked(S, rank)
           D == 1 .. Cardinality(S)
           T == {s \in [D -> S] : \A i, j \in D : i # j => s[i] # s[j]}
           ordered(s) == \A i, j \in DOMAIN s : i < j => rank[s[i]] <= rank[s[j]]
<1>1. r = CHOOSE s \in T : ordered(s)
  BY SizeInReports DEF Analytics!Ranked, Analytics!SetToSeqs
<1>2. \E s \in T : ordered(s)
  BY RankingExists DEF IsRanking
<1>3. r \in T /\ ordered(r)
  <2> HIDE DEF T, ordered, r
  <2> QED BY <1>1, <1>2
<1>4. IsRanking(r, S, rank)
  BY <1>3 DEF IsRanking
<1>5. OneToOne(r, D, S)
  <2> HIDE DEF r
  <2> QED BY <1>4, RankingOnto
<1>6. Cardinality(S) \in Nat /\ r \in [D -> S]
  BY <1>3, FS_CardinalityType
<1>7. r \in Seq(S) /\ DOMAIN r = D /\ Len(r) = Cardinality(S)
  <2> HIDE DEF r
  <2> QED BY <1>6
<1>8. QED
  BY <1>4, <1>5, <1>6, <1>7, FS_Interval

\* The sum along a ranking is the sum over the set.
LEMMA SumAlongRanking ==
    ASSUME NEW S, NEW s, IsFiniteSet(DOMAIN s), OneToOne(s, DOMAIN s, S),
           NEW field, \A x \in S : x[field] \in Nat
    PROVE  Analytics!SumAlong(s, field) = Analytics!SumOf(S, field)
<1> DEFINE D == DOMAIN s
           f == [x \in S |-> x[field]]
           g == [i \in D |-> s[i][field]]
<1>1. IsFiniteSet(D) /\ OneToOne(s, D, S)
  OBVIOUS
<1>2. \A i \in D : g[i] \in Nat /\ f[s[i]] = g[i]
  BY DEF OneToOne
<1>3. DOMAIN f = S /\ DOMAIN g = D
  OBVIOUS
<1>4. Analytics!SumAlong(s, field) = Analytics!SumFunction(g)
      /\ Analytics!SumOf(S, field) = Analytics!SumFunction(f)
  BY DEF Analytics!SumAlong, Analytics!SumOf
<1>5. Sum(f, S) = Sum(g, D)
  <2> HIDE DEF f, g
  <2> QED BY <1>1, <1>2, SumRenamed
<1>6. QED
  <2> HIDE DEF f, g, D
  <2> QED BY <1>3, <1>4, <1>5, SumInReports

\* The conversations of a report.
IsChat(convs) ==
    /\ IsFiniteSet(convs) /\ \A c \in convs : Analytics!IsConversation(c)
    /\ \A c, d \in convs : c # d => c.id # d.id /\ c.messages \intersect d.messages = {}

LEMMA ReportChat ==
    ASSUME NEW report, Analytics!IsHistory(report)
    PROVE  IsChat(report.conversations)
  BY FiniteInReports DEF Analytics!IsHistory, IsChat

\* Days are finitely many numbers.
LEMMA DaysFinite ==
    ASSUME NEW convs, IsChat(convs)
    PROVE  IsFiniteSet(Analytics!Days(convs)) /\ Analytics!Days(convs) \subseteq Int
<1> DEFINE share == [c \in convs |->
                       {c.day} \union {Analytics!MessageDay(c, m) : m \in c.messages}]
           S == {share[c] : c \in convs}
<1>1. ASSUME NEW c \in convs PROVE IsFiniteSet(share[c]) /\ share[c] \subseteq Int
  <2> DEFINE key == [m \in c.messages |-> Analytics!MessageDay(c, m)]
             T == {key[m] : m \in c.messages}
  <2>1. IsFiniteSet(c.messages) /\ c.day \in Int
        /\ \A m \in c.messages : m.day \in Int \union {None}
    BY FiniteInReports DEF IsChat, Analytics!IsConversation
  <2>2. IsFiniteSet(T)
    <3> HIDE DEF key
    <3> QED BY <2>1, KeysFinite
  <2>3. T \subseteq Int
    BY <2>1 DEF Analytics!MessageDay
  <2>4. share[c] = {c.day} \union T
    OBVIOUS
  <2>5. IsFiniteSet({c.day} \union T)
    <3> HIDE DEF T
    <3> QED BY <2>2, FS_Union, FS_Singleton
  <2>6. QED
    BY <2>1, <2>3, <2>4, <2>5
<1>2. IsFiniteSet(S)
  <2>1. IsFiniteSet(convs)
    BY DEF IsChat
  <2> HIDE DEF share
  <2>2. QED
    BY <2>1, KeysFinite
<1>3. \A X \in S : IsFiniteSet(X) /\ X \subseteq Int
  BY <1>1
<1>4. Analytics!Days(convs) = UNION S
  BY DEF Analytics!Days
<1>5. QED
  <2> HIDE DEF S
  <2> QED BY <1>2, <1>3, <1>4, FS_UNION

\* What the messages of a conversation use on a day.
MessageUse(convs) == [m \in Analytics!Messages(convs) |-> Analytics!Size(m.tokens)]

LEMMA MessageSum ==
    ASSUME NEW convs, IsChat(convs), NEW c \in convs, NEW S \in SUBSET c.messages
    PROVE  /\ IsFiniteSet(S) /\ \A m \in S : MessageUse(convs)[m] \in Nat
           /\ Analytics!SumFunction([m \in S |-> Analytics!Size(m.tokens)])
                 = Sum(MessageUse(convs), S)
           /\ Sum(MessageUse(convs), S) \in Nat
<1>1. IsFiniteSet(c.messages) /\ \A m \in c.messages : Analytics!IsUse(m.tokens)
  BY FiniteInReports DEF IsChat, Analytics!IsConversation
<1>2. IsFiniteSet(S)
  BY <1>1, FS_Subset
<1>3. \A m \in S : MessageUse(convs)[m] = Analytics!Size(m.tokens)
  BY DEF MessageUse, Analytics!Messages
<1>4. \A m \in S : MessageUse(convs)[m] \in Nat
  BY <1>1, <1>3, UseNat
<1>5. [m \in S |-> Analytics!Size(m.tokens)] = [m \in S |-> MessageUse(convs)[m]]
  BY <1>3
<1>6. QED
  BY <1>2, <1>4, <1>5, SumOverSet, SumNat

\* The days of a conversation hold its messages.
DayUse(convs, c, days) ==
    [d \in days |-> Sum(MessageUse(convs), Analytics!MessagesOf(c, d))]

LEMMA DayUseSum ==
    ASSUME NEW convs, IsChat(convs), NEW c \in convs, NEW days, IsFiniteSet(days),
           Analytics!Days(convs) \subseteq days
    PROVE  /\ \A d \in days : DayUse(convs, c, days)[d] \in Nat
           /\ Sum(DayUse(convs, c, days), days) = Sum(MessageUse(convs), c.messages)
<1> DEFINE C == c.messages
           f == MessageUse(convs)
           g == DayUse(convs, c, days)
           key == [m \in C |-> Analytics!MessageDay(c, m)]
<1>1. C \in SUBSET C
  OBVIOUS
<1>2. IsFiniteSet(C) /\ \A m \in C : f[m] \in Nat
  BY <1>1, MessageSum
<1>3. \A m \in C : f[m] \in Nat /\ key[m] \in days
  BY <1>2 DEF Analytics!Days
<1>4. \A d \in days : g[d] = Sum(f, Having(C, key, d))
  <2>1. \A d \in days : Analytics!MessagesOf(c, d) = Having(C, key, d)
    BY DEF Analytics!MessagesOf, Having
  <2>2. QED
    BY <2>1 DEF DayUse
<1>5. \A d \in days : g[d] \in Nat
  <2>1. \A d \in days : Analytics!MessagesOf(c, d) \in SUBSET c.messages
    BY DEF Analytics!MessagesOf
  <2>2. QED
    BY <2>1, MessageSum DEF DayUse
<1>6. Sum(g, days) = Sum(f, C)
  <2> HIDE DEF g, f, key, C
  <2> QED BY <1>2, <1>3, <1>4, SumByKey
<1>7. QED
  BY <1>5, <1>6

\* The messages of the conversations are all messages.
LEMMA MessagesAre ==
    ASSUME NEW report, Analytics!IsHistory(report),
           NEW row, \A c \in report.conversations :
                       row[c] = Sum(MessageUse(report.conversations), c.messages)
    PROVE  Sum(row, report.conversations) = Analytics!TotalTokensFromMessages(report)
<1> DEFINE convs == report.conversations
           M == Analytics!Messages(convs)
           f == MessageUse(convs)
           share == [c \in convs |-> c.messages]
<1>1. IsChat(convs)
  BY ReportChat
<1>2. ASSUME NEW c \in convs
      PROVE  IsFiniteSet(share[c]) /\ row[c] = Sum(f, share[c]) /\ \A m \in share[c] : f[m] \in Nat
  <2>1. share[c] = c.messages /\ c.messages \in SUBSET c.messages
    OBVIOUS
  <2> HIDE DEF share
  <2>2. QED
    BY <1>1, <2>1, MessageSum
<1>3. \A c, d \in convs : c # d => share[c] \intersect share[d] = {}
  BY <1>1 DEF IsChat
<1>4. Whole(share, convs) = M
  BY DEF Whole, Analytics!Messages
<1>5. Sum(f, M) = Sum(row, convs)
  <2>1. IsFiniteSet(convs)
    BY <1>1 DEF IsChat
  <2>2. /\ \A c \in convs : IsFiniteSet(share[c]) /\ row[c] = Sum(f, share[c])
        /\ \A c \in convs : \A m \in share[c] : f[m] \in Nat
    BY <1>2
  <2> HIDE DEF share, f, convs, M
  <2>3. QED
    BY <1>3, <1>4, <2>1, <2>2, SumParts
<1>6. Analytics!TotalTokensFromMessages(report) = Analytics!SumFunction(f) /\ DOMAIN f = M
  BY DEF Analytics!TotalTokensFromMessages, MessageUse
<1>7. QED
  <2> HIDE DEF f, M
  <2> QED BY <1>5, <1>6, SumInReports

\* The days of the conversations and of the executions.
ConvDay(convs) == [c \in convs |-> c.day]

ExecDay(execs) == [e \in execs |-> e.day]

LEMMA DayIs ==
    ASSUME NEW report, Analytics!IsHistory(report), NEW days, NEW d \in days
    PROVE  /\ Analytics!DayOf(report, d).day = d
           /\ Analytics!DayOf(report, d).tokens
                 = Sum([c \in report.conversations |->
                           DayUse(report.conversations, c, days)[d]], report.conversations)
           /\ Analytics!DayOf(report, d).conversations
                 = Cardinality(Having(report.conversations, ConvDay(report.conversations), d))
           /\ Analytics!DayOf(report, d).executions
                 = Cardinality({e \in report.executions : e.day = d})
<1> DEFINE convs == report.conversations
           f == [c \in convs |-> DayUse(convs, c, days)[d]]
<1>1. IsChat(convs)
  BY ReportChat
<1>2. ASSUME NEW c \in convs
      PROVE  Analytics!SumFunction([m \in Analytics!MessagesOf(c, d) |->
                 Analytics!Size(m.tokens)]) = DayUse(convs, c, days)[d]
  <2>1. Analytics!MessagesOf(c, d) \in SUBSET c.messages
    BY DEF Analytics!MessagesOf
  <2> HIDE DEF convs
  <2>2. QED
    BY <1>1, <2>1, MessageSum DEF DayUse
<1>3. f = [c \in convs |->
              Analytics!SumFunction([m \in Analytics!MessagesOf(c, d) |-> Analytics!Size(m.tokens)])]
  BY <1>2
<1>4. /\ Analytics!DayOf(report, d).day = d
      /\ Analytics!DayOf(report, d).tokens = Analytics!SumFunction(f)
      /\ Analytics!DayOf(report, d).conversations = Analytics!Cardinality({c \in convs : c.day = d})
      /\ Analytics!DayOf(report, d).executions
            = Analytics!Cardinality({e \in report.executions : e.day = d})
  BY <1>3 DEF Analytics!DayOf
<1>5. DOMAIN f = convs /\ Having(convs, ConvDay(convs), d) = {c \in convs : c.day = d}
  BY DEF Having, ConvDay
<1>6. Analytics!SumFunction(f) = Sum(f, convs)
  <2> HIDE DEF f, convs
  <2> QED BY <1>5, SumInReports
<1>7. QED
  BY <1>4, <1>5, <1>6, SizeInReports

\* The records of the days, one for each.
DayRecs(report) == [d \in Analytics!Days(report.conversations) |-> Analytics!DayOf(report, d)]

LEMMA DaySums ==
    ASSUME NEW report, Analytics!IsHistory(report)
    PROVE  LET days == Analytics!Days(report.conversations)
               recs == Records(DayRecs(report), days)
           IN  /\ IsFiniteSet(recs)
               /\ \A x \in recs : /\ x["tokens"] \in Nat /\ x["conversations"] \in Nat
                                  /\ x["executions"] \in Nat /\ x["day"] \in Int
                                  /\ x = Analytics!DayOf(report, x["day"])
               /\ Analytics!SumOf(recs, "tokens") = Analytics!TotalTokensFromMessages(report)
               /\ Analytics!SumOf(recs, "conversations") = Cardinality(report.conversations)
               /\ Analytics!SumOf(recs, "executions")
                     = Cardinality({e \in report.executions : e.day \in days})
<1> DEFINE convs == report.conversations
           execs == {e \in report.executions : e.day \in Analytics!Days(convs)}
           days == Analytics!Days(convs)
           rec == DayRecs(report)
           h == [c \in convs |-> DayUse(convs, c, days)]
           v == [d \in days |-> [c \in convs |-> DayUse(convs, c, days)[d]]]
           row == [c \in convs |-> Sum(MessageUse(convs), c.messages)]
           tokens == [d \in days |-> Sum(v[d], convs)]
           nconvs == [d \in days |-> Cardinality(Having(convs, ConvDay(convs), d))]
           nexecs == [d \in days |-> Cardinality(Having(execs, ExecDay(execs), d))]
<1>1. IsChat(convs) /\ IsFiniteSet(convs) /\ IsFiniteSet(days) /\ days \subseteq Int
  BY ReportChat, DaysFinite DEF IsChat
<1>2. IsFiniteSet(execs)
  <2>1. IsFiniteSet(report.executions) /\ execs \in SUBSET report.executions
    BY ReportLog DEF IsLog
  <2> HIDE DEF execs
  <2>2. QED
    BY <2>1, FS_Subset
<1>3. \A c \in convs : /\ \A d \in days : DayUse(convs, c, days)[d] \in Nat
                       /\ Sum(DayUse(convs, c, days), days) = Sum(MessageUse(convs), c.messages)
  <2> HIDE DEF convs
  <2> QED BY <1>1, DayUseSum
<1>4. Turned(v, h, convs, days) /\ RowSums(row, h, convs, days) /\ RowSums(tokens, v, days, convs)
  BY <1>3 DEF Turned, RowSums
<1>5. Sum(tokens, days) = Analytics!TotalTokensFromMessages(report)
  <2>1. \A c \in convs : row[c] = Sum(MessageUse(convs), c.messages)
    OBVIOUS
  <2>2. Sum(row, convs) = Analytics!TotalTokensFromMessages(report)
    <3> HIDE DEF row
    <3> QED BY <2>1, MessagesAre
  <2>3. Sum(row, convs) = Sum(tokens, days)
    <3> HIDE DEF row, tokens, v, h, convs, days
    <3> QED BY <1>1, <1>4, SumSwap
  <2>4. QED
    BY <2>2, <2>3
<1>6. Sum(nconvs, days) = Cardinality(convs)
  <2> DEFINE key == ConvDay(convs)
  <2>1. \A c \in convs : key[c] \in days
    BY DEF ConvDay, Analytics!Days
  <2>2. \A d \in days : nconvs[d] = Cardinality(Having(convs, key, d))
    OBVIOUS
  <2> HIDE DEF nconvs, convs, days, key
  <2>3. QED
    BY <1>1, <2>1, <2>2, CardByKey
<1>7. Sum(nexecs, days) = Cardinality(execs)
  <2> DEFINE key == ExecDay(execs)
  <2>1. \A e \in execs : key[e] \in days
    BY DEF ExecDay
  <2>2. \A d \in days : nexecs[d] = Cardinality(Having(execs, key, d))
    OBVIOUS
  <2>3. IsFiniteSet(execs) /\ IsFiniteSet(days)
    BY <1>1, <1>2
  <2> HIDE DEF nexecs, execs, days, key
  <2>4. QED
    BY <2>1, <2>2, <2>3, CardByKey
<1>8. ASSUME NEW d \in days
      PROVE  /\ rec[d]["day"] = d
             /\ tokens[d] \in Nat /\ rec[d]["tokens"] = tokens[d]
             /\ nconvs[d] \in Nat /\ rec[d]["conversations"] = nconvs[d]
             /\ nexecs[d] \in Nat /\ rec[d]["executions"] = nexecs[d]
             /\ rec[d] = Analytics!DayOf(report, d)
  <2>1. \A c \in convs : v[d][c] \in Nat
    BY <1>3
  <2>2. tokens[d] \in Nat
    <3>1. tokens[d] = Sum(v[d], convs)
      OBVIOUS
    <3> HIDE DEF v, tokens, convs, days
    <3> QED BY <1>1, <2>1, <3>1, SumNat
  <2>3. Having(convs, ConvDay(convs), d) \in SUBSET convs
        /\ Having(execs, ExecDay(execs), d) \in SUBSET execs
    BY DEF Having
  <2>4. nconvs[d] \in Nat /\ nexecs[d] \in Nat
    <3>1. IsFiniteSet(Having(convs, ConvDay(convs), d))
          /\ IsFiniteSet(Having(execs, ExecDay(execs), d))
      <4> HIDE DEF convs, execs
      <4> QED BY <1>1, <1>2, <2>3, FS_Subset
    <3> HIDE DEF convs, execs
    <3>2. QED
      BY <3>1, FS_CardinalityType
  <2>5. Having(execs, ExecDay(execs), d) = {e \in report.executions : e.day = d}
    BY DEF Having, ExecDay
  <2>6. v[d] = [c \in convs |-> DayUse(convs, c, days)[d]]
    OBVIOUS
  <2>7. rec[d] = Analytics!DayOf(report, d)
    BY DEF DayRecs
  <2>8. /\ Analytics!DayOf(report, d).day = d
        /\ Analytics!DayOf(report, d).tokens = Sum(v[d], convs)
        /\ Analytics!DayOf(report, d).conversations = Cardinality(Having(convs, ConvDay(convs), d))
        /\ Analytics!DayOf(report, d).executions = Cardinality({e \in report.executions : e.day = d})
    <3> HIDE DEF days, v
    <3> QED BY <2>6, DayIs
  <2>9. tokens[d] = Sum(v[d], convs) /\ nconvs[d] = Cardinality(Having(convs, ConvDay(convs), d))
        /\ nexecs[d] = Cardinality(Having(execs, ExecDay(execs), d))
    OBVIOUS
  <2> HIDE DEF tokens, nconvs, nexecs, rec, v, convs, execs, days
  <2>10. QED
    BY <2>2, <2>4, <2>5, <2>7, <2>8, <2>9
<1>9. /\ Distinct(rec, days) /\ HasField(rec, days, "tokens", tokens)
      /\ HasField(rec, days, "conversations", nconvs) /\ HasField(rec, days, "executions", nexecs)
  <2> HIDE DEF rec, tokens, nconvs, nexecs, days
  <2> QED BY <1>8 DEF Distinct, HasField
<1>10. /\ IsFiniteSet(Records(rec, days))
       /\ Analytics!SumOf(Records(rec, days), "tokens") = Sum(tokens, days)
       /\ Analytics!SumOf(Records(rec, days), "conversations") = Sum(nconvs, days)
       /\ Analytics!SumOf(Records(rec, days), "executions") = Sum(nexecs, days)
  <2> HIDE DEF rec, tokens, nconvs, nexecs, days
  <2> QED BY <1>1, <1>9, SumOfRecords
<1>11. \A x \in Records(rec, days) :
          /\ x["tokens"] \in Nat /\ x["conversations"] \in Nat
          /\ x["executions"] \in Nat /\ x["day"] \in Int
          /\ x = Analytics!DayOf(report, x["day"])
  <2>1. SUFFICES ASSUME NEW d \in days
                 PROVE  LET x == rec[d]
                        IN  /\ x["tokens"] \in Nat /\ x["conversations"] \in Nat
                            /\ x["executions"] \in Nat /\ x["day"] \in Int
                            /\ x = Analytics!DayOf(report, x["day"])
    <3> HIDE DEF rec, days
    <3> QED BY DEF Records
  <2> HIDE DEF rec, tokens, nconvs, nexecs, days
  <2>2. QED
    BY <1>1, <1>8
<1>12. QED
  <2> HIDE DEF tokens, nconvs, nexecs
  <2> QED BY <1>5, <1>6, <1>7, <1>10, <1>11

\* The months hold every conversation once.
LEMMA MonthSums ==
    ASSUME NEW report, Analytics!IsHistory(report), NEW monthOf
    PROVE  Analytics!SumOf(Analytics!MonthlyUsage(report, monthOf), "conversations")
              = Cardinality(report.conversations)
<1> DEFINE convs == report.conversations
           key == [c \in convs |-> monthOf[c.day]]
           months == {key[c] : c \in convs}
           rec == [k \in months |->
                      [month |-> k,
                       tokens |-> Analytics!SumFunction([x \in {x \in convs : monthOf[x.day] = k}
                                                             |-> Analytics!Size(x.tokens)]),
                       conversations |-> Analytics!Cardinality({x \in convs : monthOf[x.day] = k})]]
           g == [k \in months |-> Cardinality(Having(convs, key, k))]
<1>1. IsFiniteSet(convs)
  BY ReportLog
<1>2. IsFiniteSet(months)
  <2> HIDE DEF key, convs
  <2> QED BY <1>1, KeysFinite
<1>3. \A k \in months : Having(convs, key, k) = {x \in convs : monthOf[x.day] = k}
  BY DEF Having
<1>4. Analytics!MonthlyUsage(report, monthOf) = Records(rec, months)
  BY DEF Analytics!MonthlyUsage, Records
<1>5. \A k \in months : g[k] \in Nat
  <2>1. SUFFICES ASSUME NEW k \in months PROVE Cardinality(Having(convs, key, k)) \in Nat
    OBVIOUS
  <2>2. Having(convs, key, k) \in SUBSET convs
    BY DEF Having
  <2>3. IsFiniteSet(Having(convs, key, k))
    <3> HIDE DEF convs, key
    <3> QED BY <1>1, <2>2, FS_Subset
  <2> HIDE DEF convs, key
  <2>4. QED
    BY <2>3, FS_CardinalityType
<1>6. Distinct(rec, months)
  <2>1. \A k \in months : rec[k].month = k
    OBVIOUS
  <2> HIDE DEF rec, months
  <2>2. QED
    BY <2>1 DEF Distinct
<1>7. HasField(rec, months, "conversations", g)
  <2>1. \A k \in months : rec[k]["conversations"]
                             = Analytics!Cardinality({x \in convs : monthOf[x.day] = k})
    OBVIOUS
  <2>2. \A k \in months : g[k] = Cardinality(Having(convs, key, k))
    OBVIOUS
  <2> HIDE DEF rec, months, g
  <2>3. QED
    BY <1>3, <1>5, <2>1, <2>2, SizeInReports DEF HasField
<1>8. Sum(g, months) = Cardinality(convs)
  <2>1. /\ \A c \in convs : key[c] \in months
        /\ \A k \in months : g[k] = Cardinality(Having(convs, key, k))
    OBVIOUS
  <2> HIDE DEF g, months, key, convs
  <2>2. QED
    BY <1>1, <1>2, <2>1, CardByKey
<1>9. Analytics!SumOf(Records(rec, months), "conversations") = Sum(g, months)
  <2> HIDE DEF rec, g, months
  <2> QED BY <1>2, <1>6, <1>7, SumOfRecords
<1>10. QED
  BY <1>4, <1>8, <1>9

\* The days and the months of a report add up to it, and the days are in order
\* (the daily and monthly usage of calculateTokenAnalytics, for every report).
THEOREM DaysAlwaysAgree ==
    ASSUME NEW report, Analytics!IsHistory(report)
    PROVE  Analytics!DaysAgree(report)
<1> DEFINE days == Analytics!Days(report.conversations)
           recs == Records(DayRecs(report), days)
           rank == [x \in recs |-> x["day"]]
           s == Analytics!Ranked(recs, rank)
           n == Cardinality(recs)
<1>1. /\ IsFiniteSet(recs)
      /\ \A x \in recs : /\ x["tokens"] \in Nat /\ x["conversations"] \in Nat
                         /\ x["executions"] \in Nat /\ x["day"] \in Int
                         /\ x = Analytics!DayOf(report, x["day"])
      /\ Analytics!SumOf(recs, "tokens") = Analytics!TotalTokensFromMessages(report)
      /\ Analytics!SumOf(recs, "conversations") = Cardinality(report.conversations)
      /\ Analytics!SumOf(recs, "executions")
            = Cardinality({e \in report.executions : e.day \in days})
  BY DaySums
<1>2. Analytics!DailyUsage(report) = s
  <2>1. recs = {Analytics!DayOf(report, d) : d \in days}
    BY DEF Records, DayRecs
  <2>2. Analytics!DailyUsage(report) = Analytics!Ascending(recs, "day")
    BY <2>1 DEF Analytics!DailyUsage
  <2> HIDE DEF recs
  <2>3. QED
    BY <2>2 DEF Analytics!Ascending
<1>3. \A x \in recs : rank[x] \in Int /\ rank[x] = x["day"]
  BY <1>1
<1>4. /\ IsRanking(s, recs, rank) /\ OneToOne(s, 1 .. n, recs)
      /\ DOMAIN s = 1 .. n /\ IsFiniteSet(1 .. n)
  <2> HIDE DEF recs, rank
  <2> QED BY <1>1, <1>3, RankedIs
<1> HIDE DEF recs, rank, s
<1>5. /\ Analytics!SumAlong(s, "tokens") = Analytics!SumOf(recs, "tokens")
      /\ Analytics!SumAlong(s, "conversations") = Analytics!SumOf(recs, "conversations")
      /\ Analytics!SumAlong(s, "executions") = Analytics!SumOf(recs, "executions")
  <2>1. IsFiniteSet(DOMAIN s) /\ OneToOne(s, DOMAIN s, recs)
    BY <1>4
  <2>2. QED
    BY <1>1, <2>1, SumAlongRanking
<1>6. ASSUME NEW i \in 1 .. n, NEW j \in 1 .. n, i < j
      PROVE  s[i].day < s[j].day
  <2>1. s[i] \in recs /\ s[j] \in recs /\ s[i] # s[j] /\ rank[s[i]] <= rank[s[j]]
    BY <1>4, <1>6 DEF IsRanking
  <2>2. s[i]["day"] # s[j]["day"]
    BY <1>1, <2>1
  <2>3. s[i]["day"] \in Int /\ s[j]["day"] \in Int /\ s[i]["day"] <= s[j]["day"]
    BY <1>1, <1>3, <2>1
  <2>4. QED
    BY <2>2, <2>3
<1>7. Analytics!SumOf(Analytics!MonthlyUsage(report, Analytics!MonthOf(report)), "conversations")
         = Cardinality(report.conversations)
  BY MonthSums
<1>8. /\ Analytics!Cardinality(report.conversations) = Cardinality(report.conversations)
      /\ Analytics!Cardinality({e \in report.executions : e.day \in days})
            = Cardinality({e \in report.executions : e.day \in days})
  BY SizeInReports
<1>9. QED
  BY <1>1, <1>2, <1>4, <1>5, <1>6, <1>7, <1>8 DEF Analytics!DaysAgree

-----------------------------------------------------------------------------
(* The groups of a report.                                                 *)

ConvUse(convs) == [c \in convs |-> Analytics!Size(c.tokens)]

GroupRecs(convs, key) ==
    [k \in {key[c] : c \in convs} |-> Analytics!GroupOf(convs, key, k)]

\* A group holds the conversations of its key.
LEMMA GroupIs ==
    ASSUME NEW convs, IsChat(convs), NEW key, NEW k
    PROVE  LET group == Having(convs, key, k)
               rec == Analytics!GroupOf(convs, key, k)
           IN  /\ IsFiniteSet(group) /\ Cardinality(group) \in Nat
               /\ rec.key = k /\ rec.count = Cardinality(group)
               /\ rec.tokens = Sum(ConvUse(convs), group) /\ rec.tokens \in Nat
               /\ rec.succeeded \in Nat /\ rec.succeeded <= rec.count
<1> DEFINE group == Having(convs, key, k)
           done == Analytics!Group(Analytics!OfStatus(convs, "done"), key, k)
           rec == Analytics!GroupOf(convs, key, k)
           f == [c \in group |-> Analytics!Size(c.tokens)]
<1>1. IsFiniteSet(convs) /\ \A c \in convs : ConvUse(convs)[c] \in Nat
  BY UseNat DEF IsChat, Analytics!IsConversation, ConvUse
<1>2. group \in SUBSET convs /\ done \in SUBSET group /\ Analytics!Group(convs, key, k) = group
  BY DEF Having, Analytics!Group, Analytics!OfStatus
<1>3. IsFiniteSet(group) /\ Cardinality(group) \in Nat
  <2> HIDE DEF group, done
  <2> QED BY <1>1, <1>2, FS_Subset, FS_CardinalityType
<1>4. Cardinality(done) \in Nat /\ Cardinality(done) <= Cardinality(group)
  <2> HIDE DEF group, done
  <2> QED BY <1>2, <1>3, FS_Subset, FS_CardinalityType
<1>5. f = [c \in group |-> ConvUse(convs)[c]] /\ \A c \in group : ConvUse(convs)[c] \in Nat
  BY <1>1, <1>2 DEF ConvUse
<1>6. Analytics!SumFunction(f) = Sum(ConvUse(convs), group) /\ Sum(ConvUse(convs), group) \in Nat
  <2> HIDE DEF f, group
  <2> QED BY <1>3, <1>5, SumOverSet, SumNat
<1>7. /\ rec.key = k /\ rec.count = Analytics!Cardinality(group)
      /\ rec.succeeded = Analytics!Cardinality(done)
      /\ rec.tokens = Analytics!SumFunction(f)
  BY <1>2 DEF Analytics!GroupOf
<1>8. rec.count = Cardinality(group) /\ rec.succeeded = Cardinality(done)
  BY <1>7, SizeInReports
<1>9. QED
  <2> HIDE DEF group, done, rec, f
  <2>1. /\ IsFiniteSet(group) /\ Cardinality(group) \in Nat
        /\ rec.key = k /\ rec.count = Cardinality(group)
        /\ rec.tokens = Sum(ConvUse(convs), group) /\ rec.tokens \in Nat
        /\ rec.succeeded \in Nat /\ rec.succeeded <= rec.count
    BY <1>3, <1>4, <1>6, <1>7, <1>8
  <2>2. QED
    BY <2>1 DEF group, rec

\* The groups of any key divide the conversations.
LEMMA GroupsDivide ==
    ASSUME NEW convs, IsChat(convs), NEW key
    PROVE  /\ Analytics!Partition(convs, Analytics!Grouped(convs, key))
           /\ Analytics!Grouped(convs, key) = Records(GroupRecs(convs, key), {key[c] : c \in convs})
           /\ IsFiniteSet(Analytics!Grouped(convs, key))
           /\ IsFiniteSet({key[c] : c \in convs})
           /\ \A g \in Analytics!Grouped(convs, key) : g.count \in Nat /\ g.succeeded \in Nat
<1> DEFINE K == {key[c] : c \in convs}
           rec == GroupRecs(convs, key)
           count == [k \in K |-> Cardinality(Having(convs, key, k))]
           tokens == [k \in K |-> Sum(ConvUse(convs), Having(convs, key, k))]
           f == ConvUse(convs)
<1>1. IsFiniteSet(convs) /\ \A c \in convs : f[c] \in Nat
  BY UseNat DEF IsChat, Analytics!IsConversation, ConvUse
<1>2. IsFiniteSet(K)
  BY <1>1, KeysFinite
<1>3. Analytics!Grouped(convs, key) = Records(rec, K)
  BY DEF Analytics!Grouped, Records, GroupRecs
<1>4. ASSUME NEW k \in K
      PROVE  /\ rec[k]["key"] = k
             /\ count[k] \in Nat /\ rec[k]["count"] = count[k]
             /\ tokens[k] \in Nat /\ rec[k]["tokens"] = tokens[k]
             /\ rec[k]["succeeded"] \in Nat /\ rec[k]["succeeded"] <= rec[k]["count"]
  <2>1. rec[k] = Analytics!GroupOf(convs, key, k) /\ count[k] = Cardinality(Having(convs, key, k))
        /\ tokens[k] = Sum(ConvUse(convs), Having(convs, key, k))
    BY DEF GroupRecs
  <2> HIDE DEF rec, count, tokens, K, f
  <2>2. QED
    BY <2>1, GroupIs
<1>5. /\ Distinct(rec, K) /\ HasField(rec, K, "count", count) /\ HasField(rec, K, "tokens", tokens)
  <2> HIDE DEF rec, count, tokens, K
  <2> QED BY <1>4 DEF Distinct, HasField
<1>6. /\ IsFiniteSet(Records(rec, K))
      /\ Analytics!SumOf(Records(rec, K), "count") = Sum(count, K)
      /\ Analytics!SumOf(Records(rec, K), "tokens") = Sum(tokens, K)
  <2> HIDE DEF rec, count, tokens, K
  <2> QED BY <1>2, <1>5, SumOfRecords
<1>7. Sum(count, K) = Cardinality(convs) /\ Sum(tokens, K) = Sum(f, convs)
  <2>1. /\ \A c \in convs : key[c] \in K
        /\ \A k \in K : count[k] = Cardinality(Having(convs, key, k))
    OBVIOUS
  <2>2. /\ \A c \in convs : f[c] \in Nat /\ key[c] \in K
        /\ \A k \in K : tokens[k] = Sum(f, Having(convs, key, k))
    BY <1>1
  <2> HIDE DEF count, tokens, K, f
  <2>3. Sum(count, K) = Cardinality(convs)
    BY <1>1, <1>2, <2>1, CardByKey
  <2>4. Sum(tokens, K) = Sum(f, convs)
    BY <1>1, <1>2, <2>2, SumByKey
  <2>5. QED
    BY <2>3, <2>4
<1>8. Analytics!SumFunction([c \in convs |-> Analytics!Size(c.tokens)]) = Sum(f, convs)
  <2>1. f = [c \in convs |-> Analytics!Size(c.tokens)] /\ DOMAIN f = convs
    BY DEF ConvUse
  <2> HIDE DEF f
  <2>2. QED
    BY <2>1, SumInReports
<1>9. \A g \in Records(rec, K) : g["count"] \in Nat /\ g["succeeded"] \in Nat
                                  /\ g["succeeded"] <= g["count"]
  <2>1. SUFFICES ASSUME NEW k \in K
                 PROVE  rec[k]["count"] \in Nat /\ rec[k]["succeeded"] \in Nat
                        /\ rec[k]["succeeded"] <= rec[k]["count"]
    <3> HIDE DEF rec, K
    <3> QED BY DEF Records
  <2> HIDE DEF rec, count, tokens, K
  <2>2. QED
    BY <1>4
<1>10. QED
  <2> HIDE DEF rec, count, tokens, f
  <2> QED BY <1>2, <1>3, <1>6, <1>7, <1>8, <1>9, SizeInReports DEF Analytics!Partition, rec

\* At most ten are shown.
LEMMA TenEntries ==
    ASSUME NEW S, NEW s \in Seq(S)
    PROVE  /\ Analytics!FirstTen(s) \in Seq(S)
           /\ Len(s) <= 10 => Analytics!FirstTen(s) = s
           /\ Len(Analytics!FirstTen(s)) = (IF Len(s) <= 10 THEN Len(s) ELSE 10)
           /\ \A i \in 1 .. Len(Analytics!FirstTen(s)) : Analytics!FirstTen(s)[i] = s[i]
<1> DEFINE n == Len(s)
           m == IF n <= 10 THEN n ELSE 10
           t == Analytics!FirstTen(s)
<1>1. n \in Nat /\ m \in Nat /\ m <= n
  OBVIOUS
<1>2. Analytics!Min({10, n}) = m
  BY <1>1 DEF Analytics!Min
<1>3. t = SubSeq(s, 1, m)
  BY <1>2 DEF Analytics!FirstTen
<1> HIDE DEF t
<1>4. t \in Seq(S) /\ Len(t) = m /\ \A i \in 1 .. m : t[i] = s[i]
  BY <1>1, <1>3
<1>5. n <= 10 => t = s
  BY <1>1, <1>3
<1>6. QED
  BY <1>4, <1>5 DEF t

\* They sum up to no more than all.
LEMMA TenShown ==
    ASSUME NEW S, NEW s \in Seq(S), NEW field, \A x \in S : x[field] \in Nat
    PROVE  /\ Analytics!SumAlong(Analytics!FirstTen(s), field) <= Analytics!SumAlong(s, field)
           /\ Len(s) <= 10 => Analytics!FirstTen(s) = s
<1> DEFINE n == Len(s)
           m == IF n <= 10 THEN n ELSE 10
           t == Analytics!FirstTen(s)
           f == [i \in DOMAIN s |-> s[i][field]]
           g == [i \in DOMAIN t |-> t[i][field]]
<1>1. n \in Nat /\ m \in Nat /\ m <= n
  OBVIOUS
<1>4. t \in Seq(S) /\ Len(t) = m /\ (\A i \in 1 .. m : t[i] = s[i]) /\ (n <= 10 => t = s)
  BY TenEntries
<1> HIDE DEF t
<1>6. DOMAIN s = 1 .. n /\ DOMAIN t = 1 .. m /\ 1 .. m \in SUBSET (1 .. n)
  <2>1. DOMAIN s = 1 .. n
    OBVIOUS
  <2>2. DOMAIN t = 1 .. m
    <3> HIDE DEF m
    <3> QED BY <1>4
  <2>3. 1 .. m \in SUBSET (1 .. n)
    <3> HIDE DEF m, n
    <3> QED BY <1>1
  <2>4. QED
    BY <2>1, <2>2, <2>3
<1>7. (\A i \in 1 .. n : f[i] \in Nat) /\ (\A i \in 1 .. m : g[i] = f[i])
  BY <1>4, <1>6
<1>8. DOMAIN f = 1 .. n /\ DOMAIN g = 1 .. m
  BY <1>6
<1>9. Analytics!SumAlong(t, field) = Sum(g, 1 .. m) /\ Analytics!SumAlong(s, field) = Sum(f, 1 .. n)
  <2>1. Analytics!SumAlong(t, field) = Analytics!SumFunction(g)
        /\ Analytics!SumAlong(s, field) = Analytics!SumFunction(f)
    BY DEF Analytics!SumAlong
  <2> HIDE DEF f, g, n, m
  <2>2. QED
    BY <1>8, <2>1, SumInReports
<1>10. Sum(g, 1 .. m) <= Sum(f, 1 .. n)
  <2> HIDE DEF f, g, n, m
  <2>1. IsFiniteSet(1 .. n) /\ IsFiniteSet(1 .. m)
    <3>1. 1 \in Int /\ n \in Int /\ m \in Int
      BY <1>1
    <3>2. QED
      BY <3>1, FS_Interval
  <2>2. Sum(g, 1 .. m) = Sum(f, 1 .. m)
    BY <1>7, <2>1, SumSame
  <2>3. Sum(f, 1 .. m) <= Sum(f, 1 .. n)
    BY <1>6, <1>7, <2>1, SumSubset
  <2>4. QED
    BY <2>2, <2>3
<1>11. QED
  BY <1>4, <1>9, <1>10 DEF t

\* The maps of executions, one for each conversation they followed.
ExecConv(execs) == [e \in execs |-> e.conversation]

MapIds(report) == {e.conversation : e \in report.executions}

MapRecs(report) == [id \in MapIds(report) |-> Analytics!MapOf(report, id)]

LEMMA MapSteps ==
    ASSUME NEW report, IsLog(report.executions)
    PROVE  /\ IsFiniteSet(MapIds(report))
           /\ IsFiniteSet(Records(MapRecs(report), MapIds(report)))
           /\ Cardinality(Records(MapRecs(report), MapIds(report))) = Cardinality(MapIds(report))
           /\ \A x \in Records(MapRecs(report), MapIds(report)) : x["steps"] \in Nat
           /\ Analytics!SumOf(Records(MapRecs(report), MapIds(report)), "steps")
                 = Cardinality(report.executions)
<1> DEFINE execs == report.executions
           key == ExecConv(execs)
           K == MapIds(report)
           rec == MapRecs(report)
           g == [id \in K |-> Cardinality(Having(execs, key, id))]
<1>1. IsFiniteSet(execs) /\ K = {key[e] : e \in execs}
  BY DEF IsLog, MapIds, ExecConv
<1>2. IsFiniteSet(K)
  <2> HIDE DEF K, key, execs
  <2> QED BY <1>1, KeysFinite
<1>3. ASSUME NEW id \in K
      PROVE  /\ rec[id]["conversation"] = id
             /\ g[id] \in Nat /\ rec[id]["steps"] = g[id]
  <2>1. Having(execs, key, id) \in SUBSET execs
        /\ Having(execs, key, id) = Analytics!ExecutionsOf(report, id)
    BY DEF Having, Analytics!ExecutionsOf, ExecConv
  <2>2. rec[id].conversation = id
        /\ rec[id].steps = Analytics!Cardinality(Analytics!ExecutionsOf(report, id))
    BY DEF Analytics!MapOf, MapRecs
  <2>3. g[id] = Cardinality(Having(execs, key, id))
    OBVIOUS
  <2> HIDE DEF execs, key, g, rec, K
  <2>4. Cardinality(Having(execs, key, id)) \in Nat
    BY <1>1, <2>1, FS_Subset, FS_CardinalityType
  <2>5. QED
    BY <2>1, <2>2, <2>3, <2>4, SizeInReports
<1>4. Distinct(rec, K) /\ HasField(rec, K, "steps", g)
  <2> HIDE DEF rec, K, g
  <2> QED BY <1>3 DEF Distinct, HasField
<1>5. /\ IsFiniteSet(Records(rec, K)) /\ Cardinality(Records(rec, K)) = Cardinality(K)
      /\ Analytics!SumOf(Records(rec, K), "steps") = Sum(g, K)
  <2> HIDE DEF rec, K, g
  <2> QED BY <1>2, <1>4, SumOfRecords
<1>6. Sum(g, K) = Cardinality(execs)
  <2>1. /\ \A e \in execs : key[e] \in K
        /\ \A id \in K : g[id] = Cardinality(Having(execs, key, id))
    BY <1>1
  <2> HIDE DEF g, K, key, execs
  <2>2. QED
    BY <1>1, <1>2, <2>1, CardByKey
<1>7. \A x \in Records(rec, K) : x["steps"] \in Nat
  <2> HIDE DEF rec, g, K
  <2> QED BY <1>4 DEF HasField, Records
<1>8. QED
  <2> HIDE DEF rec, g, K
  <2> QED BY <1>2, <1>5, <1>6, <1>7 DEF rec, K

\* The maps that are shown hold no execution twice.
LEMMA MapsShown ==
    ASSUME NEW report, IsLog(report.executions)
    PROVE  LET maps == Analytics!BiggestExecutionMaps(report) IN
           /\ Analytics!SumAlong(maps, "steps") <= Cardinality(report.executions)
           /\ Cardinality(MapIds(report)) <= 10
                 => Analytics!SumAlong(maps, "steps") = Cardinality(report.executions)
<1> DEFINE recs == Records(MapRecs(report), MapIds(report))
           rank == [x \in recs |-> 0 - x["steps"]]
           s == Analytics!Ranked(recs, rank)
           n == Cardinality(recs)
<1>1. /\ IsFiniteSet(recs) /\ n = Cardinality(MapIds(report))
      /\ \A x \in recs : x["steps"] \in Nat
      /\ Analytics!SumOf(recs, "steps") = Cardinality(report.executions)
  BY MapSteps
<1>2. recs = {Analytics!MapOf(report, id) : id \in {e.conversation : e \in report.executions}}
  BY DEF Records, MapRecs, MapIds
<1>3. Analytics!BiggestExecutionMaps(report) = Analytics!FirstTen(s)
  BY <1>2 DEF Analytics!BiggestExecutionMaps, Analytics!Descending
<1>4. \A x \in recs : rank[x] \in Int
  BY <1>1
<1>5. /\ s \in Seq(recs) /\ Len(s) = n
      /\ IsFiniteSet(DOMAIN s) /\ OneToOne(s, DOMAIN s, recs)
  <2> HIDE DEF recs, rank
  <2> QED BY <1>1, <1>4, RankedIs
<1> HIDE DEF recs, rank, s
<1>6. Analytics!SumAlong(s, "steps") = Analytics!SumOf(recs, "steps")
  BY <1>1, <1>5, SumAlongRanking
<1>7. /\ Analytics!SumAlong(Analytics!FirstTen(s), "steps") <= Analytics!SumAlong(s, "steps")
      /\ Len(s) <= 10 => Analytics!FirstTen(s) = s
  BY <1>1, <1>5, TenShown
<1>8. QED
  BY <1>1, <1>3, <1>5, <1>6, <1>7

\* Fewer than eight of ten are fewer than nine of ten.
LEMMA AlertsRecommend ==
    ASSUME NEW report, Analytics!IsReport(report), NEW cost \in Nat
    PROVE  LET alerts == Analytics!Alerts(report, cost)
               hints == Analytics!Recommendations(report, cost)
           IN  /\ "success" \in alerts => "review" \in hints
               /\ "cost" \in alerts => "monitor" \in hints
               /\ report.conversations = {} => alerts \subseteq {"cost"}
               /\ report.conversations = {} => hints \subseteq {"monitor"}
<1> DEFINE convs == report.conversations
           n == Cardinality(convs)
           e == Cardinality(Analytics!OfStatus(convs, "error"))
<1>1. IsFiniteSet(convs)
  BY ReportLog DEF Analytics!IsReport
<1>2. n \in Nat /\ e \in Nat
  <2>1. Analytics!OfStatus(convs, "error") \in SUBSET convs
    BY DEF Analytics!OfStatus
  <2> HIDE DEF convs
  <2>2. QED
    BY <1>1, <2>1, FS_Subset, FS_CardinalityType
<1>3. \A p : Analytics!SuccessBelow(convs, p) = (100 * (n - e) < p * n)
  BY SizeInReports DEF Analytics!SuccessBelow
<1>4. Analytics!SuccessBelow(convs, 80) => Analytics!SuccessBelow(convs, 90)
  <2>1. Analytics!SuccessBelow(convs, 80) = (100 * (n - e) < 80 * n)
    BY <1>3
  <2>2. Analytics!SuccessBelow(convs, 90) = (100 * (n - e) < 90 * n)
    BY <1>3
  <2>3. 100 * (n - e) < 80 * n => 100 * (n - e) < 90 * n
    <3> HIDE DEF n, e
    <3> QED BY <1>2
  <2> HIDE DEF n, e
  <2>4. QED
    BY <2>1, <2>2, <2>3
<1>5. Analytics!Dollar = 1000000
  BY DEF Analytics!Dollar
<1>6. "success" \in Analytics!Alerts(report, cost)
         => "review" \in Analytics!Recommendations(report, cost)
  BY <1>4 DEF Analytics!Alerts, Analytics!Recommendations
<1>7. "cost" \in Analytics!Alerts(report, cost)
         => "monitor" \in Analytics!Recommendations(report, cost)
  BY <1>5 DEF Analytics!Alerts, Analytics!Recommendations
<1>8. convs = {} => /\ Analytics!Alerts(report, cost) \subseteq {"cost"}
                    /\ Analytics!Recommendations(report, cost) \subseteq {"monitor"}
  <2>1. SUFFICES ASSUME convs = {}
                 PROVE  /\ Analytics!Alerts(report, cost) \subseteq {"cost"}
                        /\ Analytics!Recommendations(report, cost) \subseteq {"monitor"}
    OBVIOUS
  <2>2. report.executions = {} /\ {x \in report.executions : x.outcome = "failed"} = {}
        /\ Analytics!OfStatus(convs, "error") = {}
    BY <2>1 DEF Analytics!IsReport, Analytics!OfStatus
  <2>3. n = 0 /\ e = 0 /\ Cardinality({}) = 0
    BY <2>1, <2>2, FS_EmptySet
  <2>4. ~ Analytics!SuccessBelow(convs, 80) /\ ~ Analytics!SuccessBelow(convs, 90)
    <3>1. Analytics!SuccessBelow(convs, 80) = (100 * (n - e) < 80 * n)
      BY <1>3
    <3>2. Analytics!SuccessBelow(convs, 90) = (100 * (n - e) < 90 * n)
      BY <1>3
    <3>3. ~ (100 * (n - e) < 80 * n) /\ ~ (100 * (n - e) < 90 * n)
      <4> HIDE DEF n, e
      <4> QED BY <2>3
    <3> HIDE DEF n, e
    <3>4. QED
      BY <3>1, <3>2, <3>3
  <2>5. /\ Analytics!Cardinality({x \in report.executions : x.outcome = "failed"}) = 0
        /\ Analytics!Cardinality(report.executions) = 0
        /\ Analytics!Cardinality(convs) = 0
    BY <2>1, <2>2, <2>3, SizeInReports
  <2>6. QED
    BY <2>4, <2>5 DEF Analytics!Alerts, Analytics!Recommendations
<1>9. QED
  BY <1>6, <1>7, <1>8

\* Where an identifier has one name, a group by name holds those by identifier.
LEMMA NamesHoldIds ==
    ASSUME NEW convs, IsFiniteSet(convs), Analytics!NamesFollowIds(convs),
           NEW g \in Analytics!ConversationsByApplication(convs)
    PROVE  \E h \in Analytics!ApplicationsByName(convs) : g.count <= h.count
<1> DEFINE id == [c \in convs |-> Analytics!AppId(c)]
           name == [c \in convs |-> Analytics!AppName(c)]
<1>1. PICK k \in {id[c] : c \in convs} : g = Analytics!GroupOf(convs, id, k)
  BY DEF Analytics!ConversationsByApplication, Analytics!Grouped
<1>2. PICK d \in convs : id[d] = k
  BY <1>1
<1> DEFINE h == Analytics!GroupOf(convs, name, name[d])
           S == Analytics!Group(convs, id, k)
           T == Analytics!Group(convs, name, name[d])
<1>3. h \in Analytics!ApplicationsByName(convs)
  BY DEF Analytics!ApplicationsByName, Analytics!Grouped
<1>4. \A c, e \in convs : id[c] = id[e] => name[c] = name[e]
  BY DEF Analytics!NamesFollowIds
<1>5. g.count = Analytics!Cardinality(S) /\ h.count = Analytics!Cardinality(T)
  BY <1>1 DEF Analytics!GroupOf
<1> HIDE DEF id, name, h
<1>6. S \in SUBSET T /\ T \in SUBSET convs
  BY <1>2, <1>4 DEF Analytics!Group
<1> HIDE DEF S, T
<1>7. Cardinality(S) <= Cardinality(T)
  BY <1>6, FS_Subset
<1>8. QED
  BY <1>3, <1>5, <1>7, SizeInReports

\* The groups of a report divide its conversations, the maps that are shown hold
\* no execution twice, and an alert comes with its recommendation
\* (calculateConversationAnalytics, calculateExecutionAnalytics and
\* generateInsights, for every report).
THEOREM GroupsAlwaysAgree ==
    ASSUME NEW report, Analytics!IsReport(report)
    PROVE  Analytics!GroupsAgree(report)
<1> DEFINE convs == report.conversations
<1>1. IsChat(convs) /\ IsLog(report.executions)
  BY ReportChat, ReportLog DEF Analytics!IsReport
<1>2. /\ Analytics!Partition(convs, Analytics!ConversationsByApplication(convs))
      /\ Analytics!Partition(convs, Analytics!ApplicationsByName(convs))
      /\ Analytics!Partition(convs, Analytics!DailyTokenUsage(convs))
      /\ Analytics!Partition(convs, Analytics!ConversationsByStatus(convs))
  BY <1>1, GroupsDivide DEF Analytics!ConversationsByApplication, Analytics!DailyTokenUsage,
                            Analytics!ConversationsByStatus, Analytics!ApplicationsByName
<1>3. /\ Analytics!SumAlong(Analytics!BiggestExecutionMaps(report), "steps")
            <= Cardinality(report.executions)
      /\ Cardinality(MapIds(report)) <= 10
            => Analytics!SumAlong(Analytics!BiggestExecutionMaps(report), "steps")
                  = Cardinality(report.executions)
  BY <1>1, MapsShown
<1>4. \A cost \in {0, 50 * Analytics!Dollar + 1, 100 * Analytics!Dollar + 1} :
         LET alerts == Analytics!Alerts(report, cost)
             hints == Analytics!Recommendations(report, cost)
         IN  /\ "success" \in alerts => "review" \in hints
             /\ "cost" \in alerts => "monitor" \in hints
             /\ convs = {} => alerts \subseteq {"cost"}
  <2>1. {0, 50 * Analytics!Dollar + 1, 100 * Analytics!Dollar + 1} \subseteq Nat
    BY DEF Analytics!Dollar
  <2>2. QED
    BY <2>1, AlertsRecommend
<1>5. Analytics!NamesFollowIds(convs) =>
         \A g \in Analytics!ConversationsByApplication(convs) :
            \E h \in Analytics!ApplicationsByName(convs) : g.count <= h.count
  BY <1>1, NamesHoldIds DEF IsChat
<1>6. QED
  BY <1>2, <1>3, <1>4, <1>5, SizeInReports DEF Analytics!GroupsAgree, MapIds

-----------------------------------------------------------------------------
(* Reports of a history.                                                   *)

\* The conversations of the days from a to b, and the executions that followed
\* them in these days.
LEMMA DashboardIs ==
    ASSUME NEW db, NEW a, NEW b
    PROVE  LET report == Analytics!Dashboard(db, [range |-> [first |-> a, last |-> b], apps |-> {}])
           IN  /\ report.conversations = {c \in Analytics!FoundBy(db.conversations, "user") :
                                              a <= c.day /\ c.day <= b}
               /\ report.executions =
                     {e \in db.executions : /\ a <= e.day /\ e.day <= b
                                            /\ \E c \in report.conversations : c.id = e.conversation}
<1> DEFINE C == Analytics!FoundBy(db.conversations, "user")
           filters == [range |-> [first |-> a, last |-> b], apps |-> {}]
<1>1. {c \in C : filters.apps # {} => c.app.value \in filters.apps} = C
  OBVIOUS
<1>2. Analytics!Dashboard(db, filters) = Analytics!ReportOf(db, C, filters.range)
  BY <1>1 DEF Analytics!Dashboard
<1>3. filters.range = [first |-> a, last |-> b]
  OBVIOUS
<1> DEFINE report == Analytics!ReportOf(db, C, [first |-> a, last |-> b])
<1> HIDE DEF C
<1>4. report.conversations = {c \in C : a <= c.day /\ c.day <= b}
  BY DEF Analytics!ReportOf, Analytics!InRange
<1>5. report.executions = {e \in db.executions : /\ a <= e.day /\ e.day <= b
                                        /\ \E c \in report.conversations : c.id = e.conversation}
  BY DEF Analytics!ReportOf, Analytics!InRange
<1>6. Analytics!Dashboard(db, filters) = report
  BY <1>2, <1>3
<1> HIDE DEF report
<1>7. QED
  BY <1>4, <1>5, <1>6 DEF C

\* A range that is cut in two loses the executions on the other side of the cut
\* than their conversation (getUserAnalyticsDashboard, for every history).
THEOREM CutAlwaysLoses ==
    ASSUME NEW db, Analytics!IsHistory(db), NEW cut \in Int, NEW last \in Int,
           0 <= cut, cut <= last
    PROVE  Analytics!CutLosesExecutions(db, cut, last)
<1> DEFINE C == Analytics!FoundBy(db.conversations, "user")
           of(a, b) == Analytics!Dashboard(db, [range |-> [first |-> a, last |-> b], apps |-> {}])
           whole == of(1, last)
           before == of(1, cut)
           after == of(cut + 1, last)
<1>1. /\ \A c \in C : c.day \in Int
      /\ \A e \in db.executions : e.day \in Int
      /\ \A c, d \in C : c.id = d.id => c = d
  BY DEF Analytics!IsHistory, Analytics!IsConversation, Analytics!IsExecution, Analytics!FoundBy
<1>2. /\ whole.conversations = {c \in C : 1 <= c.day /\ c.day <= last}
      /\ before.conversations = {c \in C : 1 <= c.day /\ c.day <= cut}
      /\ after.conversations = {c \in C : cut + 1 <= c.day /\ c.day <= last}
  BY DashboardIs
<1>3. /\ whole.executions = {e \in db.executions : /\ 1 <= e.day /\ e.day <= last
                                /\ \E c \in whole.conversations : c.id = e.conversation}
      /\ before.executions = {e \in db.executions : /\ 1 <= e.day /\ e.day <= cut
                                /\ \E c \in before.conversations : c.id = e.conversation}
      /\ after.executions = {e \in db.executions : /\ cut + 1 <= e.day /\ e.day <= last
                                /\ \E c \in after.conversations : c.id = e.conversation}
  BY DashboardIs
<1> HIDE DEF whole, before, after, C
<1>4. /\ before.conversations \union after.conversations = whole.conversations
      /\ before.conversations \intersect after.conversations = {}
  BY <1>1, <1>2
<1>5. ASSUME NEW e \in whole.executions
      PROVE  e \notin before.executions \union after.executions
                <=> \E c \in whole.conversations :
                       c.id = e.conversation /\ (c.day <= cut <=> e.day > cut)
  <2>1. PICK c \in whole.conversations : c.id = e.conversation
    BY <1>3
  <2>2. \A d \in whole.conversations : d.id = e.conversation => d = c
    BY <1>1, <1>2, <2>1
  <2>3. e \in db.executions /\ e.day \in Int /\ c.day \in Int
        /\ 1 <= e.day /\ e.day <= last /\ 1 <= c.day /\ c.day <= last
        /\ c \in C
    BY <1>1, <1>2, <1>3
  <2>4. e \in before.executions <=> e.day <= cut /\ c.day <= cut
    <3>1. c \in before.conversations <=> c.day <= cut
      BY <1>2, <2>3
    <3>2. (\E d \in before.conversations : d.id = e.conversation) <=> c \in before.conversations
      BY <1>4, <2>1, <2>2
    <3>3. QED
      BY <1>3, <2>3, <3>1, <3>2
  <2>5. e \in after.executions <=> e.day > cut /\ c.day > cut
    <3>1. c \in after.conversations <=> c.day > cut
      BY <1>2, <2>3
    <3>2. (\E d \in after.conversations : d.id = e.conversation) <=> c \in after.conversations
      BY <1>4, <2>1, <2>2
    <3>3. cut + 1 <= e.day <=> e.day > cut
      BY <2>3
    <3>4. QED
      BY <1>3, <2>3, <3>1, <3>2, <3>3
  <2>6. (\E d \in whole.conversations : d.id = e.conversation /\ (d.day <= cut <=> e.day > cut))
           <=> (c.day <= cut <=> e.day > cut)
    BY <2>1, <2>2
  <2>7. QED
    BY <2>3, <2>4, <2>5, <2>6
<1>6. whole.executions \ (before.executions \union after.executions)
         = {e \in whole.executions : \E c \in whole.conversations :
               c.id = e.conversation /\ (c.day <= cut <=> e.day > cut)}
  BY <1>5
<1>7. QED
  BY <1>4, <1>6 DEF whole, before, after, Analytics!CutLosesExecutions

\* A report of some conversations of a history is a report.
LEMMA ReportsAreReports ==
    ASSUME NEW db, Analytics!IsHistory(db), NEW convs, convs \subseteq db.conversations, NEW range
    PROVE  /\ Analytics!IsReport(Analytics!ReportOf(db, convs, range))
           /\ Analytics!ReportOf(db, convs, range).conversations \subseteq db.conversations
           /\ Analytics!ReportOf(db, convs, range).executions \subseteq db.executions
<1> DEFINE report == Analytics!ReportOf(db, convs, range)
<1>1. /\ report.conversations \in SUBSET db.conversations
      /\ report.executions \in SUBSET db.executions
      /\ \A e \in report.executions : \E c \in report.conversations : c.id = e.conversation
  BY DEF Analytics!ReportOf, Analytics!InRange
<1> HIDE DEF report
<1>2. IsFiniteSet(report.conversations) /\ IsFiniteSet(report.executions)
  BY <1>1, FiniteInReports, FS_Subset DEF Analytics!IsHistory
<1>3. Analytics!IsHistory(report)
  BY <1>1, <1>2, FiniteInReports DEF Analytics!IsHistory
<1>4. QED
  BY <1>1, <1>3 DEF report, Analytics!IsReport

\* More conversations make a larger report.
LEMMA ReportsGrow ==
    ASSUME NEW db, NEW few, NEW convs, few \subseteq convs, NEW range
    PROVE  LET narrow == Analytics!ReportOf(db, few, range)
               wide == Analytics!ReportOf(db, convs, range)
           IN  /\ narrow.conversations \subseteq wide.conversations
               /\ narrow.executions \subseteq wide.executions
  BY DEF Analytics!ReportOf, Analytics!InRange

\* A report of some of the conversations of another, with the executions that
\* followed them, has no more of anything.
LEMMA PartsNarrow ==
    ASSUME NEW narrow, NEW wide, Analytics!IsHistory(narrow), Analytics!IsHistory(wide),
           narrow.conversations \subseteq wide.conversations,
           narrow.executions \subseteq wide.executions
    PROVE  /\ Analytics!TotalTokensFromMessages(narrow) <= Analytics!TotalTokensFromMessages(wide)
           /\ Analytics!TotalTokensFromMessages(narrow) \in Nat
           /\ Analytics!TotalTokensFromMessages(wide) \in Nat
           /\ Sum(StatusSums(narrow.executions), narrow.executions)
                 <= Sum(StatusSums(wide.executions), wide.executions)
           /\ Sum(MapSums(narrow.executions), narrow.executions)
                 <= Sum(MapSums(wide.executions), wide.executions)
           /\ Sum(OnlySums(narrow.executions), narrow.executions)
                 <= Sum(OnlySums(wide.executions), wide.executions)
<1> DEFINE M == Analytics!Messages(narrow.conversations)
           N == Analytics!Messages(wide.conversations)
           f == [m \in M |-> Analytics!Size(m.tokens)]
           g == [m \in N |-> Analytics!Size(m.tokens)]
           E == narrow.executions
           F == wide.executions
<1>1. M \in SUBSET N /\ IsFiniteSet(N) /\ IsFiniteSet(M) /\ \A m \in N : g[m] \in Nat
  BY MessagesNat DEF Analytics!Messages
<1>2. \A m \in M : f[m] = g[m]
  BY <1>1
<1>3. DOMAIN f = M /\ DOMAIN g = N
  OBVIOUS
<1>4. /\ Analytics!TotalTokensFromMessages(narrow) = Analytics!SumFunction(f)
      /\ Analytics!TotalTokensFromMessages(wide) = Analytics!SumFunction(g)
  BY DEF Analytics!TotalTokensFromMessages
<1>5. Analytics!TotalTokensFromMessages(narrow) <= Analytics!TotalTokensFromMessages(wide)
  <2> HIDE DEF f, g, M, N
  <2>1. Sum(f, M) = Sum(g, M)
    BY <1>1, <1>2, SumSame
  <2>2. Sum(g, M) <= Sum(g, N)
    BY <1>1, SumSubset
  <2>3. QED
    BY <1>3, <1>4, <2>1, <2>2, SumInReports
<1>6. IsLog(E) /\ IsLog(F) /\ E \in SUBSET F /\ IsFiniteSet(E) /\ IsFiniteSet(F)
  BY ReportLog DEF IsLog
<1>7. \A e \in F : StatusSums(F)[e] \in Nat /\ MapSums(F)[e] \in Nat /\ OnlySums(F)[e] \in Nat
  BY <1>6, ExecutionUse DEF StatusSums, MapSums, OnlySums, IsLog
<1>8. \A e \in E : /\ StatusSums(E)[e] = StatusSums(F)[e] /\ MapSums(E)[e] = MapSums(F)[e]
                   /\ OnlySums(E)[e] = OnlySums(F)[e]
  BY <1>6 DEF StatusSums, MapSums, OnlySums
<1>9. ASSUME NEW s, NEW t, \A e \in F : t[e] \in Nat, \A e \in E : s[e] = t[e]
      PROVE  Sum(s, E) <= Sum(t, F)
  <2> HIDE DEF E, F
  <2>1. Sum(s, E) = Sum(t, E)
    BY <1>6, <1>9, SumSame
  <2>2. Sum(t, E) <= Sum(t, F)
    BY <1>6, <1>9, SumSubset
  <2>3. QED
    BY <2>1, <2>2
<1>10. /\ Sum(StatusSums(E), E) <= Sum(StatusSums(F), F)
       /\ Sum(MapSums(E), E) <= Sum(MapSums(F), F)
       /\ Sum(OnlySums(E), E) <= Sum(OnlySums(F), F)
  <2> HIDE DEF E, F
  <2>1. Sum(StatusSums(E), E) <= Sum(StatusSums(F), F)
    BY <1>7, <1>8, <1>9
  <2>2. Sum(MapSums(E), E) <= Sum(MapSums(F), F)
    BY <1>7, <1>8, <1>9
  <2>3. Sum(OnlySums(E), E) <= Sum(OnlySums(F), F)
    BY <1>7, <1>8, <1>9
  <2>4. QED
    BY <2>1, <2>2, <2>3
<1>11. QED
  BY <1>5, <1>10, MessagesNat

\* It uses no more in total, and its details show no more.
LEMMA UseNarrows ==
    ASSUME NEW narrow, NEW wide, Analytics!IsHistory(narrow), Analytics!IsHistory(wide),
           narrow.conversations \subseteq wide.conversations,
           narrow.executions \subseteq wide.executions
    PROVE  /\ Analytics!TotalTokens(narrow) <= Analytics!TotalTokens(wide)
           /\ Analytics!TotalTokensFromMessages(narrow) + Analytics!TotalTokensFromExecutions(narrow)
                 <= Analytics!TotalTokensFromMessages(wide) + Analytics!TotalTokensFromExecutions(wide)
<1> DEFINE E == narrow.executions
           F == wide.executions
<1>1. IsLog(E) /\ IsLog(F)
  BY ReportLog
<1>2. /\ Analytics!TotalTokens(narrow) = Analytics!TotalTokensFromMessages(narrow)
             + (Sum(StatusSums(E), E) + Sum(MapSums(E), E))
      /\ Analytics!TotalTokens(wide) = Analytics!TotalTokensFromMessages(wide)
             + (Sum(StatusSums(F), F) + Sum(MapSums(F), F))
      /\ Analytics!TotalTokensFromExecutions(narrow) = Sum(MapSums(E), E) + Sum(OnlySums(E), E)
      /\ Analytics!TotalTokensFromExecutions(wide) = Sum(MapSums(F), F) + Sum(OnlySums(F), F)
  BY TotalIs, StepsIs
<1>3. /\ Sum(StatusSums(E), E) \in Nat /\ Sum(MapSums(E), E) \in Nat /\ Sum(OnlySums(E), E) \in Nat
      /\ Sum(StatusSums(F), F) \in Nat /\ Sum(MapSums(F), F) \in Nat /\ Sum(OnlySums(F), F) \in Nat
  BY <1>1, LogSums
<1>4. /\ Analytics!TotalTokensFromMessages(narrow) <= Analytics!TotalTokensFromMessages(wide)
      /\ Analytics!TotalTokensFromMessages(narrow) \in Nat
      /\ Analytics!TotalTokensFromMessages(wide) \in Nat
      /\ Sum(StatusSums(E), E) <= Sum(StatusSums(F), F)
      /\ Sum(MapSums(E), E) <= Sum(MapSums(F), F)
      /\ Sum(OnlySums(E), E) <= Sum(OnlySums(F), F)
  BY PartsNarrow
<1>5. QED
  <2> HIDE DEF E, F
  <2> QED BY <1>2, <1>3, <1>4

-----------------------------------------------------------------------------
(* The routes.                                                             *)

\* What is shown for the days counts every conversation once.
LEMMA TrendsSum ==
    ASSUME NEW convs, IsChat(convs)
    PROVE  Analytics!SumOf(Analytics!ConversationTrends(convs), "count") = Cardinality(convs)
<1> DEFINE key == [c \in convs |-> c.day]
           G == Analytics!DailyTokenUsage(convs)
           rec == [g \in G |-> [day |-> g.key, count |-> g.count, succeeded |-> g.succeeded]]
           f == [g \in G |-> g["count"]]
<1>1. G = Analytics!Grouped(convs, key)
  BY DEF Analytics!DailyTokenUsage
<1>2. IsFiniteSet(G) /\ Analytics!Partition(convs, G) /\ \A g \in G : g.count \in Nat
  <2> HIDE DEF G
  <2> QED BY <1>1, GroupsDivide
<1>3. \A g \in G : g = Analytics!GroupOf(convs, key, g.key)
  <2>1. \A k : Analytics!GroupOf(convs, key, k).key = k
    BY DEF Analytics!GroupOf
  <2> HIDE DEF key, G
  <2>2. QED
    BY <1>1, <2>1 DEF Analytics!Grouped
<1>4. Analytics!ConversationTrends(convs) = Records(rec, G)
  BY DEF Analytics!ConversationTrends, Records
<1>5. Distinct(rec, G) /\ HasField(rec, G, "count", f)
  <2>1. \A g \in G : rec[g].day = g.key /\ rec[g]["count"] = g.count /\ f[g] = g.count
    OBVIOUS
  <2> HIDE DEF rec, f, G, key
  <2>2. QED
    BY <1>2, <1>3, <2>1 DEF Distinct, HasField
<1>6. Analytics!SumOf(Records(rec, G), "count") = Sum(f, G)
  <2> HIDE DEF rec, f, G
  <2> QED BY <1>2, <1>5, SumOfRecords
<1>7. Analytics!SumOf(G, "count") = Sum(f, G)
  <2>1. Analytics!SumOf(G, "count") = Analytics!SumFunction(f) /\ DOMAIN f = G
    BY DEF Analytics!SumOf
  <2> HIDE DEF f, G
  <2>2. QED
    BY <2>1, SumInReports
<1>8. Analytics!SumOf(G, "count") = Cardinality(convs)
  BY <1>2, SizeInReports DEF Analytics!Partition
<1>9. QED
  BY <1>4, <1>6, <1>7, <1>8

\* Every execution is on one day.
LEMMA PerformanceSum ==
    ASSUME NEW execs, IsLog(execs)
    PROVE  Analytics!SumOf(Analytics!ExecutionPerformance(execs), "count") = Cardinality(execs)
<1> DEFINE key == [e \in execs |-> e.day]
           K == {key[e] : e \in execs}
           one(d) == [day |-> d,
                      count |-> Analytics!Cardinality({e \in execs : e.day = d}),
                      succeeded |-> Analytics!Cardinality(
                                       {e \in execs : e.day = d /\ e.outcome = "completed"}),
                      time |-> Analytics!SumFunction([e \in {e \in execs : e.day = d} |-> e.duration])]
           rec == [d \in K |-> one(d)]
           g == [d \in K |-> Cardinality(Having(execs, key, d))]
<1>1. IsFiniteSet(execs)
  BY DEF IsLog
<1>2. IsFiniteSet(K)
  <2> HIDE DEF key
  <2> QED BY <1>1, KeysFinite
<1>3. Analytics!ExecutionPerformance(execs) = Records(rec, K)
  <2>1. K = {e.day : e \in execs}
    OBVIOUS
  <2>2. Analytics!ExecutionPerformance(execs) = {one(d) : d \in {e.day : e \in execs}}
    BY DEF Analytics!ExecutionPerformance
  <2> HIDE DEF one, K
  <2>3. Records(rec, K) = {one(d) : d \in K}
    BY DEF Records
  <2>4. QED
    BY <2>1, <2>2, <2>3
<1>4. ASSUME NEW d \in K
      PROVE  rec[d].day = d /\ g[d] \in Nat /\ rec[d]["count"] = g[d]
  <2>1. Having(execs, key, d) = {e \in execs : e.day = d} /\ Having(execs, key, d) \in SUBSET execs
    BY DEF Having
  <2>2. rec[d].day = d /\ rec[d].count = Analytics!Cardinality({e \in execs : e.day = d})
        /\ g[d] = Cardinality(Having(execs, key, d))
    OBVIOUS
  <2> HIDE DEF rec, g, K, key
  <2>3. Cardinality(Having(execs, key, d)) \in Nat
    BY <1>1, <2>1, FS_Subset, FS_CardinalityType
  <2>4. QED
    BY <2>1, <2>2, <2>3, SizeInReports
<1>5. Distinct(rec, K) /\ HasField(rec, K, "count", g)
  <2> HIDE DEF rec, g, K
  <2> QED BY <1>4 DEF Distinct, HasField
<1>6. Analytics!SumOf(Records(rec, K), "count") = Sum(g, K)
  <2> HIDE DEF rec, g, K
  <2> QED BY <1>2, <1>5, SumOfRecords
<1>7. Sum(g, K) = Cardinality(execs)
  <2>1. /\ \A e \in execs : key[e] \in K
        /\ \A d \in K : g[d] = Cardinality(Having(execs, key, d))
    OBVIOUS
  <2> HIDE DEF g, K, key
  <2>2. QED
    BY <1>1, <1>2, <2>1, CardByKey
<1>8. QED
  BY <1>3, <1>6, <1>7

\* The recent conversations are shown with executions of theirs, and all of ten
\* with every execution.
LEMMA RecentSum ==
    ASSUME NEW report, Analytics!IsReport(report)
    PROVE  LET recent == Analytics!RecentConversations(report) IN
           /\ Analytics!SumAlong(recent, "steps") <= Cardinality(report.executions)
           /\ Cardinality(report.conversations) <= 10
                 => Analytics!SumAlong(recent, "steps") = Cardinality(report.executions)
<1> DEFINE convs == report.conversations
           execs == report.executions
           rank == [x \in convs |-> 0 - x["day"]]
           s == Analytics!Ranked(convs, rank)
           t == Analytics!FirstTen(s)
           n == Cardinality(convs)
           m == IF n <= 10 THEN n ELSE 10
           ids == {c.id : c \in convs}
           name == [c \in convs |-> c.id]
           key == ExecConv(execs)
           g == [id \in ids |-> Cardinality(Having(execs, key, id))]
           h == [c \in convs |-> g[c.id]]
           k == [i \in 1 .. n |-> h[s[i]]]
           recent == Analytics!RecentConversations(report)
           f == [i \in DOMAIN recent |-> recent[i]["steps"]]
<1>1. IsFiniteSet(convs) /\ IsFiniteSet(execs) /\ n \in Nat
      /\ (\A c, d \in convs : c.id = d.id => c = d) /\ (\A c \in convs : c.day \in Int)
      /\ \A e \in execs : e.conversation \in ids
  <2>1. IsFiniteSet(convs) /\ IsFiniteSet(execs)
    BY ReportLog DEF Analytics!IsReport, IsLog
  <2>2. n \in Nat
    BY <2>1, FS_CardinalityType
  <2>3. QED
    BY <2>1, <2>2 DEF Analytics!IsReport, Analytics!IsHistory, Analytics!IsConversation
<1>2. \A x \in convs : rank[x] \in Int
  BY <1>1
<1>3. /\ OneToOne(s, 1 .. n, convs) /\ s \in Seq(convs) /\ DOMAIN s = 1 .. n
      /\ Len(s) = n /\ IsFiniteSet(1 .. n)
  <2> HIDE DEF convs, rank
  <2> QED BY <1>1, <1>2, RankedIs
<1>4. m \in Nat /\ m <= n /\ (n <= 10 => m = n)
  BY <1>1
<1>5. t \in Seq(convs) /\ Len(t) = m /\ \A i \in 1 .. m : t[i] = s[i]
  <2> DEFINE one == [x \in convs |-> 1]
  <2>1. /\ t \in Seq(convs)
        /\ Len(t) = (IF Len(s) <= 10 THEN Len(s) ELSE 10)
        /\ \A i \in 1 .. Len(t) : t[i] = s[i]
    <3>1. s \in Seq(convs)
      BY <1>3
    <3> HIDE DEF convs, s
    <3>2. QED
      BY <3>1, TenEntries
  <2> HIDE DEF t, s
  <2>2. QED
    BY <1>3, <2>1
<1>6. recent = [i \in 1 .. m |->
                  [id |-> t[i].id, day |-> t[i].day,
                   steps |-> Analytics!Cardinality(Analytics!ExecutionsOf(report, t[i].id))]]
  <2>1. t = Analytics!FirstTen(Analytics!Descending(convs, "day"))
    BY DEF Analytics!Descending
  <2>2. DOMAIN t = 1 .. m
    <3> HIDE DEF t, m, convs
    <3> QED BY <1>4, <1>5
  <2> HIDE DEF t, m
  <2>3. QED
    BY <2>1, <2>2 DEF Analytics!RecentConversations
<1> HIDE DEF s, t, recent, m, n
<1>7. ASSUME NEW i \in 1 .. m
      PROVE  i \in 1 .. n /\ f[i] = k[i]
  <2>1. i \in 1 .. n /\ t[i] = s[i] /\ s[i] \in convs
    BY <1>1, <1>3, <1>4, <1>5
  <2>2. f[i] = Analytics!Cardinality(Analytics!ExecutionsOf(report, s[i].id))
    BY <1>6, <2>1
  <2>3. k[i] = g[s[i].id] /\ s[i].id \in ids
    BY <2>1
  <2>4. g[s[i].id] = Cardinality(Having(execs, key, s[i].id))
    BY <2>3
  <2>5. Having(execs, key, s[i].id) = Analytics!ExecutionsOf(report, s[i].id)
    BY DEF Having, ExecConv, Analytics!ExecutionsOf
  <2> HIDE DEF f, k, g, key, execs
  <2>6. QED
    BY <2>1, <2>2, <2>3, <2>4, <2>5, SizeInReports
<1>8. IsFiniteSet(ids) /\ OneToOne(name, convs, ids)
  <2>1. ids = {name[c] : c \in convs}
    OBVIOUS
  <2>2. OneToOne(name, convs, ids)
    BY <1>1 DEF OneToOne
  <2> HIDE DEF name, ids, convs
  <2>3. QED
    BY <1>1, <2>1, <2>2, KeysFinite
<1>9. Sum(g, ids) = Cardinality(execs)
  <2>1. /\ \A e \in execs : key[e] \in ids
        /\ \A id \in ids : g[id] = Cardinality(Having(execs, key, id))
    BY <1>1 DEF ExecConv
  <2> HIDE DEF g, ids, key, execs
  <2>2. QED
    BY <1>1, <1>8, <2>1, CardByKey
<1>10. \A id \in ids : g[id] \in Nat
  <2>1. SUFFICES ASSUME NEW id \in ids PROVE Cardinality(Having(execs, key, id)) \in Nat
    OBVIOUS
  <2>2. Having(execs, key, id) \in SUBSET execs
    BY DEF Having
  <2> HIDE DEF execs, key
  <2>3. QED
    BY <1>1, <2>2, FS_Subset, FS_CardinalityType
<1>11. Sum(h, convs) = Sum(g, ids)
  <2>1. \A c \in convs : h[c] \in Nat /\ g[name[c]] = h[c]
    BY <1>10
  <2> HIDE DEF g, h, ids, name, convs
  <2>2. QED
    BY <1>1, <1>8, <2>1, SumRenamed
<1>12. Sum(k, 1 .. n) = Sum(h, convs) /\ \A i \in 1 .. n : k[i] \in Nat
  <2>1. \A i \in 1 .. n : k[i] \in Nat /\ h[s[i]] = k[i]
    BY <1>3, <1>10 DEF OneToOne
  <2> HIDE DEF h, k, convs
  <2>2. QED
    BY <1>3, <2>1, SumRenamed
<1>13. Analytics!SumAlong(recent, "steps") = Sum(f, 1 .. m)
  <2>1. Analytics!SumAlong(recent, "steps") = Analytics!SumFunction(f) /\ DOMAIN f = 1 .. m
    BY <1>6 DEF Analytics!SumAlong
  <2> HIDE DEF f
  <2>2. QED
    BY <2>1, SumInReports
<1>14. Sum(f, 1 .. m) = Sum(k, 1 .. m) /\ Sum(k, 1 .. m) <= Sum(k, 1 .. n)
  <2>1. 1 .. m \in SUBSET (1 .. n) /\ IsFiniteSet(1 .. m)
    BY <1>1, <1>3, <1>4, FS_Subset
  <2> HIDE DEF f, k
  <2>2. QED
    <3>1. \A i \in 1 .. m : f[i] = k[i]
      BY <1>7
    <3>2. Sum(f, 1 .. m) = Sum(k, 1 .. m)
      BY <2>1, <3>1, SumSame
    <3>3. \A i \in 1 .. n : k[i] \in Nat
      BY <1>12
    <3>4. IsFiniteSet(1 .. n)
      BY <1>3
    <3>5. Sum(k, 1 .. m) <= Sum(k, 1 .. n)
      BY <2>1, <3>3, <3>4, SumSubset
    <3>6. QED
      BY <3>2, <3>5
<1>15. /\ Analytics!SumAlong(recent, "steps") <= Cardinality(execs)
       /\ n <= 10 => Analytics!SumAlong(recent, "steps") = Cardinality(execs)
  <2> HIDE DEF f, g, h, k, ids, execs
  <2> QED BY <1>4, <1>9, <1>11, <1>12, <1>13, <1>14
<1>16. QED
  BY <1>15 DEF recent, n

\* The first of the applications that are shown is used as often as the one that
\* the insights name.
LEMMA MostUsedFirst ==
    ASSUME NEW convs, IsChat(convs)
    PROVE  LET chart == Analytics!TopApplications(convs) IN
           chart # <<>> => \E g \in Analytics!ApplicationsByName(convs) :
              g.key = Analytics!MostUsedApplication(convs) /\ g.count = chart[1].count
<1> DEFINE G == Analytics!ApplicationsByName(convs)
           rank == [x \in G |-> 0 - x["count"]]
           s == Analytics!Ranked(G, rank)
           chart == Analytics!FirstTen(s)
           n == Cardinality(G)
           most == CHOOSE g \in G : \A h \in G : h.count <= g.count
<1>1. Analytics!TopApplications(convs) = chart
  BY DEF Analytics!TopApplications, Analytics!Descending
<1>2. IsFiniteSet(G) /\ \A g \in G : g.count \in Nat
  BY GroupsDivide DEF Analytics!ApplicationsByName
<1>3. G # {} => Analytics!MostUsedApplication(convs) = most.key
  BY DEF Analytics!MostUsedApplication, Analytics!MostUsed
<1> HIDE DEF G
<1>4. \A x \in G : rank[x] \in Int /\ rank[x] = 0 - x.count
  BY <1>2
<1>5. /\ IsRanking(s, G, rank) /\ OneToOne(s, 1 .. n, G)
      /\ s \in Seq(G) /\ Len(s) = n /\ n \in Nat
  <2>1. \A x \in G : rank[x] \in Int
    BY <1>4
  <2> HIDE DEF rank
  <2>2. QED
    BY <1>2, <2>1, RankedIs, FS_CardinalityType
<1> HIDE DEF s, n, rank
<1>6. SUFFICES ASSUME chart # <<>>
               PROVE  \E g \in G : g.key = Analytics!MostUsedApplication(convs)
                                   /\ g.count = chart[1].count
  BY <1>1 DEF G
<1>7. 1 \in 1 .. n /\ chart[1] = s[1] /\ s[1] \in G
  <2>1. /\ chart \in Seq(G) /\ \A i \in 1 .. Len(chart) : chart[i] = s[i]
        /\ Len(chart) = (IF Len(s) <= 10 THEN Len(s) ELSE 10)
    BY <1>5, TenEntries
  <2> HIDE DEF chart
  <2>2. Len(chart) # 0
    BY <1>6, <2>1
  <2>3. 1 \in 1 .. n /\ 1 \in 1 .. Len(chart)
    BY <1>5, <2>1, <2>2
  <2>4. QED
    BY <1>5, <2>1, <2>3
<1>8. \A h \in G : h.count <= s[1].count
  <2>1. SUFFICES ASSUME NEW h \in G PROVE h.count <= s[1].count
    OBVIOUS
  <2>2. PICK i \in 1 .. n : s[i] = h
    BY <1>5 DEF OneToOne
  <2>3. rank[s[1]] <= rank[s[i]]
    <3>1. CASE i = 1
      BY <1>4, <1>7, <3>1
    <3>2. CASE i # 1
      <4>1. 1 < i
        BY <1>5, <3>2
      <4>2. QED
        BY <1>5, <1>7, <4>1 DEF IsRanking, n
    <3>3. QED
      BY <3>1, <3>2
  <2>4. rank[s[1]] = 0 - s[1].count /\ rank[s[i]] = 0 - h.count
    BY <1>4, <1>7, <2>2
  <2>5. QED
    BY <1>2, <1>7, <2>3, <2>4
<1>9. most \in G /\ \A h \in G : h.count <= most.count
  BY <1>7, <1>8
<1> HIDE DEF most, chart
<1>10. most.count = s[1].count
  <2>1. most.count <= s[1].count /\ s[1].count <= most.count
    BY <1>7, <1>8, <1>9
  <2>2. QED
    BY <1>2, <1>7, <1>9, <2>1
<1>11. QED
  BY <1>3, <1>7, <1>9, <1>10

\* With nothing to report nothing was spent, and nothing is recommended.
LEMMA NothingReported ==
    ASSUME NEW report, Analytics!IsReport(report), report.conversations = {}
    PROVE  /\ Analytics!Cardinality(report.conversations) = 0
           /\ Analytics!Recommendations(report, Analytics!TotalCost(report)) = {}
           /\ Analytics!Alerts(report, Analytics!TotalCost(report)) = {}
<1> DEFINE convs == report.conversations
           uses == [m \in Analytics!Messages(convs) |-> Analytics!Cost(m.tokens)]
           runs == [e \in report.executions |->
                      Analytics!SumFunction([t \in Analytics!Recorded(e)
                                               |-> Analytics!Cost(e.status[t].tokens)])
                      + Analytics!SumFunction([t \in Analytics!Mapped(e)
                                                 |-> Analytics!Cost(e.map[t].tokens)])]
<1>1. report.executions = {} /\ Analytics!Messages(convs) = {}
  BY DEF Analytics!IsReport, Analytics!Messages
<1>2. DOMAIN uses = {} /\ DOMAIN runs = {}
  BY <1>1
<1>3. Analytics!TotalCost(report) = Analytics!SumFunction(uses) + Analytics!SumFunction(runs)
  BY DEF Analytics!TotalCost, Analytics!Total
<1> HIDE DEF uses, runs
<1>4. Analytics!SumFunction(uses) = 0 /\ Analytics!SumFunction(runs) = 0
  BY <1>2, SumInReports, SumEmpty
<1>5. Analytics!TotalCost(report) = 0
  BY <1>3, <1>4
<1>6. /\ Analytics!Alerts(report, 0) \subseteq {"cost"}
      /\ Analytics!Recommendations(report, 0) \subseteq {"monitor"}
  <2>1. 0 \in Nat
    OBVIOUS
  <2>2. QED
    BY <2>1, AlertsRecommend
<1>7. "cost" \notin Analytics!Alerts(report, 0) /\ "monitor" \notin Analytics!Recommendations(report, 0)
  BY DEF Analytics!Alerts, Analytics!Recommendations, Analytics!Dollar
<1>8. QED
  BY <1>5, <1>6, <1>7, SizeInReports, FS_EmptySet

\* Dashboards and details are reports, which the applications narrow.
LEMMA DashboardsAre ==
    ASSUME NEW db, Analytics!IsHistory(db), NEW range, NEW apps
    PROVE  LET narrow == Analytics!Dashboard(db, [range |-> range, apps |-> apps])
               wide == Analytics!Dashboard(db, [range |-> range, apps |-> {}])
               detail == Analytics!Detailed(db, [range |-> range, apps |-> apps])
           IN  /\ Analytics!IsReport(narrow) /\ Analytics!IsReport(wide) /\ Analytics!IsReport(detail)
               /\ narrow.conversations \subseteq wide.conversations
               /\ narrow.executions \subseteq wide.executions
               /\ apps = {} => narrow.conversations = wide.conversations
               /\ Analytics!FoundBy(db.conversations, "userId")
                     \subseteq Analytics!FoundBy(db.conversations, "user")
                  => /\ detail.conversations \subseteq wide.conversations
                     /\ detail.executions \subseteq wide.executions
<1> DEFINE C == Analytics!FoundBy(db.conversations, "user")
           D == Analytics!FoundBy(db.conversations, "userId")
           B == {c \in C : apps # {} => c.app.value \in apps}
           filters == [range |-> range, apps |-> apps]
           all == [range |-> range, apps |-> {}]
<1>1. B \subseteq C /\ C \subseteq db.conversations /\ D \subseteq db.conversations
  BY DEF Analytics!FoundBy
<1>2. {c \in C : all.apps # {} => c.app.value \in all.apps} = C
      /\ {c \in C : filters.apps # {} => c.app.value \in filters.apps} = B
      /\ filters.range = range /\ all.range = range
  OBVIOUS
<1>3. /\ Analytics!Dashboard(db, filters) = Analytics!ReportOf(db, B, range)
      /\ Analytics!Dashboard(db, all) = Analytics!ReportOf(db, C, range)
      /\ Analytics!Detailed(db, filters) = Analytics!ReportOf(db, D, range)
  BY <1>2 DEF Analytics!Dashboard, Analytics!Detailed
<1>4. apps = {} => B = C
  OBVIOUS
<1> HIDE DEF B, C, D, filters, all
<1>5. B \subseteq db.conversations
  BY <1>1
<1>6. /\ Analytics!IsReport(Analytics!ReportOf(db, B, range))
      /\ Analytics!IsReport(Analytics!ReportOf(db, C, range))
      /\ Analytics!IsReport(Analytics!ReportOf(db, D, range))
  BY <1>1, <1>5, ReportsAreReports
<1> DEFINE of(S) == Analytics!ReportOf(db, S, range)
<1>7. /\ of(B).conversations \subseteq of(C).conversations
      /\ of(B).executions \subseteq of(C).executions
      /\ apps = {} => of(B).conversations = of(C).conversations
  BY <1>1, <1>4, ReportsGrow
<1>8. D \subseteq C => /\ of(D).conversations \subseteq of(C).conversations
                      /\ of(D).executions \subseteq of(C).executions
  BY ReportsGrow
<1> HIDE DEF of
<1>9. Analytics!Dashboard(db, filters) = of(B) /\ Analytics!Dashboard(db, all) = of(C)
      /\ Analytics!Detailed(db, filters) = of(D)
  BY <1>3 DEF of
<1>10. Analytics!IsReport(of(B)) /\ Analytics!IsReport(of(C)) /\ Analytics!IsReport(of(D))
  BY <1>6 DEF of
<1>11. QED
  BY <1>7, <1>8, <1>9, <1>10 DEF C, D, filters, all

\* The routes of one query agree with each other: the applications narrow the
\* dashboard and the conversations only, what is shown in parts adds up to the
\* totals beside it, and nothing to report is no alert (user.service.ts,
\* for every history and query).
THEOREM RoutesAlwaysAgree ==
    ASSUME NEW db, Analytics!IsHistory(db), NEW first, NEW last, NEW apps, NEW today
    PROVE  Analytics!RoutesAgree(db, [first |-> first, last |-> last, apps |-> apps], today)
<1> DEFINE query == [first |-> first, last |-> last, apps |-> apps]
           all == [first |-> first, last |-> last, apps |-> {}]
           range == Analytics!RangeOf(query, today)
           narrow == Analytics!Dashboard(db, [range |-> range, apps |-> apps])
           wide == Analytics!Dashboard(db, [range |-> range, apps |-> {}])
           execs == wide.executions
           convs == narrow.conversations
           tokens == Analytics!getTokenAnalytics(db, query, today)
           talks == Analytics!getConversationAnalytics(db, query, today)
           runs == Analytics!getExecutionAnalytics(db, query, today)
           shown == Analytics!getApplicationStats(db, query, today)
           hints == Analytics!getInsights(db, query, today)
           detail == Analytics!getDetailedAnalytics(db, query, today)
           own == Analytics!Detailed(db, [range |-> range, apps |-> apps])
           typed == Analytics!SumOf(runs.types, "tokens") + Analytics!TotalTokensFromMessages(wide)
<1>1. [query EXCEPT !.apps = {}] = all /\ Analytics!RangeOf(all, today) = range
  BY DEF Analytics!RangeOf
<1>2. /\ Analytics!getAnalyticsDashboard(db, query, today) = narrow
      /\ Analytics!getAnalyticsDashboard(db, [query EXCEPT !.apps = {}], today) = wide
  BY <1>1 DEF Analytics!getAnalyticsDashboard
<1>3. query.apps = apps
  OBVIOUS
<1>4. /\ tokens.total = Analytics!TotalTokens(wide)
      /\ talks.total = Analytics!Cardinality(convs)
      /\ talks.statuses = Analytics!ConversationsByStatus(convs)
      /\ talks.recent = Analytics!RecentConversations(narrow)
      /\ talks.chart = Analytics!ConversationTrends(convs)
      /\ runs.types = Analytics!ExecutionsByType(execs)
      /\ runs.chart = Analytics!ExecutionPerformance(execs)
      /\ shown.chart = Analytics!TopApplications(wide.conversations)
      /\ hints.insights = Analytics!Insights(wide)
      /\ hints.conversations = Analytics!Cardinality(wide.conversations)
      /\ hints.tokens = Analytics!TotalTokens(wide)
      /\ Analytics!Cardinality(wide.conversations) = 0 => hints.success = 0
      /\ detail.tokens = Analytics!TotalTokensFromMessages(own)
                            + Analytics!TotalTokensFromExecutions(own)
  <2> HIDE DEF query, narrow, wide
  <2>1. query.apps = apps /\ Analytics!RangeOf(query, today) = range
    BY DEF query
  <2>2. QED
    BY <1>2, <1>3, <2>1
    DEF Analytics!getTokenAnalytics, Analytics!getConversationAnalytics,
        Analytics!getExecutionAnalytics, Analytics!getApplicationStats,
        Analytics!getInsights, Analytics!getDetailedAnalytics
<1>5. /\ Analytics!IsReport(narrow) /\ Analytics!IsReport(wide) /\ Analytics!IsReport(own)
      /\ convs \subseteq wide.conversations /\ narrow.executions \subseteq execs
      /\ Analytics!FoundBy(db.conversations, "userId")
            \subseteq Analytics!FoundBy(db.conversations, "user")
         => own.conversations \subseteq wide.conversations /\ own.executions \subseteq execs
  <2> HIDE DEF range
  <2> QED BY DashboardsAre
<1>6. query.apps = {} => convs = wide.conversations
  <2> HIDE DEF range
  <2> QED BY <1>3, DashboardsAre
<1> HIDE DEF narrow, wide, own, tokens, talks, runs, shown, hints, detail, range, query
<1>7. /\ Analytics!IsHistory(narrow) /\ Analytics!IsHistory(wide)
      /\ Analytics!IsHistory(own) /\ IsLog(execs) /\ IsChat(convs) /\ IsChat(wide.conversations)
      /\ IsFiniteSet(convs) /\ IsFiniteSet(wide.conversations)
  BY <1>5, ReportLog, ReportChat DEF Analytics!IsReport
<1>8. Analytics!TotalTokens(narrow) <= tokens.total
  BY <1>4, <1>5, <1>7, UseNarrows
<1>9. /\ typed <= tokens.total
      /\ Analytics!FoundBy(db.conversations, "userId")
            \subseteq Analytics!FoundBy(db.conversations, "user") => detail.tokens <= typed
  <2> DEFINE seen == Analytics!TotalTokensFromMessages(wide)
                        + Analytics!TotalTokensFromExecutions(wide)
             messages == Analytics!TotalTokensFromMessages(wide)
             status == Sum(StatusSums(execs), execs)
             map == Sum(MapSums(execs), execs)
             twice == Sum(TwiceSums(execs), execs)
             only == Sum(OnlySums(execs), execs)
             alone == Sum(AloneSums(execs), execs)
  <2>1. /\ tokens.total = messages + (status + map)
        /\ seen = messages + (map + only)
        /\ Analytics!SumOf(runs.types, "tokens") = map + (only + alone)
        /\ messages \in Nat
    BY <1>4, <1>7, TotalIs, StepsIs, TypesIs, MessagesNat
  <2>2. /\ status = twice + only /\ alone <= twice
        /\ status \in Nat /\ map \in Nat /\ twice \in Nat /\ only \in Nat /\ alone \in Nat
    BY <1>7, LogSums
  <2>3. typed = (map + (only + alone)) + messages
    BY <2>1
  <2>4. Analytics!FoundBy(db.conversations, "userId")
           \subseteq Analytics!FoundBy(db.conversations, "user") => detail.tokens <= seen
    BY <1>4, <1>5, <1>7, UseNarrows
  <2>5. Analytics!FoundBy(db.conversations, "userId")
           \subseteq Analytics!FoundBy(db.conversations, "user") => detail.tokens \in Int
    BY <1>4, <1>7, StepsIs, LogSums, ReportLog, MessagesNat
  <2> HIDE DEF messages, status, map, twice, only, alone, typed, seen
  <2>6. seen <= typed /\ typed <= tokens.total /\ seen \in Int /\ typed \in Int
    BY <2>1, <2>2, <2>3
  <2>7. QED
    BY <2>4, <2>5, <2>6
<1>10. /\ hints.tokens = tokens.total /\ talks.total <= hints.conversations
       /\ query.apps = {} => talks.total = hints.conversations
  <2>1. Cardinality(convs) <= Cardinality(wide.conversations)
    BY <1>5, <1>7, FS_Subset
  <2>2. QED
    BY <1>4, <1>6, <2>1, SizeInReports
<1>11. /\ Analytics!SumOf(talks.chart, "count") = talks.total
       /\ Analytics!SumOf(talks.statuses, "count") = talks.total
  <2>1. Analytics!SumOf(Analytics!ConversationTrends(convs), "count") = Cardinality(convs)
    BY <1>7, TrendsSum
  <2>2. Analytics!Partition(convs, Analytics!ConversationsByStatus(convs))
    BY <1>7, GroupsDivide DEF Analytics!ConversationsByStatus
  <2>3. QED
    BY <1>4, <2>1, <2>2, SizeInReports DEF Analytics!Partition
<1>12. /\ Analytics!SumAlong(talks.recent, "steps") <= Analytics!Cardinality(narrow.executions)
       /\ talks.total <= 10
             => Analytics!SumAlong(talks.recent, "steps") = Analytics!Cardinality(narrow.executions)
  BY <1>4, <1>5, RecentSum, SizeInReports
<1>13. Analytics!SumOf(runs.chart, "count") = Analytics!Cardinality(execs)
  BY <1>4, <1>7, PerformanceSum, SizeInReports
<1>14. shown.chart # <<>> =>
          \E g \in Analytics!ApplicationsByName(wide.conversations) :
             g.key = hints.insights.app /\ g.count = shown.chart[1].count
  <2>1. hints.insights.app = Analytics!MostUsedApplication(wide.conversations)
    BY <1>4 DEF Analytics!Insights
  <2>2. QED
    BY <1>4, <1>7, <2>1, MostUsedFirst
<1>15. wide.conversations = {} => /\ hints.success = 0 /\ hints.insights.recommendations = {}
                                  /\ hints.insights.alerts = {}
  <2>1. /\ hints.insights.recommendations
              = Analytics!Recommendations(wide, Analytics!TotalCost(wide))
        /\ hints.insights.alerts = Analytics!Alerts(wide, Analytics!TotalCost(wide))
    BY <1>4 DEF Analytics!Insights
  <2>2. QED
    BY <1>4, <1>5, <2>1, NothingReported
<1>16. QED
  BY <1>2, <1>8, <1>9, <1>10, <1>11, <1>12, <1>13, <1>14, <1>15
  DEF Analytics!RoutesAgree, tokens, talks, runs, shown, hints, detail, query

-----------------------------------------------------------------------------
(* The trend, the pages and the plans.                                     *)

-----------------------------------------------------------------------------
(* The trend, the pages and the plans.                                     *)

\* The sum of days of one cost.
LEMMA SumOfDays ==
    ASSUME NEW days, NEW a \in Int, NEW b \in Int, a <= b, NEW c \in Nat,
           \A i \in a .. b : days[i].cost = c
    PROVE  Analytics!SumCost(days, a, b) = ((b - a) + 1) * c
<1> DEFINE f == [i \in a .. b |-> days[i].cost]
<1>1. Analytics!SumCost(days, a, b) = Analytics!SumFunction(f) /\ DOMAIN f = a .. b
  BY DEF Analytics!SumCost
<1>2. \A i \in a .. b : f[i] = c
  OBVIOUS
<1>3. IsFiniteSet(a .. b) /\ Cardinality(a .. b) = (b - a) + 1
  BY FS_Interval
<1> HIDE DEF f
<1>4. Analytics!SumFunction(f) = Sum(f, a .. b)
  BY <1>1, SumInReports
<1>5. Sum(f, a .. b) = Cardinality(a .. b) * c
  BY <1>2, <1>3, SumConstant
<1>6. QED
  BY <1>1, <1>3, <1>4, <1>5

\* The trend compares the sum of three days with the sum of four: use that never
\* changes is called an improvement, and what grew by a third is called stable
\* (generateInsights, for every number of days and every cost).
THEOREM TrendAlwaysComparesSums ==
    ASSUME NEW n \in Nat, n >= 7, NEW c \in Nat \ {0}
    PROVE  /\ Analytics!CostEfficiencyTrend([i \in 1 .. n |-> [cost |-> c]]) = "improving"
           /\ Analytics!CostEfficiencyTrend(
                 [i \in 1 .. n |-> [cost |-> IF i <= n - 3 THEN 3 * c ELSE 4 * c]]) = "stable"
<1> DEFINE flat == [i \in 1 .. n |-> [cost |-> c]]
           rise == [i \in 1 .. n |-> [cost |-> IF i <= n - 3 THEN 3 * c ELSE 4 * c]]
           recent(days) == Analytics!SumCost(days, n - 2, n)
           before(days) == Analytics!SumCost(days, n - 6, n - 3)
<1>1. Len(flat) = n /\ Len(rise) = n
  OBVIOUS
<1>2. /\ \A i \in n - 2 .. n : flat[i].cost = c /\ rise[i].cost = 4 * c
      /\ \A i \in n - 6 .. n - 3 : flat[i].cost = c /\ rise[i].cost = 3 * c
  OBVIOUS
<1> HIDE DEF flat, rise
<1>3. /\ n - 2 \in Int /\ n \in Int /\ n - 2 <= n /\ (n - (n - 2)) + 1 = 3
      /\ n - 6 \in Int /\ n - 3 \in Int /\ n - 6 <= n - 3 /\ ((n - 3) - (n - 6)) + 1 = 4
      /\ c \in Nat /\ 3 * c \in Nat /\ 4 * c \in Nat
  OBVIOUS
<1>4. recent(flat) = 3 * c
  BY <1>2, <1>3, SumOfDays
<1>5. before(flat) = 4 * c
  BY <1>2, <1>3, SumOfDays
<1>6. recent(rise) = 3 * (4 * c)
  BY <1>2, <1>3, SumOfDays
<1>7. before(rise) = 4 * (3 * c)
  BY <1>2, <1>3, SumOfDays
<1>8. \A days : Len(days) = n /\ recent(days) \in Nat /\ before(days) \in Nat =>
         /\ 10 * recent(days) < 9 * before(days)
               => Analytics!CostEfficiencyTrend(days) = "improving"
         /\ ~ (10 * recent(days) < 9 * before(days)) /\ ~ (10 * recent(days) > 11 * before(days))
               => Analytics!CostEfficiencyTrend(days) = "stable"
  <2>1. SUFFICES ASSUME NEW days, Len(days) = n, recent(days) \in Nat, before(days) \in Nat
                 PROVE  /\ 10 * recent(days) < 9 * before(days)
                              => Analytics!CostEfficiencyTrend(days) = "improving"
                        /\ /\ ~ (10 * recent(days) < 9 * before(days))
                           /\ ~ (10 * recent(days) > 11 * before(days))
                           => Analytics!CostEfficiencyTrend(days) = "stable"
    OBVIOUS
  <2>2. Analytics!CostEfficiencyTrend(days) =
           CASE n < 7 -> "stable"
             [] n >= 7 /\ 10 * recent(days) < 9 * before(days) -> "improving"
             [] n >= 7 /\ 10 * recent(days) > 11 * before(days) -> "declining"
             [] OTHER -> "stable"
    BY <2>1 DEF Analytics!CostEfficiencyTrend
  <2>3. n >= 7 /\ ~ (n < 7)
    OBVIOUS
  <2> HIDE DEF recent, before
  <2>4. CASE 10 * recent(days) < 9 * before(days)
    <3>1. ~ (10 * recent(days) > 11 * before(days))
      BY <2>1, <2>4
    <3>2. QED
      BY <2>2, <2>3, <2>4, <3>1
  <2>5. CASE ~ (10 * recent(days) < 9 * before(days))
    BY <2>2, <2>3, <2>5
  <2>6. QED
    BY <2>4, <2>5
<1>9. /\ recent(flat) \in Nat /\ before(flat) \in Nat
      /\ recent(rise) \in Nat /\ before(rise) \in Nat
      /\ 10 * recent(flat) < 9 * before(flat)
      /\ ~ (10 * recent(rise) < 9 * before(rise)) /\ ~ (10 * recent(rise) > 11 * before(rise))
  BY <1>4, <1>5, <1>6, <1>7
<1> HIDE DEF recent, before
<1>10. QED
  BY <1>1, <1>8, <1>9 DEF flat, rise

\* A flattened sequence of sequences is what it grows to, one after the other.
Accumulates(h, seqs, n) ==
    /\ Len(seqs) = n /\ h[1] = seqs[1]
    /\ \A i \in 2 .. n : h[i] = h[i - 1] \o seqs[i]

LEMMA FlattenIs ==
    ASSUME NEW seqs, NEW n \in Nat \ {0}, NEW h, Accumulates(h, seqs, n)
    PROVE  Analytics!FlattenSeq(seqs) = h[n]
<1> DEFINE IsFlat(g) == g = [i \in 1 .. n |-> IF i = 1 THEN seqs[i] ELSE g[i - 1] \o seqs[i]]
           flat == CHOOSE g : IsFlat(g)
           h0 == [i \in 1 .. n |-> h[i]]
<1>0. /\ Len(seqs) = n /\ h[1] = seqs[1]
      /\ \A i \in 2 .. n : h[i] = h[i - 1] \o seqs[i]
  BY DEF Accumulates
<1>1. IsFlat(h0)
  <2>1. \A i \in 1 .. n : h0[i] = IF i = 1 THEN seqs[i] ELSE h0[i - 1] \o seqs[i]
    <3>1. SUFFICES ASSUME NEW i \in 1 .. n
                   PROVE  h0[i] = IF i = 1 THEN seqs[i] ELSE h0[i - 1] \o seqs[i]
      OBVIOUS
    <3>2. CASE i = 1
      BY <1>0, <3>2
    <3>3. CASE i # 1
      <4>1. i \in 2 .. n /\ i - 1 \in 1 .. n
        BY <3>3
      <4>2. h0[i] = h[i] /\ h0[i - 1] = h[i - 1]
        BY <4>1
      <4> HIDE DEF h0
      <4>3. QED
        BY <1>0, <3>3, <4>1, <4>2
    <3>4. QED
      BY <3>2, <3>3
  <2>2. h0 = [i \in 1 .. n |-> h0[i]]
    OBVIOUS
  <2> HIDE DEF h0
  <2>3. QED
    BY <2>1, <2>2
<1>2. IsFlat(flat)
  <2> HIDE DEF IsFlat
  <2> QED BY <1>1
<1>3. Analytics!FlattenSeq(seqs) = flat[n]
  BY <1>0 DEF Analytics!FlattenSeq
<1> HIDE DEF flat
<1>4. \A i \in 1 .. n : flat[i] = IF i = 1 THEN seqs[i] ELSE flat[i - 1] \o seqs[i]
  BY <1>2
<1> HIDE DEF IsFlat, h0
<1>5. \A i \in 1 .. n : flat[i] = h[i]
  <2> DEFINE bad == {i \in 1 .. n : flat[i] # h[i]}
             rank == [i \in 1 .. n |-> 0 - i]
  <2>1. SUFFICES ASSUME bad # {} PROVE FALSE
    OBVIOUS
  <2>2. IsFiniteSet(bad) /\ \A i \in bad : rank[i] \in Int
    <3>1. 1 \in Int /\ n \in Int
      OBVIOUS
    <3>2. IsFiniteSet(1 .. n)
      BY <3>1, FS_Interval
    <3>3. QED
      BY <3>2, FS_Subset
  <2>3. PICK k \in bad : \A i \in bad : rank[i] <= rank[k]
    <3> HIDE DEF bad, rank
    <3> QED BY <2>1, <2>2, HighestExists
  <2>4. k # 1 /\ k \in 2 .. n /\ k - 1 \in 1 .. n
    <3>1. flat[1] = seqs[1]
      BY <1>4
    <3>2. QED
      BY <1>0, <3>1
  <2>5. k - 1 \notin bad
    BY <2>3, <2>4
  <2>6. flat[k - 1] = h[k - 1]
    BY <2>4, <2>5
  <2>7. flat[k] = flat[k - 1] \o seqs[k] /\ h[k] = h[k - 1] \o seqs[k]
    BY <1>0, <1>4, <2>4
  <2>8. QED
    BY <2>6, <2>7
<1>6. QED
  BY <1>3, <1>5

\* Multiples of a width.
LEMMA Multiples ==
    ASSUME NEW k \in Nat, NEW width \in Nat \ {0}
    PROVE  /\ k * width \in Nat /\ k <= k * width
           /\ (k + 1) * width = k * width + width
<1> DEFINE v == width - 1
<1>1. v \in Nat /\ width = v + 1
  OBVIOUS
<1> HIDE DEF v
<1>2. k * v \in Nat
  BY <1>1
<1>3. k * (v + 1) = k * v + k
  BY <1>1
<1>4. (k + 1) * (v + 1) = k * (v + 1) + (v + 1)
  BY <1>1
<1>5. QED
  BY <1>1, <1>2, <1>3, <1>4

LEMMA MultiplesGrow ==
    ASSUME NEW k \in Nat, NEW m \in Nat, k <= m, NEW width \in Nat \ {0}
    PROVE  k * width <= m * width
<1> DEFINE d == m - k
<1>1. d \in Nat /\ m = k + d
  OBVIOUS
<1> HIDE DEF d
<1>2. d * width \in Nat /\ k * width \in Nat
  BY <1>1
<1>3. (k + d) * width = k * width + d * width
  BY <1>1
<1>4. QED
  BY <1>1, <1>2, <1>3

\* The pages that a list of n items fills are the first ones.
FilledPages(n, width) == {k \in 0 .. n : k * width < n}

LEMMA PagesAreFirst ==
    ASSUME NEW n \in Nat \ {0}, NEW width \in Nat \ {0}
    PROVE  \E m \in Nat : /\ FilledPages(n, width) = 0 .. m /\ Cardinality(FilledPages(n, width)) = m + 1
                          /\ (m + 1) * width >= n /\ \A k \in 0 .. m : k * width < n
<1> DEFINE P == FilledPages(n, width)
           rank == [k \in 0 .. n |-> k]
<1>1. IsFiniteSet(P) /\ 0 \in P /\ \A k \in P : rank[k] \in Int
  <2>1. 0 \in Int /\ n \in Int
    OBVIOUS
  <2>2. IsFiniteSet(0 .. n)
    BY <2>1, FS_Interval
  <2>3. P \in SUBSET (0 .. n)
    BY DEF FilledPages
  <2>4. IsFiniteSet(P) /\ \A k \in P : rank[k] \in Int
    BY <2>2, <2>3, FS_Subset
  <2>5. 0 * width = 0
    OBVIOUS
  <2>6. QED
    BY <2>4, <2>5 DEF FilledPages
<1>2. PICK m \in P : \A k \in P : rank[k] <= rank[m]
  <2> HIDE DEF P, rank
  <2> QED BY <1>1, HighestExists
<1>3. m \in Nat /\ m * width < n /\ \A k \in P : k <= m
  BY <1>2 DEF FilledPages
<1>4. \A k \in 0 .. m : k * width < n
  <2>1. SUFFICES ASSUME NEW k \in 0 .. m PROVE k * width < n
    OBVIOUS
  <2>2. k \in Nat /\ k <= m
    BY <1>3
  <2>3. k * width <= m * width
    BY <1>3, <2>2, MultiplesGrow
  <2>4. k * width \in Nat /\ m * width \in Nat
    BY <1>3, <2>2, Multiples
  <2>5. QED
    BY <1>3, <2>3, <2>4
<1>5. m * width \in Nat /\ m <= m * width
  BY <1>3, Multiples
<1>6. P = 0 .. m
  <2>1. 0 .. m \subseteq 0 .. n
    BY <1>3, <1>5
  <2>2. P \subseteq 0 .. m
    <3>1. P \subseteq Nat
      BY DEF FilledPages
    <3> HIDE DEF P
    <3>2. QED
      BY <1>3, <3>1
  <2>3. 0 .. m \subseteq P
    <3>1. \A k \in 0 .. n : k * width < n => k \in P
      BY DEF FilledPages
    <3> HIDE DEF P
    <3>2. QED
      BY <1>4, <2>1, <3>1
  <2> HIDE DEF P
  <2>4. QED
    BY <2>2, <2>3
<1>7. (m + 1) * width >= n
  <2>1. m + 1 \in 0 .. n /\ m + 1 \notin P
    BY <1>3, <1>5
  <2>2. ~ ((m + 1) * width < n)
    BY <2>1 DEF FilledPages
  <2>3. (m + 1) * width \in Nat
    <3>1. m + 1 \in Nat
      BY <1>3
    <3>2. QED
      BY <3>1, Multiples
  <2>4. QED
    BY <2>2, <2>3
<1>8. Cardinality(P) = m + 1
  <2>1. 0 \in Int /\ m \in Int
    BY <1>3
  <2>2. Cardinality(0 .. m) = m + 1
    BY <1>3, <2>1, FS_Interval
  <2>3. QED
    BY <1>6, <2>2
<1>9. QED
  BY <1>3, <1>4, <1>6, <1>7, <1>8

\* Where a page ends.
Least(a, b) == IF a <= b THEN a ELSE b

LEMMA PageIs ==
    ASSUME NEW items, NEW offset \in Nat, NEW width \in Nat \ {0}, NEW S, items \in Seq(S)
    PROVE  /\ Analytics!PageOf(items, offset, width).items
                 = SubSeq(items, offset + 1, Least(offset + width, Len(items)))
           /\ Analytics!PageOf(items, offset, width).more = (offset + width < Len(items))
<1> DEFINE n == Len(items)
<1>1. n \in Nat /\ offset + width \in Nat
  OBVIOUS
<1> HIDE DEF n
<1>2. Analytics!Min({offset + width, n}) = Least(offset + width, n)
  BY <1>1 DEF Analytics!Min, Least
<1>3. QED
  BY <1>2 DEF Analytics!PageOf, n

\* Pages of any width, one after the other, hold the list, and more follows on
\* every page but the last (getDetailedAnalytics, for every list and width).
THEOREM PagesAlwaysAgree ==
    ASSUME NEW S, NEW items \in Seq(S), NEW width \in Nat \ {0}
    PROVE  Analytics!PagesAgree(items, width)
<1> DEFINE n == Len(items)
           pages == FilledPages(n, width)
           count == Cardinality(pages)
           seqs == [k \in 1 .. count |->
                       Analytics!PageOf(items, (k - 1) * width, width).items]
           h == [k \in 1 .. count |-> SubSeq(items, 1, Least(k * width, n))]
<1>1. n \in Nat
  OBVIOUS
<1>2. \A k \in Nat : k * width \in Nat /\ (k + 1) * width = k * width + width
  BY Multiples
<1>3. \A k \in pages :
         Analytics!PageOf(items, k * width, width).more <=> k + 1 \in pages
  <2>1. SUFFICES ASSUME NEW k \in pages
                 PROVE  (k * width + width < n) <=> k + 1 \in pages
    <3>1. \A k \in pages : k * width \in Nat
      BY <1>1, <1>2 DEF FilledPages
    <3> HIDE DEF n, pages
    <3>2. QED
      BY <3>1, PageIs DEF n
  <2>2. k \in Nat /\ k * width \in Nat /\ (k + 1) * width = k * width + width
    BY <1>1, <1>2 DEF FilledPages
  <2>3. (k + 1) * width < n => k + 1 <= n
    <3>1. k + 1 \in Nat /\ (k + 1) * width \in Nat
      BY <1>2, <2>2
    <3>2. k + 1 <= (k + 1) * width
      BY <3>1, Multiples
    <3> HIDE DEF n
    <3>3. QED
      BY <1>1, <3>1, <3>2
  <2>4. QED
    BY <1>1, <2>2, <2>3 DEF FilledPages
<1>4. Analytics!FlattenSeq(seqs) = items
  <2>1. CASE n = 0
    <3>1. pages = {} /\ count = 0
      <4>1. pages = {}
        BY <1>2, <2>1 DEF FilledPages
      <4>2. QED
        BY <4>1, FS_EmptySet
    <3>2. seqs = <<>> /\ items = <<>>
      BY <2>1, <3>1
    <3> HIDE DEF seqs
    <3>3. QED
      BY <3>2 DEF Analytics!FlattenSeq
  <2>2. CASE n # 0
    <3>1. n \in Nat \ {0}
      BY <1>1, <2>2
    <3>2. PICK m \in Nat : /\ count = m + 1 /\ (m + 1) * width >= n
                           /\ \A k \in 0 .. m : k * width < n
      <4> HIDE DEF n
      <4> QED BY <3>1, PagesAreFirst
    <3>3. count \in Nat \ {0} /\ Len(seqs) = count
      <4> HIDE DEF count
      <4> QED BY <3>2
    <3>4. ASSUME NEW k \in 1 .. count
          PROVE  seqs[k] = SubSeq(items, (k - 1) * width + 1, Least(k * width, n))
      <4>1. k - 1 \in Nat /\ (k - 1) * width \in Nat /\ ((k - 1) + 1) * width = (k - 1) * width + width
        <5> HIDE DEF count
        <5>1. k - 1 \in Nat
          BY <3>3
        <5>2. QED
          BY <1>2, <5>1
      <4>2. k * width = (k - 1) * width + width
        <5>1. (k - 1) + 1 = k
          OBVIOUS
        <5>2. QED
          BY <4>1, <5>1
      <4>3. Analytics!PageOf(items, (k - 1) * width, width).items
               = SubSeq(items, (k - 1) * width + 1, Least((k - 1) * width + width, n))
        BY <4>1, PageIs
      <4>4. QED
        BY <4>2, <4>3
    <3>5. h[1] = seqs[1]
      <4>1. 1 \in 1 .. count /\ (1 - 1) * width + 1 = 1
        <5> HIDE DEF count
        <5> QED BY <3>3
      <4>2. seqs[1] = SubSeq(items, (1 - 1) * width + 1, Least(1 * width, n))
        <5> HIDE DEF seqs, count, n
        <5> QED BY <3>4, <4>1
      <4>3. h[1] = SubSeq(items, 1, Least(1 * width, n))
        BY <4>1
      <4> HIDE DEF h, seqs, n
      <4>4. QED
        BY <4>1, <4>2, <4>3
    <3>6. ASSUME NEW k \in 2 .. count
          PROVE  h[k] = h[k - 1] \o seqs[k]
      <4> DEFINE a == (k - 1) * width
                 b == Least(k * width, n)
      <4>1. k \in 1 .. count /\ k - 1 \in 1 .. count /\ k - 1 \in 0 .. m /\ k - 1 \in Nat
        <5> HIDE DEF count
        <5> QED BY <3>2, <3>3
      <4>2. a \in Nat /\ a < n
        BY <1>2, <3>2, <4>1
      <4>3. k * width = a + width
        <5>1. ((k - 1) + 1) * width = a + width /\ (k - 1) + 1 = k
          BY <1>2, <4>1
        <5>2. QED
          BY <5>1
      <4>4. b \in a .. n
        <5> HIDE DEF a, n
        <5> QED BY <1>1, <4>2, <4>3 DEF Least
      <4>5. h[k - 1] = SubSeq(items, 1, a)
        <5>1. Least((k - 1) * width, n) = a
          <6> HIDE DEF n
          <6> QED BY <1>1, <4>2 DEF Least
        <5>2. QED
          BY <4>1, <5>1
      <4>6. seqs[k] = SubSeq(items, a + 1, b) /\ h[k] = SubSeq(items, 1, b)
        <5>1. h[k] = SubSeq(items, 1, b)
          BY <4>1
        <5> HIDE DEF seqs, count, h
        <5>2. QED
          BY <3>4, <4>1, <5>1
      <4> HIDE DEF a, b, h, seqs
      <4>7. SubSeq(items, 1, a) \o SubSeq(items, a + 1, b) = SubSeq(items, 1, b)
        <5>1. 1 \in 1 .. Len(items) + 1 /\ a \in 1 - 1 .. Len(items) /\ b \in a .. Len(items)
          BY <1>1, <4>2, <4>4
        <5>2. QED
          BY <5>1, ConcatAdjacentSubSeq
      <4>8. QED
        BY <4>5, <4>6, <4>7
    <3>7. h[count] = items
      <4>1. count \in 1 .. count /\ Least(count * width, n) = n
        <5>1. count \in 1 .. count
          <6> HIDE DEF count
          <6> QED BY <3>3
        <5>2. count * width >= n /\ count * width \in Nat
          <6> HIDE DEF count, n
          <6> QED BY <1>2, <3>2, <3>3
        <5> HIDE DEF count, n
        <5>3. QED
          BY <1>1, <5>1, <5>2 DEF Least
      <4>2. h[count] = SubSeq(items, 1, n)
        BY <4>1
      <4> HIDE DEF h, count
      <4>3. QED
        BY <4>2, SubSeqFull
    <3> HIDE DEF h, seqs, count
    <3>8. Accumulates(h, seqs, count)
      BY <3>3, <3>5, <3>6 DEF Accumulates
    <3>9. Analytics!FlattenSeq(seqs) = h[count]
      BY <3>3, <3>8, FlattenIs
    <3>10. QED
      BY <3>7, <3>9
  <2>3. QED
    BY <2>1, <2>2
<1>5. QED
  <2>1. pages = {k \in 0 .. Len(items) : k * width < Len(items)}
    BY DEF FilledPages
  <2>2. seqs = [k \in 1 .. Analytics!Cardinality(pages) |->
                   Analytics!PageOf(items, (k - 1) * width, width).items]
    BY SizeInReports
  <2> HIDE DEF pages, seqs
  <2>3. QED
    BY <1>3, <1>4, <2>1, <2>2 DEF Analytics!PagesAgree

\* What a plan allows of a resource; the resources that grow with the price.
Limit(plan, r) == Requests!BILLING_PLANS[plan][r]

Growing == {"applications", "views", "controllers", "users", "plugins", "modules",
            "deployments", "viewsPerApp", "controllersPerApp", "secretsPerApp",
            "storageGB", "invocations"}

LEMMA LimitsGrow ==
    ASSUME NEW r \in Growing
    PROVE  /\ Limit("free", r) \in Nat /\ Limit("basic", r) \in Nat
           /\ Limit("professional", r) \in Nat /\ Limit("business", r) \in Nat
           /\ Limit("free", r) <= Limit("basic", r)
           /\ Limit("basic", r) <= Limit("professional", r)
           /\ Limit("professional", r) <= Limit("business", r)
           /\ Limit("enterprise", r) = -1
  BY DEF Growing, Limit, Requests!BILLING_PLANS

LEMMA FeaturesAre ==
    ASSUME NEW r \in DOMAIN Requests!PLAN_FEATURES["free"]
    PROVE  /\ Requests!PLAN_FEATURES["free"][r] = Limit("free", r)
           /\ Requests!PLAN_FEATURES["basic"][r] = Limit("basic", r)
           /\ Requests!PLAN_FEATURES["professional"][r] = Limit("professional", r)
           /\ Requests!PLAN_FEATURES["business"][r] = Limit("business", r)
           /\ Limit("free", r) \in Nat /\ Limit("basic", r) \in Nat
           /\ Limit("professional", r) \in Nat /\ Limit("business", r) \in Nat
           /\ Limit("free", r) < Limit("basic", r)
           /\ Limit("basic", r) < Limit("professional", r)
           /\ Limit("professional", r) < Limit("business", r)
  BY DEF Growing, Limit, Requests!BILLING_PLANS, Requests!PLAN_FEATURES

\* A plan that costs more allows what a cheaper one allows, and what is
\* advertised of a plan is what it allows (billingPlans.ts 54-249, 381).
THEOREM PlansAlwaysGrow == Requests!PlansGrow /\ Requests!AdvertisedIsAllowed
<1>1. Requests!PlansGrow
  <2> DEFINE rank == <<"free", "basic", "professional", "business", "enterprise">>
             growing == DOMAIN Requests!BILLING_PLANS["free"] \ {"domainsPerApp"}
             numbers == UNION {{Requests!BILLING_PLANS[p][r] : r \in growing} :
                                  p \in DOMAIN Requests!BILLING_PLANS}
  <2>1. growing = Growing
    BY DEF Growing, Requests!BILLING_PLANS
  <2>2. numbers \subseteq Int
    <3>1. DOMAIN Requests!BILLING_PLANS = {"free", "basic", "professional", "business", "enterprise"}
      BY DEF Requests!BILLING_PLANS
    <3>2. \A p \in DOMAIN Requests!BILLING_PLANS, r \in growing : Limit(p, r) \in Int
      BY <2>1, <3>1, LimitsGrow
    <3>3. QED
      BY <3>2 DEF Limit
  <2> HIDE DEF growing, numbers
  <2>3. ASSUME NEW i \in 1 .. 5, NEW j \in 1 .. 5, NEW r \in growing, NEW n \in Int,
               i < j, Requests!isOperationAllowed(rank[i], r, n), n >= 0
        PROVE  Requests!isOperationAllowed(rank[j], r, n)
    <3>1. \A p : Requests!isOperationAllowed(p, r, n) <=> (Limit(p, r) = -1 \/ n < Limit(p, r))
      BY DEF Requests!isOperationAllowed, Requests!isUnlimited, Limit
    <3>0. /\ rank[1] = "free" /\ rank[2] = "basic" /\ rank[3] = "professional"
          /\ rank[4] = "business" /\ rank[5] = "enterprise"
      OBVIOUS
    <3> HIDE DEF rank
    <3>2. Limit(rank[j], r) = -1 \/ (Limit(rank[i], r) # -1 /\ Limit(rank[i], r) <= Limit(rank[j], r)
             /\ Limit(rank[i], r) \in Nat /\ Limit(rank[j], r) \in Nat)
      <4>1. i \in {1, 2, 3, 4} /\ j \in {2, 3, 4, 5} /\ i < j
        BY <2>3
      <4>2. CASE j = 5
        BY <2>1, <3>0, <4>2, LimitsGrow
      <4>3. CASE j # 5
        BY <2>1, <3>0, <4>1, <4>3, LimitsGrow
      <4>4. QED
        BY <4>2, <4>3
    <3>3. /\ Limit(rank[i], r) = -1 \/ n < Limit(rank[i], r)
          /\ Requests!isOperationAllowed(rank[j], r, n)
                <=> (Limit(rank[j], r) = -1 \/ n < Limit(rank[j], r))
      BY <2>3, <3>1
    <3>4. QED
      BY <3>2, <3>3
  <2>4. DOMAIN rank = 1 .. 5
    OBVIOUS
  <2> HIDE DEF rank
  <2>5. QED
    BY <2>2, <2>3, <2>4 DEF Requests!PlansGrow, rank, growing, numbers
<1>2. Requests!AdvertisedIsAllowed
  <2> DEFINE plans == {"free", "basic", "professional", "business"}
  <2>1. DOMAIN Requests!PLAN_FEATURES = plans /\ DOMAIN Requests!PLAN_PRICING = plans
    BY DEF Requests!PLAN_FEATURES, Requests!PLAN_PRICING
  <2>2. SUFFICES ASSUME NEW p \in plans, NEW r \in DOMAIN Requests!PLAN_FEATURES["free"]
                 PROVE  LET n == Requests!PLAN_FEATURES[p][r] IN
                        /\ Requests!isOperationAllowed(p, r, n - 1)
                        /\ ~ Requests!isOperationAllowed(p, r, n)
                        /\ \A q \in plans, i \in 1 .. 2 :
                              Requests!isOperationAllowed(q, r, n)
                                 <=> Requests!PLAN_PRICING[q][i] > Requests!PLAN_PRICING[p][i]
    BY <2>1 DEF Requests!AdvertisedIsAllowed
  <2> DEFINE n == Requests!PLAN_FEATURES[p][r]
  <2>3. \A q, m : Requests!isOperationAllowed(q, r, m) <=> (Limit(q, r) = -1 \/ m < Limit(q, r))
    BY DEF Requests!isOperationAllowed, Requests!isUnlimited, Limit
  <2>4. n = Limit(p, r) /\ \A q \in plans : Limit(q, r) \in Nat
    BY FeaturesAre
  <2>5. ASSUME NEW q \in plans, NEW i \in 1 .. 2
        PROVE  Limit(p, r) < Limit(q, r)
                  <=> Requests!PLAN_PRICING[q][i] > Requests!PLAN_PRICING[p][i]
    <3> DEFINE price(x) == Requests!PLAN_PRICING[x][i]
    <3>1. /\ price("free") < price("basic") /\ price("basic") < price("professional")
          /\ price("professional") < price("business") /\ \A x \in plans : price(x) \in Nat
      BY DEF Requests!PLAN_PRICING
    <3> HIDE DEF price
    <3>2. Limit(p, r) < Limit(q, r) <=> price(q) > price(p)
      <4>1. /\ Limit("free", r) < Limit("basic", r)
            /\ Limit("basic", r) < Limit("professional", r)
            /\ Limit("professional", r) < Limit("business", r)
        BY FeaturesAre
      <4>2. QED
        BY <2>4, <3>1, <4>1
    <3>3. QED
      BY <3>2 DEF price
  <2> HIDE DEF n
  <2>6. /\ Requests!isOperationAllowed(p, r, n - 1) /\ ~ Requests!isOperationAllowed(p, r, n)
        /\ \A q \in plans : Requests!isOperationAllowed(q, r, n) <=> Limit(p, r) < Limit(q, r)
    BY <2>3, <2>4
  <2>7. \A q \in plans, i \in 1 .. 2 :
           Requests!isOperationAllowed(q, r, n)
              <=> Requests!PLAN_PRICING[q][i] > Requests!PLAN_PRICING[p][i]
    BY <2>5, <2>6
  <2>8. QED
    BY <2>6, <2>7 DEF n
<1>3. QED
  BY <1>1, <1>2

-----------------------------------------------------------------------------
(* The samples, and the numbers shown of them.                             *)

LEMMA PairIsFinite ==
    ASSUME NEW x, NEW y
    PROVE  IsFiniteSet({x}) /\ IsFiniteSet({x, y})
<1>1. IsFiniteSet({x}) /\ IsFiniteSet({y})
  BY FS_Singleton
<1>2. {x, y} = {x} \union {y}
  OBVIOUS
<1>3. IsFiniteSet({x} \union {y})
  BY <1>1, FS_Union
<1>4. QED
  BY <1>1, <1>2, <1>3

LEMMA MessagesOfSamples ==
    ASSUME NEW c, NEW ms \in MCMessages(c)
    PROVE  /\ IsFiniteSet(ms)
           /\ \A m \in ms : /\ m.id = c /\ Analytics!IsUse(m.tokens)
                            /\ m.day \in Int \union {None}
<1>1. CASE ms = {}
  BY <1>1, FS_EmptySet
<1>2. CASE ms # {}
  <2>1. PICK d \in {1, 2, None}, t \in {None, MCTokens(1, 1)} :
           ms = {[id |-> c, day |-> d, tokens |-> t]}
    BY <1>2 DEF MCMessages
  <2>2. Analytics!IsUse(t)
    BY DEF Analytics!IsUse, MCTokens
  <2>3. IsFiniteSet(ms)
    BY <2>1, PairIsFinite
  <2>4. ASSUME NEW m \in ms
        PROVE  m.id = c /\ Analytics!IsUse(m.tokens) /\ m.day \in Int \union {None}
    <3>1. m.id = c /\ m.day = d /\ m.tokens = t
      BY <2>1, <2>4
    <3>2. QED
      BY <2>2, <3>1
  <2>5. QED
    BY <2>3, <2>4
<1>3. QED
  BY <1>1, <1>2

LEMMA ConversationsOfSamples ==
    ASSUME NEW i, NEW c \in MCConversations(i) \union MCNamed(i)
    PROVE  c.id = i /\ Analytics!IsConversation(c) /\ \A m \in c.messages : m.id = i
<1>1. /\ c.id = i /\ c.day \in Int /\ c.tokens = MCTokens(1, 0)
      /\ IsFiniteSet(c.messages)
      /\ \A m \in c.messages : m.id = i /\ Analytics!IsUse(m.tokens) /\ m.day \in Int \union {None}
  <2>1. CASE c \in MCConversations(i)
    <3>1. PICK ms \in MCMessages(i) :
             c \in [id : {i}, day : {1, 2}, app : {MCBare}, found : {MCUsers},
                    status : {"done", "error"}, tokens : {MCTokens(1, 0)}, messages : {ms}]
      BY <2>1 DEF MCConversations
    <3>2. c.id = i /\ c.day \in Int /\ c.tokens = MCTokens(1, 0) /\ c.messages = ms
      BY <3>1
    <3>3. IsFiniteSet(ms) /\ \A m \in ms : /\ m.id = i /\ Analytics!IsUse(m.tokens)
                                           /\ m.day \in Int \union {None}
      BY MessagesOfSamples
    <3>4. QED
      BY <3>2, <3>3
  <2>2. CASE c \in MCNamed(i)
    <3> DEFINE m0 == [id |-> i, day |-> None, tokens |-> MCTokens(1, 1)]
    <3>1. c.id = i /\ c.day \in Int /\ c.tokens = MCTokens(1, 0) /\ c.messages \in {{}, {m0}}
      BY <2>2 DEF MCNamed
    <3>2. m0.id = i /\ m0.day = None /\ Analytics!IsUse(m0.tokens)
      BY DEF Analytics!IsUse, MCTokens
    <3> HIDE DEF m0
    <3>3. IsFiniteSet({}) /\ IsFiniteSet({m0})
      BY FS_EmptySet, FS_Singleton
    <3>4. QED
      BY <3>1, <3>2, <3>3
  <2>3. QED
    BY <2>1, <2>2
<1>2. Analytics!IsUse(MCTokens(1, 0))
  BY DEF Analytics!IsUse, MCTokens
<1>3. QED
  BY <1>1, <1>2, FiniteInReports DEF Analytics!IsConversation

LEMMA ExecutionsOfSamples ==
    ASSUME NEW e \in MCExecutions \union {MCExecution}
    PROVE  e.id = 1 /\ e.conversation = c1 /\ Analytics!IsExecution(e)
<1>1. CASE e = MCExecution
  <2>1. /\ e.id = 1 /\ e.conversation = c1 /\ e.day = 2
        /\ Analytics!Mapped(e) = {} /\ Analytics!Recorded(e) = {}
    BY <1>1 DEF MCExecution, Analytics!Mapped, Analytics!Recorded
  <2>2. QED
    BY <2>1, FiniteInReports, FS_EmptySet DEF Analytics!IsExecution
<1>2. CASE e \in MCExecutions
  <2>1. PICK D \in SUBSET {t1, t2}, E \in SUBSET {t1, t2} : e \in MCExecutionsOf(D, E)
    BY <1>2 DEF MCExecutions
  <2>2. /\ e.id = 1 /\ e.conversation = c1 /\ e.day \in Int
        /\ e.map \in [D -> MCTask] /\ e.status \in [E -> MCRecord]
    BY <2>1 DEF MCExecutionsOf
  <2>3. Analytics!Mapped(e) = D /\ Analytics!Recorded(e) = E
    BY <2>2 DEF Analytics!Mapped, Analytics!Recorded
  <2>4. IsFiniteSet(D) /\ IsFiniteSet(E)
    <3>1. IsFiniteSet({t1, t2})
      BY PairIsFinite
    <3>2. QED
      BY <3>1, FS_Subset
  <2>5. /\ \A t \in D : Analytics!IsUse(e.map[t].tokens)
        /\ \A t \in E : Analytics!IsUse(e.status[t].tokens)
    <3>1. \A x \in MCTask : x.tokens \in {None, MCTokens(1, 1)}
      BY DEF MCTask
    <3>2. \A x \in MCRecord : x.tokens \in {None, MCTokens(2, 2)}
      BY DEF MCRecord
    <3>3. \A x \in {None, MCTokens(1, 1), MCTokens(2, 2)} : Analytics!IsUse(x)
      BY DEF Analytics!IsUse, MCTokens
    <3>4. (\A t \in D : e.map[t] \in MCTask) /\ (\A t \in E : e.status[t] \in MCRecord)
      BY <2>2
    <3>5. QED
      BY <3>1, <3>2, <3>3, <3>4
  <2>6. QED
    BY <2>2, <2>3, <2>4, <2>5, FiniteInReports DEF Analytics!IsExecution
<1>3. QED
  BY <1>1, <1>2

\* Every sample is a history, and a report of it.
LEMMA SamplesAreReports ==
    ASSUME NEW h \in MCHistories
    PROVE  Analytics!IsReport(h) /\ Analytics!IsHistory(h)
<1>1. PICK convs, execs : h = [conversations |-> convs, executions |-> execs]
                       /\ IsFiniteSet(convs) /\ IsFiniteSet(execs)
                       /\ (\A c \in convs : Analytics!IsConversation(c))
                       /\ (\A c, d \in convs :
                              c # d => c.id # d.id /\ c.messages \intersect d.messages = {})
                       /\ (\A e \in execs : Analytics!IsExecution(e))
                       /\ (\A e, f \in execs : e.id = f.id => e = f)
                       /\ (\A e \in execs : \E c \in convs : c.id = e.conversation)
  <2>1. CASE \E c \in MCConversations(c1) \union MCNamed(c1), d \in MCConversations(c2) \union MCNamed(c2) :
                h = [conversations |-> {c, d}, executions |-> {MCExecution}]
    <3>1. PICK c \in MCConversations(c1) \union MCNamed(c1), d \in MCConversations(c2) \union MCNamed(c2) :
             h = [conversations |-> {c, d}, executions |-> {MCExecution}]
      BY <2>1
    <3>2. /\ c.id = c1 /\ Analytics!IsConversation(c) /\ \A m \in c.messages : m.id = c1
          /\ d.id = c2 /\ Analytics!IsConversation(d) /\ \A m \in d.messages : m.id = c2
      BY ConversationsOfSamples
    <3>3. c.id # d.id /\ c.messages \intersect d.messages = {}
      BY <3>2, HistoriesAssumption
    <3>4. MCExecution.conversation = c1 /\ Analytics!IsExecution(MCExecution)
      BY ExecutionsOfSamples
    <3>5. IsFiniteSet({c, d}) /\ IsFiniteSet({MCExecution})
      BY PairIsFinite
    <3>6. /\ \A x \in {c, d} : Analytics!IsConversation(x)
          /\ \A x, y \in {c, d} :
                x # y => x.id # y.id /\ x.messages \intersect y.messages = {}
      BY <3>2, <3>3
    <3>7. /\ \A x \in {MCExecution} : Analytics!IsExecution(x)
          /\ \A x, y \in {MCExecution} : x.id = y.id => x = y
          /\ \A x \in {MCExecution} : \E y \in {c, d} : y.id = x.conversation
      BY <3>2, <3>4
    <3>8. QED
      BY <3>1, <3>5, <3>6, <3>7, Zenon
  <2>2. CASE \E e \in MCExecutions : h = [conversations |-> {MCPlain}, executions |-> {e}]
    <3>1. PICK e \in MCExecutions : h = [conversations |-> {MCPlain}, executions |-> {e}]
      BY <2>2
    <3>2. e.conversation = c1 /\ Analytics!IsExecution(e)
      BY ExecutionsOfSamples
    <3>3. MCPlain.id = c1 /\ Analytics!IsConversation(MCPlain)
      <4>1. MCPlain.messages = {} /\ MCPlain.day = 1 /\ MCPlain.tokens = MCTokens(1, 0)
            /\ MCPlain.id = c1
        BY DEF MCPlain
      <4>2. Analytics!IsUse(MCTokens(1, 0))
        BY DEF Analytics!IsUse, MCTokens
      <4>3. QED
        BY <4>1, <4>2, FiniteInReports, FS_EmptySet DEF Analytics!IsConversation
    <3>4. IsFiniteSet({MCPlain}) /\ IsFiniteSet({e})
      BY FS_Singleton
    <3>5. QED
      BY <3>1, <3>2, <3>3, <3>4, SMTT(40)
  <2>3. CASE h = [conversations |-> {}, executions |-> {}]
    BY <2>3, FS_EmptySet
  <2>4. QED
    BY <2>1, <2>2, <2>3 DEF MCHistories
<1>2. h.conversations = convs /\ h.executions = execs
  BY <1>1
<1>3. Analytics!IsHistory(h)
  BY <1>1, <1>2, FiniteInReports DEF Analytics!IsHistory
<1>4. QED
  BY <1>1, <1>2, <1>3 DEF Analytics!IsReport

\* A history is a sample as long as it is reported on.
SampleInv == part = "histories" => sample \in MCHistories

\* The numbers that are shown are true of every sample.
LEMMA NumbersAreTrue == SampleInv => NumbersHold
<1>1. ASSUME SampleInv, part = "histories"
      PROVE  /\ Analytics!TotalsAgree(sample) /\ Analytics!DaysAgree(sample)
             /\ Analytics!GroupsAgree(sample) /\ Analytics!CutLosesExecutions(sample, 1, 3)
             /\ \A query \in MCQueries : Analytics!RoutesAgree(sample, query, MCToday)
  <2>1. Analytics!IsReport(sample) /\ Analytics!IsHistory(sample)
    BY <1>1, SamplesAreReports DEF SampleInv
  <2>2. /\ Analytics!TotalsAgree(sample) /\ Analytics!DaysAgree(sample)
        /\ Analytics!GroupsAgree(sample)
    BY <2>1, TotalsAlwaysAgree, DaysAlwaysAgree, GroupsAlwaysAgree
  <2>3. Analytics!CutLosesExecutions(sample, 1, 3)
    <3>1. 1 \in Int /\ 3 \in Int /\ 0 <= 1 /\ 1 <= 3
      OBVIOUS
    <3>2. QED
      BY <2>1, <3>1, CutAlwaysLoses
  <2>4. ASSUME NEW query \in MCQueries
        PROVE  Analytics!RoutesAgree(sample, query, MCToday)
    <3>1. PICK f, l, apps : query = [first |-> f, last |-> l, apps |-> apps]
      BY DEF MCQueries
    <3>2. QED
      BY <2>1, <3>1, RoutesAlwaysAgree
  <2>5. QED
    BY <2>2, <2>3, <2>4
<1>2. Requests!PlansGrow /\ Requests!AdvertisedIsAllowed
  BY PlansAlwaysGrow
<1>3. Analytics!TrendComparesSums
  <2>1. SUFFICES ASSUME NEW n \in 7 .. 9, NEW cost \in 1 .. 4
        PROVE  /\ Analytics!CostEfficiencyTrend([i \in 1 .. n |-> [cost |-> cost]]) = "improving"
               /\ Analytics!CostEfficiencyTrend([i \in 1 .. n |->
                     [cost |-> IF i <= n - 3 THEN 3 * cost ELSE 4 * cost]]) = "stable"
    BY DEF Analytics!TrendComparesSums
  <2>2. n \in Nat /\ n >= 7 /\ cost \in Nat \ {0}
    OBVIOUS
  <2>3. QED
    BY <2>2, TrendAlwaysComparesSums
<1>4. ASSUME NEW n \in 0 .. 5, NEW width \in 1 .. 6
      PROVE  Analytics!PagesAgree([i \in 1 .. n |-> i], width)
  <2>1. [i \in 1 .. n |-> i] \in Seq(Nat) /\ width \in Nat \ {0}
    OBVIOUS
  <2>2. QED
    BY <2>1, PagesAlwaysAgree
<1>5. QED
  BY <1>1, <1>2, <1>3, <1>4 DEF NumbersHold

\* The numbers shown to users stay true: those of every report agree with each
\* other, pages hold every row, and a plan that costs more allows more
\* (user.service.ts, billingPlans.ts).
THEOREM NumbersStayTrue == MCSpec => []NumbersHold
<1>1. MCInit => SampleInv
  BY DEF MCInit, SampleInv
<1>2. SampleInv /\ [MCNext]_serviceVars => SampleInv'
  BY DEF SampleInv, MCNext, serviceVars
<1>3. QED
  BY <1>1, <1>2, NumbersAreTrue, PTL DEF MCSpec

-----------------------------------------------------------------------------
\* A list, and lists joined, as the models join them.
IsList(s) == s \in Seq(Range(s))

Joined(seqs) == References!FlattenSeq(seqs)

LEMMA FlattenInReferences ==
    ASSUME NEW seqs
    PROVE  References!FlattenSeq(seqs) = Joined(seqs)
  BY DEF Joined

LEMMA FlattenInReports ==
    ASSUME NEW seqs
    PROVE  Reports!FlattenSeq(seqs) = Joined(seqs)
  BY DEF Reports!FlattenSeq, References!FlattenSeq, Joined

LEMMA SizeInReport ==
    ASSUME NEW S
    PROVE  Reports!Cardinality(S) = Cardinality(S)
  BY DEF Reports!Cardinality, Cardinality

LEMMA RangeInReferences ==
    ASSUME NEW f
    PROVE  References!Range(f) = Range(f)
  BY DEF References!Range, Range

-----------------------------------------------------------------------------
(* Lists.                                                                  *)

\* What holds at first and after every step holds up to n.
LEMMA UpTo ==
    ASSUME NEW n \in Nat, NEW P, 0 \in P, \A k \in 0 .. n : k # n /\ k \in P => k + 1 \in P
    PROVE  \A k \in 0 .. n : k \in P
<1> DEFINE bad == {k \in 0 .. n : k \notin P}
           rank == [k \in 0 .. n |-> 0 - k]
<1>1. SUFFICES ASSUME bad # {} PROVE FALSE
  OBVIOUS
<1>2. IsFiniteSet(bad) /\ \A k \in bad : rank[k] \in Int
  <2>1. 0 \in Int /\ n \in Int
    OBVIOUS
  <2>2. IsFiniteSet(0 .. n)
    BY <2>1, FS_Interval
  <2>3. QED
    BY <2>2, FS_Subset
<1>3. PICK k \in bad : \A j \in bad : rank[j] <= rank[k]
  <2> HIDE DEF bad, rank
  <2> QED BY <1>1, <1>2, HighestExists
<1>4. k # 0 /\ k - 1 \in 0 .. n /\ k - 1 # n /\ (k - 1) + 1 = k
  OBVIOUS
<1>5. k - 1 \notin bad
  BY <1>3, <1>4
<1>6. k - 1 \in P
  BY <1>4, <1>5
<1>7. QED
  BY <1>4, <1>6

\* A list, its indices and its members.
LEMMA ListIs ==
    ASSUME NEW s, IsList(s)
    PROVE  /\ Len(s) \in Nat /\ DOMAIN s = 1 .. Len(s) /\ IsFiniteSet(DOMAIN s)
           /\ \A i \in DOMAIN s : s[i] \in Range(s)
<1>1. s \in Seq(Range(s))
  BY DEF IsList
<1>2. Len(s) \in Nat /\ DOMAIN s = 1 .. Len(s)
  BY <1>1
<1>3. 1 \in Int /\ Len(s) \in Int
  BY <1>2
<1>4. IsFiniteSet(1 .. Len(s))
  BY <1>3, FS_Interval
<1>5. QED
  BY <1>2, <1>4 DEF Range

LEMMA ListOf ==
    ASSUME NEW s, NEW S, s \in Seq(S)
    PROVE  IsList(s) /\ Range(s) \subseteq S
<1>1. DOMAIN s = 1 .. Len(s) /\ Len(s) \in Nat /\ \A i \in DOMAIN s : s[i] \in S
  OBVIOUS
<1>2. \A i \in 1 .. Len(s) : s[i] \in Range(s)
  BY <1>1 DEF Range
<1>3. s = [i \in 1 .. Len(s) |-> s[i]]
  BY <1>1
<1>4. s \in Seq(Range(s))
  <2> DEFINE R == Range(s)
  <2>1. \A i \in 1 .. Len(s) : s[i] \in R
    BY <1>2
  <2> HIDE DEF R
  <2>2. [i \in 1 .. Len(s) |-> s[i]] \in Seq(R)
    BY <1>1, <2>1
  <2>3. QED
    BY <1>3, <2>2 DEF R
<1>5. QED
  BY <1>1, <1>4 DEF IsList, Range

LEMMA ListIn ==
    ASSUME NEW s, NEW S, IsList(s), Range(s) \subseteq S
    PROVE  s \in Seq(S)
  BY DEF IsList

\* A function of the indices of a list is a list.
LEMMA ListByIndex ==
    ASSUME NEW n \in Nat, NEW s, s = [i \in 1 .. n |-> s[i]]
    PROVE  IsList(s) /\ Len(s) = n
<1> DEFINE R == Range(s)
<1>1. DOMAIN s = 1 .. n
  OBVIOUS
<1>2. \A i \in 1 .. n : s[i] \in R
  BY <1>1 DEF Range
<1> HIDE DEF R
<1>3. [i \in 1 .. n |-> s[i]] \in Seq(R) /\ Len([i \in 1 .. n |-> s[i]]) = n
  BY <1>2
<1>4. QED
  BY <1>3 DEF IsList, R

\* The places of the members of the first k lists.
Places(seqs, k) == UNION {{<<i, j>> : j \in DOMAIN seqs[i]} : i \in 1 .. k}

\* flat holds what is at these places, each once.
IsFlat(flat, seqs, k) ==
    /\ IsList(flat)
    /\ \E m : /\ OneToOne(m, DOMAIN flat, Places(seqs, k))
              /\ \A x \in DOMAIN flat : flat[x] = seqs[m[x][1]][m[x][2]]

LEMMA FlatGrows ==
    ASSUME NEW seqs, NEW k \in Nat, IsList(seqs[k + 1]), NEW flat, IsFlat(flat, seqs, k)
    PROVE  IsFlat(flat \o seqs[k + 1], seqs, k + 1)
<1> DEFINE more == seqs[k + 1]
           all == flat \o more
           a == Len(flat)
           b == Len(more)
<1>1. /\ IsList(flat) /\ a \in Nat /\ b \in Nat
      /\ DOMAIN flat = 1 .. a /\ DOMAIN more = 1 .. b
  BY ListIs DEF IsFlat
<1>2. PICK m : /\ OneToOne(m, DOMAIN flat, Places(seqs, k))
               /\ \A x \in DOMAIN flat : flat[x] = seqs[m[x][1]][m[x][2]]
  BY DEF IsFlat
<1> DEFINE l == [x \in 1 .. a + b |-> IF x <= a THEN m[x] ELSE <<k + 1, x - a>>]
           S == Range(flat) \union Range(more)
<1>3. all \in Seq(S) /\ Len(all) = a + b
  <2>1. flat \in Seq(S) /\ more \in Seq(S)
    BY <1>1, ListIn
  <2>2. QED
    BY <2>1
<1>4. /\ \A x \in 1 .. a : all[x] = flat[x]
      /\ \A x \in 1 .. b : all[a + x] = more[x]
  <2>1. flat \in Seq(S) /\ more \in Seq(S)
    BY <1>1, ListIn
  <2>2. QED
    BY <2>1
<1>5. IsList(all) /\ DOMAIN all = 1 .. a + b
  <2>1. IsList(all)
    <3> HIDE DEF all, S, a, b
    <3> QED BY <1>3, ListOf
  <2>2. DOMAIN all = 1 .. Len(all)
    <3> HIDE DEF all, a, b
    <3> QED BY <2>1, ListIs
  <2>3. QED
    BY <1>3, <2>1, <2>2
<1> HIDE DEF all
<1>6. Places(seqs, k + 1) = Places(seqs, k) \union {<<k + 1, j>> : j \in 1 .. b}
  <2>1. 1 .. k + 1 = (1 .. k) \union {k + 1}
    OBVIOUS
  <2>2. {<<k + 1, j>> : j \in DOMAIN seqs[k + 1]} = {<<k + 1, j>> : j \in 1 .. b}
    BY <1>1
  <2> HIDE DEF b
  <2>3. QED
    BY <2>1, <2>2 DEF Places
<1>7. \A p \in Places(seqs, k) : p[1] \in 1 .. k /\ p = <<p[1], p[2]>>
  BY DEF Places
<1> HIDE DEF a, b, more
<1>8. OneToOne(l, 1 .. a + b, Places(seqs, k + 1))
  <2>1. ASSUME NEW x \in 1 .. a + b
        PROVE  /\ l[x] \in Places(seqs, k + 1)
               /\ x <= a => x \in 1 .. a /\ l[x] = m[x] /\ l[x] \in Places(seqs, k)
               /\ ~ (x <= a) => l[x] = <<k + 1, x - a>>
    <3>1. CASE x <= a
      <4>1. x \in 1 .. a /\ l[x] = m[x]
        BY <1>1, <3>1
      <4>2. l[x] \in Places(seqs, k)
        BY <1>1, <1>2, <4>1 DEF OneToOne
      <4>3. QED
        BY <1>6, <3>1, <4>1, <4>2
    <3>2. CASE ~ (x <= a)
      <4>1. x - a \in 1 .. b /\ l[x] = <<k + 1, x - a>>
        BY <1>1, <3>2
      <4>2. QED
        BY <1>6, <3>2, <4>1
    <3>3. QED
      BY <3>1, <3>2
  <2>2. ASSUME NEW y \in Places(seqs, k + 1)
        PROVE  \E x \in 1 .. a + b : l[x] = y
    <3>1. CASE y \in Places(seqs, k)
      <4>1. PICK x \in 1 .. a : m[x] = y
        BY <1>1, <1>2, <3>1 DEF OneToOne
      <4>2. x \in 1 .. a + b /\ l[x] = y
        BY <1>1, <4>1
      <4>3. QED
        BY <4>2
    <3>2. CASE y \in {<<k + 1, j>> : j \in 1 .. b}
      <4>1. PICK j \in 1 .. b : y = <<k + 1, j>>
        BY <3>2
      <4>2. a + j \in 1 .. a + b /\ ~ (a + j <= a) /\ (a + j) - a = j
        BY <1>1
      <4>3. l[a + j] = y
        BY <4>1, <4>2
      <4>4. QED
        BY <4>2, <4>3
    <3>3. QED
      BY <1>6, <3>1, <3>2
  <2>3. ASSUME NEW x \in 1 .. a + b, NEW y \in 1 .. a + b, l[x] = l[y]
        PROVE  x = y
    <3>1. CASE x <= a /\ y <= a
      BY <1>1, <1>2, <2>1, <2>3, <3>1 DEF OneToOne
    <3>2. CASE ~ (x <= a) /\ ~ (y <= a)
      <4>1. <<k + 1, x - a>> = <<k + 1, y - a>>
        BY <2>1, <2>3, <3>2
      <4>2. x - a = y - a
        BY <4>1
      <4>3. QED
        BY <1>1, <4>2
    <3>3. CASE x <= a /\ ~ (y <= a)
      <4>1. l[x] \in Places(seqs, k) /\ l[y] = <<k + 1, y - a>>
        BY <2>1, <3>3
      <4>2. l[x][1] \in 1 .. k /\ l[y][1] = k + 1
        BY <1>7, <4>1
      <4>3. QED
        BY <2>3, <4>2
    <3>4. CASE ~ (x <= a) /\ y <= a
      <4>1. l[y] \in Places(seqs, k) /\ l[x] = <<k + 1, x - a>>
        BY <2>1, <3>4
      <4>2. l[y][1] \in 1 .. k /\ l[x][1] = k + 1
        BY <1>7, <4>1
      <4>3. QED
        BY <2>3, <4>2
    <3>5. QED
      BY <3>1, <3>2, <3>3, <3>4
  <2> HIDE DEF l
  <2>4. QED
    BY <2>1, <2>2, <2>3 DEF OneToOne
<1>9. \A x \in 1 .. a + b : all[x] = seqs[l[x][1]][l[x][2]]
  <2>1. SUFFICES ASSUME NEW x \in 1 .. a + b PROVE all[x] = seqs[l[x][1]][l[x][2]]
    OBVIOUS
  <2>2. CASE x <= a
    <3>1. x \in 1 .. a /\ l[x] = m[x]
      BY <1>1, <2>2
    <3> HIDE DEF l
    <3>2. QED
      BY <1>1, <1>2, <1>4, <3>1
  <2>3. CASE ~ (x <= a)
    <3>1. x - a \in 1 .. b /\ a + (x - a) = x /\ l[x] = <<k + 1, x - a>>
      BY <1>1, <2>3
    <3>2. all[a + (x - a)] = more[x - a]
      BY <1>4, <3>1
    <3>3. l[x][1] = k + 1 /\ l[x][2] = x - a
      BY <3>1
    <3> HIDE DEF l
    <3>4. QED
      BY <3>1, <3>2, <3>3 DEF more
  <2>4. QED
    BY <2>2, <2>3
<1>10. QED
  <2> HIDE DEF l
  <2> QED BY <1>5, <1>8, <1>9 DEF IsFlat, all, more

LEMMA NothingFlat ==
    ASSUME NEW seqs
    PROVE  IsFlat(<<>>, seqs, 0)
<1>1. Places(seqs, 0) = {}
  BY DEF Places
<1>2. IsList(<<>>)
  BY DEF IsList
<1>3. OneToOne(<<>>, DOMAIN <<>>, {})
  BY DEF OneToOne
<1>4. \A x \in DOMAIN <<>> : FALSE
  OBVIOUS
<1> DEFINE none == <<>>
<1>5. /\ OneToOne(none, DOMAIN none, Places(seqs, 0))
      /\ \A x \in DOMAIN none : none[x] = seqs[none[x][1]][none[x][2]]
  BY <1>1, <1>3, <1>4
<1> HIDE DEF none
<1>6. IsFlat(none, seqs, 0)
  BY <1>2, <1>5 DEF IsFlat, none
<1>7. QED
  BY <1>6 DEF none

\* A list of lists, flattened, holds the members of all of them, each once.
LEMMA FlattenIsFlat ==
    ASSUME NEW seqs, IsList(seqs), \A i \in DOMAIN seqs : IsList(seqs[i])
    PROVE  IsFlat(Joined(seqs), seqs, Len(seqs))
<1> DEFINE n == Len(seqs)
<1>1. n \in Nat /\ DOMAIN seqs = 1 .. n
  BY ListIs
<1>2. CASE n = 0
  <2>1. Joined(seqs) = seqs
    BY <1>2 DEF Joined, References!FlattenSeq
  <2>2. seqs = <<>>
    <3>1. seqs \in Seq(Range(seqs))
      BY DEF IsList
    <3>2. QED
      BY <1>2, <3>1
  <2>3. QED
    BY <1>2, <2>1, <2>2, NothingFlat
<1>3. CASE n # 0
  <2> DEFINE IsRun(g, k) == g = [i \in 1 .. k |-> IF i = 1 THEN seqs[i] ELSE g[i - 1] \o seqs[i]]
             runs == {k \in 0 .. n : \E g : IsRun(g, k)}
             h == CHOOSE g : IsRun(g, n)
             flats == {k \in 0 .. n : k = 0 \/ IsFlat(h[k], seqs, k)}
  <2>1. Joined(seqs) = h[n]
    BY <1>3 DEF Joined, References!FlattenSeq
  <2>2. n \in runs
    <3>1. 0 \in runs
      <4>1. IsRun([i \in 1 .. 0 |-> i], 0)
        OBVIOUS
      <4> HIDE DEF IsRun
      <4>2. QED
        BY <1>1, <4>1
    <3>2. ASSUME NEW k \in 0 .. n, k # n, k \in runs
          PROVE  k + 1 \in runs
      <4>1. PICK g : IsRun(g, k)
        BY <3>2
      <4> DEFINE g2 == [i \in 1 .. k + 1 |-> IF i <= k THEN g[i]
                                              ELSE IF i = 1 THEN seqs[i] ELSE g[i - 1] \o seqs[i]]
      <4>2. \A i \in 1 .. k + 1 : g2[i] = IF i = 1 THEN seqs[i] ELSE g2[i - 1] \o seqs[i]
        <5>1. SUFFICES ASSUME NEW i \in 1 .. k + 1
                       PROVE  g2[i] = IF i = 1 THEN seqs[i] ELSE g2[i - 1] \o seqs[i]
          OBVIOUS
        <5>2. i # 1 => i - 1 \in 1 .. k + 1 /\ i - 1 <= k
          OBVIOUS
        <5>3. i # 1 => g2[i - 1] = g[i - 1]
          BY <5>2
        <5>4. CASE i <= k
          <6>1. i \in 1 .. k /\ g2[i] = g[i]
            BY <5>4
          <6>2. g[i] = IF i = 1 THEN seqs[i] ELSE g[i - 1] \o seqs[i]
            BY <4>1, <6>1
          <6> HIDE DEF g2
          <6>3. QED
            BY <5>3, <6>1, <6>2
        <5>5. CASE ~ (i <= k)
          <6>1. g2[i] = IF i = 1 THEN seqs[i] ELSE g[i - 1] \o seqs[i]
            BY <5>5
          <6> HIDE DEF g2
          <6>2. QED
            BY <5>3, <6>1
        <5>6. QED
          BY <5>4, <5>5
      <4>3. g2 = [i \in 1 .. k + 1 |-> g2[i]]
        OBVIOUS
      <4> HIDE DEF g2
      <4>4. IsRun(g2, k + 1)
        BY <4>2, <4>3
      <4> HIDE DEF IsRun
      <4>5. k + 1 \in 0 .. n
        <5> HIDE DEF n, runs
        <5> QED BY <1>1, <3>2
      <4>6. \E f : IsRun(f, k + 1)
        BY <4>4
      <4>7. QED
        BY <4>5, <4>6
    <3> HIDE DEF runs, n
    <3>3. \A k \in 0 .. n : k \in runs
      BY <1>1, <3>1, <3>2, UpTo
    <3>4. QED
      BY <1>1, <3>3
  <2>3. IsRun(h, n)
    <3> HIDE DEF IsRun
    <3> QED BY <2>2
  <2>4. \A i \in 1 .. n : h[i] = IF i = 1 THEN seqs[i] ELSE h[i - 1] \o seqs[i]
    <3> HIDE DEF h
    <3> QED BY <2>3
  <2> HIDE DEF h, IsRun, runs
  <2>5. 0 \in flats
    BY <1>1
  <2>6. ASSUME NEW k \in 0 .. n, k # n, k \in flats
        PROVE  k + 1 \in flats
    <3>1. k + 1 \in 1 .. n /\ k + 1 \in 0 .. n /\ k \in Nat
      <4> HIDE DEF flats, n
      <4> QED BY <1>1, <2>6
    <3>2. IsList(seqs[k + 1])
      BY <1>1, <3>1
    <3>3. CASE k = 0
      <4>1. IsFlat(<<>> \o seqs[0 + 1], seqs, 0 + 1)
        <5>1. IsFlat(<<>>, seqs, 0) /\ IsList(seqs[0 + 1]) /\ 0 \in Nat
          BY <3>2, <3>3, NothingFlat
        <5> DEFINE none == <<>>
        <5> HIDE DEF none
        <5>2. IsFlat(none, seqs, 0) => IsFlat(none \o seqs[0 + 1], seqs, 0 + 1)
          BY <5>1, FlatGrows
        <5>3. QED
          BY <5>1, <5>2 DEF none
      <4>2. <<>> \o seqs[1] = seqs[1]
        BY <3>2, <3>3 DEF IsList
      <4>3. h[1] = seqs[1]
        BY <2>4, <3>1, <3>3
      <4>4. k + 1 \in 0 .. n /\ k + 1 = 0 + 1 /\ 0 + 1 = 1
        BY <3>1, <3>3
      <4>5. IsFlat(h[k + 1], seqs, k + 1)
        BY <4>1, <4>2, <4>3, <4>4
      <4>6. QED
        BY <4>4, <4>5
    <3>4. CASE k # 0
      <4>1. IsFlat(h[k], seqs, k)
        BY <2>6, <3>4
      <4>2. IsFlat(h[k] \o seqs[k + 1], seqs, k + 1)
        BY <3>1, <3>2, <4>1, FlatGrows
      <4>3. h[k + 1] = h[k] \o seqs[k + 1]
        <5>1. k + 1 # 1 /\ (k + 1) - 1 = k
          BY <3>1, <3>4
        <5>2. QED
          BY <2>4, <3>1, <5>1
      <4>4. k + 1 \in 0 .. n
        BY <3>1
      <4>5. QED
        BY <4>2, <4>3, <4>4
    <3>5. QED
      BY <3>3, <3>4
  <2> HIDE DEF flats, n
  <2>7. \A k \in 0 .. n : k \in flats
    BY <1>1, <2>5, <2>6, UpTo
  <2>8. n \in flats
    BY <1>1, <2>7
  <2>9. QED
    BY <1>3, <2>1, <2>8 DEF flats, n
<1>4. QED
  BY <1>2, <1>3

\* The members of a list of lists.
LEMMA FlattenHas ==
    ASSUME NEW seqs, IsList(seqs), \A i \in DOMAIN seqs : IsList(seqs[i])
    PROVE  /\ IsList(Joined(seqs))
           /\ \A x : x \in Range(Joined(seqs)) <=> \E i \in DOMAIN seqs : x \in Range(seqs[i])
<1> DEFINE flat == Joined(seqs)
<1>1. IsFlat(flat, seqs, Len(seqs)) /\ DOMAIN seqs = 1 .. Len(seqs)
  BY FlattenIsFlat, ListIs
<1> HIDE DEF flat
<1>2. PICK m : /\ OneToOne(m, DOMAIN flat, Places(seqs, Len(seqs)))
               /\ \A x \in DOMAIN flat : flat[x] = seqs[m[x][1]][m[x][2]]
  BY <1>1 DEF IsFlat
<1>3. ASSUME NEW x, x \in Range(flat)
      PROVE  \E i \in DOMAIN seqs : x \in Range(seqs[i])
  <2>1. PICK j \in DOMAIN flat : x = flat[j]
    BY <1>3 DEF Range
  <2>2. m[j] \in Places(seqs, Len(seqs)) /\ x = seqs[m[j][1]][m[j][2]]
    BY <1>2, <2>1 DEF OneToOne
  <2>3. PICK i \in 1 .. Len(seqs) : \E k \in DOMAIN seqs[i] : m[j] = <<i, k>>
    BY <2>2 DEF Places
  <2>4. QED
    BY <1>1, <2>2, <2>3 DEF Range
<1>4. ASSUME NEW x, NEW i \in DOMAIN seqs, x \in Range(seqs[i])
      PROVE  x \in Range(flat)
  <2>1. PICK k \in DOMAIN seqs[i] : x = seqs[i][k]
    BY <1>4 DEF Range
  <2>2. <<i, k>> \in Places(seqs, Len(seqs))
    BY <1>1, <2>1 DEF Places
  <2>3. PICK j \in DOMAIN flat : m[j] = <<i, k>>
    BY <1>2, <2>2 DEF OneToOne
  <2>4. flat[j] = seqs[i][k]
    BY <1>2, <2>3
  <2>5. QED
    BY <2>1, <2>4 DEF Range
<1>5. QED
  BY <1>1, <1>3, <1>4 DEF IsFlat, flat

LEMMA SameSize ==
    ASSUME NEW b, NEW C, NEW D, IsFiniteSet(C), OneToOne(b, C, D)
    PROVE  IsFiniteSet(D) /\ Cardinality(D) = Cardinality(C)
<1> DEFINE f == [y \in D |-> 1]
           g == [x \in C |-> 1]
<1>1. \A x \in C : g[x] \in Nat /\ f[b[x]] = g[x]
  BY DEF OneToOne
<1> HIDE DEF f, g
<1>2. QED
  BY <1>1, SumRenamed

\* t is the part of s at these indices.
IsPart(t, s, keep) ==
    /\ IsList(t)
    /\ \E m : OneToOne(m, DOMAIN t, keep) /\ \A x \in DOMAIN t : t[x] = s[m[x]]

LEMMA PartIs ==
    ASSUME NEW t, NEW s, NEW keep, IsPart(t, s, keep)
    PROVE  /\ IsList(t) /\ IsFiniteSet(keep) /\ Len(t) = Cardinality(keep)
           /\ Range(t) = {s[i] : i \in keep}
<1>1. PICK m : OneToOne(m, DOMAIN t, keep) /\ \A x \in DOMAIN t : t[x] = s[m[x]]
  BY DEF IsPart
<1>2. IsFiniteSet(DOMAIN t) /\ DOMAIN t = 1 .. Len(t) /\ Len(t) \in Nat
  BY ListIs DEF IsPart
<1>3. IsFiniteSet(keep) /\ Cardinality(keep) = Cardinality(DOMAIN t)
  BY <1>1, <1>2, SameSize
<1>4. Cardinality(DOMAIN t) = Len(t)
  <2>1. 1 \in Int /\ Len(t) \in Int
    BY <1>2
  <2>2. Cardinality(1 .. Len(t)) = IF 1 > Len(t) THEN 0 ELSE Len(t) - 1 + 1
    BY <2>1, FS_Interval
  <2>3. QED
    BY <1>2, <2>2
<1>5. Range(t) = {s[i] : i \in keep}
  BY <1>1 DEF Range, OneToOne
<1>6. QED
  BY <1>3, <1>4, <1>5 DEF IsPart

\* A part has as many of a kind as its indices have.
LEMMA PartCount ==
    ASSUME NEW t, NEW s, NEW keep, NEW S, IsPart(t, s, keep)
    PROVE  Cardinality({x \in DOMAIN t : t[x] \in S}) = Cardinality({i \in keep : s[i] \in S})
<1> DEFINE C == {x \in DOMAIN t : t[x] \in S}
           D == {i \in keep : s[i] \in S}
<1>1. PICK m : OneToOne(m, DOMAIN t, keep) /\ \A x \in DOMAIN t : t[x] = s[m[x]]
  BY DEF IsPart
<1>2. IsFiniteSet(C)
  BY ListIs, FS_Subset DEF IsPart
<1>3. OneToOne(m, C, D)
  BY <1>1 DEF OneToOne
<1>4. QED
  BY <1>2, <1>3, SameSize

Equal(s, keep, y) == {i \in keep : s[i] = y}

LEMMA PartCopies ==
    ASSUME NEW t, NEW s, NEW keep, NEW y, IsPart(t, s, keep)
    PROVE  Cardinality(Equal(t, DOMAIN t, y)) = Cardinality(Equal(s, keep, y))
<1> DEFINE C == Equal(t, DOMAIN t, y)
           D == Equal(s, keep, y)
<1>1. PICK m : OneToOne(m, DOMAIN t, keep) /\ \A x \in DOMAIN t : t[x] = s[m[x]]
  BY DEF IsPart
<1>2. IsFiniteSet(C)
  BY ListIs, FS_Subset DEF IsPart, Equal
<1>3. OneToOne(m, C, D)
  BY <1>1 DEF OneToOne, Equal
<1>4. QED
  BY <1>2, <1>3, SameSize

\* The part of a part.
LEMMA PartOfPart ==
    ASSUME NEW t, NEW s, NEW keep, NEW u, NEW S,
           IsPart(t, s, keep), IsPart(u, t, {x \in DOMAIN t : t[x] \in S})
    PROVE  IsPart(u, s, {i \in keep : s[i] \in S})
<1> DEFINE D == {i \in keep : s[i] \in S}
           C == {x \in DOMAIN t : t[x] \in S}
<1>1. PICK m : OneToOne(m, DOMAIN t, keep) /\ \A x \in DOMAIN t : t[x] = s[m[x]]
  BY DEF IsPart
<1>2. PICK l : OneToOne(l, DOMAIN u, C) /\ \A x \in DOMAIN u : u[x] = t[l[x]]
  BY DEF IsPart
<1> DEFINE b == [x \in DOMAIN u |-> m[l[x]]]
<1>3. \A x \in DOMAIN u : l[x] \in DOMAIN t /\ t[l[x]] \in S /\ b[x] = m[l[x]]
  BY <1>2 DEF OneToOne
<1>4. \A x \in DOMAIN u : u[x] = s[b[x]] /\ b[x] \in D
  BY <1>1, <1>2, <1>3 DEF OneToOne
<1>5. \A i \in D : \E x \in DOMAIN u : b[x] = i
  <2>1. SUFFICES ASSUME NEW i \in D PROVE \E x \in DOMAIN u : b[x] = i
    OBVIOUS
  <2>2. PICK y \in DOMAIN t : m[y] = i
    BY <1>1 DEF OneToOne
  <2>3. y \in C
    BY <1>1, <2>2
  <2>4. PICK x \in DOMAIN u : l[x] = y
    BY <1>2, <2>3 DEF OneToOne
  <2>5. QED
    BY <2>2, <2>4
<1>6. \A x, y \in DOMAIN u : b[x] = b[y] => x = y
  BY <1>1, <1>2, <1>3 DEF OneToOne
<1> HIDE DEF b, C, D
<1>7. OneToOne(b, DOMAIN u, D)
  BY <1>4, <1>5, <1>6 DEF OneToOne
<1>8. QED
  BY <1>4, <1>7 DEF IsPart, D

LEMMA ListJoin ==
    ASSUME NEW s, NEW t, IsList(s), IsList(t)
    PROVE  /\ IsList(s \o t) /\ Len(s \o t) = Len(s) + Len(t)
           /\ \A i \in 1 .. Len(s) : (s \o t)[i] = s[i]
           /\ \A i \in 1 .. Len(t) : (s \o t)[Len(s) + i] = t[i]
           /\ Range(s \o t) = Range(s) \union Range(t)
<1> DEFINE S == Range(s) \union Range(t)
           all == s \o t
           a == Len(s)
           b == Len(t)
<1>1. s \in Seq(S) /\ t \in Seq(S)
  BY ListIn
<1>2. a \in Nat /\ b \in Nat /\ DOMAIN s = 1 .. a /\ DOMAIN t = 1 .. b
  BY ListIs
<1>3. all \in Seq(S) /\ Len(all) = a + b
  BY <1>1
<1>4. (\A i \in 1 .. a : all[i] = s[i]) /\ (\A i \in 1 .. b : all[a + i] = t[i])
  BY <1>1
<1> HIDE DEF S, all, a, b
<1>5. IsList(all)
  BY <1>3, ListOf
<1>6. DOMAIN all = 1 .. a + b
  BY <1>3, <1>5, ListIs
<1>7. \A x : x \in Range(all) <=> x \in Range(s) \/ x \in Range(t)
  <2>1. ASSUME NEW i \in 1 .. a + b
        PROVE  (i \in 1 .. a /\ all[i] = s[i]) \/ (i - a \in 1 .. b /\ all[i] = t[i - a])
    <3>1. CASE i <= a
      BY <1>2, <1>4, <3>1
    <3>2. CASE ~ (i <= a)
      <4>1. i - a \in 1 .. b /\ a + (i - a) = i
        BY <1>2, <3>2
      <4>2. QED
        BY <1>4, <4>1
    <3>3. QED
      BY <3>1, <3>2
  <2>2. \A i \in 1 .. a : i \in 1 .. a + b
    BY <1>2
  <2>3. \A i \in 1 .. b : a + i \in 1 .. a + b
    BY <1>2
  <2>4. ASSUME NEW x, x \in Range(all)
        PROVE  x \in Range(s) \/ x \in Range(t)
    <3>1. PICK i \in 1 .. a + b : x = all[i]
      BY <1>6, <2>4 DEF Range
    <3>2. QED
      BY <1>2, <2>1, <3>1 DEF Range
  <2>5. ASSUME NEW x, x \in Range(s)
        PROVE  x \in Range(all)
    <3>1. PICK i \in 1 .. a : x = s[i]
      BY <1>2, <2>5 DEF Range
    <3>2. QED
      BY <1>4, <1>6, <2>2, <3>1 DEF Range
  <2>6. ASSUME NEW x, x \in Range(t)
        PROVE  x \in Range(all)
    <3>1. PICK i \in 1 .. b : x = t[i]
      BY <1>2, <2>6 DEF Range
    <3>2. QED
      BY <1>4, <1>6, <2>3, <3>1 DEF Range
  <2>7. QED
    BY <2>4, <2>5, <2>6
<1>8. QED
  BY <1>3, <1>4, <1>5, <1>7 DEF all, a, b

\* Two parts that share no index, joined.
LEMMA PartsJoin ==
    ASSUME NEW t, NEW u, NEW s, NEW K, NEW L, IsPart(t, s, K), IsPart(u, s, L), K \intersect L = {}
    PROVE  IsPart(t \o u, s, K \union L)
<1> DEFINE a == Len(t)
           b == Len(u)
           all == t \o u
<1>1. PICK m : OneToOne(m, DOMAIN t, K) /\ \A x \in DOMAIN t : t[x] = s[m[x]]
  BY DEF IsPart
<1>2. PICK l : OneToOne(l, DOMAIN u, L) /\ \A x \in DOMAIN u : u[x] = s[l[x]]
  BY DEF IsPart
<1>3. a \in Nat /\ b \in Nat /\ DOMAIN t = 1 .. a /\ DOMAIN u = 1 .. b
  BY ListIs DEF IsPart
<1>4. /\ IsList(all) /\ Len(all) = a + b
      /\ \A i \in 1 .. a : all[i] = t[i]
      /\ \A i \in 1 .. b : all[a + i] = u[i]
  BY ListJoin DEF IsPart
<1>5. DOMAIN all = 1 .. a + b
  <2> HIDE DEF all, a, b
  <2> QED BY <1>4, ListIs
<1> HIDE DEF all, a, b
<1> DEFINE p == [x \in 1 .. a + b |-> IF x <= a THEN m[x] ELSE l[x - a]]
<1>6. ASSUME NEW x \in 1 .. a + b
      PROVE  \/ x <= a /\ x \in 1 .. a /\ p[x] = m[x] /\ m[x] \in K /\ all[x] = s[m[x]]
             \/ ~ (x <= a) /\ x - a \in 1 .. b /\ p[x] = l[x - a] /\ l[x - a] \in L
                /\ all[x] = s[l[x - a]]
  <2>1. CASE x <= a
    <3>1. x \in 1 .. a /\ p[x] = m[x]
      BY <1>3, <2>1
    <3> HIDE DEF p
    <3>2. QED
      BY <1>1, <1>3, <1>4, <2>1, <3>1 DEF OneToOne
  <2>2. CASE ~ (x <= a)
    <3>1. x - a \in 1 .. b /\ p[x] = l[x - a] /\ a + (x - a) = x
      BY <1>3, <2>2
    <3> HIDE DEF p
    <3>2. all[a + (x - a)] = u[x - a]
      BY <1>4, <3>1
    <3>3. QED
      BY <1>2, <1>3, <2>2, <3>1, <3>2 DEF OneToOne
  <2>3. QED
    BY <2>1, <2>2
<1>7. \A x \in 1 .. a : x \in 1 .. a + b /\ p[x] = m[x]
  BY <1>3
<1>8. \A x \in 1 .. b : a + x \in 1 .. a + b /\ p[a + x] = l[x]
  <2>1. SUFFICES ASSUME NEW x \in 1 .. b PROVE a + x \in 1 .. a + b /\ p[a + x] = l[x]
    OBVIOUS
  <2>2. a + x \in 1 .. a + b /\ ~ (a + x <= a) /\ (a + x) - a = x
    BY <1>3
  <2>3. QED
    BY <2>2
<1> HIDE DEF p
<1>9. \A i \in K \union L : \E x \in 1 .. a + b : p[x] = i
  <2>1. SUFFICES ASSUME NEW i \in K \union L PROVE \E x \in 1 .. a + b : p[x] = i
    OBVIOUS
  <2>2. CASE i \in K
    BY <1>1, <1>3, <1>7, <2>2 DEF OneToOne
  <2>3. CASE i \in L
    <3>1. PICK x \in 1 .. b : l[x] = i
      BY <1>2, <1>3, <2>3 DEF OneToOne
    <3>2. QED
      BY <1>8, <3>1
  <2>4. QED
    BY <2>1, <2>2, <2>3
<1>10. ASSUME NEW x \in 1 .. a + b, NEW y \in 1 .. a + b, p[x] = p[y]
       PROVE  x = y
  <2>1. CASE x <= a /\ y <= a
    BY <1>1, <1>3, <1>6, <1>10, <2>1 DEF OneToOne
  <2>2. CASE ~ (x <= a) /\ ~ (y <= a)
    <3> DEFINE i == x - a
               j == y - a
    <3>0. i \in 1 .. b /\ j \in 1 .. b /\ l[i] = l[j]
      BY <1>6, <1>10, <2>2
    <3> HIDE DEF i, j
    <3>1. i = j
      BY <1>2, <1>3, <3>0 DEF OneToOne
    <3> USE DEF i, j
    <3>2. QED
      BY <1>3, <3>1
  <2>3. CASE (x <= a /\ ~ (y <= a)) \/ (~ (x <= a) /\ y <= a)
    <3>1. (p[x] \in K /\ p[y] \in L) \/ (p[x] \in L /\ p[y] \in K)
      BY <1>6, <2>3
    <3>2. QED
      BY <1>10, <3>1
  <2>4. QED
    BY <2>1, <2>2, <2>3
<1>11. OneToOne(p, DOMAIN all, K \union L)
  <2>1. \A x \in 1 .. a + b : p[x] \in K \union L
    BY <1>6
  <2>2. QED
    BY <1>5, <1>9, <1>10, <2>1 DEF OneToOne
<1>12. \A x \in DOMAIN all : all[x] = s[p[x]]
  BY <1>5, <1>6
<1>13. QED
  BY <1>4, <1>11, <1>12 DEF IsPart, all

\* What is filtered is the part at the indices that pass.
LEMMA FilteredIs ==
    ASSUME NEW s, NEW keep, NEW seqs, IsList(s), keep \subseteq DOMAIN s,
           seqs = [i \in DOMAIN s |-> IF i \in keep THEN <<s[i]>> ELSE <<>>]
    PROVE  IsPart(Joined(seqs), s, keep)
<1> DEFINE n == Len(s)
           flat == Joined(seqs)
<1>1. n \in Nat /\ DOMAIN s = 1 .. n
  BY ListIs
<1>2. \A i \in 1 .. n : seqs[i] = IF i \in keep THEN <<s[i]>> ELSE <<>>
  BY <1>1
<1>3. IsList(seqs) /\ Len(seqs) = n
  <2>1. seqs = [i \in 1 .. n |-> seqs[i]]
    BY <1>1
  <2> HIDE DEF n
  <2>2. QED
    BY <1>1, <2>1, ListByIndex
<1>4. DOMAIN seqs = 1 .. n
  BY <1>1
<1>5. ASSUME NEW i \in 1 .. n
      PROVE  /\ IsList(seqs[i])
             /\ i \in keep => DOMAIN seqs[i] = {1} /\ seqs[i][1] = s[i]
             /\ i \notin keep => DOMAIN seqs[i] = {}
  <2>1. CASE i \in keep
    <3>1. seqs[i] = <<s[i]>>
      BY <1>2, <2>1
    <3> DEFINE x == s[i]
    <3> HIDE DEF x
    <3>2. <<x>> \in Seq({x}) /\ DOMAIN <<x>> = {1} /\ <<x>>[1] = x
      OBVIOUS
    <3>3. IsList(<<x>>)
      BY <3>2, ListOf
    <3>4. QED
      BY <2>1, <3>1, <3>2, <3>3 DEF x
  <2>2. CASE i \notin keep
    <3>1. seqs[i] = <<>>
      BY <1>2, <2>2
    <3>2. IsList(<<>>) /\ DOMAIN <<>> = {}
      BY DEF IsList
    <3>3. QED
      BY <2>2, <3>1, <3>2
  <2>3. QED
    BY <2>1, <2>2
<1>6. IsFlat(flat, seqs, n)
  BY <1>3, <1>4, <1>5, FlattenIsFlat
<1>7. \A p : p \in Places(seqs, n) <=> \E i \in keep : p = <<i, 1>>
  <2>1. \A i \in keep : i \in 1 .. n
    BY <1>1
  <2>2. ASSUME NEW p, p \in Places(seqs, n)
        PROVE  \E i \in keep : p = <<i, 1>>
    <3>1. PICK i \in 1 .. n : \E j \in DOMAIN seqs[i] : p = <<i, j>>
      BY <2>2 DEF Places
    <3>2. PICK j \in DOMAIN seqs[i] : p = <<i, j>>
      BY <3>1
    <3>3. i \in keep /\ j = 1
      BY <1>5, <3>2
    <3>4. QED
      BY <3>2, <3>3
  <2>3. ASSUME NEW i \in keep
        PROVE  <<i, 1>> \in Places(seqs, n)
    <3>1. i \in 1 .. n /\ 1 \in DOMAIN seqs[i]
      BY <1>5, <2>1
    <3> DEFINE row == {<<i, j>> : j \in DOMAIN seqs[i]}
    <3>2. <<i, 1>> \in row
      BY <3>1
    <3> HIDE DEF n
    <3>3. QED
      BY <3>1, <3>2 DEF Places
  <2>4. QED
    BY <2>2, <2>3
<1> HIDE DEF flat
<1>8. PICK m : /\ OneToOne(m, DOMAIN flat, Places(seqs, n))
               /\ \A x \in DOMAIN flat : flat[x] = seqs[m[x][1]][m[x][2]]
  BY <1>6 DEF IsFlat
<1> DEFINE b == [x \in DOMAIN flat |-> m[x][1]]
<1>9. ASSUME NEW x \in DOMAIN flat
      PROVE  b[x] \in keep /\ m[x] = <<b[x], 1>> /\ flat[x] = s[b[x]]
  <2>1. PICK i \in keep : m[x] = <<i, 1>>
    BY <1>7, <1>8 DEF OneToOne
  <2>2. b[x] = m[x][1]
    OBVIOUS
  <2>3. m[x][1] = i /\ m[x][2] = 1 /\ i \in 1 .. n
    BY <1>1, <2>1
  <2> HIDE DEF b
  <2>4. b[x] = i /\ flat[x] = seqs[i][1]
    BY <1>8, <2>2, <2>3
  <2>5. seqs[i][1] = s[i]
    BY <1>5, <2>3
  <2>6. QED
    BY <2>1, <2>4, <2>5
<1>10. ASSUME NEW i \in keep
       PROVE  \E x \in DOMAIN flat : b[x] = i
  <2>1. PICK x \in DOMAIN flat : m[x] = <<i, 1>>
    BY <1>7, <1>8 DEF OneToOne
  <2>2. b[x] = i
    BY <2>1
  <2>3. QED
    BY <2>2
<1> HIDE DEF b
<1>11. OneToOne(b, DOMAIN flat, keep)
  <2>1. \A x, y \in DOMAIN flat : b[x] = b[y] => x = y
    BY <1>8, <1>9 DEF OneToOne
  <2>2. QED
    BY <1>9, <1>10, <2>1 DEF OneToOne
<1>12. QED
  BY <1>6, <1>9, <1>11, ZenonT(60) DEF IsFlat, IsPart, flat

-----------------------------------------------------------------------------
(* The report of the validation (validationFormatter).                     *)

\* The issues of a type, of a category, of a severity.
Typed(issues, type) == {i \in DOMAIN issues : issues[i].type = type}

In(issues, c) == {i \in DOMAIN issues : Reports!deriveIssueCategory(issues[i].type) = c}

Rated(issues, s) == {i \in DOMAIN issues : Reports!getIssueSeverity(issues[i].type) = s}

LEMMA TypesAre ==
    ASSUME NEW issues, IsList(issues), NEW type
    PROVE  IsPart(Reports!OfType(issues, type), issues, Typed(issues, type))
<1> DEFINE keep == Typed(issues, type)
           seqs == [i \in DOMAIN issues |-> IF i \in keep THEN <<issues[i]>> ELSE <<>>]
           raw == [i \in DOMAIN issues |-> IF issues[i].type = type THEN <<issues[i]>> ELSE <<>>]
<1>1. Reports!OfType(issues, type) = Joined(raw)
  BY FlattenInReports DEF Reports!OfType, Reports!Where, Reports!Each, Reports!When
<1>2. raw = seqs /\ keep \subseteq DOMAIN issues
  BY DEF Typed
<1>3. seqs = [i \in DOMAIN issues |-> IF i \in keep THEN <<issues[i]>> ELSE <<>>]
  OBVIOUS
<1> HIDE DEF keep, seqs, raw
<1>4. IsPart(Joined(seqs), issues, keep)
  BY <1>2, <1>3, FilteredIs
<1>5. QED
  BY <1>1, <1>2, <1>4 DEF keep

LEMMA CategoriesAre ==
    ASSUME NEW issues, IsList(issues), NEW c \in {"navigation", "endpoint", "plugin", "element"}
    PROVE  IsPart(Reports!groupIssuesByCategory(issues)[c], issues, In(issues, c))
<1> DEFINE keep == In(issues, c)
           seqs == [i \in DOMAIN issues |-> IF i \in keep THEN <<issues[i]>> ELSE <<>>]
           raw == [i \in DOMAIN issues |->
                      IF Reports!deriveIssueCategory(issues[i].type) = c THEN <<issues[i]>> ELSE <<>>]
<1>1. c \in Reports!Range(Reports!Categories)
  <2> DEFINE all == <<"navigation", "endpoint", "plugin", "element">>
  <2>1. \E i \in DOMAIN all : c = all[i]
    <3>1. DOMAIN all = 1 .. 4
      OBVIOUS
    <3>2. 1 \in 1 .. 4 /\ 2 \in 1 .. 4 /\ 3 \in 1 .. 4 /\ 4 \in 1 .. 4
      OBVIOUS
    <3>3. all[1] = "navigation" /\ all[2] = "endpoint" /\ all[3] = "plugin" /\ all[4] = "element"
      OBVIOUS
    <3> HIDE DEF all
    <3>4. QED
      BY <3>1, <3>2, <3>3
  <2>2. Reports!Categories = all
    BY DEF Reports!Categories
  <2> HIDE DEF all
  <2>3. QED
    BY <2>1, <2>2 DEF Reports!Range
<1>2. Reports!groupIssuesByCategory(issues)[c] = Joined(raw)
  BY <1>1, FlattenInReports
     DEF Reports!groupIssuesByCategory, Reports!Where, Reports!Each, Reports!When
<1>3. raw = seqs /\ keep \subseteq DOMAIN issues
  BY DEF In
<1>4. seqs = [i \in DOMAIN issues |-> IF i \in keep THEN <<issues[i]>> ELSE <<>>]
  OBVIOUS
<1> HIDE DEF keep, seqs, raw
<1>5. IsPart(Joined(seqs), issues, keep)
  BY <1>3, <1>4, FilteredIs
<1>6. QED
  BY <1>2, <1>3, <1>5 DEF keep

\* The categories, the types of an endpoint, and the severities share the issues out.
LEMMA TypesShared ==
    ASSUME NEW issues
    PROVE  /\ In(issues, "navigation") = Typed(issues, "missing-navigation-target")
           /\ In(issues, "plugin") = Typed(issues, "missing-plugin")
           /\ In(issues, "endpoint") = (Typed(issues, "missing-endpoint")
                                          \union Typed(issues, "missing-auth-header"))
                                          \union Typed(issues, "missing-controller-auth")
           /\ DOMAIN issues = ((In(issues, "navigation") \union In(issues, "endpoint"))
                                 \union In(issues, "plugin")) \union In(issues, "element")
           /\ Rated(issues, "critical") = Typed(issues, "missing-auth-header")
           /\ Rated(issues, "high") = (Typed(issues, "missing-navigation-target")
                                         \union Typed(issues, "missing-endpoint"))
                                         \union Typed(issues, "missing-controller-auth")
           /\ Rated(issues, "medium") = In(issues, "plugin")
           /\ Rated(issues, "low") = In(issues, "element")
  BY DEF In, Typed, Rated, Reports!deriveIssueCategory, Reports!getIssueSeverity

LEMMA CategoriesApart ==
    ASSUME NEW issues, NEW c, NEW d, c # d
    PROVE  /\ In(issues, c) \intersect In(issues, d) = {}
           /\ Typed(issues, c) \intersect Typed(issues, d) = {}
  BY DEF In, Typed

\* The issues of an endpoint that have a type, and all of them.
LEMMA EndpointsAre ==
    ASSUME NEW issues, IsList(issues),
           NEW type \in {"missing-endpoint", "missing-auth-header", "missing-controller-auth"}
    PROVE  IsPart(Reports!OfType(Reports!groupIssuesByCategory(issues)["endpoint"], type),
                  issues, Typed(issues, type))
<1> DEFINE E == Reports!groupIssuesByCategory(issues)["endpoint"]
           S == {x \in Range(issues) : x.type = type}
           u == Reports!OfType(E, type)
<1>1. IsPart(E, issues, In(issues, "endpoint"))
  BY CategoriesAre
<1> HIDE DEF E
<1>2. IsPart(u, E, Typed(E, type))
  BY <1>1, TypesAre DEF IsPart
<1>3. IsList(E) /\ \A x \in DOMAIN E : E[x] \in Range(issues)
  <2>1. IsList(E) /\ Range(E) = {issues[i] : i \in In(issues, "endpoint")}
    BY <1>1, PartIs
  <2>2. \A i \in In(issues, "endpoint") : issues[i] \in Range(issues)
    BY DEF In, Range
  <2>3. QED
    BY <2>1, <2>2, ListIs
<1>4. Typed(E, type) = {x \in DOMAIN E : E[x] \in S}
  BY <1>3 DEF Typed
<1>5. {i \in In(issues, "endpoint") : issues[i] \in S} = Typed(issues, type)
  <2>1. Typed(issues, type) \subseteq In(issues, "endpoint")
    BY TypesShared
  <2>2. \A i \in DOMAIN issues : issues[i] \in Range(issues)
    BY ListIs
  <2>3. In(issues, "endpoint") \subseteq DOMAIN issues
    BY DEF In
  <2>4. QED
    BY <2>1, <2>2, <2>3 DEF Typed
<1> HIDE DEF S, u
<1>6. IsPart(u, issues, {i \in In(issues, "endpoint") : issues[i] \in S})
  BY <1>1, <1>2, <1>4, PartOfPart
<1>7. QED
  BY <1>5, <1>6 DEF u, E

LEMMA SizesAdd ==
    ASSUME NEW A, NEW B, IsFiniteSet(A), IsFiniteSet(B), A \intersect B = {}
    PROVE  /\ IsFiniteSet(A \union B) /\ Cardinality(A) \in Nat /\ Cardinality(B) \in Nat
           /\ Cardinality(A \union B) = Cardinality(A) + Cardinality(B)
<1>1. Cardinality(A) \in Nat /\ Cardinality(B) \in Nat
  BY FS_CardinalityType
<1>2. /\ IsFiniteSet(A \union B)
      /\ Cardinality(A \union B) = Cardinality(A) + Cardinality(B) - Cardinality(A \intersect B)
  BY FS_Union
<1>3. Cardinality(A \intersect B) = 0
  BY FS_EmptySet
<1>4. QED
  BY <1>1, <1>2, <1>3

\* The issues that are listed are all the issues, each once.
LEMMA AllListed ==
    ASSUME NEW issues, IsList(issues)
    PROVE  IsPart(Reports!buildMarkdownContext(issues).listed, issues, DOMAIN issues)
<1> DEFINE g(c) == Reports!groupIssuesByCategory(issues)[c]
           e(type) == Reports!OfType(g("endpoint"), type)
           ends == (e("missing-endpoint") \o e("missing-auth-header")) \o e("missing-controller-auth")
           nav == g("navigation")
           plug == g("plugin")
           elem == g("element")
<1>1. Reports!buildMarkdownContext(issues).listed = ((nav \o ends) \o plug) \o elem
  BY DEF Reports!buildMarkdownContext, Reports!formatEndpointIssues
<1>2. /\ IsPart(nav, issues, In(issues, "navigation")) /\ IsPart(plug, issues, In(issues, "plugin"))
      /\ IsPart(elem, issues, In(issues, "element"))
  BY CategoriesAre
<1>3. /\ IsPart(e("missing-endpoint"), issues, Typed(issues, "missing-endpoint"))
      /\ IsPart(e("missing-auth-header"), issues, Typed(issues, "missing-auth-header"))
      /\ IsPart(e("missing-controller-auth"), issues, Typed(issues, "missing-controller-auth"))
  BY EndpointsAre
<1>4. IsPart(ends, issues, In(issues, "endpoint"))
  <2> DEFINE a == e("missing-endpoint")
             b == e("missing-auth-header")
             c == e("missing-controller-auth")
             A == Typed(issues, "missing-endpoint")
             B == Typed(issues, "missing-auth-header")
             C == Typed(issues, "missing-controller-auth")
  <2>1. IsPart(a, issues, A) /\ IsPart(b, issues, B) /\ IsPart(c, issues, C)
    BY <1>3
  <2>2. A \intersect B = {} /\ (A \union B) \intersect C = {}
    BY CategoriesApart
  <2> HIDE DEF a, b, c, A, B, C
  <2>3. IsPart(a \o b, issues, A \union B)
    BY <2>1, <2>2, PartsJoin
  <2>4. IsPart((a \o b) \o c, issues, (A \union B) \union C)
    BY <2>1, <2>2, <2>3, PartsJoin
  <2>5. QED
    BY <2>4, TypesShared DEF a, b, c, A, B, C
<1>5. /\ In(issues, "navigation") \intersect In(issues, "endpoint") = {}
      /\ (In(issues, "navigation") \union In(issues, "endpoint")) \intersect In(issues, "plugin") = {}
      /\ ((In(issues, "navigation") \union In(issues, "endpoint")) \union In(issues, "plugin"))
            \intersect In(issues, "element") = {}
  <2>1. \A c, d \in {"navigation", "endpoint", "plugin", "element"} :
           c # d => In(issues, c) \intersect In(issues, d) = {}
    BY CategoriesApart
  <2> DEFINE N == In(issues, "navigation")
             E == In(issues, "endpoint")
             P == In(issues, "plugin")
             L == In(issues, "element")
  <2>2. /\ N \intersect E = {} /\ N \intersect P = {} /\ E \intersect P = {}
        /\ N \intersect L = {} /\ E \intersect L = {} /\ P \intersect L = {}
    BY <2>1
  <2> HIDE DEF N, E, P, L
  <2>3. N \intersect E = {} /\ (N \union E) \intersect P = {} /\ ((N \union E) \union P) \intersect L = {}
    BY <2>2
  <2>4. QED
    BY <2>3 DEF N, E, P, L
<1> HIDE DEF nav, plug, elem, ends
<1>6. IsPart(nav \o ends, issues, In(issues, "navigation") \union In(issues, "endpoint"))
  BY <1>2, <1>4, <1>5, PartsJoin
<1>7. IsPart((nav \o ends) \o plug, issues,
             (In(issues, "navigation") \union In(issues, "endpoint")) \union In(issues, "plugin"))
  BY <1>2, <1>5, <1>6, PartsJoin
<1>8. IsPart(((nav \o ends) \o plug) \o elem, issues,
             ((In(issues, "navigation") \union In(issues, "endpoint")) \union In(issues, "plugin"))
                \union In(issues, "element"))
  BY <1>2, <1>5, <1>7, PartsJoin
<1>9. QED
  BY <1>1, <1>8, TypesShared

\* The length of a list is the number of its indices.
LEMMA LengthIs ==
    ASSUME NEW s, IsList(s)
    PROVE  Cardinality(DOMAIN s) = Len(s)
<1>1. DOMAIN s = 1 .. Len(s) /\ Len(s) \in Nat
  BY ListIs
<1>2. 1 \in Int /\ Len(s) \in Int
  BY <1>1
<1>3. Cardinality(1 .. Len(s)) = IF 1 > Len(s) THEN 0 ELSE Len(s) - 1 + 1
  BY <1>2, FS_Interval
<1>4. QED
  BY <1>1, <1>3

\* The structure counts what is rated so.
LEMMA RatedCount ==
    ASSUME NEW issues, IsList(issues), NEW s \in {"critical", "high", "medium", "low"}
    PROVE  Reports!buildStructuredContext(issues).bySeverity[s] = Cardinality(Rated(issues, s))
<1> DEFINE formed(i) == [type |-> issues[i].type,
                       category |-> Reports!deriveIssueCategory(issues[i].type),
                       severity |-> Reports!getIssueSeverity(issues[i].type),
                       target |-> issues[i].target,
                       fix |-> Reports!suggestFixType(issues[i].type)]
           formatted == [i \in DOMAIN issues |-> formed(i)]
           keep == Rated(issues, s)
           seqs == [i \in DOMAIN formatted |-> IF i \in keep THEN <<formatted[i]>> ELSE <<>>]
           raw == [i \in DOMAIN formatted |->
                      IF formatted[i].severity = s THEN <<formatted[i]>> ELSE <<>>]
<1>1. Reports!buildStructuredContext(issues).bySeverity[s] = Len(Joined(raw))
  BY FlattenInReports
     DEF Reports!buildStructuredContext, Reports!Where, Reports!Each, Reports!When
<1>2. \A i \in DOMAIN issues : formed(i).severity = Reports!getIssueSeverity(issues[i].type)
  OBVIOUS
<1> HIDE DEF formed
<1>3. DOMAIN formatted = DOMAIN issues /\ \A i \in DOMAIN issues : formatted[i] = formed(i)
  OBVIOUS
<1>4. IsList(formatted)
  <2>1. DOMAIN issues = 1 .. Len(issues) /\ Len(issues) \in Nat
    BY ListIs
  <2>2. formatted = [i \in 1 .. Len(issues) |-> formatted[i]]
    BY <2>1
  <2> HIDE DEF formatted
  <2>3. QED
    BY <2>1, <2>2, ListByIndex
<1> HIDE DEF formatted
<1>5. keep \subseteq DOMAIN formatted
  BY <1>3 DEF Rated
<1>6. raw = seqs
  BY <1>2, <1>3 DEF Rated
<1>7. seqs = [i \in DOMAIN formatted |-> IF i \in keep THEN <<formatted[i]>> ELSE <<>>]
  OBVIOUS
<1> HIDE DEF raw, seqs, keep
<1>8. IsPart(Joined(seqs), formatted, keep)
  BY <1>4, <1>5, <1>7, FilteredIs
<1>9. Len(Joined(seqs)) = Cardinality(keep)
  BY <1>8, PartIs
<1>10. QED
  BY <1>1, <1>6, <1>9 DEF keep

\* The text and the structure of a report say the same, and leave no issue out,
\* whatever the issues are (validationFormatter.ts).
THEOREM ReportsAlwaysComplete ==
    ASSUME NEW issues, IsList(issues)
    PROVE  Reports!ReportComplete(issues)
<1> DEFINE text == Reports!buildMarkdownContext(issues)
           structured == Reports!buildStructuredContext(issues)
           listed == text.listed
<1>1. IsPart(listed, issues, DOMAIN issues)
  BY AllListed
<1>2. \A x \in Reports!Range(issues) :
         Reports!Cardinality({i \in DOMAIN listed : listed[i] = x})
            = Reports!Cardinality({i \in DOMAIN issues : issues[i] = x})
  <2>1. SUFFICES ASSUME NEW x
                 PROVE  Reports!Cardinality({i \in DOMAIN listed : listed[i] = x})
                           = Reports!Cardinality({i \in DOMAIN issues : issues[i] = x})
    OBVIOUS
  <2> DEFINE D == DOMAIN issues
  <2>2. IsPart(listed, issues, D)
    BY <1>1
  <2> HIDE DEF listed, D
  <2>3. Cardinality(Equal(listed, DOMAIN listed, x)) = Cardinality(Equal(issues, D, x))
    BY <2>2, PartCopies
  <2>4. Reports!Cardinality(Equal(listed, DOMAIN listed, x))
           = Reports!Cardinality(Equal(issues, D, x))
    BY <2>3, SizeInReport
  <2>5. QED
    BY <2>4 DEF Equal, D
<1>3. Len(listed) = structured.total
  <2>1. structured.total = Len(issues)
    BY DEF Reports!buildStructuredContext
  <2> HIDE DEF listed, structured
  <2>2. Len(listed) = Cardinality(DOMAIN issues)
    BY <1>1, PartIs
  <2>3. QED
    BY <2>1, <2>2, LengthIs
<1>4. text.severity = structured.bySeverity
  <2> DEFINE n(type) == Cardinality(Typed(issues, type))
             m(c) == Cardinality(In(issues, c))
  <2>1. text.severity = [critical |-> n("missing-auth-header"),
                         high |-> m("navigation") + n("missing-endpoint") + n("missing-controller-auth"),
                         medium |-> m("plugin"), low |-> m("element")]
    <3> DEFINE g(c) == Reports!groupIssuesByCategory(issues)[c]
               e(type) == Reports!OfType(g("endpoint"), type)
    <3>1. text.severity = [critical |-> Len(e("missing-auth-header")),
                           high |-> Len(g("navigation")) + Len(e("missing-endpoint"))
                                    + Len(e("missing-controller-auth")),
                           medium |-> Len(g("plugin")), low |-> Len(g("element"))]
      BY DEF Reports!buildMarkdownContext
    <3>2. \A c \in {"navigation", "endpoint", "plugin", "element"} : Len(g(c)) = m(c)
      BY CategoriesAre, PartIs
    <3>3. \A t \in {"missing-endpoint", "missing-auth-header", "missing-controller-auth"} :
             Len(e(t)) = n(t)
      BY EndpointsAre, PartIs
    <3> HIDE DEF g, e, n, m, text
    <3>4. QED
      BY <3>1, <3>2, <3>3
  <2>2. structured.bySeverity = [s \in {"critical", "high", "medium", "low"} |->
                                    Cardinality(Rated(issues, s))]
    <3>1. structured.bySeverity = [s \in {"critical", "high", "medium", "low"} |->
                                      structured.bySeverity[s]]
      BY DEF Reports!buildStructuredContext
    <3>2. \A s \in {"critical", "high", "medium", "low"} :
             structured.bySeverity[s] = Cardinality(Rated(issues, s))
      BY RatedCount
    <3> HIDE DEF structured
    <3>3. QED
      BY <3>1, <3>2
  <2>3. /\ Cardinality(Rated(issues, "critical")) = n("missing-auth-header")
        /\ Cardinality(Rated(issues, "high"))
              = m("navigation") + n("missing-endpoint") + n("missing-controller-auth")
        /\ Cardinality(Rated(issues, "medium")) = m("plugin")
        /\ Cardinality(Rated(issues, "low")) = m("element")
    <3> DEFINE A == Typed(issues, "missing-navigation-target")
               B == Typed(issues, "missing-endpoint")
               C == Typed(issues, "missing-controller-auth")
    <3>1. IsFiniteSet(A) /\ IsFiniteSet(B) /\ IsFiniteSet(C)
      BY ListIs, FS_Subset DEF Typed
    <3>2. A \intersect B = {} /\ (A \union B) \intersect C = {}
      BY CategoriesApart
    <3> HIDE DEF A, B, C
    <3>3. /\ IsFiniteSet(A \union B) /\ Cardinality(A \union B) = Cardinality(A) + Cardinality(B)
          /\ Cardinality(A) \in Nat /\ Cardinality(B) \in Nat /\ Cardinality(C) \in Nat
      BY <3>1, <3>2, SizesAdd
    <3>4. Cardinality((A \union B) \union C) = Cardinality(A \union B) + Cardinality(C)
      BY <3>1, <3>2, <3>3, SizesAdd
    <3>5. Cardinality(Rated(issues, "high")) = Cardinality(A) + Cardinality(B) + Cardinality(C)
      <4>1. Rated(issues, "high") = (A \union B) \union C
        BY TypesShared DEF A, B, C
      <4>2. QED
        BY <3>3, <3>4, <4>1
    <3>6. QED
      BY <3>5, TypesShared DEF A, B, C
  <2> HIDE DEF n, m, text, structured
  <2>4. QED
    BY <2>1, <2>2, <2>3
<1>5. QED
  BY <1>2, <1>3, <1>4 DEF Reports!ReportComplete

-----------------------------------------------------------------------------
(* Applications.                                                           *)

LEMMA FiniteInReferences ==
    ASSUME NEW S
    PROVE  References!IsFiniteSet(S) <=> IsFiniteSet(S)
  BY DEF References!IsFiniteSet, IsFiniteSet

LEMMA SizeInReferences ==
    ASSUME NEW S
    PROVE  References!Cardinality(S) = Cardinality(S)
  BY DEF References!Cardinality, Cardinality

LEMMA SumInReferences ==
    ASSUME NEW f
    PROVE  References!SumFunction(f) = Sum(f, DOMAIN f)
  BY DEF References!SumFunction, References!SumFunctionOnSet, References!FoldFunctionOnSet,
         References!MapThenFoldSet, Sum, MapThenSumSet, MapThenFoldSet

\* A reference names something of a kind, and code makes a list of them.
IsRef(r) ==
    /\ r = [kind |-> r.kind, target |-> r.target, method |-> r.method]
    /\ r.kind \in {"view", "endpoint", "element", "plugin"}
    /\ r.target # None

IsCode(code) == IsList(code.refs) /\ \A r \in Range(code.refs) : IsRef(r)

\* A plugin of a handler has code, code to execute, both or none.
IsHandler(plugins) ==
    /\ IsList(plugins)
    /\ \A p \in Range(plugins) : /\ p.code # None => IsCode(p.code)
                                 /\ p.executeCode # None => IsCode(p.executeCode)

IsElement(element) ==
    /\ IsList(element.settings) /\ \A r \in Range(element.settings) : IsRef(r)
    /\ IsFiniteSet(DOMAIN element.handlers)
    /\ \A on \in DOMAIN element.handlers : IsHandler(element.handlers[on])

IsView(view) == IsList(view.layout) /\ \A e \in Range(view.layout) : IsElement(e)

IsController(c) == IsList(c.steps) /\ \A code \in Range(c.steps) : IsCode(code)

IsApplication(app) ==
    /\ IsList(app.views) /\ \A v \in Range(app.views) : IsView(v)
    /\ IsList(app.controllers) /\ \A c \in Range(app.controllers) : IsController(c)

\* The plugins of a set, one after the other.
LEMMA SequenceOfSet ==
    ASSUME NEW S, IsFiniteSet(S)
    PROVE  IsList(References!SetToSeq(S)) /\ Range(References!SetToSeq(S)) = S
<1> DEFINE n == Cardinality(S)
           f == CHOOSE g \in [1 .. n -> S] : References!IsInjective(g)
<1>1. n \in Nat /\ ExistsBijection(1 .. n, S)
  BY FS_CardinalityType
<1>2. References!SetToSeq(S) = f
  <2>1. References!Cardinality(S) = n
    BY SizeInReferences
  <2> HIDE DEF n
  <2>2. QED
    BY <2>1 DEF References!SetToSeq
<1>3. \E g \in [1 .. n -> S] : References!IsInjective(g)
  <2> HIDE DEF n
  <2> QED BY <1>1 DEF ExistsBijection, Bijection, Injection, References!IsInjective, IsInjective
<1>4. f \in [1 .. n -> S] /\ References!IsInjective(f)
  <2> HIDE DEF n
  <2> QED BY <1>3
<1> HIDE DEF f
<1>5. f \in Injection(1 .. n, S)
  <2> HIDE DEF n
  <2> QED BY <1>4 DEF Injection, References!IsInjective, IsInjective
<1>6. IsFiniteSet(1 .. n) /\ Cardinality(1 .. n) = n
  <2> HIDE DEF n
  <2>1. 1 \in Int /\ n \in Int
    BY <1>1
  <2>2. QED
    BY <1>1, <2>1, FS_Interval
<1>7. f \in Surjection(1 .. n, S)
  BY <1>5, <1>6, FS_Injection
<1>8. Range(f) = S
  <2> HIDE DEF n
  <2> QED BY <1>4, <1>7 DEF Range, Surjection
<1>9. f = [i \in 1 .. n |-> f[i]]
  <2> HIDE DEF n
  <2> QED BY <1>4
<1>10. IsList(f)
  <2> HIDE DEF n
  <2> QED BY <1>1, <1>9, ListByIndex
<1>11. QED
  BY <1>2, <1>8, <1>10

\* The settings that are looked up.
LEMMA SettingsAre ==
    ASSUME NEW view, NEW element, IsElement(element)
    PROVE  /\ IsList(References!SettingsOf(view, element))
           /\ \A r \in Range(References!SettingsOf(view, element)) : IsRef(r)
<1> DEFINE s == element.settings
           own == References!ElementNames(view) \union {Lower[view.id]}
           keep == {i \in DOMAIN s : s[i].kind = "element" => Lower[s[i].target] \notin own}
           seqs == [i \in DOMAIN s |-> IF i \in keep THEN <<s[i]>> ELSE <<>>]
           raw == [i \in DOMAIN s |->
                      IF s[i].kind = "element" => Lower[s[i].target] \notin own
                      THEN <<s[i]>> ELSE <<>>]
<1>1. References!SettingsOf(view, element) = Joined(raw)
  BY FlattenInReferences
     DEF References!SettingsOf, References!Where, References!Each, References!When
<1>2. IsList(s) /\ \A r \in Range(s) : IsRef(r)
  BY DEF IsElement
<1> HIDE DEF s, own
<1>3. raw = seqs /\ keep \subseteq DOMAIN s
  OBVIOUS
<1>4. seqs = [i \in DOMAIN s |-> IF i \in keep THEN <<s[i]>> ELSE <<>>]
  OBVIOUS
<1> HIDE DEF keep, seqs, raw
<1>5. IsPart(Joined(seqs), s, keep)
  BY <1>2, <1>3, <1>4, FilteredIs
<1>6. IsList(Joined(seqs)) /\ Range(Joined(seqs)) = {s[i] : i \in keep}
  BY <1>5, PartIs
<1>7. \A i \in keep : s[i] \in Range(s)
  BY <1>3 DEF Range
<1>8. QED
  BY <1>1, <1>2, <1>3, <1>6, <1>7

\* A function of the members of a list is a list.
LEMMA ListMapped ==
    ASSUME NEW s, IsList(s), NEW seqs, seqs = [i \in DOMAIN s |-> seqs[i]]
    PROVE  IsList(seqs) /\ DOMAIN seqs = DOMAIN s
<1>1. DOMAIN s = 1 .. Len(s) /\ Len(s) \in Nat
  BY ListIs
<1>2. seqs = [i \in 1 .. Len(s) |-> seqs[i]]
  BY <1>1
<1>3. IsList(seqs)
  BY <1>1, <1>2, ListByIndex
<1>4. QED
  BY <1>3

\* What the plugins of a handler refer to in their code.
RefsOfPlugins(plugins) ==
    Joined([i \in DOMAIN plugins |->
                   IF plugins[i].code = None THEN <<>> ELSE plugins[i].code.refs])

LEMMA PluginsAre ==
    ASSUME NEW plugins, IsHandler(plugins)
    PROVE  /\ IsList(RefsOfPlugins(plugins))
           /\ \A r : r \in Range(RefsOfPlugins(plugins))
                        <=> \E p \in Range(plugins) : p.code # None /\ r \in Range(p.code.refs)
           /\ \A r \in Range(RefsOfPlugins(plugins)) : IsRef(r)
<1> DEFINE seqs == [i \in DOMAIN plugins |->
                       IF plugins[i].code = None THEN <<>> ELSE plugins[i].code.refs]
<1>1. IsList(plugins) /\ \A p \in Range(plugins) : p.code # None => IsCode(p.code)
  BY DEF IsHandler
<1>2. \A i \in DOMAIN plugins : plugins[i] \in Range(plugins)
  BY DEF Range
<1>3. \A i \in DOMAIN plugins :
         seqs[i] = IF plugins[i].code = None THEN <<>> ELSE plugins[i].code.refs
  OBVIOUS
<1>4. seqs = [i \in DOMAIN plugins |-> seqs[i]]
  OBVIOUS
<1>5. RefsOfPlugins(plugins) = Joined(seqs)
  BY DEF RefsOfPlugins
<1> HIDE DEF seqs
<1>6. IsList(seqs) /\ DOMAIN seqs = DOMAIN plugins
  BY <1>1, <1>4, ListMapped
<1>7. IsList(<<>>) /\ \A r : r \notin Range(<<>>)
  BY DEF IsList, Range
<1>8. \A i \in DOMAIN seqs : IsList(seqs[i])
  BY <1>1, <1>2, <1>3, <1>6, <1>7 DEF IsCode
<1>9. /\ IsList(Joined(seqs))
      /\ \A x : x \in Range(Joined(seqs)) <=> \E i \in DOMAIN seqs : x \in Range(seqs[i])
  BY <1>6, <1>8, FlattenHas
<1>10. ASSUME NEW r
       PROVE  (\E i \in DOMAIN seqs : r \in Range(seqs[i]))
                 <=> \E p \in Range(plugins) : p.code # None /\ r \in Range(p.code.refs)
  <2>1. ASSUME NEW i \in DOMAIN seqs, r \in Range(seqs[i])
        PROVE  \E p \in Range(plugins) : p.code # None /\ r \in Range(p.code.refs)
    BY <1>2, <1>3, <1>6, <1>7, <2>1
  <2>2. ASSUME NEW p \in Range(plugins), p.code # None, r \in Range(p.code.refs)
        PROVE  \E i \in DOMAIN seqs : r \in Range(seqs[i])
    <3>1. PICK i \in DOMAIN plugins : p = plugins[i]
      BY DEF Range
    <3>2. QED
      BY <1>3, <1>6, <2>2, <3>1
  <2>3. QED
    BY <2>1, <2>2
<1>11. QED
  BY <1>1, <1>5, <1>9, <1>10 DEF IsCode

\* What an element refers to in its code.
LEMMA CodeIs ==
    ASSUME NEW element, IsElement(element)
    PROVE  /\ IsList(References!CodeOf(element))
           /\ \A r : r \in Range(References!CodeOf(element))
                        <=> \E on \in DOMAIN element.handlers :
                               \E p \in Range(element.handlers[on]) :
                                  p.code # None /\ r \in Range(p.code.refs)
           /\ \A r \in Range(References!CodeOf(element)) : IsRef(r)
<1> DEFINE H == element.handlers
           s == References!SetToSeq(DOMAIN H)
           seqs == [i \in DOMAIN s |-> RefsOfPlugins(H[s[i]])]
<1>1. References!CodeOf(element) = Joined(seqs)
  BY FlattenInReferences DEF References!CodeOf, References!Each, RefsOfPlugins
<1>2. IsFiniteSet(DOMAIN H) /\ \A on \in DOMAIN H : IsHandler(H[on])
  BY DEF IsElement
<1> DEFINE D == DOMAIN H
<1>3. IsList(s) /\ Range(s) = D
  <2> HIDE DEF H
  <2> QED BY <1>2, SequenceOfSet
<1>4. \A i \in DOMAIN s : s[i] \in D /\ seqs[i] = RefsOfPlugins(H[s[i]])
  <2>1. \A i \in DOMAIN s : s[i] \in Range(s)
    BY <1>3, ListIs
  <2>2. QED
    BY <1>3, <2>1
<1>5. seqs = [i \in DOMAIN s |-> seqs[i]]
  OBVIOUS
<1> HIDE DEF H, s, seqs
<1>6. IsList(seqs) /\ DOMAIN seqs = DOMAIN s
  BY <1>3, <1>5, ListMapped
<1>7. \A on \in D :
         /\ IsList(RefsOfPlugins(H[on]))
         /\ \A r : r \in Range(RefsOfPlugins(H[on]))
                      <=> \E p \in Range(H[on]) : p.code # None /\ r \in Range(p.code.refs)
         /\ \A r \in Range(RefsOfPlugins(H[on])) : IsRef(r)
  BY <1>2, PluginsAre
<1>8. \A i \in DOMAIN seqs : IsList(seqs[i])
  BY <1>4, <1>6, <1>7
<1>9. /\ IsList(Joined(seqs))
      /\ \A x : x \in Range(Joined(seqs)) <=> \E i \in DOMAIN seqs : x \in Range(seqs[i])
  BY <1>6, <1>8, FlattenHas
<1>10. ASSUME NEW r
       PROVE  (\E i \in DOMAIN seqs : r \in Range(seqs[i]))
                 <=> \E on \in D : r \in Range(RefsOfPlugins(H[on]))
  <2>1. ASSUME NEW on \in D, r \in Range(RefsOfPlugins(H[on]))
        PROVE  \E i \in DOMAIN seqs : r \in Range(seqs[i])
    <3>1. PICK i \in DOMAIN s : on = s[i]
      BY <1>3 DEF Range
    <3>2. QED
      BY <1>4, <1>6, <2>1, <3>1
  <2>2. QED
    BY <1>4, <1>6, <2>1
<1> HIDE DEF D
<1>11. ASSUME NEW r
       PROVE  r \in Range(Joined(seqs))
                 <=> \E on \in D : \E p \in Range(H[on]) : p.code # None /\ r \in Range(p.code.refs)
  BY <1>7, <1>9, <1>10
<1>12. \A r \in Range(Joined(seqs)) : IsRef(r)
  BY <1>7, <1>9, <1>10
<1>13. QED
  BY <1>1, <1>9, <1>11, <1>12, SMTT(40) DEF D, H

\* A visit of a view, and what an element of the view refers to.
IsVisit(x, view) ==
    /\ x = [view |-> x.view, element |-> x.element, ref |-> x.ref, inCode |-> x.inCode]
    /\ x.view = view /\ IsRef(x.ref)

Made(view, element) ==
    Range(References!SettingsOf(view, element)) \union Range(References!CodeOf(element))

\* The visits of a list of references.
AreVisits(s, view, element, inCode, refs) ==
    s = [i \in DOMAIN refs |-> [view |-> view, element |-> element, ref |-> refs[i],
                                inCode |-> inCode]]

LEMMA VisitsOf ==
    ASSUME NEW view, NEW element, NEW inCode, NEW refs, IsList(refs),
           \A r \in Range(refs) : IsRef(r),
           NEW s, AreVisits(s, view, element, inCode, refs)
    PROVE  /\ IsList(s)
           /\ \A x \in Range(s) : IsVisit(x, view) /\ x.element = element /\ x.ref \in Range(refs)
           /\ \A r \in Range(refs) : \E x \in Range(s) : x.ref = r
<1>1. s = [i \in DOMAIN refs |-> s[i]]
  BY DEF AreVisits
<1>2. IsList(s) /\ DOMAIN s = DOMAIN refs
  BY <1>1, ListMapped
<1>3. \A i \in DOMAIN refs : s[i] = [view |-> view, element |-> element, ref |-> refs[i],
                                     inCode |-> inCode]
  BY DEF AreVisits
<1>4. \A i \in DOMAIN refs : /\ IsVisit(s[i], view) /\ s[i].element = element
                             /\ s[i].ref = refs[i] /\ refs[i] \in Range(refs)
  <2>1. SUFFICES ASSUME NEW i \in DOMAIN refs
                 PROVE  /\ IsVisit(s[i], view) /\ s[i].element = element
                        /\ s[i].ref = refs[i] /\ refs[i] \in Range(refs)
    OBVIOUS
  <2>2. refs[i] \in Range(refs) /\ IsRef(refs[i])
    BY DEF Range
  <2> DEFINE x == s[i]
  <2>3. x = [view |-> view, element |-> element, ref |-> refs[i], inCode |-> inCode]
    BY <1>3
  <2> HIDE DEF x
  <2>4. IsVisit(x, view) /\ x.element = element /\ x.ref = refs[i]
    BY <2>2, <2>3 DEF IsVisit
  <2>5. QED
    BY <2>2, <2>4 DEF x
<1>5. QED
  BY <1>2, <1>4 DEF Range

LEMMA ElementVisits ==
    ASSUME NEW view, NEW element, IsElement(element)
    PROVE  /\ IsList(References!ScanElement(view, element))
           /\ \A x \in Range(References!ScanElement(view, element)) :
                 IsVisit(x, view) /\ x.element = element /\ x.ref \in Made(view, element)
           /\ \A r \in Made(view, element) :
                 \E x \in Range(References!ScanElement(view, element)) : x.ref = r
           /\ \A r \in Made(view, element) : IsRef(r)
<1> DEFINE A == References!SettingsOf(view, element)
           B == References!CodeOf(element)
           s == [i \in DOMAIN A |-> [view |-> view, element |-> element, ref |-> A[i],
                                     inCode |-> FALSE]]
           t == [i \in DOMAIN B |-> [view |-> view, element |-> element, ref |-> B[i],
                                     inCode |-> TRUE]]
<1>1. References!ScanElement(view, element) = s \o t
  BY DEF References!ScanElement
<1>2. /\ IsList(A) /\ \A r \in Range(A) : IsRef(r)
      /\ IsList(B) /\ \A r \in Range(B) : IsRef(r)
  BY SettingsAre, CodeIs
<1>3. Made(view, element) = Range(A) \union Range(B)
  BY DEF Made
<1> HIDE DEF A, B
<1>4. /\ IsList(s)
      /\ \A x \in Range(s) : IsVisit(x, view) /\ x.element = element /\ x.ref \in Range(A)
      /\ \A r \in Range(A) : \E x \in Range(s) : x.ref = r
  <2>1. AreVisits(s, view, element, FALSE, A)
    BY DEF AreVisits
  <2> HIDE DEF s
  <2>2. QED
    BY <1>2, <2>1, VisitsOf
<1>5. /\ IsList(t)
      /\ \A x \in Range(t) : IsVisit(x, view) /\ x.element = element /\ x.ref \in Range(B)
      /\ \A r \in Range(B) : \E x \in Range(t) : x.ref = r
  <2>1. AreVisits(t, view, element, TRUE, B)
    BY DEF AreVisits
  <2> HIDE DEF t
  <2>2. QED
    BY <1>2, <2>1, VisitsOf
<1> HIDE DEF s, t
<1>6. IsList(s \o t) /\ Range(s \o t) = Range(s) \union Range(t)
  BY <1>4, <1>5, ListJoin
<1>7. QED
  BY <1>1, <1>2, <1>3, <1>4, <1>5, <1>6

\* A view is visited for what its elements refer to.
LEMMA ViewVisits ==
    ASSUME NEW view, IsView(view)
    PROVE  /\ IsList(References!ScanView(view))
           /\ \A x \in Range(References!ScanView(view)) :
                 IsVisit(x, view) /\ \E e \in Range(view.layout) : x.ref \in Made(view, e)
           /\ \A e \in Range(view.layout) : \A r \in Made(view, e) :
                 IsRef(r) /\ \E x \in Range(References!ScanView(view)) : x.ref = r
<1> DEFINE L == view.layout
           seqs == [i \in DOMAIN L |-> References!ScanElement(view, L[i])]
<1>1. References!ScanView(view) = Joined(seqs)
  BY FlattenInReferences DEF References!ScanView, References!Each
<1>2. IsList(L) /\ \A e \in Range(L) : IsElement(e)
  BY DEF IsView
<1> HIDE DEF L
<1>3. /\ seqs = [i \in DOMAIN L |-> seqs[i]]
      /\ \A i \in DOMAIN L : seqs[i] = References!ScanElement(view, L[i]) /\ L[i] \in Range(L)
  BY DEF Range
<1> HIDE DEF seqs
<1>4. IsList(seqs) /\ DOMAIN seqs = DOMAIN L
  BY <1>2, <1>3, ListMapped
<1>5. ASSUME NEW i \in DOMAIN seqs
      PROVE  /\ IsList(seqs[i])
             /\ \A x \in Range(seqs[i]) : IsVisit(x, view) /\ x.ref \in Made(view, L[i])
             /\ \A r \in Made(view, L[i]) : IsRef(r) /\ \E x \in Range(seqs[i]) : x.ref = r
  <2>1. IsElement(L[i]) /\ seqs[i] = References!ScanElement(view, L[i])
    BY <1>2, <1>3, <1>4
  <2>2. QED
    BY <2>1, ElementVisits
<1>6. /\ IsList(Joined(seqs))
      /\ \A x : x \in Range(Joined(seqs)) <=> \E i \in DOMAIN seqs : x \in Range(seqs[i])
  BY <1>4, <1>5, FlattenHas
<1>7. \A x \in Range(Joined(seqs)) :
         IsVisit(x, view) /\ \E e \in Range(L) : x.ref \in Made(view, e)
  BY <1>3, <1>4, <1>5, <1>6
<1>8. ASSUME NEW e \in Range(L), NEW r \in Made(view, e)
      PROVE  IsRef(r) /\ \E x \in Range(Joined(seqs)) : x.ref = r
  <2>1. PICK i \in DOMAIN L : e = L[i]
    BY DEF Range
  <2>2. QED
    BY <1>4, <1>5, <1>6, <2>1
<1>9. QED
  BY <1>1, <1>6, <1>7, <1>8 DEF L

\* The views that are scanned are those with an id.
LEMMA KnownAre ==
    ASSUME NEW app, IsApplication(app)
    PROVE  /\ IsList(References!Known(app))
           /\ \A v : v \in Range(References!Known(app)) <=> v \in Range(app.views) /\ v.id # None
           /\ \A v \in Range(References!Known(app)) : IsView(v)
<1> DEFINE s == app.views
           keep == {i \in DOMAIN s : s[i].id # None}
           seqs == [i \in DOMAIN s |-> IF i \in keep THEN <<s[i]>> ELSE <<>>]
           raw == [i \in DOMAIN s |-> IF s[i].id # None THEN <<s[i]>> ELSE <<>>]
<1>1. References!Known(app) = Joined(raw)
  BY FlattenInReferences DEF References!Known, References!Where, References!Each, References!When
<1>2. IsList(s) /\ \A v \in Range(s) : IsView(v)
  BY DEF IsApplication
<1> HIDE DEF s
<1>3. raw = seqs /\ keep \subseteq DOMAIN s
  OBVIOUS
<1>4. seqs = [i \in DOMAIN s |-> IF i \in keep THEN <<s[i]>> ELSE <<>>]
  OBVIOUS
<1>5. \A v : (\E i \in keep : v = s[i]) <=> v \in Range(s) /\ v.id # None
  BY DEF Range
<1> HIDE DEF keep, seqs, raw
<1>6. IsPart(Joined(seqs), s, keep)
  BY <1>2, <1>3, <1>4, FilteredIs
<1>7. IsList(Joined(seqs)) /\ Range(Joined(seqs)) = {s[i] : i \in keep}
  BY <1>6, PartIs
<1>8. \A v : v \in Range(Joined(seqs)) <=> v \in Range(s) /\ v.id # None
  BY <1>5, <1>7
<1>9. QED
  BY <1>1, <1>2, <1>3, <1>7, <1>8 DEF s

LEMMA ReferencesAre ==
    ASSUME NEW view, IsView(view)
    PROVE  \A r : r \in References!References(view)
                     <=> \E e \in Range(view.layout) : r \in Made(view, e)
<1>1. References!References(view) = UNION {Made(view, view.layout[i]) : i \in DOMAIN view.layout}
  BY RangeInReferences DEF References!References, Made
<1>2. QED
  BY <1>1 DEF Range

\* The visits of an application, in their order.
VisitsOfAll(app) ==
    Joined([i \in DOMAIN References!Known(app) |->
                   References!ScanView(References!Known(app)[i])])

LEMMA VisitsAre ==
    ASSUME NEW app, IsApplication(app)
    PROVE  /\ IsList(VisitsOfAll(app))
           /\ \A x \in Range(VisitsOfAll(app)) : \E v \in Range(References!Known(app)) :
                 IsVisit(x, v) /\ x.ref \in References!References(v)
           /\ \A v \in Range(References!Known(app)) : \A r \in References!References(v) :
                 IsRef(r) /\ \E x \in Range(VisitsOfAll(app)) : IsVisit(x, v) /\ x.ref = r
<1> DEFINE L == References!Known(app)
           seqs == [i \in DOMAIN L |-> References!ScanView(L[i])]
<1>1. VisitsOfAll(app) = Joined(seqs)
  BY DEF VisitsOfAll
<1>2. IsList(L) /\ \A v \in Range(L) : IsView(v)
  BY KnownAre
<1> HIDE DEF L
<1>3. /\ seqs = [i \in DOMAIN L |-> seqs[i]]
      /\ \A i \in DOMAIN L : seqs[i] = References!ScanView(L[i]) /\ L[i] \in Range(L)
  BY DEF Range
<1> HIDE DEF seqs
<1>4. IsList(seqs) /\ DOMAIN seqs = DOMAIN L
  BY <1>2, <1>3, ListMapped
<1>5. ASSUME NEW i \in DOMAIN seqs
      PROVE  /\ IsList(seqs[i])
             /\ \A x \in Range(seqs[i]) : IsVisit(x, L[i]) /\ x.ref \in References!References(L[i])
             /\ \A r \in References!References(L[i]) :
                   IsRef(r) /\ \E x \in Range(seqs[i]) : IsVisit(x, L[i]) /\ x.ref = r
  <2>1. IsView(L[i]) /\ seqs[i] = References!ScanView(L[i])
    BY <1>2, <1>3, <1>4
  <2>2. /\ IsList(seqs[i])
        /\ \A x \in Range(seqs[i]) :
              IsVisit(x, L[i]) /\ \E e \in Range(L[i].layout) : x.ref \in Made(L[i], e)
        /\ \A e \in Range(L[i].layout) : \A r \in Made(L[i], e) :
              IsRef(r) /\ \E x \in Range(seqs[i]) : x.ref = r
    BY <2>1, ViewVisits
  <2>3. \A r : r \in References!References(L[i])
                  <=> \E e \in Range(L[i].layout) : r \in Made(L[i], e)
    BY <2>1, ReferencesAre
  <2>4. QED
    BY <2>2, <2>3
<1>6. /\ IsList(Joined(seqs))
      /\ \A x : x \in Range(Joined(seqs)) <=> \E i \in DOMAIN seqs : x \in Range(seqs[i])
  BY <1>4, <1>5, FlattenHas
<1>7. ASSUME NEW x \in Range(Joined(seqs))
      PROVE  \E v \in Range(L) : IsVisit(x, v) /\ x.ref \in References!References(v)
  <2>1. PICK i \in DOMAIN seqs : x \in Range(seqs[i])
    BY <1>6
  <2>2. L[i] \in Range(L) /\ IsVisit(x, L[i]) /\ x.ref \in References!References(L[i])
    BY <1>3, <1>4, <1>5, <2>1
  <2>3. QED
    BY <2>2
<1>8. ASSUME NEW v \in Range(L), NEW r \in References!References(v)
      PROVE  IsRef(r) /\ \E x \in Range(Joined(seqs)) : IsVisit(x, v) /\ x.ref = r
  <2>1. PICK i \in DOMAIN L : v = L[i]
    BY DEF Range
  <2>2. IsRef(r) /\ \E x \in Range(seqs[i]) : IsVisit(x, v) /\ x.ref = r
    BY <1>4, <1>5, <2>1
  <2>3. QED
    BY <1>4, <1>6, <2>1, <2>2
<1>9. QED
  BY <1>1, <1>6, <1>7, <1>8 DEF L

-----------------------------------------------------------------------------
(* The scan of an application.                                             *)

\* What tells a visit from another, whether it is reported, and as what.
Key(x) == References!KeyOf(x.view, x.ref)

Broken(app, x) == ~ References!Resolved(app, x.ref)

IssueOf(x) ==
    [type |-> References!IssueType(x.ref), view |-> x.view.id, element |-> x.element.id,
     target |-> x.ref.target, method |-> x.ref.method]

\* The issues are those of the first k visits, each key of a broken one once.
Witnesses(app, V, k, issues, w) ==
    /\ \A j \in DOMAIN issues : w[j] \in 1 .. k /\ Broken(app, V[w[j]])
                                /\ issues[j] = IssueOf(V[w[j]])
    /\ \A i, j \in DOMAIN issues : Key(V[w[i]]) = Key(V[w[j]]) => i = j
    /\ \A i \in 1 .. k : Broken(app, V[i])
                            => \E j \in DOMAIN issues : Key(V[w[j]]) = Key(V[i])

IsState(state) ==
    state = [issues |-> state.issues, seen |-> state.seen, usages |-> state.usages,
             protected |-> state.protected]

ScannedTo(app, V, k, state) ==
    /\ IsState(state) /\ state.protected = {}
    /\ \A y : y \in state.seen <=> \E i \in 1 .. k : y = Key(V[i])
    /\ IsList(state.issues) /\ \E w : Witnesses(app, V, k, state.issues, w)

\* Two visits that are reported alike are one reference of one view.
LEMMA SameIssue ==
    ASSUME NEW x, NEW y, IsRef(x.ref), IsRef(y.ref), IssueOf(x) = IssueOf(y)
    PROVE  Key(x) = Key(y)
<1> DEFINE r == x.ref
           s == y.ref
<1>1. /\ r = [kind |-> r.kind, target |-> r.target, method |-> r.method]
      /\ s = [kind |-> s.kind, target |-> s.target, method |-> s.method]
      /\ r.kind \in {"view", "endpoint", "element", "plugin"}
      /\ s.kind \in {"view", "endpoint", "element", "plugin"}
  BY DEF IsRef
<1>2. /\ References!IssueType(r) = References!IssueType(s) /\ x.view.id = y.view.id
      /\ r.target = s.target /\ r.method = s.method
  BY DEF IssueOf
<1> HIDE DEF r, s
<1>3. r.kind = s.kind
  BY <1>1, <1>2 DEF References!IssueType
<1>4. r = s
  BY <1>1, <1>2, <1>3
<1>5. QED
  BY <1>2, <1>4 DEF Key, References!KeyOf, r, s

LEMMA ListLonger ==
    ASSUME NEW s, IsList(s), NEW x
    PROVE  /\ IsList(Append(s, x)) /\ Len(s) \in Nat
           /\ DOMAIN s = 1 .. Len(s) /\ DOMAIN Append(s, x) = 1 .. Len(s) + 1
           /\ \A i \in 1 .. Len(s) : Append(s, x)[i] = s[i]
           /\ Append(s, x)[Len(s) + 1] = x
<1> DEFINE S == Range(s) \union {x}
           t == Append(s, x)
<1>1. s \in Seq(S)
  BY ListIn
<1>2. x \in S
  OBVIOUS
<1> HIDE DEF S
<1>3. /\ t \in Seq(S) /\ Len(t) = Len(s) + 1 /\ t[Len(s) + 1] = x
      /\ \A i \in 1 .. Len(s) : t[i] = s[i]
  BY <1>1, <1>2
<1> HIDE DEF t
<1>4. IsList(t) /\ DOMAIN t = 1 .. Len(t)
  BY <1>3, ListOf, ListIs
<1>5. QED
  BY <1>3, <1>4, ListIs DEF t

\* What is found under a name is found under it in whichever case it is written.
LEMMA SameBroken ==
    ASSUME NEW app, NEW x, NEW y, IsRef(x.ref), IsRef(y.ref), Key(x) = Key(y)
    PROVE  Broken(app, x) <=> Broken(app, y)
<1> DEFINE r == x.ref
           s == y.ref
           lower(q) == IF q.kind \in {"view", "element"} THEN [q EXCEPT !.target = Lower[q.target]] ELSE q
<1>1. /\ r = [kind |-> r.kind, target |-> r.target, method |-> r.method]
      /\ s = [kind |-> s.kind, target |-> s.target, method |-> s.method]
      /\ r.kind \in {"view", "endpoint", "element", "plugin"}
      /\ s.kind \in {"view", "endpoint", "element", "plugin"}
  BY DEF IsRef
<1>2. lower(r) = lower(s)
  BY DEF Key, References!KeyOf
<1>3. Broken(app, x) <=> ~ References!Resolved(app, r)
  BY DEF Broken
<1>4. Broken(app, y) <=> ~ References!Resolved(app, s)
  BY DEF Broken
<1> HIDE DEF r, s
<1>5. lower(r).kind = r.kind /\ lower(s).kind = s.kind
      /\ lower(r).method = r.method /\ lower(s).method = s.method
  BY <1>1
<1>6. /\ r.kind \in {"view", "element"} => lower(r).target = Lower[r.target]
      /\ r.kind \notin {"view", "element"} => lower(r).target = r.target
      /\ s.kind \in {"view", "element"} => lower(s).target = Lower[s.target]
      /\ s.kind \notin {"view", "element"} => lower(s).target = s.target
  BY <1>1
<1> HIDE DEF lower
<1>7. /\ r.kind = s.kind /\ r.method = s.method
      /\ r.kind \in {"view", "element"} => Lower[r.target] = Lower[s.target]
      /\ r.kind \notin {"view", "element"} => r.target = s.target
  BY <1>2, <1>5, <1>6
<1>8. References!Resolved(app, r) <=> References!Resolved(app, s)
  BY <1>1, <1>7 DEF References!Resolved
<1>9. QED
  BY <1>3, <1>4, <1>8

LEMMA Longer ==
    ASSUME NEW state, IsState(state), NEW y
    PROVE  LET long == [state EXCEPT !.issues = Append(@, y)] IN
           /\ IsState(long) /\ long.issues = Append(state.issues, y)
           /\ long.seen = state.seen /\ long.protected = state.protected
<1> DEFINE all == Append(state.issues, y)
           long == [state EXCEPT !.issues = all]
<1> HIDE DEF all
<1>1. /\ IsState(long) /\ long.issues = all
      /\ long.seen = state.seen /\ long.protected = state.protected
  BY DEF IsState
<1>2. QED
  BY <1>1 DEF all

\* What Refer makes of a state.
LEMMA Referred ==
    ASSUME NEW app, NEW x, NEW state, IsState(state)
    PROVE  LET new == References!Refer(app, x, state) IN
           /\ IsState(new) /\ new.protected = state.protected
           /\ new.seen = state.seen \union {Key(x)}
           /\ new.issues = IF \/ Key(x) \in state.seen \/ ~ Broken(app, x)
                              \/ IssueOf(x) \in Range(state.issues)
                           THEN state.issues ELSE Append(state.issues, IssueOf(x))
<1> DEFINE after == References!RecordUsage(app, x.view, x.ref, x.inCode, state)
           seen == [after EXCEPT !.seen = @ \union {Key(x)}]
           recorded == References!RecordIssue(seen, IssueOf(x))
           new == References!Refer(app, x, state)
<1>1. /\ IsState(after) /\ after.issues = state.issues /\ after.seen = state.seen
      /\ after.protected = state.protected
  <2> DEFINE more(S) == [state EXCEPT !.usages = @ \union S]
  <2>1. \E S : after = state \/ after = more(S)
    BY DEF References!RecordUsage
  <2>2. ASSUME NEW S
        PROVE  /\ IsState(more(S)) /\ more(S).issues = state.issues
               /\ more(S).seen = state.seen /\ more(S).protected = state.protected
    BY SMTT(40) DEF IsState
  <2> HIDE DEF after, more
  <2>3. QED
    BY <2>1, <2>2, SMTT(40)
<1>2. new = IF Key(x) \in state.seen \/ ~ Broken(app, x) THEN seen ELSE recorded
  BY DEF References!Refer, Key, Broken, IssueOf
<1> HIDE DEF after, new
<1>3. /\ IsState(seen) /\ seen.issues = state.issues
      /\ seen.seen = state.seen \union {Key(x)} /\ seen.protected = state.protected
  BY <1>1 DEF IsState
<1> HIDE DEF seen
<1>4. recorded = IF IssueOf(x) \in Range(state.issues) THEN seen
                 ELSE [seen EXCEPT !.issues = Append(@, IssueOf(x))]
  BY <1>3, RangeInReferences DEF References!RecordIssue
<1> HIDE DEF recorded
<1> DEFINE long == [seen EXCEPT !.issues = Append(@, IssueOf(x))]
<1>5. /\ IsState(long) /\ long.issues = Append(state.issues, IssueOf(x))
      /\ long.seen = seen.seen /\ long.protected = seen.protected
  BY <1>3, Longer
<1> HIDE DEF long
<1>6. recorded = IF IssueOf(x) \in Range(state.issues) THEN seen ELSE long
  BY <1>4 DEF long
<1>7. CASE Key(x) \in state.seen \/ ~ Broken(app, x)
  BY <1>2, <1>3, <1>7 DEF new
<1>8. CASE ~ (Key(x) \in state.seen \/ ~ Broken(app, x)) /\ IssueOf(x) \in Range(state.issues)
  BY <1>2, <1>3, <1>6, <1>8 DEF new
<1>9. CASE ~ (Key(x) \in state.seen \/ ~ Broken(app, x)) /\ IssueOf(x) \notin Range(state.issues)
  BY <1>2, <1>3, <1>5, <1>6, <1>9 DEF new
<1>10. QED
  BY <1>7, <1>8, <1>9

\* A visit more.
LEMMA ScanGrows ==
    ASSUME NEW app, NEW V, NEW k \in Nat, NEW state, ScannedTo(app, V, k, state),
           \A i \in 1 .. k + 1 : IsRef(V[i].ref)
    PROVE  ScannedTo(app, V, k + 1, References!Refer(app, V[k + 1], state))
<1> DEFINE x == V[k + 1]
           new == References!Refer(app, x, state)
           S == state.issues
           n == Len(S)
<1>1. /\ IsState(state) /\ state.protected = {} /\ IsList(S)
      /\ \A y : y \in state.seen <=> \E i \in 1 .. k : y = Key(V[i])
  BY DEF ScannedTo
<1>2. PICK w : Witnesses(app, V, k, S, w)
  BY DEF ScannedTo
<1>3. /\ IsState(new) /\ new.protected = {} /\ new.seen = state.seen \union {Key(x)}
      /\ new.issues = IF \/ Key(x) \in state.seen \/ ~ Broken(app, x) \/ IssueOf(x) \in Range(S)
                      THEN S ELSE Append(S, IssueOf(x))
  BY <1>1, Referred
<1> HIDE DEF new
<1>4. /\ \A i : i \in 1 .. k + 1 <=> i \in 1 .. k \/ i = k + 1
      /\ k + 1 \notin 1 .. k /\ k + 1 \in 1 .. k + 1
  OBVIOUS
<1>5. \A y : y \in new.seen <=> \E i \in 1 .. k + 1 : y = Key(V[i])
  <2>1. SUFFICES ASSUME NEW y PROVE y \in new.seen <=> \E i \in 1 .. k + 1 : y = Key(V[i])
    OBVIOUS
  <2>2. y \in new.seen <=> y \in state.seen \/ y = Key(x)
    BY <1>3
  <2>3. QED
    BY <1>1, <1>4, <2>2
<1>6. /\ \A j \in DOMAIN S : w[j] \in 1 .. k /\ Broken(app, V[w[j]]) /\ S[j] = IssueOf(V[w[j]])
      /\ \A i, j \in DOMAIN S : Key(V[w[i]]) = Key(V[w[j]]) => i = j
      /\ \A i \in 1 .. k : Broken(app, V[i]) => \E j \in DOMAIN S : Key(V[w[j]]) = Key(V[i])
  BY <1>2 DEF Witnesses
<1>7. CASE Key(x) \in state.seen \/ ~ Broken(app, x)
  <2>1. new.issues = S
    BY <1>3, <1>7
  <2>2. \A i \in 1 .. k + 1 : Broken(app, V[i]) => \E j \in DOMAIN S : Key(V[w[j]]) = Key(V[i])
    <3>1. SUFFICES ASSUME NEW i \in 1 .. k + 1, Broken(app, V[i])
                   PROVE  \E j \in DOMAIN S : Key(V[w[j]]) = Key(V[i])
      OBVIOUS
    <3>2. CASE i \in 1 .. k
      BY <1>6, <3>1, <3>2
    <3>3. CASE i = k + 1
      <4>1. Key(x) \in state.seen
        BY <1>7, <3>1, <3>3
      <4>2. PICK j \in 1 .. k : Key(x) = Key(V[j])
        BY <1>1, <4>1
      <4>3. Broken(app, V[j])
        BY <3>1, <3>3, <4>2, SameBroken
      <4>4. QED
        BY <1>6, <3>3, <4>2, <4>3
    <3>4. QED
      BY <1>4, <3>2, <3>3
  <2>3. Witnesses(app, V, k + 1, S, w)
    BY <1>4, <1>6, <2>2 DEF Witnesses
  <2>4. QED
    BY <1>1, <1>3, <1>5, <2>1, <2>3 DEF ScannedTo, new
<1>8. CASE Key(x) \notin state.seen /\ Broken(app, x)
  <2>1. IssueOf(x) \notin Range(S)
    <3>1. SUFFICES ASSUME IssueOf(x) \in Range(S) PROVE FALSE
      OBVIOUS
    <3>2. PICK j \in DOMAIN S : IssueOf(x) = S[j]
      BY <3>1 DEF Range
    <3>3. w[j] \in 1 .. k /\ IssueOf(x) = IssueOf(V[w[j]])
      BY <1>6, <3>2
    <3>4. IsRef(x.ref) /\ IsRef(V[w[j]].ref)
      BY <1>4, <3>3
    <3>5. Key(x) = Key(V[w[j]])
      BY <3>3, <3>4, SameIssue
    <3>6. QED
      BY <1>1, <1>8, <3>3, <3>5
  <2> DEFINE T == Append(S, IssueOf(x))
             u == [j \in 1 .. n + 1 |-> IF j = n + 1 THEN k + 1 ELSE w[j]]
  <2>2. new.issues = T
    BY <1>3, <1>8, <2>1
  <2>3. /\ IsList(T) /\ n \in Nat /\ DOMAIN S = 1 .. n /\ DOMAIN T = 1 .. n + 1
        /\ \A i \in 1 .. n : T[i] = S[i]
        /\ T[n + 1] = IssueOf(x)
    BY <1>1, ListLonger
  <2> HIDE DEF T, n
  <2>4. \A j : j \in 1 .. n + 1 <=> j \in 1 .. n \/ j = n + 1
    BY <2>3
  <2>5. n + 1 \notin 1 .. n /\ u[n + 1] = k + 1 /\ \A j \in 1 .. n : u[j] = w[j]
    BY <2>3
  <2> HIDE DEF u
  <2>6. \A j \in 1 .. n + 1 : u[j] \in 1 .. k + 1 /\ Broken(app, V[u[j]]) /\ T[j] = IssueOf(V[u[j]])
    BY <1>4, <1>6, <1>8, <2>3, <2>4, <2>5
  <2>7. \A j \in 1 .. n : Key(V[w[j]]) # Key(x)
    BY <1>1, <1>6, <1>8, <2>3
  <2>8. \A i, j \in 1 .. n + 1 : Key(V[u[i]]) = Key(V[u[j]]) => i = j
    BY <1>6, <2>3, <2>4, <2>5, <2>7, SMTT(40)
  <2>9. \A i \in 1 .. k + 1 : Broken(app, V[i]) => \E j \in 1 .. n + 1 : Key(V[u[j]]) = Key(V[i])
    <3>1. SUFFICES ASSUME NEW i \in 1 .. k + 1, Broken(app, V[i])
                   PROVE  \E j \in 1 .. n + 1 : Key(V[u[j]]) = Key(V[i])
      OBVIOUS
    <3>2. CASE i \in 1 .. k
      <4>1. PICK j \in 1 .. n : Key(V[w[j]]) = Key(V[i])
        BY <1>6, <2>3, <3>1, <3>2
      <4>2. j \in 1 .. n + 1 /\ u[j] = w[j]
        BY <2>4, <2>5
      <4>3. QED
        BY <4>1, <4>2
    <3>3. CASE i = k + 1
      BY <2>4, <2>5, <3>3
    <3>4. QED
      BY <1>4, <3>2, <3>3
  <2>10. Witnesses(app, V, k + 1, T, u)
    BY <2>3, <2>6, <2>8, <2>9 DEF Witnesses
  <2>11. QED
    BY <1>1, <1>3, <1>5, <2>2, <2>3, <2>10 DEF ScannedTo, new
<1>9. QED
  BY <1>7, <1>8

\* The scan goes through all the visits.
LEMMA ScanIs ==
    ASSUME NEW app, IsApplication(app)
    PROVE  ScannedTo(app, VisitsOfAll(app), Len(VisitsOfAll(app)), References!Scanned(app))
<1> DEFINE V == VisitsOfAll(app)
           n == Len(V)
           IsRun(g, k) == g = [i \in 0 .. k |-> IF i = 0 THEN References!Nothing
                                                ELSE References!Refer(app, V[i], g[i - 1])]
           runs == {k \in 0 .. n : \E g : IsRun(g, k)}
           h == CHOOSE g : IsRun(g, n)
           scans == {k \in 0 .. n : ScannedTo(app, V, k, h[k])}
<1>1. IsList(V) /\ \A x \in Range(V) : IsRef(x.ref)
  BY VisitsAre DEF IsVisit
<1>2. References!Scanned(app) = h[n]
  BY FlattenInReferences DEF References!Scanned, References!Each, VisitsOfAll
<1> HIDE DEF V
<1>3. n \in Nat /\ \A i \in 1 .. n : IsRef(V[i].ref)
  BY <1>1, ListIs
<1>4. n \in runs
  <2>1. 0 \in runs
    <3> DEFINE g == [i \in 0 .. 0 |-> References!Nothing]
    <3>1. IsRun(g, 0)
      <4>1. \A i \in 0 .. 0 : g[i] = IF i = 0 THEN References!Nothing
                                     ELSE References!Refer(app, V[i], g[i - 1])
        OBVIOUS
      <4>2. g = [i \in 0 .. 0 |-> g[i]]
        OBVIOUS
      <4> HIDE DEF g
      <4>3. QED
        BY <4>1, <4>2
    <3> HIDE DEF IsRun
    <3>2. QED
      BY <1>3, <3>1
  <2>2. ASSUME NEW k \in 0 .. n, k # n, k \in runs
        PROVE  k + 1 \in runs
    <3>1. PICK g : IsRun(g, k)
      BY <2>2
    <3> DEFINE g2 == [i \in 0 .. k + 1 |-> IF i <= k THEN g[i] ELSE References!Refer(app, V[i], g[i - 1])]
    <3>2. \A i \in 0 .. k + 1 : g2[i] = IF i = 0 THEN References!Nothing
                                        ELSE References!Refer(app, V[i], g2[i - 1])
      <4>1. SUFFICES ASSUME NEW i \in 0 .. k + 1
                     PROVE  g2[i] = IF i = 0 THEN References!Nothing
                                    ELSE References!Refer(app, V[i], g2[i - 1])
        OBVIOUS
      <4>2. i # 0 => i - 1 \in 0 .. k + 1 /\ i - 1 <= k
        OBVIOUS
      <4>3. i # 0 => g2[i - 1] = g[i - 1]
        BY <4>2
      <4>4. CASE i <= k
        <5>1. i \in 0 .. k /\ g2[i] = g[i]
          BY <4>4
        <5>2. g[i] = IF i = 0 THEN References!Nothing ELSE References!Refer(app, V[i], g[i - 1])
          BY <3>1, <5>1
        <5> HIDE DEF g2
        <5>3. QED
          BY <4>3, <5>1, <5>2
      <4>5. CASE ~ (i <= k)
        <5>1. g2[i] = References!Refer(app, V[i], g[i - 1]) /\ i # 0
          BY <4>5
        <5> HIDE DEF g2
        <5>2. QED
          BY <4>3, <5>1
      <4>6. QED
        BY <4>4, <4>5
    <3>3. g2 = [i \in 0 .. k + 1 |-> g2[i]]
      OBVIOUS
    <3> HIDE DEF g2
    <3>4. IsRun(g2, k + 1)
      BY <3>2, <3>3
    <3> HIDE DEF IsRun
    <3>5. k + 1 \in 0 .. n
      <4> HIDE DEF n, runs
      <4> QED BY <1>3, <2>2
    <3>6. \E f : IsRun(f, k + 1)
      BY <3>4
    <3>7. QED
      BY <3>5, <3>6
  <2> HIDE DEF runs, n
  <2>3. \A k \in 0 .. n : k \in runs
    BY <1>3, <2>1, <2>2, UpTo
  <2>4. QED
    BY <1>3, <2>3
<1>5. IsRun(h, n)
  <2> HIDE DEF IsRun
  <2> QED BY <1>4
<1>6. \A i \in 0 .. n : h[i] = IF i = 0 THEN References!Nothing
                               ELSE References!Refer(app, V[i], h[i - 1])
  <2> HIDE DEF h
  <2> QED BY <1>5
<1> HIDE DEF h, IsRun, runs, n
<1>7. 0 \in scans
  <2> DEFINE none == References!Nothing
  <2>1. /\ IsState(none) /\ none.protected = {} /\ none.seen = {} /\ none.issues = <<>>
    BY DEF References!Nothing, IsState
  <2>2. IsList(<<>>) /\ \A j \in DOMAIN <<>> : FALSE
    BY DEF IsList
  <2> DEFINE empty == <<>>
  <2> HIDE DEF empty
  <2>3. Witnesses(app, V, 0, empty, empty)
    BY <2>2 DEF Witnesses, empty
  <2> HIDE DEF none
  <2>4. ScannedTo(app, V, 0, none)
    BY <2>1, <2>2, <2>3 DEF ScannedTo, empty
  <2>5. h[0] = none
    BY <1>3, <1>6 DEF none
  <2>6. QED
    BY <1>3, <2>4, <2>5
<1>8. ASSUME NEW k \in 0 .. n, k # n, k \in scans
      PROVE  k + 1 \in scans
  <2>1. k \in Nat /\ k + 1 \in 0 .. n /\ k + 1 # 0 /\ (k + 1) - 1 = k /\ ScannedTo(app, V, k, h[k])
    BY <1>3, <1>8
  <2>2. \A i \in 1 .. k + 1 : IsRef(V[i].ref)
    BY <1>3, <2>1
  <2>3. h[k + 1] = References!Refer(app, V[k + 1], h[k])
    BY <1>6, <2>1
  <2>4. ScannedTo(app, V, k + 1, h[k + 1])
    BY <2>1, <2>2, <2>3, ScanGrows
  <2>5. QED
    BY <2>1, <2>4
<1> HIDE DEF scans
<1>9. \A k \in 0 .. n : k \in scans
  BY <1>3, <1>7, <1>8, UpTo
<1>10. n \in scans
  BY <1>3, <1>9
<1>11. QED
  BY <1>2, <1>10 DEF scans, V, n

\* Nothing is protected, so the check of the headers adds nothing.
LEMMA HeadersAre ==
    ASSUME NEW app, IsApplication(app), NEW state, state.protected = {}
    PROVE  References!CheckHeaders(app, state) = state
<1> DEFINE C == app.controllers
           n == Len(C)
           f == [i \in 0 .. n |-> state]
           IsRun(g) == g = [i \in 0 .. n |-> IF i = 0 THEN state
                                             ELSE References!CheckController(C[i], g[i - 1])]
           h == CHOOSE g : IsRun(g)
           same == {k \in 0 .. n : h[k] = state}
<1>1. \A c : References!CheckController(c, state) = state
  BY DEF References!CheckController
<1>2. References!CheckHeaders(app, state) = h[n]
  BY DEF References!CheckHeaders
<1>3. n \in Nat
  BY ListIs DEF IsApplication
<1> HIDE DEF C
<1>4. IsRun(f)
  <2>1. \A i \in 0 .. n : f[i] = IF i = 0 THEN state
                                 ELSE References!CheckController(C[i], f[i - 1])
    <3>1. SUFFICES ASSUME NEW i \in 0 .. n
                   PROVE  f[i] = IF i = 0 THEN state
                                 ELSE References!CheckController(C[i], f[i - 1])
      OBVIOUS
    <3>2. i # 0 => i - 1 \in 0 .. n
      BY <1>3
    <3>3. QED
      BY <1>1, <3>2
  <2>2. f = [i \in 0 .. n |-> f[i]]
    OBVIOUS
  <2> HIDE DEF f
  <2>3. QED
    BY <2>1, <2>2
<1>5. IsRun(h)
  <2> HIDE DEF IsRun
  <2> QED BY <1>4
<1> HIDE DEF h, n
<1>6. \A i \in 0 .. n : h[i] = IF i = 0 THEN state
                               ELSE References!CheckController(C[i], h[i - 1])
  BY <1>5
<1>7. 0 \in same
  BY <1>3, <1>6
<1>8. ASSUME NEW k \in 0 .. n, k # n, k \in same
      PROVE  k + 1 \in same
  <2>1. k + 1 \in 0 .. n /\ k + 1 # 0 /\ (k + 1) - 1 = k /\ h[k] = state
    BY <1>3, <1>8
  <2>2. h[k + 1] = References!CheckController(C[k + 1], h[k])
    BY <1>6, <2>1
  <2>3. QED
    BY <1>1, <2>1, <2>2
<1> HIDE DEF same
<1>9. \A k \in 0 .. n : k \in same
  BY <1>3, <1>7, <1>8, UpTo
<1>10. n \in same
  BY <1>3, <1>9
<1>11. QED
  BY <1>2, <1>10 DEF same

-----------------------------------------------------------------------------
(* The diagnosis of an application.                                        *)

\* All the issues, before those of elements are left out.
All(app) == References!CheckHeaders(app, References!Scanned(app)).issues

LEMMA AllAre ==
    ASSUME NEW app, IsApplication(app)
    PROVE  /\ IsList(All(app))
           /\ \E w : Witnesses(app, VisitsOfAll(app), Len(VisitsOfAll(app)), All(app), w)
<1> DEFINE state == References!Scanned(app)
<1>1. ScannedTo(app, VisitsOfAll(app), Len(VisitsOfAll(app)), state)
  BY ScanIs
<1> HIDE DEF state
<1>2. References!CheckHeaders(app, state) = state
  BY <1>1, HeadersAre DEF ScannedTo
<1>3. All(app) = state.issues
  BY <1>2 DEF All, state
<1>4. QED
  BY <1>1, <1>3 DEF ScannedTo

\* How the diagnosis tells an issue from another.
IssueKey(i) ==
    <<i.view, i.type, IF i.type = "missing-target-view" THEN Lower[i.target] ELSE i.target, i.method>>

\* Two visits of references that are not to elements are told apart as their
\* issues are.
LEMMA KeysAre ==
    ASSUME NEW x, NEW y, IsRef(x.ref), IsRef(y.ref),
           x.ref.kind # "element", y.ref.kind # "element"
    PROVE  Key(x) = Key(y) <=> IssueKey(IssueOf(x)) = IssueKey(IssueOf(y))
<1> DEFINE r == x.ref
           s == y.ref
           lower(q) == IF q.kind \in {"view", "element"} THEN [q EXCEPT !.target = Lower[q.target]] ELSE q
           target(q) == IF q.kind = "view" THEN Lower[q.target] ELSE q.target
<1>1. /\ r = [kind |-> r.kind, target |-> r.target, method |-> r.method]
      /\ s = [kind |-> s.kind, target |-> s.target, method |-> s.method]
      /\ r.kind \in {"view", "endpoint", "plugin"} /\ s.kind \in {"view", "endpoint", "plugin"}
  BY DEF IsRef
<1>2. Key(x) = <<x.view.id, lower(r)>> /\ Key(y) = <<y.view.id, lower(s)>>
  BY DEF Key, References!KeyOf
<1>3. /\ IssueOf(x).view = x.view.id /\ IssueOf(x).type = References!IssueType(r)
      /\ IssueOf(x).target = r.target /\ IssueOf(x).method = r.method
      /\ IssueOf(y).view = y.view.id /\ IssueOf(y).type = References!IssueType(s)
      /\ IssueOf(y).target = s.target /\ IssueOf(y).method = s.method
  BY DEF IssueOf
<1> HIDE DEF r, s
<1>4. /\ References!IssueType(r) = References!IssueType(s) <=> r.kind = s.kind
      /\ References!IssueType(r) = "missing-target-view" <=> r.kind = "view"
      /\ References!IssueType(s) = "missing-target-view" <=> s.kind = "view"
  BY <1>1 DEF References!IssueType
<1>5. /\ IssueKey(IssueOf(x)) = <<x.view.id, References!IssueType(r), target(r), r.method>>
      /\ IssueKey(IssueOf(y)) = <<y.view.id, References!IssueType(s), target(s), s.method>>
  BY <1>3, <1>4 DEF IssueKey
<1>6. /\ lower(r) = [kind |-> r.kind, target |-> target(r), method |-> r.method]
      /\ lower(s) = [kind |-> s.kind, target |-> target(s), method |-> s.method]
  <2>1. ASSUME NEW q, q = [kind |-> q.kind, target |-> q.target, method |-> q.method],
               q.kind \in {"view", "endpoint", "plugin"}
        PROVE  lower(q) = [kind |-> q.kind, target |-> target(q), method |-> q.method]
    BY <2>1
  <2> HIDE DEF lower, target
  <2>2. QED
    BY <1>1, <2>1
<1> HIDE DEF lower, target
<1>7. lower(r) = lower(s) <=> r.kind = s.kind /\ target(r) = target(s) /\ r.method = s.method
  BY <1>6
<1>8. QED
  BY <1>2, <1>4, <1>5, <1>7

\* The issues of the diagnosis.
Shown(app) == References!diagnose(app).issues

Diagnosed(app, V, n, kept, u) ==
    /\ \A x \in DOMAIN kept : /\ u[x] \in 1 .. n /\ Broken(app, V[u[x]])
                              /\ V[u[x]].ref.kind # "element" /\ kept[x] = IssueOf(V[u[x]])
    /\ \A x, y \in DOMAIN kept : Key(V[u[x]]) = Key(V[u[y]]) => x = y
    /\ \A i \in 1 .. n : Broken(app, V[i]) /\ V[i].ref.kind # "element"
                            => \E x \in DOMAIN kept : Key(V[u[x]]) = Key(V[i])

LEMMA SameKind ==
    ASSUME NEW x, NEW y, IsRef(x.ref), IsRef(y.ref), Key(x) = Key(y)
    PROVE  x.ref.kind = y.ref.kind
<1> DEFINE r == x.ref
           s == y.ref
           lower(q) == IF q.kind \in {"view", "element"} THEN [q EXCEPT !.target = Lower[q.target]] ELSE q
<1>1. /\ r = [kind |-> r.kind, target |-> r.target, method |-> r.method]
      /\ s = [kind |-> s.kind, target |-> s.target, method |-> s.method]
  BY DEF IsRef
<1>2. lower(r) = lower(s)
  BY DEF Key, References!KeyOf
<1> HIDE DEF r, s
<1>3. lower(r).kind = r.kind /\ lower(s).kind = s.kind
  BY <1>1
<1> HIDE DEF lower
<1>4. r.kind = s.kind
  BY <1>2, <1>3
<1>5. QED
  BY <1>4 DEF r, s

LEMMA KeptAre ==
    ASSUME NEW app, IsApplication(app)
    PROVE  /\ IsList(Shown(app))
           /\ \E u : Diagnosed(app, VisitsOfAll(app), Len(VisitsOfAll(app)), Shown(app), u)
<1> DEFINE V == VisitsOfAll(app)
           n == Len(V)
           s == All(app)
           t == Shown(app)
           keep == {i \in DOMAIN s : s[i].type # "missing-element-reference"}
           seqs == [i \in DOMAIN s |-> IF i \in keep THEN <<s[i]>> ELSE <<>>]
           raw == [i \in DOMAIN s |->
                      IF s[i].type # "missing-element-reference" THEN <<s[i]>> ELSE <<>>]
<1>1. t = Joined(raw)
  BY FlattenInReferences
     DEF Shown, All, References!diagnose, References!Where, References!Each, References!When
<1>2. IsList(s) /\ \E w : Witnesses(app, V, n, s, w)
  BY AllAre
<1>3. \A i \in 1 .. n : IsRef(V[i].ref)
  <2>1. IsList(V) /\ \A x \in Range(V) : IsRef(x.ref)
    BY VisitsAre DEF IsVisit
  <2> HIDE DEF V
  <2>2. QED
    BY <2>1, ListIs
<1> HIDE DEF V, n, s, t
<1>4. raw = seqs /\ keep \subseteq DOMAIN s
  OBVIOUS
<1>5. seqs = [i \in DOMAIN s |-> IF i \in keep THEN <<s[i]>> ELSE <<>>]
  OBVIOUS
<1>6. \A i : i \in keep <=> i \in DOMAIN s /\ s[i].type # "missing-element-reference"
  OBVIOUS
<1> HIDE DEF raw, seqs, keep
<1>7. IsPart(t, s, keep)
  BY <1>1, <1>2, <1>4, <1>5, FilteredIs
<1>8. IsList(t)
  BY <1>7 DEF IsPart
<1>9. PICK m : OneToOne(m, DOMAIN t, keep) /\ \A x \in DOMAIN t : t[x] = s[m[x]]
  BY <1>7 DEF IsPart
<1>10. PICK w : Witnesses(app, V, n, s, w)
  BY <1>2
<1>11. /\ \A j \in DOMAIN s : w[j] \in 1 .. n /\ Broken(app, V[w[j]]) /\ s[j] = IssueOf(V[w[j]])
       /\ \A i, j \in DOMAIN s : Key(V[w[i]]) = Key(V[w[j]]) => i = j
       /\ \A i \in 1 .. n : Broken(app, V[i]) => \E j \in DOMAIN s : Key(V[w[j]]) = Key(V[i])
  BY <1>10 DEF Witnesses
<1>12. ASSUME NEW i \in 1 .. n
       PROVE  IssueOf(V[i]).type # "missing-element-reference" <=> V[i].ref.kind # "element"
  <2>1. IsRef(V[i].ref)
    BY <1>3
  <2> DEFINE x == V[i]
  <2> HIDE DEF x
  <2>2. IsRef(x.ref) => (IssueOf(x).type # "missing-element-reference" <=> x.ref.kind # "element")
    BY DEF IsRef, IssueOf, References!IssueType
  <2>3. QED
    BY <2>1, <2>2 DEF x
<1> DEFINE u == [x \in DOMAIN t |-> w[m[x]]]
<1>13. \A x \in DOMAIN t : m[x] \in keep /\ m[x] \in DOMAIN s /\ u[x] = w[m[x]]
  BY <1>6, <1>9 DEF OneToOne
<1> HIDE DEF u
<1>14. \A x \in DOMAIN t : /\ u[x] \in 1 .. n /\ Broken(app, V[u[x]])
                           /\ V[u[x]].ref.kind # "element" /\ t[x] = IssueOf(V[u[x]])
  <2>1. SUFFICES ASSUME NEW x \in DOMAIN t
                 PROVE  /\ u[x] \in 1 .. n /\ Broken(app, V[u[x]])
                        /\ V[u[x]].ref.kind # "element" /\ t[x] = IssueOf(V[u[x]])
    OBVIOUS
  <2>2. u[x] \in 1 .. n /\ Broken(app, V[u[x]]) /\ s[m[x]] = IssueOf(V[u[x]])
    BY <1>11, <1>13
  <2>3. t[x] = s[m[x]] /\ s[m[x]].type # "missing-element-reference"
    BY <1>6, <1>9, <1>13
  <2>4. QED
    BY <1>12, <2>2, <2>3
<1>15. \A x, y \in DOMAIN t : Key(V[u[x]]) = Key(V[u[y]]) => x = y
  <2>1. \A x, y \in DOMAIN t : Key(V[u[x]]) = Key(V[u[y]]) => m[x] = m[y]
    BY <1>11, <1>13
  <2>2. QED
    BY <1>9, <2>1 DEF OneToOne
<1>16. ASSUME NEW i \in 1 .. n, Broken(app, V[i]), V[i].ref.kind # "element"
       PROVE  \E x \in DOMAIN t : Key(V[u[x]]) = Key(V[i])
  <2>1. PICK j \in DOMAIN s : Key(V[w[j]]) = Key(V[i])
    BY <1>11, <1>16
  <2>2. w[j] \in 1 .. n /\ s[j] = IssueOf(V[w[j]])
    BY <1>11
  <2>3. V[w[j]].ref.kind # "element"
    BY <1>3, <1>16, <2>1, <2>2, SameKind
  <2>4. j \in keep
    BY <1>6, <1>12, <2>2, <2>3
  <2>5. PICK x \in DOMAIN t : m[x] = j
    BY <1>9, <2>4 DEF OneToOne
  <2>6. QED
    BY <1>13, <2>1, <2>5
<1>17. Diagnosed(app, V, n, t, u)
  BY <1>14, <1>15, <1>16 DEF Diagnosed
<1>18. QED
  BY <1>8, <1>17 DEF V, n, t

\* The views of the diagnosis share its issues out.
LEMMA ViewsShare ==
    ASSUME NEW app, IsApplication(app)
    PROVE  Len(Shown(app)) = References!SumFunction(
              [v \in DOMAIN References!diagnose(app).views |-> Len(References!diagnose(app).views[v])])
<1> DEFINE t == Shown(app)
           names == {t[i].view : i \in DOMAIN t}
           of(v) == References!Where(t, LAMBDA i : i.view = v)
           views == References!diagnose(app).views
           key == [i \in DOMAIN t |-> t[i].view]
           K == {key[i] : i \in DOMAIN t}
           g == [v \in DOMAIN views |-> Len(views[v])]
<1>1. IsList(t) /\ IsFiniteSet(DOMAIN t)
  BY KeptAre, ListIs
<1>2. views = [v \in names |-> of(v)]
  BY DEF Shown, References!diagnose
<1> HIDE DEF t
<1>3. K = names
  OBVIOUS
<1>4. ASSUME NEW v
      PROVE  Len(of(v)) = Cardinality(Having(DOMAIN t, key, v))
  <2> DEFINE keep == {i \in DOMAIN t : t[i].view = v}
             seqs == [i \in DOMAIN t |-> IF i \in keep THEN <<t[i]>> ELSE <<>>]
             raw == [i \in DOMAIN t |-> IF t[i].view = v THEN <<t[i]>> ELSE <<>>]
  <2>1. of(v) = Joined(raw)
    BY FlattenInReferences DEF References!Where, References!Each, References!When
  <2>2. raw = seqs /\ keep \subseteq DOMAIN t
    OBVIOUS
  <2>3. keep = Having(DOMAIN t, key, v)
    BY DEF Having
  <2>4. seqs = [i \in DOMAIN t |-> IF i \in keep THEN <<t[i]>> ELSE <<>>]
    OBVIOUS
  <2> HIDE DEF raw, seqs, keep
  <2>5. IsPart(Joined(seqs), t, keep)
    BY <1>1, <2>2, <2>4, FilteredIs
  <2>6. Len(Joined(seqs)) = Cardinality(keep)
    BY <2>5, PartIs
  <2>7. QED
    BY <2>1, <2>2, <2>3, <2>6
<1> HIDE DEF of, views
<1>5. DOMAIN views = names /\ \A v \in names : views[v] = of(v)
  BY <1>2
<1>6. DOMAIN g = K /\ \A v \in K : g[v] = Cardinality(Having(DOMAIN t, key, v))
  <2>1. DOMAIN g = names /\ \A v \in names : g[v] = Len(of(v))
    BY <1>5
  <2> HIDE DEF g
  <2>2. QED
    BY <1>3, <1>4, <2>1
<1> HIDE DEF g
<1>7. References!SumFunction(g) = Sum(g, K)
  BY <1>6, SumInReferences
<1>8. \A i \in DOMAIN t : key[i] \in K
  OBVIOUS
<1> HIDE DEF key
<1>9. IsFiniteSet(K)
  BY <1>1, KeysFinite
<1> HIDE DEF K
<1>10. Sum(g, K) = Cardinality(DOMAIN t)
  BY <1>1, <1>6, <1>8, <1>9, CardByKey
<1>11. Cardinality(DOMAIN t) = Len(t)
  BY <1>1, LengthIs
<1>12. QED
  BY <1>7, <1>10, <1>11 DEF g, t, views

\* No header is found missing.
LEMMA NoHeaders ==
    ASSUME NEW app, IsApplication(app)
    PROVE  References!diagnose(app).summary["missing-auth-header"] = 0
<1> DEFINE s == All(app)
           V == VisitsOfAll(app)
           none == {i \in DOMAIN s : s[i].type = "missing-auth-header"}
<1>1. References!diagnose(app).summary["missing-auth-header"] = References!Cardinality(none)
  BY DEF References!diagnose, References!CountOf, All
<1>2. PICK w : Witnesses(app, V, Len(V), s, w)
  BY AllAre
<1>3. \A i \in 1 .. Len(V) : IsRef(V[i].ref)
  <2>1. IsList(V) /\ \A x \in Range(V) : IsRef(x.ref)
    BY VisitsAre DEF IsVisit
  <2> HIDE DEF V
  <2>2. QED
    BY <2>1, ListIs
<1> HIDE DEF s, V
<1>4. \A j \in DOMAIN s : w[j] \in 1 .. Len(V) /\ s[j] = IssueOf(V[w[j]])
  BY <1>2 DEF Witnesses
<1>5. ASSUME NEW x, IsRef(x.ref)
      PROVE  IssueOf(x).type # "missing-auth-header"
  BY <1>5 DEF IsRef, IssueOf, References!IssueType
<1>6. none = {}
  BY <1>3, <1>4, <1>5
<1> HIDE DEF none
<1>7. Cardinality(none) = 0
  BY <1>6, FS_EmptySet
<1>8. QED
  BY <1>1, <1>7, SizeInReferences

\* The keys of what is broken, as the property lists them.
BrokenKeys(app) ==
    UNION {{IssueKey([view |-> v.id, type |-> References!IssueType(r), target |-> r.target,
                      method |-> r.method])
              : r \in {x \in References!References(v) :
                          x.kind # "element" /\ ~ References!Resolved(app, x)}}
           : v \in Range(References!Known(app))}

\* They are the keys of the broken visits.
LEMMA BrokenAre ==
    ASSUME NEW app, IsApplication(app)
    PROVE  \A y : y \in BrokenKeys(app)
                     <=> \E x \in Range(VisitsOfAll(app)) : /\ Broken(app, x) /\ x.ref.kind # "element"
                                                       /\ y = IssueKey(IssueOf(x))
<1> DEFINE one(v, r) == IssueKey([view |-> v.id, type |-> References!IssueType(r),
                                  target |-> r.target, method |-> r.method])
           some(v) == {r \in References!References(v) :
                          r.kind # "element" /\ ~ References!Resolved(app, r)}
           K == Range(References!Known(app))
           W == Range(VisitsOfAll(app))
<1>1. BrokenKeys(app) = UNION {{one(v, r) : r \in some(v)} : v \in K}
  BY DEF BrokenKeys
<1>2. ASSUME NEW x, NEW v, IsVisit(x, v)
      PROVE  IssueKey(IssueOf(x)) = one(v, x.ref)
  <2>1. /\ x.view = v /\ IssueOf(x).view = x.view.id
        /\ IssueOf(x).type = References!IssueType(x.ref)
        /\ IssueOf(x).target = x.ref.target /\ IssueOf(x).method = x.ref.method
    BY <1>2 DEF IsVisit, IssueOf
  <2>2. QED
    BY <2>1 DEF IssueKey
<1>3. /\ \A x \in W : \E v \in K : IsVisit(x, v) /\ x.ref \in References!References(v)
      /\ \A v \in K : \A r \in References!References(v) :
            IsRef(r) /\ \E x \in W : IsVisit(x, v) /\ x.ref = r
  BY VisitsAre
<1> HIDE DEF K, W, one
<1>4. ASSUME NEW y, y \in BrokenKeys(app)
      PROVE  \E x \in W : Broken(app, x) /\ x.ref.kind # "element" /\ y = IssueKey(IssueOf(x))
  <2>1. PICK v \in K : y \in {one(v, r) : r \in some(v)}
    BY <1>1, <1>4
  <2>2. PICK r \in some(v) : y = one(v, r)
    BY <2>1
  <2>3. PICK x \in W : IsVisit(x, v) /\ x.ref = r
    BY <1>3, <2>2
  <2>4. IssueKey(IssueOf(x)) = one(v, x.ref)
    BY <1>2, <2>3
  <2>5. QED
    BY <2>2, <2>3, <2>4 DEF Broken
<1>5. ASSUME NEW x \in W, Broken(app, x), x.ref.kind # "element"
      PROVE  IssueKey(IssueOf(x)) \in BrokenKeys(app)
  <2>1. PICK v \in K : IsVisit(x, v) /\ x.ref \in References!References(v)
    BY <1>3
  <2>2. IssueKey(IssueOf(x)) = one(v, x.ref)
    BY <1>2, <2>1
  <2>3. x.ref \in some(v)
    BY <1>5, <2>1 DEF Broken
  <2>4. one(v, x.ref) \in {one(v, r) : r \in some(v)}
    BY <2>3
  <2> HIDE DEF some
  <2>5. QED
    BY <1>1, <2>2, <2>4
<1>6. QED
  BY <1>4, <1>5 DEF W

\* The issues have these keys, and one has each.
LEMMA ShownAre ==
    ASSUME NEW app, IsApplication(app)
    PROVE  /\ {IssueKey(Shown(app)[i]) : i \in DOMAIN Shown(app)} = BrokenKeys(app)
           /\ Len(Shown(app)) = Cardinality(BrokenKeys(app))
<1> DEFINE t == Shown(app)
           V == VisitsOfAll(app)
           n == Len(V)
           B == BrokenKeys(app)
           b == [x \in DOMAIN t |-> IssueKey(t[x])]
<1>1. IsList(t) /\ DOMAIN t = 1 .. Len(t) /\ Len(t) \in Nat /\ IsFiniteSet(DOMAIN t)
  BY KeptAre, ListIs
<1>2. PICK u : Diagnosed(app, V, n, t, u)
  BY KeptAre
<1>3. \A x \in DOMAIN t : b[x] = IssueKey(t[x])
  OBVIOUS
<1>4. /\ DOMAIN V = 1 .. n /\ \A x \in Range(V) : IsRef(x.ref)
      /\ \A i \in 1 .. n : V[i] \in Range(V)
  BY VisitsAre, ListIs DEF IsVisit
<1>5. \A y : y \in B <=> \E x \in Range(V) : /\ Broken(app, x) /\ x.ref.kind # "element"
                                             /\ y = IssueKey(IssueOf(x))
  BY BrokenAre
<1>6. References!Len(t) = Len(t)
  OBVIOUS
<1> HIDE DEF b, V, n, B, t
<1>7. /\ \A x \in DOMAIN t : /\ u[x] \in 1 .. n /\ Broken(app, V[u[x]])
                             /\ V[u[x]].ref.kind # "element" /\ t[x] = IssueOf(V[u[x]])
      /\ \A x, y \in DOMAIN t : Key(V[u[x]]) = Key(V[u[y]]) => x = y
      /\ \A i \in 1 .. n : Broken(app, V[i]) /\ V[i].ref.kind # "element"
                              => \E x \in DOMAIN t : Key(V[u[x]]) = Key(V[i])
  BY <1>2 DEF Diagnosed
<1>8. ASSUME NEW i \in 1 .. n, NEW j \in 1 .. n,
             V[i].ref.kind # "element", V[j].ref.kind # "element"
      PROVE  Key(V[i]) = Key(V[j]) <=> IssueKey(IssueOf(V[i])) = IssueKey(IssueOf(V[j]))
  BY <1>4, <1>8, KeysAre
<1>9. OneToOne(b, DOMAIN t, B)
  <2>1. \A x \in DOMAIN t : b[x] \in B
    BY <1>3, <1>4, <1>5, <1>7
  <2>2. ASSUME NEW y \in B
        PROVE  \E x \in DOMAIN t : b[x] = y
    <3>1. PICK i \in 1 .. n : Broken(app, V[i]) /\ V[i].ref.kind # "element" /\ y = IssueKey(IssueOf(V[i]))
      BY <1>4, <1>5 DEF Range
    <3>2. PICK x \in DOMAIN t : Key(V[u[x]]) = Key(V[i])
      BY <1>7, <3>1
    <3>3. IssueKey(IssueOf(V[u[x]])) = y
      BY <1>7, <1>8, <3>1, <3>2
    <3>4. QED
      BY <1>3, <1>7, <3>3
  <2>3. ASSUME NEW x \in DOMAIN t, NEW y \in DOMAIN t, b[x] = b[y]
        PROVE  x = y
    <3>1. Key(V[u[x]]) = Key(V[u[y]])
      BY <1>3, <1>7, <1>8, <2>3
    <3>2. QED
      BY <1>7, <3>1
  <2>4. QED
    BY <2>1, <2>2, <2>3 DEF OneToOne
<1>10. {IssueKey(t[i]) : i \in DOMAIN t} = B
  BY <1>3, <1>9 DEF OneToOne
<1>11. Len(t) = Cardinality(B)
  BY <1>1, <1>9, SameSize, LengthIs
<1>12. QED
  BY <1>10, <1>11 DEF t, B

\* A view's unresolved references are reported for it, each once, and nothing
\* else is; the views share the issues out (referenceDiagnostics.ts).
THEOREM DiagnosisAlwaysComplete ==
    ASSUME NEW app, IsApplication(app)
    PROVE  References!DiagnosisComplete(app)
<1> DEFINE d == References!diagnose(app)
           t == Shown(app)
           B == BrokenKeys(app)
<1>1. {IssueKey(t[i]) : i \in DOMAIN t} = B
  BY ShownAre
<1>2. Len(t) = Cardinality(B)
  BY ShownAre
<1> HIDE DEF t, B
<1>3. Len(t) = References!SumFunction([v \in DOMAIN d.views |-> Len(d.views[v])])
  BY ViewsShare DEF t
<1>4. d.summary["missing-auth-header"] = 0
  BY NoHeaders
<1>5. References!Cardinality(B) = Cardinality(B)
  BY SizeInReferences
<1>6. QED
  <2>1. /\ d.issues = t
        /\ B = UNION {{IssueKey([view |-> v.id, type |-> References!IssueType(r),
                                 target |-> r.target, method |-> r.method])
                          : r \in {x \in References!References(v) :
                                      x.kind # "element" /\ ~ References!Resolved(app, x)}}
                       : v \in References!Range(References!Known(app))}
    BY RangeInReferences DEF t, B, Shown, BrokenKeys
  <2> HIDE DEF d
  <2>2. QED
    BY <1>1, <1>2, <1>3, <1>4, <1>5, <2>1 DEF References!DiagnosisComplete, IssueKey, d

-----------------------------------------------------------------------------
(* The analysis of an application.                                         *)

LEMMA MappedHas ==
    ASSUME NEW s, IsList(s), NEW seqs, seqs = [i \in DOMAIN s |-> seqs[i]],
           \A i \in DOMAIN s : IsList(seqs[i])
    PROVE  /\ IsList(Joined(seqs))
           /\ \A x : x \in Range(Joined(seqs)) <=> \E i \in DOMAIN s : x \in Range(seqs[i])
<1>1. IsList(seqs) /\ DOMAIN seqs = DOMAIN s
  BY ListMapped
<1>2. QED
  BY <1>1, FlattenHas

LEMMA EmptyIs == IsList(<<>>) /\ Range(<<>>) = {}
<1>1. IsList(<<>>)
  BY DEF IsList
<1>2. Range(<<>>) = {}
  BY DEF Range
<1>3. QED
  BY <1>1, <1>2

LEMMA WhenIs ==
    ASSUME NEW condition, NEW x
    PROVE  LET s == References!When(condition, x) IN
           IsList(s) /\ \A y : y \in Range(s) <=> condition /\ y = x
<1>1. CASE condition
  <2>1. References!When(condition, x) = <<x>>
    BY <1>1 DEF References!When
  <2>2. <<x>> \in Seq({x}) /\ DOMAIN <<x>> = {1} /\ <<x>>[1] = x
    OBVIOUS
  <2>3. IsList(<<x>>) /\ \A y : y \in Range(<<x>>) <=> y = x
    BY <2>2, ListOf DEF Range
  <2>4. QED
    BY <1>1, <2>1, <2>3
<1>2. CASE ~ condition
  <2>1. References!When(condition, x) = <<>>
    BY <1>2 DEF References!When
  <2>2. QED
    BY <1>2, <2>1, EmptyIs
<1>3. QED
  BY <1>1, <1>2

\* A call of a path that no controller has, a view by an id that none has.
Unserved(app, r) ==
    r.kind = "endpoint" /\ r.target \notin {app.controllers[i].path : i \in DOMAIN app.controllers}

Unviewed(app, r) == r.kind = "view" /\ r.target \notin References!IdsOf(app.views)

\* x is an issue of a view for one of the references, and r is missed for it.
OfCalls(app, view, refs, x) ==
    /\ x.type \in {"missing-navigation-target", "missing-endpoint", "missing-auth-header"}
    /\ x.owner = view.id
    /\ x.type = "missing-endpoint" => \E r \in refs : Unserved(app, r) /\ x.target = r.target

Missed(issues, view, r) ==
    \E x \in issues : /\ x.type = "missing-navigation-target" /\ x.owner = view.id
                      /\ x.target = r.target

\* The issues of a reference.
OneCall(app, view, element, code, r) ==
    LET issue(type) == [type |-> type, owner |-> view.id, element |-> element.id,
                        target |-> r.target]
    IN CASE r.kind = "view" ->
              References!When(r.target \notin References!IdsOf(app.views),
                              issue("missing-navigation-target"))
         [] r.kind = "endpoint" ->
              References!When(r.target \notin {app.controllers[i].path : i \in DOMAIN app.controllers},
                              issue("missing-endpoint"))
              \o References!When(r.target \notin Exempt /\ ~ code.bearer,
                                 issue("missing-auth-header"))
         [] OTHER -> <<>>

LEMMA OneCallIs ==
    ASSUME NEW app, NEW view, NEW element, NEW code, NEW r
    PROVE  LET s == OneCall(app, view, element, code, r) IN
           /\ IsList(s) /\ \A x \in Range(s) : OfCalls(app, view, {r}, x)
           /\ Unviewed(app, r) => Missed(Range(s), view, r)
<1> DEFINE issue(type) == [type |-> type, owner |-> view.id, element |-> element.id,
                           target |-> r.target]
           s == OneCall(app, view, element, code, r)
           noView == r.target \notin References!IdsOf(app.views)
           noPath == r.target \notin {app.controllers[i].path : i \in DOMAIN app.controllers}
           noToken == r.target \notin Exempt /\ ~ code.bearer
           a == References!When(noPath, issue("missing-endpoint"))
           b == References!When(noToken, issue("missing-auth-header"))
<1>1. \A type : /\ issue(type).type = type /\ issue(type).owner = view.id
                /\ issue(type).target = r.target
  OBVIOUS
<1>2. CASE r.kind = "view"
  <2> DEFINE c == References!When(noView, issue("missing-navigation-target"))
  <2>1. s = c
    BY <1>2 DEF OneCall
  <2>2. IsList(c) /\ \A y : y \in Range(c) <=> noView /\ y = issue("missing-navigation-target")
    <3> DEFINE y0 == issue("missing-navigation-target")
    <3> HIDE DEF y0, noView
    <3>1. IsList(References!When(noView, y0))
          /\ \A y : y \in Range(References!When(noView, y0)) <=> noView /\ y = y0
      BY WhenIs
    <3>2. QED
      BY <3>1 DEF y0
  <2> HIDE DEF s, c, issue
  <2>3. Unviewed(app, r) <=> noView
    BY <1>2 DEF Unviewed
  <2>4. ASSUME NEW x \in Range(c) PROVE OfCalls(app, view, {r}, x)
    <3>1. x = issue("missing-navigation-target")
      BY <2>2
    <3>2. x.type = "missing-navigation-target" /\ x.owner = view.id
      BY <1>1, <3>1
    <3>3. QED
      BY <3>2 DEF OfCalls
  <2>5. ASSUME noView PROVE Missed(Range(c), view, r)
    <3> DEFINE x == issue("missing-navigation-target")
    <3>1. x \in Range(c)
      BY <2>2, <2>5
    <3>2. x.type = "missing-navigation-target" /\ x.owner = view.id /\ x.target = r.target
      BY <1>1
    <3> HIDE DEF x
    <3>3. QED
      BY <3>1, <3>2 DEF Missed
  <2>6. QED
    BY <2>1, <2>2, <2>3, <2>4, <2>5 DEF s
<1>3. CASE r.kind = "endpoint"
  <2>1. s = a \o b
    BY <1>3 DEF OneCall
  <2>2. /\ IsList(a) /\ \A y : y \in Range(a) <=> noPath /\ y = issue("missing-endpoint")
        /\ IsList(b) /\ \A y : y \in Range(b) <=> noToken /\ y = issue("missing-auth-header")
    <3> DEFINE y0 == issue("missing-endpoint")
               z0 == issue("missing-auth-header")
    <3> HIDE DEF y0, z0, noPath, noToken
    <3>1. IsList(References!When(noPath, y0))
          /\ \A y : y \in Range(References!When(noPath, y0)) <=> noPath /\ y = y0
      BY WhenIs
    <3>2. IsList(References!When(noToken, z0))
          /\ \A y : y \in Range(References!When(noToken, z0)) <=> noToken /\ y = z0
      BY WhenIs
    <3>3. QED
      BY <3>1, <3>2 DEF y0, z0
  <2> HIDE DEF s, a, b, issue
  <2>3. IsList(a \o b) /\ Range(a \o b) = Range(a) \union Range(b)
    BY <2>2, ListJoin
  <2>4. ~ Unviewed(app, r) /\ (noPath <=> Unserved(app, r))
    BY <1>3 DEF Unviewed, Unserved
  <2>5. ASSUME NEW x \in Range(a) PROVE OfCalls(app, view, {r}, x)
    <3>1. x = issue("missing-endpoint") /\ Unserved(app, r)
      BY <2>2, <2>4
    <3>2. x.type = "missing-endpoint" /\ x.owner = view.id /\ x.target = r.target
      BY <1>1, <3>1
    <3>3. QED
      BY <3>1, <3>2 DEF OfCalls
  <2>6. ASSUME NEW x \in Range(b) PROVE OfCalls(app, view, {r}, x)
    <3>1. x = issue("missing-auth-header")
      BY <2>2
    <3>2. x.type = "missing-auth-header" /\ x.owner = view.id
      BY <1>1, <3>1
    <3>3. QED
      BY <3>2 DEF OfCalls
  <2>7. QED
    BY <2>1, <2>3, <2>4, <2>5, <2>6 DEF s
<1>4. CASE r.kind \notin {"view", "endpoint"}
  <2>1. s = <<>>
    BY <1>4 DEF OneCall
  <2>2. ~ Unviewed(app, r)
    BY <1>4 DEF Unviewed
  <2> HIDE DEF s
  <2>3. QED
    BY <2>1, <2>2, EmptyIs DEF s
<1>5. QED
  BY <1>2, <1>3, <1>4

\* What all the issues of a view are.
AreCalls(s, app, view, refs) ==
    /\ IsList(s) /\ \A x \in Range(s) : OfCalls(app, view, refs, x)
    /\ \A r \in refs : Unviewed(app, r) => Missed(Range(s), view, r)

LEMMA CallsAre ==
    ASSUME NEW app, NEW view, NEW element, NEW code, IsCode(code)
    PROVE  AreCalls(References!CallIssues(app, view, element, code), app, view, Range(code.refs))
<1> DEFINE R == code.refs
           seqs == [i \in DOMAIN R |-> OneCall(app, view, element, code, R[i])]
<1>1. References!CallIssues(app, view, element, code) = Joined(seqs)
  BY FlattenInReferences DEF References!CallIssues, References!Each, OneCall
<1>2. IsList(R)
  BY DEF IsCode
<1> HIDE DEF R
<1>3. /\ seqs = [i \in DOMAIN R |-> seqs[i]]
      /\ \A i \in DOMAIN R : seqs[i] = OneCall(app, view, element, code, R[i])
  OBVIOUS
<1> HIDE DEF seqs
<1>4. \A i \in DOMAIN R : /\ IsList(seqs[i]) /\ \A x \in Range(seqs[i]) : OfCalls(app, view, {R[i]}, x)
                          /\ Unviewed(app, R[i]) => Missed(Range(seqs[i]), view, R[i])
  BY <1>3, OneCallIs
<1>5. /\ IsList(Joined(seqs))
      /\ \A x : x \in Range(Joined(seqs)) <=> \E i \in DOMAIN R : x \in Range(seqs[i])
  BY <1>2, <1>3, <1>4, MappedHas
<1>6. \A x \in Range(Joined(seqs)) : OfCalls(app, view, Range(R), x)
  <2>1. \A i \in DOMAIN R : R[i] \in Range(R)
    BY DEF Range
  <2>2. QED
    BY <1>4, <1>5, <2>1 DEF OfCalls
<1>7. \A r \in Range(R) : Unviewed(app, r) => Missed(Range(Joined(seqs)), view, r)
  <2>1. SUFFICES ASSUME NEW i \in DOMAIN R, Unviewed(app, R[i])
                 PROVE  Missed(Range(Joined(seqs)), view, R[i])
    BY DEF Range
  <2>2. QED
    BY <1>4, <1>5, <2>1 DEF Missed
<1>8. QED
  BY <1>1, <1>5, <1>6, <1>7, SMTT(40) DEF AreCalls, R

\* Issues of a view, joined.
IsUnion(R, s, refs) == \A r : r \in R <=> \E i \in DOMAIN s : r \in refs[i]

LEMMA CallsJoin ==
    ASSUME NEW app, NEW view, NEW s, IsList(s), NEW seqs, seqs = [i \in DOMAIN s |-> seqs[i]],
           NEW refs, \A i \in DOMAIN s : AreCalls(seqs[i], app, view, refs[i]),
           NEW R, IsUnion(R, s, refs)
    PROVE  AreCalls(Joined(seqs), app, view, R)
<1>1. \A i \in DOMAIN s : /\ IsList(seqs[i]) /\ \A x \in Range(seqs[i]) : OfCalls(app, view, refs[i], x)
                          /\ \A r \in refs[i] : Unviewed(app, r) => Missed(Range(seqs[i]), view, r)
  BY DEF AreCalls
<1>2. /\ IsList(Joined(seqs))
      /\ \A x : x \in Range(Joined(seqs)) <=> \E i \in DOMAIN s : x \in Range(seqs[i])
  BY <1>1, MappedHas
<1>3. \A r : r \in R <=> \E i \in DOMAIN s : r \in refs[i]
  BY DEF IsUnion
<1>4. ASSUME NEW x \in Range(Joined(seqs))
      PROVE  OfCalls(app, view, R, x)
  <2>1. PICK i \in DOMAIN s : x \in Range(seqs[i])
    BY <1>2
  <2>2. OfCalls(app, view, refs[i], x)
    BY <1>1, <2>1
  <2>3. QED
    BY <1>3, <2>2 DEF OfCalls
<1>5. ASSUME NEW r \in R, Unviewed(app, r)
      PROVE  Missed(Range(Joined(seqs)), view, r)
  <2>1. PICK i \in DOMAIN s : r \in refs[i]
    BY <1>3
  <2>2. Missed(Range(seqs[i]), view, r)
    BY <1>1, <1>5, <2>1
  <2>3. QED
    BY <1>2, <2>2 DEF Missed
<1>6. QED
  BY <1>2, <1>4, <1>5 DEF AreCalls

\* What the first handler of an element refers to in the code it executes.
Executed(p) == IF p.executeCode = None THEN {} ELSE Range(p.executeCode.refs)

FirstRefs(element) ==
    LET plugins == References!HandlerOf(element) IN UNION {Executed(plugins[i]) : i \in DOMAIN plugins}

ViewRefs(view) == UNION {FirstRefs(view.layout[i]) : i \in DOMAIN view.layout}

LEMMA FirstHandler ==
    ASSUME NEW element, IsElement(element)
    PROVE  /\ IsHandler(References!HandlerOf(element))
           /\ \A p \in Range(References!HandlerOf(element)) :
                 \E on \in DOMAIN element.handlers : p \in Range(element.handlers[on])
<1> DEFINE H == element.handlers
           s == References!HandlerOf(element)
<1>1. s = <<>> \/ \E on \in DOMAIN H : s = H[on]
  BY DEF References!HandlerOf
<1>2. \A on \in DOMAIN H : IsHandler(H[on])
  BY DEF IsElement
<1>3. IsHandler(<<>>)
  BY EmptyIs DEF IsHandler
<1> HIDE DEF s, H
<1>4. QED
  BY <1>1, <1>2, <1>3, EmptyIs DEF s, H

LEMMA ElementIssuesAre ==
    ASSUME NEW app, NEW view, NEW element, IsElement(element)
    PROVE  AreCalls(References!ElementIssues(app, view, element), app, view, FirstRefs(element))
<1> DEFINE s == References!HandlerOf(element)
           one(p) == IF p.executeCode = None THEN <<>>
                     ELSE References!CallIssues(app, view, element, p.executeCode)
           seqs == [i \in DOMAIN s |-> one(s[i])]
           refs == [i \in DOMAIN s |-> Executed(s[i])]
<1>1. References!ElementIssues(app, view, element) = Joined(seqs)
  BY FlattenInReferences DEF References!ElementIssues, References!Each
<1>2. IsHandler(s)
  BY FirstHandler
<1>3. FirstRefs(element) = UNION {Executed(s[i]) : i \in DOMAIN s}
  BY DEF FirstRefs
<1> HIDE DEF s
<1>4. ASSUME NEW p \in Range(s)
      PROVE  AreCalls(one(p), app, view, Executed(p))
  <2>1. CASE p.executeCode = None
    <3>1. one(p) = <<>> /\ Executed(p) = {}
      BY <2>1 DEF Executed
    <3>2. AreCalls(<<>>, app, view, {})
      BY EmptyIs DEF AreCalls
    <3>3. QED
      BY <3>1, <3>2
  <2>2. CASE p.executeCode # None
    <3>1. IsCode(p.executeCode)
      BY <1>2, <2>2 DEF IsHandler
    <3>2. /\ one(p) = References!CallIssues(app, view, element, p.executeCode)
          /\ Executed(p) = Range(p.executeCode.refs)
      BY <2>2 DEF Executed
    <3>3. QED
      BY <3>1, <3>2, CallsAre
  <2>3. QED
    BY <2>1, <2>2
<1>5. \A i \in DOMAIN s : seqs[i] = one(s[i]) /\ refs[i] = Executed(s[i]) /\ s[i] \in Range(s)
  BY DEF Range
<1>6. seqs = [i \in DOMAIN s |-> seqs[i]]
  OBVIOUS
<1> HIDE DEF one, seqs, refs
<1>7. \A i \in DOMAIN s : AreCalls(seqs[i], app, view, refs[i])
  BY <1>4, <1>5
<1>8. IsList(s)
  BY <1>2 DEF IsHandler
<1>9. IsUnion(FirstRefs(element), s, refs)
  BY <1>3, <1>5 DEF IsUnion
<1>10. QED
  BY <1>1, <1>6, <1>7, <1>8, <1>9, CallsJoin

LEMMA ViewIssuesAre ==
    ASSUME NEW app, NEW view, IsView(view)
    PROVE  AreCalls(References!ViewIssues(app, view), app, view, ViewRefs(view))
<1> DEFINE s == view.layout
           seqs == [i \in DOMAIN s |-> References!ElementIssues(app, view, s[i])]
           refs == [i \in DOMAIN s |-> FirstRefs(s[i])]
<1>1. References!ViewIssues(app, view) = Joined(seqs)
  BY FlattenInReferences DEF References!ViewIssues, References!Each
<1>2. ViewRefs(view) = UNION {FirstRefs(s[i]) : i \in DOMAIN s}
  BY DEF ViewRefs
<1>3. IsList(s) /\ \A i \in DOMAIN s : IsElement(s[i])
  BY DEF IsView, Range
<1> HIDE DEF s
<1>4. \A i \in DOMAIN s : /\ seqs[i] = References!ElementIssues(app, view, s[i])
                          /\ refs[i] = FirstRefs(s[i])
  OBVIOUS
<1>5. seqs = [i \in DOMAIN s |-> seqs[i]]
  OBVIOUS
<1> HIDE DEF seqs, refs
<1>6. \A i \in DOMAIN s : AreCalls(seqs[i], app, view, refs[i])
  BY <1>3, <1>4, ElementIssuesAre
<1>7. IsUnion(ViewRefs(view), s, refs)
  BY <1>2, <1>4 DEF IsUnion
<1>8. QED
  BY <1>1, <1>3, <1>5, <1>6, <1>7, CallsJoin

\* The issues of a controller.
ForController(s) ==
    IsList(s) /\ \A x \in Range(s) : x.type \in {"missing-controller-auth", "missing-plugin"}

LEMMA ControllerJoin ==
    ASSUME NEW s, IsList(s), NEW seqs, seqs = [i \in DOMAIN s |-> seqs[i]],
           \A i \in DOMAIN s : ForController(seqs[i])
    PROVE  ForController(Joined(seqs))
<1>1. \A i \in DOMAIN s : /\ IsList(seqs[i])
                          /\ \A x \in Range(seqs[i]) : x.type \in {"missing-controller-auth", "missing-plugin"}
  BY DEF ForController
<1>2. /\ IsList(Joined(seqs))
      /\ \A x : x \in Range(Joined(seqs)) <=> \E i \in DOMAIN s : x \in Range(seqs[i])
  BY <1>1, MappedHas
<1>3. QED
  BY <1>1, <1>2 DEF ForController

LEMMA ControllerIssuesAre ==
    ASSUME NEW app, NEW c, IsController(c)
    PROVE  ForController(References!ControllerIssues(app, c))
<1> DEFINE issue(type, target) == [type |-> type, owner |-> c.id, element |-> None, target |-> target]
           open0 == c.path \notin Exempt /\ "auth" \notin c.plugins
           a0 == issue("missing-controller-auth", c.path)
           lost(r) == r.kind = "plugin" /\ r.target \notin app.available
           one(r) == References!When(lost(r), issue("missing-plugin", r.target))
           some(code) == Joined([i \in DOMAIN code.refs |-> one(code.refs[i])])
           s == c.steps
           seqs == [i \in DOMAIN s |-> some(s[i])]
<1>1. References!ControllerIssues(app, c) = References!When(open0, a0) \o Joined(seqs)
  BY FlattenInReferences DEF References!ControllerIssues, References!Each
<1>2. ForController(References!When(open0, a0))
  <2>1. a0.type = "missing-controller-auth"
    OBVIOUS
  <2> HIDE DEF open0, a0
  <2>2. /\ IsList(References!When(open0, a0))
        /\ \A y : y \in Range(References!When(open0, a0)) <=> open0 /\ y = a0
    BY WhenIs
  <2>3. QED
    BY <2>1, <2>2 DEF ForController
<1>3. ASSUME NEW r
      PROVE  ForController(one(r))
  <2> DEFINE b0 == issue("missing-plugin", r.target)
             gone == lost(r)
  <2>1. b0.type = "missing-plugin"
    OBVIOUS
  <2>2. one(r) = References!When(gone, b0)
    OBVIOUS
  <2> HIDE DEF one, b0, gone
  <2>3. /\ IsList(References!When(gone, b0))
        /\ \A y : y \in Range(References!When(gone, b0)) <=> gone /\ y = b0
    BY WhenIs
  <2>4. QED
    BY <2>1, <2>2, <2>3 DEF ForController
<1> HIDE DEF one, open0, a0
<1>4. ASSUME NEW code, IsCode(code)
      PROVE  ForController(some(code))
  <2> DEFINE t == code.refs
             parts0 == [i \in DOMAIN t |-> one(t[i])]
  <2>1. some(code) = Joined(parts0) /\ IsList(t)
    BY <1>4 DEF IsCode
  <2> HIDE DEF t, some
  <2>2. parts0 = [i \in DOMAIN t |-> parts0[i]] /\ \A i \in DOMAIN t : parts0[i] = one(t[i])
    OBVIOUS
  <2> HIDE DEF parts0
  <2>3. \A i \in DOMAIN t : ForController(parts0[i])
    BY <1>3, <2>2
  <2>4. QED
    BY <2>1, <2>2, <2>3, ControllerJoin
<1>5. IsList(s) /\ \A i \in DOMAIN s : IsCode(s[i])
  BY DEF IsController, Range
<1> HIDE DEF some, s
<1>6. seqs = [i \in DOMAIN s |-> seqs[i]] /\ \A i \in DOMAIN s : seqs[i] = some(s[i])
  OBVIOUS
<1> HIDE DEF seqs
<1>7. \A i \in DOMAIN s : ForController(seqs[i])
  BY <1>4, <1>5, <1>6
<1>8. ForController(Joined(seqs))
  BY <1>5, <1>6, <1>7, ControllerJoin
<1> DEFINE first0 == References!When(open0, a0)
           rest0 == Joined(seqs)
<1> HIDE DEF first0, rest0
<1>9. IsList(first0 \o rest0) /\ Range(first0 \o rest0) = Range(first0) \union Range(rest0)
  BY <1>2, <1>8, ListJoin DEF ForController, first0, rest0
<1>10. QED
  BY <1>1, <1>2, <1>8, <1>9 DEF ForController, first0, rest0

\* The issues of the analysis are of calls of a view or of a controller, and no
\* view that is missing is left out.
LEMMA AnalysisIs ==
    ASSUME NEW app, IsApplication(app)
    PROVE  LET s == References!analyze(app) IN
           /\ IsList(s)
           /\ \A x \in Range(s) : \/ x.type \in {"missing-controller-auth", "missing-plugin"}
                                  \/ \E v \in Range(app.views) : OfCalls(app, v, ViewRefs(v), x)
           /\ \A v \in Range(app.views) : \A r \in ViewRefs(v) :
                 Unviewed(app, r) => Missed(Range(s), v, r)
<1> DEFINE V == app.views
           C == app.controllers
           seqs == [i \in DOMAIN V |-> References!ViewIssues(app, V[i])]
           rest == [i \in DOMAIN C |-> References!ControllerIssues(app, C[i])]
           s == References!analyze(app)
<1>1. s = Joined(seqs) \o Joined(rest)
  BY FlattenInReferences DEF References!analyze, References!Each
<1>2. /\ IsList(V) /\ \A i \in DOMAIN V : IsView(V[i]) /\ V[i] \in Range(V)
      /\ IsList(C) /\ \A i \in DOMAIN C : IsController(C[i])
  BY DEF IsApplication, Range
<1>3. \A v \in Range(V) : \E i \in DOMAIN V : v = V[i]
  BY DEF Range
<1> HIDE DEF V, C, s
<1>4. /\ seqs = [i \in DOMAIN V |-> seqs[i]]
      /\ \A i \in DOMAIN V : seqs[i] = References!ViewIssues(app, V[i])
      /\ rest = [i \in DOMAIN C |-> rest[i]]
      /\ \A i \in DOMAIN C : rest[i] = References!ControllerIssues(app, C[i])
  OBVIOUS
<1> HIDE DEF seqs, rest
<1>5. \A i \in DOMAIN V : AreCalls(seqs[i], app, V[i], ViewRefs(V[i]))
  BY <1>2, <1>4, ViewIssuesAre
<1>6. \A i \in DOMAIN V :
         /\ IsList(seqs[i]) /\ \A x \in Range(seqs[i]) : OfCalls(app, V[i], ViewRefs(V[i]), x)
         /\ \A r \in ViewRefs(V[i]) : Unviewed(app, r) => Missed(Range(seqs[i]), V[i], r)
  BY <1>5 DEF AreCalls
<1>7. /\ IsList(Joined(seqs))
      /\ \A x : x \in Range(Joined(seqs)) <=> \E i \in DOMAIN V : x \in Range(seqs[i])
  BY <1>2, <1>4, <1>6, MappedHas
<1>8. ForController(Joined(rest))
  <2>1. \A i \in DOMAIN C : ForController(rest[i])
    BY <1>2, <1>4, ControllerIssuesAre
  <2>2. QED
    BY <1>2, <1>4, <2>1, ControllerJoin
<1> DEFINE a == Joined(seqs)
           b == Joined(rest)
<1> HIDE DEF a, b
<1>9. IsList(a) /\ IsList(b)
  BY <1>7, <1>8 DEF ForController, a, b
<1>10. IsList(a \o b) /\ Range(a \o b) = Range(a) \union Range(b)
  BY <1>9, ListJoin
<1>11. IsList(s) /\ Range(s) = Range(a) \union Range(b)
  BY <1>1, <1>10 DEF a, b
<1>12. ASSUME NEW x \in Range(s)
       PROVE  \/ x.type \in {"missing-controller-auth", "missing-plugin"}
              \/ \E v \in Range(V) : OfCalls(app, v, ViewRefs(v), x)
  <2>1. CASE x \in Range(a)
    BY <1>2, <1>6, <1>7, <2>1 DEF a
  <2>2. CASE x \in Range(b)
    BY <1>8, <2>2 DEF ForController, b
  <2>3. QED
    BY <1>11, <2>1, <2>2
<1>13. ASSUME NEW v \in Range(V), NEW r \in ViewRefs(v), Unviewed(app, r)
       PROVE  Missed(Range(s), v, r)
  <2>1. PICK i \in DOMAIN V : v = V[i]
    BY <1>3
  <2>2. Missed(Range(seqs[i]), v, r)
    BY <1>6, <1>13, <2>1
  <2>3. Range(seqs[i]) \subseteq Range(s)
    BY <1>7, <1>11 DEF a
  <2>4. QED
    BY <2>2, <2>3 DEF Missed
<1>14. QED
  BY <1>11, <1>12, <1>13 DEF V, s

\* A view without an id has no elements, and the code that a plugin executes is
\* all the code it has.
RunsItsCode(app) ==
    \A v \in Range(app.views) :
       /\ v.id = None => Range(v.layout) = {}
       /\ \A e \in Range(v.layout) : \A on \in DOMAIN e.handlers : \A p \in Range(e.handlers[on]) :
             p.executeCode # None => p.code = p.executeCode

\* What a view calls is among what it refers to, and the view has an id.
LEMMA CallsAreReferences ==
    ASSUME NEW app, IsApplication(app), RunsItsCode(app), NEW v \in Range(app.views),
           NEW r \in ViewRefs(v)
    PROVE  v \in Range(References!Known(app)) /\ r \in References!References(v) /\ IsRef(r)
<1>1. PICK i \in DOMAIN v.layout : r \in FirstRefs(v.layout[i])
  BY DEF ViewRefs
<1> DEFINE e == v.layout[i]
           H == References!HandlerOf(e)
<1>2. e \in Range(v.layout)
  BY DEF Range
<1>3. v.id # None
  BY <1>2 DEF RunsItsCode
<1>4. v \in Range(References!Known(app))
  BY <1>3, KnownAre
<1>5. IsView(v) /\ IsElement(e)
  BY <1>2 DEF IsApplication, IsView
<1>6. PICK j \in DOMAIN H : r \in Executed(H[j])
  BY <1>1 DEF FirstRefs
<1> DEFINE p == H[j]
<1>7. p \in Range(H)
  BY DEF Range
<1> HIDE DEF H, p
<1>8. p.executeCode # None /\ r \in Range(p.executeCode.refs)
  BY <1>6 DEF Executed, p
<1>9. PICK on \in DOMAIN e.handlers : p \in Range(e.handlers[on])
  BY <1>5, <1>7, FirstHandler DEF H
<1>10. p.code = p.executeCode
  BY <1>2, <1>8, <1>9 DEF RunsItsCode
<1>11. r \in Range(References!CodeOf(e)) /\ IsRef(r)
  BY <1>5, <1>8, <1>9, <1>10, CodeIs
<1>12. r \in References!References(v)
  BY <1>2, <1>5, <1>11, ReferencesAre DEF Made
<1>13. QED
  BY <1>4, <1>11, <1>12

\* An endpoint that the analysis misses is missed by the diagnosis.
LEMMA EndpointsMissed ==
    ASSUME NEW app, IsApplication(app), RunsItsCode(app),
           NEW x \in Range(References!analyze(app)), x.type = "missing-endpoint"
    PROVE  \E y \in Range(Shown(app)) : /\ y.type = "missing-controller"
                                        /\ y.view = x.owner /\ y.target = x.target
<1>1. PICK v \in Range(app.views) : OfCalls(app, v, ViewRefs(v), x)
  BY AnalysisIs
<1>2. PICK r \in ViewRefs(v) : Unserved(app, r) /\ x.target = r.target /\ x.owner = v.id
  BY <1>1 DEF OfCalls
<1>3. v \in Range(References!Known(app)) /\ r \in References!References(v)
  BY CallsAreReferences
<1>4. r.kind = "endpoint" /\ ~ References!Resolved(app, r) /\ References!IssueType(r) = "missing-controller"
  BY <1>2, SMTT(40) DEF Unserved, References!Resolved, References!IssueType
<1> DEFINE i0 == [view |-> v.id, type |-> References!IssueType(r), target |-> r.target,
                  method |-> r.method]
           t == Shown(app)
<1>5. IssueKey(i0) \in BrokenKeys(app)
  BY <1>3, <1>4 DEF BrokenKeys
<1>6. IssueKey(i0) = <<v.id, "missing-controller", r.target, r.method>>
  BY <1>4 DEF IssueKey
<1>7. {IssueKey(t[i]) : i \in DOMAIN t} = BrokenKeys(app)
  BY ShownAre
<1> HIDE DEF i0, t
<1>8. PICK i \in DOMAIN t : IssueKey(t[i]) = IssueKey(i0)
  BY <1>5, <1>7
<1>9. t[i].view = v.id /\ t[i].type = "missing-controller" /\ t[i].target = r.target
  BY <1>6, <1>8 DEF IssueKey
<1>10. t[i] \in Range(t)
  BY DEF Range
<1>11. QED
  BY <1>2, <1>9, <1>10 DEF t

\* A view that the diagnosis misses, called by that very name where the analysis
\* looks, is missed by it.
LEMMA ViewsMissed ==
    ASSUME NEW app, IsApplication(app), RunsItsCode(app),
           NEW y \in Range(Shown(app)), y.type = "missing-target-view",
           NEW v \in Range(app.views), v.id = y.view,
           NEW r \in ViewRefs(v), r.kind = "view", r.target = y.target
    PROVE  \E x \in Range(References!analyze(app)) : /\ x.type = "missing-navigation-target"
                                                     /\ x.owner = y.view /\ x.target = y.target
<1> DEFINE V == VisitsOfAll(app)
           t == Shown(app)
<1>1. PICK u : Diagnosed(app, V, Len(V), t, u)
  BY KeptAre
<1>2. PICK i \in DOMAIN t : y = t[i]
  BY DEF Range
<1>3. \A j \in 1 .. Len(V) : IsRef(V[j].ref)
  <2>1. IsList(V) /\ \A z \in Range(V) : IsRef(z.ref)
    BY VisitsAre DEF IsVisit
  <2> HIDE DEF V
  <2>2. QED
    BY <2>1, ListIs
<1> HIDE DEF V, t
<1> DEFINE z == V[u[i]]
<1>4. u[i] \in 1 .. Len(V) /\ Broken(app, z) /\ y = IssueOf(z)
  BY <1>1, <1>2 DEF Diagnosed
<1>5. IsRef(z.ref)
  BY <1>3, <1>4
<1> HIDE DEF z
<1>6. /\ References!IssueType(z.ref) = "missing-target-view" /\ z.ref.target = y.target
  BY <1>4 DEF IssueOf
<1>7. z.ref.kind = "view"
  BY <1>5, <1>6 DEF IsRef, References!IssueType
<1>8. Lower[y.target] \notin References!ViewNames(app)
  BY <1>4, <1>6, <1>7 DEF Broken, References!Resolved
<1>9. ASSUME NEW w \in Range(app.views), w.id = r.target
      PROVE  FALSE
  <2>1. w.id # None
    BY <1>9, CallsAreReferences DEF IsRef
  <2>2. w \in Range(References!Known(app))
    BY <2>1, KnownAre
  <2>3. w \in References!Range(References!Known(app))
    BY <2>2, RangeInReferences
  <2>4. Lower[w.id] \in References!ViewNames(app)
    BY <2>3 DEF References!ViewNames
  <2>5. QED
    BY <1>8, <1>9, <2>4
<1>10. Unviewed(app, r)
  BY <1>9 DEF Unviewed, References!IdsOf, Range
<1>11. Missed(Range(References!analyze(app)), v, r)
  BY <1>10, AnalysisIs
<1>12. QED
  BY <1>11 DEF Missed

\* The counts of the summary and of the controllers without auth are all there is.
LEMMA CountsAdd ==
    ASSUME NEW s, IsList(s),
           \A i \in DOMAIN s : s[i].type \in {"missing-navigation-target", "missing-endpoint",
                "missing-auth-header", "missing-plugin", "missing-controller-auth"}
    PROVE  LET sum == References!AnalysisSummary(s) IN
           sum.navigation + sum.endpoint + sum.authHeader + sum.plugin
              + References!CountOf(s, "missing-controller-auth") = Len(s)
<1> DEFINE n(type) == Cardinality(Typed(s, type))
           T == Typed(s, "missing-navigation-target")
           E == Typed(s, "missing-endpoint")
           A == Typed(s, "missing-auth-header")
           P == Typed(s, "missing-plugin")
           C == Typed(s, "missing-controller-auth")
<1>1. \A type : References!CountOf(s, type) = n(type)
  BY SizeInReferences DEF References!CountOf, Typed
<1>2. IsFiniteSet(DOMAIN s)
  BY ListIs
<1>3. \A type : Typed(s, type) \subseteq DOMAIN s
  BY DEF Typed
<1>4. \A type : IsFiniteSet(Typed(s, type))
  BY <1>2, <1>3, FS_Subset
<1>5. DOMAIN s = (((T \union E) \union A) \union P) \union C
  BY DEF Typed
<1>6. /\ T \intersect E = {} /\ (T \union E) \intersect A = {}
      /\ ((T \union E) \union A) \intersect P = {}
      /\ (((T \union E) \union A) \union P) \intersect C = {}
  BY DEF Typed
<1>7. IsFiniteSet(T) /\ IsFiniteSet(E) /\ IsFiniteSet(A) /\ IsFiniteSet(P) /\ IsFiniteSet(C)
  BY <1>4
<1> HIDE DEF T, E, A, P, C
<1>8. /\ IsFiniteSet(T \union E) /\ Cardinality(T) \in Nat /\ Cardinality(E) \in Nat
      /\ Cardinality(T \union E) = Cardinality(T) + Cardinality(E)
  BY <1>6, <1>7, SizesAdd
<1>9. /\ IsFiniteSet((T \union E) \union A) /\ Cardinality(A) \in Nat
      /\ Cardinality((T \union E) \union A) = Cardinality(T \union E) + Cardinality(A)
  BY <1>6, <1>7, <1>8, SizesAdd
<1>10. /\ IsFiniteSet(((T \union E) \union A) \union P) /\ Cardinality(P) \in Nat
       /\ Cardinality(((T \union E) \union A) \union P) = Cardinality((T \union E) \union A) + Cardinality(P)
  BY <1>6, <1>7, <1>9, SizesAdd
<1>11. /\ Cardinality(C) \in Nat
       /\ Cardinality((((T \union E) \union A) \union P) \union C)
             = Cardinality(((T \union E) \union A) \union P) + Cardinality(C)
  BY <1>6, <1>7, <1>10, SizesAdd
<1>12. Len(s) = Cardinality(T) + Cardinality(E) + Cardinality(A) + Cardinality(P) + Cardinality(C)
  BY <1>5, <1>8, <1>9, <1>10, <1>11, LengthIs
<1>13. /\ References!CountOf(s, "missing-navigation-target") = Cardinality(T)
       /\ References!CountOf(s, "missing-endpoint") = Cardinality(E)
       /\ References!CountOf(s, "missing-auth-header") = Cardinality(A)
       /\ References!CountOf(s, "missing-plugin") = Cardinality(P)
       /\ References!CountOf(s, "missing-controller-auth") = Cardinality(C)
  BY <1>1 DEF T, E, A, P, C
<1>14. QED
  BY <1>12, <1>13 DEF References!AnalysisSummary

\* The two analysers agree where they can: an endpoint that the first misses is
\* missed by the second, and a view that the second misses by the first where it
\* looks; every issue of the first is counted (referenceAnalyzer.ts,
\* referenceDiagnostics.ts).
THEOREM AnalysersAlwaysAgree ==
    ASSUME NEW app, IsApplication(app), RunsItsCode(app)
    PROVE  References!AnalysersAgree(app)
<1> DEFINE s == References!analyze(app)
           simple == References!Range(s)
           full == References!Range(Shown(app))
           first(v) == UNION {UNION {References!Range(p.executeCode.refs) :
                                        p \in {p \in References!Range(References!HandlerOf(v.layout[e])) :
                                                  p.executeCode # None}}
                                 : e \in DOMAIN v.layout}
<1>1. simple = Range(s) /\ full = Range(Shown(app)) /\ References!Range(app.views) = Range(app.views)
  BY RangeInReferences
<1>2. ASSUME NEW v, NEW r \in first(v)
      PROVE  r \in ViewRefs(v)
  <2>1. PICK e \in DOMAIN v.layout : r \in UNION {References!Range(p.executeCode.refs) :
              p \in {p \in References!Range(References!HandlerOf(v.layout[e])) : p.executeCode # None}}
    OBVIOUS
  <2>2. PICK p \in References!Range(References!HandlerOf(v.layout[e])) :
           p.executeCode # None /\ r \in References!Range(p.executeCode.refs)
    BY <2>1
  <2>3. p \in Range(References!HandlerOf(v.layout[e])) /\ r \in Range(p.executeCode.refs)
    BY <2>2, RangeInReferences
  <2>4. PICK j \in DOMAIN References!HandlerOf(v.layout[e]) : p = References!HandlerOf(v.layout[e])[j]
    BY <2>3 DEF Range
  <2>5. r \in Executed(p)
    BY <2>2, <2>3 DEF Executed
  <2>6. r \in FirstRefs(v.layout[e])
    BY <2>4, <2>5 DEF FirstRefs
  <2>7. QED
    BY <2>6 DEF ViewRefs
<1> HIDE DEF s, simple, full, first
<1> DEFINE missed == {<<i.owner, i.target>> : i \in {x \in simple : x.type = "missing-endpoint"}}
           lost == {<<i.view, i.target>> : i \in {x \in full : x.type = "missing-controller"}}
           unseen == {<<i.view, i.target>> : i \in {x \in full : x.type = "missing-target-view"}}
           nowhere == {<<i.owner, i.target>> : i \in {x \in simple : x.type = "missing-navigation-target"}}
<1>3. missed \subseteq lost
  <2>1. SUFFICES ASSUME NEW x \in simple, x.type = "missing-endpoint"
                 PROVE  <<x.owner, x.target>> \in lost
    OBVIOUS
  <2>2. PICK y \in Range(Shown(app)) : /\ y.type = "missing-controller"
                                       /\ y.view = x.owner /\ y.target = x.target
    BY <1>1, <2>1, EndpointsMissed DEF s
  <2>3. QED
    BY <1>1, <2>2
<1>4. ASSUME NEW p \in unseen,
             \E v \in References!Range(app.views) : v.id = p[1] /\ \E r \in first(v) : r.kind = "view" /\ r.target = p[2]
      PROVE  p \in nowhere
  <2>1. PICK y \in full : y.type = "missing-target-view" /\ p = <<y.view, y.target>>
    OBVIOUS
  <2>2. p[1] = y.view /\ p[2] = y.target
    BY <2>1
  <2>3. PICK v \in Range(app.views) : v.id = y.view /\ \E r \in first(v) : r.kind = "view" /\ r.target = y.target
    BY <1>1, <1>4, <2>2
  <2>4. PICK r \in first(v) : r.kind = "view" /\ r.target = y.target
    BY <2>3
  <2>5. PICK x \in Range(s) : /\ x.type = "missing-navigation-target"
                              /\ x.owner = y.view /\ x.target = y.target
    BY <1>1, <1>2, <2>1, <2>3, <2>4, ViewsMissed DEF s
  <2>6. QED
    BY <1>1, <2>1, <2>5
<1>5. LET sum == References!AnalysisSummary(s) IN
      sum.navigation + sum.endpoint + sum.authHeader + sum.plugin
         + References!CountOf(s, "missing-controller-auth") = Len(s)
  <2>1. IsList(s)
    BY AnalysisIs DEF s
  <2>2. ASSUME NEW i \in DOMAIN s
        PROVE  s[i].type \in {"missing-navigation-target", "missing-endpoint",
                  "missing-auth-header", "missing-plugin", "missing-controller-auth"}
    <3>1. s[i] \in Range(s)
      BY DEF Range
    <3>2. \/ s[i].type \in {"missing-controller-auth", "missing-plugin"}
          \/ \E v \in Range(app.views) : OfCalls(app, v, ViewRefs(v), s[i])
      BY <3>1, AnalysisIs DEF s
    <3>3. QED
      BY <3>2 DEF OfCalls
  <2>3. QED
    BY <2>1, <2>2, CountsAdd
<1>6. QED
  BY <1>3, <1>4, <1>5 DEF References!AnalysersAgree, s, simple, full, first, Shown

-----------------------------------------------------------------------------
(* The samples.                                                            *)

LEMMA ListOfOne ==
    ASSUME NEW x
    PROVE  IsList(<<x>>) /\ Range(<<x>>) = {x}
<1>1. <<x>> \in Seq({x}) /\ DOMAIN <<x>> = {1} /\ <<x>>[1] = x
  OBVIOUS
<1>2. Range(<<x>>) = {x}
  BY <1>1 DEF Range
<1>3. QED
  BY <1>1, <1>2 DEF IsList

LEMMA ListOfThree ==
    ASSUME NEW x, NEW y, NEW z
    PROVE  IsList(<<x, y, z>>) /\ Range(<<x, y, z>>) = {x, y, z}
<1> DEFINE s == <<x, y, z>>
<1>1. s \in Seq({x, y, z}) /\ DOMAIN s = 1 .. 3 /\ s[1] = x /\ s[2] = y /\ s[3] = z
  OBVIOUS
<1> HIDE DEF s
<1>2. Range(s) = {x, y, z}
  <2>1. \A i : i \in 1 .. 3 <=> i = 1 \/ i = 2 \/ i = 3
    OBVIOUS
  <2>2. QED
    BY <1>1, <2>1 DEF Range
<1>3. QED
  BY <1>1, <1>2 DEF IsList, s

LEMMA SampleRefs ==
    /\ \A r \in MCRefs : IsRef(r)
    /\ IsRef(MCRef("element", "E9", None))
    /\ IsRef(MCRef("view", "Gone", None))
    /\ IsRef(MCRef("plugin", "lost", None))
<1>1. ASSUME NEW kind \in {"view", "endpoint", "element", "plugin"}, NEW target, NEW method,
             target # None
      PROVE  IsRef(MCRef(kind, target, method))
  BY <1>1 DEF IsRef, MCRef
<1>2. \A r \in MCRefs : r.target # None
  BY ApplicationsAssumption
<1>3. \A r \in MCRefs : \E kind \in {"view", "endpoint", "plugin"} : \E target, method :
                           r = MCRef(kind, target, method)
  BY DEF MCRefs
<1>4. \A kind, target, method : MCRef(kind, target, method).target = target
  BY DEF MCRef
<1>5. \A r \in MCRefs : IsRef(r)
  BY <1>1, <1>2, <1>3, <1>4
<1>6. "E9" # None /\ "Gone" # None
  BY ApplicationsAssumption DEF MCNames
<1>7. MCRef("plugin", "lost", None) \in MCRefs
  BY DEF MCRefs
<1>8. QED
  BY <1>1, <1>5, <1>6, <1>7

LEMMA SampleCodes ==
    ASSUME NEW n, NEW code \in MCCodes(n)
    PROVE  IsCode(code)
<1> DEFINE s == code.refs
<1>1. PICK k \in 0 .. n : s \in [1 .. k -> MCRefs]
  BY DEF MCCodes
<1> HIDE DEF s
<1>2. s \in Seq(MCRefs)
  <2>1. k \in Nat
    OBVIOUS
  <2>2. QED
    BY <1>1, <2>1
<1>3. DOMAIN s = 1 .. k /\ \A i \in 1 .. k : s[i] \in MCRefs
  BY <1>1
<1>4. IsList(s) /\ \A r \in Range(s) : r \in MCRefs
  BY <1>2, <1>3, ListOf DEF Range
<1>5. QED
  BY <1>4, SampleRefs DEF IsCode, s

RunsAll(e) ==
    \A on \in DOMAIN e.handlers : \A p \in Range(e.handlers[on]) : p.code = p.executeCode

LEMMA SampleElements ==
    ASSUME NEW id, NEW event, NEW code, IsCode(code), NEW settings, IsList(settings),
           \A r \in Range(settings) : IsRef(r)
    PROVE  LET e == MCElement(id, event, code, settings) IN
           IsElement(e) /\ RunsAll(e)
<1> DEFINE p0 == [executeCode |-> code, code |-> code]
           s == <<p0>>
           H == [on \in {event} |-> s]
           e == MCElement(id, event, code, settings)
<1>1. e = [id |-> id, handlers |-> H, settings |-> settings]
  BY DEF MCElement
<1>2. p0.code = code /\ p0.executeCode = code
  OBVIOUS
<1> HIDE DEF p0
<1>3. IsList(s) /\ Range(s) = {p0}
  BY ListOfOne
<1> HIDE DEF s
<1>4. DOMAIN H = {event} /\ H[event] = s
  OBVIOUS
<1> HIDE DEF H
<1>5. e.handlers = H /\ e.settings = settings
  BY <1>1
<1> HIDE DEF e
<1>6. IsFiniteSet({event})
  BY FS_Singleton
<1>7. IsHandler(s)
  BY <1>2, <1>3 DEF IsHandler
<1>8. IsElement(e)
  BY <1>4, <1>5, <1>6, <1>7 DEF IsElement
<1>9. RunsAll(e)
  BY <1>2, <1>3, <1>4, <1>5 DEF RunsAll
<1>10. QED
  BY <1>8, <1>9 DEF e

LEMMA SamplesAreApplications ==
    ASSUME NEW app \in MCApplications
    PROVE  IsApplication(app) /\ RunsItsCode(app)
<1>1. PICK code \in MCCodes(2), other \in {c \in MCCodes(1) : ~ c.bearer},
           settings \in {<<>>, <<MCRef("view", "Gone", None)>>, <<MCRef("element", "E9", None)>>},
           plugins \in {{}, {"auth"}} : app = MCApplication(code, other, settings, plugins)
  BY DEF MCApplications
<1>2. IsCode(code) /\ IsCode(other)
  BY SampleCodes
<1>3. IsList(settings) /\ \A r \in Range(settings) : IsRef(r)
  BY EmptyIs, ListOfOne, SampleRefs
<1>4. IsList(<<>>) /\ \A r \in Range(<<>>) : IsRef(r)
  BY EmptyIs
<1> DEFINE a0 == MCElement("e1", "onClick", code, settings)
           b0 == MCElement("e2", "onLoad", other, <<>>)
           x0 == [id |-> "home", names |-> {}, layout |-> <<a0>>]
           y0 == [id |-> "cart", names |-> {}, layout |-> <<b0>>]
           z0 == [id |-> None, names |-> {}, layout |-> <<>>]
           lost == MCRef("plugin", "lost", None)
           step0 == [refs |-> <<lost>>, bearer |-> FALSE]
           ctl0 == [id |-> "a", method |-> "GET", path |-> "/a", plugins |-> plugins,
                    steps |-> <<step0>>]
<1>5. IsElement(a0) /\ RunsAll(a0)
  BY <1>2, <1>3, SampleElements
<1>6. IsElement(b0) /\ RunsAll(b0)
  <2> DEFINE none == <<>>
  <2>1. IsList(none) /\ \A r \in Range(none) : IsRef(r)
    BY <1>4
  <2> HIDE DEF none
  <2>2. /\ IsElement(MCElement("e2", "onLoad", other, none))
        /\ RunsAll(MCElement("e2", "onLoad", other, none))
    BY <1>2, <2>1, SampleElements
  <2>3. QED
    BY <2>2 DEF none
<1>7. IsCode(step0)
  <2>1. IsRef(lost)
    BY SampleRefs
  <2> HIDE DEF lost
  <2>2. IsList(<<lost>>) /\ Range(<<lost>>) = {lost}
    BY ListOfOne
  <2>3. step0.refs = <<lost>>
    OBVIOUS
  <2> HIDE DEF step0
  <2>4. QED
    BY <2>1, <2>2, <2>3 DEF IsCode
<1>8. /\ app.views = <<x0, y0, z0>> /\ app.controllers = <<ctl0>>
  BY <1>1 DEF MCApplication
<1> HIDE DEF a0, b0, step0
<1>9. /\ x0.layout = <<a0>> /\ y0.layout = <<b0>> /\ z0.layout = <<>>
      /\ x0.id = "home" /\ y0.id = "cart" /\ ctl0.steps = <<step0>>
  OBVIOUS
<1> HIDE DEF x0, y0, z0, ctl0
<1>10. /\ IsList(app.views) /\ Range(app.views) = {x0, y0, z0}
       /\ IsList(app.controllers) /\ Range(app.controllers) = {ctl0}
  BY <1>8, ListOfOne, ListOfThree
<1>11. /\ IsList(<<a0>>) /\ Range(<<a0>>) = {a0} /\ IsList(<<b0>>) /\ Range(<<b0>>) = {b0}
       /\ IsList(<<step0>>) /\ Range(<<step0>>) = {step0} /\ IsList(<<>>) /\ Range(<<>>) = {}
  BY ListOfOne, EmptyIs
<1>12. IsView(x0) /\ IsView(y0) /\ IsView(z0) /\ IsController(ctl0)
  BY <1>5, <1>6, <1>7, <1>9, <1>11 DEF IsView, IsController
<1>13. IsApplication(app)
  BY <1>10, <1>12 DEF IsApplication
<1>14. "home" # None /\ "cart" # None
  BY ApplicationsAssumption DEF MCNames
<1>15. RunsItsCode(app)
  BY <1>5, <1>6, <1>9, <1>10, <1>11, <1>14 DEF RunsItsCode, RunsAll
<1>16. QED
  BY <1>13, <1>15

\* The analysers and the report of the issues are right for every application:
\* what is reported is what is broken, once, both agree where they can, and the
\* report leaves nothing out (referenceAnalyzer.ts, referenceDiagnostics.ts,
\* validationFormatter.ts).
THEOREM ReferencesStayComplete == MCSpec => []ReferencesHold
<1> DEFINE Inv == part = "applications" => sample \in MCApplications
<1>1. MCInit => Inv
  BY DEF MCInit
<1>2. Inv /\ [MCNext]_serviceVars => Inv'
  BY DEF MCNext, serviceVars
<1>3. Inv => ReferencesHold
  <2>1. SUFFICES ASSUME sample \in MCApplications
                 PROVE  /\ References!DiagnosisComplete(sample)
                        /\ References!AnalysersAgree(sample)
                        /\ Reports!ReportComplete(References!analyze(sample))
    BY DEF ReferencesHold
  <2>2. IsApplication(sample) /\ RunsItsCode(sample)
    BY <2>1, SamplesAreApplications
  <2>3. IsList(References!analyze(sample))
    BY <2>2, AnalysisIs
  <2>4. QED
    BY <2>2, <2>3, DiagnosisAlwaysComplete, AnalysersAlwaysAgree, ReportsAlwaysComplete
<1>4. QED
  BY <1>1, <1>2, <1>3, PTL DEF MCSpec

=============================================================================
