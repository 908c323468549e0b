-------------------------- MODULE ValidationReports --------------------------
(***************************************************************************)
(* What is made of the issues that References!analyze finds: the report    *)
(* for the planner, the fix tasks that are retried, and the settings of    *)
(* the validation, which presets and updates overwrite in part.            *)
(***************************************************************************)
EXTENDS Integers, Sequences, FiniteSets, SequencesExt, Lists

CONSTANTS
    MaxRetries,         \* of a fix task
    Loops,              \* the numbers of loops that may be set by hand; 0 stands
                        \* for all that run none: 0, a negative one, no number
    None

VARIABLES
    task,               \* a call of retryFixTask: attempts, delay, state, error
    config,             \* runtimeConfig: enabled, autoFix, loops
    environment,        \* the fields that the environment of the process sets
    byHand              \* history: the fields last set by hand, that is by the
                        \* environment of the process or by an update

settingVars == <<config, environment, byHand>>

reportVars == <<task, settingVars>>

-----------------------------------------------------------------------------
(* validationFormatter.                                                    *)

Categories == <<"navigation", "endpoint", "plugin", "element">>

deriveIssueCategory(type) ==
    CASE type = "missing-navigation-target" -> "navigation"
      [] type \in {"missing-endpoint", "missing-auth-header", "missing-controller-auth"} -> "endpoint"
      [] type = "missing-plugin" -> "plugin"
      [] OTHER -> "element"

getIssueSeverity(type) ==
    CASE type = "missing-auth-header" -> "critical"
      [] type \in {"missing-endpoint", "missing-navigation-target", "missing-controller-auth"} -> "high"
      [] type = "missing-plugin" -> "medium"
      [] OTHER -> "low"

suggestFixType(type) ==
    CASE type = "missing-auth-header" -> "fix_auth_header"
      [] type = "missing-endpoint" -> "create_controller"
      [] type = "missing-navigation-target" -> "create_view"
      [] type \in {"missing-plugin", "missing-controller-auth"} -> "configure_plugin"
      [] OTHER -> "fix_element_reference"

OfType(issues, type) == Where(issues, LAMBDA i : i.type = type)

groupIssuesByCategory(issues) ==
    [c \in Range(Categories) |-> Where(issues, LAMBDA i : deriveIssueCategory(i.type) = c)]

buildStructuredContext(issues) ==
    LET formatted == [i \in DOMAIN issues |->
            [type |-> issues[i].type, category |-> deriveIssueCategory(issues[i].type),
             severity |-> getIssueSeverity(issues[i].type), target |-> issues[i].target,
             fix |-> suggestFixType(issues[i].type)]]
    IN [total      |-> Len(issues),
        byCategory |-> [c \in Range(Categories) |-> Len(groupIssuesByCategory(issues)[c])],
        bySeverity |-> [s \in {"critical", "high", "medium", "low"} |->
                           Len(Where(formatted, LAMBDA i : i.severity = s))],
        issues     |-> formatted]

\* Mutation of formatEndpointIssues: the list of the controllers is forgotten.
formatEndpointIssuesOfViews(issues) ==
    OfType(issues, "missing-endpoint") \o OfType(issues, "missing-auth-header")

\* The endpoints of a report come in three lists, by their type.
formatEndpointIssues(issues) ==
    OfType(issues, "missing-endpoint") \o OfType(issues, "missing-auth-header")
    \o OfType(issues, "missing-controller-auth")

\* The text for the planner: its counts, then every issue under its category.
\* The counts by severity are taken from the groups.
buildMarkdownContext(issues) ==
    LET grouped == groupIssuesByCategory(issues) IN
    [severity |-> [critical |-> Len(OfType(grouped["endpoint"], "missing-auth-header")),
                   high |-> Len(grouped["navigation"]) + Len(OfType(grouped["endpoint"], "missing-endpoint"))
                            + Len(OfType(grouped["endpoint"], "missing-controller-auth")),
                   medium |-> Len(grouped["plugin"]),
                   low |-> Len(grouped["element"])],
     listed |-> grouped["navigation"] \o formatEndpointIssues(grouped["endpoint"])
                \o grouped["plugin"] \o grouped["element"]]

\* At most three views and five controllers of the application are shown.
buildApplicationContext(app) ==
    [views |-> SubSeq(app.views, 1, IF Len(app.views) < 3 THEN Len(app.views) ELSE 3),
     controllers |-> SubSeq(app.controllers, 1,
                            IF Len(app.controllers) < 5 THEN Len(app.controllers) ELSE 5)]

\* The text and the structure of a report tell the planner the same, and no
\* issue is left out of either.
ReportComplete(issues) ==
    LET text == buildMarkdownContext(issues)
        structured == buildStructuredContext(issues)
        count(s, x) == Cardinality({i \in DOMAIN s : s[i] = x})
    IN /\ \A x \in Range(issues) : count(text.listed, x) = count(issues, x)
       /\ Len(text.listed) = structured.total
       /\ text.severity = structured.bySeverity

-----------------------------------------------------------------------------
(* validationErrors: the errors and the retries of fix tasks.              *)

Errors == [class : {"validation", "fix", "planner", "network", "system", "other"},
           recoverable : BOOLEAN]       \* or retryable

\* An error of the expected class keeps what it says of itself.
handleValidationError(error) ==
    IF error.class = "validation" THEN error ELSE [class |-> "validation", recoverable |-> FALSE]

handleFixTaskError(error, attempts) ==
    IF error.class = "fix" THEN error ELSE [class |-> "fix", recoverable |-> attempts < MaxRetries]

handlePlannerError(error) ==
    IF error.class = "planner" THEN error ELSE [class |-> "planner", recoverable |-> FALSE]

isRecoverableError(error) ==
    CASE error.class \in {"validation", "fix"} -> error.recoverable
      [] error.class = "network" -> TRUE
      [] OTHER -> FALSE

shouldAlertOnError(error) == ~isRecoverableError(error) /\ error.class = "system"

aggregateErrors(errors) ==
    [total |-> Len(errors),
     recoverable |-> Len(Where(errors, isRecoverableError)),
     fatal |-> Len(Where(errors, LAMBDA e : ~isRecoverableError(e)))]

NoError == [class |-> "other", recoverable |-> FALSE]

FirstTask == [state |-> "attempt", attempts |-> 0, delay |-> 0, waited |-> 0, error |-> NoError]

\* An attempt answers, or fails with any error; the error of the last one is
\* replaced by one that is not to be retried.
AttemptSucceeds ==
    /\ task.state = "attempt"
    /\ task' = [task EXCEPT !.state = "done", !.attempts = @ + 1]
    /\ UNCHANGED settingVars

LastAttempt == task.attempts + 1 >= MaxRetries

\* Mutation of AttemptFails: the last error is passed on.
AttemptFailsAsItDid(error) ==
    /\ task.state = "attempt"
    /\ task' = IF LastAttempt
               THEN [task EXCEPT !.state = "failed", !.attempts = @ + 1,
                                 !.error = handleFixTaskError(error, task.attempts + 1)]
               ELSE [task EXCEPT !.state = "sleep", !.attempts = @ + 1,
                                 !.delay = 2 ^ task.attempts, !.error = error]
    /\ UNCHANGED settingVars

AttemptFails(error) ==
    /\ task.state = "attempt"
    /\ task' = IF LastAttempt
               THEN [task EXCEPT !.state = "failed", !.attempts = @ + 1,
                                 !.error = [class |-> "fix", recoverable |-> FALSE]]
               ELSE [task EXCEPT !.state = "sleep", !.attempts = @ + 1,
                                 !.delay = 2 ^ task.attempts, !.error = error]
    /\ UNCHANGED settingVars

Wake ==
    /\ task.state = "sleep"
    /\ task' = [task EXCEPT !.state = "attempt", !.waited = @ + task.delay]
    /\ UNCHANGED settingVars

-----------------------------------------------------------------------------
(* validation.config: presets, environments and updates set some of the    *)
(* fields.  Of the fields, those that say whether and how validation runs. *)

Fields == {"enabled", "autoFix", "loops"}

\* Settings of some of the fields.
SomeSettings ==
    {[f \in D |-> all[f]] :
        D \in SUBSET Fields,
        all \in [enabled : BOOLEAN, autoFix : BOOLEAN, loops : Loops]}

Updated(c, fields) == [f \in DOMAIN c |-> IF f \in DOMAIN fields THEN fields[f] ELSE c[f]]

BuiltIn == [enabled |-> TRUE, autoFix |-> TRUE, loops |-> 3]

DefaultConfig == Updated(BuiltIn, environment)

ENVIRONMENT_CONFIGS ==
    [development |-> [loops |-> 3],
     staging     |-> [loops |-> 3],
     production  |-> [loops |-> 2],
     test        |-> [enabled |-> FALSE, loops |-> 1]]

\* Mutation of VALIDATION_PRESETS: one of them leaves the loops as they are.
PresetsInPart ==
    [strict     |-> [enabled |-> TRUE, autoFix |-> TRUE, loops |-> 5],
     balanced   |-> [enabled |-> TRUE, autoFix |-> TRUE, loops |-> 3],
     permissive |-> [enabled |-> TRUE, autoFix |-> TRUE],
     disabled   |-> [enabled |-> FALSE, autoFix |-> FALSE, loops |-> 0]]

VALIDATION_PRESETS ==
    [strict     |-> [enabled |-> TRUE, autoFix |-> TRUE, loops |-> 5],
     balanced   |-> [enabled |-> TRUE, autoFix |-> TRUE, loops |-> 3],
     permissive |-> [enabled |-> TRUE, autoFix |-> TRUE, loops |-> 2],
     disabled   |-> [enabled |-> FALSE, autoFix |-> FALSE, loops |-> 0]]

\* The caller's own choice of fields.
updateValidationConfig(fields) ==
    /\ config' = Updated(config, fields)
    /\ byHand' = byHand \union DOMAIN fields
    /\ UNCHANGED <<environment, task>>

\* The same update with settings that the code fixes.
Apply(fields) ==
    /\ config' = Updated(config, fields)
    /\ byHand' = byHand \ DOMAIN fields
    /\ UNCHANGED <<environment, task>>

applyEnvironmentConfig(name) == Apply(ENVIRONMENT_CONFIGS[name])

applyValidationPreset(preset) == Apply(VALIDATION_PRESETS[preset])

resetValidationConfig ==
    /\ config' = DefaultConfig
    /\ byHand' = DOMAIN environment
    /\ UNCHANGED <<environment, task>>

-----------------------------------------------------------------------------
ReportsInit ==
    /\ task = FirstTask
    /\ environment \in SomeSettings
    /\ config = DefaultConfig
    /\ byHand = DOMAIN environment

TaskNext ==
    \/ AttemptSucceeds
    \/ \E e \in Errors : AttemptFails(e)
    \/ Wake

SettingsNext ==
    \/ \E fields \in SomeSettings : updateValidationConfig(fields)
    \/ \E e \in DOMAIN ENVIRONMENT_CONFIGS : applyEnvironmentConfig(e)
    \/ \E p \in DOMAIN VALIDATION_PRESETS : applyValidationPreset(p)
    \/ resetValidationConfig

\* A task is tried MaxRetries times at the most, with delays that double; what
\* is left of it is an error that nobody tries again, whatever went wrong.
RetriesEnd ==
    /\ task.attempts <= MaxRetries
    /\ task.state = "failed" => /\ task.attempts = MaxRetries
                                /\ task.waited = 2 ^ (MaxRetries - 1) - 1
                                /\ ~isRecoverableError(task.error)

\* Presets, environments, updates and resets overwrite parts of each other, in
\* any order; a validation that is on, and was not switched on by hand, still
\* has a loop to run and fixes what it finds, unless its loops, or the fixing,
\* were set by hand.
EnabledRuns ==
    config.enabled /\ "enabled" \notin byHand =>
        /\ config.loops > 0 \/ "loops" \in byHand
        /\ config.autoFix \/ "autoFix" \in byHand
=============================================================================
