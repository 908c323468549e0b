----------------------------- MODULE References -----------------------------
(***************************************************************************)
(* The two analysers of an application's references: analyze, of           *)
(* referenceAnalyzer, and diagnose, of referenceDiagnostics.               *)
(*                                                                         *)
(* An application is [views, controllers, plugins, available].  A view has *)
(* an id, other names, and a layout of elements; an element has handlers,  *)
(* a function from events to sequences of plugins, and settings, the       *)
(* references its configuration makes outside code.  Code is the sequence  *)
(* of references that the patterns find in it, and whether it mentions a   *)
(* bearer token.  Names are compared trimmed and in lower case by diagnose *)
(* and as they are by analyze.                                             *)
(***************************************************************************)
EXTENDS Integers, Sequences, FiniteSets, SequencesExt, Lists

CONSTANTS
    Lower,              \* the trimmed, lower-case form of a name
    Exempt,             \* paths that contain login, register, reset, ...
    None

IdsOf(s) == {s[i].id : i \in DOMAIN s}

CountOf(issues, type) == Cardinality({i \in DOMAIN issues : issues[i].type = type})

-----------------------------------------------------------------------------
(* analyze: every reference that does not resolve is an issue, as often as *)
(* it is made.                                                             *)

\* Of the handlers of an element only the first one that is set.
HandlerOf(element) ==
    LET on == DOMAIN element.handlers
    IN CASE "onClick" \in on -> element.handlers["onClick"]
         [] "onClick" \notin on /\ "onSubmit" \in on -> element.handlers["onSubmit"]
         [] on \intersect {"onClick", "onSubmit"} = {} /\ "onLoad" \in on ->
              element.handlers["onLoad"]
         [] OTHER -> <<>>

\* Endpoints are compared by their path alone.
CallIssues(app, view, element, code) ==
    LET issue(type, r) == [type |-> type, owner |-> view.id, element |-> element.id,
                           target |-> r.target]
        paths == {app.controllers[i].path : i \in DOMAIN app.controllers}
    IN Each(code.refs, LAMBDA r :
         CASE r.kind = "view" ->
                When(r.target \notin IdsOf(app.views), issue("missing-navigation-target", r))
           [] r.kind = "endpoint" ->
                When(r.target \notin paths, issue("missing-endpoint", r))
                \o When(r.target \notin Exempt /\ ~code.bearer, issue("missing-auth-header", r))
           [] OTHER -> <<>>)

ControllerIssues(app, c) ==
    LET issue(type, target) == [type |-> type, owner |-> c.id, element |-> None, target |-> target]
    IN When(c.path \notin Exempt /\ "auth" \notin c.plugins,
            issue("missing-controller-auth", c.path))
       \o Each(c.steps, LAMBDA code : Each(code.refs, LAMBDA r :
             When(r.kind = "plugin" /\ r.target \notin app.available,
                  issue("missing-plugin", r.target))))

ElementIssues(app, view, element) ==
    Each(HandlerOf(element), LAMBDA p :
        IF p.executeCode = None THEN <<>> ELSE CallIssues(app, view, element, p.executeCode))

ViewIssues(app, view) == Each(view.layout, LAMBDA e : ElementIssues(app, view, e))

analyze(app) ==
    Each(app.views, LAMBDA v : ViewIssues(app, v))
    \o Each(app.controllers, LAMBDA c : ControllerIssues(app, c))

\* Controllers without auth are in the count of the issues alone.
AnalysisSummary(issues) ==
    [navigation |-> CountOf(issues, "missing-navigation-target"),
     endpoint   |-> CountOf(issues, "missing-endpoint"),
     authHeader |-> CountOf(issues, "missing-auth-header"),
     plugin     |-> CountOf(issues, "missing-plugin"),
     element    |-> 0]

-----------------------------------------------------------------------------
(* diagnose: one issue for a reference and the view that makes it.         *)

\* A view without an id is passed over.
Known(app) == Where(app.views, LAMBDA v : v.id # None)

ViewNames(app) == {Lower[n] : n \in UNION {{v.id} \union v.names : v \in Range(Known(app))}}

ElementNames(v) == {Lower[n] : n \in IdsOf(v.layout)}

AllElementNames(app) == UNION {ElementNames(v) : v \in Range(Known(app))}

PluginIds(app) == app.plugins \union app.available

Resolved(app, r) ==
    CASE r.kind = "view"     -> Lower[r.target] \in ViewNames(app)
      [] r.kind = "endpoint" -> \E i \in DOMAIN app.controllers :
                                   /\ app.controllers[i].method = r.method
                                   /\ app.controllers[i].path = r.target
      [] r.kind = "element"  -> Lower[r.target] \in ViewNames(app) \union AllElementNames(app)
      [] r.kind = "plugin"   -> r.target \in PluginIds(app)

IssueType(r) ==
    CASE r.kind = "view"     -> "missing-target-view"
      [] r.kind = "endpoint" -> "missing-controller"
      [] r.kind = "element"  -> "missing-element-reference"
      [] r.kind = "plugin"   -> "missing-plugin-reference"

\* Names of views and elements are normalised, paths and plugins are not.
KeyOf(view, r) ==
    <<view.id, IF r.kind \in {"view", "element"} THEN [r EXCEPT !.target = Lower[r.target]] ELSE r>>

\* recordIssue: an issue that is equal to an earlier one in everything but its
\* text is left out.
RecordIssue(state, issue) ==
    IF issue \in Range(state.issues) THEN state
    ELSE [state EXCEPT !.issues = Append(@, issue)]

\* A call of a controller is kept for the check of its headers; its text ends
\* at the path, so it never holds a token.
RecordUsage(app, view, r, inCode, state) ==
    LET called == {i \in DOMAIN app.controllers : /\ app.controllers[i].method = r.method
                                                  /\ app.controllers[i].path = r.target}
    IN IF r.kind # "endpoint" \/ called = {} THEN state
       ELSE [state EXCEPT !.usages = @ \union
               {[controller |-> app.controllers[CHOOSE i \in called : \A j \in called : j <= i].id,
                 view |-> view.id, ref |-> r, header |-> IF inCode THEN FALSE ELSE None]}]

\* A visit is a reference that an element of a view makes, in its code or in its
\* settings.  A controller counts as protected when its own code refers to an auth
\* plugin; only the code of elements is scanned, so no reference has a controller.
Refer(app, visit, state) ==
    LET view == visit.view  r == visit.ref
        used == RecordUsage(app, view, r, visit.inCode, state)
        seen == [used EXCEPT !.seen = @ \union {KeyOf(view, r)}]
    IN IF KeyOf(view, r) \in state.seen \/ Resolved(app, r) THEN seen
       ELSE RecordIssue(seen, [type |-> IssueType(r), view |-> view.id,
                               element |-> visit.element.id, target |-> r.target,
                               method |-> r.method])

\* The settings of an element; a parent that is its own view or an element of
\* it is not looked up.
SettingsOf(view, element) ==
    Where(element.settings, LAMBDA r :
        r.kind = "element" => Lower[r.target] \notin ElementNames(view) \union {Lower[view.id]})

CodeOf(element) ==
    Each(SetToSeq(DOMAIN element.handlers), LAMBDA e :
        Each(element.handlers[e], LAMBDA p : IF p.code = None THEN <<>> ELSE p.code.refs))

\* An element is visited for its settings, then for its code.
ScanElement(view, element) ==
    LET visits(refs, inCode) ==
          [i \in DOMAIN refs |-> [view |-> view, element |-> element, ref |-> refs[i],
                                  inCode |-> inCode]]
    IN visits(SettingsOf(view, element), FALSE) \o visits(CodeOf(element), TRUE)

ScanView(view) == Each(view.layout, LAMBDA e : ScanElement(view, e))

Nothing == [issues |-> <<>>, seen |-> {}, usages |-> {}, protected |-> {}]

Scanned(app) ==
    LET visits == Each(Known(app), LAMBDA v : ScanView(v))
        state[n \in 0 .. Len(visits)] ==
            IF n = 0 THEN Nothing ELSE Refer(app, visits[n], state[n - 1])
    IN state[Len(visits)]

\* The calls of a protected controller that carry no token.
CheckController(c, state) ==
    IF c.id \notin state.protected \/ c.path \in Exempt THEN state
    ELSE FoldLeft(LAMBDA t, u : RecordIssue(t, [type |-> "missing-auth-header", view |-> u.view,
                                       element |-> None, target |-> u.ref.target,
                                       method |-> u.ref.method]),
                  state, SetToSeq({u \in state.usages : u.controller = c.id}))

CheckHeaders(app, state) ==
    LET checked[n \in 0 .. Len(app.controllers)] ==
            IF n = 0 THEN state ELSE CheckController(app.controllers[n], checked[n - 1])
    IN checked[Len(app.controllers)]

\* References to elements are counted, and left out of the lists.
diagnose(app) ==
    LET all == CheckHeaders(app, Scanned(app)).issues
        kept == Where(all, LAMBDA i : i.type # "missing-element-reference")
    IN [issues |-> kept,
        views |-> [v \in {kept[i].view : i \in DOMAIN kept} |->
                      Where(kept, LAMBDA i : i.view = v)],
        summary |-> [t \in {"missing-target-view", "missing-controller",
                            "missing-element-reference", "missing-plugin-reference",
                            "missing-auth-header"} |-> CountOf(all, t)]]

-----------------------------------------------------------------------------
(* Properties of the diagnosis of an application.                          *)

References(view) ==
    UNION {Range(SettingsOf(view, view.layout[i])) \union Range(CodeOf(view.layout[i]))
              : i \in DOMAIN view.layout}

\* Every view's unresolved references are reported for that view, each once
\* however many of its elements make it, and nothing else is; the views of the
\* report share the issues out, and the header check never reports.
DiagnosisComplete(app) ==
    LET d == diagnose(app)
        key(i) == <<i.view, i.type, IF i.type = "missing-target-view" THEN Lower[i.target]
                                    ELSE i.target, i.method>>
        broken == UNION {{key([view |-> v.id, type |-> IssueType(r), target |-> r.target,
                               method |-> r.method])
                            : r \in {x \in References(v) : x.kind # "element" /\ ~Resolved(app, x)}}
                         : v \in Range(Known(app))}
    IN /\ {key(d.issues[i]) : i \in DOMAIN d.issues} = broken
       /\ Len(d.issues) = Cardinality(broken)
       /\ Len(d.issues) = SumFunction([v \in DOMAIN d.views |-> Len(d.views[v])])
       /\ d.summary["missing-auth-header"] = 0

\* The analysers agree where they can: an endpoint without a controller of its
\* path has none of its method, and a view that no name resolves has no id.
AnalysersAgree(app) ==
    LET simple == Range(analyze(app))
        full == Range(diagnose(app).issues)
        pairs(issues, type, owner(_)) == {<<owner(i), i.target>> : i \in {x \in issues : x.type = type}}
        simpleOwner(i) == i.owner
        fullOwner(i) == i.view
        lower(pairsOf) == {<<p[1], Lower[p[2]]>> : p \in pairsOf}
        first(v) == UNION {UNION {Range(p.executeCode.refs) :
                                     p \in {p \in Range(HandlerOf(v.layout[e])) : p.executeCode # None}}
                              : e \in DOMAIN v.layout}
    IN /\ pairs(simple, "missing-endpoint", simpleOwner) \subseteq
             pairs(full, "missing-controller", fullOwner)
       /\ \A p \in pairs(full, "missing-target-view", fullOwner) :
             (\E v \in Range(app.views) : v.id = p[1] /\ \E r \in first(v) : r.kind = "view" /\ r.target = p[2])
                => p \in pairs(simple, "missing-navigation-target", simpleOwner)
       /\ LET s == AnalysisSummary(analyze(app)) IN
          s.navigation + s.endpoint + s.authHeader + s.plugin
             + CountOf(analyze(app), "missing-controller-auth") = Len(analyze(app))
=============================================================================
