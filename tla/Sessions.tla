------------------------------ MODULE Sessions ------------------------------
(***************************************************************************)
(* The session tracker: anonymous sessions of an address, the events of a  *)
(* session with their counters, and the backups of half-filled forms.      *)
(*                                                                         *)
(* Every handler reads a document, changes the copy and saves it.  A save  *)
(* writes the paths that were changed: events, pages and sections as       *)
(* $push, everything else as $set of what was computed from the copy.      *)
(***************************************************************************)
EXTENDS Integers, FiniteSets

CONSTANTS
    Hosts,          \* the clients
    Ids,            \* session identifiers: the bound on the sessions
    ClientIds,      \* those that clients make up and the tracker never issued
    CarriedKey,     \* the address those carry in their second part, or None
    Events,         \* the bound on the events
    EventKinds,     \* what clients report
    Pages,          \* pages and sections
    Forms, Contents,
    Procs,
    None

ASSUME SessionsAssumption ==
    /\ ClientIds \subseteq Ids
    /\ None \notin Hosts \union Ids \union Pages \union Contents
    /\ EventKinds \subseteq {"page_visit", "section_dwell", "page_change",
                             "page_close", "tab_close"}

VARIABLES
    sessions,       \* the documents: the identifier is unique
    used,           \* the events that clients have sent
    procs,          \* the requests in flight
    acked,          \* history: the events answered with success
    saved,          \* history: the form contents answered with success
    raced,          \* history: sessions touched by requests that overlapped
    lapsed,         \* history: sessions that were once inactive for a day
    reclosed        \* history: sessions that were closed after their end

sessionVars == <<sessions, used, procs, acked, saved, raced, lapsed, reclosed>>

-----------------------------------------------------------------------------
(* Addresses.  A header holds an address as IPv4 or mapped into IPv6.       *)

Raw == [form : {"v4", "mapped"}, host : Hosts]

Headers == [cf : Raw \union {None}, forwarded : Raw \union {None}, socket : Raw]

First(a, b) == IF a # None THEN a ELSE b

\* cleanIpAddress and IPUtil.cleanIP: "::ffff:" is cut off.
Clean(a) == a.host

\* IPUtil.hashIP, of what getOrCreateSessionByIp takes for the address: it does
\* not look at cf-connecting-ip.
HashedKey(h) == <<"hashed", Clean(First(h.forwarded, h.socket))>>

\* getClientIp: what startSession stores is not hashed.
ClientKey(h) == <<"raw", Clean(First(h.cf, First(h.forwarded, h.socket)))>>

Keys == {"hashed", "raw"} \X Hosts

\* A recovered session takes the second part of its identifier for its address.
RecoveredKey(s) == CarriedKey[s]

-----------------------------------------------------------------------------
(* Documents.                                                              *)

Event == [id : Events, kind : EventKinds, page : Pages]

\* No address and no event is None, and there are finitely many documents.
ASSUME DocumentsAssumption ==
    /\ IsFiniteSet(Ids) /\ None \notin Keys \union Event
    /\ CarriedKey \in [ClientIds -> Keys \union {None}]

Session == [exists : BOOLEAN,
            key : Keys \union {None},
            number : Nat,
            previous : Ids \union {None},
            active : BOOLEAN,
            stale : BOOLEAN,              \* a day without activity
            ended : Nat,                  \* the order of the end times, 0 for none
            info : {"parsed", "client", "defaults"},
            events : SUBSET Event,
            views : Nat, dwells : Nat,    \* metrics
            pages : [Pages -> Nat],       \* how often each one is listed
            backup : [Forms -> Contents \union {None}]]

NoPages == [x \in Pages |-> 0]

NoBackup == [f \in Forms |-> None]

Fresh(key, number, previous, info) ==
    [exists |-> TRUE, key |-> key, number |-> number, previous |-> previous,
     active |-> TRUE, stale |-> FALSE, ended |-> 0, info |-> info, events |-> {},
     views |-> 0, dwells |-> 0, pages |-> NoPages, backup |-> NoBackup]

Absent == [Fresh(None, 0, None, "defaults") EXCEPT !.exists = FALSE, !.active = FALSE]

Steps == {"idle", "find_existing", "find_previous", "insert", "touch", "update",
          "recover", "close", "save_event", "minimal", "find_backup",
          "save_backup", "clear"}

Proc == [step : Steps, id : Ids \union {None}, key : Keys \union {None},
         event : Event \union {None}, form : Forms \union {None},
         content : Contents \union {None}, copy : Session]

Idle == [step |-> "idle", id |-> None, key |-> None, event |-> None,
         form |-> None, content |-> None, copy |-> Absent]

SessionsTypeOK ==
    /\ sessions \in [Ids -> Session]
    /\ used \subseteq Events /\ acked \subseteq Event \X Ids
    /\ procs \in [Procs -> Proc]
    /\ saved \in [Ids -> [Forms -> Contents \union {None}]]
    /\ raced \subseteq Ids /\ lapsed \subseteq Ids /\ reclosed \subseteq Ids

SessionsInit ==
    /\ sessions = [s \in Ids |-> Absent]
    /\ used = {} /\ acked = {}
    /\ procs = [p \in Procs |-> Idle]
    /\ saved = [s \in Ids |-> NoBackup]
    /\ raced = {} /\ lapsed = {} /\ reclosed = {}

At(p, step) == procs[p].step = step

Recent(key) == {s \in Ids : /\ sessions[s].exists /\ sessions[s].key = key
                            /\ sessions[s].active /\ ~ sessions[s].stale}

Ended(key) == {s \in Ids : /\ sessions[s].exists /\ sessions[s].key = key
                           /\ ~ sessions[s].active}

Untaken(s) == /\ s \notin ClientIds /\ ~ sessions[s].exists
              /\ \A q \in Procs : procs[q].id # s

\* Requests that work on one document, or start sessions of one address, at
\* the same time.
Rivals(p, r) == {procs[q].id : q \in {q \in Procs \ {p} :
                    /\ procs[q].step # "idle" /\ r.id # None
                    /\ procs[q].id = r.id \/ (r.key # None /\ procs[q].key = r.key)}}

Go(p, r) ==
    /\ procs' = [procs EXCEPT ![p] = r]
    /\ raced' = raced \union (IF Rivals(p, r) = {} THEN {}
                              ELSE (Rivals(p, r) \union {r.id}) \ {None})

Done(p) == procs' = [procs EXCEPT ![p] = Idle] /\ UNCHANGED raced

Save(p, s, doc) == sessions' = [sessions EXCEPT ![s] = doc] /\ Done(p)

Kept == UNCHANGED <<used, acked, saved, lapsed, reclosed>>

-----------------------------------------------------------------------------
(* Starting a session.                                                     *)

\* getActiveSessionByIp finds one to touch, or startSession goes on to look
\* for one again.
GetOrCreateSessionByIp(p, h) ==
    LET key == HashedKey(h) IN
    /\ At(p, "idle")
    /\ IF Recent(key) # {}
       THEN \E s \in Recent(key) : Go(p, [Idle EXCEPT !.step = "touch", !.id = s])
       ELSE \E s \in Ids : /\ Untaken(s)
                           /\ Go(p, [Idle EXCEPT !.step = "find_existing",
                                                 !.id = s, !.key = key])
    /\ UNCHANGED sessions /\ Kept

\* POST without an identifier.  The service looks only among sessions of less
\* than a day, so its own check for expired ones finds none to close.
StartSession(p, h) ==
    LET key == ClientKey(h) IN
    /\ At(p, "idle")
    /\ IF Recent(key) # {}
       THEN \E s \in Recent(key) : Go(p, [Idle EXCEPT !.step = "touch", !.id = s])
       ELSE \E s \in Ids : /\ Untaken(s)
                           /\ Go(p, [Idle EXCEPT !.step = "find_previous",
                                                 !.id = s, !.key = key])
    /\ UNCHANGED sessions /\ Kept

FindExisting(p) ==
    /\ At(p, "find_existing")
    /\ IF Recent(procs[p].key) # {}
       THEN \E s \in Recent(procs[p].key) :
               Go(p, [Idle EXCEPT !.step = "touch", !.id = s])
       ELSE Go(p, [procs[p] EXCEPT !.step = "find_previous"])
    /\ UNCHANGED sessions /\ Kept

\* Mutation of FindPrevious: any earlier session of the address will do.
FindPreviousOpen(p) ==
    LET earlier == {s \in Ids : sessions[s].exists /\ sessions[s].key = procs[p].key} IN
    /\ At(p, "find_previous")
    /\ \E s \in earlier \union {None} :
          /\ s = None <=> earlier = {}
          /\ Go(p, [procs[p] EXCEPT !.step = "insert",
                      !.copy = Fresh(procs[p].key,
                                     IF s = None THEN 1 ELSE sessions[s].number + 1,
                                     s, "parsed")])
    /\ UNCHANGED sessions /\ Kept

\* The closed session of the address with the latest end.
FindPrevious(p) ==
    LET ended == Ended(procs[p].key) IN
    /\ At(p, "find_previous")
    /\ \E s \in ended \union {None} :
          /\ s = None <=> ended = {}
          /\ \A t \in ended : sessions[t].ended <= sessions[s].ended
          /\ Go(p, [procs[p] EXCEPT !.step = "insert",
                      !.copy = Fresh(procs[p].key,
                                     IF s = None THEN 1 ELSE sessions[s].number + 1,
                                     s, "parsed")])
    /\ UNCHANGED sessions /\ Kept

Insert(p) ==
    /\ At(p, "insert")
    /\ Save(p, procs[p].id, procs[p].copy)
    /\ Kept

Touch(p) ==
    /\ At(p, "touch")
    /\ Save(p, procs[p].id, [sessions[procs[p].id] EXCEPT !.stale = FALSE])
    /\ Kept

\* POST with an identifier: what the client knows is merged into the copy.
FindToUpdate(p, s) ==
    /\ At(p, "idle")
    /\ sessions[s].exists
    /\ Go(p, [Idle EXCEPT !.step = "update", !.id = s])
    /\ UNCHANGED sessions /\ Kept

UpdateSession(p) ==
    /\ At(p, "update")
    /\ Save(p, procs[p].id, [sessions[procs[p].id] EXCEPT !.stale = FALSE,
                                                          !.info = "client"])
    /\ Kept

-----------------------------------------------------------------------------
(* Recording an event.                                                     *)

\* A session of a day ago is closed instead; a dwell of less than a minute is
\* skipped.
Judge(r, doc) ==
    [r EXCEPT !.copy = doc, !.step = IF doc.stale THEN "close" ELSE "save_event"]

RecordEvent(p, s, e) ==
    LET r == [Idle EXCEPT !.id = s, !.event = e] IN
    /\ At(p, "idle")
    /\ e.id \notin used
    /\ s \in ClientIds \/ sessions[s].exists
    /\ used' = used \union {e.id}
    /\ Go(p, IF sessions[s].exists THEN Judge(r, sessions[s])
             ELSE [r EXCEPT !.step = "recover"])
    /\ UNCHANGED <<sessions, acked, saved, lapsed, reclosed>>

\* Another request may have created the document: the identifier is unique.
Recover(p) ==
    LET s   == procs[p].id
        doc == Fresh(RecoveredKey(s), 1, None, "defaults") IN
    /\ At(p, "recover")
    /\ IF sessions[s].exists THEN Done(p) /\ UNCHANGED sessions
       ELSE /\ sessions' = [sessions EXCEPT ![s] = doc]
            /\ Go(p, Judge(procs[p], doc))
    /\ Kept

LastEnd == CHOOSE n \in {sessions[s].ended : s \in Ids} : \A s \in Ids : sessions[s].ended <= n

NextEnd == LastEnd + 1

Closing(s) == reclosed' = reclosed \union (IF sessions[s].ended = 0 THEN {} ELSE {s})

CloseExpired(p) ==
    LET s == procs[p].id IN
    /\ At(p, "close")
    /\ Save(p, s, [sessions[s] EXCEPT !.active = FALSE, !.ended = NextEnd])
    /\ Closing(s)
    /\ UNCHANGED <<used, acked, saved, lapsed>>

\* Mutation of Pushed: the array that was read is written back.
PushedArray(doc, copy, e) == [doc EXCEPT !.events = copy.events \union {e}]

Pushed(doc, copy, e) == [doc EXCEPT !.events = @ \union {e}]

\* The counters of the copy plus one; a page is pushed unless the copy lists it.
Counted(doc, copy, e) ==
    LET listed == IF copy.pages[e.page] > 0 THEN doc.pages
                  ELSE [doc.pages EXCEPT ![e.page] = @ + 1] IN
    CASE e.kind = "page_visit"    -> [doc EXCEPT !.views = copy.views + 1, !.pages = listed]
      [] e.kind = "section_dwell" -> [doc EXCEPT !.dwells = copy.dwells + 1]
      [] e.kind = "tab_close"     -> [doc EXCEPT !.active = FALSE, !.ended = NextEnd]
      [] OTHER -> doc

SaveEvent(p) ==
    LET s == procs[p].id
        e == procs[p].event
        doc == Counted(Pushed(sessions[s], procs[p].copy, e), procs[p].copy, e) IN
    /\ At(p, "save_event")
    /\ Save(p, s, [doc EXCEPT !.stale = FALSE])
    /\ acked' = acked \union {<<e, s>>}
    /\ IF e.kind = "tab_close" THEN Closing(s) ELSE UNCHANGED reclosed
    /\ UNCHANGED <<used, saved, lapsed>>

-----------------------------------------------------------------------------
(* Backups of forms.                                                       *)

SaveDataBackup(p, s, f, content) ==
    /\ At(p, "idle")
    /\ s \in ClientIds \/ sessions[s].exists
    /\ Go(p, [Idle EXCEPT !.id = s, !.form = f, !.content = content,
                !.step = IF sessions[s].exists THEN "find_backup" ELSE "minimal"])
    /\ UNCHANGED sessions /\ Kept

\* createMinimalSession: a duplicate identifier is answered with an error.
CreateMinimalSession(p) ==
    LET s == procs[p].id
        f == procs[p].form IN
    /\ At(p, "minimal")
    /\ IF sessions[s].exists THEN Done(p) /\ UNCHANGED <<sessions, saved>>
       ELSE /\ Save(p, s, [Fresh(RecoveredKey(s), 1, None, "defaults") EXCEPT
                             !.backup[f] = procs[p].content])
            /\ saved' = [saved EXCEPT ![s][f] = procs[p].content]
    /\ UNCHANGED <<used, acked, lapsed, reclosed>>

FindBackup(p) ==
    /\ At(p, "find_backup")
    /\ Go(p, [procs[p] EXCEPT !.step = "save_backup", !.copy = sessions[procs[p].id]])
    /\ UNCHANGED sessions /\ Kept

\* markModified writes all of dataBackup, as it was when it was read.
SaveBackup(p) ==
    LET s == procs[p].id
        f == procs[p].form IN
    /\ At(p, "save_backup")
    /\ Save(p, s, [sessions[s] EXCEPT !.stale = FALSE,
                     !.backup = [procs[p].copy.backup EXCEPT ![f] = procs[p].content]])
    /\ saved' = [saved EXCEPT ![s][f] = procs[p].content]
    /\ UNCHANGED <<used, acked, lapsed, reclosed>>

FindToClear(p, s, f) ==
    /\ At(p, "idle")
    /\ sessions[s].exists
    /\ Go(p, [Idle EXCEPT !.step = "clear", !.id = s, !.form = f])
    /\ UNCHANGED sessions /\ Kept

\* Without markModified the deletion of one form is not written; an assignment
\* of the empty object is.
ClearBackup(p) ==
    LET s == procs[p].id IN
    /\ At(p, "clear")
    /\ IF procs[p].form # None THEN Done(p) /\ UNCHANGED <<sessions, saved>>
       ELSE /\ Save(p, s, [sessions[s] EXCEPT !.backup = NoBackup])
            /\ saved' = [saved EXCEPT ![s] = NoBackup]
    /\ UNCHANGED <<used, acked, lapsed, reclosed>>

\* A day passes without activity.
Lapse(s) ==
    /\ sessions[s].exists /\ ~ sessions[s].stale
    /\ \A p \in Procs : procs[p].id # s
    /\ sessions' = [sessions EXCEPT ![s].stale = TRUE]
    /\ lapsed' = lapsed \union {s}
    /\ UNCHANGED <<used, procs, acked, saved, raced, reclosed>>

SessionsNext ==
    \/ \E p \in Procs, h \in Headers : GetOrCreateSessionByIp(p, h) \/ StartSession(p, h)
    \/ \E p \in Procs, s \in Ids, e \in Event : RecordEvent(p, s, e)
    \/ \E p \in Procs, s \in Ids, f \in Forms, c \in Contents : SaveDataBackup(p, s, f, c)
    \/ \E p \in Procs, s \in Ids : FindToUpdate(p, s)
    \/ \E p \in Procs, s \in Ids, f \in Forms \union {None} : FindToClear(p, s, f)
    \/ \E p \in Procs :
          \/ FindExisting(p) \/ FindPrevious(p) \/ Insert(p) \/ Touch(p)
          \/ UpdateSession(p) \/ Recover(p) \/ CloseExpired(p) \/ SaveEvent(p)
          \/ CreateMinimalSession(p) \/ FindBackup(p) \/ SaveBackup(p) \/ ClearBackup(p)
    \/ \E s \in Ids : Lapse(s)

SessionsSpec == SessionsInit /\ [][SessionsNext]_sessionVars

-----------------------------------------------------------------------------
(* Properties.                                                             *)

OfKind(s, kind) == {e \in sessions[s].events : e.kind = kind}

\* getDwellAnalytics counts the stored events of every section.
DwellAnalytics(x) ==
    Cardinality({k \in Ids \X Event : /\ k[2] \in OfKind(k[1], "section_dwell")
                                      /\ k[2].page = x})

\* An event answered with success is stored, whatever other events of the
\* session are saved at the same time (the push at sessionTracker.service:160).
EventsKept == \A ack \in acked : ack[1] \in sessions[ack[2]].events

\* The counters are never ahead of the events and, like the list of pages,
\* agree with them unless two requests on the session overlapped.
CountersAgree ==
    \A s \in Ids :
        LET doc == sessions[s] IN
        /\ doc.views <= Cardinality(OfKind(s, "page_visit"))
        /\ doc.dwells <= Cardinality(OfKind(s, "section_dwell"))
        /\ s \notin raced =>
              /\ doc.views = Cardinality(OfKind(s, "page_visit"))
              /\ doc.dwells = Cardinality(OfKind(s, "section_dwell"))
              /\ \A x \in Pages : doc.pages[x] <= 1

\* A session continues a closed one of the same address and has the next
\* number; two continue the same one only if they were started at the same
\* time, if one of them lapsed without having been closed, or if the one that
\* they continue was closed again, by another tab or by a late event.
SessionsLinked ==
    \A s \in Ids :
        LET before == sessions[s].previous IN
        before # None =>
            /\ sessions[before].key = sessions[s].key
            /\ ~ sessions[before].active
            /\ sessions[s].number = sessions[before].number + 1
            /\ \A t \in Ids \ {s} : sessions[t].previous = before =>
                  before \in reclosed \/ {s, t} \intersect (raced \union lapsed) # {}

\* The content of a form answered as backed up is the one stored, unless two
\* requests on the session overlapped.
BackupsKept ==
    \A s \in Ids, f \in Forms : s \notin raced => sessions[s].backup[f] = saved[s][f]

TrackerSafe == EventsKept /\ CountersAgree /\ SessionsLinked /\ BackupsKept
=============================================================================
