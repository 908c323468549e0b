--------------------------- MODULE ServicesProofs ---------------------------
(***************************************************************************)
(* Proofs about the services around the core.                              *)
(*                                                                         *)
(* The session tracker comes first, for all sets of sessions, events and   *)
(* requests in flight: TrackerInv is about a document and the requests on  *)
(* it, ChainInv about the sessions of an address that continue each other. *)
(* The others follow in the instances of MCServices: for each of them the  *)
(* invariant that its property rests on.                                   *)
(***************************************************************************)
EXTENDS MCServices, SumLemmas, TLAPS

-----------------------------------------------------------------------------
(* The session tracker.                                                    *)

NewSteps == {"find_existing", "find_previous", "insert"}

\* The steps that write to a document that was found.
FoundSteps == {"touch", "update", "close", "save_event", "find_backup", "save_backup", "clear"}

EventSteps == {"recover", "close", "save_event"}

KindOf(doc, kind) == {e \in doc.events : e.kind = kind}

Visits(doc) == Cardinality(KindOf(doc, "page_visit"))

Dwells(doc) == Cardinality(KindOf(doc, "section_dwell"))

\* A document: one that was closed has an end, its counters are behind its
\* events or, if its requests never overlapped, with them, and so is its backup.
DocFine(s, doc, us, ra, la, sv) ==
    /\ doc.exists => (doc.active <=> doc.ended = 0)
    /\ ~ doc.exists => doc = Absent
    /\ IsFiniteSet(doc.events) /\ \A e \in doc.events : e.id \in us
    /\ doc.views <= Visits(doc) /\ doc.dwells <= Dwells(doc)
    /\ doc.stale => s \in la
    /\ s \notin ra =>
          /\ doc.views = Visits(doc) /\ doc.dwells = Dwells(doc)
          /\ \A x \in Pages : doc.pages[x] <= 1
          /\ doc.backup = sv

\* A request, and the document it works on.
RequestFine(r, doc, us, ra) ==
    /\ r.step = "idle" => r = Idle
    /\ r.step # "idle" => r.id \in Ids
    /\ r.step \notin NewSteps => r.key = None
    /\ r.step \notin EventSteps => r.event = None
    /\ r.step \in NewSteps =>
          r.key \in Keys /\ r.id \notin ClientIds /\ ~ doc.exists
    /\ r.step \in FoundSteps => doc.exists
    /\ r.step \in {"recover", "minimal"} => r.id \in ClientIds
    /\ r.step \in EventSteps =>
          r.event \in Event /\ r.event.id \in us /\ r.event \notin doc.events
    /\ r.step = "save_event" =>
          /\ r.copy.views <= Visits(doc) /\ r.copy.dwells <= Dwells(doc)
          /\ r.id \notin ra => /\ r.copy.views = doc.views /\ r.copy.dwells = doc.dwells
                               /\ r.copy.pages = doc.pages
    /\ r.step \in {"minimal", "find_backup", "save_backup"} =>
          r.form \in Forms /\ r.content \in Contents
    /\ r.step = "save_backup" /\ r.id \notin ra => r.copy.backup = doc.backup
    /\ r.step = "insert" =>
          r.copy = Fresh(r.key, r.copy.number, r.copy.previous, "parsed")

\* Two requests on one document, or starting sessions of one address, have met;
\* no two have the same event.
ApartFrom(r, o, ra) ==
    /\ r.id # None /\ r.id = o.id => r.id \in ra /\ r.step \notin NewSteps
    /\ r.key # None /\ r.key = o.key => r.id \in ra
    /\ r.event # None /\ o.event # None => r.event.id # o.event.id

\* The session that another one continues.
Continues(docs, doc) ==
    doc.previous # None =>
        /\ docs[doc.previous].exists /\ docs[doc.previous].key = doc.key
        /\ ~ docs[doc.previous].active
        /\ doc.number = docs[doc.previous].number + 1

\* A session that continues another one ended after it.
EndsLater(docs, doc, re) ==
    doc.previous # None /\ doc.previous \notin re /\ ~ doc.active =>
        doc.ended > docs[doc.previous].ended

\* Why a request that starts a session may find that s is still open, or that
\* s continues what its own session is to continue.
Excused(s, r, ra, la) == r.id \in ra \/ s \in ra \union la

StartFineFor(r, s, doc, ra, la, re) ==
    /\ r.step = "find_previous" /\ doc.exists /\ doc.key = r.key /\ doc.previous # None =>
          ~ doc.active \/ Excused(s, r, ra, la)
    /\ r.step = "insert" /\ doc.previous # None /\ doc.previous = r.copy.previous =>
          doc.previous \in re \/ Excused(s, r, ra, la)

SeenBy(r) == IF r.id \in Ids THEN sessions[r.id] ELSE Absent

TrackerInv ==
    /\ SessionsTypeOK
    /\ \A s \in Ids : DocFine(s, sessions[s], used, raced, lapsed, saved[s])
    /\ \A p \in Procs : RequestFine(procs[p], SeenBy(procs[p]), used, raced)
    /\ \A p, q \in Procs : p # q => ApartFrom(procs[p], procs[q], raced)
    /\ EventsKept

ChainInv ==
    /\ \A s \in Ids : Continues(sessions, sessions[s]) /\ EndsLater(sessions, sessions[s], reclosed)
    /\ \A p \in Procs : procs[p].step = "insert" => Continues(sessions, procs[p].copy)
    /\ \A p \in Procs, s \in Ids :
          StartFineFor(procs[p], s, sessions[s], raced, lapsed, reclosed)
    /\ \A s, t \in Ids :
          s # t /\ sessions[s].previous # None /\ sessions[s].previous = sessions[t].previous =>
             sessions[s].previous \in reclosed \/ {s, t} \intersect (raced \union lapsed) # {}

LEMMA SessionParts ==
    ASSUME NEW d \in Session
    PROVE  d = [exists |-> d.exists, key |-> d.key, number |-> d.number,
                previous |-> d.previous, active |-> d.active, stale |-> d.stale,
                ended |-> d.ended, info |-> d.info, events |-> d.events, views |-> d.views,
                dwells |-> d.dwells, pages |-> d.pages, backup |-> d.backup]
  BY DEF Session

LEMMA ProcParts ==
    ASSUME NEW r \in Proc
    PROVE  r = [step |-> r.step, id |-> r.id, key |-> r.key, event |-> r.event,
                form |-> r.form, content |-> r.content, copy |-> r.copy]
  BY DEF Proc

LEMMA NothingYet ==
    /\ NoPages \in [Pages -> Nat] /\ \A x \in Pages : NoPages[x] = 0
    /\ NoBackup \in [Forms -> Contents \union {None}]
  BY DEF NoPages, NoBackup

LEMMA FreshType ==
    ASSUME NEW key \in Keys \union {None}, NEW n \in Nat, NEW before \in Ids \union {None},
           NEW info \in {"parsed", "client", "defaults"}
    PROVE  /\ Fresh(key, n, before, info) \in Session
           /\ Fresh(key, n, before, info).exists /\ Fresh(key, n, before, info).active
           /\ ~ Fresh(key, n, before, info).stale
           /\ Fresh(key, n, before, info).key = key
           /\ Fresh(key, n, before, info).number = n
           /\ Fresh(key, n, before, info).previous = before
           /\ Fresh(key, n, before, info).ended = 0
           /\ Fresh(key, n, before, info).events = {}
           /\ Fresh(key, n, before, info).views = 0 /\ Fresh(key, n, before, info).dwells = 0
           /\ Fresh(key, n, before, info).pages = NoPages
           /\ Fresh(key, n, before, info).backup = NoBackup
<1>1. /\ Fresh(key, n, before, info) =
            [exists |-> TRUE, key |-> key, number |-> n, previous |-> before,
             active |-> TRUE, stale |-> FALSE, ended |-> 0, info |-> info, events |-> {},
             views |-> 0, dwells |-> 0, pages |-> NoPages, backup |-> NoBackup]
      /\ {} \in SUBSET Event /\ 0 \in Nat
  BY DEF Fresh
<1>2. Fresh(key, n, before, info) \in Session
  BY <1>1, NothingYet DEF Session
<1>3. QED
  BY <1>1, <1>2

LEMMA AbsentType ==
    /\ Absent \in Session /\ ~ Absent.exists /\ ~ Absent.active /\ ~ Absent.stale
    /\ Absent.previous = None /\ Absent.ended = 0 /\ Absent.events = {}
    /\ Absent.views = 0 /\ Absent.dwells = 0 /\ Absent.pages = NoPages
    /\ Absent.backup = NoBackup
<1> DEFINE fresh == Fresh(None, 0, None, "defaults")
<1>1. fresh = [exists |-> TRUE, key |-> None, number |-> 0, previous |-> None,
             active |-> TRUE, stale |-> FALSE, ended |-> 0, info |-> "defaults", events |-> {},
             views |-> 0, dwells |-> 0, pages |-> NoPages, backup |-> NoBackup]
  BY DEF Fresh
<1>2. Absent = [exists |-> FALSE, key |-> None, number |-> 0, previous |-> None,
             active |-> FALSE, stale |-> FALSE, ended |-> 0, info |-> "defaults", events |-> {},
             views |-> 0, dwells |-> 0, pages |-> NoPages, backup |-> NoBackup]
  <2> HIDE DEF fresh
  <2>1. PICK t : t = [fresh EXCEPT !.exists = FALSE]
    OBVIOUS
  <2>2. t = [exists |-> FALSE, key |-> None, number |-> 0, previous |-> None,
             active |-> TRUE, stale |-> FALSE, ended |-> 0, info |-> "defaults", events |-> {},
             views |-> 0, dwells |-> 0, pages |-> NoPages, backup |-> NoBackup]
    BY <1>1, <2>1
  <2>3. Absent = [t EXCEPT !.active = FALSE]
    BY <2>1 DEF Absent, fresh
  <2>4. QED
    BY <2>2, <2>3
<1>3. Absent \in Session
  <2>1. {} \in SUBSET Event /\ 0 \in Nat
    OBVIOUS
  <2>2. QED
    BY <1>2, <2>1, NothingYet DEF Session
<1>4. QED
  BY <1>2, <1>3

LEMMA IdleType ==
    /\ Idle \in Proc /\ Idle.step = "idle" /\ Idle.id = None /\ Idle.key = None
    /\ Idle.event = None /\ Idle.form = None /\ Idle.content = None /\ Idle.copy = Absent
<1>1. Idle = [step |-> "idle", id |-> None, key |-> None, event |-> None,
              form |-> None, content |-> None, copy |-> Absent] /\ "idle" \in Steps
  BY DEF Idle, Steps
<1>2. Idle \in Proc
  BY <1>1, AbsentType DEF Proc
<1>3. QED
  BY <1>1, <1>2

LEMMA KindsGrow ==
    ASSUME NEW d, NEW new, NEW kind, IsFiniteSet(new.events), d.events \subseteq new.events
    PROVE  /\ Cardinality(KindOf(new, kind)) \in Nat /\ Cardinality(KindOf(d, kind)) \in Nat
           /\ Cardinality(KindOf(d, kind)) <= Cardinality(KindOf(new, kind))
<1>1. KindOf(d, kind) \subseteq KindOf(new, kind) /\ KindOf(new, kind) \subseteq new.events
  BY DEF KindOf
<1>2. IsFiniteSet(KindOf(new, kind))
  BY <1>1, FS_Subset
<1>3. QED
  BY <1>1, <1>2, FS_Subset, FS_CardinalityType

LEMMA KindAdded ==
    ASSUME NEW d, NEW new, NEW kind, NEW e, IsFiniteSet(d.events),
           e \notin d.events, new.events = d.events \union {e}
    PROVE  /\ Cardinality(KindOf(d, kind)) \in Nat
           /\ Cardinality(KindOf(new, kind))
                = Cardinality(KindOf(d, kind)) + (IF e.kind = kind THEN 1 ELSE 0)
<1>1. IsFiniteSet(KindOf(d, kind)) /\ e \notin KindOf(d, kind)
  <2>1. KindOf(d, kind) \subseteq d.events
    BY DEF KindOf
  <2>2. QED
    BY <2>1, FS_Subset
<1>2. CASE e.kind = kind
  <2>1. KindOf(new, kind) = KindOf(d, kind) \union {e}
    BY <1>2 DEF KindOf
  <2>2. QED
    BY <1>1, <1>2, <2>1, FS_AddElement, FS_CardinalityType
<1>3. CASE e.kind # kind
  <2>1. KindOf(new, kind) = KindOf(d, kind)
    BY <1>3 DEF KindOf
  <2>2. QED
    BY <1>1, <1>3, <2>1, FS_CardinalityType
<1>4. QED
  BY <1>2, <1>3

\* More events are used, more sessions have met and lapsed.
LEMMA DocStaysFine ==
    ASSUME NEW s, NEW doc, NEW us, NEW ra, NEW la, NEW sv, NEW us1, NEW ra1, NEW la1,
           DocFine(s, doc, us, ra, la, sv),
           us \subseteq us1, ra \subseteq ra1, la \subseteq la1
    PROVE  DocFine(s, doc, us1, ra1, la1, sv)
  BY DEF DocFine

LEMMA RequestStaysFine ==
    ASSUME NEW r, NEW doc, NEW us, NEW ra, NEW us1, NEW ra1,
           RequestFine(r, doc, us, ra), us \subseteq us1, ra \subseteq ra1
    PROVE  RequestFine(r, doc, us1, ra1)
  BY DEF RequestFine

\* The document of a request that was not the only one is changed by another.
LEMMA RequestSeesChange ==
    ASSUME NEW r \in Proc, NEW doc \in Session, NEW new \in Session, NEW us, NEW ra,
           RequestFine(r, doc, us, ra), r.id \in ra, r.step \notin NewSteps,
           IsFiniteSet(new.events), doc.events \subseteq new.events,
           doc.exists => new.exists, r.event # None => r.event \notin new.events
    PROVE  RequestFine(r, new, us, ra)
<1>1. /\ Visits(new) \in Nat /\ Visits(doc) \in Nat /\ Visits(doc) <= Visits(new)
      /\ Dwells(new) \in Nat /\ Dwells(doc) \in Nat /\ Dwells(doc) <= Dwells(new)
  BY KindsGrow DEF Visits, Dwells
<1>2. r.copy.views \in Nat /\ r.copy.dwells \in Nat
  BY DEF Proc, Session
<1>3. r.step \in EventSteps => r.event # None
  BY DocumentsAssumption DEF RequestFine
<1> HIDE DEF Visits, Dwells
<1>4. r.step = "save_event" => r.copy.views <= Visits(new) /\ r.copy.dwells <= Dwells(new)
  BY <1>1, <1>2 DEF RequestFine
<1>5. QED
  BY <1>3, <1>4 DEF RequestFine

LEMMA IdleFine ==
    ASSUME NEW doc, NEW us, NEW ra
    PROVE  RequestFine(Idle, doc, us, ra)
  BY IdleType DEF RequestFine, NewSteps, EventSteps, FoundSteps

LEMMA IdleApart ==
    ASSUME NEW o \in Proc, NEW ra
    PROVE  ApartFrom(Idle, o, ra) /\ ApartFrom(o, Idle, ra)
  BY IdleType DEF ApartFrom

\* A step of one request on one document, and what it has to keep.
Writes(p, r, s, doc, sv) ==
    /\ procs' = [procs EXCEPT ![p] = r] /\ sessions' = [sessions EXCEPT ![s] = doc]
    /\ saved' = [saved EXCEPT ![s] = sv]
    /\ raced \subseteq raced' /\ raced' \subseteq Ids
    /\ used \subseteq used' /\ used' \subseteq Events
    /\ lapsed \subseteq lapsed' /\ lapsed' \subseteq Ids /\ reclosed' \subseteq Ids
    /\ acked' \subseteq Event \X Ids
    /\ DocFine(s, doc, used', raced', lapsed', sv)
    /\ RequestFine(r, SeenBy(r)', used', raced')
    /\ \A q \in Procs \ {p} :
          ApartFrom(r, procs[q], raced') /\ ApartFrom(procs[q], r, raced')
    /\ \A q \in Procs \ {p} : procs[q].id = s =>
          \/ doc = sessions[s]
          \/ /\ s \in raced' /\ procs[q].step \notin NewSteps
             /\ procs[q].event # None => procs[q].event \notin doc.events
    /\ sessions[s].exists => doc.exists
    /\ sessions[s].events \subseteq doc.events
    /\ \A ack \in acked' : ack \in acked \/ (ack[2] = s /\ ack[1] \in doc.events)

LEMMA TrackerMoves ==
    ASSUME TrackerInv,
           NEW p \in Procs, NEW r \in Proc, NEW s \in Ids, NEW doc \in Session,
           NEW sv \in [Forms -> Contents \union {None}], Writes(p, r, s, doc, sv)
    PROVE  TrackerInv'
<1> USE DEF Writes
<1>1. SessionsTypeOK'
  BY DEF TrackerInv, SessionsTypeOK
<1>2. ASSUME NEW t \in Ids
      PROVE  DocFine(t, sessions[t], used, raced, lapsed, saved[t])'
  <2>1. CASE t = s
    <3>1. sessions'[t] = doc /\ saved'[t] = sv
      BY <2>1 DEF TrackerInv, SessionsTypeOK
    <3>2. DocFine(t, sessions'[t], used', raced', lapsed', saved'[t])
      BY <2>1, <3>1
    <3>3. QED
      BY <3>2 DEF DocFine, Visits, Dwells, KindOf
  <2>2. CASE t # s
    <3>1. sessions'[t] = sessions[t] /\ saved'[t] = saved[t]
      BY <2>2 DEF TrackerInv, SessionsTypeOK
    <3>2. DocFine(t, sessions[t], used, raced, lapsed, saved[t])
      BY DEF TrackerInv
    <3>3. DocFine(t, sessions[t], used', raced', lapsed', saved[t])
      BY <3>2, DocStaysFine
    <3>4. QED
      BY <3>1, <3>3 DEF DocFine, Visits, Dwells, KindOf
  <2>3. QED
    BY <2>1, <2>2
<1>3. ASSUME NEW q \in Procs
      PROVE  RequestFine(procs[q], SeenBy(procs[q]), used, raced)'
  <2>1. CASE q = p
    <3>1. procs'[q] = r
      BY <2>1 DEF TrackerInv, SessionsTypeOK
    <3>2. SeenBy(procs[q])' = SeenBy(r)'
      BY <3>1 DEF SeenBy
    <3>3. RequestFine(procs'[q], SeenBy(procs[q])', used', raced')
      BY <3>1, <3>2
    <3>4. QED
      BY <3>3 DEF RequestFine, Visits, Dwells, KindOf
  <2>2. CASE q # p
    <3>0. PICK h \in Proc : h = procs[q]
      BY DEF TrackerInv, SessionsTypeOK
    <3>1. procs'[q] = h /\ SeenBy(procs[q])' = (IF h.id \in Ids THEN sessions'[h.id] ELSE Absent)
      BY <2>2, <3>0 DEF TrackerInv, SessionsTypeOK, SeenBy
    <3> DEFINE new == IF h.id \in Ids THEN sessions'[h.id] ELSE Absent
    <3>2. RequestFine(h, SeenBy(h), used, raced)
      BY <3>0 DEF TrackerInv
    <3>3. RequestFine(h, SeenBy(h), used', raced')
      BY <3>2, RequestStaysFine
    <3>4. RequestFine(h, new, used', raced')
      <4>1. CASE h.id # s \/ doc = sessions[s]
        <5>1. new = SeenBy(h)
          BY <4>1 DEF TrackerInv, SessionsTypeOK, SeenBy
        <5>2. QED
          BY <3>3, <5>1
      <4>2. CASE h.id = s /\ doc # sessions[s]
        <5>1. new = doc /\ SeenBy(h) = sessions[s] /\ sessions[s] \in Session
          BY <4>2 DEF TrackerInv, SessionsTypeOK, SeenBy
        <5>2. /\ h.id \in raced' /\ h.step \notin NewSteps
              /\ h.event # None => h.event \notin doc.events
          BY <2>2, <3>0, <4>2
        <5>3. IsFiniteSet(doc.events)
          BY DEF DocFine
        <5>4. QED
          BY <3>3, <5>1, <5>2, <5>3, RequestSeesChange
      <4>3. QED
        BY <4>1, <4>2
    <3> HIDE DEF new
    <3>5. RequestFine(procs'[q], SeenBy(procs[q])', used', raced')
      BY <3>1, <3>4 DEF new
    <3>6. QED
      BY <3>5 DEF RequestFine, Visits, Dwells, KindOf
  <2>3. QED
    BY <2>1, <2>2
<1>4. ASSUME NEW q \in Procs, NEW o \in Procs, q # o
      PROVE  ApartFrom(procs[q], procs[o], raced)'
  <2>1. ApartFrom(procs'[q], procs'[o], raced')
    <3>1. CASE q = p
      BY <1>4, <3>1 DEF TrackerInv, SessionsTypeOK
    <3>2. CASE o = p
      BY <1>4, <3>2 DEF TrackerInv, SessionsTypeOK
    <3>3. CASE q # p /\ o # p
      <4>1. procs'[q] = procs[q] /\ procs'[o] = procs[o] /\ ApartFrom(procs[q], procs[o], raced)
        BY <1>4, <3>3 DEF TrackerInv, SessionsTypeOK
      <4>2. QED
        BY <4>1 DEF ApartFrom
    <3>4. QED
      BY <3>1, <3>2, <3>3
  <2>2. QED
    BY <2>1 DEF ApartFrom
<1>5. EventsKept'
  <2>1. ASSUME NEW ack \in acked' PROVE ack[1] \in sessions'[ack[2]].events
    <3>1. ack[2] \in Ids
      OBVIOUS
    <3>2. CASE ack \in acked
      <4>1. ack[1] \in sessions[ack[2]].events
        BY <3>2 DEF TrackerInv, EventsKept
      <4>2. QED
        BY <3>1, <4>1 DEF TrackerInv, SessionsTypeOK
    <3>3. CASE ack[2] = s /\ ack[1] \in doc.events
      BY <3>3 DEF TrackerInv, SessionsTypeOK
    <3>4. QED
      BY <3>2, <3>3
  <2>2. QED
    BY <2>1 DEF EventsKept
<1>6. QED
  BY <1>1, <1>2, <1>3, <1>4, <1>5 DEF TrackerInv

\* Go notes who has met: what a request is about to do is apart from the others.
LEMMA GoApart ==
    ASSUME TrackerInv, NEW p \in Procs, NEW r \in Proc, Go(p, r),
           r.step # "idle", r.id \in Ids,
           r.step \notin NewSteps => r.key = None /\ (sessions[r.id].exists \/ r.id \in ClientIds),
           r.step \in NewSteps => \/ Untaken(r.id)
                                  \/ r.id = procs[p].id /\ procs[p].step \in NewSteps,
           r.event # None => r.event = procs[p].event \/ r.event.id \notin used
    PROVE  /\ raced \subseteq raced' /\ raced' \subseteq Ids
           /\ procs' = [procs EXCEPT ![p] = r]
           /\ \A q \in Procs \ {p} :
                 ApartFrom(r, procs[q], raced') /\ ApartFrom(procs[q], r, raced')
<1>1. procs \in [Procs -> Proc] /\ raced \subseteq Ids /\ None \notin Ids
  BY SessionsAssumption DEF TrackerInv, SessionsTypeOK
<1>2. Rivals(p, r) \subseteq Ids \union {None}
  BY <1>1 DEF Rivals, Proc
<1>3. raced \subseteq raced' /\ raced' \subseteq Ids /\ procs' = [procs EXCEPT ![p] = r]
  BY <1>1, <1>2 DEF Go
<1>4. ASSUME NEW q \in Procs \ {p}
      PROVE  ApartFrom(r, procs[q], raced') /\ ApartFrom(procs[q], r, raced')
  <2>0. PICK h \in Proc : h = procs[q]
    BY <1>1
  <2>1. RequestFine(h, SeenBy(h), used, raced)
    BY <2>0 DEF TrackerInv
  <2>2. /\ ApartFrom(procs[p], h, raced) /\ ApartFrom(h, procs[p], raced)
    BY <1>4, <2>0 DEF TrackerInv
  <2>3. h.id # None \/ h.key # None => h.step # "idle" /\ h.id \in Ids
    BY <2>1, IdleType DEF RequestFine
  <2>4. ASSUME h.id = r.id \/ (r.key # None /\ h.key = r.key)
        PROVE  h.id \in raced' /\ r.id \in raced'
    <3>1. h.step # "idle" /\ h.id # None /\ r.id # None
      BY <1>1, <2>3, <2>4
    <3>2. h.id \in Rivals(p, r)
      BY <1>4, <2>0, <2>4, <3>1 DEF Rivals
    <3>3. QED
      BY <3>1, <3>2 DEF Go
  <2>5. ASSUME h.id = r.id
        PROVE  r.step \notin NewSteps /\ h.step \notin NewSteps
    <3>1. ~ Untaken(r.id)
      BY <1>4, <2>0, <2>5 DEF Untaken
    <3>2. r.step \notin NewSteps
      BY <1>1, <2>2, <2>5, <3>1 DEF ApartFrom
    <3>3. SeenBy(h) = sessions[r.id]
      BY <2>5 DEF SeenBy
    <3>4. QED
      BY <2>1, <2>5, <3>2, <3>3 DEF RequestFine
  <2>6. ASSUME r.event # None, h.event # None
        PROVE  r.event.id # h.event.id
    <3>1. h.event.id \in used
      BY <2>1, <2>6 DEF RequestFine
    <3>2. QED
      BY <2>2, <2>6, <3>1 DEF ApartFrom
  <2>7. QED
    BY <2>0, <2>4, <2>5, <2>6 DEF ApartFrom
<1>5. QED
  BY <1>3, <1>4

\* A request moves on, or starts, and leaves the documents alone.
MovesTo(p, r) ==
    /\ Go(p, r) /\ sessions' = sessions
    /\ UNCHANGED <<acked, saved, lapsed, reclosed>>
    /\ used \subseteq used' /\ used' \subseteq Events
    /\ r.step # "idle" /\ r.id \in Ids /\ RequestFine(r, sessions[r.id], used', raced')
    /\ r.step \in NewSteps => \/ Untaken(r.id)
                              \/ r.id = procs[p].id /\ procs[p].step \in NewSteps
    /\ r.event # None => r.event = procs[p].event \/ r.event.id \notin used

LEMMA RequestMoves ==
    ASSUME TrackerInv, NEW p \in Procs, NEW r \in Proc, MovesTo(p, r)
    PROVE  TrackerInv'
<1> USE DEF MovesTo
<1> DEFINE s == r.id
<1>1. /\ sessions \in [Ids -> Session] /\ saved \in [Ids -> [Forms -> Contents \union {None}]]
      /\ lapsed \subseteq Ids /\ reclosed \subseteq Ids /\ acked \subseteq Event \X Ids
      /\ r.step \in Steps
  BY DEF TrackerInv, SessionsTypeOK, Proc
<1>2. r.step \notin NewSteps => r.key = None /\ (sessions[r.id].exists \/ r.id \in ClientIds)
  BY <1>1 DEF RequestFine, NewSteps, FoundSteps, Steps
<1>3. /\ raced \subseteq raced' /\ raced' \subseteq Ids
      /\ procs' = [procs EXCEPT ![p] = r]
      /\ \A q \in Procs \ {p} :
            ApartFrom(r, procs[q], raced') /\ ApartFrom(procs[q], r, raced')
  BY <1>2, GoApart
<1>4. sessions' = [sessions EXCEPT ![s] = sessions[s]] /\ saved' = [saved EXCEPT ![s] = saved[s]]
  BY <1>1
<1>5. DocFine(s, sessions[s], used', raced', lapsed', saved[s])
  <2>1. DocFine(s, sessions[s], used, raced, lapsed, saved[s])
    BY DEF TrackerInv
  <2>2. QED
    BY <1>3, <2>1, DocStaysFine
<1>6. RequestFine(r, SeenBy(r)', used', raced')
  BY DEF SeenBy
<1>7. sessions[s] \in Session /\ saved[s] \in [Forms -> Contents \union {None}]
  BY <1>1
<1>8. \A ack \in acked' : ack \in acked
  OBVIOUS
<1> HIDE DEF s
<1>9. Writes(p, r, s, sessions[s], saved[s])
  BY <1>1, <1>3, <1>4, <1>5, <1>6, <1>7, <1>8 DEF Writes
<1>10. QED
  BY <1>7, <1>9, TrackerMoves DEF s

\* A request writes to its document and is done.
Stores(p, s, doc, sv) ==
    /\ s = procs[p].id /\ Save(p, s, doc) /\ saved' = [saved EXCEPT ![s] = sv]
    /\ used' = used /\ lapsed' = lapsed
    /\ reclosed' \subseteq Ids /\ acked' \subseteq Event \X Ids
    /\ DocFine(s, doc, used, raced, lapsed, sv)
    /\ doc.exists /\ sessions[s].events \subseteq doc.events
    /\ doc.events \subseteq sessions[s].events \union ({procs[p].event} \ {None})
    /\ \A ack \in acked' : ack \in acked \/ (ack[2] = s /\ ack[1] \in doc.events)

LEMMA DocumentMoves ==
    ASSUME TrackerInv, NEW p \in Procs, NEW s \in Ids, NEW doc \in Session,
           NEW sv \in [Forms -> Contents \union {None}], Stores(p, s, doc, sv)
    PROVE  TrackerInv'
<1> USE DEF Stores
<1>1. /\ procs \in [Procs -> Proc] /\ used \subseteq Events /\ lapsed \subseteq Ids
      /\ raced \subseteq Ids
  BY DEF TrackerInv, SessionsTypeOK
<1>2. procs' = [procs EXCEPT ![p] = Idle] /\ sessions' = [sessions EXCEPT ![s] = doc]
      /\ raced' = raced
  BY DEF Save, Done
<1>3. Idle \in Proc /\ RequestFine(Idle, SeenBy(Idle)', used', raced')
  BY IdleType, IdleFine
<1>4. \A q \in Procs \ {p} :
         ApartFrom(Idle, procs[q], raced') /\ ApartFrom(procs[q], Idle, raced')
  BY <1>1, IdleApart
<1>5. ASSUME NEW q \in Procs \ {p}, procs[q].id = s
      PROVE  /\ s \in raced' /\ procs[q].step \notin NewSteps
             /\ procs[q].event # None => procs[q].event \notin doc.events
  <2>0. PICK h \in Proc : h = procs[q]
    BY <1>1
  <2>1. /\ ApartFrom(procs[p], h, raced) /\ ApartFrom(h, procs[p], raced)
        /\ RequestFine(h, SeenBy(h), used, raced) /\ SeenBy(h) = sessions[s]
    BY <1>5, <2>0 DEF TrackerInv, SeenBy
  <2>2. s # None
    BY SessionsAssumption
  <2>3. s \in raced /\ h.step \notin NewSteps
    BY <1>5, <2>0, <2>1, <2>2 DEF ApartFrom
  <2>4. h.event # None => h.event \notin sessions[s].events /\ h.event # procs[p].event
    BY <2>1 DEF RequestFine, ApartFrom
  <2>5. QED
    BY <1>2, <2>0, <2>3, <2>4
<1>6. /\ raced \subseteq raced' /\ raced' \subseteq Ids /\ used \subseteq used' /\ used' \subseteq Events
      /\ lapsed \subseteq lapsed' /\ lapsed' \subseteq Ids
      /\ DocFine(s, doc, used', raced', lapsed', sv)
  BY <1>1, <1>2
<1>7. PICK r \in Proc : r = Idle
  BY <1>3
<1>8. \A q \in Procs \ {p} : procs[q].id = s =>
         \/ doc = sessions[s]
         \/ /\ s \in raced' /\ procs[q].step \notin NewSteps
            /\ procs[q].event # None => procs[q].event \notin doc.events
  BY <1>5
<1>9. /\ procs' = [procs EXCEPT ![p] = r] /\ RequestFine(r, SeenBy(r)', used', raced')
      /\ \A q \in Procs \ {p} : ApartFrom(r, procs[q], raced') /\ ApartFrom(procs[q], r, raced')
  <2>1. SeenBy(r)' = SeenBy(Idle)'
    BY <1>7 DEF SeenBy
  <2>2. QED
    BY <1>2, <1>3, <1>4, <1>7, <2>1
<1>10. Writes(p, r, s, doc, sv)
  BY <1>2, <1>6, <1>8, <1>9 DEF Writes
<1>11. QED
  BY <1>10, TrackerMoves

\* A request for a document.
AsFound(step1, id1) == [Idle EXCEPT !.step = step1, !.id = id1]

LEMMA FoundRequest ==
    ASSUME NEW step1 \in Steps,
           NEW id1 \in Ids \union {None}
    PROVE  /\ AsFound(step1, id1) \in Proc
           /\ AsFound(step1, id1).step = step1
           /\ AsFound(step1, id1).id = id1
           /\ AsFound(step1, id1).key = Idle.key
           /\ AsFound(step1, id1).event = Idle.event
           /\ AsFound(step1, id1).form = Idle.form
           /\ AsFound(step1, id1).content = Idle.content
           /\ AsFound(step1, id1).copy = Idle.copy
<1>1. Idle = [step |-> Idle.step, id |-> Idle.id, key |-> Idle.key, event |-> Idle.event,
            form |-> Idle.form, content |-> Idle.content, copy |-> Idle.copy]
  BY IdleType, ProcParts
<1>2. PICK u1 : u1 = [Idle EXCEPT !.step = step1]
  OBVIOUS
<1>3. u1 = [step |-> step1, id |-> Idle.id, key |-> Idle.key, event |-> Idle.event,
            form |-> Idle.form, content |-> Idle.content, copy |-> Idle.copy]
  BY <1>1, <1>2
<1>4. PICK u2 : u2 = [u1 EXCEPT !.id = id1]
  OBVIOUS
<1>5. u2 = [step |-> step1, id |-> id1, key |-> Idle.key, event |-> Idle.event,
            form |-> Idle.form, content |-> Idle.content, copy |-> Idle.copy]
  BY <1>3, <1>4
<1>6. AsFound(step1, id1) = u2
  BY <1>2, <1>4 DEF AsFound
<1>7. u2 \in Proc
  BY <1>5, IdleType DEF Proc
<1>8. QED
  BY <1>5, <1>6, <1>7

\* A request that starts a session of an address.
AsNew(step1, id1, key1) == [Idle EXCEPT !.step = step1, !.id = id1, !.key = key1]

LEMMA NewRequest ==
    ASSUME NEW step1 \in Steps,
           NEW id1 \in Ids \union {None},
           NEW key1 \in Keys \union {None}
    PROVE  /\ AsNew(step1, id1, key1) \in Proc
           /\ AsNew(step1, id1, key1).step = step1
           /\ AsNew(step1, id1, key1).id = id1
           /\ AsNew(step1, id1, key1).key = key1
           /\ AsNew(step1, id1, key1).event = Idle.event
           /\ AsNew(step1, id1, key1).form = Idle.form
           /\ AsNew(step1, id1, key1).content = Idle.content
           /\ AsNew(step1, id1, key1).copy = Idle.copy
<1>1. Idle = [step |-> Idle.step, id |-> Idle.id, key |-> Idle.key, event |-> Idle.event,
            form |-> Idle.form, content |-> Idle.content, copy |-> Idle.copy]
  BY IdleType, ProcParts
<1>2. PICK u1 : u1 = [Idle EXCEPT !.step = step1]
  OBVIOUS
<1>3. u1 = [step |-> step1, id |-> Idle.id, key |-> Idle.key, event |-> Idle.event,
            form |-> Idle.form, content |-> Idle.content, copy |-> Idle.copy]
  BY <1>1, <1>2
<1>4. PICK u2 : u2 = [u1 EXCEPT !.id = id1]
  OBVIOUS
<1>5. u2 = [step |-> step1, id |-> id1, key |-> Idle.key, event |-> Idle.event,
            form |-> Idle.form, content |-> Idle.content, copy |-> Idle.copy]
  BY <1>3, <1>4
<1>6. PICK t3 : t3 = [u2 EXCEPT !.key = key1]
  OBVIOUS
<1>7. t3 = [step |-> step1, id |-> id1, key |-> key1, event |-> Idle.event,
            form |-> Idle.form, content |-> Idle.content, copy |-> Idle.copy]
  BY <1>5, <1>6
<1>8. AsNew(step1, id1, key1) = t3
  BY <1>2, <1>4, <1>6 DEF AsNew
<1>9. t3 \in Proc
  BY <1>7, IdleType DEF Proc
<1>10. QED
  BY <1>7, <1>8, <1>9

\* A request with an event.
AsEvent(id1, event1) == [Idle EXCEPT !.id = id1, !.event = event1]

LEMMA EventRequest ==
    ASSUME NEW id1 \in Ids \union {None},
           NEW event1 \in Event \union {None}
    PROVE  /\ AsEvent(id1, event1) \in Proc
           /\ AsEvent(id1, event1).step = Idle.step
           /\ AsEvent(id1, event1).id = id1
           /\ AsEvent(id1, event1).key = Idle.key
           /\ AsEvent(id1, event1).event = event1
           /\ AsEvent(id1, event1).form = Idle.form
           /\ AsEvent(id1, event1).content = Idle.content
           /\ AsEvent(id1, event1).copy = Idle.copy
<1>1. Idle = [step |-> Idle.step, id |-> Idle.id, key |-> Idle.key, event |-> Idle.event,
            form |-> Idle.form, content |-> Idle.content, copy |-> Idle.copy]
  BY IdleType, ProcParts
<1>2. PICK u1 : u1 = [Idle EXCEPT !.id = id1]
  OBVIOUS
<1>3. u1 = [step |-> Idle.step, id |-> id1, key |-> Idle.key, event |-> Idle.event,
            form |-> Idle.form, content |-> Idle.content, copy |-> Idle.copy]
  BY <1>1, <1>2
<1>4. PICK u2 : u2 = [u1 EXCEPT !.event = event1]
  OBVIOUS
<1>5. u2 = [step |-> Idle.step, id |-> id1, key |-> Idle.key, event |-> event1,
            form |-> Idle.form, content |-> Idle.content, copy |-> Idle.copy]
  BY <1>3, <1>4
<1>6. AsEvent(id1, event1) = u2
  BY <1>2, <1>4 DEF AsEvent
<1>7. u2 \in Proc
  BY <1>5, IdleType DEF Proc
<1>8. QED
  BY <1>5, <1>6, <1>7

\* A request with the content of a form.
AsBackup(id1, form1, content1, step1) == [Idle EXCEPT !.id = id1, !.form = form1, !.content = content1, !.step = step1]

LEMMA BackupRequest ==
    ASSUME NEW id1 \in Ids \union {None},
           NEW form1 \in Forms \union {None},
           NEW content1 \in Contents \union {None},
           NEW step1 \in Steps
    PROVE  /\ AsBackup(id1, form1, content1, step1) \in Proc
           /\ AsBackup(id1, form1, content1, step1).step = step1
           /\ AsBackup(id1, form1, content1, step1).id = id1
           /\ AsBackup(id1, form1, content1, step1).key = Idle.key
           /\ AsBackup(id1, form1, content1, step1).event = Idle.event
           /\ AsBackup(id1, form1, content1, step1).form = form1
           /\ AsBackup(id1, form1, content1, step1).content = content1
           /\ AsBackup(id1, form1, content1, step1).copy = Idle.copy
<1>1. Idle = [step |-> Idle.step, id |-> Idle.id, key |-> Idle.key, event |-> Idle.event,
            form |-> Idle.form, content |-> Idle.content, copy |-> Idle.copy]
  BY IdleType, ProcParts
<1>2. PICK u1 : u1 = [Idle EXCEPT !.id = id1]
  OBVIOUS
<1>3. u1 = [step |-> Idle.step, id |-> id1, key |-> Idle.key, event |-> Idle.event,
            form |-> Idle.form, content |-> Idle.content, copy |-> Idle.copy]
  BY <1>1, <1>2
<1>4. PICK u2 : u2 = [u1 EXCEPT !.form = form1]
  OBVIOUS
<1>5. u2 = [step |-> Idle.step, id |-> id1, key |-> Idle.key, event |-> Idle.event,
            form |-> form1, content |-> Idle.content, copy |-> Idle.copy]
  BY <1>3, <1>4
<1>6. PICK t3 : t3 = [u2 EXCEPT !.content = content1]
  OBVIOUS
<1>7. t3 = [step |-> Idle.step, id |-> id1, key |-> Idle.key, event |-> Idle.event,
            form |-> form1, content |-> content1, copy |-> Idle.copy]
  BY <1>5, <1>6
<1>8. PICK t4 : t4 = [t3 EXCEPT !.step = step1]
  OBVIOUS
<1>9. t4 = [step |-> step1, id |-> id1, key |-> Idle.key, event |-> Idle.event,
            form |-> form1, content |-> content1, copy |-> Idle.copy]
  BY <1>7, <1>8
<1>10. AsBackup(id1, form1, content1, step1) = t4
  BY <1>2, <1>4, <1>6, <1>8 DEF AsBackup
<1>11. t4 \in Proc
  BY <1>9, IdleType DEF Proc
<1>12. QED
  BY <1>9, <1>10, <1>11

\* A request that clears a form.
AsClear(step1, id1, form1) == [Idle EXCEPT !.step = step1, !.id = id1, !.form = form1]

LEMMA ClearRequest ==
    ASSUME NEW step1 \in Steps,
           NEW id1 \in Ids \union {None},
           NEW form1 \in Forms \union {None}
    PROVE  /\ AsClear(step1, id1, form1) \in Proc
           /\ AsClear(step1, id1, form1).step = step1
           /\ AsClear(step1, id1, form1).id = id1
           /\ AsClear(step1, id1, form1).key = Idle.key
           /\ AsClear(step1, id1, form1).event = Idle.event
           /\ AsClear(step1, id1, form1).form = form1
           /\ AsClear(step1, id1, form1).content = Idle.content
           /\ AsClear(step1, id1, form1).copy = Idle.copy
<1>1. Idle = [step |-> Idle.step, id |-> Idle.id, key |-> Idle.key, event |-> Idle.event,
            form |-> Idle.form, content |-> Idle.content, copy |-> Idle.copy]
  BY IdleType, ProcParts
<1>2. PICK u1 : u1 = [Idle EXCEPT !.step = step1]
  OBVIOUS
<1>3. u1 = [step |-> step1, id |-> Idle.id, key |-> Idle.key, event |-> Idle.event,
            form |-> Idle.form, content |-> Idle.content, copy |-> Idle.copy]
  BY <1>1, <1>2
<1>4. PICK u2 : u2 = [u1 EXCEPT !.id = id1]
  OBVIOUS
<1>5. u2 = [step |-> step1, id |-> id1, key |-> Idle.key, event |-> Idle.event,
            form |-> Idle.form, content |-> Idle.content, copy |-> Idle.copy]
  BY <1>3, <1>4
<1>6. PICK t3 : t3 = [u2 EXCEPT !.form = form1]
  OBVIOUS
<1>7. t3 = [step |-> step1, id |-> id1, key |-> Idle.key, event |-> Idle.event,
            form |-> form1, content |-> Idle.content, copy |-> Idle.copy]
  BY <1>5, <1>6
<1>8. AsClear(step1, id1, form1) = t3
  BY <1>2, <1>4, <1>6 DEF AsClear
<1>9. t3 \in Proc
  BY <1>7, IdleType DEF Proc
<1>10. QED
  BY <1>7, <1>8, <1>9

\* A request that moves on.
AsMoved(r0, step1) == [r0 EXCEPT !.step = step1]

LEMMA Advances ==
    ASSUME NEW r0 \in Proc,
           NEW step1 \in Steps
    PROVE  /\ AsMoved(r0, step1) \in Proc
           /\ AsMoved(r0, step1).step = step1
           /\ AsMoved(r0, step1).id = r0.id
           /\ AsMoved(r0, step1).key = r0.key
           /\ AsMoved(r0, step1).event = r0.event
           /\ AsMoved(r0, step1).form = r0.form
           /\ AsMoved(r0, step1).content = r0.content
           /\ AsMoved(r0, step1).copy = r0.copy
<1>1. r0 = [step |-> r0.step, id |-> r0.id, key |-> r0.key, event |-> r0.event,
            form |-> r0.form, content |-> r0.content, copy |-> r0.copy]
  BY IdleType, ProcParts
<1>2. PICK u1 : u1 = [r0 EXCEPT !.step = step1]
  OBVIOUS
<1>3. u1 = [step |-> step1, id |-> r0.id, key |-> r0.key, event |-> r0.event,
            form |-> r0.form, content |-> r0.content, copy |-> r0.copy]
  BY <1>1, <1>2
<1>4. AsMoved(r0, step1) = u1
  BY <1>2 DEF AsMoved
<1>5. u1 \in Proc
  BY <1>3, IdleType DEF Proc
<1>6. QED
  BY <1>3, <1>4, <1>5

\* A request that moves on with a copy.
AsCopied(r0, step1, copy1) == [r0 EXCEPT !.step = step1, !.copy = copy1]

LEMMA Copies ==
    ASSUME NEW r0 \in Proc,
           NEW step1 \in Steps,
           NEW copy1 \in Session
    PROVE  /\ AsCopied(r0, step1, copy1) \in Proc
           /\ AsCopied(r0, step1, copy1).step = step1
           /\ AsCopied(r0, step1, copy1).id = r0.id
           /\ AsCopied(r0, step1, copy1).key = r0.key
           /\ AsCopied(r0, step1, copy1).event = r0.event
           /\ AsCopied(r0, step1, copy1).form = r0.form
           /\ AsCopied(r0, step1, copy1).content = r0.content
           /\ AsCopied(r0, step1, copy1).copy = copy1
<1>1. r0 = [step |-> r0.step, id |-> r0.id, key |-> r0.key, event |-> r0.event,
            form |-> r0.form, content |-> r0.content, copy |-> r0.copy]
  BY IdleType, ProcParts
<1>2. PICK u1 : u1 = [r0 EXCEPT !.step = step1]
  OBVIOUS
<1>3. u1 = [step |-> step1, id |-> r0.id, key |-> r0.key, event |-> r0.event,
            form |-> r0.form, content |-> r0.content, copy |-> r0.copy]
  BY <1>1, <1>2
<1>4. PICK u2 : u2 = [u1 EXCEPT !.copy = copy1]
  OBVIOUS
<1>5. u2 = [step |-> step1, id |-> r0.id, key |-> r0.key, event |-> r0.event,
            form |-> r0.form, content |-> r0.content, copy |-> copy1]
  BY <1>3, <1>4
<1>6. AsCopied(r0, step1, copy1) = u2
  BY <1>2, <1>4 DEF AsCopied
<1>7. u2 \in Proc
  BY <1>5, IdleType DEF Proc
<1>8. QED
  BY <1>5, <1>6, <1>7

\* The same, as Judge writes it.
AsJudged(r0, copy1, step1) == [r0 EXCEPT !.copy = copy1, !.step = step1]

LEMMA Judged ==
    ASSUME NEW r0 \in Proc,
           NEW copy1 \in Session,
           NEW step1 \in Steps
    PROVE  /\ AsJudged(r0, copy1, step1) \in Proc
           /\ AsJudged(r0, copy1, step1).step = step1
           /\ AsJudged(r0, copy1, step1).id = r0.id
           /\ AsJudged(r0, copy1, step1).key = r0.key
           /\ AsJudged(r0, copy1, step1).event = r0.event
           /\ AsJudged(r0, copy1, step1).form = r0.form
           /\ AsJudged(r0, copy1, step1).content = r0.content
           /\ AsJudged(r0, copy1, step1).copy = copy1
<1>1. r0 = [step |-> r0.step, id |-> r0.id, key |-> r0.key, event |-> r0.event,
            form |-> r0.form, content |-> r0.content, copy |-> r0.copy]
  BY IdleType, ProcParts
<1>2. PICK u1 : u1 = [r0 EXCEPT !.copy = copy1]
  OBVIOUS
<1>3. u1 = [step |-> r0.step, id |-> r0.id, key |-> r0.key, event |-> r0.event,
            form |-> r0.form, content |-> r0.content, copy |-> copy1]
  BY <1>1, <1>2
<1>4. PICK u2 : u2 = [u1 EXCEPT !.step = step1]
  OBVIOUS
<1>5. u2 = [step |-> step1, id |-> r0.id, key |-> r0.key, event |-> r0.event,
            form |-> r0.form, content |-> r0.content, copy |-> copy1]
  BY <1>3, <1>4
<1>6. AsJudged(r0, copy1, step1) = u2
  BY <1>2, <1>4 DEF AsJudged
<1>7. u2 \in Proc
  BY <1>5, IdleType DEF Proc
<1>8. QED
  BY <1>5, <1>6, <1>7

LEMMA KeysOfHeaders ==
    ASSUME NEW h \in Headers
    PROVE  HashedKey(h) \in Keys /\ ClientKey(h) \in Keys
<1>1. First(h.forwarded, h.socket) \in Raw
  BY DEF Headers, First
<1>2. First(h.cf, First(h.forwarded, h.socket)) \in Raw
  BY <1>1 DEF Headers, First
<1>3. QED
  BY <1>1, <1>2 DEF HashedKey, ClientKey, Keys, Clean, Raw

\* A request goes to a document that it found.
LEMMA GoesToFound ==
    ASSUME TrackerInv, NEW p \in Procs, NEW s \in Ids, sessions[s].exists,
           NEW step \in {"touch", "update"},
           Go(p, [Idle EXCEPT !.step = step, !.id = s]), UNCHANGED sessions, Kept
    PROVE  TrackerInv'
<1>1. PICK r : r = AsFound(step, s)
  OBVIOUS
<1>2. step \in Steps /\ s \in Ids \union {None}
  BY DEF Steps
<1>3. r \in Proc /\ r.step = step /\ r.id = s /\ r.key = None /\ r.event = None
  BY <1>1, <1>2, IdleType, FoundRequest
<1>4. RequestFine(r, sessions[s], used', raced')
  BY <1>3 DEF RequestFine, NewSteps, FoundSteps, EventSteps
<1>5. Go(p, r)
  BY <1>1 DEF AsFound
<1>6. used' = used /\ used \subseteq Events /\ UNCHANGED <<acked, saved, lapsed, reclosed>>
  BY DEF TrackerInv, SessionsTypeOK, Kept
<1>7. MovesTo(p, r)
  BY <1>3, <1>4, <1>5, <1>6 DEF MovesTo, NewSteps
<1>8. QED
  BY <1>3, <1>7, RequestMoves

\* Starting a session.
LEMMA StartsFine ==
    ASSUME TrackerInv, NEW p \in Procs, NEW h \in Headers,
           GetOrCreateSessionByIp(p, h) \/ StartSession(p, h)
    PROVE  TrackerInv'
<1>0. PICK step \in {"find_existing", "find_previous"}, key \in Keys :
         /\ IF Recent(key) # {}
            THEN \E s \in Recent(key) : Go(p, [Idle EXCEPT !.step = "touch", !.id = s])
            ELSE \E s \in Ids : Untaken(s) /\ Go(p, [Idle EXCEPT !.step = step, !.id = s,
                                                                !.key = key])
         /\ UNCHANGED sessions /\ Kept
  <2>1. CASE GetOrCreateSessionByIp(p, h)
    BY <2>1, KeysOfHeaders DEF GetOrCreateSessionByIp
  <2>2. CASE StartSession(p, h)
    BY <2>2, KeysOfHeaders DEF StartSession
  <2>3. QED
    BY <2>1, <2>2
<1>1. CASE Recent(key) # {}
  <2>1. PICK s \in Recent(key) : Go(p, [Idle EXCEPT !.step = "touch", !.id = s])
    BY <1>0, <1>1
  <2>2. s \in Ids /\ sessions[s].exists
    BY DEF Recent
  <2>3. QED
    BY <1>0, <2>1, <2>2, GoesToFound
<1>2. CASE Recent(key) = {}
  <2>1. PICK s \in Ids : Untaken(s) /\ Go(p, [Idle EXCEPT !.step = step, !.id = s, !.key = key])
    BY <1>0, <1>2
  <2>2. PICK r : r = AsNew(step, s, key)
    OBVIOUS
  <2>3. step \in Steps /\ s \in Ids \union {None} /\ key \in Keys \union {None}
    BY DEF Steps
  <2>4. r \in Proc /\ r.step = step /\ r.id = s /\ r.key = key /\ r.event = None
    BY <2>2, <2>3, IdleType, NewRequest
  <2>5. RequestFine(r, sessions[s], used', raced')
    BY <2>1, <2>4 DEF RequestFine, NewSteps, FoundSteps, EventSteps, Untaken
  <2>6. used' = used /\ used \subseteq Events /\ UNCHANGED <<acked, saved, lapsed, reclosed>>
    BY <1>0 DEF TrackerInv, SessionsTypeOK, Kept
  <2>7. Go(p, r) /\ r.step # "idle"
    BY <2>1, <2>2, <2>4 DEF AsNew
  <2>8. MovesTo(p, r)
    BY <1>0, <2>1, <2>4, <2>5, <2>6, <2>7 DEF MovesTo
  <2>9. QED
    BY <2>4, <2>8, RequestMoves
<1>3. QED
  BY <1>1, <1>2

LEMMA FindExistingFine ==
    ASSUME TrackerInv, NEW p \in Procs, FindExisting(p)
    PROVE  TrackerInv'
<1>0. PICK o \in Proc : o = procs[p]
  BY DEF TrackerInv, SessionsTypeOK
<1>1. CASE Recent(o.key) # {}
  <2>1. PICK s \in Recent(o.key) : Go(p, [Idle EXCEPT !.step = "touch", !.id = s])
    BY <1>0, <1>1 DEF FindExisting
  <2>2. s \in Ids /\ sessions[s].exists
    BY DEF Recent
  <2>3. UNCHANGED sessions /\ Kept
    BY DEF FindExisting
  <2>4. QED
    BY <2>1, <2>2, <2>3, GoesToFound
<1>2. CASE Recent(o.key) = {}
  <2>1. PICK r : r = AsMoved(o, "find_previous")
    OBVIOUS
  <2>2. /\ Go(p, r) /\ UNCHANGED sessions /\ o.step = "find_existing"
        /\ used' = used /\ UNCHANGED <<acked, saved, lapsed, reclosed>>
    BY <1>0, <1>2, <2>1 DEF FindExisting, Kept, At, AsMoved
  <2>3. /\ r \in Proc /\ r.step = "find_previous" /\ r.id = o.id /\ r.key = o.key
        /\ r.event = o.event
    BY <2>1, Advances DEF Steps
  <2>4. RequestFine(o, SeenBy(o), used, raced) /\ used \subseteq Events
    BY <1>0 DEF TrackerInv, SessionsTypeOK
  <2>5. o.id \in Ids /\ o.step \in NewSteps
    BY <2>2, <2>4 DEF RequestFine, NewSteps
  <2>6. RequestFine(r, sessions[r.id], used', raced')
    <3>1. SeenBy(o) = sessions[r.id]
      BY <2>3, <2>5 DEF SeenBy
    <3>2. QED
      BY <2>2, <2>3, <2>4, <2>5, <3>1 DEF RequestFine, NewSteps, FoundSteps, EventSteps
  <2>7. MovesTo(p, r)
    BY <1>0, <2>2, <2>3, <2>4, <2>5, <2>6 DEF MovesTo
  <2>8. QED
    BY <2>3, <2>7, RequestMoves
<1>3. QED
  BY <1>1, <1>2

LEMMA FindPreviousFine ==
    ASSUME TrackerInv, NEW p \in Procs, FindPrevious(p)
    PROVE  TrackerInv'
<1>0. PICK o \in Proc : o = procs[p]
  BY DEF TrackerInv, SessionsTypeOK
<1>1. PICK s \in Ended(o.key) \union {None} :
         Go(p, [o EXCEPT !.step = "insert",
                         !.copy = Fresh(o.key, IF s = None THEN 1 ELSE sessions[s].number + 1,
                                        s, "parsed")])
  BY <1>0 DEF FindPrevious
<1>2. PICK n : n = IF s = None THEN 1 ELSE sessions[s].number + 1
  OBVIOUS
<1>3. s \in Ids \union {None} /\ n \in Nat
  BY <1>2 DEF Ended, TrackerInv, SessionsTypeOK, Session
<1>4. PICK copy : copy = Fresh(o.key, n, s, "parsed")
  OBVIOUS
<1>5. copy \in Session /\ copy.number = n /\ copy.previous = s
  BY <1>3, <1>4, FreshType DEF Proc
<1>6. PICK r : r = AsCopied(o, "insert", copy)
  OBVIOUS
<1>7. /\ Go(p, r) /\ UNCHANGED sessions /\ o.step = "find_previous"
      /\ used' = used /\ UNCHANGED <<acked, saved, lapsed, reclosed>>
  <2>1. Go(p, [o EXCEPT !.step = "insert", !.copy = copy])
    BY <1>1, <1>2, <1>4
  <2>2. Go(p, r)
    BY <1>6, <2>1 DEF AsCopied
  <2>3. QED
    BY <1>0, <2>2 DEF FindPrevious, Kept, At
<1>8. /\ r \in Proc /\ r.step = "insert" /\ r.id = o.id /\ r.key = o.key
      /\ r.event = o.event /\ r.copy = copy
  <2>1. "insert" \in Steps /\ copy \in Session
    BY <1>5 DEF Steps
  <2>2. QED
    BY <1>6, <2>1, Copies
<1>9. RequestFine(o, SeenBy(o), used, raced) /\ used \subseteq Events
  BY <1>0 DEF TrackerInv, SessionsTypeOK
<1>10. o.id \in Ids /\ o.step \in NewSteps
  BY <1>7, <1>9 DEF RequestFine, NewSteps
<1>11. RequestFine(r, sessions[r.id], used', raced')
  <2>1. SeenBy(o) = sessions[r.id]
    BY <1>8, <1>10 DEF SeenBy
  <2>2. QED
    BY <1>4, <1>5, <1>7, <1>8, <1>9, <1>10, <2>1 DEF RequestFine, NewSteps, FoundSteps, EventSteps
<1>12. MovesTo(p, r)
  BY <1>0, <1>7, <1>8, <1>9, <1>10, <1>11 DEF MovesTo
<1>13. QED
  BY <1>8, <1>12, RequestMoves

\* An update, and what is done to the content of a form.
LEMMA FindFine ==
    ASSUME TrackerInv, NEW p \in Procs, NEW s \in Ids,
           \/ FindToUpdate(p, s)
           \/ \E f \in Forms, c \in Contents : SaveDataBackup(p, s, f, c)
           \/ \E f \in Forms \union {None} : FindToClear(p, s, f)
    PROVE  TrackerInv'
<1>1. CASE FindToUpdate(p, s)
  BY <1>1, GoesToFound DEF FindToUpdate
<1>2. CASE \E f \in Forms, c \in Contents : SaveDataBackup(p, s, f, c)
  <2>1. PICK f \in Forms, c \in Contents : SaveDataBackup(p, s, f, c)
    BY <1>2
  <2>2. PICK step : step = IF sessions[s].exists THEN "find_backup" ELSE "minimal"
    OBVIOUS
  <2>3. PICK r : r = AsBackup(s, f, c, step)
    OBVIOUS
  <2>4. /\ Go(p, r) /\ UNCHANGED sessions /\ used' = used
        /\ UNCHANGED <<acked, saved, lapsed, reclosed>>
    BY <2>1, <2>2, <2>3 DEF SaveDataBackup, Kept, AsBackup
  <2>5. step \in Steps /\ s \in Ids \union {None} /\ f \in Forms \union {None}
        /\ c \in Contents \union {None}
    BY <2>2 DEF Steps
  <2>6. /\ r \in Proc /\ r.step = step /\ r.id = s /\ r.key = None /\ r.event = None
        /\ r.form = f /\ r.content = c
    BY <2>3, <2>5, IdleType, BackupRequest
  <2>7. s \in ClientIds \/ sessions[s].exists
    BY <2>1 DEF SaveDataBackup
  <2>8. RequestFine(r, sessions[s], used', raced')
    BY <2>2, <2>6, <2>7 DEF RequestFine, NewSteps, FoundSteps, EventSteps
  <2>9. used \subseteq Events /\ step \notin NewSteps /\ step # "idle"
    BY <2>2 DEF TrackerInv, SessionsTypeOK, NewSteps
  <2>10. MovesTo(p, r)
    BY <2>4, <2>6, <2>8, <2>9 DEF MovesTo
  <2>11. QED
    BY <2>6, <2>10, RequestMoves
<1>3. CASE \E f \in Forms \union {None} : FindToClear(p, s, f)
  <2>1. PICK f \in Forms \union {None} : FindToClear(p, s, f)
    BY <1>3
  <2>2. PICK r : r = AsClear("clear", s, f)
    OBVIOUS
  <2>3. /\ Go(p, r) /\ UNCHANGED sessions /\ used' = used /\ sessions[s].exists
        /\ UNCHANGED <<acked, saved, lapsed, reclosed>>
    BY <2>1, <2>2 DEF FindToClear, Kept, AsClear
  <2>4. "clear" \in Steps /\ s \in Ids \union {None}
    BY DEF Steps
  <2>5. r \in Proc /\ r.step = "clear" /\ r.id = s /\ r.key = None /\ r.event = None
    BY <2>2, <2>4, IdleType, ClearRequest
  <2>6. RequestFine(r, sessions[s], used', raced')
    BY <2>3, <2>5 DEF RequestFine, NewSteps, FoundSteps, EventSteps
  <2>7. used \subseteq Events /\ "clear" \notin NewSteps
    BY DEF TrackerInv, SessionsTypeOK, NewSteps
  <2>8. MovesTo(p, r)
    BY <2>3, <2>5, <2>6, <2>7 DEF MovesTo
  <2>9. QED
    BY <2>5, <2>8, RequestMoves
<1>4. QED
  BY <1>1, <1>2, <1>3

LEMMA FindBackupFine ==
    ASSUME TrackerInv, NEW p \in Procs, FindBackup(p)
    PROVE  TrackerInv'
<1>0. PICK o \in Proc : o = procs[p]
  BY DEF TrackerInv, SessionsTypeOK
<1>1. RequestFine(o, SeenBy(o), used, raced) /\ used \subseteq Events /\ o.step = "find_backup"
  BY <1>0 DEF TrackerInv, SessionsTypeOK, FindBackup, At
<1>2. o.id \in Ids
  BY <1>1 DEF RequestFine
<1>3. PICK copy : copy = sessions[o.id]
  OBVIOUS
<1>4. PICK r : r = AsCopied(o, "save_backup", copy)
  OBVIOUS
<1>5. /\ Go(p, r) /\ UNCHANGED sessions /\ used' = used
      /\ UNCHANGED <<acked, saved, lapsed, reclosed>>
  BY <1>0, <1>3, <1>4 DEF FindBackup, Kept, AsCopied
<1>6. "save_backup" \in Steps /\ copy \in Session
  BY <1>2, <1>3 DEF Steps, TrackerInv, SessionsTypeOK
<1>7. /\ r \in Proc /\ r.step = "save_backup" /\ r.id = o.id /\ r.key = o.key
      /\ r.event = o.event /\ r.copy = copy /\ r.form = o.form /\ r.content = o.content
  BY <1>4, <1>6, Copies
<1>8. RequestFine(r, sessions[r.id], used', raced')
  <2>1. SeenBy(o) = sessions[r.id]
    BY <1>2, <1>7 DEF SeenBy
  <2>2. QED
    BY <1>1, <1>2, <1>3, <1>5, <1>7, <2>1 DEF RequestFine, NewSteps, FoundSteps, EventSteps
<1>9. MovesTo(p, r)
  BY <1>0, <1>1, <1>2, <1>5, <1>7, <1>8 DEF MovesTo, NewSteps
<1>10. QED
  BY <1>7, <1>9, RequestMoves

-----------------------------------------------------------------------------
(* What the requests write.                                                *)

Rewritten(d, active, stale, ended, info, events, views, dwells, pages, backup) ==
    [exists |-> d.exists, key |-> d.key, number |-> d.number, previous |-> d.previous,
     active |-> active, stale |-> stale, ended |-> ended, info |-> info,
     events |-> events, views |-> views, dwells |-> dwells, pages |-> pages,
     backup |-> backup]

LEMMA TouchedDoc ==
    ASSUME NEW d \in Session
    PROVE  [d EXCEPT !.stale = FALSE] =
              Rewritten(d, d.active, FALSE, d.ended, d.info, d.events, d.views, d.dwells,
                        d.pages, d.backup)
<1>1. PICK t : t = d
  OBVIOUS
<1>2. t = [exists |-> d.exists, key |-> d.key, number |-> d.number,
           previous |-> d.previous, active |-> d.active, stale |-> d.stale,
           ended |-> d.ended, info |-> d.info, events |-> d.events, views |-> d.views,
           dwells |-> d.dwells, pages |-> d.pages, backup |-> d.backup]
  BY <1>1, SessionParts
<1>3. [t EXCEPT !.stale = FALSE] =
          [exists |-> d.exists, key |-> d.key, number |-> d.number,
           previous |-> d.previous, active |-> d.active, stale |-> FALSE,
           ended |-> d.ended, info |-> d.info, events |-> d.events, views |-> d.views,
           dwells |-> d.dwells, pages |-> d.pages, backup |-> d.backup]
  <2>1. PICK v : v = [t EXCEPT !.stale = FALSE]
    OBVIOUS
  <2>2. v =
          [exists |-> d.exists, key |-> d.key, number |-> d.number,
           previous |-> d.previous, active |-> d.active, stale |-> FALSE,
           ended |-> d.ended, info |-> d.info, events |-> d.events, views |-> d.views,
           dwells |-> d.dwells, pages |-> d.pages, backup |-> d.backup]
    BY <1>2, <2>1
  <2>3. QED
    BY <2>1, <2>2
<1>4. QED
  BY <1>1, <1>3 DEF Rewritten

LEMMA UpdatedDoc ==
    ASSUME NEW d \in Session
    PROVE  [d EXCEPT !.stale = FALSE, !.info = "client"] =
              Rewritten(d, d.active, FALSE, d.ended, "client", d.events, d.views, d.dwells,
                        d.pages, d.backup)
<1>1. PICK t : t = [d EXCEPT !.stale = FALSE]
  OBVIOUS
<1>2. t = [exists |-> d.exists, key |-> d.key, number |-> d.number,
           previous |-> d.previous, active |-> d.active, stale |-> FALSE,
           ended |-> d.ended, info |-> d.info, events |-> d.events, views |-> d.views,
           dwells |-> d.dwells, pages |-> d.pages, backup |-> d.backup]
  BY <1>1, TouchedDoc DEF Rewritten
<1>3. [t EXCEPT !.info = "client"] =
          [exists |-> d.exists, key |-> d.key, number |-> d.number,
           previous |-> d.previous, active |-> d.active, stale |-> FALSE,
           ended |-> d.ended, info |-> "client", events |-> d.events, views |-> d.views,
           dwells |-> d.dwells, pages |-> d.pages, backup |-> d.backup]
  <2>1. PICK v : v = [t EXCEPT !.info = "client"]
    OBVIOUS
  <2>2. v =
          [exists |-> d.exists, key |-> d.key, number |-> d.number,
           previous |-> d.previous, active |-> d.active, stale |-> FALSE,
           ended |-> d.ended, info |-> "client", events |-> d.events, views |-> d.views,
           dwells |-> d.dwells, pages |-> d.pages, backup |-> d.backup]
    BY <1>2, <2>1
  <2>3. QED
    BY <2>1, <2>2
<1>4. [d EXCEPT !.stale = FALSE, !.info = "client"] = [t EXCEPT !.info = "client"]
  BY <1>1
<1>5. QED
  BY <1>3, <1>4 DEF Rewritten

LEMMA ClosedDoc ==
    ASSUME NEW d \in Session, NEW n \in Nat
    PROVE  [d EXCEPT !.active = FALSE, !.ended = n] =
              Rewritten(d, FALSE, d.stale, n, d.info, d.events, d.views, d.dwells,
                        d.pages, d.backup)
<1>1. PICK u : u = d
  OBVIOUS
<1>2. u = [exists |-> d.exists, key |-> d.key, number |-> d.number,
           previous |-> d.previous, active |-> d.active, stale |-> d.stale,
           ended |-> d.ended, info |-> d.info, events |-> d.events, views |-> d.views,
           dwells |-> d.dwells, pages |-> d.pages, backup |-> d.backup]
  BY <1>1, SessionParts
<1>3. PICK t : t = [u EXCEPT !.active = FALSE]
  OBVIOUS
<1>4. t = [exists |-> d.exists, key |-> d.key, number |-> d.number,
           previous |-> d.previous, active |-> FALSE, stale |-> d.stale,
           ended |-> d.ended, info |-> d.info, events |-> d.events, views |-> d.views,
           dwells |-> d.dwells, pages |-> d.pages, backup |-> d.backup]
  BY <1>2, <1>3
<1>5. [t EXCEPT !.ended = n] =
          [exists |-> d.exists, key |-> d.key, number |-> d.number,
           previous |-> d.previous, active |-> FALSE, stale |-> d.stale,
           ended |-> n, info |-> d.info, events |-> d.events, views |-> d.views,
           dwells |-> d.dwells, pages |-> d.pages, backup |-> d.backup]
  <2>1. PICK v : v = [t EXCEPT !.ended = n]
    OBVIOUS
  <2>2. v =
          [exists |-> d.exists, key |-> d.key, number |-> d.number,
           previous |-> d.previous, active |-> FALSE, stale |-> d.stale,
           ended |-> n, info |-> d.info, events |-> d.events, views |-> d.views,
           dwells |-> d.dwells, pages |-> d.pages, backup |-> d.backup]
    BY <1>4, <2>1
  <2>3. QED
    BY <2>1, <2>2
<1>6. [d EXCEPT !.active = FALSE, !.ended = n] = [t EXCEPT !.ended = n]
  BY <1>1, <1>3
<1>7. QED
  BY <1>5, <1>6 DEF Rewritten

LEMMA BackedDoc ==
    ASSUME NEW d \in Session, NEW b
    PROVE  /\ [d EXCEPT !.backup = b] =
                 Rewritten(d, d.active, d.stale, d.ended, d.info, d.events, d.views, d.dwells,
                           d.pages, b)
           /\ [d EXCEPT !.stale = FALSE, !.backup = b] =
                 Rewritten(d, d.active, FALSE, d.ended, d.info, d.events, d.views, d.dwells,
                           d.pages, b)
<1>1. [d EXCEPT !.backup = b] =
          [exists |-> d.exists, key |-> d.key, number |-> d.number,
           previous |-> d.previous, active |-> d.active, stale |-> d.stale,
           ended |-> d.ended, info |-> d.info, events |-> d.events, views |-> d.views,
           dwells |-> d.dwells, pages |-> d.pages, backup |-> b]
  <2>1. PICK t : t = d
    OBVIOUS
  <2>2. t = [exists |-> d.exists, key |-> d.key, number |-> d.number,
             previous |-> d.previous, active |-> d.active, stale |-> d.stale,
             ended |-> d.ended, info |-> d.info, events |-> d.events, views |-> d.views,
             dwells |-> d.dwells, pages |-> d.pages, backup |-> d.backup]
    BY <2>1, SessionParts
  <2>3. [t EXCEPT !.backup = b] =
            [exists |-> d.exists, key |-> d.key, number |-> d.number,
             previous |-> d.previous, active |-> d.active, stale |-> d.stale,
             ended |-> d.ended, info |-> d.info, events |-> d.events, views |-> d.views,
             dwells |-> d.dwells, pages |-> d.pages, backup |-> b]
    <3>1. PICK v : v = [t EXCEPT !.backup = b]
      OBVIOUS
    <3>2. v =
            [exists |-> d.exists, key |-> d.key, number |-> d.number,
             previous |-> d.previous, active |-> d.active, stale |-> d.stale,
             ended |-> d.ended, info |-> d.info, events |-> d.events, views |-> d.views,
             dwells |-> d.dwells, pages |-> d.pages, backup |-> b]
      BY <2>2, <3>1
    <3>3. QED
      BY <3>1, <3>2
  <2>4. QED
    BY <2>1, <2>3
<1>2. [d EXCEPT !.stale = FALSE, !.backup = b] =
          [exists |-> d.exists, key |-> d.key, number |-> d.number,
           previous |-> d.previous, active |-> d.active, stale |-> FALSE,
           ended |-> d.ended, info |-> d.info, events |-> d.events, views |-> d.views,
           dwells |-> d.dwells, pages |-> d.pages, backup |-> b]
  <2>1. PICK t : t = [d EXCEPT !.stale = FALSE]
    OBVIOUS
  <2>2. t = [exists |-> d.exists, key |-> d.key, number |-> d.number,
             previous |-> d.previous, active |-> d.active, stale |-> FALSE,
             ended |-> d.ended, info |-> d.info, events |-> d.events, views |-> d.views,
             dwells |-> d.dwells, pages |-> d.pages, backup |-> d.backup]
    BY <2>1, TouchedDoc DEF Rewritten
  <2>3. [t EXCEPT !.backup = b] =
            [exists |-> d.exists, key |-> d.key, number |-> d.number,
             previous |-> d.previous, active |-> d.active, stale |-> FALSE,
             ended |-> d.ended, info |-> d.info, events |-> d.events, views |-> d.views,
             dwells |-> d.dwells, pages |-> d.pages, backup |-> b]
    <3>1. PICK v : v = [t EXCEPT !.backup = b]
      OBVIOUS
    <3>2. v =
            [exists |-> d.exists, key |-> d.key, number |-> d.number,
             previous |-> d.previous, active |-> d.active, stale |-> FALSE,
             ended |-> d.ended, info |-> d.info, events |-> d.events, views |-> d.views,
             dwells |-> d.dwells, pages |-> d.pages, backup |-> b]
      BY <2>2, <3>1
    <3>3. QED
      BY <3>1, <3>2
  <2>4. [d EXCEPT !.stale = FALSE, !.backup = b] = [t EXCEPT !.backup = b]
    BY <2>1
  <2>5. QED
    BY <2>3, <2>4
<1>3. QED
  BY <1>1, <1>2 DEF Rewritten

SavedViews(d, copy, e) == IF e.kind = "page_visit" THEN copy.views + 1 ELSE d.views

SavedDwells(d, copy, e) == IF e.kind = "section_dwell" THEN copy.dwells + 1 ELSE d.dwells

SavedPages(d, copy, e) ==
    IF e.kind = "page_visit" /\ copy.pages[e.page] = 0
    THEN [d.pages EXCEPT ![e.page] = @ + 1] ELSE d.pages

SavedActive(d, e) == IF e.kind = "tab_close" THEN FALSE ELSE d.active

SavedEnded(d, e) == IF e.kind = "tab_close" THEN NextEnd ELSE d.ended

\* The document after an event was pushed and counted.
CountedAs(doc, d, copy, e) ==
    /\ doc \in Session
    /\ doc.exists = d.exists /\ doc.key = d.key /\ doc.number = d.number
    /\ doc.previous = d.previous /\ doc.active = SavedActive(d, e) /\ doc.stale = d.stale
    /\ doc.ended = SavedEnded(d, e) /\ doc.info = d.info
    /\ doc.events = d.events \union {e}
    /\ doc.views = SavedViews(d, copy, e) /\ doc.dwells = SavedDwells(d, copy, e)
    /\ doc.pages = SavedPages(d, copy, e) /\ doc.backup = d.backup

LEMMA CountedParts ==
    ASSUME NEW d \in Session, NEW copy \in Session, NEW e \in Event, NextEnd \in Nat
    PROVE  CountedAs(Counted(Pushed(d, copy, e), copy, e), d, copy, e)
<1> USE DEF CountedAs
<1>0. PICK doc : doc = Counted(Pushed(d, copy, e), copy, e)
  OBVIOUS
<1>1. PICK t : t = Pushed(d, copy, e)
  OBVIOUS
<1>2. t = [exists |-> d.exists, key |-> d.key, number |-> d.number,
           previous |-> d.previous, active |-> d.active, stale |-> d.stale,
           ended |-> d.ended, info |-> d.info, events |-> d.events \union {e},
           views |-> d.views, dwells |-> d.dwells, pages |-> d.pages, backup |-> d.backup]
  <2>1. PICK u : u = d
    OBVIOUS
  <2>2. u = [exists |-> d.exists, key |-> d.key, number |-> d.number,
             previous |-> d.previous, active |-> d.active, stale |-> d.stale,
             ended |-> d.ended, info |-> d.info, events |-> d.events, views |-> d.views,
             dwells |-> d.dwells, pages |-> d.pages, backup |-> d.backup]
    BY <2>1, SessionParts
  <2>3. PICK events : events = d.events \union {e}
    OBVIOUS
  <2>4. PICK v : v = [u EXCEPT !.events = events]
    OBVIOUS
  <2>5. v = [exists |-> d.exists, key |-> d.key, number |-> d.number,
             previous |-> d.previous, active |-> d.active, stale |-> d.stale,
             ended |-> d.ended, info |-> d.info, events |-> events, views |-> d.views,
             dwells |-> d.dwells, pages |-> d.pages, backup |-> d.backup]
    BY <2>2, <2>4
  <2>6. t = v
    BY <1>1, <2>1, <2>3, <2>4 DEF Pushed
  <2>7. QED
    BY <2>3, <2>5, <2>6
<1>3. /\ t \in Session
      /\ t.exists = d.exists /\ t.key = d.key /\ t.number = d.number
      /\ t.previous = d.previous /\ t.active = d.active /\ t.stale = d.stale
      /\ t.ended = d.ended /\ t.info = d.info /\ t.events = d.events \union {e}
      /\ t.views = d.views /\ t.dwells = d.dwells /\ t.pages = d.pages /\ t.backup = d.backup
  <2>1. d.events \union {e} \in SUBSET Event
    BY DEF Session
  <2>2. t \in Session
    BY <1>2, <2>1 DEF Session
  <2>3. QED
    BY <1>2, <2>2
<1>4. /\ copy.pages \in [Pages -> Nat] /\ d.pages \in [Pages -> Nat] /\ e.page \in Pages
      /\ copy.views + 1 \in Nat /\ copy.dwells + 1 \in Nat
  BY DEF Session, Event
<1> SUFFICES CountedAs(doc, d, copy, e)
  BY <1>0
<1>5. CASE e.kind = "page_visit"
  <2>1. PICK n \in Nat : n = copy.views + 1
    BY <1>4
  <2>2. PICK pages : pages = SavedPages(d, copy, e)
    OBVIOUS
  <2>3. pages \in [Pages -> Nat]
    BY <1>4, <2>2 DEF SavedPages
  <2>4. pages = IF copy.pages[e.page] > 0 THEN t.pages ELSE [t.pages EXCEPT ![e.page] = @ + 1]
    <3>1. copy.pages[e.page] \in Nat
      BY <1>4
    <3>2. CASE copy.pages[e.page] = 0
      BY <1>3, <1>5, <2>2, <3>2 DEF SavedPages
    <3>3. CASE copy.pages[e.page] > 0
      BY <1>3, <1>5, <2>2, <3>3 DEF SavedPages
    <3>4. QED
      BY <3>1, <3>2, <3>3
  <2>5. doc = [t EXCEPT !.views = n, !.pages = pages]
    BY <1>0, <1>1, <1>5, <2>1, <2>4 DEF Counted
  <2>6. PICK u : u = [t EXCEPT !.views = n]
    OBVIOUS
  <2>7. u = [exists |-> d.exists, key |-> d.key, number |-> d.number,
             previous |-> d.previous, active |-> d.active, stale |-> d.stale,
             ended |-> d.ended, info |-> d.info, events |-> d.events \union {e},
             views |-> n, dwells |-> d.dwells, pages |-> d.pages, backup |-> d.backup]
    BY <1>2, <2>6
  <2>8. PICK v : v = [u EXCEPT !.pages = pages]
    OBVIOUS
  <2>9. v = [exists |-> d.exists, key |-> d.key, number |-> d.number,
             previous |-> d.previous, active |-> d.active, stale |-> d.stale,
             ended |-> d.ended, info |-> d.info, events |-> d.events \union {e},
             views |-> n, dwells |-> d.dwells, pages |-> pages, backup |-> d.backup]
    BY <2>7, <2>8
  <2>10. doc = v
    BY <2>5, <2>6, <2>8
  <2>11. v \in Session
    <3>1. d.events \union {e} \in SUBSET Event
      BY DEF Session
    <3>2. QED
      BY <2>3, <2>9, <3>1 DEF Session
  <2>12. QED
    BY <1>5, <2>1, <2>2, <2>9, <2>10, <2>11 DEF SavedViews, SavedDwells, SavedActive, SavedEnded
<1>6. CASE e.kind = "section_dwell"
  <2>1. PICK n \in Nat : n = copy.dwells + 1
    BY <1>4
  <2>2. doc = [t EXCEPT !.dwells = n]
    BY <1>0, <1>1, <1>6, <2>1 DEF Counted
  <2>3. doc = [exists |-> d.exists, key |-> d.key, number |-> d.number,
               previous |-> d.previous, active |-> d.active, stale |-> d.stale,
               ended |-> d.ended, info |-> d.info, events |-> d.events \union {e},
               views |-> d.views, dwells |-> n, pages |-> d.pages, backup |-> d.backup]
    BY <1>2, <2>2
  <2>4. doc \in Session
    <3>1. d.events \union {e} \in SUBSET Event
      BY DEF Session
    <3>2. QED
      BY <2>3, <3>1 DEF Session
  <2>5. QED
    BY <1>6, <2>1, <2>3, <2>4 DEF SavedViews, SavedDwells, SavedPages, SavedActive, SavedEnded
<1>7. CASE e.kind = "tab_close"
  <2>1. PICK n \in Nat : n = NextEnd
    OBVIOUS
  <2>2. doc = [t EXCEPT !.active = FALSE, !.ended = n]
    BY <1>0, <1>1, <1>7, <2>1 DEF Counted
  <2>3. doc = Rewritten(t, FALSE, t.stale, n, t.info, t.events, t.views, t.dwells, t.pages,
                        t.backup)
    BY <1>3, <2>2, ClosedDoc
  <2>4. /\ FALSE \in BOOLEAN /\ t.stale \in BOOLEAN /\ t.events \in SUBSET Event
        /\ t.info \in {"parsed", "client", "defaults"} /\ t.views \in Nat /\ t.dwells \in Nat
        /\ t.pages \in [Pages -> Nat] /\ t.backup \in [Forms -> Contents \union {None}]
    BY <1>3 DEF Session
  <2>5. doc = [exists |-> t.exists, key |-> t.key, number |-> t.number,
               previous |-> t.previous, active |-> FALSE, stale |-> t.stale,
               ended |-> n, info |-> t.info, events |-> t.events,
               views |-> t.views, dwells |-> t.dwells, pages |-> t.pages, backup |-> t.backup]
    BY <2>3 DEF Rewritten
  <2>6. doc \in Session
    BY <1>3, <2>4, <2>5 DEF Session
  <2>7. QED
    BY <1>3, <1>7, <2>1, <2>5, <2>6 DEF SavedViews, SavedDwells, SavedPages, SavedActive, SavedEnded
<1>8. CASE e.kind \notin {"page_visit", "section_dwell", "tab_close"}
  <2>1. doc = t
    BY <1>0, <1>1, <1>8 DEF Counted
  <2>2. QED
    BY <1>3, <1>8, <2>1 DEF SavedViews, SavedDwells, SavedPages, SavedActive, SavedEnded
<1>9. QED
  BY <1>5, <1>6, <1>7, <1>8

\* The end of a session is later than every other one.
LEMMA NextEndIsNext ==
    ASSUME sessions \in [Ids -> Session], Ids # {}
    PROVE  NextEnd \in Nat /\ \A s \in Ids : sessions[s].ended < NextEnd
<1> DEFINE at(s) == sessions[s].ended
           Last(S, n) == n \in {at(s) : s \in S} /\ \A s \in S : at(s) <= n
           T == {S \in SUBSET Ids : S # {} /\ ~ \E n : Last(S, n)}
<1>1. \A s \in Ids : at(s) \in Nat
  BY DEF Session
<1>2. T = {}
  <2>1. SUFFICES ASSUME T # {} PROVE FALSE
    OBVIOUS
  <2>2. PICK S \in T : \A R \in T : R \subseteq S => R = S
    <3>1. T \in SUBSET SUBSET Ids
      OBVIOUS
    <3> HIDE DEF T
    <3>2. QED
      BY <2>1, <3>1, DocumentsAssumption, SmallestSubset
  <2>3. PICK s \in S : s \in Ids
    BY <2>2
  <2> DEFINE R == S \ {s}
  <2>4. CASE R = {}
    <3>1. S = {s}
      BY <2>3, <2>4
    <3> HIDE DEF at
    <3>2. Last(S, at(s))
      BY <1>1, <2>3, <3>1
    <3>3. QED
      BY <2>2, <3>2
  <2>5. CASE R # {}
    <3>1. R \notin T /\ R \in SUBSET Ids
      BY <2>2, <2>3
    <3>2. PICK n : Last(R, n)
      BY <2>5, <3>1
    <3> HIDE DEF at, T
    <3>3. n \in Nat /\ at(s) \in Nat /\ \A t \in R : at(t) \in Nat
      BY <1>1, <2>3, <3>1, <3>2
    <3>4. \A t \in S : t = s \/ t \in R
      OBVIOUS
    <3>5. CASE at(s) <= n
      <4>1. Last(S, n)
        BY <3>2, <3>3, <3>4, <3>5
      <4>2. QED
        BY <2>2, <4>1 DEF T
    <3>6. CASE ~ (at(s) <= n)
      <4>1. Last(S, at(s))
        BY <2>3, <3>2, <3>3, <3>4, <3>6
      <4>2. QED
        BY <2>2, <4>1 DEF T
    <3>7. QED
      BY <3>5, <3>6
  <2>6. QED
    BY <2>4, <2>5
<1>3. PICK n : Last(Ids, n)
  BY <1>2
<1>4. LastEnd \in {at(s) : s \in Ids} /\ \A s \in Ids : at(s) <= LastEnd
  BY <1>3 DEF LastEnd
<1>5. LastEnd \in Nat
  BY <1>1, <1>4
<1> HIDE DEF at
<1>6. \A s \in Ids : at(s) < NextEnd
  BY <1>1, <1>4, <1>5 DEF NextEnd
<1>7. QED
  BY <1>5, <1>6 DEF NextEnd, at

-----------------------------------------------------------------------------
(* The writing steps.                                                      *)

\* What is known of a request and of its document.
LEMMA AtWork ==
    ASSUME TrackerInv, NEW p \in Procs, procs[p].step # "idle"
    PROVE  /\ procs[p] \in Proc /\ procs[p].id \in Ids /\ procs[p].id # None
           /\ sessions[procs[p].id] \in Session
           /\ saved[procs[p].id] \in [Forms -> Contents \union {None}]
           /\ saved = [saved EXCEPT ![procs[p].id] = saved[procs[p].id]]
           /\ RequestFine(procs[p], sessions[procs[p].id], used, raced)
           /\ DocFine(procs[p].id, sessions[procs[p].id], used, raced, lapsed, saved[procs[p].id])
           /\ used \subseteq Events /\ lapsed \subseteq Ids /\ reclosed \subseteq Ids
           /\ raced \subseteq Ids /\ acked \subseteq Event \X Ids
<1>1. procs[p] \in Proc /\ RequestFine(procs[p], SeenBy(procs[p]), used, raced)
  BY DEF TrackerInv, SessionsTypeOK
<1>2. procs[p].id \in Ids
  BY <1>1 DEF RequestFine
<1>3. QED
  BY <1>1, <1>2, SessionsAssumption DEF TrackerInv, SessionsTypeOK, SeenBy

\* A request ends without a write.
LEMMA RequestDone ==
    ASSUME TrackerInv, NEW p \in Procs, procs[p].step # "idle", Done(p),
           UNCHANGED <<sessions, used, acked, saved, lapsed, reclosed>>
    PROVE  TrackerInv'
<1>1. PICK s \in Ids : s = procs[p].id
  BY AtWork
<1>2. /\ sessions[s] \in Session /\ saved[s] \in [Forms -> Contents \union {None}]
      /\ DocFine(s, sessions[s], used, raced, lapsed, saved[s])
      /\ used \subseteq Events /\ lapsed \subseteq Ids /\ reclosed \subseteq Ids
      /\ raced \subseteq Ids /\ acked \subseteq Event \X Ids
  BY <1>1, AtWork
<1>3. /\ sessions' = [sessions EXCEPT ![s] = sessions[s]] /\ saved' = [saved EXCEPT ![s] = saved[s]]
      /\ procs \in [Procs -> Proc]
  BY DEF TrackerInv, SessionsTypeOK
<1>4. PICK r \in Proc : r = Idle
  BY IdleType
<1>5. procs' = [procs EXCEPT ![p] = r] /\ raced' = raced
  BY <1>4 DEF Done
<1>6. RequestFine(r, SeenBy(r)', used', raced')
  BY <1>4, IdleFine
<1>7. \A q \in Procs \ {p} :
         ApartFrom(r, procs[q], raced') /\ ApartFrom(procs[q], r, raced')
  BY <1>3, <1>4, IdleApart
<1>8. Writes(p, r, s, sessions[s], saved[s])
  BY <1>2, <1>3, <1>5, <1>6, <1>7 DEF Writes
<1>9. QED
  BY <1>2, <1>8, TrackerMoves

\* A document that was just made.
LEMMA FreshFine ==
    ASSUME NEW s, NEW doc, doc.exists, doc.active, ~ doc.stale, doc.ended = 0, doc.events = {},
           doc.views = 0, doc.dwells = 0, doc.pages = NoPages,
           NEW us, NEW ra, NEW la, NEW sv, s \notin ra => doc.backup = sv
    PROVE  DocFine(s, doc, us, ra, la, sv)
<1>1. \A kind : KindOf(doc, kind) = {}
  BY DEF KindOf
<1>2. Visits(doc) = 0 /\ Dwells(doc) = 0 /\ IsFiniteSet(doc.events)
  BY <1>1, FS_EmptySet DEF Visits, Dwells
<1>3. QED
  BY <1>2, NothingYet DEF DocFine

\* A document whose events and counters stay.
LEMMA RewriteFine ==
    ASSUME NEW s, NEW d, NEW us, NEW ra, NEW la, NEW sv, NEW sv1,
           DocFine(s, d, us, ra, la, sv), d.exists,
           NEW doc, doc.exists, doc.active <=> doc.ended = 0, doc.stale => d.stale,
           doc.events = d.events, doc.views = d.views, doc.dwells = d.dwells,
           doc.pages = d.pages, s \notin ra => doc.backup = sv1
    PROVE  DocFine(s, doc, us, ra, la, sv1)
  BY DEF DocFine, Visits, Dwells, KindOf

LEMMA InsertFine ==
    ASSUME TrackerInv, NEW p \in Procs, Insert(p)
    PROVE  TrackerInv'
<1>1. procs[p].step = "insert"
  BY DEF Insert, At
<1>2. PICK s \in Ids, o \in Proc : s = procs[p].id /\ o = procs[p]
  BY <1>1, AtWork
<1>3. /\ RequestFine(o, sessions[s], used, raced) /\ sessions[s] \in Session
      /\ DocFine(s, sessions[s], used, raced, lapsed, saved[s])
      /\ saved[s] \in [Forms -> Contents \union {None}]
      /\ saved = [saved EXCEPT ![s] = saved[s]]
      /\ reclosed \subseteq Ids /\ acked \subseteq Event \X Ids
  BY <1>1, <1>2, AtWork
<1>4. ~ sessions[s].exists /\ o.copy = Fresh(o.key, o.copy.number, o.copy.previous, "parsed")
  BY <1>1, <1>2, <1>3 DEF RequestFine, NewSteps
<1>5. sessions[s] = Absent
  BY <1>3, <1>4 DEF DocFine
<1>6. PICK doc \in Session : doc = o.copy
  BY DEF Proc
<1>7. /\ o.key \in Keys \union {None} /\ doc.number \in Nat /\ doc.previous \in Ids \union {None}
      /\ "parsed" \in {"parsed", "client", "defaults"}
  BY DEF Proc, Session
<1>8. /\ doc.exists /\ doc.active /\ ~ doc.stale /\ doc.ended = 0 /\ doc.events = {}
      /\ doc.views = 0 /\ doc.dwells = 0 /\ doc.pages = NoPages /\ doc.backup = NoBackup
  <2>1. doc = Fresh(o.key, doc.number, doc.previous, "parsed")
    BY <1>4, <1>6
  <2>2. QED
    BY <2>1 DEF Fresh
<1>9. s \notin raced => doc.backup = saved[s]
  BY <1>3, <1>5, <1>8, AbsentType DEF DocFine
<1>10. DocFine(s, doc, used, raced, lapsed, saved[s])
  BY <1>8, <1>9, FreshFine
<1>11. sessions[s].events = doc.events
  BY <1>5, <1>8, AbsentType
<1>12. Save(p, s, doc) /\ Kept
  BY <1>2, <1>6 DEF Insert
<1>13. Stores(p, s, doc, saved[s])
  BY <1>2, <1>3, <1>8, <1>10, <1>11, <1>12 DEF Stores, Kept
<1>14. QED
  BY <1>3, <1>13, DocumentMoves

\* What was found is touched, updated or closed.
LEMMA FoundFine ==
    ASSUME TrackerInv, NEW p \in Procs, Touch(p) \/ UpdateSession(p) \/ CloseExpired(p)
    PROVE  TrackerInv'
<1>1. procs[p].step \in {"touch", "update", "close"}
  BY DEF Touch, UpdateSession, CloseExpired, At
<1>2. PICK s \in Ids, d \in Session : s = procs[p].id /\ d = sessions[s]
  BY <1>1, AtWork
<1>3. /\ d.exists /\ DocFine(s, d, used, raced, lapsed, saved[s])
      /\ saved[s] \in [Forms -> Contents \union {None}]
      /\ saved = [saved EXCEPT ![s] = saved[s]]
      /\ reclosed \subseteq Ids /\ acked \subseteq Event \X Ids
  BY <1>1, <1>2, AtWork DEF RequestFine, FoundSteps
<1>4. PICK doc : /\ Save(p, s, doc) /\ used' = used /\ lapsed' = lapsed /\ acked' = acked
                 /\ saved' = saved /\ reclosed' \subseteq Ids
                 /\ doc \in Session /\ doc.exists /\ (doc.active <=> doc.ended = 0)
                 /\ (doc.stale => d.stale) /\ doc.events = d.events /\ doc.views = d.views
                 /\ doc.dwells = d.dwells /\ doc.pages = d.pages /\ doc.backup = d.backup
  <2>1. /\ d.active \in BOOLEAN /\ d.ended \in Nat /\ d.info \in {"parsed", "client", "defaults"}
        /\ d.events \in SUBSET Event /\ d.views \in Nat /\ d.dwells \in Nat
        /\ d.pages \in [Pages -> Nat] /\ d.backup \in [Forms -> Contents \union {None}]
        /\ d.stale \in BOOLEAN /\ FALSE \in BOOLEAN /\ (d.active <=> d.ended = 0)
    BY <1>3 DEF Session, DocFine
  <2>2. CASE Touch(p)
    <3>1. PICK doc : doc = [d EXCEPT !.stale = FALSE]
      OBVIOUS
    <3>2. doc = Rewritten(d, d.active, FALSE, d.ended, d.info, d.events, d.views, d.dwells,
                          d.pages, d.backup)
      BY <3>1, TouchedDoc
    <3>3. Save(p, s, doc) /\ Kept
      BY <1>2, <2>2, <3>1 DEF Touch
    <3>4. /\ doc \in Session /\ doc.exists = d.exists /\ doc.active = d.active
          /\ doc.stale = FALSE /\ doc.ended = d.ended /\ doc.events = d.events
          /\ doc.views = d.views /\ doc.dwells = d.dwells /\ doc.pages = d.pages
          /\ doc.backup = d.backup
      BY <2>1, <3>2 DEF Rewritten, Session
    <3>5. QED
      BY <1>3, <2>1, <3>3, <3>4 DEF Kept
  <2>3. CASE UpdateSession(p)
    <3>1. PICK doc : doc = [d EXCEPT !.stale = FALSE, !.info = "client"]
      OBVIOUS
    <3>2. doc = Rewritten(d, d.active, FALSE, d.ended, "client", d.events, d.views, d.dwells,
                          d.pages, d.backup)
      BY <3>1, UpdatedDoc
    <3>3. Save(p, s, doc) /\ Kept
      BY <1>2, <2>3, <3>1 DEF UpdateSession
    <3>4. /\ doc \in Session /\ doc.exists = d.exists /\ doc.active = d.active
          /\ doc.stale = FALSE /\ doc.ended = d.ended /\ doc.events = d.events
          /\ doc.views = d.views /\ doc.dwells = d.dwells /\ doc.pages = d.pages
          /\ doc.backup = d.backup
      BY <2>1, <3>2 DEF Rewritten, Session
    <3>5. QED
      BY <1>3, <2>1, <3>3, <3>4 DEF Kept
  <2>4. CASE CloseExpired(p)
    <3>0. sessions \in [Ids -> Session] /\ Ids # {}
      BY DEF TrackerInv, SessionsTypeOK
    <3>1. PICK n \in Nat : n = NextEnd /\ d.ended < n
      BY <1>2, <3>0, NextEndIsNext
    <3>2. PICK doc : doc = [d EXCEPT !.active = FALSE, !.ended = n]
      OBVIOUS
    <3>3. doc = Rewritten(d, FALSE, d.stale, n, d.info, d.events, d.views, d.dwells,
                          d.pages, d.backup)
      BY <3>2, ClosedDoc
    <3>4. Save(p, s, doc) /\ Closing(s) /\ UNCHANGED <<used, acked, saved, lapsed>>
      BY <1>2, <2>4, <3>1, <3>2 DEF CloseExpired
    <3>5. /\ doc \in Session /\ doc.exists = d.exists /\ doc.active = FALSE
          /\ doc.stale = d.stale /\ doc.ended = n /\ doc.events = d.events
          /\ doc.views = d.views /\ doc.dwells = d.dwells /\ doc.pages = d.pages
          /\ doc.backup = d.backup
      BY <2>1, <3>3 DEF Rewritten, Session
    <3>6. n # 0
      BY <2>1, <3>1
    <3>7. reclosed' \subseteq Ids
      BY <1>3, <3>4 DEF Closing
    <3>8. QED
      BY <1>3, <2>1, <3>4, <3>5, <3>6, <3>7
  <2>5. QED
    BY <2>2, <2>3, <2>4
<1>5. DocFine(s, doc, used, raced, lapsed, saved[s])
  <2>1. s \notin raced => doc.backup = saved[s]
    BY <1>3, <1>4 DEF DocFine
  <2>2. QED
    BY <1>3, <1>4, <2>1, RewriteFine
<1>6. Stores(p, s, doc, saved[s])
  BY <1>2, <1>3, <1>4, <1>5 DEF Stores
<1>7. QED
  BY <1>3, <1>4, <1>6, DocumentMoves

\* An event is recorded: the request judges the document it read.
LEMMA RecordFine ==
    ASSUME TrackerInv, NEW p \in Procs, NEW s \in Ids, NEW e \in Event, RecordEvent(p, s, e)
    PROVE  TrackerInv'
<1>1. /\ e.id \notin used /\ used' = used \union {e.id} /\ e.id \in Events
      /\ s \in ClientIds \/ sessions[s].exists
      /\ sessions' = sessions /\ UNCHANGED <<acked, saved, lapsed, reclosed>>
      /\ Go(p, IF sessions[s].exists THEN Judge(AsEvent(s, e), sessions[s])
               ELSE [AsEvent(s, e) EXCEPT !.step = "recover"])
  BY DEF RecordEvent, AsEvent, Event
<1>2. PICK o : o = AsEvent(s, e)
  OBVIOUS
<1>3. s \in Ids \union {None} /\ e \in Event \union {None} /\ e # None
  BY DocumentsAssumption
<1>4. o \in Proc /\ o.id = s /\ o.key = None /\ o.event = e
  BY <1>2, <1>3, IdleType, EventRequest
<1>5. /\ DocFine(s, sessions[s], used, raced, lapsed, saved[s]) /\ sessions[s] \in Session
      /\ used \subseteq Events
  BY DEF TrackerInv, SessionsTypeOK
<1>6. e \notin sessions[s].events
  BY <1>1, <1>5 DEF DocFine
<1>7. used \subseteq used' /\ used' \subseteq Events /\ e.id \in used'
  BY <1>1, <1>5
<1>8. CASE sessions[s].exists
  <2>1. PICK doc \in Session : doc = sessions[s]
    BY <1>5
  <2>2. PICK step \in {"close", "save_event"} : step = IF doc.stale THEN "close" ELSE "save_event"
    OBVIOUS
  <2>3. PICK r : r = AsJudged(o, doc, step)
    OBVIOUS
  <2>4. step \in Steps
    BY <2>2 DEF Steps
  <2>5. /\ r \in Proc /\ r.step = step /\ r.id = o.id /\ r.key = o.key /\ r.event = o.event
        /\ r.copy = doc
    BY <1>4, <2>3, <2>4, Judged
  <2>6. Go(p, r)
    BY <1>1, <1>2, <1>8, <2>1, <2>2, <2>3 DEF Judge, AsJudged
  <2>7. RequestFine(r, sessions[s], used', raced')
    BY <1>3, <1>4, <1>5, <1>6, <1>7, <1>8, <2>1, <2>2, <2>5
       DEF RequestFine, NewSteps, FoundSteps, EventSteps, DocFine
  <2>8. r.step # "idle" /\ r.step \notin NewSteps
    BY <2>2, <2>5 DEF NewSteps
  <2>9. MovesTo(p, r)
    BY <1>1, <1>4, <1>7, <2>5, <2>6, <2>7, <2>8 DEF MovesTo
  <2>10. QED
    BY <2>5, <2>9, RequestMoves
<1>9. CASE ~ sessions[s].exists
  <2>1. PICK r : r = AsMoved(o, "recover")
    OBVIOUS
  <2>2. "recover" \in Steps
    BY DEF Steps
  <2>3. r \in Proc /\ r.step = "recover" /\ r.id = o.id /\ r.key = o.key /\ r.event = o.event
    BY <1>4, <2>1, <2>2, Advances
  <2>4. Go(p, r)
    BY <1>1, <1>2, <1>9, <2>1 DEF AsMoved
  <2>5. RequestFine(r, sessions[s], used', raced')
    BY <1>1, <1>3, <1>4, <1>6, <1>7, <1>9, <2>3
       DEF RequestFine, NewSteps, FoundSteps, EventSteps
  <2>6. r.step # "idle" /\ r.step \notin NewSteps
    BY <2>3 DEF NewSteps
  <2>7. MovesTo(p, r)
    BY <1>1, <1>4, <1>7, <2>3, <2>4, <2>5, <2>6 DEF MovesTo
  <2>8. QED
    BY <2>3, <2>7, RequestMoves
<1>10. QED
  BY <1>8, <1>9

\* The session of an identifier the client made up is created.
LEMMA RecoverFine ==
    ASSUME TrackerInv, NEW p \in Procs, Recover(p)
    PROVE  TrackerInv'
<1>1. procs[p].step = "recover" /\ Kept
  BY DEF Recover, At
<1>2. PICK s \in Ids, o \in Proc : s = procs[p].id /\ o = procs[p]
  BY <1>1, AtWork
<1>3. /\ RequestFine(o, sessions[s], used, raced) /\ sessions[s] \in Session
      /\ DocFine(s, sessions[s], used, raced, lapsed, saved[s])
      /\ saved[s] \in [Forms -> Contents \union {None}]
      /\ saved = [saved EXCEPT ![s] = saved[s]]
      /\ used \subseteq Events /\ lapsed \subseteq Ids
      /\ reclosed \subseteq Ids /\ acked \subseteq Event \X Ids
  BY <1>1, <1>2, AtWork
<1>4. s \in ClientIds /\ o.key = None /\ o.event \in Event /\ o.event # None
      /\ o.event.id \in used /\ o.id = s
  BY <1>1, <1>2, <1>3, DocumentsAssumption DEF RequestFine, NewSteps, EventSteps
<1>5. CASE sessions[s].exists
  <2>1. Done(p) /\ UNCHANGED <<sessions, used, acked, saved, lapsed, reclosed>>
    BY <1>1, <1>2, <1>5 DEF Recover, Kept
  <2>2. QED
    BY <1>1, <2>1, RequestDone
<1>6. CASE ~ sessions[s].exists
  <2>1. PICK doc : doc = Fresh(RecoveredKey(s), 1, None, "defaults")
    OBVIOUS
  <2>2. RecoveredKey(s) \in Keys \union {None}
    BY <1>4, DocumentsAssumption DEF RecoveredKey
  <2>3. doc \in Session
    BY <2>1, <2>2, FreshType
  <2>4. /\ doc.exists /\ doc.active /\ ~ doc.stale /\ doc.ended = 0 /\ doc.events = {}
        /\ doc.views = 0 /\ doc.dwells = 0 /\ doc.pages = NoPages /\ doc.backup = NoBackup
    BY <2>1 DEF Fresh
  <2>5. sessions[s] = Absent
    BY <1>3, <1>6 DEF DocFine
  <2>6. PICK r : r = AsJudged(o, doc, "save_event")
    OBVIOUS
  <2>7. "save_event" \in Steps
    BY DEF Steps
  <2>8. /\ r \in Proc /\ r.step = "save_event" /\ r.id = o.id /\ r.key = o.key
        /\ r.event = o.event /\ r.copy = doc
    BY <2>3, <2>6, <2>7, Judged
  <2>9. sessions' = [sessions EXCEPT ![s] = doc] /\ Go(p, r)
    <3>1. sessions' = [sessions EXCEPT ![s] = doc] /\ Go(p, Judge(o, doc))
      BY <1>2, <1>6, <2>1 DEF Recover
    <3>2. Judge(o, doc) = r
      BY <2>4, <2>6 DEF Judge, AsJudged
    <3>3. QED
      BY <3>1, <3>2
  <2>10. /\ raced \subseteq raced' /\ raced' \subseteq Ids
         /\ procs' = [procs EXCEPT ![p] = r]
         /\ \A q \in Procs \ {p} :
               ApartFrom(r, procs[q], raced') /\ ApartFrom(procs[q], r, raced')
    <3>1. r.step # "idle" /\ r.id \in Ids /\ r.step \notin NewSteps /\ r.key = None
          /\ r.id \in ClientIds /\ r.event = procs[p].event
      BY <1>2, <1>4, <2>8 DEF NewSteps
    <3>2. QED
      BY <2>8, <2>9, <3>1, GoApart
  <2>11. DocFine(s, doc, used, raced', lapsed, saved[s])
    <3>1. s \notin raced => doc.backup = saved[s]
      BY <1>3, <2>4, <2>5, AbsentType DEF DocFine
    <3>2. s \notin raced' => doc.backup = saved[s]
      BY <2>10, <3>1
    <3>3. QED
      BY <2>4, <3>2, FreshFine
  <2>12. RequestFine(r, doc, used, raced')
    <3>1. DocFine(s, doc, used, raced', lapsed, saved[s])
      BY <2>11
    <3>2. QED
      BY <1>4, <2>4, <2>8, <3>1 DEF RequestFine, NewSteps, FoundSteps, EventSteps, DocFine
  <2>13. SeenBy(r)' = doc
    BY <1>4, <2>8, <2>9 DEF SeenBy, TrackerInv, SessionsTypeOK
  <2>14. ASSUME NEW q \in Procs \ {p}, procs[q].id = s
         PROVE  /\ s \in raced' /\ procs[q].step \notin NewSteps
                /\ procs[q].event # None => procs[q].event \notin doc.events
    <3>1. /\ ApartFrom(procs[q], procs[p], raced) /\ s # None
      BY <2>14, SessionsAssumption DEF TrackerInv
    <3>2. QED
      BY <1>2, <2>4, <2>10, <2>14, <3>1 DEF ApartFrom
  <2>15. sessions[s].events = {} /\ used' = used /\ UNCHANGED <<acked, saved, lapsed, reclosed>>
    BY <1>1, <2>5, AbsentType DEF Kept
  <2>16. Writes(p, r, s, doc, saved[s])
    BY <1>3, <2>4, <2>9, <2>10, <2>11, <2>12, <2>13, <2>14, <2>15 DEF Writes
  <2>17. QED
    BY <1>3, <2>3, <2>8, <2>16, TrackerMoves
<1>7. QED
  BY <1>5, <1>6

\* An event is pushed and counted.
LEMMA SaveEventFine ==
    ASSUME TrackerInv, NEW p \in Procs, SaveEvent(p)
    PROVE  TrackerInv'
<1>1. procs[p].step = "save_event"
  BY DEF SaveEvent, At
<1>2. PICK s \in Ids, o \in Proc : s = procs[p].id /\ o = procs[p]
  BY <1>1, AtWork
<1>3. PICK d \in Session : d = sessions[s]
  BY <1>1, <1>2, AtWork
<1>4. /\ RequestFine(o, d, used, raced)
      /\ DocFine(s, d, used, raced, lapsed, saved[s])
      /\ saved[s] \in [Forms -> Contents \union {None}]
      /\ saved = [saved EXCEPT ![s] = saved[s]]
      /\ reclosed \subseteq Ids /\ acked \subseteq Event \X Ids
  BY <1>1, <1>2, <1>3, AtWork
<1>5. PICK e \in Event, copy \in Session : e = o.event /\ copy = o.copy
  BY <1>1, <1>2, <1>4 DEF RequestFine, EventSteps, Proc
<1>6. /\ d.exists /\ e.id \in used /\ e \notin d.events /\ o.id = s
      /\ copy.views <= Visits(d) /\ copy.dwells <= Dwells(d)
      /\ s \notin raced => copy.views = d.views /\ copy.dwells = d.dwells /\ copy.pages = d.pages
  BY <1>1, <1>2, <1>4, <1>5 DEF RequestFine, EventSteps, FoundSteps
<1>7. NextEnd \in Nat /\ d.ended < NextEnd
  BY <1>3, NextEndIsNext DEF TrackerInv, SessionsTypeOK
<1>8. PICK c : c = Counted(Pushed(d, copy, e), copy, e)
  OBVIOUS
<1>9. /\ c \in Session
      /\ c.exists = d.exists /\ c.active = SavedActive(d, e)
      /\ c.ended = SavedEnded(d, e) /\ c.events = d.events \union {e}
      /\ c.views = SavedViews(d, copy, e) /\ c.dwells = SavedDwells(d, copy, e)
      /\ c.pages = SavedPages(d, copy, e) /\ c.backup = d.backup
  <2>1. CountedAs(c, d, copy, e)
    BY <1>7, <1>8, CountedParts
  <2>2. QED
    BY <2>1 DEF CountedAs
<1>10. PICK doc : doc = [c EXCEPT !.stale = FALSE]
  OBVIOUS
<1>11. /\ doc \in Session
       /\ doc.exists = c.exists /\ doc.active = c.active /\ doc.stale = FALSE
       /\ doc.ended = c.ended /\ doc.events = c.events
       /\ doc.views = c.views /\ doc.dwells = c.dwells
       /\ doc.pages = c.pages /\ doc.backup = c.backup
  <2>1. doc = Rewritten(c, c.active, FALSE, c.ended, c.info, c.events, c.views, c.dwells,
                        c.pages, c.backup)
    BY <1>9, <1>10, TouchedDoc
  <2>2. /\ c.active \in BOOLEAN /\ c.ended \in Nat /\ c.info \in {"parsed", "client", "defaults"}
        /\ c.events \in SUBSET Event /\ c.views \in Nat /\ c.dwells \in Nat
        /\ c.pages \in [Pages -> Nat] /\ c.backup \in [Forms -> Contents \union {None}]
        /\ FALSE \in BOOLEAN
    BY <1>9 DEF Session
  <2>3. QED
    BY <1>9, <2>1, <2>2 DEF Rewritten, Session
<1>12. /\ Save(p, s, doc) /\ acked' = acked \union {<<e, s>>}
       /\ used' = used /\ saved' = saved /\ lapsed' = lapsed /\ reclosed' \subseteq Ids
  <2>1. [Counted(Pushed(sessions[procs[p].id], procs[p].copy, procs[p].event),
                 procs[p].copy, procs[p].event) EXCEPT !.stale = FALSE] = doc
    BY <1>2, <1>3, <1>5, <1>8, <1>10
  <2>2. Save(p, s, doc) /\ acked' = acked \union {<<e, s>>}
    BY <1>2, <1>5, <2>1 DEF SaveEvent
  <2>3. UNCHANGED reclosed \/ Closing(s)
    BY <1>2 DEF SaveEvent
  <2>4. reclosed' \subseteq Ids
    BY <1>4, <2>3 DEF Closing
  <2>5. UNCHANGED <<used, saved, lapsed>>
    BY DEF SaveEvent
  <2>6. QED
    BY <2>2, <2>4, <2>5
<1>13. DocFine(s, doc, used, raced, lapsed, saved[s])
  <2>1. IsFiniteSet(d.events) /\ doc.events = d.events \union {e}
    BY <1>4, <1>9, <1>11 DEF DocFine
  <2>2. /\ Visits(d) \in Nat /\ Visits(doc) = Visits(d) + (IF e.kind = "page_visit" THEN 1 ELSE 0)
        /\ Dwells(d) \in Nat
        /\ Dwells(doc) = Dwells(d) + (IF e.kind = "section_dwell" THEN 1 ELSE 0)
    BY <1>6, <2>1, KindAdded DEF Visits, Dwells
  <2>3. IsFiniteSet(doc.events) /\ \A x \in doc.events : x.id \in used
    BY <1>4, <1>6, <2>1, FS_AddElement DEF DocFine
  <2>4. doc.active <=> doc.ended = 0
    <3>1. (d.active <=> d.ended = 0) /\ d.ended \in Nat
      BY <1>4, <1>6 DEF DocFine, Session
    <3>2. QED
      BY <1>7, <1>9, <1>11, <3>1 DEF SavedActive, SavedEnded
  <2> HIDE DEF Visits, Dwells
  <2>5. d.views \in Nat /\ d.dwells \in Nat /\ copy.views \in Nat /\ copy.dwells \in Nat
    BY DEF Session
  <2>6. d.views <= Visits(d) /\ d.dwells <= Dwells(d)
    BY <1>4 DEF DocFine, Visits, Dwells
  <2>7. doc.views <= Visits(doc) /\ doc.dwells <= Dwells(doc)
    BY <1>6, <1>9, <1>11, <2>2, <2>5, <2>6 DEF SavedViews, SavedDwells
  <2>8. ASSUME s \notin raced
        PROVE  /\ doc.views = Visits(doc) /\ doc.dwells = Dwells(doc)
               /\ \A x \in Pages : doc.pages[x] <= 1
               /\ doc.backup = saved[s]
    <3>1. /\ d.views = Visits(d) /\ d.dwells = Dwells(d) /\ d.backup = saved[s]
          /\ \A x \in Pages : d.pages[x] <= 1
      BY <1>4, <2>8 DEF DocFine, Visits, Dwells
    <3>2. doc.views = Visits(doc) /\ doc.dwells = Dwells(doc)
      BY <1>6, <1>9, <1>11, <2>2, <2>5, <2>8, <3>1 DEF SavedViews, SavedDwells
    <3>3. \A x \in Pages : doc.pages[x] <= 1
      <4>1. d.pages \in [Pages -> Nat] /\ e.page \in Pages /\ copy.pages = d.pages
        BY <1>6, <2>8 DEF Session, Event
      <4>2. CASE e.kind = "page_visit" /\ copy.pages[e.page] = 0
        <5>1. doc.pages = [d.pages EXCEPT ![e.page] = @ + 1]
          BY <1>9, <1>11, <4>2 DEF SavedPages
        <5>2. QED
          BY <3>1, <4>1, <4>2, <5>1
      <4>3. CASE ~ (e.kind = "page_visit" /\ copy.pages[e.page] = 0)
        <5>1. doc.pages = d.pages
          BY <1>9, <1>11, <4>3 DEF SavedPages
        <5>2. QED
          BY <3>1, <5>1
      <4>4. QED
        BY <4>2, <4>3
    <3>4. QED
      BY <1>9, <1>11, <3>1, <3>2, <3>3
  <2>9. QED
    BY <1>6, <1>9, <1>11, <2>3, <2>4, <2>7, <2>8 DEF DocFine, Visits, Dwells
<1>14. /\ doc.exists /\ sessions[s].events \subseteq doc.events
       /\ doc.events \subseteq sessions[s].events \union ({procs[p].event} \ {None})
       /\ \A ack \in acked' : ack \in acked \/ (ack[2] = s /\ ack[1] \in doc.events)
       /\ acked' \subseteq Event \X Ids
  BY <1>2, <1>3, <1>4, <1>5, <1>6, <1>9, <1>11, <1>12, DocumentsAssumption
<1>15. Stores(p, s, doc, saved[s])
  BY <1>2, <1>4, <1>12, <1>13, <1>14 DEF Stores
<1>16. QED
  BY <1>4, <1>11, <1>15, DocumentMoves

\* Backups are written and cleared.
LEMMA CreateMinimalFine ==
    ASSUME TrackerInv, NEW p \in Procs, CreateMinimalSession(p)
    PROVE  TrackerInv'
<1>1. procs[p].step = "minimal" /\ UNCHANGED <<used, acked, lapsed, reclosed>>
  BY DEF CreateMinimalSession, At
<1>2. PICK s \in Ids, o \in Proc : s = procs[p].id /\ o = procs[p]
  BY <1>1, AtWork
<1>3. /\ RequestFine(o, sessions[s], used, raced) /\ sessions[s] \in Session
      /\ DocFine(s, sessions[s], used, raced, lapsed, saved[s])
      /\ saved[s] \in [Forms -> Contents \union {None}]
      /\ reclosed \subseteq Ids /\ acked \subseteq Event \X Ids
  BY <1>1, <1>2, AtWork
<1>4. PICK f \in Forms, c \in Contents : f = o.form /\ c = o.content
  BY <1>1, <1>2, <1>3 DEF RequestFine
<1>5. CASE sessions[s].exists
  <2>1. Done(p) /\ UNCHANGED <<sessions, saved>>
    BY <1>2, <1>5 DEF CreateMinimalSession
  <2>2. QED
    BY <1>1, <2>1, RequestDone
<1>6. CASE ~ sessions[s].exists
  <2>1. PICK new : new = Fresh(RecoveredKey(s), 1, None, "defaults")
    OBVIOUS
  <2>2. RecoveredKey(s) \in Keys \union {None}
    <3>1. s \in ClientIds
      BY <1>1, <1>2, <1>3 DEF RequestFine
    <3>2. QED
      BY <3>1, DocumentsAssumption DEF RecoveredKey
  <2>3. new \in Session
    BY <2>1, <2>2, FreshType
  <2>4. /\ new.exists /\ new.active /\ ~ new.stale /\ new.ended = 0 /\ new.events = {}
        /\ new.views = 0 /\ new.dwells = 0 /\ new.pages = NoPages /\ new.backup = NoBackup
    BY <2>1 DEF Fresh
  <2>5. sessions[s] = Absent
    BY <1>3, <1>6 DEF DocFine
  <2>6. PICK b \in [Forms -> Contents \union {None}] : b = [NoBackup EXCEPT ![f] = c]
    BY NothingYet
  <2>7. PICK doc : doc = [new EXCEPT !.backup = b]
    OBVIOUS
  <2>8. /\ doc \in Session /\ doc.exists /\ doc.active /\ ~ doc.stale /\ doc.ended = 0
        /\ doc.events = {} /\ doc.views = 0 /\ doc.dwells = 0 /\ doc.pages = NoPages
        /\ doc.backup = b
    <3>1. doc = Rewritten(new, new.active, new.stale, new.ended, new.info, new.events,
                          new.views, new.dwells, new.pages, b)
      BY <2>3, <2>7, BackedDoc
    <3>2. QED
      BY <2>3, <2>4, <3>1 DEF Rewritten, Session
  <2>9. PICK sv \in [Forms -> Contents \union {None}] : sv = [saved[s] EXCEPT ![f] = c]
    BY <1>3
  <2>10. Save(p, s, doc) /\ saved' = [saved EXCEPT ![s] = sv]
    <3>1. doc = [new EXCEPT !.backup[f] = c]
      BY <2>4, <2>6, <2>7
    <3>2. Save(p, s, doc) /\ saved' = [saved EXCEPT ![s][f] = c]
      BY <1>2, <1>4, <1>6, <2>1, <3>1 DEF CreateMinimalSession
    <3>3. QED
      BY <2>9, <3>2
  <2>11. s \notin raced => doc.backup = sv
    BY <1>3, <2>5, <2>6, <2>8, <2>9, AbsentType DEF DocFine
  <2>12. DocFine(s, doc, used, raced, lapsed, sv)
    BY <2>8, <2>11, FreshFine
  <2>13. sessions[s].events = doc.events
    BY <2>5, <2>8, AbsentType
  <2>14. Stores(p, s, doc, sv)
    BY <1>1, <1>2, <1>3, <2>8, <2>10, <2>12, <2>13 DEF Stores
  <2>15. QED
    BY <2>8, <2>9, <2>14, DocumentMoves
<1>7. QED
  BY <1>5, <1>6

LEMMA BackupFine ==
    ASSUME TrackerInv, NEW p \in Procs, SaveBackup(p) \/ ClearBackup(p)
    PROVE  TrackerInv'
<1>1. procs[p].step \in {"save_backup", "clear"} /\ UNCHANGED <<used, acked, lapsed, reclosed>>
  BY DEF SaveBackup, ClearBackup, At
<1>2. PICK s \in Ids, o \in Proc : s = procs[p].id /\ o = procs[p]
  BY <1>1, AtWork
<1>3. PICK d \in Session : d = sessions[s]
  BY <1>1, <1>2, AtWork
<1>4. /\ RequestFine(o, d, used, raced) /\ d.exists
      /\ DocFine(s, d, used, raced, lapsed, saved[s])
      /\ saved[s] \in [Forms -> Contents \union {None}]
      /\ reclosed \subseteq Ids /\ acked \subseteq Event \X Ids
  BY <1>1, <1>2, <1>3, AtWork DEF RequestFine, FoundSteps
<1>5. CASE ClearBackup(p) /\ o.form # None
  <2>1. Done(p) /\ UNCHANGED <<sessions, saved>>
    BY <1>2, <1>5 DEF ClearBackup
  <2>2. QED
    BY <1>1, <2>1, RequestDone
<1>6. CASE SaveBackup(p) \/ (ClearBackup(p) /\ o.form = None)
  <2>0. PICK sv \in [Forms -> Contents \union {None}],
             b \in [Forms -> Contents \union {None}] : \E doc :
           /\ doc = [d EXCEPT !.backup = b] \/ doc = [d EXCEPT !.stale = FALSE, !.backup = b]
           /\ Save(p, s, doc) /\ saved' = [saved EXCEPT ![s] = sv]
           /\ s \notin raced => b = sv
    <3>1. CASE SaveBackup(p)
      <4>1. o.step = "save_backup"
        BY <1>2, <3>1 DEF SaveBackup, At
      <4>2. PICK f \in Forms, c \in Contents : f = o.form /\ c = o.content
        BY <1>4, <4>1 DEF RequestFine
      <4>3. o.copy.backup \in [Forms -> Contents \union {None}]
        BY DEF Proc, Session
      <4>4. PICK b \in [Forms -> Contents \union {None}] : b = [o.copy.backup EXCEPT ![f] = c]
        BY <4>3
      <4>5. PICK sv \in [Forms -> Contents \union {None}] : sv = [saved[s] EXCEPT ![f] = c]
        BY <1>4
      <4>6. PICK doc : doc = [d EXCEPT !.stale = FALSE, !.backup = b]
        OBVIOUS
      <4>7. Save(p, s, doc) /\ saved' = [saved EXCEPT ![s] = sv]
        <5>1. doc = [sessions[s] EXCEPT !.stale = FALSE, !.backup = [procs[p].copy.backup EXCEPT
                                                         ![procs[p].form] = procs[p].content]]
          BY <1>2, <1>3, <4>2, <4>4, <4>6
        <5>2. Save(p, s, doc) /\ saved' = [saved EXCEPT ![s][f] = c]
          BY <1>2, <3>1, <4>2, <5>1 DEF SaveBackup
        <5>3. QED
          BY <4>5, <5>2
      <4>8. s \notin raced => b = sv
        BY <1>2, <1>4, <4>1, <4>4, <4>5 DEF RequestFine, DocFine
      <4>9. QED
        BY <4>6, <4>7, <4>8
    <3>2. CASE ClearBackup(p) /\ o.form = None
      <4>1. PICK b \in [Forms -> Contents \union {None}] : b = NoBackup
        BY NothingYet
      <4>2. PICK doc : doc = [d EXCEPT !.backup = b]
        OBVIOUS
      <4>3. Save(p, s, doc) /\ saved' = [saved EXCEPT ![s] = b]
        BY <1>2, <1>3, <3>2, <4>1, <4>2 DEF ClearBackup
      <4>4. QED
        BY <4>2, <4>3
    <3>3. QED
      BY <1>6, <3>1, <3>2
  <2>1. PICK doc :
           /\ doc = [d EXCEPT !.backup = b] \/ doc = [d EXCEPT !.stale = FALSE, !.backup = b]
           /\ Save(p, s, doc) /\ saved' = [saved EXCEPT ![s] = sv]
           /\ s \notin raced => b = sv
    BY <2>0
  <2>2. /\ d.active \in BOOLEAN /\ d.ended \in Nat /\ d.info \in {"parsed", "client", "defaults"}
        /\ d.events \in SUBSET Event /\ d.views \in Nat /\ d.dwells \in Nat
        /\ d.pages \in [Pages -> Nat] /\ d.stale \in BOOLEAN /\ FALSE \in BOOLEAN
        /\ (d.active <=> d.ended = 0)
    BY <1>4 DEF Session, DocFine
  <2>3. /\ doc \in Session /\ doc.exists = d.exists /\ doc.active = d.active
        /\ doc.ended = d.ended /\ doc.events = d.events
        /\ doc.views = d.views /\ doc.dwells = d.dwells /\ doc.pages = d.pages
        /\ doc.backup = b /\ (doc.stale => d.stale)
    <3>1. CASE doc = [d EXCEPT !.backup = b]
      <4>1. doc = Rewritten(d, d.active, d.stale, d.ended, d.info, d.events, d.views, d.dwells,
                            d.pages, b)
        BY <3>1, BackedDoc
      <4>2. QED
        BY <2>2, <4>1 DEF Rewritten, Session
    <3>2. CASE doc = [d EXCEPT !.stale = FALSE, !.backup = b]
      <4>1. doc = Rewritten(d, d.active, FALSE, d.ended, d.info, d.events, d.views, d.dwells,
                            d.pages, b)
        BY <3>2, BackedDoc
      <4>2. QED
        BY <2>2, <4>1 DEF Rewritten, Session
    <3>3. QED
      BY <2>1, <3>1, <3>2
  <2>4. DocFine(s, doc, used, raced, lapsed, sv)
    <3>1. (doc.active <=> doc.ended = 0) /\ (s \notin raced => doc.backup = sv)
      BY <2>1, <2>2, <2>3
    <3>2. QED
      BY <1>4, <2>3, <3>1, RewriteFine
  <2>5. Stores(p, s, doc, sv)
    BY <1>1, <1>2, <1>3, <1>4, <2>1, <2>3, <2>4 DEF Stores
  <2>6. QED
    BY <2>1, <2>3, <2>5, DocumentMoves
<1>7. QED
  BY <1>5, <1>6

\* A day passes.
LEMMA LapseFine ==
    ASSUME TrackerInv, NEW s \in Ids, Lapse(s)
    PROVE  TrackerInv'
<1>1. PICK d \in Session : d = sessions[s] /\ d.exists
  BY DEF Lapse, TrackerInv, SessionsTypeOK
<1>2. PICK doc : doc = [d EXCEPT !.stale = TRUE]
  OBVIOUS
<1>3. /\ doc \in Session /\ doc.exists /\ doc.active = d.active /\ doc.ended = d.ended
      /\ doc.events = d.events /\ doc.views = d.views /\ doc.dwells = d.dwells
      /\ doc.pages = d.pages /\ doc.backup = d.backup
  <2>1. doc = [exists |-> d.exists, key |-> d.key, number |-> d.number,
               previous |-> d.previous, active |-> d.active, stale |-> TRUE,
               ended |-> d.ended, info |-> d.info, events |-> d.events, views |-> d.views,
               dwells |-> d.dwells, pages |-> d.pages, backup |-> d.backup]
    <3>1. PICK t : t = d
      OBVIOUS
    <3>2. t = [exists |-> d.exists, key |-> d.key, number |-> d.number,
               previous |-> d.previous, active |-> d.active, stale |-> d.stale,
               ended |-> d.ended, info |-> d.info, events |-> d.events, views |-> d.views,
               dwells |-> d.dwells, pages |-> d.pages, backup |-> d.backup]
      BY <3>1, SessionParts
    <3>3. doc = [t EXCEPT !.stale = TRUE]
      BY <1>2, <3>1
    <3>4. QED
      BY <3>2, <3>3
  <2>2. QED
    BY <1>1, <2>1 DEF Session
<1>4. /\ sessions' = [sessions EXCEPT ![s] = doc] /\ lapsed' = lapsed \union {s}
      /\ UNCHANGED <<used, procs, acked, saved, raced, reclosed>>
      /\ \A p \in Procs : procs[p].id # s
  BY <1>1, <1>2 DEF Lapse
<1>5. sessions \in [Ids -> Session] /\ procs \in [Procs -> Proc] /\ lapsed \subseteq Ids
  BY DEF TrackerInv, SessionsTypeOK
<1>6. SessionsTypeOK'
  BY <1>3, <1>4, <1>5 DEF TrackerInv, SessionsTypeOK
<1>7. ASSUME NEW t \in Ids
      PROVE  DocFine(t, sessions[t], used, raced, lapsed, saved[t])'
  <2>1. DocFine(t, sessions[t], used, raced, lapsed, saved[t])
    BY DEF TrackerInv
  <2>2. DocFine(t, sessions[t], used, raced, lapsed', saved[t])
    BY <1>4, <2>1, DocStaysFine
  <2>3. DocFine(t, sessions'[t], used, raced, lapsed', saved[t])
    <3>1. CASE t = s
      <4>1. sessions'[t] = doc /\ s \in lapsed'
        BY <1>4, <1>5, <3>1
      <4>2. DocFine(s, doc, used, raced, lapsed', saved[s])
        BY <1>1, <1>3, <2>2, <3>1, <4>1 DEF DocFine, Visits, Dwells, KindOf
      <4>3. QED
        BY <3>1, <4>1, <4>2
    <3>2. CASE t # s
      BY <1>4, <1>5, <2>2, <3>2
    <3>3. QED
      BY <3>1, <3>2
  <2>4. QED
    BY <1>4, <2>3 DEF DocFine, Visits, Dwells, KindOf
<1>8. ASSUME NEW p \in Procs
      PROVE  RequestFine(procs[p], SeenBy(procs[p]), used, raced)'
  <2>1. RequestFine(procs[p], SeenBy(procs[p]), used, raced)
    BY DEF TrackerInv
  <2>2. SeenBy(procs[p])' = SeenBy(procs[p])
    BY <1>4, <1>5 DEF SeenBy
  <2>3. RequestFine(procs'[p], SeenBy(procs[p])', used', raced')
    BY <1>4, <2>1, <2>2
  <2>4. QED
    BY <2>3 DEF RequestFine, Visits, Dwells, KindOf
<1>9. \A p, q \in Procs : p # q => ApartFrom(procs[p], procs[q], raced)'
  BY <1>4 DEF TrackerInv, ApartFrom
<1>10. EventsKept'
  <2>1. ASSUME NEW ack \in acked' PROVE ack[1] \in sessions'[ack[2]].events
    <3>1. ack \in acked /\ ack[2] \in Ids
      BY <1>4 DEF TrackerInv, SessionsTypeOK
    <3>2. ack[1] \in sessions[ack[2]].events
      BY <3>1 DEF TrackerInv, EventsKept
    <3>3. CASE ack[2] = s
      BY <1>1, <1>3, <1>4, <1>5, <3>2, <3>3
    <3>4. CASE ack[2] # s
      BY <1>4, <1>5, <3>1, <3>2, <3>4
    <3>5. QED
      BY <3>3, <3>4
  <2>2. QED
    BY <2>1 DEF EventsKept
<1>11. QED
  BY <1>6, <1>7, <1>8, <1>9, <1>10 DEF TrackerInv

\* Every step of the tracker, and its initial state.
LEMMA TrackerStep ==
    ASSUME TrackerInv, SessionsNext
    PROVE  TrackerInv'
<1>1. CASE \E p \in Procs, h \in Headers : GetOrCreateSessionByIp(p, h) \/ StartSession(p, h)
  BY <1>1, StartsFine
<1>2. CASE \E p \in Procs, s \in Ids, e \in Event : RecordEvent(p, s, e)
  BY <1>2, RecordFine
<1>3. CASE \E p \in Procs, s \in Ids, f \in Forms, c \in Contents : SaveDataBackup(p, s, f, c)
  BY <1>3, FindFine
<1>4. CASE \E p \in Procs, s \in Ids : FindToUpdate(p, s)
  BY <1>4, FindFine
<1>5. CASE \E p \in Procs, s \in Ids, f \in Forms \union {None} : FindToClear(p, s, f)
  BY <1>5, FindFine
<1>6. ASSUME NEW p \in Procs,
             \/ FindExisting(p) \/ FindPrevious(p) \/ Insert(p) \/ Touch(p)
             \/ UpdateSession(p) \/ Recover(p) \/ CloseExpired(p) \/ SaveEvent(p)
             \/ CreateMinimalSession(p) \/ FindBackup(p) \/ SaveBackup(p) \/ ClearBackup(p)
      PROVE  TrackerInv'
  BY <1>6, FindExistingFine, FindPreviousFine, InsertFine, FoundFine, RecoverFine,
     SaveEventFine, CreateMinimalFine, FindBackupFine, BackupFine
<1>7. CASE \E s \in Ids : Lapse(s)
  BY <1>7, LapseFine
<1>8. QED
  BY <1>1, <1>2, <1>3, <1>4, <1>5, <1>6, <1>7 DEF SessionsNext

LEMMA TrackerStart ==
    ASSUME SessionsInit
    PROVE  TrackerInv
<1>1. SessionsTypeOK
  BY AbsentType, IdleType, NothingYet DEF SessionsInit, SessionsTypeOK
<1>2. ASSUME NEW s \in Ids PROVE DocFine(s, sessions[s], used, raced, lapsed, saved[s])
  <2>1. sessions[s] = Absent /\ saved[s] = NoBackup /\ used = {}
    BY DEF SessionsInit
  <2>2. \A kind : KindOf(Absent, kind) = {}
    BY AbsentType DEF KindOf
  <2>3. Visits(Absent) = 0 /\ Dwells(Absent) = 0 /\ IsFiniteSet(Absent.events)
    BY <2>2, AbsentType, FS_EmptySet DEF Visits, Dwells
  <2>4. QED
    BY <2>1, <2>3, AbsentType, NothingYet DEF DocFine
<1>3. \A p \in Procs : RequestFine(procs[p], SeenBy(procs[p]), used, raced)
  BY IdleFine DEF SessionsInit
<1>4. \A p, q \in Procs : p # q => ApartFrom(procs[p], procs[q], raced)
  BY IdleType, IdleApart DEF SessionsInit
<1>5. EventsKept
  BY DEF SessionsInit, EventsKept
<1>6. QED
  BY <1>1, <1>2, <1>3, <1>4, <1>5 DEF TrackerInv

-----------------------------------------------------------------------------
(* The chain of sessions of an address.                                    *)

\* Steps of one request that leave the documents alone.
LEMMA ChainWaits ==
    ASSUME TrackerInv, ChainInv, NEW p \in Procs, NEW r \in Proc,
           procs' = [procs EXCEPT ![p] = r], sessions' = sessions,
           raced \subseteq raced', lapsed' = lapsed, reclosed' = reclosed,
           r.step = "insert" => Continues(sessions, r.copy),
           \A s \in Ids : StartFineFor(r, s, sessions[s], raced', lapsed, reclosed)
    PROVE  ChainInv'
<1>0. procs \in [Procs -> Proc] /\ sessions \in [Ids -> Session]
  BY DEF TrackerInv, SessionsTypeOK
<1>1. \A s \in Ids : /\ Continues(sessions, sessions[s])'
                     /\ EndsLater(sessions, sessions[s], reclosed)'
  BY DEF ChainInv, Continues, EndsLater
<1>2. ASSUME NEW q \in Procs, procs'[q].step = "insert"
      PROVE  Continues(sessions, procs[q].copy)'
  <2>1. Continues(sessions, procs'[q].copy)
    BY <1>0, <1>2 DEF ChainInv
  <2>2. QED
    BY <2>1 DEF Continues
<1>3. ASSUME NEW q \in Procs, NEW s \in Ids
      PROVE  StartFineFor(procs[q], s, sessions[s], raced, lapsed, reclosed)'
  <2>1. StartFineFor(procs'[q], s, sessions[s], raced', lapsed, reclosed)
    <3>1. CASE q = p
      BY <1>0, <3>1
    <3>2. CASE q # p
      <4>1. StartFineFor(procs[q], s, sessions[s], raced, lapsed, reclosed)
        BY DEF ChainInv
      <4>2. procs'[q] = procs[q]
        BY <1>0, <3>2
      <4>3. QED
        BY <4>1, <4>2 DEF StartFineFor, Excused
    <3>3. QED
      BY <3>1, <3>2
  <2>2. QED
    BY <2>1 DEF StartFineFor, Excused
<1>4. \A s, t \in Ids :
          s # t /\ sessions'[s].previous # None /\ sessions'[s].previous = sessions'[t].previous =>
             sessions'[s].previous \in reclosed' \/ {s, t} \intersect (raced' \union lapsed') # {}
  BY DEF ChainInv
<1>5. QED
  BY <1>1, <1>2, <1>3, <1>4 DEF ChainInv

\* What a write keeps of a document, or the first write of one that continues none.
Keeps(s, d, doc) ==
    /\ d.exists => doc.exists /\ doc.key = d.key /\ doc.number = d.number
    /\ doc.previous = d.previous
    /\ ~ d.active /\ d.exists => ~ doc.active
    /\ \/ ~ d.exists
       \/ doc.active = d.active /\ doc.ended = d.ended
       \/ /\ ~ doc.active /\ (d.ended = 0 \/ s \in reclosed')
          /\ \A t \in Ids : doc.ended > sessions[t].ended

\* A document that continues another one exists, and so does the other one.
LEMMA ContinuingExists ==
    ASSUME TrackerInv, ChainInv, NEW s \in Ids, sessions[s].previous # None
    PROVE  /\ sessions[s].exists /\ sessions[s].previous \in Ids \ {s}
           /\ sessions[sessions[s].previous].exists
           /\ ~ sessions[sessions[s].previous].active
           /\ sessions[sessions[s].previous].ended # 0
<1>1. PICK d \in Session : d = sessions[s]
  BY DEF TrackerInv, SessionsTypeOK
<1>2. DocFine(s, d, used, raced, lapsed, saved[s]) /\ Continues(sessions, d)
  BY <1>1 DEF TrackerInv, ChainInv
<1>3. d.exists
  BY <1>1, <1>2, AbsentType DEF DocFine
<1>4. PICK b \in Ids : b = d.previous
  BY <1>1 DEF Session
<1>5. sessions[b].exists /\ ~ sessions[b].active /\ d.number = sessions[b].number + 1
  BY <1>1, <1>2, <1>4 DEF Continues
<1>6. sessions[b].number \in Nat
  BY DEF TrackerInv, SessionsTypeOK, Session
<1>7. b # s
  BY <1>1, <1>5, <1>6
<1>8. sessions[b].ended # 0
  BY <1>5 DEF TrackerInv, DocFine
<1>9. QED
  BY <1>1, <1>3, <1>4, <1>5, <1>7, <1>8

\* A document is written, by a request that starts none, or a day passes.
LEMMA ChainKept ==
    ASSUME TrackerInv, ChainInv, NEW s \in Ids, NEW doc \in Session,
           sessions' = [sessions EXCEPT ![s] = doc], Keeps(s, sessions[s], doc),
           \A q \in Procs : \/ procs'[q] = procs[q]
                            \/ procs'[q].step \notin {"find_previous", "insert"},
           raced \subseteq raced', lapsed \subseteq lapsed', reclosed \subseteq reclosed'
    PROVE  ChainInv'
<1>0. sessions \in [Ids -> Session]
  BY DEF TrackerInv, SessionsTypeOK
<1>1. PICK d \in Session : d = sessions[s]
  BY <1>0
<1>2. \A t \in Ids : /\ t = s => sessions'[t] = doc
                     /\ t # s => sessions'[t] = sessions[t]
  BY <1>0
<1>3. Keeps(s, d, doc)
  BY <1>1
<1>4. d.previous # None => d.exists
  BY <1>1, ContinuingExists
<1>5. \A t \in Ids : sessions'[t].previous = sessions[t].previous
  BY <1>1, <1>2, <1>3 DEF Keeps
\* What a document continues is still there, as it was, and closed.
<1>6. ASSUME NEW b \in Ids, sessions[b].exists, ~ sessions[b].active
      PROVE  /\ sessions'[b].exists /\ ~ sessions'[b].active
             /\ sessions'[b].key = sessions[b].key /\ sessions'[b].number = sessions[b].number
             /\ \/ sessions'[b].ended = sessions[b].ended
                \/ b = s /\ (d.ended = 0 \/ s \in reclosed')
  BY <1>1, <1>2, <1>3, <1>6 DEF Keeps
<1>7. ASSUME NEW t \in Ids
      PROVE  Continues(sessions', sessions'[t]) /\ EndsLater(sessions', sessions'[t], reclosed')
  <2>1. CASE sessions[t].previous = None
    BY <1>5, <2>1 DEF Continues, EndsLater
  <2>2. CASE sessions[t].previous # None
    <3>1. PICK b \in Ids \ {t} : b = sessions[t].previous /\ sessions[b].exists
                                /\ ~ sessions[b].active /\ sessions[b].ended # 0
      BY <2>2, ContinuingExists
    <3>2. /\ sessions[t].exists
          /\ sessions[b].key = sessions[t].key /\ sessions[t].number = sessions[b].number + 1
          /\ b \notin reclosed /\ ~ sessions[t].active => sessions[t].ended > sessions[b].ended
      BY <2>2, <3>1, ContinuingExists DEF ChainInv, Continues, EndsLater
    <3>3. /\ sessions'[b].exists /\ ~ sessions'[b].active
          /\ sessions'[b].key = sessions[b].key /\ sessions'[b].number = sessions[b].number
          /\ \/ sessions'[b].ended = sessions[b].ended
             \/ b = s /\ (d.ended = 0 \/ s \in reclosed')
      BY <1>6, <3>1
    <3>4. sessions'[t].key = sessions[t].key /\ sessions'[t].number = sessions[t].number
      BY <1>1, <1>2, <1>3, <3>2 DEF Keeps
    <3>5. Continues(sessions', sessions'[t])
      BY <1>5, <3>1, <3>2, <3>3, <3>4 DEF Continues
    <3>6. ASSUME b \notin reclosed', ~ sessions'[t].active
          PROVE  sessions'[t].ended > sessions'[b].ended
      <4>1. sessions'[b].ended = sessions[b].ended
        BY <1>1, <3>1, <3>3, <3>6
      <4>2. b \notin reclosed
        BY <3>6
      <4>3. CASE t # s
        BY <1>2, <3>2, <3>6, <4>1, <4>2, <4>3
      <4>4. CASE t = s
        <5>1. \/ doc.active = d.active /\ doc.ended = d.ended
              \/ doc.ended > sessions[b].ended
          BY <1>1, <1>3, <3>2, <4>4 DEF Keeps
        <5>2. sessions'[t] = doc /\ d = sessions[t]
          BY <1>1, <1>2, <4>4
        <5>3. QED
          BY <3>2, <3>6, <4>1, <4>2, <5>1, <5>2
      <4>5. QED
        BY <4>3, <4>4
    <3>7. QED
      BY <1>5, <3>1, <3>5, <3>6 DEF EndsLater
  <2>3. QED
    BY <2>1, <2>2
<1>8. ASSUME NEW q \in Procs, procs'[q].step = "insert"
      PROVE  Continues(sessions', procs'[q].copy)
  <2>1. PICK h \in Proc : h = procs[q] /\ h = procs'[q]
    BY <1>8 DEF TrackerInv, SessionsTypeOK
  <2>2. Continues(sessions, h.copy)
    BY <1>8, <2>1 DEF ChainInv
  <2>3. h.copy.previous \in Ids \union {None}
    BY DEF Proc, Session
  <2>4. Continues(sessions', h.copy)
    BY <1>6, <2>2, <2>3 DEF Continues
  <2>5. QED
    BY <2>1, <2>4
<1>9. ASSUME NEW q \in Procs, NEW t \in Ids
      PROVE  StartFineFor(procs'[q], t, sessions'[t], raced', lapsed', reclosed')
  <2>1. CASE procs'[q].step \notin {"find_previous", "insert"}
    BY <2>1 DEF StartFineFor
  <2>2. CASE procs'[q] = procs[q]
    <3>1. PICK h \in Proc : h = procs[q] /\ h = procs'[q]
      BY <2>2 DEF TrackerInv, SessionsTypeOK
    <3>2. StartFineFor(h, t, sessions[t], raced, lapsed, reclosed)
      BY <3>1 DEF ChainInv
    <3>3. StartFineFor(h, t, sessions'[t], raced', lapsed', reclosed')
      <4>1. CASE sessions[t].previous = None
        BY <1>5, <4>1 DEF StartFineFor
      <4>2. CASE sessions[t].previous # None
        <5>1. sessions[t].exists
          BY <4>2, ContinuingExists
        <5>2. /\ sessions'[t].key = sessions[t].key
              /\ ~ sessions[t].active => ~ sessions'[t].active
          BY <1>1, <1>2, <1>3, <5>1 DEF Keeps
        <5>3. QED
          BY <1>5, <3>2, <5>1, <5>2 DEF StartFineFor, Excused
      <4>3. QED
        BY <4>1, <4>2
    <3>4. QED
      BY <3>1, <3>3
  <2>3. QED
    BY <2>1, <2>2
<1>10. \A t, u \in Ids :
          t # u /\ sessions'[t].previous # None /\ sessions'[t].previous = sessions'[u].previous =>
             sessions'[t].previous \in reclosed' \/ {t, u} \intersect (raced' \union lapsed') # {}
  <2>1. ASSUME NEW t \in Ids, NEW u \in Ids, t # u, sessions[t].previous # None,
               sessions[t].previous = sessions[u].previous
        PROVE  sessions[t].previous \in reclosed' \/ {t, u} \intersect (raced' \union lapsed') # {}
    <3>1. sessions[t].previous \in reclosed \/ {t, u} \intersect (raced \union lapsed) # {}
      BY <2>1 DEF ChainInv
    <3>2. QED
      BY <3>1
  <2>2. QED
    BY <1>5, <2>1
<1>11. \A t \in Ids : /\ Continues(sessions, sessions[t])'
                      /\ EndsLater(sessions, sessions[t], reclosed)'
  BY <1>7 DEF Continues, EndsLater
<1>12. \A q \in Procs : procs'[q].step = "insert" => Continues(sessions, procs[q].copy)'
  BY <1>8 DEF Continues
<1>13. \A q \in Procs, t \in Ids :
          StartFineFor(procs[q], t, sessions[t], raced, lapsed, reclosed)'
  BY <1>9 DEF StartFineFor, Excused
<1>14. QED
  BY <1>10, <1>11, <1>12, <1>13 DEF ChainInv

\* A request writes, and starts no session.
LEMMA ChainWrites ==
    ASSUME TrackerInv, TrackerInv', ChainInv, NEW p \in Procs, NEW s \in Ids, NEW doc,
           sessions' = [sessions EXCEPT ![s] = doc], Keeps(s, sessions[s], doc),
           NEW r, procs' = [procs EXCEPT ![p] = r], r.step \notin {"find_previous", "insert"},
           raced \subseteq raced', lapsed' = lapsed, reclosed \subseteq reclosed'
    PROVE  ChainInv'
<1>1. sessions \in [Ids -> Session] /\ sessions' \in [Ids -> Session] /\ procs \in [Procs -> Proc]
  BY DEF TrackerInv, SessionsTypeOK
<1>2. doc = sessions'[s]
  BY <1>1
<1>3. doc \in Session
  BY <1>1, <1>2
<1>4. \A q \in Procs : \/ procs'[q] = procs[q]
                       \/ procs'[q].step \notin {"find_previous", "insert"}
  BY <1>1
<1>5. lapsed \subseteq lapsed'
  OBVIOUS
<1>6. QED
  BY <1>3, <1>4, <1>5, ChainKept

LEMMA ChainFound ==
    ASSUME TrackerInv, TrackerInv', ChainInv, NEW p \in Procs,
           \/ Touch(p) \/ UpdateSession(p) \/ SaveBackup(p)
           \/ ClearBackup(p) /\ procs[p].form = None
    PROVE  ChainInv'
<1>1. procs[p].step # "idle"
  BY DEF Touch, UpdateSession, SaveBackup, ClearBackup, At
<1>2. PICK s \in Ids, d \in Session : s = procs[p].id /\ d = sessions[s]
  BY <1>1, AtWork
<1>3. PICK doc : /\ Save(p, s, doc) /\ lapsed' = lapsed /\ reclosed' = reclosed
                 /\ doc.exists = d.exists /\ doc.key = d.key /\ doc.number = d.number
                 /\ doc.previous = d.previous /\ doc.active = d.active /\ doc.ended = d.ended
  <2>1. CASE Touch(p)
    <3>1. PICK doc : doc = [d EXCEPT !.stale = FALSE]
      OBVIOUS
    <3>2. /\ doc.exists = d.exists /\ doc.key = d.key /\ doc.number = d.number
          /\ doc.previous = d.previous /\ doc.active = d.active /\ doc.ended = d.ended
      BY <3>1 DEF Session
    <3>3. Save(p, s, doc) /\ Kept
      BY <1>2, <2>1, <3>1 DEF Touch
    <3>4. QED
      BY <3>2, <3>3 DEF Kept
  <2>2. CASE UpdateSession(p)
    <3>1. PICK doc : doc = [d EXCEPT !.stale = FALSE, !.info = "client"]
      OBVIOUS
    <3>2. /\ doc.exists = d.exists /\ doc.key = d.key /\ doc.number = d.number
          /\ doc.previous = d.previous /\ doc.active = d.active /\ doc.ended = d.ended
      BY <3>1 DEF Session
    <3>3. Save(p, s, doc) /\ Kept
      BY <1>2, <2>2, <3>1 DEF UpdateSession
    <3>4. QED
      BY <3>2, <3>3 DEF Kept
  <2>3. CASE SaveBackup(p)
    <3>1. PICK doc : doc = [d EXCEPT !.stale = FALSE, !.backup =
                              [procs[p].copy.backup EXCEPT ![procs[p].form] = procs[p].content]]
      OBVIOUS
    <3>2. /\ doc.exists = d.exists /\ doc.key = d.key /\ doc.number = d.number
          /\ doc.previous = d.previous /\ doc.active = d.active /\ doc.ended = d.ended
      BY <3>1 DEF Session
    <3>3. Save(p, s, doc) /\ UNCHANGED <<used, acked, lapsed, reclosed>>
      BY <1>2, <2>3, <3>1 DEF SaveBackup
    <3>4. QED
      BY <3>2, <3>3
  <2>4. CASE ClearBackup(p) /\ procs[p].form = None
    <3>1. PICK doc : doc = [d EXCEPT !.backup = NoBackup]
      OBVIOUS
    <3>2. /\ doc.exists = d.exists /\ doc.key = d.key /\ doc.number = d.number
          /\ doc.previous = d.previous /\ doc.active = d.active /\ doc.ended = d.ended
      BY <3>1 DEF Session
    <3>3. Save(p, s, doc) /\ UNCHANGED <<used, acked, lapsed, reclosed>>
      BY <1>2, <2>4, <3>1 DEF ClearBackup
    <3>4. QED
      BY <3>2, <3>3
  <2>5. QED
    BY <2>1, <2>2, <2>3, <2>4
<1>4. Keeps(s, sessions[s], doc)
  BY <1>2, <1>3 DEF Keeps
<1>5. /\ sessions' = [sessions EXCEPT ![s] = doc] /\ procs' = [procs EXCEPT ![p] = Idle]
      /\ raced \subseteq raced' /\ reclosed \subseteq reclosed'
  BY <1>3 DEF Save, Done
<1>6. QED
  BY <1>3, <1>4, <1>5, IdleType, ChainWrites

LEMMA ChainCloses ==
    ASSUME TrackerInv, TrackerInv', ChainInv, NEW p \in Procs, CloseExpired(p) \/ SaveEvent(p)
    PROVE  ChainInv'
<1>1. procs[p].step \in {"close", "save_event"}
  BY DEF CloseExpired, SaveEvent, At
<1>2. PICK s \in Ids, d \in Session, o \in Proc : s = procs[p].id /\ d = sessions[s] /\ o = procs[p]
  BY <1>1, AtWork
<1>3. /\ NextEnd \in Nat /\ \A t \in Ids : sessions[t].ended < NextEnd
      /\ \A t \in Ids : sessions[t].ended \in Nat
  BY NextEndIsNext DEF TrackerInv, SessionsTypeOK, Session
<1>4. PICK doc : /\ Save(p, s, doc) /\ lapsed' = lapsed /\ reclosed \subseteq reclosed'
                 /\ doc.exists = d.exists /\ doc.key = d.key /\ doc.number = d.number
                 /\ doc.previous = d.previous
                 /\ \/ doc.active = d.active /\ doc.ended = d.ended
                    \/ ~ doc.active /\ doc.ended = NextEnd /\ Closing(s)
  <2>1. CASE CloseExpired(p)
    <3>1. PICK doc : doc = [d EXCEPT !.active = FALSE, !.ended = NextEnd]
      OBVIOUS
    <3>2. /\ doc.exists = d.exists /\ doc.key = d.key /\ doc.number = d.number
          /\ doc.previous = d.previous /\ ~ doc.active /\ doc.ended = NextEnd
      BY <3>1 DEF Session
    <3>3. Save(p, s, doc) /\ Closing(s) /\ UNCHANGED <<used, acked, saved, lapsed>>
      BY <1>2, <2>1, <3>1 DEF CloseExpired
    <3>4. reclosed \subseteq reclosed'
      BY <3>3 DEF Closing
    <3>5. QED
      BY <3>2, <3>3, <3>4
  <2>2. CASE SaveEvent(p)
    <3>1. o.event \in Event /\ o.copy \in Session
      BY <1>1, <1>2, <2>2, AtWork DEF RequestFine, EventSteps, Proc
    <3>2. PICK e \in Event, copy \in Session : e = o.event /\ copy = o.copy
      BY <3>1
    <3>3. PICK c : c = Counted(Pushed(d, copy, e), copy, e)
      OBVIOUS
    <3>4. CountedAs(c, d, copy, e)
      BY <1>3, <3>3, CountedParts
    <3>5. PICK doc : doc = [c EXCEPT !.stale = FALSE]
      OBVIOUS
    <3>6. c \in Session
      BY <3>4 DEF CountedAs
    <3>7. /\ doc.exists = c.exists /\ doc.key = c.key /\ doc.number = c.number
          /\ doc.previous = c.previous /\ doc.active = c.active /\ doc.ended = c.ended
      BY <3>5, <3>6 DEF Session
    <3>8. /\ doc.exists = d.exists /\ doc.key = d.key /\ doc.number = d.number
          /\ doc.previous = d.previous /\ doc.active = SavedActive(d, e)
          /\ doc.ended = SavedEnded(d, e)
      BY <3>4, <3>7 DEF CountedAs
    <3>9. Save(p, s, doc) /\ lapsed' = lapsed
      <4>1. [Counted(Pushed(sessions[procs[p].id], procs[p].copy, procs[p].event),
                     procs[p].copy, procs[p].event) EXCEPT !.stale = FALSE] = doc
        BY <1>2, <3>2, <3>3, <3>5
      <4>2. QED
        BY <1>2, <2>2, <4>1 DEF SaveEvent
    <3>10. IF e.kind = "tab_close" THEN Closing(s) ELSE UNCHANGED reclosed
      BY <1>2, <2>2, <3>2 DEF SaveEvent
    <3>11. reclosed \subseteq reclosed'
      BY <3>10 DEF Closing
    <3>12. QED
      BY <3>8, <3>9, <3>10, <3>11 DEF SavedActive, SavedEnded
  <2>3. QED
    BY <2>1, <2>2
<1>5. Keeps(s, sessions[s], doc)
  <2>1. Closing(s) => d.ended = 0 \/ s \in reclosed'
    BY <1>2 DEF Closing
  <2>2. doc.ended = NextEnd => \A t \in Ids : doc.ended > sessions[t].ended
    BY <1>3
  <2>3. QED
    BY <1>2, <1>4, <2>1, <2>2 DEF Keeps
<1>6. /\ sessions' = [sessions EXCEPT ![s] = doc] /\ procs' = [procs EXCEPT ![p] = Idle]
      /\ raced \subseteq raced'
  BY <1>4 DEF Save, Done
<1>7. QED
  BY <1>4, <1>5, <1>6, IdleType, ChainWrites

\* The session of an identifier that a client made up continues none.
LEMMA ChainCreates ==
    ASSUME TrackerInv, TrackerInv', ChainInv, NEW p \in Procs,
           Recover(p) \/ CreateMinimalSession(p), ~ sessions[procs[p].id].exists
    PROVE  ChainInv'
<1>1. procs[p].step \in {"recover", "minimal"}
  BY DEF Recover, CreateMinimalSession, At
<1>2. PICK s \in Ids, d \in Session, o \in Proc : s = procs[p].id /\ d = sessions[s] /\ o = procs[p]
  BY <1>1, AtWork
<1>3. d = Absent
  BY <1>1, <1>2, AtWork DEF DocFine
<1>4. PICK new : new = Fresh(RecoveredKey(s), 1, None, "defaults")
  OBVIOUS
<1>5. new.exists /\ new.previous = None /\ new.active /\ ~ new.stale
  BY <1>4 DEF Fresh
<1>6. CASE Recover(p)
  <2>1. /\ sessions' = [sessions EXCEPT ![s] = new] /\ Go(p, Judge(o, new)) /\ Kept
    BY <1>2, <1>4, <1>6 DEF Recover
  <2>2. PICK r : r = AsJudged(o, new, "save_event")
    OBVIOUS
  <2>3. r.step = "save_event"
    BY <2>2 DEF AsJudged, Proc
  <2>4. Judge(o, new) = r
    BY <1>5, <2>2 DEF Judge, AsJudged
  <2>5. procs' = [procs EXCEPT ![p] = r] /\ raced \subseteq raced'
    BY <2>1, <2>4 DEF Go
  <2>6. Keeps(s, sessions[s], new)
    BY <1>2, <1>3, <1>5, AbsentType DEF Keeps
  <2>7. reclosed \subseteq reclosed' /\ lapsed' = lapsed
    BY <2>1 DEF Kept
  <2>8. QED
    BY <2>1, <2>3, <2>5, <2>6, <2>7, ChainWrites
<1>7. CASE CreateMinimalSession(p)
  <2>1. PICK doc : doc = [new EXCEPT !.backup[o.form] = o.content]
    OBVIOUS
  <2>2. Save(p, s, doc) /\ UNCHANGED <<used, acked, lapsed, reclosed>>
    BY <1>2, <1>4, <1>7, <2>1 DEF CreateMinimalSession
  <2>3. doc.previous = None
    BY <1>4, <2>1 DEF Fresh
  <2>4. Keeps(s, sessions[s], doc)
    BY <1>2, <1>3, <2>3, AbsentType DEF Keeps
  <2>5. /\ sessions' = [sessions EXCEPT ![s] = doc] /\ procs' = [procs EXCEPT ![p] = Idle]
        /\ raced \subseteq raced'
    BY <2>2 DEF Save, Done
  <2>6. reclosed \subseteq reclosed' /\ lapsed' = lapsed
    BY <2>2
  <2>7. QED
    BY <2>4, <2>5, <2>6, IdleType, ChainWrites
<1>8. QED
  BY <1>6, <1>7

\* A request goes on, and does not look for a session to continue.
LEMMA ChainPauses ==
    ASSUME TrackerInv, TrackerInv', ChainInv, NEW p \in Procs, NEW r,
           procs' = [procs EXCEPT ![p] = r], r.step \notin {"find_previous", "insert"},
           sessions' = sessions, raced \subseteq raced', lapsed' = lapsed, reclosed' = reclosed
    PROVE  ChainInv'
<1>1. procs \in [Procs -> Proc] /\ procs' \in [Procs -> Proc]
  BY DEF TrackerInv, SessionsTypeOK
<1>2. r = procs'[p]
  BY <1>1
<1>3. r \in Proc
  BY <1>1, <1>2
<1>4. \A s \in Ids : StartFineFor(r, s, sessions[s], raced', lapsed, reclosed)
  BY DEF StartFineFor
<1>5. QED
  BY <1>3, <1>4, ChainWaits

\* A request looks for one after it has found no recent session: those of the
\* address that are still open have lapsed.
LEMMA ChainLooks ==
    ASSUME TrackerInv, TrackerInv', ChainInv, NEW p \in Procs, NEW r,
           procs' = [procs EXCEPT ![p] = r], r.step = "find_previous", Recent(r.key) = {},
           sessions' = sessions, raced \subseteq raced', lapsed' = lapsed, reclosed' = reclosed
    PROVE  ChainInv'
<1>1. procs \in [Procs -> Proc] /\ procs' \in [Procs -> Proc]
  BY DEF TrackerInv, SessionsTypeOK
<1>2. r = procs'[p]
  BY <1>1
<1>3. r \in Proc
  BY <1>1, <1>2
<1>4. ASSUME NEW s \in Ids PROVE StartFineFor(r, s, sessions[s], raced', lapsed, reclosed)
  <2>1. DocFine(s, sessions[s], used, raced, lapsed, saved[s])
    BY DEF TrackerInv
  <2>2. sessions[s].exists /\ sessions[s].key = r.key =>
           ~ sessions[s].active \/ sessions[s].stale
    BY DEF Recent
  <2>3. QED
    BY <2>1, <2>2 DEF StartFineFor, Excused, DocFine
<1>5. r.step # "insert"
  OBVIOUS
<1>6. QED
  BY <1>3, <1>4, <1>5, ChainWaits

LEMMA ChainStarts ==
    ASSUME TrackerInv, TrackerInv', ChainInv, NEW p \in Procs,
           \/ \E h \in Headers : GetOrCreateSessionByIp(p, h) \/ StartSession(p, h)
           \/ FindExisting(p)
    PROVE  ChainInv'
<1>1. PICK r : /\ Go(p, r) /\ UNCHANGED sessions /\ Kept
               /\ \/ r.step \notin {"find_previous", "insert"}
                  \/ r.step = "find_previous" /\ Recent(r.key) = {}
  <2>1. ASSUME NEW key, NEW step \in {"find_existing", "find_previous"},
               IF Recent(key) # {}
               THEN \E s \in Recent(key) : Go(p, [Idle EXCEPT !.step = "touch", !.id = s])
               ELSE \E s \in Ids : Untaken(s) /\ Go(p, [Idle EXCEPT !.step = step, !.id = s,
                                                                   !.key = key])
        PROVE  \E r : /\ Go(p, r)
                      /\ \/ r.step \notin {"find_previous", "insert"}
                         \/ r.step = "find_previous" /\ Recent(r.key) = {}
    <3>1. CASE Recent(key) # {}
      <4>1. PICK s \in Recent(key) : Go(p, [Idle EXCEPT !.step = "touch", !.id = s])
        BY <2>1, <3>1
      <4>2. PICK r : r = [Idle EXCEPT !.step = "touch", !.id = s]
        OBVIOUS
      <4>3. r.step = "touch"
        BY <4>2 DEF Idle
      <4>4. QED
        BY <4>1, <4>2, <4>3
    <3>2. CASE Recent(key) = {}
      <4>1. PICK s \in Ids : Go(p, [Idle EXCEPT !.step = step, !.id = s, !.key = key])
        BY <2>1, <3>2
      <4>2. PICK r : r = [Idle EXCEPT !.step = step, !.id = s, !.key = key]
        OBVIOUS
      <4>3. r.step = step /\ r.key = key
        BY <4>2 DEF Idle
      <4>4. QED
        BY <3>2, <4>1, <4>2, <4>3
    <3>3. QED
      BY <3>1, <3>2
  <2>2. ASSUME NEW h \in Headers, GetOrCreateSessionByIp(p, h)
        PROVE  \E r : /\ Go(p, r) /\ UNCHANGED sessions /\ Kept
                      /\ \/ r.step \notin {"find_previous", "insert"}
                         \/ r.step = "find_previous" /\ Recent(r.key) = {}
    BY <2>1, <2>2 DEF GetOrCreateSessionByIp
  <2>3. ASSUME NEW h \in Headers, StartSession(p, h)
        PROVE  \E r : /\ Go(p, r) /\ UNCHANGED sessions /\ Kept
                      /\ \/ r.step \notin {"find_previous", "insert"}
                         \/ r.step = "find_previous" /\ Recent(r.key) = {}
    BY <2>1, <2>3 DEF StartSession
  <2>4. ASSUME FindExisting(p)
        PROVE  \E r : /\ Go(p, r) /\ UNCHANGED sessions /\ Kept
                      /\ \/ r.step \notin {"find_previous", "insert"}
                         \/ r.step = "find_previous" /\ Recent(r.key) = {}
    <3>1. PICK o \in Proc : o = procs[p]
      BY DEF TrackerInv, SessionsTypeOK
    <3>2. CASE Recent(o.key) # {}
      <4>1. PICK s \in Recent(o.key) : Go(p, [Idle EXCEPT !.step = "touch", !.id = s])
        BY <2>4, <3>1, <3>2 DEF FindExisting
      <4>2. PICK r : r = [Idle EXCEPT !.step = "touch", !.id = s]
        OBVIOUS
      <4>3. r.step = "touch"
        BY <4>2 DEF Idle
      <4>4. QED
        BY <2>4, <4>1, <4>2, <4>3 DEF FindExisting
    <3>3. CASE Recent(o.key) = {}
      <4>1. PICK r : r = [o EXCEPT !.step = "find_previous"]
        OBVIOUS
      <4>2. r.step = "find_previous" /\ r.key = o.key
        BY <4>1 DEF Proc
      <4>3. Go(p, r)
        BY <2>4, <3>1, <3>3, <4>1 DEF FindExisting
      <4>4. QED
        BY <2>4, <3>3, <4>2, <4>3 DEF FindExisting
    <3>4. QED
      BY <3>2, <3>3
  <2>5. QED
    BY <2>2, <2>3, <2>4
<1>2. /\ procs' = [procs EXCEPT ![p] = r] /\ sessions' = sessions
      /\ raced \subseteq raced' /\ lapsed' = lapsed /\ reclosed' = reclosed
  BY <1>1 DEF Go, Kept
<1>3. CASE r.step \notin {"find_previous", "insert"}
  BY <1>2, <1>3, ChainPauses
<1>4. CASE r.step = "find_previous" /\ Recent(r.key) = {}
  BY <1>2, <1>4, ChainLooks
<1>5. QED
  BY <1>1, <1>3, <1>4

\* A request works on a document that was found, or is to be created.
LEMMA ChainGoes ==
    ASSUME TrackerInv, TrackerInv', ChainInv, NEW p \in Procs,
           \/ \E s \in Ids, e \in Event : RecordEvent(p, s, e)
           \/ \E s \in Ids, f \in Forms, c \in Contents : SaveDataBackup(p, s, f, c)
           \/ \E s \in Ids : FindToUpdate(p, s)
           \/ \E s \in Ids, f \in Forms \union {None} : FindToClear(p, s, f)
           \/ FindBackup(p)
    PROVE  ChainInv'
<1>1. PICK r : /\ Go(p, r) /\ UNCHANGED <<sessions, lapsed, reclosed>>
               /\ r.step \notin {"find_previous", "insert"}
  <2>1. ASSUME NEW s \in Ids, NEW e \in Event, RecordEvent(p, s, e)
        PROVE  \E r : /\ Go(p, r) /\ UNCHANGED <<sessions, lapsed, reclosed>>
                      /\ r.step \notin {"find_previous", "insert"}
    <3>1. PICK o : o = [Idle EXCEPT !.id = s, !.event = e]
      OBVIOUS
    <3>2. PICK r : r = IF sessions[s].exists THEN Judge(o, sessions[s])
                       ELSE [o EXCEPT !.step = "recover"]
      OBVIOUS
    <3>3. r.step \in {"close", "save_event", "recover"}
      BY <3>1, <3>2 DEF Judge, Idle
    <3>4. Go(p, r) /\ UNCHANGED <<sessions, lapsed, reclosed>>
      BY <2>1, <3>1, <3>2 DEF RecordEvent
    <3>5. QED
      BY <3>3, <3>4
  <2>2. ASSUME NEW s \in Ids, NEW f \in Forms, NEW c \in Contents, SaveDataBackup(p, s, f, c)
        PROVE  \E r : /\ Go(p, r) /\ UNCHANGED <<sessions, lapsed, reclosed>>
                      /\ r.step \notin {"find_previous", "insert"}
    <3>1. PICK r : r = [Idle EXCEPT !.id = s, !.form = f, !.content = c,
                          !.step = IF sessions[s].exists THEN "find_backup" ELSE "minimal"]
      OBVIOUS
    <3>2. r.step \in {"find_backup", "minimal"}
      BY <3>1 DEF Idle
    <3>3. Go(p, r) /\ UNCHANGED <<sessions, lapsed, reclosed>>
      BY <2>2, <3>1 DEF SaveDataBackup, Kept
    <3>4. QED
      BY <3>2, <3>3
  <2>3. ASSUME NEW s \in Ids, FindToUpdate(p, s)
        PROVE  \E r : /\ Go(p, r) /\ UNCHANGED <<sessions, lapsed, reclosed>>
                      /\ r.step \notin {"find_previous", "insert"}
    <3>1. PICK r : r = [Idle EXCEPT !.step = "update", !.id = s]
      OBVIOUS
    <3>2. r.step = "update"
      BY <3>1 DEF Idle
    <3>3. Go(p, r) /\ UNCHANGED <<sessions, lapsed, reclosed>>
      BY <2>3, <3>1 DEF FindToUpdate, Kept
    <3>4. QED
      BY <3>2, <3>3
  <2>4. ASSUME NEW s \in Ids, NEW f \in Forms \union {None}, FindToClear(p, s, f)
        PROVE  \E r : /\ Go(p, r) /\ UNCHANGED <<sessions, lapsed, reclosed>>
                      /\ r.step \notin {"find_previous", "insert"}
    <3>1. PICK r : r = [Idle EXCEPT !.step = "clear", !.id = s, !.form = f]
      OBVIOUS
    <3>2. r.step = "clear"
      BY <3>1 DEF Idle
    <3>3. Go(p, r) /\ UNCHANGED <<sessions, lapsed, reclosed>>
      BY <2>4, <3>1 DEF FindToClear, Kept
    <3>4. QED
      BY <3>2, <3>3
  <2>5. ASSUME FindBackup(p)
        PROVE  \E r : /\ Go(p, r) /\ UNCHANGED <<sessions, lapsed, reclosed>>
                      /\ r.step \notin {"find_previous", "insert"}
    <3>1. PICK o \in Proc : o = procs[p]
      BY DEF TrackerInv, SessionsTypeOK
    <3>2. PICK r : r = [o EXCEPT !.step = "save_backup", !.copy = sessions[o.id]]
      OBVIOUS
    <3>3. r.step = "save_backup"
      BY <3>2 DEF Proc
    <3>4. Go(p, r) /\ UNCHANGED <<sessions, lapsed, reclosed>>
      BY <2>5, <3>1, <3>2 DEF FindBackup, Kept
    <3>5. QED
      BY <3>3, <3>4
  <2>6. QED
    BY <2>1, <2>2, <2>3, <2>4, <2>5
<1>2. /\ procs' = [procs EXCEPT ![p] = r] /\ sessions' = sessions
      /\ raced \subseteq raced' /\ lapsed' = lapsed /\ reclosed' = reclosed
  BY <1>1 DEF Go
<1>3. QED
  BY <1>1, <1>2, ChainPauses

\* A request ends without a write.
LEMMA ChainEnds ==
    ASSUME TrackerInv, TrackerInv', ChainInv, NEW p \in Procs,
           \/ Recover(p) /\ sessions[procs[p].id].exists
           \/ CreateMinimalSession(p) /\ sessions[procs[p].id].exists
           \/ ClearBackup(p) /\ procs[p].form # None
    PROVE  ChainInv'
<1>1. Done(p) /\ UNCHANGED <<sessions, lapsed, reclosed>>
  BY DEF Recover, CreateMinimalSession, ClearBackup, Kept
<1>2. PICK r : r = Idle
  OBVIOUS
<1>3. r.step \notin {"find_previous", "insert"} /\ procs' = [procs EXCEPT ![p] = r] /\ raced' = raced
  BY <1>1, <1>2, IdleType DEF Done
<1>4. QED
  BY <1>1, <1>3, ChainPauses

\* The session that a new one continues is the last of the address to end.  One
\* that continues it already ended before it, is open, or has met the new one.
LEMMA ChainFinds ==
    ASSUME TrackerInv, TrackerInv', ChainInv, NEW p \in Procs, FindPrevious(p)
    PROVE  ChainInv'
<1>1. procs[p].step = "find_previous"
  BY DEF FindPrevious, At
<1>2. PICK o \in Proc : o = procs[p] /\ RequestFine(o, sessions[o.id], used, raced)
  BY <1>1, AtWork
<1>3. PICK s \in Ended(o.key) \union {None} :
         /\ \A t \in Ended(o.key) : sessions[t].ended <= sessions[s].ended
         /\ Go(p, [o EXCEPT !.step = "insert",
                            !.copy = Fresh(o.key, IF s = None THEN 1 ELSE sessions[s].number + 1,
                                           s, "parsed")])
  BY <1>2 DEF FindPrevious
<1>4. PICK copy : copy = Fresh(o.key, IF s = None THEN 1 ELSE sessions[s].number + 1, s, "parsed")
  OBVIOUS
<1>5. /\ copy.previous = s /\ copy.key = o.key
      /\ s # None => copy.number = sessions[s].number + 1
  BY <1>4 DEF Fresh
<1>6. PICK r : r = [o EXCEPT !.step = "insert", !.copy = copy]
  OBVIOUS
<1>7. r.step = "insert" /\ r.copy = copy /\ r.id = o.id /\ r.key = o.key
  BY <1>6 DEF Proc
<1>8. Go(p, r) /\ UNCHANGED sessions /\ Kept
  BY <1>2, <1>3, <1>4, <1>6 DEF FindPrevious
<1>9. /\ procs' = [procs EXCEPT ![p] = r] /\ sessions' = sessions
      /\ raced \subseteq raced' /\ lapsed' = lapsed /\ reclosed' = reclosed
  BY <1>8 DEF Go, Kept
<1>10. r \in Proc
  <2>1. procs \in [Procs -> Proc] /\ procs' \in [Procs -> Proc]
    BY DEF TrackerInv, SessionsTypeOK
  <2>2. r = procs'[p]
    BY <1>9, <2>1
  <2>3. QED
    BY <2>1, <2>2
<1>11. s # None => /\ s \in Ids /\ sessions[s].exists /\ sessions[s].key = o.key
                   /\ ~ sessions[s].active
  BY DEF Ended
<1>12. Continues(sessions, r.copy)
  BY <1>5, <1>7, <1>11 DEF Continues
<1>13. ASSUME NEW t \in Ids
       PROVE  StartFineFor(r, t, sessions[t], raced', lapsed, reclosed)
  <2>1. ASSUME sessions[t].previous # None, sessions[t].previous = s, s \notin reclosed
        PROVE  Excused(t, r, raced', lapsed)
    <3>1. s # None /\ sessions[t].exists
      BY <2>1, ContinuingExists
    <3>2. sessions[t].key = o.key
      BY <1>11, <2>1, <3>1 DEF ChainInv, Continues
    <3>3. ~ sessions[t].active \/ Excused(t, o, raced, lapsed)
      BY <1>1, <1>2, <2>1, <3>1, <3>2 DEF ChainInv, StartFineFor
    <3>4. CASE ~ sessions[t].active
      <4>1. sessions[t].ended > sessions[s].ended
        BY <2>1, <3>4 DEF ChainInv, EndsLater
      <4>2. t \in Ended(o.key)
        BY <3>1, <3>2, <3>4 DEF Ended
      <4>3. sessions[t].ended \in Nat /\ sessions[s].ended \in Nat
        BY <1>11, <3>1 DEF TrackerInv, SessionsTypeOK, Session
      <4>4. QED
        BY <1>3, <4>1, <4>2, <4>3
    <3>5. CASE Excused(t, o, raced, lapsed)
      BY <1>7, <1>9, <3>5 DEF Excused
    <3>6. QED
      BY <3>3, <3>4, <3>5
  <2>2. QED
    BY <1>5, <1>7, <2>1 DEF StartFineFor
<1>14. QED
  BY <1>9, <1>10, <1>12, <1>13, ChainWaits

\* The new session.
LEMMA ChainInserts ==
    ASSUME TrackerInv, ChainInv, NEW p \in Procs, Insert(p)
    PROVE  ChainInv'
<1>1. procs[p].step = "insert"
  BY DEF Insert, At
<1>2. PICK s \in Ids, o \in Proc : s = procs[p].id /\ o = procs[p]
  BY <1>1, AtWork
<1>3. PICK doc \in Session : doc = o.copy
  BY DEF Proc
<1>4. /\ RequestFine(o, sessions[s], used, raced) /\ s # None
      /\ DocFine(s, sessions[s], used, raced, lapsed, saved[s])
  BY <1>1, <1>2, AtWork
<1>5. /\ ~ sessions[s].exists /\ o.key \in Keys
      /\ doc = Fresh(o.key, doc.number, doc.previous, "parsed")
  BY <1>1, <1>2, <1>3, <1>4 DEF RequestFine, NewSteps
<1>6. doc.exists /\ doc.active /\ doc.key = o.key
  BY <1>5 DEF Fresh
<1>7. /\ sessions' = [sessions EXCEPT ![s] = doc] /\ procs' = [procs EXCEPT ![p] = Idle]
      /\ raced' = raced /\ lapsed' = lapsed /\ reclosed' = reclosed
  BY <1>2, <1>3 DEF Insert, Save, Done, Kept
<1>8. sessions \in [Ids -> Session] /\ procs \in [Procs -> Proc]
  BY DEF TrackerInv, SessionsTypeOK
<1>9. \A t \in Ids : (t = s => sessions'[t] = doc) /\ (t # s => sessions'[t] = sessions[t])
  BY <1>7, <1>8
<1>10. \A q \in Procs : (q = p => procs'[q] = Idle) /\ (q # p => procs'[q] = procs[q])
  BY <1>7, <1>8
<1>11. Continues(sessions, doc)
  BY <1>1, <1>2, <1>3 DEF ChainInv
\* No session continues the one that is not there yet.
<1>12. ASSUME NEW d \in Session, Continues(sessions, d)
       PROVE  Continues(sessions', d) /\ d.previous # s
  <2>1. d.previous # s
    BY <1>4, <1>5, <1>12 DEF Continues
  <2>2. d.previous \in Ids \union {None}
    BY DEF Session
  <2>3. d.previous # None => sessions'[d.previous] = sessions[d.previous]
    BY <1>9, <2>1, <2>2
  <2>4. QED
    BY <1>12, <2>1, <2>3 DEF Continues
<1>13. ASSUME NEW t \in Ids
       PROVE  Continues(sessions', sessions'[t]) /\ EndsLater(sessions', sessions'[t], reclosed')
  <2>1. CASE t = s
    BY <1>6, <1>9, <1>11, <1>12, <2>1 DEF EndsLater
  <2>2. CASE t # s
    <3>1. PICK d \in Session : d = sessions[t] /\ d = sessions'[t]
      BY <1>8, <1>9, <2>2
    <3>2. Continues(sessions, d) /\ EndsLater(sessions, d, reclosed)
      BY <3>1 DEF ChainInv
    <3>3. Continues(sessions', d) /\ d.previous # s
      BY <1>12, <3>2
    <3>4. d.previous \in Ids \union {None}
      BY DEF Session
    <3>5. d.previous # None => sessions'[d.previous] = sessions[d.previous]
      BY <1>9, <3>3, <3>4
    <3>6. EndsLater(sessions', d, reclosed')
      BY <1>7, <3>2, <3>5 DEF EndsLater
    <3>7. QED
      BY <3>1, <3>3, <3>6
  <2>3. QED
    BY <2>1, <2>2
<1>14. ASSUME NEW q \in Procs, procs'[q].step = "insert"
       PROVE  Continues(sessions', procs'[q].copy)
  <2>1. q # p
    BY <1>10, <1>14, IdleType
  <2>2. PICK h \in Proc : h = procs[q] /\ h = procs'[q]
    BY <1>8, <1>10, <2>1
  <2>3. h.copy \in Session /\ Continues(sessions, h.copy)
    BY <1>14, <2>2 DEF Proc, ChainInv
  <2>4. QED
    BY <1>12, <2>2, <2>3
<1>15. ASSUME NEW q \in Procs, NEW t \in Ids
       PROVE  StartFineFor(procs'[q], t, sessions'[t], raced', lapsed', reclosed')
  <2>1. CASE q = p
    BY <1>10, <2>1, IdleType DEF StartFineFor
  <2>2. CASE q # p
    <3>1. PICK h \in Proc : h = procs[q] /\ h = procs'[q]
      BY <1>8, <1>10, <2>2
    <3>2. CASE t # s
      <4>1. StartFineFor(h, t, sessions[t], raced, lapsed, reclosed)
        BY <3>1 DEF ChainInv
      <4>2. StartFineFor(h, t, sessions[t], raced', lapsed', reclosed')
        BY <1>7, <4>1
      <4>3. QED
        BY <1>9, <3>1, <3>2, <4>2
    <3>3. CASE t = s
      <4>1. h.key # None /\ h.key = o.key => h.id \in raced
        BY <1>2, <2>2, <3>1 DEF TrackerInv, ApartFrom
      <4>2. RequestFine(h, SeenBy(h), used, raced)
        BY <3>1 DEF TrackerInv
      <4>3. h.step \in {"find_previous", "insert"} => h.key # None
        BY <4>2, DocumentsAssumption DEF RequestFine, NewSteps
      <4>4. h.step = "find_previous" /\ doc.key = h.key => h.id \in raced
        BY <1>6, <4>1, <4>3
      <4>5. h.step = "insert" /\ doc.previous # None /\ doc.previous = h.copy.previous
               => h.id \in raced
        <5>1. ASSUME h.step = "insert", doc.previous # None, doc.previous = h.copy.previous
              PROVE  h.id \in raced
          <6>1. Continues(sessions, h.copy)
            BY <3>1, <5>1 DEF ChainInv
          <6>2. h.copy.key = doc.key
            BY <1>11, <5>1, <6>1 DEF Continues
          <6>3. h.copy = Fresh(h.key, h.copy.number, h.copy.previous, "parsed")
            BY <4>2, <5>1 DEF RequestFine
          <6>4. h.copy.key = h.key
            BY <6>3 DEF Fresh
          <6>5. QED
            BY <1>6, <4>1, <4>3, <5>1, <6>2, <6>4
        <5>2. QED
          BY <5>1
      <4>6. StartFineFor(h, s, doc, raced', lapsed', reclosed')
        BY <1>7, <4>4, <4>5 DEF StartFineFor, Excused
      <4>7. QED
        BY <1>9, <3>1, <3>3, <4>6
    <3>4. QED
      BY <3>2, <3>3
  <2>3. QED
    BY <2>1, <2>2
<1>16. ASSUME NEW u \in Ids \ {s}, doc.previous # None, doc.previous = sessions[u].previous
       PROVE  doc.previous \in reclosed \/ {s, u} \intersect (raced \union lapsed) # {}
  <2>1. StartFineFor(o, u, sessions[u], raced, lapsed, reclosed)
    BY <1>2 DEF ChainInv
  <2>2. sessions[u].previous \in reclosed \/ Excused(u, o, raced, lapsed)
    BY <1>1, <1>2, <1>3, <1>16, <2>1 DEF StartFineFor
  <2>3. Excused(u, o, raced, lapsed) => s \in raced \/ u \in raced \union lapsed
    BY <1>2 DEF Excused
  <2>4. QED
    BY <1>16, <2>2, <2>3
<1>17. ASSUME NEW t \in Ids, NEW u \in Ids, t # u, sessions'[t].previous # None,
              sessions'[t].previous = sessions'[u].previous
       PROVE  sessions'[t].previous \in reclosed' \/ {t, u} \intersect (raced' \union lapsed') # {}
  <2>1. CASE t = s
    <3>1. /\ u \in Ids \ {s} /\ sessions'[t] = doc /\ sessions'[u] = sessions[u]
      BY <1>9, <1>17, <2>1
    <3>2. doc.previous \in reclosed \/ {s, u} \intersect (raced \union lapsed) # {}
      BY <1>16, <1>17, <3>1
    <3>3. QED
      BY <1>7, <2>1, <3>1, <3>2
  <2>2. CASE u = s
    <3>1. /\ t \in Ids \ {s} /\ sessions'[u] = doc /\ sessions'[t] = sessions[t]
      BY <1>9, <1>17, <2>2
    <3>2. doc.previous \in reclosed \/ {s, t} \intersect (raced \union lapsed) # {}
      BY <1>16, <1>17, <3>1
    <3>3. QED
      BY <1>7, <1>17, <2>2, <3>1, <3>2
  <2>3. CASE t # s /\ u # s
    <3>1. sessions'[t] = sessions[t] /\ sessions'[u] = sessions[u]
      BY <1>9, <2>3
    <3>2. sessions[t].previous \in reclosed \/ {t, u} \intersect (raced \union lapsed) # {}
      BY <1>17, <3>1 DEF ChainInv
    <3>3. QED
      BY <1>7, <3>1, <3>2
  <2>4. QED
    BY <2>1, <2>2, <2>3
<1>18. \A t \in Ids : /\ Continues(sessions, sessions[t])'
                      /\ EndsLater(sessions, sessions[t], reclosed)'
  BY <1>13 DEF Continues, EndsLater
<1>19. \A q \in Procs : procs'[q].step = "insert" => Continues(sessions, procs[q].copy)'
  BY <1>14 DEF Continues
<1>20. \A q \in Procs, t \in Ids :
          StartFineFor(procs[q], t, sessions[t], raced, lapsed, reclosed)'
  BY <1>15 DEF StartFineFor, Excused
<1>21. QED
  BY <1>17, <1>18, <1>19, <1>20 DEF ChainInv

\* A day passes.
LEMMA ChainLapses ==
    ASSUME TrackerInv, ChainInv, NEW s \in Ids, Lapse(s)
    PROVE  ChainInv'
<1>1. PICK d \in Session : d = sessions[s]
  BY DEF TrackerInv, SessionsTypeOK
<1>2. PICK doc : doc = [d EXCEPT !.stale = TRUE]
  OBVIOUS
<1>3. /\ doc.exists = d.exists /\ doc.key = d.key /\ doc.number = d.number
      /\ doc.previous = d.previous /\ doc.active = d.active /\ doc.ended = d.ended
  BY <1>2 DEF Session
<1>4. doc \in Session
  <2>1. PICK t : t = d
    OBVIOUS
  <2>2. t = [exists |-> d.exists, key |-> d.key, number |-> d.number,
             previous |-> d.previous, active |-> d.active, stale |-> d.stale,
             ended |-> d.ended, info |-> d.info, events |-> d.events, views |-> d.views,
             dwells |-> d.dwells, pages |-> d.pages, backup |-> d.backup]
    BY <2>1, SessionParts
  <2>3. doc = [t EXCEPT !.stale = TRUE]
    BY <1>2, <2>1
  <2>4. doc = [exists |-> d.exists, key |-> d.key, number |-> d.number,
             previous |-> d.previous, active |-> d.active, stale |-> TRUE,
             ended |-> d.ended, info |-> d.info, events |-> d.events, views |-> d.views,
             dwells |-> d.dwells, pages |-> d.pages, backup |-> d.backup]
    BY <2>2, <2>3
  <2>5. QED
    BY <2>4 DEF Session
<1>5. /\ sessions' = [sessions EXCEPT ![s] = doc] /\ lapsed' = lapsed \union {s}
      /\ UNCHANGED <<procs, raced, reclosed>>
  BY <1>1, <1>2 DEF Lapse
<1>6. /\ raced \subseteq raced' /\ lapsed \subseteq lapsed' /\ reclosed \subseteq reclosed'
      /\ \A q \in Procs : procs'[q] = procs[q]
  BY <1>5
<1>7. Keeps(s, sessions[s], doc)
  BY <1>1, <1>3 DEF Keeps
<1>8. QED
  BY <1>4, <1>5, <1>6, <1>7, ChainKept

LEMMA ChainStep ==
    ASSUME TrackerInv, TrackerInv', ChainInv, SessionsNext
    PROVE  ChainInv'
<1>1. CASE \E p \in Procs, h \in Headers : GetOrCreateSessionByIp(p, h) \/ StartSession(p, h)
  BY <1>1, ChainStarts
<1>2. CASE \E p \in Procs, s \in Ids, e \in Event : RecordEvent(p, s, e)
  BY <1>2, ChainGoes
<1>3. CASE \E p \in Procs, s \in Ids, f \in Forms, c \in Contents : SaveDataBackup(p, s, f, c)
  BY <1>3, ChainGoes
<1>4. CASE \E p \in Procs, s \in Ids : FindToUpdate(p, s)
  BY <1>4, ChainGoes
<1>5. CASE \E p \in Procs, s \in Ids, f \in Forms \union {None} : FindToClear(p, s, f)
  BY <1>5, ChainGoes
<1>6. ASSUME NEW p \in Procs,
             \/ FindExisting(p) \/ FindPrevious(p) \/ Insert(p) \/ Touch(p)
             \/ UpdateSession(p) \/ Recover(p) \/ CloseExpired(p) \/ SaveEvent(p)
             \/ CreateMinimalSession(p) \/ FindBackup(p) \/ SaveBackup(p) \/ ClearBackup(p)
      PROVE  ChainInv'
  <2>1. CASE FindExisting(p)
    BY <2>1, ChainStarts
  <2>2. CASE FindPrevious(p)
    BY <2>2, ChainFinds
  <2>3. CASE Insert(p)
    BY <2>3, ChainInserts
  <2>4. CASE Touch(p) \/ UpdateSession(p) \/ SaveBackup(p)
    BY <2>4, ChainFound
  <2>5. CASE ClearBackup(p)
    BY <2>5, ChainFound, ChainEnds
  <2>6. CASE CloseExpired(p) \/ SaveEvent(p)
    BY <2>6, ChainCloses
  <2>7. CASE Recover(p) \/ CreateMinimalSession(p)
    BY <2>7, ChainCreates, ChainEnds
  <2>8. CASE FindBackup(p)
    BY <2>8, ChainGoes
  <2>9. QED
    BY <1>6, <2>1, <2>2, <2>3, <2>4, <2>5, <2>6, <2>7, <2>8
<1>7. CASE \E s \in Ids : Lapse(s)
  BY <1>7, ChainLapses
<1>8. QED
  BY <1>1, <1>2, <1>3, <1>4, <1>5, <1>6, <1>7 DEF SessionsNext

LEMMA ChainStart ==
    ASSUME SessionsInit
    PROVE  ChainInv
<1>1. \A s \in Ids : sessions[s].previous = None
  BY AbsentType DEF SessionsInit
<1>2. \A p \in Procs : procs[p].step = "idle"
  BY IdleType DEF SessionsInit
<1>3. QED
  BY <1>1, <1>2 DEF ChainInv, Continues, EndsLater, StartFineFor

\* The chain and the documents make the tracker safe.
LEMMA TrackerIsSafe ==
    ASSUME TrackerInv, ChainInv
    PROVE  SessionsTypeOK /\ TrackerSafe
<1>1. SessionsTypeOK /\ EventsKept
  BY DEF TrackerInv
<1>2. CountersAgree
  <2>1. ASSUME NEW s \in Ids
        PROVE  LET doc == sessions[s] IN
               /\ doc.views <= Cardinality(OfKind(s, "page_visit"))
               /\ doc.dwells <= Cardinality(OfKind(s, "section_dwell"))
               /\ s \notin raced =>
                     /\ doc.views = Cardinality(OfKind(s, "page_visit"))
                     /\ doc.dwells = Cardinality(OfKind(s, "section_dwell"))
                     /\ \A x \in Pages : doc.pages[x] <= 1
    <3>1. DocFine(s, sessions[s], used, raced, lapsed, saved[s])
      BY DEF TrackerInv
    <3>2. /\ Visits(sessions[s]) = Cardinality(OfKind(s, "page_visit"))
          /\ Dwells(sessions[s]) = Cardinality(OfKind(s, "section_dwell"))
      BY DEF Visits, Dwells, KindOf, OfKind
    <3>3. QED
      BY <3>1, <3>2 DEF DocFine
  <2>2. QED
    BY <2>1 DEF CountersAgree
<1>3. SessionsLinked
  <2>1. ASSUME NEW s \in Ids, sessions[s].previous # None
        PROVE  /\ sessions[sessions[s].previous].key = sessions[s].key
               /\ ~ sessions[sessions[s].previous].active
               /\ sessions[s].number = sessions[sessions[s].previous].number + 1
               /\ \A t \in Ids \ {s} : sessions[t].previous = sessions[s].previous =>
                     \/ sessions[s].previous \in reclosed
                     \/ {s, t} \intersect (raced \union lapsed) # {}
    BY <2>1 DEF ChainInv, Continues
  <2>2. QED
    BY <2>1 DEF SessionsLinked
<1>4. BackupsKept
  <2>1. \A s \in Ids : s \notin raced => sessions[s].backup = saved[s]
    BY DEF TrackerInv, DocFine
  <2>2. QED
    BY <2>1 DEF BackupsKept
<1>5. QED
  BY <1>1, <1>2, <1>3, <1>4 DEF TrackerSafe

\* Where the tracker rests, it keeps what it has.
LEMMA TrackerRests ==
    ASSUME TrackerInv, ChainInv, UNCHANGED sessionVars
    PROVE  TrackerInv' /\ ChainInv'
<1>1. UNCHANGED <<sessions, used, procs, acked, saved, raced, lapsed, reclosed>>
  BY DEF sessionVars
<1>2. SessionsTypeOK' /\ EventsKept'
  BY <1>1 DEF TrackerInv, SessionsTypeOK, EventsKept
<1>3. \A s \in Ids : DocFine(s, sessions[s], used, raced, lapsed, saved[s])'
  BY <1>1 DEF TrackerInv, DocFine, Visits, Dwells, KindOf
<1>4. ASSUME NEW p \in Procs PROVE RequestFine(procs[p], SeenBy(procs[p]), used, raced)'
  <2>1. RequestFine(procs[p], SeenBy(procs[p]), used, raced)
    BY DEF TrackerInv
  <2>2. SeenBy(procs[p])' = SeenBy(procs[p])
    BY <1>1 DEF SeenBy
  <2>3. RequestFine(procs'[p], SeenBy(procs[p])', used', raced')
    BY <1>1, <2>1, <2>2
  <2>4. QED
    BY <2>3 DEF RequestFine, Visits, Dwells, KindOf
<1>5. \A p, q \in Procs : p # q => ApartFrom(procs[p], procs[q], raced)'
  BY <1>1 DEF TrackerInv, ApartFrom
<1>6. TrackerInv'
  BY <1>2, <1>3, <1>4, <1>5 DEF TrackerInv
<1>7. ChainInv'
  BY <1>1 DEF ChainInv, Continues, EndsLater, StartFineFor, Excused
<1>8. QED
  BY <1>6, <1>7

\* The tracker keeps its documents whole, whatever its requests do at the same
\* time: an event answered with success is stored, the counters and the backups
\* agree with what was sent unless two requests on the session met, and a session
\* continues a closed one of its address, with the next number, that no other
\* continues but for a cause (sessionTracker.service.ts).
THEOREM SessionsStaySafe == SessionsSpec => [](SessionsTypeOK /\ TrackerSafe)
<1>1. SessionsInit => TrackerInv /\ ChainInv
  BY TrackerStart, ChainStart
<1>2. TrackerInv /\ ChainInv /\ [SessionsNext]_sessionVars => (TrackerInv /\ ChainInv)'
  BY TrackerStep, ChainStep, TrackerRests
<1>3. TrackerInv /\ ChainInv => SessionsTypeOK /\ TrackerSafe
  BY TrackerIsSafe
<1>4. QED
  BY <1>1, <1>2, <1>3, PTL DEF SessionsSpec

-----------------------------------------------------------------------------
-----------------------------------------------------------------------------
(* API keys.                                                               *)

Key == [company : Companies, permission : ApiKeys!Permissions, active : BOOLEAN,
        expired : BOOLEAN, ips : SUBSET Addresses, version : Nat, lastUsed : BOOLEAN]

\* What a save compares the changes of a key with.
KeyRead == [active : BOOLEAN, ips : SUBSET Addresses, version : Nat]

KeyWorker == [step : {"idle", "save", "deleteOne", "updateLastUsed"},
              id : KeyIds \union {None},
              read : KeyRead \union {None},
              updates : ApiKeys!Updates \union {None}]

\* A key that exists was made, and whoever is about to save, delete or touch
\* one holds what it needs for it.
KeysInv ==
    /\ keys \in [KeyIds -> Key \union {None}]
    /\ workers \in [Workers -> KeyWorker]
    /\ \A id \in KeyIds : keys[id] # None => id \in made
    /\ \A w \in Workers :
          /\ workers[w].step # "idle" => workers[w].id \in KeyIds
          /\ workers[w].step = "save" =>
                /\ workers[w].updates \in ApiKeys!Updates
                /\ workers[w].read \in KeyRead

LEMMA KeyWorkerFree == ApiKeys!Free \in KeyWorker /\ ApiKeys!Free.step = "idle"
<1>1. ApiKeys!Free = [step |-> "idle", id |-> None, read |-> None, updates |-> None]
  BY DEF ApiKeys!Free
<1>2. QED
  BY <1>1 DEF KeyWorker

\* What a save writes over a key.
LEMMA SavedKey ==
  ASSUME NEW key \in Key, NEW updates \in ApiKeys!Updates,
         NEW read \in KeyRead
  PROVE  LET new == ApiKeys!Saved(key, read, updates) IN
         /\ new \in Key
         /\ new.company = key.company /\ new.permission = key.permission
         /\ new.expired = key.expired
         /\ new.active # key.active => new.active = updates.active
         /\ new.ips # key.ips => new.ips = updates.ips
<1> DEFINE changes == ApiKeys!Changes(read, updates)
<1>1. /\ "active" \in changes => updates.active \in BOOLEAN
      /\ "ips" \in changes => updates.ips \in SUBSET Addresses
  BY DEF ApiKeys!Changes, ApiKeys!Updates, KeyRead
<1>2. ApiKeys!Saved(key, read, updates)
        = [key EXCEPT !.active = IF "active" \in changes THEN updates.active ELSE @,
                      !.ips = IF "ips" \in changes THEN updates.ips ELSE @,
                      !.version = IF "ips" \in changes THEN @ + 1 ELSE @]
  BY DEF ApiKeys!Saved
<1> HIDE DEF changes
<1> DEFINE active == IF "active" \in changes THEN updates.active ELSE key.active
           ips == IF "ips" \in changes THEN updates.ips ELSE key.ips
           version == IF "ips" \in changes THEN key.version + 1 ELSE key.version
           new == [key EXCEPT !.active = active, !.ips = ips, !.version = version]
<1>3. ApiKeys!Saved(key, read, updates) = new
  BY <1>2
<1>4. /\ active \in BOOLEAN /\ ips \in SUBSET Addresses /\ version \in Nat
      /\ active # key.active => active = updates.active
      /\ ips # key.ips => ips = updates.ips
  BY <1>1 DEF Key
<1> HIDE DEF active, ips, version
<1>5. /\ new \in Key /\ new.active = active /\ new.ips = ips
      /\ new.company = key.company /\ new.permission = key.permission
      /\ new.expired = key.expired
  BY <1>4 DEF Key
<1> HIDE DEF new
<1>6. QED
  BY <1>3, <1>4, <1>5

LEMMA KeysStep ==
  ASSUME KeysInv, ApiKeys!KeysNext
  PROVE  /\ KeysInv'
         /\ \A id \in KeyIds :
              /\ id \in made /\ keys[id] = None => keys'[id] = None
              /\ keys[id] # None /\ keys'[id] # None =>
                   /\ keys[id].expired => keys'[id].expired
                   /\ keys'[id].company = keys[id].company
                   /\ keys'[id].permission = keys[id].permission
                   /\ ~keys[id].active /\ keys'[id].active =>
                         \E w \in Workers : /\ ApiKeys!At(w, "save") /\ workers[w].id = id
                                            /\ workers'[w] = ApiKeys!Free
                                            /\ workers[w].updates.active = TRUE
                   /\ keys'[id].ips # keys[id].ips =>
                         \E w \in Workers : /\ ApiKeys!At(w, "save") /\ workers[w].id = id
                                            /\ workers'[w] = ApiKeys!Free
                                            /\ workers[w].updates.ips = keys'[id].ips
<1> DEFINE Same == \A id \in KeyIds : keys'[id] = keys[id]
           Says(id) ==
              \E w \in Workers :
                 /\ ApiKeys!At(w, "save") /\ workers[w].id = id /\ workers'[w] = ApiKeys!Free
                 /\ keys'[id].active # keys[id].active
                       => keys'[id].active = workers[w].updates.active
                 /\ keys'[id].ips # keys[id].ips => keys'[id].ips = workers[w].updates.ips
           Fine(id) == /\ keys'[id] # None => id \in made'
                       /\ id \in made /\ keys[id] = None => keys'[id] = None
                       /\ keys[id] # None /\ keys'[id] # None =>
                             /\ keys[id].expired => keys'[id].expired
                             /\ keys'[id].company = keys[id].company
                             /\ keys'[id].permission = keys[id].permission
                             /\ \/ /\ keys'[id].active = keys[id].active
                                   /\ keys'[id].ips = keys[id].ips
                                \/ Says(id)
           Good == /\ keys' \in [KeyIds -> Key \union {None}]
                   /\ workers' \in [Workers -> KeyWorker]
                   /\ \A id \in KeyIds : Fine(id)
                   /\ \A w \in Workers :
                        /\ workers'[w].step # "idle" => workers'[w].id \in KeyIds
                        /\ workers'[w].step = "save" =>
                             /\ workers'[w].updates \in ApiKeys!Updates
                             /\ workers'[w].read
                                  \in KeyRead
<1> USE DEF KeysInv
<1>1. ASSUME NEW id \in KeyIds, NEW c \in Companies, NEW permission \in ApiKeys!Permissions,
             NEW ips \in SUBSET Addresses, ApiKeys!createApiKey(id, c, permission, ips)
      PROVE  Good
  BY <1>1 DEF ApiKeys!createApiKey, Key
<1>2. ASSUME NEW w \in Workers, NEW id \in KeyIds, NEW c \in Companies,
             \/ \E updates \in ApiKeys!Updates : ApiKeys!FindToUpdate(w, id, c, updates)
             \/ ApiKeys!FindToDelete(w, id, c)
      PROVE  Good
  <2>1. PICK new \in KeyWorker :
           /\ workers' = [workers EXCEPT ![w] = new] /\ new.id = id
           /\ new.step = "save" => /\ new.updates \in ApiKeys!Updates
                                   /\ new.read \in KeyRead
    <3>1. ASSUME NEW step \in {"save", "deleteOne"}, NEW updates \in ApiKeys!Updates \union {None},
                 step = "save" => updates \in ApiKeys!Updates,
                 ApiKeys!Found(w, id, c, step, updates)
          PROVE  \E new \in KeyWorker :
                   /\ workers' = [workers EXCEPT ![w] = new] /\ new.id = id
                   /\ new.step = "save" => /\ new.updates \in ApiKeys!Updates
                                           /\ new.read \in KeyRead
      <4> DEFINE read == ApiKeys!Read(keys[id])
                 new == [step |-> step, id |-> id, read |-> read, updates |-> updates]
      <4>1. keys[id] \in Key
        BY <3>1 DEF ApiKeys!Found
      <4>2. read \in KeyRead
        BY <4>1 DEF ApiKeys!Read, Key, KeyRead
      <4>3. workers' = [workers EXCEPT ![w] = new]
        BY <3>1 DEF ApiKeys!Found
      <4> HIDE DEF read
      <4>4. new \in KeyWorker
        BY <3>1, <4>2 DEF KeyWorker
      <4>5. QED
        BY <3>1, <4>2, <4>3, <4>4
    <3>2. CASE \E updates \in ApiKeys!Updates : ApiKeys!FindToUpdate(w, id, c, updates)
      BY <3>1, <3>2 DEF ApiKeys!FindToUpdate
    <3>3. CASE ApiKeys!FindToDelete(w, id, c)
      BY <3>1, <3>3 DEF ApiKeys!FindToDelete
    <3>4. QED
      BY <1>2, <3>2, <3>3
  <2>2. UNCHANGED <<keys, made>>
    BY <1>2 DEF ApiKeys!FindToUpdate, ApiKeys!FindToDelete, ApiKeys!Found
  <2>3. QED
    BY <2>1, <2>2
<1>3. ASSUME NEW w \in Workers, NEW id \in KeyIds, NEW ip \in Addresses,
             NEW operation, ApiKeys!Authenticate(w, id, ip, operation)
      PROVE  Good
  <2>1. PICK new \in KeyWorker :
           /\ workers' = [workers EXCEPT ![w] = new] /\ new.id = id /\ new.step # "save"
    <3>1. PICK free \in KeyWorker : free = ApiKeys!Free
      BY KeyWorkerFree
    <3> DEFINE new == [free EXCEPT !.step = "updateLastUsed", !.id = id]
    <3>2. new \in KeyWorker /\ new.id = id /\ new.step = "updateLastUsed"
      BY DEF KeyWorker
    <3>3. workers' = [workers EXCEPT ![w] = new]
      BY <1>3, <3>1 DEF ApiKeys!Authenticate
    <3> HIDE DEF new
    <3>4. QED
      BY <3>2, <3>3
  <2>2. UNCHANGED <<keys, made>>
    BY <1>3 DEF ApiKeys!Authenticate
  <2>3. QED
    BY <2>1, <2>2
<1>4. ASSUME NEW w \in Workers, ApiKeys!Done(w)
      PROVE  /\ workers' \in [Workers -> KeyWorker] /\ workers'[w] = ApiKeys!Free
             /\ \A v \in Workers :
                  /\ workers'[v].step # "idle" => workers'[v].id \in KeyIds
                  /\ workers'[v].step = "save" =>
                       /\ workers'[v].updates \in ApiKeys!Updates
                       /\ workers'[v].read
                            \in KeyRead
  BY <1>4, KeyWorkerFree DEF ApiKeys!Done
<1>5. ASSUME NEW w \in Workers, ApiKeys!updateApiKey(w)
      PROVE  Good
  <2>1. PICK id \in KeyIds, updates \in ApiKeys!Updates,
             read \in KeyRead :
           workers[w].id = id /\ workers[w].updates = updates /\ workers[w].read = read
    BY <1>5 DEF ApiKeys!updateApiKey, ApiKeys!At
  <2>2. \/ keys' = keys
        \/ keys[id] # None /\ keys' = [keys EXCEPT ![id] = ApiKeys!Saved(keys[id], read, updates)]
    BY <1>5, <2>1 DEF ApiKeys!updateApiKey
  <2>3. ApiKeys!At(w, "save") /\ ApiKeys!Done(w) /\ UNCHANGED made
    BY <1>5 DEF ApiKeys!updateApiKey
  <2>4. CASE keys' = keys
    BY <1>4, <2>3, <2>4
  <2>5. CASE keys[id] # None /\ keys' = [keys EXCEPT ![id] = ApiKeys!Saved(keys[id], read, updates)]
    <3>1. keys[id] \in Key
      BY <2>5
    <3>2. keys'[id] = ApiKeys!Saved(keys[id], read, updates)
      BY <2>5
    <3>3. /\ keys'[id] \in Key
          /\ keys'[id].company = keys[id].company /\ keys'[id].permission = keys[id].permission
          /\ keys'[id].expired = keys[id].expired
      BY <3>1, <3>2, SavedKey
    <3>4. Says(id)
      BY <1>4, <2>1, <2>3, <3>1, <3>2, SavedKey
    <3> HIDE DEF Says
    <3>5. \A other \in KeyIds \ {id} : keys'[other] = keys[other]
      BY <2>5
    <3>6. keys' \in [KeyIds -> Key \union {None}]
      BY <2>5, <3>2, <3>3
    <3>7. QED
      BY <1>4, <2>3, <2>5, <3>3, <3>4, <3>5, <3>6
  <2>6. QED
    BY <2>2, <2>4, <2>5
<1>6. ASSUME NEW w \in Workers, ApiKeys!deleteApiKey(w)
      PROVE  Good
  BY <1>4, <1>6 DEF ApiKeys!deleteApiKey
<1>7. ASSUME NEW w \in Workers, NEW fails \in BOOLEAN, ApiKeys!updateLastUsed(w, fails)
      PROVE  Good
  <2> DEFINE id == workers[w].id
  <2>1. id \in KeyIds /\ ApiKeys!Done(w) /\ UNCHANGED made
    BY <1>7 DEF ApiKeys!updateLastUsed, ApiKeys!At
  <2>2. \/ keys' = keys
        \/ keys[id] # None /\ keys' = [keys EXCEPT ![id].lastUsed = TRUE]
    BY <1>7 DEF ApiKeys!updateLastUsed, ApiKeys!Touched
  <2>3. CASE keys' = keys
    BY <1>4, <2>1, <2>3
  <2>4. CASE keys[id] # None /\ keys' = [keys EXCEPT ![id].lastUsed = TRUE]
    <3>1. PICK key \in Key : key = keys[id]
      BY <2>1, <2>4
    <3>2. PICK touched \in Key : touched = [key EXCEPT !.lastUsed = TRUE]
      BY DEF Key
    <3>3. keys' = [keys EXCEPT ![id] = touched]
      BY <2>4, <3>1, <3>2
    <3> HIDE DEF id
    <3>4. \A other \in KeyIds : Fine(other)
      BY <2>1, <2>4, <3>1, <3>2, <3>3 DEF Key
    <3>5. QED
      BY <1>4, <2>1, <3>3, <3>4
  <2>5. QED
    BY <2>2, <2>3, <2>4
<1>8. ASSUME NEW id \in KeyIds, ApiKeys!Expire(id)
      PROVE  Good
  BY <1>8 DEF ApiKeys!Expire, Key
<1> HIDE DEF Good
<1>9. Good
  BY <1>1, <1>2, <1>3, <1>5, <1>6, <1>7, <1>8 DEF ApiKeys!KeysNext
<1>10. QED
  <2>1. KeysInv'
    BY <1>9 DEF Good
  <2>2. ASSUME NEW id \in KeyIds, keys[id] # None, keys'[id] # None
        PROVE  /\ keys[id].active \in BOOLEAN /\ keys'[id].active \in BOOLEAN
               /\ Fine(id)
    BY <1>9, <2>2 DEF Good, Key
  <2>3. QED
    BY <1>9, <2>1, <2>2 DEF Good

\* Every step of the instance is a step of the keys, or leaves them alone.
LEMMA MCKeysStep ==
  ASSUME [MCNext]_serviceVars
  PROVE  ApiKeys!KeysNext \/ UNCHANGED ApiKeys!keyVars
  BY DEF MCNext, serviceVars, keyVars, ApiKeys!keyVars

\* A key that was withdrawn stays withdrawn, whatever the requests that read it
\* before it was write after it (ApiKeys!WithdrawnStays).
THEOREM WithdrawnKeysStay == MCSpec => KeysWithdrawn
<1>1. MCInit => KeysInv
  BY KeyWorkerFree DEF MCInit, ApiKeys!KeysInit, KeysInv
<1>2. KeysInv /\ [MCNext]_serviceVars => KeysInv'
  <2>1. CASE UNCHANGED ApiKeys!keyVars
    BY <2>1 DEF KeysInv, ApiKeys!keyVars
  <2>2. CASE ApiKeys!KeysNext
    BY <2>2, KeysStep
  <2>3. QED
    BY <2>1, <2>2, MCKeysStep
<1>3. KeysInv /\ [MCNext]_serviceVars
        => [\A id \in KeyIds :
              LET saying(w) ==
                     ApiKeys!At(w, "save") /\ workers[w].id = id /\ workers'[w] = ApiKeys!Free
              IN /\ id \in made /\ keys[id] = None => keys'[id] = None
                 /\ keys[id] # None /\ keys'[id] # None =>
                       /\ keys[id].expired => keys'[id].expired
                       /\ keys'[id].company = keys[id].company
                       /\ keys'[id].permission = keys[id].permission
                       /\ ~keys[id].active /\ keys'[id].active =>
                             \E w \in Workers : saying(w) /\ workers[w].updates.active = TRUE
                       /\ keys'[id].ips # keys[id].ips =>
                             \E w \in Workers : saying(w) /\ workers[w].updates.ips = keys'[id].ips
           ]_ApiKeys!keyVars
  BY KeysStep, MCKeysStep
<1>4. QED
  BY <1>1, <1>2, <1>3, PTL DEF MCSpec, KeysWithdrawn, ApiKeys!WithdrawnStays

-----------------------------------------------------------------------------
(* Rate limits and their violations.                                       *)

Kinds == Requests!Kinds

Times == 1..MaxTime

Violation == [count : Nat, last : Nat]

\* The refusals of an address after s, of r; the violations whose entry was
\* counted up after s, and all of them, of v.
After(r, s) == [t \in Times |-> IF t > s THEN r[t] ELSE 0]

SeenAfter(v, s) == [k \in Kinds |-> IF v[k].last > s THEN v[k].count ELSE 0]

Counts(v) == [k \in Kinds |-> v[k].count]

\* The books of an address at n: after every time of the last day at least as
\* many violations are seen or being written as there were refusals, and
\* altogether there are at most as many.
Balanced(n, r, v, p) ==
    /\ r \in [Times -> Nat] /\ v \in [Kinds -> Violation] /\ p \in [Kinds -> Nat]
    /\ \A t \in Times : t > n => r[t] = 0
    /\ \A s \in Int : s >= n - Day =>
          Sum(After(r, s), Times) <= Sum(SeenAfter(v, s), Kinds) + Sum(p, Kinds)
    /\ Sum(Counts(v), Kinds) + Sum(p, Kinds) <= Sum(r, Times)

RequestsInv ==
    /\ now \in Times
    /\ pending \in [Ips -> [Kinds -> Nat]]
    /\ violations \in [Ips -> [Kinds -> Violation]]
    /\ refused \in [Ips -> [Times -> Nat]]
    /\ \A ip \in Ips : Balanced(now, refused[ip], violations[ip], pending[ip])

LEMMA KindsFinite == IsFiniteSet(Kinds) /\ IsFiniteSet(Times)
<1>1. Kinds = {"burst-protection", "general", "authentication", "password-reset", "ip-blocked"}
  BY DEF Kinds, Requests!Kinds, Requests!Recording, Requests!LimitNames
<1>2. IsFiniteSet({"burst-protection", "general", "authentication", "password-reset", "ip-blocked"})
  <2>1. IsFiniteSet({"burst-protection"})
    BY FS_Singleton
  <2>2. IsFiniteSet({"burst-protection"} \union {"general"})
    BY <2>1, FS_AddElement
  <2>3. IsFiniteSet({"burst-protection"} \union {"general"} \union {"authentication"})
    BY <2>2, FS_AddElement
  <2>4. IsFiniteSet({"burst-protection"} \union {"general"} \union {"authentication"}
                    \union {"password-reset"})
    BY <2>3, FS_AddElement
  <2>5. IsFiniteSet({"burst-protection"} \union {"general"} \union {"authentication"}
                    \union {"password-reset"} \union {"ip-blocked"})
    BY <2>4, FS_AddElement
  <2>6. {"burst-protection", "general", "authentication", "password-reset", "ip-blocked"}
          = {"burst-protection"} \union {"general"} \union {"authentication"}
            \union {"password-reset"} \union {"ip-blocked"}
    OBVIOUS
  <2>7. QED
    BY <2>5, <2>6
<1>3. IsFiniteSet(Times)
  BY FS_Interval, RequestsAssumption DEF Times
<1>4. QED
  BY <1>1, <1>2, <1>3

\* The sums that the books compare are natural numbers.
LEMMA BooksAreNat ==
    ASSUME NEW r \in [Times -> Nat], NEW v \in [Kinds -> Violation], NEW p \in [Kinds -> Nat],
           NEW s \in Int
    PROVE  /\ \A t \in Times : After(r, s)[t] \in Nat
           /\ \A k \in Kinds : SeenAfter(v, s)[k] \in Nat /\ Counts(v)[k] \in Nat
           /\ Sum(After(r, s), Times) \in Nat /\ Sum(r, Times) \in Nat
           /\ Sum(SeenAfter(v, s), Kinds) \in Nat /\ Sum(Counts(v), Kinds) \in Nat
           /\ Sum(p, Kinds) \in Nat
<1>1. /\ \A t \in Times : After(r, s)[t] \in Nat
      /\ \A k \in Kinds : SeenAfter(v, s)[k] \in Nat /\ Counts(v)[k] \in Nat
  BY DEF After, SeenAfter, Counts, Violation
<1>2. QED
  BY <1>1, KindsFinite, SumNat

\* A refusal, with its entry being written.
LEMMA RefusalBalanced ==
    ASSUME NEW n \in Times, NEW r, NEW v, NEW p, Balanced(n, r, v, p), NEW k \in Kinds
    PROVE  Balanced(n, [r EXCEPT ![n] = @ + 1], v, [p EXCEPT ![k] = @ + 1])
<1> DEFINE u == [r EXCEPT ![n] = @ + 1]
           q == [p EXCEPT ![k] = @ + 1]
<1>1. r \in [Times -> Nat] /\ v \in [Kinds -> Violation] /\ p \in [Kinds -> Nat]
  BY DEF Balanced
<1>2. /\ u \in [Times -> Nat] /\ q \in [Kinds -> Nat]
      /\ u[n] = r[n] + 1 /\ \A t \in Times \ {n} : u[t] = r[t]
      /\ q[k] = p[k] + 1 /\ \A j \in Kinds \ {k} : q[j] = p[j]
  BY <1>1
<1> HIDE DEF u, q
<1>3. Sum(q, Kinds) = Sum(p, Kinds) + 1
  BY <1>1, <1>2, KindsFinite, SumOneMore
<1>4. Sum(u, Times) = Sum(r, Times) + 1
  BY <1>1, <1>2, KindsFinite, SumOneMore
<1>5. ASSUME NEW s \in Int, s >= n - Day
      PROVE  Sum(After(u, s), Times) <= Sum(SeenAfter(v, s), Kinds) + Sum(q, Kinds)
  <2>1. Sum(After(r, s), Times) <= Sum(SeenAfter(v, s), Kinds) + Sum(p, Kinds)
    BY <1>5 DEF Balanced
  <2>2. CASE s < n
    <3>1. /\ After(u, s)[n] = After(r, s)[n] + 1
          /\ \A t \in Times \ {n} : After(r, s)[t] = After(u, s)[t]
      BY <1>2, <2>2 DEF After
    <3>2. \A t \in Times : After(r, s)[t] \in Nat /\ After(u, s)[t] \in Nat
      BY <1>1, <1>2, BooksAreNat
    <3>3. Sum(After(u, s), Times) = Sum(After(r, s), Times) + 1
      BY <3>1, <3>2, KindsFinite, SumOneMore
    <3>4. QED
      BY <1>1, <1>3, <2>1, <3>3, BooksAreNat
  <2>3. CASE ~ (s < n)
    <3>1. After(u, s) = After(r, s)
      BY <1>2, <2>3 DEF After, Times
    <3>2. QED
      BY <1>1, <1>3, <2>1, <3>1, BooksAreNat
  <2>4. QED
    BY <2>2, <2>3
<1>6. Sum(Counts(v), Kinds) + Sum(q, Kinds) <= Sum(u, Times)
  <2>1. Sum(Counts(v), Kinds) + Sum(p, Kinds) <= Sum(r, Times)
    BY DEF Balanced
  <2>2. Sum(Counts(v), Kinds) \in Nat /\ Sum(p, Kinds) \in Nat /\ Sum(r, Times) \in Nat
    BY <1>1, BooksAreNat, 0 \in Int
  <2>3. QED
    BY <1>3, <1>4, <2>1, <2>2
<1>7. \A t \in Times : t > n => u[t] = 0
  BY <1>2 DEF Balanced, Times
<1>8. Balanced(n, u, v, q)
  BY <1>1, <1>2, <1>5, <1>6, <1>7 DEF Balanced
<1>9. QED
  BY <1>8 DEF u, q

\* An entry that is written: its violation is counted at n.
LEMMA LogBalanced ==
    ASSUME NEW n \in Times, NEW r, NEW v, NEW p, Balanced(n, r, v, p), NEW k \in Kinds, p[k] > 0
    PROVE  Balanced(n, r, [v EXCEPT ![k] = [count |-> v[k].count + 1, last |-> n]],
                    [p EXCEPT ![k] = @ - 1])
<1> DEFINE new == [count |-> v[k].count + 1, last |-> n]
           w == [v EXCEPT ![k] = new]
           q == [p EXCEPT ![k] = @ - 1]
<1>1. r \in [Times -> Nat] /\ v \in [Kinds -> Violation] /\ p \in [Kinds -> Nat]
  BY DEF Balanced
<1>2. n \in Nat /\ new \in Violation /\ new.count = v[k].count + 1 /\ new.last = n
  BY <1>1 DEF Violation, Times
<1> HIDE DEF new
<1>3. /\ w \in [Kinds -> Violation] /\ q \in [Kinds -> Nat]
      /\ w[k] = new /\ \A j \in Kinds \ {k} : w[j] = v[j]
      /\ p[k] = q[k] + 1 /\ \A j \in Kinds \ {k} : q[j] = p[j]
  BY <1>1, <1>2
<1> HIDE DEF w, q
<1>4. Sum(p, Kinds) = Sum(q, Kinds) + 1
  BY <1>1, <1>3, KindsFinite, SumOneMore
<1>5. Sum(Counts(w), Kinds) = Sum(Counts(v), Kinds) + 1
  <2>1. /\ Counts(w)[k] = Counts(v)[k] + 1
        /\ \A j \in Kinds \ {k} : Counts(v)[j] = Counts(w)[j]
    BY <1>2, <1>3 DEF Counts
  <2>2. \A j \in Kinds : Counts(v)[j] \in Nat /\ Counts(w)[j] \in Nat
    BY <1>1, <1>3, BooksAreNat, 0 \in Int
  <2>3. QED
    BY <2>1, <2>2, KindsFinite, SumOneMore
<1>6. ASSUME NEW s \in Int, s >= n - Day
      PROVE  Sum(After(r, s), Times) <= Sum(SeenAfter(w, s), Kinds) + Sum(q, Kinds)
  <2>1. Sum(After(r, s), Times) <= Sum(SeenAfter(v, s), Kinds) + Sum(p, Kinds)
    BY <1>6 DEF Balanced
  <2>2. \A j \in Kinds : SeenAfter(v, s)[j] \in Nat /\ SeenAfter(w, s)[j] \in Nat
    BY <1>1, <1>3, BooksAreNat
  <2>3. Sum(q, Kinds) \in Nat /\ Sum(SeenAfter(v, s), Kinds) \in Nat
        /\ Sum(SeenAfter(w, s), Kinds) \in Nat /\ Sum(After(r, s), Times) \in Nat
    BY <1>1, <1>3, BooksAreNat
  <2>4. CASE s < n
    <3>1. /\ SeenAfter(w, s)[k] >= SeenAfter(v, s)[k] + 1
          /\ \A j \in Kinds \ {k} : SeenAfter(v, s)[j] = SeenAfter(w, s)[j]
      BY <1>1, <1>2, <1>3, <2>4 DEF SeenAfter, Violation
    <3>2. Sum(SeenAfter(w, s), Kinds)
            = Sum(SeenAfter(v, s), Kinds) - SeenAfter(v, s)[k] + SeenAfter(w, s)[k]
      BY <2>2, <3>1, KindsFinite, SumChange
    <3>3. QED
      BY <1>4, <2>1, <2>2, <2>3, <3>1, <3>2
  <2>5. CASE ~ (s < n)
    <3>1. \A t \in Times : After(r, s)[t] = 0
      BY <1>2, <2>5 DEF Balanced, After, Times
    <3>2. Sum(After(r, s), Times) = Sum(After(r, s), {})
      BY <3>1, KindsFinite, SumZeros
    <3>3. Sum(After(r, s), Times) = 0
      BY <3>2, SumEmpty
    <3>4. QED
      BY <2>3, <3>3
  <2>6. QED
    BY <2>4, <2>5
<1>7. Sum(Counts(w), Kinds) + Sum(q, Kinds) <= Sum(r, Times)
  <2>1. Sum(Counts(v), Kinds) + Sum(p, Kinds) <= Sum(r, Times)
    BY DEF Balanced
  <2>2. Sum(Counts(v), Kinds) \in Nat /\ Sum(q, Kinds) \in Nat /\ Sum(r, Times) \in Nat
    BY <1>1, <1>3, BooksAreNat, 0 \in Int
  <2>3. QED
    BY <1>4, <1>5, <2>1, <2>2
<1>8. Balanced(n, r, w, q)
  <2>1. \A t \in Times : t > n => r[t] = 0
    BY DEF Balanced
  <2>2. QED
    BY <1>1, <1>3, <1>6, <1>7, <2>1 DEF Balanced
<1>9. QED
  BY <1>8 DEF w, q, new

\* The sweep takes entries of the days before only.
LEMMA SweepBalanced ==
    ASSUME NEW n \in Times, NEW r, NEW v, NEW p, Balanced(n, r, v, p)
    PROVE  Balanced(n, r, [k \in Kinds |-> IF v[k].last < n - Day THEN Requests!NoViolation
                                          ELSE v[k]], p)
<1> DEFINE w == [k \in Kinds |-> IF v[k].last < n - Day THEN Requests!NoViolation ELSE v[k]]
<1>1. r \in [Times -> Nat] /\ v \in [Kinds -> Violation] /\ p \in [Kinds -> Nat]
  BY DEF Balanced
<1>2. /\ Requests!NoViolation \in Violation
      /\ Requests!NoViolation.count = 0 /\ Requests!NoViolation.last = 0
  BY DEF Violation, Requests!NoViolation
<1>3. w \in [Kinds -> Violation]
  BY <1>1, <1>2
<1>4. ASSUME NEW s \in Int, s >= n - Day
      PROVE  Sum(SeenAfter(w, s), Kinds) = Sum(SeenAfter(v, s), Kinds)
  <2>1. n \in Int /\ Day \in Int
    BY RequestsAssumption DEF Times
  <2>2. \A k \in Kinds : SeenAfter(w, s)[k] = SeenAfter(v, s)[k]
    BY <1>1, <1>2, <1>4, <2>1 DEF SeenAfter, Violation
  <2> HIDE DEF w
  <2>3. QED
    BY <2>2, KindsFinite, SumSame
<1>5. Sum(Counts(w), Kinds) <= Sum(Counts(v), Kinds)
  <2>1. \A k \in Kinds : Counts(w)[k] <= Counts(v)[k]
    BY <1>1, <1>2 DEF Counts, Violation
  <2> HIDE DEF w
  <2>2. \A k \in Kinds : Counts(w)[k] \in Nat /\ Counts(v)[k] \in Nat
    BY <1>1, <1>3, BooksAreNat, 0 \in Int
  <2>3. QED
    BY <2>1, <2>2, KindsFinite, SumLess
<1> HIDE DEF w
<1>6. Sum(Counts(w), Kinds) + Sum(p, Kinds) <= Sum(r, Times)
  <2>1. Sum(Counts(v), Kinds) + Sum(p, Kinds) <= Sum(r, Times)
    BY DEF Balanced
  <2>2. /\ Sum(Counts(v), Kinds) \in Nat /\ Sum(Counts(w), Kinds) \in Nat
        /\ Sum(p, Kinds) \in Nat /\ Sum(r, Times) \in Nat
    BY <1>1, <1>3, BooksAreNat, 0 \in Int
  <2>3. QED
    BY <1>5, <2>1, <2>2
<1>7. Balanced(n, r, w, p)
  BY <1>3, <1>4, <1>6 DEF Balanced
<1>8. QED
  BY <1>7 DEF w

LEMMA ElapseBalanced ==
    ASSUME NEW n \in Times, NEW r, NEW v, NEW p, Balanced(n, r, v, p)
    PROVE  Balanced(n + 1, r, v, p)
<1>1. n \in Nat /\ Day \in Nat /\ Times \subseteq Int
  BY RequestsAssumption DEF Times
<1>2. \A t \in Times : t > n + 1 => r[t] = 0
  BY <1>1 DEF Balanced
<1>3. ASSUME NEW s \in Int, s >= n + 1 - Day
      PROVE  Sum(After(r, s), Times) <= Sum(SeenAfter(v, s), Kinds) + Sum(p, Kinds)
  <2>1. s >= n - Day
    BY <1>1, <1>3
  <2>2. QED
    BY <2>1 DEF Balanced
<1>4. /\ r \in [Times -> Nat] /\ v \in [Kinds -> Violation] /\ p \in [Kinds -> Nat]
      /\ Sum(Counts(v), Kinds) + Sum(p, Kinds) <= Sum(r, Times)
  BY DEF Balanced
<1>5. QED
  BY <1>1, <1>2, <1>3, <1>4 DEF Balanced

LEMMA RequestsStart ==
    ASSUME Requests!RequestsInit
    PROVE  RequestsInv
<1>1. 1 \in Times
  BY RequestsAssumption DEF Times
<1> DEFINE r == [t \in Times |-> 0]
           v == [k \in Kinds |-> Requests!NoViolation]
           p == [k \in Kinds |-> 0]
<1>2. /\ now = 1 /\ refused = [ip \in Ips |-> r] /\ violations = [ip \in Ips |-> v]
      /\ pending = [ip \in Ips |-> p]
  BY DEF Requests!RequestsInit, Kinds, Times
<1>3. /\ r \in [Times -> Nat] /\ v \in [Kinds -> Violation] /\ p \in [Kinds -> Nat]
  BY DEF Violation, Requests!NoViolation
<1>4. ASSUME NEW s \in Int
      PROVE  /\ Sum(After(r, s), Times) = 0
  <2>1. \A t \in Times : After(r, s)[t] = 0
    BY DEF After
  <2> HIDE DEF r
  <2>2. Sum(After(r, s), Times) = Sum(After(r, s), {})
    BY <2>1, KindsFinite, SumZeros
  <2>3. QED
    BY <2>2, SumEmpty
<1>5. Sum(Counts(v), Kinds) = 0 /\ Sum(p, Kinds) = 0
  <2>1. \A k \in Kinds : Counts(v)[k] = 0 /\ p[k] = 0
    BY DEF Counts, Requests!NoViolation
  <2> HIDE DEF v, p
  <2>2. Sum(Counts(v), Kinds) = Sum(Counts(v), {}) /\ Sum(p, Kinds) = Sum(p, {})
    BY <2>1, KindsFinite, SumZeros
  <2>3. QED
    BY <2>2, SumEmpty
<1>6. Balanced(1, r, v, p)
  <2>1. \A t \in Times : r[t] = 0
    OBVIOUS
  <2> HIDE DEF r, v, p
  <2>2. Sum(r, Times) \in Nat /\ \A s \in Int : Sum(SeenAfter(v, s), Kinds) \in Nat
    BY <1>3, BooksAreNat, 0 \in Int
  <2>3. QED
    BY <1>3, <1>4, <1>5, <2>1, <2>2 DEF Balanced
<1> HIDE DEF r, v, p
<1>7. QED
  BY <1>1, <1>2, <1>3, <1>6 DEF RequestsInv

\* At most one limit refuses a request.
LEMMA OneRefuses ==
    ASSUME NEW r, NEW k \in Requests!Reached(r), NEW l \in Requests!Reached(r),
           Requests!Exceeds(k, r), Requests!Exceeds(l, r)
    PROVE  k = l
<1> DEFINE Reaches(i) == /\ Requests!Counts(Requests!Limits[i], r)
                         /\ \A j \in 1..(i - 1) : ~ Requests!Exceeds(Requests!Limits[j], r)
<1>1. DOMAIN Requests!Limits = 1..5
  BY DEF Requests!Limits
<1>2. PICK i \in 1..5 : k = Requests!Limits[i] /\ Reaches(i)
  BY <1>1 DEF Requests!Reached
<1>3. PICK j \in 1..5 : l = Requests!Limits[j] /\ Reaches(j)
  BY <1>1 DEF Requests!Reached
<1>4. ~ (i < j)
  <2>1. i < j => i \in 1..(j - 1)
    OBVIOUS
  <2>2. QED
    BY <1>2, <1>3, <2>1
<1>5. ~ (j < i)
  <2>1. j < i => j \in 1..(i - 1)
    OBVIOUS
  <2>2. QED
    BY <1>2, <1>3, <2>1
<1>6. QED
  BY <1>2, <1>3, <1>4, <1>5

\* What a limit refuses it counts; all but one of those record it.
LEMMA LimitIsKind ==
    ASSUME NEW r, NEW l \in Requests!Reached(r), l # "authLimiter"
    PROVE  l \in Kinds
<1>1. \A i \in DOMAIN Requests!Limits :
         Requests!Limits[i] \in Requests!LimitNames
  BY DEF Requests!Limits, Requests!LimitNames
<1>2. QED
  BY <1>1 DEF Requests!Reached, Kinds, Requests!Kinds, Requests!Recording

\* What a request leaves in the books: nothing, or a refusal.
LEMMA ReceiveBooks ==
    ASSUME NEW r \in Requests!RequestType, Requests!Receive(r)
    PROVE  /\ UNCHANGED <<now, violations>>
           /\ \/ UNCHANGED <<pending, refused>>
              \/ \E k \in Kinds : /\ pending' = [pending EXCEPT ![r.ip][k] = @ + 1]
                                   /\ refused' = [refused EXCEPT ![r.ip][now] = @ + 1]
<1> DEFINE refusing == {l \in Requests!Reached(r) : Requests!Exceeds(l, r)}
<1>1. UNCHANGED <<now, violations>>
  BY DEF Requests!Receive
<1>2. CASE refusing \subseteq {"authLimiter"}
  BY <1>1, <1>2 DEF Requests!Receive
<1>3. CASE ~ (refusing \subseteq {"authLimiter"})
  <2>1. /\ \E l \in refusing : pending' = [pending EXCEPT ![r.ip][l] = @ + 1]
        /\ refused' = [refused EXCEPT ![r.ip][now] = @ + 1]
    BY <1>3 DEF Requests!Receive
  <2>2. PICK k \in refusing : k # "authLimiter"
    BY <1>3
  <2>3. \A l \in refusing : l = k
    BY OneRefuses
  <2>4. k \in Kinds
    BY <2>2, LimitIsKind
  <2> HIDE DEF refusing
  <2>5. QED
    BY <1>1, <2>1, <2>3, <2>4
<1>4. QED
  BY <1>2, <1>3

LEMMA RequestsStep ==
    ASSUME RequestsInv, Requests!RequestsNext
    PROVE  RequestsInv'
<1> DEFINE Books(ip) == Balanced(now', refused'[ip], violations'[ip], pending'[ip])
           Good == /\ now' \in Times
                   /\ pending' \in [Ips -> [Kinds -> Nat]]
                   /\ violations' \in [Ips -> [Kinds -> Violation]]
                   /\ refused' \in [Ips -> [Times -> Nat]]
                   /\ \A ip \in Ips : Books(ip)
<1> USE DEF RequestsInv
<1>1. ASSUME UNCHANGED <<now, pending, refused, violations>>
      PROVE  Good
  BY <1>1
<1>2. ASSUME NEW ip \in Ips, NEW k \in Kinds, UNCHANGED <<now, violations>>,
             pending' = [pending EXCEPT ![ip][k] = @ + 1],
             refused' = [refused EXCEPT ![ip][now] = @ + 1]
      PROVE  Good
  <2>1. /\ pending'[ip] = [pending[ip] EXCEPT ![k] = @ + 1]
        /\ refused'[ip] = [refused[ip] EXCEPT ![now] = @ + 1]
    BY <1>2
  <2>2. Balanced(now, refused[ip], violations[ip], pending[ip])
    OBVIOUS
  <2>3. Books(ip)
    BY <1>2, <2>1, <2>2, RefusalBalanced
  <2>4. \A other \in Ips \ {ip} : pending'[other] = pending[other] /\ refused'[other] = refused[other]
    BY <1>2
  <2>5. \A other \in Ips \ {ip} : Books(other)
    BY <1>2, <2>4
  <2>6. pending' \in [Ips -> [Kinds -> Nat]] /\ refused' \in [Ips -> [Times -> Nat]]
    BY <1>2
  <2> HIDE DEF Books
  <2>7. QED
    BY <1>2, <2>3, <2>5, <2>6
<1>3. ASSUME NEW r \in Requests!RequestType, Requests!Receive(r)
      PROVE  Good
  <2>1. r.ip \in Ips
    BY DEF Requests!RequestType
  <2> HIDE DEF Good
  <2>2. QED
    BY <1>1, <1>2, <1>3, <2>1, ReceiveBooks
<1>4. ASSUME NEW ip \in Ips, NEW k \in Requests!Kinds, Requests!logRateLimitViolation(ip, k)
      PROVE  Good
  <2>1. k \in Kinds /\ pending[ip][k] > 0 /\ UNCHANGED <<now, refused>>
    BY <1>4 DEF Requests!logRateLimitViolation, Kinds
  <2> DEFINE new == [count |-> violations[ip][k].count + 1, last |-> now]
  <2>2. /\ pending' = [pending EXCEPT ![ip][k] = @ - 1]
        /\ violations' = [violations EXCEPT ![ip][k] = new]
    BY <1>4 DEF Requests!logRateLimitViolation, Requests!Violated
  <2>3. new \in Violation
    BY <2>1 DEF Violation, Times
  <2>4. /\ pending'[ip] = [pending[ip] EXCEPT ![k] = @ - 1]
        /\ violations'[ip] = [violations[ip] EXCEPT ![k] = new]
    BY <2>1, <2>2
  <2>5. Balanced(now, refused[ip], violations[ip], pending[ip])
    OBVIOUS
  <2>6. Books(ip)
    BY <2>1, <2>4, <2>5, LogBalanced
  <2> HIDE DEF new
  <2>7. /\ pending' \in [Ips -> [Kinds -> Nat]]
        /\ violations' \in [Ips -> [Kinds -> Violation]]
    BY <2>1, <2>2, <2>3
  <2>8. \A other \in Ips \ {ip} : /\ pending'[other] = pending[other]
                                  /\ violations'[other] = violations[other]
    BY <2>2
  <2>9. \A other \in Ips \ {ip} : Books(other)
    BY <2>1, <2>8
  <2> HIDE DEF Books
  <2>10. QED
    BY <2>1, <2>6, <2>7, <2>9
<1>5. ASSUME NEW ip \in Ips, Requests!checkViolationHistory(ip)
      PROVE  Good
  <2>1. "ip-blocked" \in Kinds
    BY DEF Kinds, Requests!Kinds
  <2>2. /\ UNCHANGED <<now, violations>>
        /\ pending' = [pending EXCEPT ![ip]["ip-blocked"] = @ + 1]
        /\ refused' = [refused EXCEPT ![ip][now] = @ + 1]
    BY <1>5 DEF Requests!checkViolationHistory
  <2> HIDE DEF Good
  <2>3. QED
    BY <1>2, <2>1, <2>2
<1>6. ASSUME Requests!cleanupViolationStore
      PROVE  Good
  <2> DEFINE swept(v) == [k \in Kinds |-> IF v[k].last < now - Day THEN Requests!NoViolation
                                          ELSE v[k]]
  <2>1. /\ UNCHANGED <<now, pending, refused>>
        /\ violations' = [ip \in Ips |-> swept(violations[ip])]
    BY <1>6 DEF Requests!cleanupViolationStore, Kinds
  <2>2. ASSUME NEW ip \in Ips
        PROVE  Books(ip) /\ violations'[ip] \in [Kinds -> Violation]
    <3>1. Balanced(now, refused[ip], violations[ip], pending[ip])
      OBVIOUS
    <3>2. Balanced(now, refused[ip], swept(violations[ip]), pending[ip])
      BY <3>1, SweepBalanced
    <3>3. violations'[ip] = swept(violations[ip])
      BY <2>1
    <3> HIDE DEF swept
    <3>4. Books(ip)
      BY <2>1, <3>2, <3>3
    <3>5. QED
      BY <3>4 DEF Balanced
  <2> HIDE DEF swept, Books
  <2>3. violations' \in [Ips -> [Kinds -> Violation]]
    BY <2>1, <2>2
  <2>4. QED
    BY <2>1, <2>2, <2>3
<1>7. ASSUME Requests!Elapse
      PROVE  Good
  <2>1. /\ now < MaxTime /\ now' = now + 1 /\ UNCHANGED <<pending, refused, violations>>
    BY <1>7 DEF Requests!Elapse
  <2>2. now' \in Times
    BY <2>1, RequestsAssumption DEF Times
  <2>3. \A ip \in Ips : Books(ip)
    BY <2>1, ElapseBalanced
  <2> HIDE DEF Books
  <2>4. QED
    BY <2>1, <2>2, <2>3
<1>8. ASSUME \/ \E ip \in Ips : \/ \E success \in BOOLEAN : Requests!Answer(ip, success)
                                \/ Requests!blacklistIP(ip) \/ Requests!removeFromBlacklist(ip)
             \/ \E l \in Requests!LimitNames : Requests!WindowEnds(l)
             \/ Requests!clearBlacklist
      PROVE  Good
  <2>1. UNCHANGED <<now, pending, refused, violations>>
    BY <1>8 DEF Requests!Answer, Requests!blacklistIP, Requests!removeFromBlacklist,
                Requests!WindowEnds, Requests!clearBlacklist
  <2>2. QED
    BY <1>1, <2>1
<1> HIDE DEF Good
<1>9. Good
  BY <1>3, <1>4, <1>5, <1>6, <1>7, <1>8 DEF Requests!RequestsNext
<1>10. QED
  BY <1>9 DEF Good

\* The sums of the model, as those of SumLemmas.
LEMMA RefusedIsSum ==
    ASSUME NEW ip, NEW times
    PROVE  Requests!RefusedOf(ip, times) = Sum(refused[ip], times)
<1>1. Sum(refused[ip], times) = (CHOOSE g : IsTable(g, refused[ip], times))[times]
  BY SumOfTable
<1>2. QED
  BY <1>1 DEF Requests!RefusedOf, Requests!MapThenSumSet, Requests!MapThenFoldSet, IsTable, Picked

LEMMA PendingIsSum ==
    ASSUME NEW ip
    PROVE  Requests!PendingOf(ip) = Sum(pending[ip], Kinds)
<1>1. Sum(pending[ip], Kinds) = (CHOOSE g : IsTable(g, pending[ip], Kinds))[Kinds]
  BY SumOfTable
<1>2. QED
  BY <1>1 DEF Requests!PendingOf, Requests!MapThenSumSet, Requests!MapThenFoldSet, IsTable, Picked,
              Kinds

Begun(ip) == {other \in Ips : <<ip, other>> \in Begins}

\* The entries that count for an address, and what each of them counts.
RecentOnes(ip) == {k \in Begun(ip) \X Kinds : /\ violations[k[1]][k[2]].count > 0
                                         /\ violations[k[1]][k[2]].last > now - Day}

CountOf(S) == [k \in S |-> violations[k[1]][k[2]].count]

LEMMA RecentIsSum ==
    ASSUME NEW ip, IsFiniteSet(RecentOnes(ip))
    PROVE  Requests!RecentOf(ip) = Sum(CountOf(Begun(ip) \X Kinds), RecentOnes(ip))
<1> DEFINE R == RecentOnes(ip)
           f == CountOf(Begun(ip) \X Kinds)
           IsSum(g) == g = [s \in SUBSET R |-> IF s = {} THEN 0
                                              ELSE violations[Picked(s)[1]][Picked(s)[2]].count
                                                   + g[s \ {Picked(s)}]]
           h == CHOOSE g : IsSum(g)
<1>1. Requests!RecentOf(ip) = h[R]
  BY DEF Requests!RecentOf, Requests!MapThenSumSet, Requests!MapThenFoldSet, Picked,
         RecentOnes, Begun, Kinds
<1>2. \A s \in SUBSET R : s # {} => f[Picked(s)] = violations[Picked(s)[1]][Picked(s)[2]].count
  BY PickedIn DEF RecentOnes, CountOf
<1> HIDE DEF f
<1>3. \A g : IsTable(g, f, R) <=> IsSum(g)
  <2>1. ASSUME NEW g
        PROVE  [s \in SUBSET R |-> IF s = {} THEN 0 ELSE f[Picked(s)] + g[s \ {Picked(s)}]]
                 = [s \in SUBSET R |-> IF s = {} THEN 0
                                      ELSE violations[Picked(s)[1]][Picked(s)[2]].count
                                           + g[s \ {Picked(s)}]]
    <3> HIDE DEF R
    <3>1. QED
      BY <1>2
  <2>2. QED
    BY <2>1 DEF IsTable
<1>4. PICK g : IsTable(g, f, R)
  <2>1. \E g : IsTable(g, f, R)
    BY TableExists
  <2>2. QED
    BY <2>1
<1>5. IsTable(h, f, R)
  <2> HIDE DEF IsSum
  <2>1. IsSum(h)
    BY <1>3, <1>4
  <2>2. QED
    BY <1>3, <2>1
<1>6. Sum(f, R) = (CHOOSE t : IsTable(t, f, R))[R]
  BY SumOfTable
<1>7. IsTable(CHOOSE t : IsTable(t, f, R), f, R)
  BY <1>4
<1> HIDE DEF h
<1>8. h[R] = (CHOOSE t : IsTable(t, f, R))[R]
  <2>1. R \in SUBSET R
    OBVIOUS
  <2> DEFINE c == CHOOSE t : IsTable(t, f, R)
  <2>2. IsTable(c, f, R)
    BY <1>7
  <2> HIDE DEF c, R
  <2>3. h[R] = c[R]
    BY <1>5, <2>1, <2>2, TablesAgree DEF R
  <2>4. QED
    BY <2>3 DEF c
<1>9. QED
  BY <1>1, <1>6, <1>8 DEF f

\* What the books say of the refusals of the last day, and of all.
LEMMA BooksKeepViolations ==
    ASSUME RequestsInv
    PROVE  Requests!ViolationsKept
<1> USE DEF RequestsInv
<1>1. /\ IsFiniteSet(Ips) /\ now \in Nat /\ Day \in Nat /\ now \in Times
      /\ Times \subseteq Nat /\ 1..now \subseteq Times
  BY RequestsAssumption DEF Times
<1>2. ASSUME NEW ip \in Ips
      PROVE  /\ IsFiniteSet(Begun(ip)) /\ Begun(ip) \subseteq Ips /\ ip \in Begun(ip)
             /\ IsFiniteSet(Begun(ip) \X Kinds) /\ RecentOnes(ip) \in SUBSET (Begun(ip) \X Kinds)
             /\ IsFiniteSet(RecentOnes(ip))
             /\ \A k \in Begun(ip) \X Kinds : CountOf(Begun(ip) \X Kinds)[k] \in Nat
             /\ Sum(CountOf(Begun(ip) \X Kinds), RecentOnes(ip)) \in Nat
  <2>1. Begun(ip) \subseteq Ips /\ ip \in Begun(ip)
    BY RequestsAssumption DEF Begun
  <2>2. IsFiniteSet(Begun(ip))
    BY <1>1, <2>1, FS_Subset
  <2>3. IsFiniteSet(Begun(ip) \X Kinds)
    BY <2>2, KindsFinite, FS_Product
  <2>4. RecentOnes(ip) \in SUBSET (Begun(ip) \X Kinds)
    BY DEF RecentOnes
  <2>5. \A k \in Begun(ip) \X Kinds : CountOf(Begun(ip) \X Kinds)[k] \in Nat
    BY <2>1 DEF CountOf, Violation
  <2>6. IsFiniteSet(RecentOnes(ip))
    BY <2>3, <2>4, FS_Subset
  <2>7. Sum(CountOf(Begun(ip) \X Kinds), RecentOnes(ip)) \in Nat
    BY <2>3, <2>4, <2>5, SumSubset
  <2>8. QED
    BY <2>1, <2>2, <2>3, <2>4, <2>5, <2>6, <2>7
<1>3. ASSUME NEW ip \in Ips
      PROVE  /\ Balanced(now, refused[ip], violations[ip], pending[ip])
             /\ refused[ip] \in [Times -> Nat] /\ violations[ip] \in [Kinds -> Violation]
             /\ pending[ip] \in [Kinds -> Nat]
             /\ Sum(refused[ip], Times) \in Nat /\ Sum(pending[ip], Kinds) \in Nat
             /\ Sum(Counts(violations[ip]), Kinds) \in Nat
             /\ Sum(refused[ip], 1..now) = Sum(refused[ip], Times)
  <2>1. /\ Balanced(now, refused[ip], violations[ip], pending[ip])
        /\ refused[ip] \in [Times -> Nat] /\ violations[ip] \in [Kinds -> Violation]
        /\ pending[ip] \in [Kinds -> Nat]
    OBVIOUS
  <2>2. /\ Sum(refused[ip], Times) \in Nat /\ Sum(pending[ip], Kinds) \in Nat
        /\ Sum(Counts(violations[ip]), Kinds) \in Nat
    BY <2>1, BooksAreNat, 0 \in Int
  <2>3. \A t \in Times \ (1..now) : refused[ip][t] = 0
    BY <1>1, <2>1 DEF Balanced, Times
  <2>4. Sum(refused[ip], 1..now) = Sum(refused[ip], Times)
    BY <1>1, <2>1, <2>3, KindsFinite, SumZeros
  <2>5. QED
    BY <2>1, <2>2, <2>4
<1>4. ASSUME NEW ip \in Ips
      PROVE  Requests!RefusedOf(ip, {t \in 1..now : t > now - Day})
               <= Requests!RecentOf(ip) + Requests!PendingOf(ip)
  <2> DEFINE last == {t \in 1..now : t > now - Day}
             s == now - Day
             f == CountOf(Begun(ip) \X Kinds)
             late == After(refused[ip], s)
             seen == SeenAfter(violations[ip], s)
             only == [k \in Begun(ip) \X Kinds |-> IF k \in RecentOnes(ip) THEN f[k] ELSE 0]
  <2>1. s \in Int /\ s >= now - Day
    BY <1>1
  <2>2. Sum(late, Times) <= Sum(seen, Kinds) + Sum(pending[ip], Kinds)
    BY <1>3, <2>1 DEF Balanced
  <2>3. Sum(refused[ip], last) <= Sum(late, Times)
    <3>1. \A t \in last : refused[ip][t] = late[t]
      BY <1>1 DEF After
    <3>2. last \in SUBSET Times
      BY <1>1
    <3>3. \A t \in Times : late[t] \in Nat
      BY <1>3, <2>1, BooksAreNat
    <3> HIDE DEF last, late, s
    <3>4. IsFiniteSet(last)
      BY <3>2, KindsFinite, FS_Subset
    <3>5. Sum(refused[ip], last) = Sum(late, last)
      BY <3>1, <3>4, SumSame
    <3>6. Sum(late, last) <= Sum(late, Times)
      BY <3>2, <3>3, KindsFinite, SumSubset
    <3>7. QED
      BY <3>5, <3>6
  <2>4. Sum(seen, Kinds) <= Sum(f, RecentOnes(ip))
    <3>1. \A k \in Begun(ip) \X Kinds : only[k] \in Nat
      BY <1>2
    <3>2. \A k \in Kinds : seen[k] \in Nat /\ only[<<ip, k>>] = seen[k]
      <4>1. SUFFICES ASSUME NEW k \in Kinds
                     PROVE  seen[k] \in Nat /\ only[<<ip, k>>] = seen[k]
        OBVIOUS
      <4> DEFINE v == violations[ip][k]
      <4>2. v.count \in Nat /\ v.last \in Nat
        BY <1>3 DEF Violation
      <4>3. <<ip, k>> \in Begun(ip) \X Kinds
        BY <1>2
      <4>4. <<ip, k>> \in RecentOnes(ip) <=> v.count > 0 /\ v.last > now - Day
        BY <4>3 DEF RecentOnes
      <4>5. f[<<ip, k>>] = v.count
        BY <4>3 DEF CountOf
      <4>6. seen[k] = IF v.last > now - Day THEN v.count ELSE 0
        BY DEF SeenAfter
      <4> HIDE DEF v, f, seen
      <4>7. only[<<ip, k>>] = IF <<ip, k>> \in RecentOnes(ip) THEN f[<<ip, k>>] ELSE 0
        BY <4>3
      <4> HIDE DEF only
      <4>8. QED
        BY <4>2, <4>4, <4>5, <4>6, <4>7
    <3>3. Row(ip, Kinds) \in SUBSET (Begun(ip) \X Kinds)
      <4>1. ip \in Begun(ip)
        BY <1>2
      <4>2. \A k \in Kinds : <<ip, k>> \in Begun(ip) \X Kinds
        BY <4>1
      <4>3. QED
        BY <4>2 DEF Row
    <3>4. \A k \in RecentOnes(ip) : only[k] = f[k]
      BY <1>2
    <3>5. \A k \in (Begun(ip) \X Kinds) \ RecentOnes(ip) : only[k] = 0
      OBVIOUS
    <3> HIDE DEF only, seen, f
    <3>6. Sum(only, Row(ip, Kinds)) = Sum(seen, Kinds)
      BY <3>2, KindsFinite, SumRow
    <3>7. Sum(only, Row(ip, Kinds)) <= Sum(only, Begun(ip) \X Kinds)
      BY <1>2, <3>1, <3>3, SumSubset
    <3>8. Sum(only, Begun(ip) \X Kinds) = Sum(only, RecentOnes(ip))
      BY <1>2, <3>1, <3>5, SumZeros
    <3>9. Sum(only, RecentOnes(ip)) = Sum(f, RecentOnes(ip))
      BY <1>2, <3>4, SumSame
    <3>10. QED
      BY <3>6, <3>7, <3>8, <3>9
  <2>5. /\ Requests!RefusedOf(ip, last) = Sum(refused[ip], last)
        /\ Requests!PendingOf(ip) = Sum(pending[ip], Kinds)
        /\ Requests!RecentOf(ip) = Sum(f, RecentOnes(ip))
    BY <1>2, RefusedIsSum, PendingIsSum, RecentIsSum
  <2>6. /\ Sum(refused[ip], last) \in Nat /\ Sum(late, Times) \in Nat /\ Sum(seen, Kinds) \in Nat
        /\ Sum(f, RecentOnes(ip)) \in Nat /\ Sum(pending[ip], Kinds) \in Nat
    <3>1. last \in SUBSET Times
      BY <1>1
    <3> HIDE DEF last
    <3>2. Sum(refused[ip], last) \in Nat
      BY <1>3, <3>1, KindsFinite, SumSubset
    <3>3. QED
      BY <1>2, <1>3, <2>1, <3>2, BooksAreNat
  <2> HIDE DEF last, f, late, seen
  <2>7. Requests!RefusedOf(ip, last) <= Requests!RecentOf(ip) + Requests!PendingOf(ip)
    BY <2>2, <2>3, <2>4, <2>5, <2>6
  <2>8. QED
    BY <2>7 DEF last
<1>5. ASSUME NEW ip \in Ips
      PROVE  Requests!RecentOf(ip)
               <= Requests!MapThenSumSet(LAMBDA o : Requests!RefusedOf(o, 1..now) - Requests!PendingOf(o),
                                         Begun(ip))
  <2> DEFINE B == Begun(ip)
             f == CountOf(B \X Kinds)
             due == [o \in B |-> Requests!RefusedOf(o, 1..now) - Requests!PendingOf(o)]
             IsSum(g) == g = [s \in SUBSET B |-> IF s = {} THEN 0
                              ELSE (Requests!RefusedOf(Picked(s), 1..now) - Requests!PendingOf(Picked(s)))
                                   + g[s \ {Picked(s)}]]
             h == CHOOSE g : IsSum(g)
  <2>1. ASSUME NEW o \in B
        PROVE  due[o] \in Nat /\ Sum(f, Row(o, Kinds)) <= due[o]
    <3>1. o \in Ips
      BY <1>2
    <3>2. due[o] = Sum(refused[o], Times) - Sum(pending[o], Kinds)
      BY <1>3, <3>1, RefusedIsSum, PendingIsSum
    <3>3. Sum(Counts(violations[o]), Kinds) + Sum(pending[o], Kinds) <= Sum(refused[o], Times)
      BY <1>3, <3>1 DEF Balanced
    <3>4. \A k \in Kinds : /\ Counts(violations[o])[k] \in Nat
                            /\ f[<<o, k>>] = Counts(violations[o])[k]
      BY <1>3, <3>1 DEF CountOf, Counts, Violation
    <3> HIDE DEF f
    <3>5. Sum(f, Row(o, Kinds)) = Sum(Counts(violations[o]), Kinds)
      BY <3>4, KindsFinite, SumRow
    <3> HIDE DEF due
    <3>6. QED
      BY <1>3, <3>1, <3>2, <3>3, <3>5
  <2>2. Sum(f, RecentOnes(ip)) <= Sum(due, B)
    <3>1. \A x \in B \X Kinds : f[x] \in Nat
      BY <1>2
    <3>2. IsFiniteSet(B) /\ RecentOnes(ip) \in SUBSET (B \X Kinds)
      BY <1>2
    <3> HIDE DEF f, due, B
    <3>3. QED
      BY <2>1, <3>1, <3>2, KindsFinite, SumPairs
  <2>3. Requests!RecentOf(ip) = Sum(f, RecentOnes(ip))
    BY <1>2, RecentIsSum
  <2>4. Requests!MapThenSumSet(LAMBDA o : Requests!RefusedOf(o, 1..now) - Requests!PendingOf(o), B)
          = h[B]
    BY DEF Requests!MapThenSumSet, Requests!MapThenFoldSet, Picked
  <2>5. IsFiniteSet(B)
    BY <1>2
  <2> HIDE DEF B
  <2>6. \A s \in SUBSET B : s # {} =>
           due[Picked(s)] = Requests!RefusedOf(Picked(s), 1..now) - Requests!PendingOf(Picked(s))
    BY PickedIn
  <2> HIDE DEF due
  <2>7. \A g : IsTable(g, due, B) <=> IsSum(g)
    <3>1. ASSUME NEW g
          PROVE  [s \in SUBSET B |-> IF s = {} THEN 0 ELSE due[Picked(s)] + g[s \ {Picked(s)}]]
                   = [s \in SUBSET B |-> IF s = {} THEN 0
                      ELSE (Requests!RefusedOf(Picked(s), 1..now) - Requests!PendingOf(Picked(s)))
                           + g[s \ {Picked(s)}]]
      BY <2>6
    <3>2. QED
      BY <3>1 DEF IsTable
  <2>8. \E g : IsTable(g, due, B)
    BY <2>5, TableExists
  <2>9. IsTable(h, due, B)
    <3> HIDE DEF IsSum
    <3>1. IsSum(h)
      BY <2>7, <2>8
    <3>2. QED
      BY <2>7, <3>1
  <2> HIDE DEF h
  <2>10. h[B] = Sum(due, B)
    <3> DEFINE c == CHOOSE t : IsTable(t, due, B)
    <3>1. IsTable(c, due, B)
      BY <2>8
    <3>2. Sum(due, B) = c[B]
      BY SumOfTable
    <3>3. B \in SUBSET B
      OBVIOUS
    <3> HIDE DEF c
    <3>4. h[B] = c[B]
      BY <2>5, <2>9, <3>1, <3>3, TablesAgree
    <3>5. QED
      BY <3>2, <3>4
  <2>11. QED
    BY <2>2, <2>3, <2>4, <2>10 DEF B
<1>6. QED
  BY <1>4, <1>5 DEF Requests!ViolationsKept, Begun

\* Every behaviour of the instance keeps the refusals of the last day in the
\* store, and none of them twice (Requests!ViolationsKept).
THEOREM RefusalsStay == MCSpec => []RefusalsKept
<1>1. MCInit => RequestsInv
  BY RequestsStart DEF MCInit
<1>2. RequestsInv /\ [MCNext]_serviceVars => RequestsInv'
  <2>1. ASSUME [MCNext]_serviceVars
        PROVE  Requests!RequestsNext \/ UNCHANGED <<now, pending, violations, refused>>
    BY <2>1 DEF MCNext, MCRequestsStep, serviceVars, requestVars
  <2>2. ASSUME RequestsInv, UNCHANGED <<now, pending, violations, refused>>
        PROVE  RequestsInv'
    BY <2>2 DEF RequestsInv
  <2>3. QED
    BY <2>1, <2>2, RequestsStep
<1>3. RequestsInv => RefusalsKept
  BY BooksKeepViolations DEF RefusalsKept
<1>4. QED
  BY <1>1, <1>2, <1>3, PTL DEF MCSpec

-----------------------------------------------------------------------------
(* Accounts.                                                               *)

OauthSteps == {"oauth_admit", "oauth_link", "oauth_create", "oauth_callback"}

AdmittedSteps == {"register_create", "oauth_create", "oauth_link", "oauth_callback"}

ProvenSteps == OauthSteps \union {"confirm_accept", "confirm_delete_pins", "confirm_welcome",
                                  "reset_save", "reset_accept"}

\* The account of an address: who uses it and what is linked to it have causes.
AccountFine(u, a, pr, gr) ==
    /\ a \in Accounts!Account
    /\ a.verified \/ a.accepted => u \in pr
    /\ a.welcomed => a.accepted /\ ~ a.pin
    /\ a.status = "stored" => /\ a.hasPassword = a.password
                              /\ a.hasPassword \/ a.providers # {}
    /\ \A s \in a.connected : <<u, s>> \in gr

\* A handler that saves the providers read them with the version it compares.
CopyFine(h, a) ==
    /\ h.copy.status = "stored" /\ a.status # "none"
    /\ a.status = "stored" =>
          /\ h.copy.version <= a.version
          /\ h.copy.version = a.version => h.copy.providers = a.providers
          /\ h.copy.hasPassword => a.hasPassword

\* A handler of an address, given the account a and whether it is admitted.
HandlerFine(h, a, admitted, pr, gr) ==
    /\ h \in Accounts!Handler
    /\ h.step # "idle" => h.user \in Users
    /\ h.step = "idle" => h.user = None
    /\ h.step \in ProvenSteps => h.user \in pr
    /\ h.step \in OauthSteps \union {"unlink_save"} => h.provider \in Providers
    /\ h.step \in AdmittedSteps => h.welcome
    /\ h.step \in {"register_admit", "oauth_admit"} => (admitted => h.welcome)
    /\ h.step = "oauth_admit" /\ h.copy.status = "stored" => CopyFine(h, a)
    /\ h.step \in {"oauth_link", "unlink_save"} => CopyFine(h, a)
    /\ h.step = "unlink_save" => h.copy.hasPassword \/ h.copy.providers \ {h.provider} # {}
    /\ h.step \in {"confirm_delete_pins", "confirm_welcome"} => a.status # "none"
    /\ h.step \in {"confirm_delete_pins", "confirm_welcome"} /\ a.status = "stored" => a.accepted
    /\ h.step = "confirm_welcome" /\ a.status = "stored" => ~ a.pin
    /\ h.step \in {"exchange", "connect"} => h.service \in Services
    /\ h.step = "connect" => <<h.user, h.service>> \in gr

AccountOf(h) == IF h.user \in Users THEN accounts[h.user] ELSE Accounts!NoAccount

AdmittedOf(h) == h.user \in Users /\ Accounts!Admitted(h.user)

HandlersFine ==
    \A p \in Procs : HandlerFine(handlers[p], AccountOf(handlers[p]),
                                 AdmittedOf(handlers[p]), proven, granted)

AccountsInv ==
    /\ Accounts!AccountsTypeOK
    /\ intruders = {}
    /\ \A u \in Users : AccountFine(u, accounts[u], proven, granted)
    /\ HandlersFine

\* The waitlist: who reads the same last position joins together.
PlacesInv ==
    /\ \A u, v \in Users : u # v /\ entries[u].position > 0
                                 /\ entries[u].position = entries[v].position
                             => {u, v} \subseteq together
    /\ \A p, q \in {p \in Procs : handlers[p].step = "join_save"} :
          p # q => {handlers[p].user, handlers[q].user} \subseteq together
    /\ \A p \in {p \in Procs : handlers[p].step = "join_save"}, u \in Users :
          u # handlers[p].user /\ entries[u].position = handlers[p].position + 1
             => {u, handlers[p].user} \subseteq together

\* What may become of an account while a handler holds a copy of it.
Grows(a, b) ==
    /\ b \in Accounts!Account
    /\ b.status = "none" => a.status = "none"
    /\ a.status # "none" /\ b.status = "stored" =>
          /\ a.status = "stored" /\ a.version <= b.version
          /\ a.version = b.version => a.providers = b.providers
          /\ a.hasPassword => b.hasPassword
          /\ a.accepted => b.accepted
          /\ b.pin => a.pin

LEMMA AccountParts ==
    ASSUME NEW a \in Accounts!Account
    PROVE  a = [status |-> a.status, password |-> a.password, hasPassword |-> a.hasPassword,
                providers |-> a.providers, version |-> a.version, accepted |-> a.accepted,
                verified |-> a.verified, boarded |-> a.boarded, pin |-> a.pin,
                welcomed |-> a.welcomed, connected |-> a.connected]
  BY DEF Accounts!Account

LEMMA HandlerParts ==
    ASSUME NEW h \in Accounts!Handler
    PROVE  h = [step |-> h.step, user |-> h.user, provider |-> h.provider, service |-> h.service,
                copy |-> h.copy, position |-> h.position, welcome |-> h.welcome]
  BY DEF Accounts!Handler

LEMMA NoAccountType == Accounts!NoAccount \in Accounts!Account
  BY DEF Accounts!NoAccount, Accounts!Account

LEMMA RestFine ==
    ASSUME NEW a, NEW admitted, NEW pr, NEW gr
    PROVE  HandlerFine(Accounts!Rest, a, admitted, pr, gr)
<1>1. /\ Accounts!Rest = [step |-> "idle", user |-> None, provider |-> None, service |-> None,
                         copy |-> Accounts!NoAccount, position |-> 0, welcome |-> FALSE]
      /\ "idle" \in Accounts!Steps
  BY DEF Accounts!Rest, Accounts!Steps
<1>2. Accounts!Rest \in Accounts!Handler
  BY <1>1, NoAccountType DEF Accounts!Handler
<1>3. Accounts!Rest.step = "idle" /\ Accounts!Rest.user = None
  BY <1>1
<1>4. QED
  BY <1>2, <1>3 DEF HandlerFine, OauthSteps, AdmittedSteps, ProvenSteps

LEMMA GrowsSame ==
    ASSUME NEW a \in Accounts!Account
    PROVE  Grows(a, a)
  BY DEF Grows, Accounts!Account

\* More is proven and granted, the account has grown, fewer are admitted.
LEMMA HandlerStaysFine ==
    ASSUME NEW h, NEW a \in Accounts!Account, NEW b, NEW old, NEW new, NEW pr, NEW gr,
           NEW pr1, NEW gr1, HandlerFine(h, a, old, pr, gr),
           pr \subseteq pr1, gr \subseteq gr1, Grows(a, b), new => old
    PROVE  HandlerFine(h, b, new, pr1, gr1)
<1>1. CopyFine(h, a) => CopyFine(h, b)
  <2>1. h.copy \in Accounts!Account
    BY DEF HandlerFine, Accounts!Handler
  <2>2. QED
    BY <2>1 DEF CopyFine, Grows, Accounts!Account
<1>2. QED
  BY <1>1 DEF HandlerFine, Grows

LEMMA AccountsMove ==
    ASSUME AccountsInv,
           entries' \in [Users -> Accounts!Entry], accounts' \in [Users -> Accounts!Account],
           handlers' \in [Procs -> Accounts!Handler],
           together' \subseteq Users, intruders' = {},
           proven' \subseteq Users, proven \subseteq proven',
           granted' \subseteq Users \X Services, granted \subseteq granted',
           \A u \in Users : /\ Grows(accounts[u], accounts'[u])
                            /\ AccountFine(u, accounts'[u], proven', granted')
                            /\ Accounts!Admitted(u)' => Accounts!Admitted(u),
           \A q \in Procs : \/ handlers'[q] = handlers[q]
                            \/ HandlerFine(handlers'[q], AccountOf(handlers[q])',
                                           AdmittedOf(handlers[q])', proven', granted')
    PROVE  AccountsInv'
<1>1. Accounts!AccountsTypeOK'
  BY DEF Accounts!AccountsTypeOK
<1>2. ASSUME NEW q \in Procs, handlers'[q] = handlers[q]
      PROVE  HandlerFine(handlers'[q], AccountOf(handlers[q])', AdmittedOf(handlers[q])',
                         proven', granted')
  <2>0. PICK h : h = handlers[q]
    OBVIOUS
  <2> DEFINE a == AccountOf(h)
             b == IF h.user \in Users THEN accounts'[h.user] ELSE Accounts!NoAccount
             new == h.user \in Users /\ Accounts!Admitted(h.user)'
             old == AdmittedOf(h)
  <2>1. HandlerFine(h, a, old, proven, granted)
    BY <2>0 DEF AccountsInv, HandlersFine
  <2>2. a \in Accounts!Account
    BY NoAccountType DEF AccountsInv, Accounts!AccountsTypeOK, AccountOf
  <2>3. Grows(a, b)
    BY <2>2, GrowsSame DEF AccountOf
  <2>4. new => old
    BY DEF AdmittedOf
  <2> HIDE DEF a, b, new, old
  <2>5. HandlerFine(h, b, new, proven', granted')
    BY <2>1, <2>2, <2>3, <2>4, HandlerStaysFine
  <2>6. b = AccountOf(handlers[q])' /\ new = AdmittedOf(handlers[q])' /\ h = handlers'[q]
    BY <1>2, <2>0 DEF AccountOf, AdmittedOf, b, new
  <2>7. QED
    BY <2>5, <2>6
<1>3. HandlersFine'
  BY <1>2 DEF HandlersFine
<1>4. QED
  BY <1>1, <1>3 DEF AccountsInv

\* A step of one handler that leaves the accounts alone.
LEMMA HandlerMoves ==
    ASSUME AccountsInv, NEW p \in Procs, NEW new,
           handlers' = [handlers EXCEPT ![p] = new], UNCHANGED <<entries, accounts, intruders>>,
           together' \subseteq Users,
           proven' \subseteq Users, proven \subseteq proven',
           granted' \subseteq Users \X Services, granted \subseteq granted',
           HandlerFine(new, AccountOf(new), AdmittedOf(new), proven', granted')
    PROVE  AccountsInv'
<1>1. /\ entries \in [Users -> Accounts!Entry] /\ accounts \in [Users -> Accounts!Account]
      /\ handlers \in [Procs -> Accounts!Handler] /\ intruders = {}
      /\ \A u \in Users : AccountFine(u, accounts[u], proven, granted)
  BY DEF AccountsInv, Accounts!AccountsTypeOK
<1>2. handlers' \in [Procs -> Accounts!Handler]
  <2>1. new \in Accounts!Handler
    BY DEF HandlerFine
  <2>2. QED
    BY <1>1, <2>1
<1>3. ASSUME NEW u \in Users
      PROVE  /\ Grows(accounts[u], accounts'[u])
             /\ AccountFine(u, accounts'[u], proven', granted')
             /\ Accounts!Admitted(u)' => Accounts!Admitted(u)
  <2>1. Grows(accounts[u], accounts'[u])
    BY <1>1, GrowsSame
  <2>2. AccountFine(u, accounts'[u], proven', granted')
    BY <1>1 DEF AccountFine
  <2>3. Accounts!Admitted(u)' => Accounts!Admitted(u)
    BY DEF Accounts!Admitted, Accounts!IsEmailWhitelisted
  <2>4. QED
    BY <2>1, <2>2, <2>3
<1>4. ASSUME NEW q \in Procs
      PROVE  \/ handlers'[q] = handlers[q]
             \/ HandlerFine(handlers'[q], AccountOf(handlers[q])', AdmittedOf(handlers[q])',
                            proven', granted')
  <2>1. CASE q # p
    BY <2>1, <1>1
  <2>2. CASE q = p
    <3>1. handlers'[q] = new
      BY <2>2, <1>1
    <3>2. AccountOf(handlers[q])' = AccountOf(new)
      BY <3>1 DEF AccountOf
    <3>3. AdmittedOf(handlers[q])' = AdmittedOf(new)
      BY <3>1 DEF AdmittedOf, Accounts!Admitted, Accounts!IsEmailWhitelisted
    <3>4. QED
      BY <3>1, <3>2, <3>3
  <2>3. QED
    BY <2>1, <2>2
<1>5. QED
  BY <1>1, <1>2, <1>3, <1>4, AccountsMove

\* A change of an account, by the handler p of its address or by nobody.
LEMMA AccountMoves ==
    ASSUME AccountsInv, NEW u \in Users, NEW b, accounts' = [accounts EXCEPT ![u] = b],
           UNCHANGED <<entries, together, proven>>, intruders' = {},
           granted' \subseteq Users \X Services, granted \subseteq granted',
           Grows(accounts[u], b), AccountFine(u, b, proven, granted'),
           \/ UNCHANGED handlers
           \/ \E p \in Procs, new \in Accounts!Handler :
                 /\ handlers' = [handlers EXCEPT ![p] = new]
                 /\ \/ new = Accounts!Rest
                    \/ /\ new.user = u
                       /\ HandlerFine(new, b, AdmittedOf(new), proven, granted')
    PROVE  AccountsInv'
<1>1. /\ entries \in [Users -> Accounts!Entry] /\ accounts \in [Users -> Accounts!Account]
      /\ handlers \in [Procs -> Accounts!Handler] /\ together \subseteq Users
      /\ proven \subseteq Users
      /\ \A v \in Users : AccountFine(v, accounts[v], proven, granted)
  BY DEF AccountsInv, Accounts!AccountsTypeOK
<1>2. accounts' \in [Users -> Accounts!Account]
  BY <1>1 DEF Grows
<1>3. handlers' \in [Procs -> Accounts!Handler]
  BY <1>1
<1>4. ASSUME NEW v \in Users
      PROVE  /\ Grows(accounts[v], accounts'[v])
             /\ AccountFine(v, accounts'[v], proven', granted')
             /\ Accounts!Admitted(v)' => Accounts!Admitted(v)
  <2>1. Accounts!Admitted(v)' => Accounts!Admitted(v)
    BY DEF Accounts!Admitted, Accounts!IsEmailWhitelisted
  <2>2. CASE v = u
    BY <1>1, <2>1, <2>2
  <2>3. CASE v # u
    <3>1. accounts'[v] = accounts[v]
      BY <1>1, <2>3
    <3>2. Grows(accounts[v], accounts'[v])
      BY <1>1, <3>1, GrowsSame
    <3>3. AccountFine(v, accounts'[v], proven', granted')
      BY <1>1, <3>1 DEF AccountFine
    <3>4. QED
      BY <2>1, <3>2, <3>3
  <2>4. QED
    BY <2>2, <2>3
<1>5. ASSUME NEW q \in Procs
      PROVE  \/ handlers'[q] = handlers[q]
             \/ HandlerFine(handlers'[q], AccountOf(handlers[q])', AdmittedOf(handlers[q])',
                            proven', granted')
  <2>1. CASE UNCHANGED handlers
    BY <2>1
  <2>2. ASSUME NEW p \in Procs, NEW new \in Accounts!Handler,
               handlers' = [handlers EXCEPT ![p] = new],
               \/ new = Accounts!Rest
               \/ new.user = u /\ HandlerFine(new, b, AdmittedOf(new), proven, granted')
        PROVE  \/ handlers'[q] = handlers[q]
               \/ HandlerFine(handlers'[q], AccountOf(handlers[q])', AdmittedOf(handlers[q])',
                              proven', granted')
    <3>1. CASE q # p
      BY <1>1, <2>2, <3>1
    <3>2. CASE q = p
      <4>1. handlers'[q] = new
        BY <1>1, <2>2, <3>2
      <4>2. CASE new = Accounts!Rest
        BY <4>1, <4>2, RestFine
      <4>3. CASE new.user = u /\ HandlerFine(new, b, AdmittedOf(new), proven, granted')
        <5>1. AccountOf(handlers[q])' = b
          BY <1>1, <4>1, <4>3 DEF AccountOf
        <5>2. AdmittedOf(handlers[q])' = AdmittedOf(new)
          BY <4>1 DEF AdmittedOf, Accounts!Admitted, Accounts!IsEmailWhitelisted
        <5>3. QED
          BY <4>1, <4>3, <5>1, <5>2
      <4>4. QED
        BY <2>2, <4>2, <4>3
    <3>3. QED
      BY <3>1, <3>2
  <2>3. QED
    BY <2>1, <2>2
<1>6. QED
  BY <1>1, <1>2, <1>3, <1>4, <1>5, AccountsMove

\* A handler that goes on to another step.
Stepped(h, step) ==
    [step |-> step, user |-> h.user, provider |-> h.provider, service |-> h.service,
     copy |-> h.copy, position |-> h.position, welcome |-> h.welcome]

LEMMA GoesTo ==
    ASSUME AccountsInv, NEW p \in Procs, NEW h, h = handlers[p], NEW step \in Accounts!Steps,
           Accounts!Go(p, step)
    PROVE  /\ h \in Accounts!Handler /\ Stepped(h, step) \in Accounts!Handler
           /\ handlers' = [handlers EXCEPT ![p] = Stepped(h, step)]
<1>1. h \in Accounts!Handler /\ handlers \in [Procs -> Accounts!Handler]
  BY DEF AccountsInv, Accounts!AccountsTypeOK
<1>2. Stepped(h, step) \in Accounts!Handler
  BY <1>1 DEF Accounts!Handler, Stepped
<1>3. h = [step |-> h.step, user |-> h.user, provider |-> h.provider, service |-> h.service,
           copy |-> h.copy, position |-> h.position, welcome |-> h.welcome]
  BY <1>1, HandlerParts
<1>4. [h EXCEPT !.step = step] = Stepped(h, step)
  BY <1>3 DEF Stepped
<1>5. handlers' = [handlers EXCEPT ![p] = Stepped(h, step)]
  BY <1>4 DEF Accounts!Go
<1>6. QED
  BY <1>1, <1>2, <1>5

\* A handler that ends.
LEMMA DoneFine ==
    ASSUME AccountsInv, NEW p \in Procs, Accounts!Done(p),
           UNCHANGED <<entries, accounts, intruders>>, together' \subseteq Users,
           proven' \subseteq Users, proven \subseteq proven',
           granted' \subseteq Users \X Services, granted \subseteq granted'
    PROVE  AccountsInv'
<1>1. handlers' = [handlers EXCEPT ![p] = Accounts!Rest]
  BY DEF Accounts!Done
<1>2. QED
  BY <1>1, RestFine, HandlerMoves

\* What a save does to a stored document is fine: then so is the save.
LEMMA WriteFine ==
    ASSUME AccountsInv, NEW p \in Procs, NEW h, h = handlers[p], h.step # "idle",
           NEW doc, NEW step \in Accounts!Steps, Accounts!Write(p, doc, step),
           accounts[h.user].status = "stored" =>
              /\ Grows(accounts[h.user], doc) /\ AccountFine(h.user, doc, proven, granted)
              /\ step # "idle" => HandlerFine(Stepped(h, step), doc, AdmittedOf(Stepped(h, step)),
                                             proven, granted)
    PROVE  AccountsInv'
<1>1. /\ UNCHANGED <<entries, together, intruders, proven, granted>>
      /\ together \subseteq Users /\ proven \subseteq Users /\ granted \subseteq Users \X Services
      /\ intruders = {}
  BY DEF Accounts!Write, Accounts!KeepRest, Accounts!historyVars, AccountsInv,
         Accounts!AccountsTypeOK
<1>2. h.user \in Users
  BY DEF AccountsInv, HandlersFine, HandlerFine
<1>3. CASE Accounts!Stored(h.user)
  <2>1. accounts' = [accounts EXCEPT ![h.user] = doc]
    BY <1>3 DEF Accounts!Write
  <2>2. /\ Grows(accounts[h.user], doc) /\ AccountFine(h.user, doc, proven, granted)
        /\ step # "idle" => HandlerFine(Stepped(h, step), doc, AdmittedOf(Stepped(h, step)),
                                       proven, granted)
    BY <1>3 DEF Accounts!Stored
  <2>3. CASE step = "idle"
    <3>1. handlers' = [handlers EXCEPT ![p] = Accounts!Rest]
      BY <1>3, <2>3 DEF Accounts!Write, Accounts!Done
    <3>2. Accounts!Rest \in Accounts!Handler
      BY RestFine DEF HandlerFine
    <3>3. QED
      BY <1>1, <1>2, <2>1, <2>2, <3>1, <3>2, AccountMoves
  <2>4. CASE step # "idle"
    <3>1. Accounts!Go(p, step)
      BY <1>3, <2>4 DEF Accounts!Write
    <3>2. /\ Stepped(h, step) \in Accounts!Handler
          /\ handlers' = [handlers EXCEPT ![p] = Stepped(h, step)]
      BY <3>1, GoesTo
    <3>3. Stepped(h, step).user = h.user
      BY DEF Stepped
    <3>4. QED
      BY <1>1, <1>2, <2>1, <2>2, <2>4, <3>2, <3>3, AccountMoves
  <2>5. QED
    BY <2>3, <2>4
<1>4. CASE ~ Accounts!Stored(h.user)
  <2>1. Accounts!Done(p) /\ UNCHANGED accounts
    BY <1>4 DEF Accounts!Write
  <2>2. QED
    BY <1>1, <2>1, DoneFine
<1>5. QED
  BY <1>3, <1>4

\* The largest of the positions on the waitlist.
LEMMA LastPositionIsLast ==
    ASSUME entries \in [Users -> Accounts!Entry], Users # {}
    PROVE  /\ Accounts!LastPosition \in Nat
           /\ \A u \in Users : entries[u].position <= Accounts!LastPosition
<1> DEFINE at(u) == entries[u].position
           Last(s, n) == n \in {at(u) : u \in s} /\ \A u \in s : at(u) <= n
           T == {s \in SUBSET Users : s # {} /\ ~ \E n : Last(s, n)}
<1>1. \A u \in Users : at(u) \in Nat
  BY DEF Accounts!Entry
<1>2. T = {}
  <2>1. SUFFICES ASSUME T # {} PROVE FALSE
    OBVIOUS
  <2>2. PICK s \in T : \A r \in T : r \subseteq s => r = s
    <3>1. T \in SUBSET SUBSET Users
      OBVIOUS
    <3> HIDE DEF T
    <3>2. QED
      BY <2>1, <3>1, AccountsAssumption, SmallestSubset
  <2>3. PICK u \in s : u \in Users
    BY <2>2
  <2> DEFINE r == s \ {u}
  <2>4. CASE r = {}
    <3>1. s = {u}
      BY <2>3, <2>4
    <3> HIDE DEF at
    <3>2. Last(s, at(u))
      BY <1>1, <2>3, <3>1
    <3>3. QED
      BY <2>2, <3>2
  <2>5. CASE r # {}
    <3>1. r \notin T /\ r \in SUBSET Users
      BY <2>2, <2>3
    <3>2. PICK n : Last(r, n)
      BY <2>5, <3>1
    <3> HIDE DEF at, T
    <3>3. n \in Nat /\ at(u) \in Nat /\ \A v \in r : at(v) \in Nat
      BY <1>1, <2>3, <3>1, <3>2
    <3>4. \A v \in s : v = u \/ v \in r
      OBVIOUS
    <3>5. CASE at(u) <= n
      <4>1. Last(s, n)
        BY <3>2, <3>3, <3>4, <3>5
      <4>2. QED
        BY <2>2, <4>1 DEF T
    <3>6. CASE ~ (at(u) <= n)
      <4>1. Last(s, at(u))
        BY <2>3, <3>2, <3>3, <3>4, <3>6
      <4>2. QED
        BY <2>2, <4>1 DEF T
    <3>7. QED
      BY <3>5, <3>6
  <2>6. QED
    BY <2>4, <2>5
<1>3. PICK n : Last(Users, n)
  BY <1>2
<1>4. /\ Accounts!LastPosition \in {at(u) : u \in Users}
      /\ \A u \in Users : at(u) <= Accounts!LastPosition
  BY <1>3 DEF Accounts!LastPosition
<1>5. QED
  BY <1>1, <1>4

\* The steps of the waitlist.
LEMMA WaitlistFine ==
    ASSUME AccountsInv, NEW p \in Procs, NEW u \in Users,
           Accounts!Join(p, u) \/ Accounts!JoinPosition(p) \/ Accounts!JoinSave(p)
    PROVE  AccountsInv'
<1>1. PICK h : h = handlers[p]
  OBVIOUS
<1>2. /\ handlers \in [Procs -> Accounts!Handler] /\ h \in Accounts!Handler
      /\ together \subseteq Users /\ proven \subseteq Users /\ granted \subseteq Users \X Services
      /\ entries \in [Users -> Accounts!Entry] /\ accounts \in [Users -> Accounts!Account]
      /\ intruders = {}
  BY <1>1 DEF AccountsInv, Accounts!AccountsTypeOK
<1>3. HandlerFine(h, AccountOf(h), AdmittedOf(h), proven, granted)
  BY <1>1 DEF AccountsInv, HandlersFine
<1>4. h = [step |-> h.step, user |-> h.user, provider |-> h.provider, service |-> h.service,
           copy |-> h.copy, position |-> h.position, welcome |-> h.welcome]
  BY <1>2, HandlerParts
<1>5. CASE Accounts!Join(p, u)
  <2> DEFINE new == [step |-> "join_position", user |-> u, provider |-> h.provider,
                     service |-> h.service, copy |-> h.copy, position |-> h.position,
                     welcome |-> h.welcome]
  <2>1. new \in Accounts!Handler
    BY <1>2 DEF Accounts!Handler, Accounts!Steps
  <2>2. handlers' = [handlers EXCEPT ![p] = new]
    <3>1. handlers' = [handlers EXCEPT ![p].step = "join_position", ![p].user = u]
      BY <1>5 DEF Accounts!Join
    <3>2. handlers'[p] = new
      BY <1>1, <1>2, <1>4, <3>1
    <3> HIDE DEF new
    <3>3. QED
      BY <1>2, <3>1, <3>2
  <2>3. new.step = "join_position" /\ new.user = u
    OBVIOUS
  <2>4. UNCHANGED <<entries, accounts, together, intruders, proven, granted>>
    BY <1>5 DEF Accounts!Join, Accounts!KeepRest, Accounts!historyVars
  <2> HIDE DEF new
  <2>5. HandlerFine(new, AccountOf(new), AdmittedOf(new), proven, granted)
    BY <2>1, <2>3 DEF HandlerFine, OauthSteps, AdmittedSteps, ProvenSteps
  <2>6. QED
    BY <1>2, <2>2, <2>4, <2>5, HandlerMoves
<1>6. CASE Accounts!JoinPosition(p)
  <2> DEFINE new == [step |-> "join_save", user |-> h.user, provider |-> h.provider,
                     service |-> h.service, copy |-> h.copy,
                     position |-> Accounts!LastPosition, welcome |-> h.welcome]
  <2>1. new \in Accounts!Handler
    BY <1>2, LastPositionIsLast DEF Accounts!Handler, Accounts!Steps
  <2>2. handlers' = [handlers EXCEPT ![p] = new]
    <3>1. handlers' = [handlers EXCEPT ![p].step = "join_save",
                                       ![p].position = Accounts!LastPosition]
      BY <1>6 DEF Accounts!JoinPosition
    <3>2. handlers'[p] = new
      BY <1>1, <1>2, <1>4, <3>1
    <3> HIDE DEF new
    <3>3. QED
      BY <1>2, <3>1, <3>2
  <2>3. new.step = "join_save" /\ new.user = h.user
    OBVIOUS
  <2>4. UNCHANGED <<entries, accounts, intruders, proven, granted>>
    BY <1>6 DEF Accounts!JoinPosition
  <2> HIDE DEF new
  <2>5. h.step = "join_position"
    BY <1>1, <1>6 DEF Accounts!JoinPosition, Accounts!At
  <2>6. HandlerFine(new, AccountOf(new), AdmittedOf(new), proven, granted)
    BY <1>3, <2>1, <2>3, <2>5 DEF HandlerFine, OauthSteps, AdmittedSteps, ProvenSteps
  <2>7. together' \subseteq Users
    <3>1. \A q \in Procs : handlers[q].step = "join_save" => handlers[q].user \in Users
      BY DEF AccountsInv, HandlersFine, HandlerFine
    <3>2. h.user \in Users
      BY <1>3, <2>5 DEF HandlerFine
    <3>3. QED
      BY <1>1, <1>2, <1>6, <3>1, <3>2 DEF Accounts!JoinPosition, Accounts!At
  <2>8. QED
    BY <1>2, <2>2, <2>4, <2>6, <2>7, HandlerMoves
<1>7. CASE Accounts!JoinSave(p)
  <2>1. /\ UNCHANGED <<accounts, together, intruders, proven, granted>>
        /\ handlers' = [handlers EXCEPT ![p] = Accounts!Rest]
    BY <1>7 DEF Accounts!JoinSave, Accounts!historyVars, Accounts!Done
  <2>2. h.user \in Users
    BY <1>1, <1>3, <1>7 DEF HandlerFine, Accounts!JoinSave, Accounts!At
  <2>3. \/ entries' = entries
        \/ /\ ~ entries[h.user].exists
           /\ entries' = [entries EXCEPT ![h.user] = [exists |-> TRUE, whitelisted |-> FALSE,
                                                      position |-> h.position + 1]]
    BY <1>1, <1>7 DEF Accounts!JoinSave
  <2>4. entries' \in [Users -> Accounts!Entry]
    <3>1. h.position \in Nat
      BY <1>2 DEF Accounts!Handler
    <3>2. [exists |-> TRUE, whitelisted |-> FALSE, position |-> h.position + 1] \in Accounts!Entry
      BY <3>1 DEF Accounts!Entry
    <3>3. QED
      BY <1>2, <2>3, <3>2
  <2>5. \A v \in Users : Accounts!Admitted(v)' => Accounts!Admitted(v)
    BY <1>2, <2>2, <2>3 DEF Accounts!Admitted, Accounts!IsEmailWhitelisted
  <2>6. handlers' \in [Procs -> Accounts!Handler]
    <3>1. Accounts!Rest \in Accounts!Handler
      BY RestFine DEF HandlerFine
    <3>2. QED
      BY <1>2, <2>1, <3>1
  <2>7. \A q \in Procs : \/ handlers'[q] = handlers[q]
                         \/ HandlerFine(handlers'[q], AccountOf(handlers[q])',
                                        AdmittedOf(handlers[q])', proven', granted')
    BY <1>2, <2>1, RestFine
  <2>8. \A v \in Users : /\ Grows(accounts[v], accounts'[v])
                         /\ AccountFine(v, accounts'[v], proven', granted')
    BY <1>2, <2>1, GrowsSame DEF AccountsInv
  <2>9. QED
    BY <1>2, <2>1, <2>4, <2>5, <2>6, <2>7, <2>8, AccountsMove
<1>8. QED
  BY <1>5, <1>6, <1>7

\* The administration of the waitlist.
LEMMA WhitelistFine ==
    ASSUME AccountsInv, NEW u \in Users,
           \/ Accounts!WhitelistUser(u) \/ Accounts!RemoveFromWhitelist(u)
           \/ Accounts!DeleteEntry(u)
    PROVE  AccountsInv'
<1>1. /\ handlers \in [Procs -> Accounts!Handler]
      /\ together \subseteq Users /\ proven \subseteq Users /\ granted \subseteq Users \X Services
      /\ entries \in [Users -> Accounts!Entry] /\ accounts \in [Users -> Accounts!Account]
      /\ intruders = {}
      /\ \A v \in Users : AccountFine(v, accounts[v], proven, granted)
  BY DEF AccountsInv, Accounts!AccountsTypeOK
<1>2. UNCHANGED <<accounts, together, intruders, proven, granted>>
  BY DEF Accounts!WhitelistUser, Accounts!RemoveFromWhitelist, Accounts!DeleteEntry,
         Accounts!historyVars
<1>3. CASE Accounts!WhitelistUser(u)
  <2>1. entries' \in [Users -> Accounts!Entry]
    <3>1. PICK e \in Accounts!Entry : e = entries[u]
      BY <1>1
    <3>2. e = [exists |-> e.exists, whitelisted |-> e.whitelisted, position |-> e.position]
      BY DEF Accounts!Entry
    <3>3. entries'[u] = [exists |-> TRUE, whitelisted |-> TRUE, position |-> e.position]
      BY <1>1, <1>3, <3>1, <3>2 DEF Accounts!WhitelistUser
    <3>4. entries'[u] \in Accounts!Entry
      BY <3>1, <3>3 DEF Accounts!Entry
    <3>5. QED
      BY <1>1, <1>3, <3>4 DEF Accounts!WhitelistUser
  <2>2. \A v \in Users \ {u} : entries'[v] = entries[v]
    BY <1>1, <1>3 DEF Accounts!WhitelistUser
  <2>3. ASSUME NEW q \in Procs
        PROVE  /\ handlers'[q] \in Accounts!Handler
               /\ HandlerFine(handlers'[q], AccountOf(handlers[q])', AdmittedOf(handlers[q])',
                              proven', granted')
    <3>1. PICK h \in Accounts!Handler : h = handlers[q]
      BY <1>1
    <3>2. HandlerFine(h, AccountOf(h), AdmittedOf(h), proven, granted)
      BY <3>1 DEF AccountsInv, HandlersFine
    <3>3. CASE h.user = u
      <4> DEFINE new == [h EXCEPT !.welcome = TRUE]
      <4>1. handlers'[q] = new
        BY <1>1, <1>3, <3>1, <3>3 DEF Accounts!WhitelistUser
      <4>2. /\ new \in Accounts!Handler /\ new.welcome = TRUE
            /\ new.step = h.step /\ new.user = h.user /\ new.provider = h.provider
            /\ new.service = h.service /\ new.copy = h.copy
        BY DEF Accounts!Handler
      <4> HIDE DEF new
      <4>3. AccountOf(handlers[q])' = AccountOf(h)
        BY <1>2, <4>1, <4>2 DEF AccountOf
      <4>4. HandlerFine(new, AccountOf(h), TRUE, proven, granted)
        BY <3>2, <4>2 DEF HandlerFine, CopyFine
      <4>5. AdmittedOf(handlers[q])' \in BOOLEAN
        BY DEF AdmittedOf
      <4>6. HandlerFine(new, AccountOf(h), AdmittedOf(handlers[q])', proven, granted)
        BY <4>2, <4>4 DEF HandlerFine
      <4>7. QED
        BY <1>2, <4>1, <4>2, <4>3, <4>6
    <3>4. CASE h.user # u
      <4>1. handlers'[q] = h
        BY <1>1, <1>3, <3>1, <3>4 DEF Accounts!WhitelistUser
      <4>2. AccountOf(handlers[q])' = AccountOf(h)
        BY <1>2, <4>1 DEF AccountOf
      <4>3. AdmittedOf(handlers[q])' = AdmittedOf(h)
        BY <2>2, <3>4, <4>1 DEF AdmittedOf, Accounts!Admitted, Accounts!IsEmailWhitelisted
      <4>4. QED
        BY <1>2, <3>1, <3>2, <4>1, <4>2, <4>3
    <3>5. QED
      BY <3>3, <3>4
  <2>4. handlers' \in [Procs -> Accounts!Handler]
    BY <1>3, <2>3 DEF Accounts!WhitelistUser
  <2>5. HandlersFine'
    BY <2>3 DEF HandlersFine
  <2>6. Accounts!AccountsTypeOK'
    BY <1>1, <1>2, <2>1, <2>4 DEF Accounts!AccountsTypeOK
  <2>7. QED
    BY <1>1, <1>2, <2>5, <2>6 DEF AccountsInv
<1>4. CASE Accounts!RemoveFromWhitelist(u) \/ Accounts!DeleteEntry(u)
  <2>1. UNCHANGED handlers
    BY <1>4 DEF Accounts!RemoveFromWhitelist, Accounts!DeleteEntry
  <2>2. /\ entries' \in [Users -> Accounts!Entry]
        /\ entries'[u].whitelisted = FALSE
        /\ \A v \in Users \ {u} : entries'[v] = entries[v]
    <3>1. CASE Accounts!RemoveFromWhitelist(u)
      <4>1. PICK e \in Accounts!Entry : e = entries[u]
        BY <1>1
      <4> DEFINE new == [e EXCEPT !.whitelisted = FALSE]
      <4>2. new \in Accounts!Entry /\ new.whitelisted = FALSE
        BY DEF Accounts!Entry
      <4>3. entries' = [entries EXCEPT ![u] = new]
        BY <3>1, <4>1 DEF Accounts!RemoveFromWhitelist
      <4> HIDE DEF new
      <4>4. QED
        BY <1>1, <4>2, <4>3
    <3>2. CASE Accounts!DeleteEntry(u)
      BY <1>1, <3>2 DEF Accounts!DeleteEntry, Accounts!NoEntry, Accounts!Entry
    <3>3. QED
      BY <1>4, <3>1, <3>2
  <2>3. \A v \in Users : Accounts!Admitted(v)' => Accounts!Admitted(v)
    BY <1>1, <2>2 DEF Accounts!Admitted, Accounts!IsEmailWhitelisted
  <2>4. \A v \in Users : /\ Grows(accounts[v], accounts'[v])
                         /\ AccountFine(v, accounts'[v], proven', granted')
    BY <1>1, <1>2, GrowsSame
  <2>5. QED
    BY <1>1, <1>2, <2>1, <2>2, <2>3, <2>4, AccountsMove
<1>5. QED
  BY <1>3, <1>4

\* The documents of new accounts, written out.
LEMMA RegistersAs ==
    [Accounts!NoAccount EXCEPT !.status = "stored", !.password = TRUE,
                             !.hasPassword = TRUE, !.pin = TRUE] =
           [status |-> "stored", password |-> TRUE, hasPassword |-> TRUE, providers |-> {},
            version |-> 0, accepted |-> FALSE, verified |-> FALSE, boarded |-> FALSE,
            pin |-> TRUE, welcomed |-> FALSE, connected |-> {}]
<1>1. PICK a1 : a1 = [Accounts!NoAccount EXCEPT !.status = "stored"]
  OBVIOUS
<1>2. PICK a2 : a2 = [a1 EXCEPT !.password = TRUE]
  OBVIOUS
<1>3. PICK a3 : a3 = [a2 EXCEPT !.hasPassword = TRUE]
  OBVIOUS
<1>4. PICK a4 : a4 = [a3 EXCEPT !.pin = TRUE]
  OBVIOUS
<1>5. a4 = [status |-> "stored", password |-> TRUE, hasPassword |-> TRUE, providers |-> {},
 version |-> 0, accepted |-> FALSE, verified |-> FALSE, boarded |-> FALSE, pin |-> TRUE,
 welcomed |-> FALSE, connected |-> {}]
  <2>1. a1 = [status |-> "stored", password |-> FALSE, hasPassword |-> FALSE, providers |-> {},
   version |-> 0, accepted |-> FALSE, verified |-> FALSE, boarded |-> FALSE, pin |-> FALSE,
   welcomed |-> FALSE, connected |-> {}]
    BY <1>1 DEF Accounts!NoAccount
  <2>2. a2 = [status |-> "stored", password |-> TRUE, hasPassword |-> FALSE, providers |-> {},
   version |-> 0, accepted |-> FALSE, verified |-> FALSE, boarded |-> FALSE, pin |-> FALSE,
   welcomed |-> FALSE, connected |-> {}]
    BY <1>2, <2>1
  <2>3. a3 = [status |-> "stored", password |-> TRUE, hasPassword |-> TRUE, providers |-> {},
   version |-> 0, accepted |-> FALSE, verified |-> FALSE, boarded |-> FALSE, pin |-> FALSE,
   welcomed |-> FALSE, connected |-> {}]
    BY <1>3, <2>2
  <2>4. QED
    BY <1>4, <2>3
<1>6. a4 = [Accounts!NoAccount EXCEPT !.status = "stored", !.password = TRUE,
                             !.hasPassword = TRUE, !.pin = TRUE]
  BY <1>1, <1>2, <1>3, <1>4
<1>7. QED
  BY <1>5, <1>6

LEMMA SignsUpAs ==
    ASSUME NEW x
    PROVE [Accounts!NoAccount EXCEPT !.status = "stored", !.verified = TRUE, !.accepted = TRUE,
     !.welcomed = TRUE, !.providers = {x}] =
           [status |-> "stored", password |-> FALSE, hasPassword |-> FALSE, providers |-> {x},
            version |-> 0, accepted |-> TRUE, verified |-> TRUE, boarded |-> FALSE,
            pin |-> FALSE, welcomed |-> TRUE, connected |-> {}]
<1>1. PICK a1 : a1 = [Accounts!NoAccount EXCEPT !.status = "stored"]
  OBVIOUS
<1>2. PICK a2 : a2 = [a1 EXCEPT !.verified = TRUE]
  OBVIOUS
<1>3. PICK a3 : a3 = [a2 EXCEPT !.accepted = TRUE]
  OBVIOUS
<1>4. PICK a4 : a4 = [a3 EXCEPT !.welcomed = TRUE]
  OBVIOUS
<1>5. PICK a5 : a5 = [a4 EXCEPT !.providers = {x}]
  OBVIOUS
<1>6. a5 = [status |-> "stored", password |-> FALSE, hasPassword |-> FALSE, providers |-> {x},
 version |-> 0, accepted |-> TRUE, verified |-> TRUE, boarded |-> FALSE, pin |-> FALSE,
 welcomed |-> TRUE, connected |-> {}]
  <2>1. a1 = [status |-> "stored", password |-> FALSE, hasPassword |-> FALSE, providers |-> {},
   version |-> 0, accepted |-> FALSE, verified |-> FALSE, boarded |-> FALSE, pin |-> FALSE,
   welcomed |-> FALSE, connected |-> {}]
    BY <1>1 DEF Accounts!NoAccount
  <2>2. a2 = [status |-> "stored", password |-> FALSE, hasPassword |-> FALSE, providers |-> {},
   version |-> 0, accepted |-> FALSE, verified |-> TRUE, boarded |-> FALSE, pin |-> FALSE,
   welcomed |-> FALSE, connected |-> {}]
    BY <1>2, <2>1
  <2>3. a3 = [status |-> "stored", password |-> FALSE, hasPassword |-> FALSE, providers |-> {},
   version |-> 0, accepted |-> TRUE, verified |-> TRUE, boarded |-> FALSE, pin |-> FALSE,
   welcomed |-> FALSE, connected |-> {}]
    BY <1>3, <2>2
  <2>4. a4 = [status |-> "stored", password |-> FALSE, hasPassword |-> FALSE, providers |-> {},
   version |-> 0, accepted |-> TRUE, verified |-> TRUE, boarded |-> FALSE, pin |-> FALSE,
   welcomed |-> TRUE, connected |-> {}]
    BY <1>4, <2>3
  <2>5. QED
    BY <1>5, <2>4
<1>7. a5 = [Accounts!NoAccount EXCEPT !.status = "stored", !.verified = TRUE,
                             !.accepted = TRUE, !.welcomed = TRUE, !.providers = {x}]
  BY <1>1, <1>2, <1>3, <1>4, <1>5
<1>8. QED
  BY <1>6, <1>7

LEMMA InvitedAs ==
    [Accounts!NoAccount EXCEPT !.status = "stored", !.password = TRUE,
                             !.hasPassword = TRUE, !.boarded = TRUE] =
           [status |-> "stored", password |-> TRUE, hasPassword |-> TRUE, providers |-> {},
            version |-> 0, accepted |-> FALSE, verified |-> FALSE, boarded |-> TRUE,
            pin |-> FALSE, welcomed |-> FALSE, connected |-> {}]
<1>1. PICK a1 : a1 = [Accounts!NoAccount EXCEPT !.status = "stored"]
  OBVIOUS
<1>2. PICK a2 : a2 = [a1 EXCEPT !.password = TRUE]
  OBVIOUS
<1>3. PICK a3 : a3 = [a2 EXCEPT !.hasPassword = TRUE]
  OBVIOUS
<1>4. PICK a4 : a4 = [a3 EXCEPT !.boarded = TRUE]
  OBVIOUS
<1>5. a4 = [status |-> "stored", password |-> TRUE, hasPassword |-> TRUE, providers |-> {},
 version |-> 0, accepted |-> FALSE, verified |-> FALSE, boarded |-> TRUE, pin |-> FALSE,
 welcomed |-> FALSE, connected |-> {}]
  <2>1. a1 = [status |-> "stored", password |-> FALSE, hasPassword |-> FALSE, providers |-> {},
   version |-> 0, accepted |-> FALSE, verified |-> FALSE, boarded |-> FALSE, pin |-> FALSE,
   welcomed |-> FALSE, connected |-> {}]
    BY <1>1 DEF Accounts!NoAccount
  <2>2. a2 = [status |-> "stored", password |-> TRUE, hasPassword |-> FALSE, providers |-> {},
   version |-> 0, accepted |-> FALSE, verified |-> FALSE, boarded |-> FALSE, pin |-> FALSE,
   welcomed |-> FALSE, connected |-> {}]
    BY <1>2, <2>1
  <2>3. a3 = [status |-> "stored", password |-> TRUE, hasPassword |-> TRUE, providers |-> {},
   version |-> 0, accepted |-> FALSE, verified |-> FALSE, boarded |-> FALSE, pin |-> FALSE,
   welcomed |-> FALSE, connected |-> {}]
    BY <1>3, <2>2
  <2>4. QED
    BY <1>4, <2>3
<1>6. a4 = [Accounts!NoAccount EXCEPT !.status = "stored", !.password = TRUE,
                             !.hasPassword = TRUE, !.boarded = TRUE]
  BY <1>1, <1>2, <1>3, <1>4
<1>7. QED
  BY <1>5, <1>6

\* The start of a registration and of a login with a provider, and the look at
\* the whitelist.
LEMMA AdmissionFine ==
    ASSUME AccountsInv, NEW p \in Procs, NEW u \in Users,
           \/ Accounts!RequestRegister(p, u)
           \/ \E x \in Providers : Accounts!OauthLogin(p, u, x)
           \/ Accounts!Admit(p)
    PROVE  AccountsInv'
<1>1. /\ handlers \in [Procs -> Accounts!Handler] /\ accounts \in [Users -> Accounts!Account]
      /\ together \subseteq Users /\ proven \subseteq Users /\ granted \subseteq Users \X Services
      /\ u \in Users
  BY DEF AccountsInv, Accounts!AccountsTypeOK
<1>2. ASSUME NEW x \in Providers \union {None}, NEW step \in {"register_admit", "oauth_admit"},
             Accounts!Begin(p, u, x, step), proven' \subseteq Users, proven \subseteq proven',
             step = "oauth_admit" => x \in Providers /\ u \in proven'
      PROVE  AccountsInv'
  <2> DEFINE new == [step |-> step, user |-> u, provider |-> x, service |-> None,
                     copy |-> accounts[u], position |-> 0, welcome |-> Accounts!Admitted(u)]
  <2>3. handlers' = [handlers EXCEPT ![p] = new]
    BY <1>2 DEF Accounts!Begin
  <2>4. new \in Accounts!Handler
    <3>1. Accounts!Admitted(u) \in BOOLEAN
      BY DEF Accounts!Admitted
    <3>2. QED
      BY <1>1, <3>1 DEF Accounts!Handler, Accounts!Steps
  <2>5. UNCHANGED <<entries, accounts, together, intruders, granted>>
    BY <1>2 DEF Accounts!Begin
  <2>6. /\ new.step = step /\ new.user = u /\ new.provider = x /\ new.copy = accounts[u]
        /\ new.welcome = Accounts!Admitted(u)
    OBVIOUS
  <2> HIDE DEF new
  <2>7. new.copy.status = "stored" => CopyFine(new, AccountOf(new))
    BY <1>1, <2>6 DEF CopyFine, AccountOf, Accounts!Account
  <2>8. HandlerFine(new, AccountOf(new), AdmittedOf(new), proven', granted')
    BY <1>2, <2>4, <2>6, <2>7 DEF HandlerFine, AdmittedOf, OauthSteps, AdmittedSteps, ProvenSteps
  <2>9. QED
    BY <1>1, <1>2, <2>3, <2>5, <2>8, HandlerMoves
<1>3. CASE Accounts!RequestRegister(p, u)
  BY <1>1, <1>2, <1>3 DEF Accounts!RequestRegister
<1>4. CASE \E x \in Providers : Accounts!OauthLogin(p, u, x)
  BY <1>1, <1>2, <1>4 DEF Accounts!OauthLogin
<1>5. CASE Accounts!Admit(p)
  <2>1. UNCHANGED <<entries, accounts, together, intruders, proven, granted>>
    BY <1>5 DEF Accounts!Admit, Accounts!KeepRest, Accounts!historyVars
  <2>2. PICK h : h = handlers[p]
    OBVIOUS
  <2>3. h.step \in {"register_admit", "oauth_admit"}
    BY <1>5, <2>2 DEF Accounts!Admit, Accounts!At
  <2>4. HandlerFine(h, AccountOf(h), AdmittedOf(h), proven, granted)
    BY <2>2 DEF AccountsInv, HandlersFine
  <2>5. CASE ~ Accounts!Admitted(h.user)
    <3>1. Accounts!Done(p)
      BY <1>5, <2>2, <2>5 DEF Accounts!Admit
    <3>2. QED
      BY <1>1, <2>1, <3>1, DoneFine
  <2>6. CASE Accounts!Admitted(h.user)
    <3> DEFINE step == Accounts!AfterAdmission(h)
               new == Stepped(h, step)
    <3>1. /\ step \in {"register_create", "oauth_link", "oauth_create"}
          /\ step = "register_create" => h.step = "register_admit"
          /\ step # "register_create" => h.step = "oauth_admit"
          /\ step = "oauth_link" => h.copy.status = "stored"
      BY <2>3 DEF Accounts!AfterAdmission
    <3>2. Accounts!Go(p, step)
      BY <1>5, <2>2, <2>6 DEF Accounts!Admit
    <3> HIDE DEF step
    <3>3. step \in Accounts!Steps
      BY <3>1 DEF Accounts!Steps
    <3>4. new \in Accounts!Handler /\ handlers' = [handlers EXCEPT ![p] = new]
      BY <2>2, <3>2, <3>3, GoesTo
    <3>5. /\ new.step = step /\ new.user = h.user /\ new.provider = h.provider
          /\ new.service = h.service /\ new.copy = h.copy /\ new.welcome = h.welcome
      BY DEF Stepped
    <3> HIDE DEF new
    <3>6. h.welcome /\ h.user \in Users
      BY <2>3, <2>4, <2>6 DEF HandlerFine, AdmittedOf
    <3>7. AccountOf(new) = AccountOf(h)
      BY <3>5 DEF AccountOf
    <3>8. step = "oauth_link" => CopyFine(new, AccountOf(h))
      BY <2>4, <3>1, <3>5 DEF HandlerFine, CopyFine
    <3>9. HandlerFine(new, AccountOf(new), AdmittedOf(new), proven, granted)
      BY <2>3, <2>4, <3>1, <3>4, <3>5, <3>6, <3>7, <3>8
         DEF HandlerFine, OauthSteps, AdmittedSteps, ProvenSteps
    <3>10. QED
      BY <1>1, <2>1, <3>4, <3>9, HandlerMoves
  <2>7. QED
    BY <2>5, <2>6
<1>6. QED
  BY <1>3, <1>4, <1>5

\* A new account: who makes it is admitted.
LEMMA CreateFine ==
    ASSUME AccountsInv, NEW p \in Procs, NEW h, h = handlers[p], h.step # "idle", h.welcome,
           NEW doc, doc.status = "stored", AccountFine(h.user, doc, proven, granted),
           NEW step \in Accounts!Steps, Accounts!Create(p, doc, step),
           step # "idle" => HandlerFine(Stepped(h, step), doc, AdmittedOf(Stepped(h, step)),
                                        proven, granted)
    PROVE  AccountsInv'
<1>1. /\ UNCHANGED <<entries, together, proven, granted>>
      /\ together \subseteq Users /\ proven \subseteq Users /\ granted \subseteq Users \X Services
      /\ intruders = {} /\ accounts \in [Users -> Accounts!Account]
  BY DEF Accounts!Create, AccountsInv, Accounts!AccountsTypeOK
<1>2. h.user \in Users
  BY DEF AccountsInv, HandlersFine, HandlerFine
<1>3. CASE accounts[h.user].status = "none"
  <2>1. accounts' = [accounts EXCEPT ![h.user] = doc] /\ intruders' = {}
    BY <1>1, <1>3 DEF Accounts!Create, Accounts!LetIn
  <2>2. Grows(accounts[h.user], doc)
    BY <1>3 DEF Grows, AccountFine
  <2>3. CASE step = "idle"
    <3>1. handlers' = [handlers EXCEPT ![p] = Accounts!Rest]
      BY <1>3, <2>3 DEF Accounts!Create, Accounts!Done
    <3>2. Accounts!Rest \in Accounts!Handler
      BY RestFine DEF HandlerFine
    <3>3. QED
      BY <1>1, <1>2, <2>1, <2>2, <3>1, <3>2, AccountMoves
  <2>4. CASE step # "idle"
    <3>1. Accounts!Go(p, step)
      BY <1>3, <2>4 DEF Accounts!Create
    <3>2. /\ Stepped(h, step) \in Accounts!Handler
          /\ handlers' = [handlers EXCEPT ![p] = Stepped(h, step)]
      BY <3>1, GoesTo
    <3>3. Stepped(h, step).user = h.user
      BY DEF Stepped
    <3>4. QED
      BY <1>1, <1>2, <2>1, <2>2, <2>4, <3>2, <3>3, AccountMoves
  <2>5. QED
    BY <2>3, <2>4
<1>4. CASE accounts[h.user].status # "none"
  <2>1. Accounts!Done(p) /\ UNCHANGED <<accounts, intruders>>
    BY <1>4 DEF Accounts!Create
  <2>2. QED
    BY <1>1, <2>1, DoneFine
<1>5. QED
  BY <1>3, <1>4

LEMMA RegistrationFine ==
    ASSUME AccountsInv, NEW p \in Procs, Accounts!RegisterCreate(p) \/ Accounts!OauthCreate(p)
    PROVE  AccountsInv'
<1>1. PICK h : h = handlers[p]
  OBVIOUS
<1>2. /\ h.step \in {"register_create", "oauth_create"}
      /\ HandlerFine(h, AccountOf(h), AdmittedOf(h), proven, granted)
  BY <1>1 DEF AccountsInv, HandlersFine, Accounts!RegisterCreate, Accounts!OauthCreate, Accounts!At
<1>3. h.welcome /\ h.user \in Users
  BY <1>2 DEF HandlerFine, AdmittedSteps
<1>4. CASE Accounts!RegisterCreate(p)
  <2> DEFINE doc == [Accounts!NoAccount EXCEPT !.status = "stored", !.password = TRUE,
                                              !.hasPassword = TRUE, !.pin = TRUE]
  <2>1. doc = [status |-> "stored", password |-> TRUE, hasPassword |-> TRUE, providers |-> {},
               version |-> 0, accepted |-> FALSE, verified |-> FALSE, boarded |-> FALSE,
               pin |-> TRUE, welcomed |-> FALSE, connected |-> {}]
    BY RegistersAs
  <2>2. Accounts!Create(p, doc, "idle") /\ "idle" \in Accounts!Steps
    BY <1>4 DEF Accounts!RegisterCreate, Accounts!Steps
  <2> HIDE DEF doc
  <2>3. doc.status = "stored" /\ AccountFine(h.user, doc, proven, granted)
    BY <2>1 DEF AccountFine, Accounts!Account
  <2>4. QED
    BY <1>1, <1>2, <1>3, <2>2, <2>3, CreateFine
<1>5. CASE Accounts!OauthCreate(p)
  <2> DEFINE doc == [Accounts!NoAccount EXCEPT !.status = "stored", !.verified = TRUE,
                                              !.accepted = TRUE, !.welcomed = TRUE,
                                              !.providers = {h.provider}]
             step == "oauth_callback"
             new == Stepped(h, step)
  <2>1. doc = [status |-> "stored", password |-> FALSE, hasPassword |-> FALSE,
               providers |-> {h.provider}, version |-> 0, accepted |-> TRUE, verified |-> TRUE,
               boarded |-> FALSE, pin |-> FALSE, welcomed |-> TRUE, connected |-> {}]
    BY SignsUpAs
  <2>2. Accounts!Create(p, doc, step) /\ step \in Accounts!Steps
    BY <1>1, <1>5 DEF Accounts!OauthCreate, Accounts!Steps
  <2> HIDE DEF doc
  <2>3. h.step = "oauth_create"
    BY <1>1, <1>5 DEF Accounts!OauthCreate, Accounts!At
  <2>4. h.user \in proven /\ h.provider \in Providers
    BY <1>2, <2>3 DEF HandlerFine, ProvenSteps, OauthSteps
  <2>5. doc.status = "stored" /\ AccountFine(h.user, doc, proven, granted)
    BY <2>1, <2>4 DEF AccountFine, Accounts!Account
  <2>6. /\ new.step = "oauth_callback" /\ new.user = h.user /\ new.provider = h.provider
        /\ new.welcome = h.welcome
    BY DEF Stepped
  <2>7. new \in Accounts!Handler
    BY <1>2 DEF HandlerFine, Accounts!Handler, Accounts!Steps, Stepped
  <2> HIDE DEF new
  <2>8. HandlerFine(new, doc, AdmittedOf(new), proven, granted)
    BY <1>3, <2>4, <2>6, <2>7 DEF HandlerFine, OauthSteps, AdmittedSteps, ProvenSteps
  <2>9. QED
    BY <1>1, <1>2, <1>3, <2>2, <2>5, <2>8, CreateFine DEF new
<1>6. QED
  BY <1>4, <1>5

\* The handlers that begin with a query for the account.
LEMMA StartFine ==
    ASSUME AccountsInv, NEW p \in Procs, NEW u \in Users,
           \/ Accounts!ConfirmRegister(p, u) \/ Accounts!ChangePassword(p, u)
           \/ Accounts!ResetPassword(p, u)
           \/ \E x \in Providers : Accounts!UnlinkOAuthProvider(p, u, x)
           \/ \E s \in Services : Accounts!Initiate(p, u, s)
    PROVE  AccountsInv'
<1>1. PICK h : h = handlers[p]
  OBVIOUS
<1>2. /\ handlers \in [Procs -> Accounts!Handler] /\ h \in Accounts!Handler
      /\ together \subseteq Users /\ proven \subseteq Users /\ granted \subseteq Users \X Services
      /\ accounts \in [Users -> Accounts!Account]
  BY <1>1 DEF AccountsInv, Accounts!AccountsTypeOK
<1>3. h = [step |-> h.step, user |-> h.user, provider |-> h.provider, service |-> h.service,
           copy |-> h.copy, position |-> h.position, welcome |-> h.welcome]
  BY <1>2, HandlerParts
<1>4. CASE Accounts!ConfirmRegister(p, u)
  <2> DEFINE new == [step |-> "confirm_accept", user |-> u, provider |-> h.provider,
                     service |-> h.service, copy |-> h.copy, position |-> h.position,
                     welcome |-> h.welcome]
  <2>1. new \in Accounts!Handler
    BY <1>2 DEF Accounts!Handler, Accounts!Steps
  <2>2. handlers' = [handlers EXCEPT ![p] = new]
    <3>1. handlers' = [handlers EXCEPT ![p].step = "confirm_accept", ![p].user = u]
      BY <1>4 DEF Accounts!ConfirmRegister
    <3>2. handlers'[p] = new
      BY <1>1, <1>2, <1>3, <3>1
    <3> HIDE DEF new
    <3>3. QED
      BY <1>2, <3>1, <3>2
  <2>3. new.step = "confirm_accept" /\ new.user = u
    OBVIOUS
  <2>4. UNCHANGED <<entries, accounts, together, intruders, granted>> /\ proven' = proven \union {u}
    BY <1>4 DEF Accounts!ConfirmRegister
  <2> HIDE DEF new
  <2>5. HandlerFine(new, AccountOf(new), AdmittedOf(new), proven', granted')
    BY <2>1, <2>3, <2>4 DEF HandlerFine, OauthSteps, AdmittedSteps, ProvenSteps
  <2>6. QED
    BY <1>2, <2>2, <2>4, <2>5, HandlerMoves
<1>5. CASE Accounts!ResetPassword(p, u)
  <2> DEFINE new == [step |-> "reset_save", user |-> u, provider |-> h.provider,
                     service |-> h.service, copy |-> h.copy, position |-> h.position,
                     welcome |-> h.welcome]
  <2>1. new \in Accounts!Handler
    BY <1>2 DEF Accounts!Handler, Accounts!Steps
  <2>2. handlers' = [handlers EXCEPT ![p] = new]
    <3>1. handlers' = [handlers EXCEPT ![p].step = "reset_save", ![p].user = u]
      BY <1>5 DEF Accounts!ResetPassword
    <3>2. handlers'[p] = new
      BY <1>1, <1>2, <1>3, <3>1
    <3> HIDE DEF new
    <3>3. QED
      BY <1>2, <3>1, <3>2
  <2>3. new.step = "reset_save" /\ new.user = u
    OBVIOUS
  <2>4. UNCHANGED <<entries, accounts, together, intruders, granted>> /\ proven' = proven \union {u}
    BY <1>5 DEF Accounts!ResetPassword
  <2> HIDE DEF new
  <2>5. HandlerFine(new, AccountOf(new), AdmittedOf(new), proven', granted')
    BY <2>1, <2>3, <2>4 DEF HandlerFine, OauthSteps, AdmittedSteps, ProvenSteps
  <2>6. QED
    BY <1>2, <2>2, <2>4, <2>5, HandlerMoves
<1>6. CASE Accounts!ChangePassword(p, u)
  <2> DEFINE new == [step |-> "change_save", user |-> u, provider |-> h.provider,
                     service |-> h.service, copy |-> accounts[u], position |-> h.position,
                     welcome |-> h.welcome]
  <2>1. new \in Accounts!Handler
    BY <1>2 DEF Accounts!Handler, Accounts!Steps
  <2>2. handlers' = [handlers EXCEPT ![p] = new]
    <3>1. handlers' = [handlers EXCEPT ![p].step = "change_save", ![p].user = u,
                                             ![p].copy = accounts[u]]
      BY <1>6 DEF Accounts!ChangePassword, Accounts!Find
    <3>2. handlers'[p] = new
      BY <1>1, <1>2, <1>3, <3>1
    <3> HIDE DEF new
    <3>3. QED
      BY <1>2, <3>1, <3>2
  <2>3. new.step = "change_save" /\ new.user = u
    OBVIOUS
  <2>4. UNCHANGED <<entries, accounts, together, intruders, proven, granted>>
    BY <1>6 DEF Accounts!ChangePassword, Accounts!Find, Accounts!KeepRest, Accounts!historyVars
  <2> HIDE DEF new
  <2>5. HandlerFine(new, AccountOf(new), AdmittedOf(new), proven', granted')
    BY <2>1, <2>3, <2>4 DEF HandlerFine, OauthSteps, AdmittedSteps, ProvenSteps
  <2>6. QED
    BY <1>2, <2>2, <2>4, <2>5, HandlerMoves
<1>7. ASSUME NEW x \in Providers, Accounts!UnlinkOAuthProvider(p, u, x)
      PROVE  AccountsInv'
  <2> DEFINE new == [step |-> "unlink_save", user |-> u, provider |-> x,
                     service |-> h.service, copy |-> accounts[u], position |-> h.position,
                     welcome |-> h.welcome]
  <2>1. new \in Accounts!Handler
    BY <1>2, <1>7 DEF Accounts!Handler, Accounts!Steps
  <2>2. handlers' = [handlers EXCEPT ![p] = new]
    <3>1. handlers' = [handlers EXCEPT ![p].step = "unlink_save", ![p].user = u,
                                             ![p].provider = x, ![p].copy = accounts[u]]
      BY <1>7 DEF Accounts!UnlinkOAuthProvider
    <3>2. handlers'[p] = new
      BY <1>1, <1>2, <1>3, <3>1
    <3> HIDE DEF new
    <3>3. QED
      BY <1>2, <3>1, <3>2
  <2>3. new.step = "unlink_save" /\ new.user = u /\ new.provider = x
        /\ new.copy = accounts[u]
    OBVIOUS
  <2>4. UNCHANGED <<entries, accounts, together, intruders, proven, granted>>
    BY <1>7 DEF Accounts!UnlinkOAuthProvider, Accounts!KeepRest, Accounts!historyVars
  <2> HIDE DEF new
  <2>5. HandlerFine(new, AccountOf(new), AdmittedOf(new), proven', granted')
    <3>1. /\ accounts[u].status = "stored"
          /\ accounts[u].hasPassword \/ accounts[u].providers \ {x} # {}
      BY <1>7 DEF Accounts!UnlinkOAuthProvider, Accounts!Stored
    <3>2. CopyFine(new, AccountOf(new))
      BY <1>2, <2>3, <3>1 DEF CopyFine, AccountOf, Accounts!Account
    <3>3. QED
      BY <2>1, <2>3, <2>4, <3>1, <3>2 DEF HandlerFine, OauthSteps, AdmittedSteps, ProvenSteps
  <2>6. QED
    BY <1>2, <2>2, <2>4, <2>5, HandlerMoves
<1>8. ASSUME NEW s \in Services, Accounts!Initiate(p, u, s)
      PROVE  AccountsInv'
  <2> DEFINE new == [step |-> "exchange", user |-> u, provider |-> h.provider,
                     service |-> s, copy |-> h.copy, position |-> h.position,
                     welcome |-> h.welcome]
  <2>1. new \in Accounts!Handler
    BY <1>2, <1>8 DEF Accounts!Handler, Accounts!Steps
  <2>2. handlers' = [handlers EXCEPT ![p] = new]
    <3>1. handlers' = [handlers EXCEPT ![p].step = "exchange", ![p].user = u,
                                             ![p].service = s]
      BY <1>8 DEF Accounts!Initiate
    <3>2. handlers'[p] = new
      BY <1>1, <1>2, <1>3, <3>1
    <3> HIDE DEF new
    <3>3. QED
      BY <1>2, <3>1, <3>2
  <2>3. new.step = "exchange" /\ new.user = u /\ new.service = s
    OBVIOUS
  <2>4. UNCHANGED <<entries, accounts, together, intruders, proven, granted>>
    BY <1>8 DEF Accounts!Initiate, Accounts!KeepRest, Accounts!historyVars
  <2> HIDE DEF new
  <2>5. HandlerFine(new, AccountOf(new), AdmittedOf(new), proven', granted')
    BY <2>1, <2>3, <2>4 DEF HandlerFine, OauthSteps, AdmittedSteps, ProvenSteps
  <2>6. QED
    BY <1>2, <2>2, <2>4, <2>5, HandlerMoves
<1>9. QED
  BY <1>4, <1>5, <1>6, <1>7, <1>8

\* The saves of an account.
LEMMA SaveFine ==
    ASSUME AccountsInv, NEW p \in Procs,
           \/ Accounts!ConfirmAccept(p) \/ Accounts!ConfirmDeletePins(p)
           \/ Accounts!ConfirmWelcome(p) \/ Accounts!SetPassword(p)
           \/ Accounts!ResetAccept(p) \/ Accounts!Connect(p)
    PROVE  AccountsInv'
<1>1. PICK h : h = handlers[p]
  OBVIOUS
<1>2. PICK a : a = accounts[h.user]
  OBVIOUS
<1>3. /\ h.step \in {"confirm_accept", "confirm_delete_pins", "confirm_welcome", "change_save",
                     "reset_save", "reset_accept", "connect"}
      /\ HandlerFine(h, AccountOf(h), AdmittedOf(h), proven, granted)
      /\ accounts \in [Users -> Accounts!Account]
  BY <1>1 DEF AccountsInv, HandlersFine, Accounts!ConfirmAccept, Accounts!ConfirmDeletePins,
              Accounts!ConfirmWelcome, Accounts!SetPassword, Accounts!ResetAccept,
              Accounts!Connect, Accounts!At, Accounts!AccountsTypeOK
<1>4. h.user \in Users /\ h \in Accounts!Handler
  BY <1>3 DEF HandlerFine
<1>5. AccountOf(h) = a /\ a \in Accounts!Account /\ AccountFine(h.user, a, proven, granted)
  BY <1>2, <1>3, <1>4 DEF AccountOf, AccountsInv
<1>6. \A step \in Accounts!Steps :
         /\ Stepped(h, step) \in Accounts!Handler /\ Stepped(h, step).step = step
         /\ Stepped(h, step).user = h.user /\ Stepped(h, step).service = h.service
  BY <1>4 DEF Accounts!Handler, Stepped
<1>7. /\ {"idle", "confirm_delete_pins", "confirm_welcome", "reset_accept"} \subseteq Accounts!Steps
  BY DEF Accounts!Steps
<1>8. CASE Accounts!ConfirmAccept(p)
  <2> DEFINE doc == [a EXCEPT !.accepted = TRUE]
  <2>1. Accounts!Write(p, doc, "confirm_delete_pins") /\ h.step = "confirm_accept"
    BY <1>1, <1>2, <1>8 DEF Accounts!ConfirmAccept, Accounts!At
  <2>2. h.user \in proven
    BY <1>3, <2>1 DEF HandlerFine, ProvenSteps
  <2>3. Grows(a, doc)
    <3>1. /\ doc \in Accounts!Account /\ doc.status = a.status /\ doc.password = a.password
          /\ doc.hasPassword = a.hasPassword /\ doc.providers = a.providers
          /\ doc.version = a.version /\ doc.accepted = TRUE /\ doc.verified = a.verified
          /\ doc.pin = a.pin /\ doc.welcomed = a.welcomed /\ doc.connected = a.connected
      BY <1>5 DEF Accounts!Account
    <3> HIDE DEF doc
    <3>2. QED
      BY <1>5, <3>1 DEF Grows, Accounts!Account
  <2>4. AccountFine(h.user, doc, proven, granted)
    BY <1>5, <2>2 DEF AccountFine, Accounts!Account
  <2>5. doc.accepted /\ doc.status = a.status
    BY <1>5 DEF Accounts!Account
  <2> HIDE DEF doc
  <2> DEFINE new == Stepped(h, "confirm_delete_pins")
  <2>6. a.status = "stored" => HandlerFine(new, doc, AdmittedOf(new), proven, granted)
    <3>1. /\ new \in Accounts!Handler /\ new.step = "confirm_delete_pins" /\ new.user = h.user
      BY <1>6, <1>7
    <3> HIDE DEF new
    <3>2. QED
      BY <1>4, <2>2, <2>5, <3>1 DEF HandlerFine, OauthSteps, AdmittedSteps, ProvenSteps
  <2>7. QED
    BY <1>1, <1>2, <1>7, <2>1, <2>3, <2>4, <2>6, WriteFine
<1>9. CASE Accounts!ConfirmDeletePins(p)
  <2> DEFINE doc == [a EXCEPT !.pin = FALSE]
  <2>1. Accounts!Write(p, doc, "confirm_welcome") /\ h.step = "confirm_delete_pins"
    BY <1>1, <1>2, <1>9 DEF Accounts!ConfirmDeletePins, Accounts!At
  <2>2. h.user \in proven /\ (a.status = "stored" => a.accepted)
    BY <1>3, <1>5, <2>1 DEF HandlerFine, ProvenSteps
  <2>3. Grows(a, doc)
    <3>1. /\ doc \in Accounts!Account /\ doc.status = a.status /\ doc.password = a.password
          /\ doc.hasPassword = a.hasPassword /\ doc.providers = a.providers
          /\ doc.version = a.version /\ doc.accepted = a.accepted /\ doc.verified = a.verified
          /\ doc.pin = FALSE /\ doc.welcomed = a.welcomed /\ doc.connected = a.connected
      BY <1>5 DEF Accounts!Account
    <3> HIDE DEF doc
    <3>2. QED
      BY <1>5, <3>1 DEF Grows, Accounts!Account
  <2>4. AccountFine(h.user, doc, proven, granted)
    BY <1>5, <2>2 DEF AccountFine, Accounts!Account
  <2>5. doc.accepted = a.accepted /\ doc.status = a.status /\ ~ doc.pin
    BY <1>5 DEF Accounts!Account
  <2> HIDE DEF doc
  <2> DEFINE new == Stepped(h, "confirm_welcome")
  <2>6. a.status = "stored" => HandlerFine(new, doc, AdmittedOf(new), proven, granted)
    <3>1. /\ new \in Accounts!Handler /\ new.step = "confirm_welcome" /\ new.user = h.user
      BY <1>6, <1>7
    <3> HIDE DEF new
    <3>2. QED
      BY <1>4, <2>2, <2>5, <3>1 DEF HandlerFine, OauthSteps, AdmittedSteps, ProvenSteps
  <2>7. QED
    BY <1>1, <1>2, <1>7, <2>1, <2>3, <2>4, <2>6, WriteFine
<1>10. CASE Accounts!ConfirmWelcome(p)
  <2> DEFINE doc == [a EXCEPT !.welcomed = TRUE]
  <2>1. Accounts!Write(p, doc, "idle") /\ h.step = "confirm_welcome"
    BY <1>1, <1>2, <1>10 DEF Accounts!ConfirmWelcome, Accounts!At
  <2>2. a.status = "stored" => a.accepted /\ ~ a.pin
    BY <1>3, <1>5, <2>1 DEF HandlerFine
  <2>3. Grows(a, doc)
    <3>1. /\ doc \in Accounts!Account /\ doc.status = a.status /\ doc.password = a.password
          /\ doc.hasPassword = a.hasPassword /\ doc.providers = a.providers
          /\ doc.version = a.version /\ doc.accepted = a.accepted /\ doc.verified = a.verified
          /\ doc.pin = a.pin /\ doc.welcomed = TRUE /\ doc.connected = a.connected
      BY <1>5 DEF Accounts!Account
    <3> HIDE DEF doc
    <3>2. QED
      BY <1>5, <3>1 DEF Grows, Accounts!Account
  <2>4. a.status = "stored" => AccountFine(h.user, doc, proven, granted)
    BY <1>5, <2>2 DEF AccountFine, Accounts!Account
  <2> HIDE DEF doc
  <2>5. QED
    BY <1>1, <1>2, <1>7, <2>1, <2>3, <2>4, WriteFine
<1>11. CASE Accounts!ResetAccept(p)
  <2> DEFINE doc == [a EXCEPT !.accepted = TRUE]
  <2>1. Accounts!Write(p, doc, "idle") /\ h.step = "reset_accept"
    BY <1>1, <1>2, <1>11 DEF Accounts!ResetAccept, Accounts!At
  <2>2. h.user \in proven
    BY <1>3, <2>1 DEF HandlerFine, ProvenSteps
  <2>3. Grows(a, doc)
    <3>1. /\ doc \in Accounts!Account /\ doc.status = a.status /\ doc.password = a.password
          /\ doc.hasPassword = a.hasPassword /\ doc.providers = a.providers
          /\ doc.version = a.version /\ doc.accepted = TRUE /\ doc.verified = a.verified
          /\ doc.pin = a.pin /\ doc.welcomed = a.welcomed /\ doc.connected = a.connected
      BY <1>5 DEF Accounts!Account
    <3> HIDE DEF doc
    <3>2. QED
      BY <1>5, <3>1 DEF Grows, Accounts!Account
  <2>4. AccountFine(h.user, doc, proven, granted)
    BY <1>5, <2>2 DEF AccountFine, Accounts!Account
  <2> HIDE DEF doc
  <2>5. QED
    BY <1>1, <1>2, <1>7, <2>1, <2>3, <2>4, WriteFine
<1>12. CASE Accounts!Connect(p)
  <2> DEFINE doc == [a EXCEPT !.connected = a.connected \union {h.service}]
  <2>1. Accounts!Write(p, doc, "idle") /\ h.step = "connect"
    BY <1>1, <1>2, <1>12 DEF Accounts!Connect, Accounts!At
  <2>2. h.service \in Services /\ <<h.user, h.service>> \in granted
    BY <1>3, <2>1 DEF HandlerFine
  <2>3. Grows(a, doc)
    BY <1>5, <2>2 DEF Grows, Accounts!Account
  <2>4. AccountFine(h.user, doc, proven, granted)
    BY <1>5, <2>2 DEF AccountFine, Accounts!Account
  <2> HIDE DEF doc
  <2>5. QED
    BY <1>1, <1>2, <1>7, <2>1, <2>3, <2>4, WriteFine
<1>13. CASE Accounts!SetPassword(p)
  <2>1. PICK b : b = [a EXCEPT !.password = TRUE]
    OBVIOUS
  <2> DEFINE doc == [b EXCEPT !.hasPassword = TRUE]
  <2>2. doc = [a EXCEPT !.password = TRUE, !.hasPassword = TRUE]
    BY <2>1
  <2>3. \/ h.step = "change_save" /\ Accounts!Write(p, doc, "idle")
        \/ h.step = "reset_save" /\ Accounts!Write(p, doc, "reset_accept")
    BY <1>1, <1>2, <1>13, <2>2 DEF Accounts!SetPassword, Accounts!At
  <2>4. b \in Accounts!Account /\ b = [a EXCEPT !.password = TRUE]
    BY <1>5, <2>1 DEF Accounts!Account
  <2>5. /\ doc \in Accounts!Account /\ doc.status = a.status /\ doc.password = TRUE
        /\ doc.hasPassword = TRUE /\ doc.providers = a.providers /\ doc.version = a.version
        /\ doc.accepted = a.accepted /\ doc.verified = a.verified /\ doc.pin = a.pin
        /\ doc.welcomed = a.welcomed /\ doc.connected = a.connected
    BY <1>5, <2>4 DEF Accounts!Account
  <2> HIDE DEF doc
  <2>6. Grows(a, doc)
    BY <1>5, <2>5 DEF Grows, Accounts!Account
  <2>7. AccountFine(h.user, doc, proven, granted)
    BY <1>5, <2>5 DEF AccountFine
  <2>8. CASE h.step = "change_save"
    BY <1>1, <1>2, <1>7, <2>3, <2>6, <2>7, <2>8, WriteFine
  <2>9. CASE h.step = "reset_save"
    <3>1. h.user \in proven
      BY <1>3, <2>9 DEF HandlerFine, ProvenSteps
    <3> DEFINE new == Stepped(h, "reset_accept")
    <3>2. HandlerFine(new, doc, AdmittedOf(new), proven, granted)
      <4>1. new \in Accounts!Handler /\ new.step = "reset_accept" /\ new.user = h.user
        BY <1>6, <1>7
      <4> HIDE DEF new
      <4>2. QED
        BY <1>4, <3>1, <4>1 DEF HandlerFine, OauthSteps, AdmittedSteps, ProvenSteps
    <3>3. QED
      BY <1>1, <1>2, <1>7, <2>3, <2>6, <2>7, <2>9, <3>2, WriteFine
  <2>10. QED
    BY <2>3, <2>8, <2>9
<1>14. QED
  BY <1>8, <1>9, <1>10, <1>11, <1>12, <1>13

\* A save of the providers that were computed from the copy.
LEMMA ProvidersFine ==
    ASSUME AccountsInv, NEW p \in Procs, Accounts!OauthLink(p) \/ Accounts!UnlinkSave(p)
    PROVE  AccountsInv'
<1>1. PICK h : h = handlers[p]
  OBVIOUS
<1>2. PICK a : a = accounts[h.user]
  OBVIOUS
<1>3. /\ h.step \in {"oauth_link", "unlink_save"}
      /\ HandlerFine(h, AccountOf(h), AdmittedOf(h), proven, granted)
      /\ accounts \in [Users -> Accounts!Account]
      /\ together \subseteq Users /\ proven \subseteq Users /\ granted \subseteq Users \X Services
  BY <1>1 DEF AccountsInv, HandlersFine, Accounts!OauthLink, Accounts!UnlinkSave, Accounts!At,
              Accounts!AccountsTypeOK
<1>4. h.user \in Users /\ h \in Accounts!Handler /\ h.copy \in Accounts!Account
  BY <1>3 DEF HandlerFine, Accounts!Handler
<1>5. AccountOf(h) = a /\ a \in Accounts!Account /\ AccountFine(h.user, a, proven, granted)
  BY <1>2, <1>3, <1>4 DEF AccountOf, AccountsInv
<1>6. CopyFine(h, a) /\ h.provider \in Providers
  BY <1>3, <1>5 DEF HandlerFine, OauthSteps
<1>7. {"idle", "oauth_callback"} \subseteq Accounts!Steps
  BY DEF Accounts!Steps
<1>8. CASE a.version # h.copy.version
  <2>1. Accounts!Done(p) /\ UNCHANGED <<entries, accounts, together, intruders, proven, granted>>
    BY <1>1, <1>2, <1>8 DEF Accounts!OauthLink, Accounts!UnlinkSave, Accounts!SaveProviders,
                           Accounts!KeepRest, Accounts!historyVars
  <2>2. QED
    BY <1>3, <2>1, DoneFine
<1>9. ASSUME a.version = h.copy.version, Accounts!OauthLink(p)
      PROVE  AccountsInv'
  <2> DEFINE linked == h.copy.providers \union {h.provider}
  <2>1. PICK b : b = [a EXCEPT !.providers = linked]
    OBVIOUS
  <2>2. PICK c : c = [b EXCEPT !.verified = TRUE]
    OBVIOUS
  <2> DEFINE doc == [c EXCEPT !.version = c.version + 1]
  <2>3. c = [a EXCEPT !.providers = linked, !.verified = TRUE]
    BY <2>1, <2>2
  <2>4. Accounts!Write(p, doc, "oauth_callback") /\ h.step = "oauth_link"
    BY <1>1, <1>2, <1>9, <2>3 DEF Accounts!OauthLink, Accounts!SaveProviders, Accounts!At
  <2>5. /\ b \in Accounts!Account /\ b.status = a.status /\ b.password = a.password
        /\ b.hasPassword = a.hasPassword /\ b.version = a.version /\ b.accepted = a.accepted
        /\ b.providers = linked /\ b.pin = a.pin
        /\ b.welcomed = a.welcomed /\ b.connected = a.connected
    BY <1>4, <1>5, <1>6, <2>1 DEF Accounts!Account
  <2>6. /\ c \in Accounts!Account /\ c.status = a.status /\ c.password = a.password
        /\ c.hasPassword = a.hasPassword /\ c.version = a.version /\ c.accepted = a.accepted
        /\ c.providers = linked /\ c.pin = a.pin
        /\ c.welcomed = a.welcomed /\ c.connected = a.connected
    BY <2>2, <2>5 DEF Accounts!Account
  <2>7. /\ doc \in Accounts!Account /\ doc.status = a.status /\ doc.password = a.password
        /\ doc.hasPassword = a.hasPassword /\ doc.version = a.version + 1
        /\ doc.accepted = a.accepted /\ doc.providers = linked
        /\ doc.pin = a.pin /\ doc.welcomed = a.welcomed /\ doc.connected = a.connected
    BY <1>5, <2>6 DEF Accounts!Account
  <2> HIDE DEF doc
  <2>8. Grows(a, doc)
    <3>1. a.version \in Nat
      BY <1>5 DEF Accounts!Account
    <3>2. QED
      BY <2>7, <3>1 DEF Grows
  <2>9. h.user \in proven
    BY <1>3, <2>4 DEF HandlerFine, ProvenSteps, OauthSteps
  <2>10. AccountFine(h.user, doc, proven, granted)
    BY <1>5, <2>7, <2>9 DEF AccountFine
  <2> DEFINE new == Stepped(h, "oauth_callback")
  <2>11. HandlerFine(new, doc, AdmittedOf(new), proven, granted)
    <3>1. /\ new \in Accounts!Handler /\ new.step = "oauth_callback" /\ new.user = h.user
          /\ new.provider = h.provider /\ new.welcome = h.welcome
      BY <1>4, <1>7 DEF Accounts!Handler, Stepped
    <3>2. h.welcome
      BY <1>3, <2>4 DEF HandlerFine, AdmittedSteps
    <3> HIDE DEF new
    <3>3. QED
      BY <1>4, <1>6, <2>9, <3>1, <3>2 DEF HandlerFine, OauthSteps, AdmittedSteps, ProvenSteps
  <2>12. h.step # "idle"
    BY <2>4
  <2>13. QED
    BY <1>1, <1>2, <1>7, <2>4, <2>8, <2>10, <2>11, <2>12, WriteFine
<1>10. ASSUME a.version = h.copy.version, Accounts!UnlinkSave(p)
       PROVE  AccountsInv'
  <2> DEFINE left == h.copy.providers \ {h.provider}
  <2>1. PICK b : b = [a EXCEPT !.providers = left]
    OBVIOUS
  <2> DEFINE doc == [b EXCEPT !.version = b.version + 1]
  <2>2. Accounts!Write(p, doc, "idle") /\ h.step = "unlink_save"
    BY <1>1, <1>2, <1>10, <2>1 DEF Accounts!UnlinkSave, Accounts!SaveProviders, Accounts!At
  <2>3. /\ b \in Accounts!Account /\ b.status = a.status /\ b.password = a.password
        /\ b.hasPassword = a.hasPassword /\ b.version = a.version /\ b.accepted = a.accepted
        /\ b.providers = left /\ b.verified = a.verified /\ b.pin = a.pin
        /\ b.welcomed = a.welcomed /\ b.connected = a.connected
    BY <1>4, <1>5, <1>6, <2>1 DEF Accounts!Account
  <2>4. /\ doc \in Accounts!Account /\ doc.status = a.status /\ doc.password = a.password
        /\ doc.hasPassword = a.hasPassword /\ doc.version = a.version + 1
        /\ doc.accepted = a.accepted /\ doc.providers = left /\ doc.verified = a.verified
        /\ doc.pin = a.pin /\ doc.welcomed = a.welcomed /\ doc.connected = a.connected
    BY <1>5, <2>3 DEF Accounts!Account
  <2> HIDE DEF doc
  <2>5. Grows(a, doc)
    <3>1. a.version \in Nat
      BY <1>5 DEF Accounts!Account
    <3>2. QED
      BY <2>4, <3>1 DEF Grows
  <2>6. a.status = "stored" => a.hasPassword \/ left # {}
    BY <1>3, <1>6, <2>2 DEF HandlerFine, CopyFine
  <2>7. AccountFine(h.user, doc, proven, granted)
    BY <1>5, <2>4, <2>6 DEF AccountFine
  <2>8. h.step # "idle"
    BY <2>2
  <2>9. QED
    BY <1>1, <1>2, <1>7, <2>2, <2>5, <2>7, <2>8, WriteFine
<1>11. QED
  BY <1>8, <1>9, <1>10

\* The end of a login with a provider, the callbacks of the services, a failure.
LEMMA CallbackFine ==
    ASSUME AccountsInv, NEW p \in Procs,
           \/ Accounts!OauthCallback(p) \/ Accounts!FigmaCallback(p)
           \/ Accounts!AtlassianCallback(p) \/ Accounts!Abort(p)
    PROVE  AccountsInv'
<1>1. PICK h : h = handlers[p]
  OBVIOUS
<1>2. /\ HandlerFine(h, AccountOf(h), AdmittedOf(h), proven, granted)
      /\ together \subseteq Users /\ proven \subseteq Users /\ granted \subseteq Users \X Services
      /\ intruders = {}
  BY <1>1 DEF AccountsInv, HandlersFine, Accounts!AccountsTypeOK
<1>3. CASE Accounts!OauthCallback(p)
  <2>1. h.welcome
    BY <1>1, <1>2, <1>3 DEF Accounts!OauthCallback, Accounts!At, HandlerFine, AdmittedSteps
  <2>2. /\ UNCHANGED <<entries, accounts, together, intruders, proven, granted>>
        /\ Accounts!Done(p)
    BY <1>1, <1>2, <1>3, <2>1 DEF Accounts!OauthCallback, Accounts!LetIn
  <2>3. QED
    BY <1>2, <2>2, DoneFine
<1>4. CASE Accounts!Abort(p)
  <2>1. /\ UNCHANGED <<entries, accounts, together, intruders, proven, granted>>
        /\ Accounts!Done(p)
    BY <1>4 DEF Accounts!Abort, Accounts!historyVars
  <2>2. QED
    BY <1>2, <2>1, DoneFine
<1>5. ASSUME NEW s, NEW granting \in BOOLEAN, Accounts!Callback(p, s, granting, granting)
      PROVE  AccountsInv'
  <2>1. h.step = "exchange" /\ h.service = s
    BY <1>1, <1>5 DEF Accounts!Callback, Accounts!At
  <2>2. h.user \in Users /\ s \in Services
    BY <1>2, <2>1 DEF HandlerFine
  <2>3. UNCHANGED <<entries, accounts, together, intruders, proven>>
    BY <1>5 DEF Accounts!Callback
  <2>4. CASE granting
    <3> DEFINE new == Stepped(h, "connect")
    <3>1. granted' = granted \union {<<h.user, s>>} /\ Accounts!Go(p, "connect")
      BY <1>1, <1>5, <2>4 DEF Accounts!Callback
    <3>2. "connect" \in Accounts!Steps
      BY DEF Accounts!Steps
    <3>3. new \in Accounts!Handler /\ handlers' = [handlers EXCEPT ![p] = new]
      BY <1>1, <3>1, <3>2, GoesTo
    <3>4. new.step = "connect" /\ new.user = h.user /\ new.service = s
      BY <2>1 DEF Stepped
    <3> HIDE DEF new
    <3>5. HandlerFine(new, AccountOf(new), AdmittedOf(new), proven, granted')
      BY <2>2, <3>1, <3>3, <3>4 DEF HandlerFine, OauthSteps, AdmittedSteps, ProvenSteps
    <3>6. granted' \subseteq Users \X Services
      BY <1>2, <2>2, <3>1
    <3>7. QED
      BY <1>2, <2>3, <3>1, <3>3, <3>5, <3>6, HandlerMoves
  <2>5. CASE ~ granting
    <3>1. granted' = granted /\ Accounts!Done(p)
      BY <1>5, <2>5 DEF Accounts!Callback
    <3>2. QED
      BY <1>2, <2>3, <3>1, DoneFine
  <2>6. QED
    BY <2>4, <2>5
<1>6. CASE Accounts!FigmaCallback(p)
  BY <1>5, <1>6 DEF Accounts!FigmaCallback
<1>7. CASE Accounts!AtlassianCallback(p)
  <2>1. PICK accepted \in BOOLEAN, site \in BOOLEAN :
           Accounts!Callback(p, "atlassian", accepted /\ site, accepted /\ site)
    BY <1>7 DEF Accounts!AtlassianCallback
  <2>2. PICK granting \in BOOLEAN : granting = (accepted /\ site)
    OBVIOUS
  <2>3. Accounts!Callback(p, "atlassian", granting, granting)
    BY <2>1, <2>2
  <2>4. QED
    BY <1>5, <2>3
<1>8. QED
  BY <1>3, <1>4, <1>6, <1>7

\* The steps that change an account without a handler.
LEMMA AdministrationFine ==
    ASSUME AccountsInv, NEW u \in Users,
           \/ Accounts!InviteUser(u) \/ Accounts!FixUserAcceptanceStatus(u)
           \/ Accounts!DeleteUser(u) \/ Accounts!InitiateClaude(u)
           \/ \E s \in Services : Accounts!Disconnect(u, s)
    PROVE  AccountsInv'
<1>1. PICK a : a = accounts[u]
  OBVIOUS
<1>2. /\ accounts \in [Users -> Accounts!Account] /\ a \in Accounts!Account
      /\ AccountFine(u, a, proven, granted) /\ intruders = {}
      /\ granted \subseteq Users \X Services
  BY <1>1 DEF AccountsInv, Accounts!AccountsTypeOK
<1>3. UNCHANGED <<entries, handlers, together, intruders, proven>> /\ granted \subseteq granted'
  BY DEF Accounts!InviteUser, Accounts!FixUserAcceptanceStatus, Accounts!DeleteUser,
         Accounts!InitiateClaude, Accounts!Disconnect, Accounts!historyVars
<1>4. CASE Accounts!InviteUser(u)
  <2> DEFINE doc == [Accounts!NoAccount EXCEPT !.status = "stored", !.password = TRUE,
                                              !.hasPassword = TRUE, !.boarded = TRUE]
  <2>1. doc = [status |-> "stored", password |-> TRUE, hasPassword |-> TRUE, providers |-> {},
               version |-> 0, accepted |-> FALSE, verified |-> FALSE, boarded |-> TRUE,
               pin |-> FALSE, welcomed |-> FALSE, connected |-> {}]
    BY InvitedAs
  <2>2. accounts' = [accounts EXCEPT ![u] = doc] /\ a.status = "none" /\ granted' = granted
    BY <1>1, <1>4 DEF Accounts!InviteUser, Accounts!historyVars
  <2> HIDE DEF doc
  <2>3. AccountFine(u, doc, proven, granted)
    BY <2>1 DEF AccountFine, Accounts!Account
  <2>4. Grows(a, doc)
    BY <2>1, <2>2, <2>3 DEF Grows, AccountFine
  <2>5. QED
    BY <1>1, <1>2, <1>3, <2>2, <2>3, <2>4, AccountMoves
<1>5. CASE Accounts!FixUserAcceptanceStatus(u)
  <2> DEFINE doc == [a EXCEPT !.accepted = TRUE]
  <2>1. accounts' = [accounts EXCEPT ![u] = doc] /\ a.verified /\ granted' = granted
    BY <1>1, <1>5 DEF Accounts!FixUserAcceptanceStatus, Accounts!historyVars
  <2>2. /\ doc \in Accounts!Account /\ doc.status = a.status /\ doc.password = a.password
        /\ doc.hasPassword = a.hasPassword /\ doc.version = a.version
        /\ doc.accepted = TRUE /\ doc.providers = a.providers /\ doc.verified = a.verified
        /\ doc.pin = a.pin /\ doc.welcomed = a.welcomed /\ doc.connected = a.connected
    BY <1>2 DEF Accounts!Account
  <2> HIDE DEF doc
  <2>3. AccountFine(u, doc, proven, granted)
    BY <1>2, <2>1, <2>2 DEF AccountFine
  <2>4. Grows(a, doc)
    BY <1>2, <2>2 DEF Grows, Accounts!Account
  <2>5. QED
    BY <1>1, <1>2, <1>3, <2>1, <2>3, <2>4, AccountMoves
<1>6. CASE Accounts!DeleteUser(u)
  <2>0. PICK doc : doc = [Accounts!NoAccount EXCEPT !.status = "deleted"]
    OBVIOUS
  <2>1. accounts' = [accounts EXCEPT ![u] = doc] /\ granted' = granted
    BY <1>1, <1>6, <2>0 DEF Accounts!DeleteUser, Accounts!historyVars
  <2>2. doc = [status |-> "deleted", password |-> FALSE, hasPassword |-> FALSE, providers |-> {},
               version |-> 0, accepted |-> FALSE, verified |-> FALSE, boarded |-> FALSE,
               pin |-> FALSE, welcomed |-> FALSE, connected |-> {}]
    BY <2>0 DEF Accounts!NoAccount
  <2>3. AccountFine(u, doc, proven, granted)
    BY <2>2 DEF AccountFine, Accounts!Account
  <2>4. Grows(a, doc)
    BY <2>2, <2>3 DEF Grows, AccountFine
  <2>5. QED
    BY <1>1, <1>2, <1>3, <2>1, <2>3, <2>4, AccountMoves
<1>7. CASE Accounts!InitiateClaude(u)
  <2> DEFINE doc == [a EXCEPT !.connected = a.connected \union {"claude"}]
  <2>1. /\ accounts' = [accounts EXCEPT ![u] = doc]
        /\ granted' = granted \union {<<u, "claude">>}
    BY <1>1, <1>7 DEF Accounts!InitiateClaude
  <2>2. "claude" \in Services
    BY AccountsAssumption
  <2>3. /\ doc \in Accounts!Account /\ doc.status = a.status /\ doc.password = a.password
        /\ doc.hasPassword = a.hasPassword /\ doc.version = a.version
        /\ doc.accepted = a.accepted /\ doc.providers = a.providers /\ doc.verified = a.verified
        /\ doc.pin = a.pin /\ doc.welcomed = a.welcomed
        /\ doc.connected = a.connected \union {"claude"}
    BY <1>2, <2>2 DEF Accounts!Account
  <2> HIDE DEF doc
  <2>4. AccountFine(u, doc, proven, granted')
    BY <1>2, <2>1, <2>3 DEF AccountFine
  <2>5. Grows(a, doc)
    BY <1>2, <2>3 DEF Grows, Accounts!Account
  <2>6. granted' \subseteq Users \X Services
    BY <1>2, <2>1, <2>2
  <2>7. QED
    BY <1>1, <1>2, <1>3, <2>1, <2>4, <2>5, <2>6, AccountMoves
<1>8. ASSUME NEW s \in Services, Accounts!Disconnect(u, s)
      PROVE  AccountsInv'
  <2> DEFINE doc == [a EXCEPT !.connected = a.connected \ {s}]
  <2>1. accounts' = [accounts EXCEPT ![u] = doc] /\ granted' = granted
    BY <1>1, <1>8 DEF Accounts!Disconnect, Accounts!historyVars
  <2>2. /\ doc \in Accounts!Account /\ doc.status = a.status /\ doc.password = a.password
        /\ doc.hasPassword = a.hasPassword /\ doc.version = a.version
        /\ doc.accepted = a.accepted /\ doc.providers = a.providers /\ doc.verified = a.verified
        /\ doc.pin = a.pin /\ doc.welcomed = a.welcomed
        /\ doc.connected = a.connected \ {s}
    BY <1>2 DEF Accounts!Account
  <2> HIDE DEF doc
  <2>3. AccountFine(u, doc, proven, granted)
    BY <1>2, <2>2 DEF AccountFine
  <2>4. Grows(a, doc)
    BY <1>2, <2>2 DEF Grows, Accounts!Account
  <2>5. QED
    BY <1>1, <1>2, <1>3, <2>1, <2>3, <2>4, AccountMoves
<1>9. QED
  BY <1>4, <1>5, <1>6, <1>7, <1>8

LEMMA AccountsStep ==
    ASSUME AccountsInv, Accounts!AccountsNext
    PROVE  AccountsInv'
<1>1. CASE \E p \in Procs, u \in Users :
              \/ Accounts!Join(p, u) \/ Accounts!RequestRegister(p, u)
              \/ \E x \in Providers : Accounts!OauthLogin(p, u, x)
  BY <1>1, WaitlistFine, AdmissionFine
<1>2. CASE \E p \in Procs, u \in Users :
              \/ Accounts!ConfirmRegister(p, u) \/ Accounts!ChangePassword(p, u)
              \/ Accounts!ResetPassword(p, u)
              \/ \E x \in Providers : Accounts!UnlinkOAuthProvider(p, u, x)
  BY <1>2, StartFine
<1>3. CASE \E p \in Procs, u \in Users :
              Accounts!InitiateFigma(p, u) \/ Accounts!InitiateAtlassian(p, u)
  <2>1. {"figma", "atlassian"} \subseteq Services
    BY AccountsAssumption
  <2>2. QED
    BY <1>3, <2>1, StartFine DEF Accounts!InitiateFigma, Accounts!InitiateAtlassian
<1>4. ASSUME NEW p \in Procs,
             \/ Accounts!JoinPosition(p) \/ Accounts!JoinSave(p) \/ Accounts!Admit(p)
      PROVE  AccountsInv'
  <2>1. handlers[p].step # "idle"
    BY <1>4 DEF Accounts!JoinPosition, Accounts!JoinSave, Accounts!Admit, Accounts!At
  <2>2. handlers[p].user \in Users
    BY <2>1 DEF AccountsInv, HandlersFine, HandlerFine
  <2>3. QED
    BY <1>4, <2>2, WaitlistFine, AdmissionFine
<1>5. CASE \E p \in Procs :
              \/ Accounts!RegisterCreate(p) \/ Accounts!OauthCreate(p)
              \/ Accounts!ConfirmAccept(p) \/ Accounts!ConfirmDeletePins(p)
              \/ Accounts!ConfirmWelcome(p) \/ Accounts!SetPassword(p)
              \/ Accounts!ResetAccept(p) \/ Accounts!Connect(p)
  BY <1>5, RegistrationFine, SaveFine
<1>6. CASE \E p \in Procs :
              \/ Accounts!OauthLink(p) \/ Accounts!UnlinkSave(p) \/ Accounts!OauthCallback(p)
              \/ Accounts!FigmaCallback(p) \/ Accounts!AtlassianCallback(p) \/ Accounts!Abort(p)
  BY <1>6, ProvidersFine, CallbackFine
<1>7. CASE \E u \in Users :
              \/ Accounts!WhitelistUser(u) \/ Accounts!RemoveFromWhitelist(u)
              \/ Accounts!DeleteEntry(u)
  BY <1>7, WhitelistFine
<1>8. CASE \E u \in Users :
              \/ Accounts!InviteUser(u) \/ Accounts!FixUserAcceptanceStatus(u)
              \/ Accounts!DeleteUser(u) \/ Accounts!InitiateClaude(u)
              \/ \E s \in Services : Accounts!Disconnect(u, s)
  BY <1>8, AdministrationFine
<1>9. QED
  BY <1>1, <1>2, <1>3, <1>4, <1>5, <1>6, <1>7, <1>8 DEF Accounts!AccountsNext

LEMMA AccountsStart ==
    ASSUME Accounts!AccountsInit
    PROVE  AccountsInv /\ PlacesInv
<1>1. \A p \in Procs : handlers[p] = Accounts!Rest
  BY DEF Accounts!AccountsInit
<1>2. \A p \in Procs : HandlerFine(handlers[p], AccountOf(handlers[p]), AdmittedOf(handlers[p]),
                                   proven, granted)
  BY <1>1, RestFine
<1>3. \A u \in Users : accounts[u] = Accounts!NoAccount /\ entries[u] = Accounts!NoEntry
  BY DEF Accounts!AccountsInit
<1>4. \A u \in Users : AccountFine(u, accounts[u], proven, granted)
  <2>1. \A u \in Users : AccountFine(u, Accounts!NoAccount, proven, granted)
    BY NoAccountType DEF AccountFine, Accounts!NoAccount
  <2>2. QED
    BY <1>3, <2>1
<1>5. Accounts!AccountsTypeOK
  <2>1. Accounts!Rest \in Accounts!Handler /\ Accounts!NoEntry \in Accounts!Entry
    BY RestFine DEF HandlerFine, Accounts!NoEntry, Accounts!Entry
  <2>2. QED
    BY <2>1, NoAccountType DEF Accounts!AccountsInit, Accounts!AccountsTypeOK
<1>6. intruders = {}
  BY DEF Accounts!AccountsInit
<1>7. PlacesInv
  <2>1. \A p \in Procs : handlers[p].step # "join_save"
    BY <1>1 DEF Accounts!Rest
  <2>2. \A u \in Users : ~ (entries[u].position > 0)
    BY <1>3 DEF Accounts!NoEntry
  <2>3. QED
    BY <2>1, <2>2 DEF PlacesInv
<1>8. QED
  BY <1>2, <1>4, <1>5, <1>6, <1>7 DEF AccountsInv, HandlersFine

\* The steps of the waitlist apart, no handler comes to save a place.
Leaves(p) ==
    /\ handlers'[p].step # "join_save"
    /\ \A q \in Procs \ {p} : handlers'[q] = handlers[q]

LEMMA GoLeaves ==
    ASSUME AccountsInv, NEW p \in Procs, NEW step, step # "join_save",
           Accounts!Go(p, step) \/ Accounts!Done(p)
    PROVE  Leaves(p)
<1>1. handlers \in [Procs -> Accounts!Handler] /\ Accounts!Rest.step = "idle"
  BY DEF AccountsInv, Accounts!AccountsTypeOK, Accounts!Rest
<1>2. CASE Accounts!Go(p, step)
  <2>1. PICK h \in Accounts!Handler : h = handlers[p]
    BY <1>1
  <2> DEFINE new == [h EXCEPT !.step = step]
  <2>2. handlers' = [handlers EXCEPT ![p] = new] /\ new.step = step
    BY <1>2, <2>1 DEF Accounts!Go, Accounts!Handler
  <2> HIDE DEF new
  <2>3. QED
    BY <1>1, <2>2 DEF Leaves
<1>3. CASE Accounts!Done(p)
  BY <1>1, <1>3 DEF Leaves, Accounts!Done
<1>4. QED
  BY <1>2, <1>3

LEMMA WriteLeaves ==
    ASSUME AccountsInv, NEW p \in Procs, NEW doc, NEW step, step # "join_save",
           Accounts!Write(p, doc, step) \/ Accounts!SaveProviders(p, doc, step)
    PROVE  Leaves(p) /\ UNCHANGED <<entries, together>>
<1>1. Accounts!Go(p, step) \/ Accounts!Done(p)
  BY DEF Accounts!Write, Accounts!SaveProviders
<1>2. UNCHANGED <<entries, together>>
  BY DEF Accounts!Write, Accounts!SaveProviders, Accounts!KeepRest, Accounts!historyVars
<1>3. QED
  BY <1>1, <1>2, GoLeaves

\* The handlers that are not on the waitlist leave it alone.
LEMMA StartLeaves ==
    ASSUME AccountsInv, NEW p \in Procs, NEW u \in Users,
           \/ Accounts!Join(p, u) \/ Accounts!RequestRegister(p, u)
           \/ Accounts!ConfirmRegister(p, u) \/ Accounts!ChangePassword(p, u)
           \/ Accounts!ResetPassword(p, u)
           \/ \E x \in Providers : Accounts!OauthLogin(p, u, x) \/ Accounts!UnlinkOAuthProvider(p, u, x)
           \/ \E s \in Services : Accounts!Initiate(p, u, s)
    PROVE  Leaves(p) /\ UNCHANGED <<entries, together>>
<1>1. handlers \in [Procs -> Accounts!Handler]
  BY DEF AccountsInv, Accounts!AccountsTypeOK
<1>2. PICK h \in Accounts!Handler : h = handlers[p]
  BY <1>1
<1>3. h = [step |-> h.step, user |-> h.user, provider |-> h.provider, service |-> h.service,
           copy |-> h.copy, position |-> h.position, welcome |-> h.welcome]
  BY HandlerParts
<1>4. CASE Accounts!Join(p, u)
  BY <1>1, <1>2, <1>3, <1>4 DEF Accounts!Join, Accounts!KeepRest, Accounts!historyVars, Leaves
<1>5. CASE Accounts!RequestRegister(p, u)
  BY <1>1, <1>5 DEF Accounts!RequestRegister, Accounts!Begin, Leaves
<1>6. CASE Accounts!ConfirmRegister(p, u)
  BY <1>1, <1>2, <1>3, <1>6 DEF Accounts!ConfirmRegister, Leaves
<1>7. CASE Accounts!ChangePassword(p, u)
  BY <1>1, <1>2, <1>3, <1>7 DEF Accounts!ChangePassword, Accounts!Find, Accounts!KeepRest,
                               Accounts!historyVars, Leaves
<1>8. CASE Accounts!ResetPassword(p, u)
  BY <1>1, <1>2, <1>3, <1>8 DEF Accounts!ResetPassword, Leaves
<1>9. ASSUME NEW x \in Providers, Accounts!OauthLogin(p, u, x)
      PROVE  Leaves(p) /\ UNCHANGED <<entries, together>>
  BY <1>1, <1>9 DEF Accounts!OauthLogin, Accounts!Begin, Leaves
<1>10. ASSUME NEW x \in Providers, Accounts!UnlinkOAuthProvider(p, u, x)
       PROVE  Leaves(p) /\ UNCHANGED <<entries, together>>
  BY <1>1, <1>2, <1>3, <1>10 DEF Accounts!UnlinkOAuthProvider, Accounts!KeepRest,
                                Accounts!historyVars, Leaves
<1>11. ASSUME NEW s \in Services, Accounts!Initiate(p, u, s)
       PROVE  Leaves(p) /\ UNCHANGED <<entries, together>>
  BY <1>1, <1>2, <1>3, <1>11 DEF Accounts!Initiate, Accounts!KeepRest, Accounts!historyVars,
                                Leaves
<1>12. QED
  BY <1>4, <1>5, <1>6, <1>7, <1>8, <1>9, <1>10, <1>11

LEMMA OthersLeave ==
    ASSUME AccountsInv, NEW p \in Procs,
           \/ Accounts!Admit(p) \/ Accounts!RegisterCreate(p) \/ Accounts!OauthCreate(p)
           \/ Accounts!ConfirmAccept(p) \/ Accounts!ConfirmDeletePins(p)
           \/ Accounts!ConfirmWelcome(p) \/ Accounts!OauthLink(p) \/ Accounts!OauthCallback(p)
           \/ Accounts!UnlinkSave(p) \/ Accounts!SetPassword(p) \/ Accounts!ResetAccept(p)
           \/ Accounts!FigmaCallback(p) \/ Accounts!AtlassianCallback(p)
           \/ Accounts!Connect(p) \/ Accounts!Abort(p)
    PROVE  Leaves(p) /\ UNCHANGED <<entries, together>>
<1>1. CASE Accounts!Admit(p)
  <2>1. Accounts!AfterAdmission(handlers[p]) # "join_save"
    BY DEF Accounts!AfterAdmission
  <2>2. QED
    BY <1>1, <2>1, GoLeaves DEF Accounts!Admit, Accounts!KeepRest, Accounts!historyVars
<1>2. CASE Accounts!RegisterCreate(p) \/ Accounts!OauthCreate(p)
  <2>1. /\ \E step \in {"idle", "oauth_callback"} : Accounts!Go(p, step) \/ Accounts!Done(p)
        /\ UNCHANGED <<entries, together>>
    BY <1>2 DEF Accounts!RegisterCreate, Accounts!OauthCreate, Accounts!Create
  <2>2. QED
    BY <2>1, GoLeaves
<1>3. CASE \/ Accounts!ConfirmAccept(p) \/ Accounts!ConfirmDeletePins(p)
           \/ Accounts!ConfirmWelcome(p) \/ Accounts!OauthLink(p) \/ Accounts!UnlinkSave(p)
           \/ Accounts!SetPassword(p) \/ Accounts!ResetAccept(p) \/ Accounts!Connect(p)
  BY <1>3, WriteLeaves DEF Accounts!ConfirmAccept, Accounts!ConfirmDeletePins,
         Accounts!ConfirmWelcome, Accounts!OauthLink, Accounts!UnlinkSave, Accounts!SetPassword,
         Accounts!ResetAccept, Accounts!Connect
<1>4. CASE Accounts!OauthCallback(p) \/ Accounts!Abort(p)
  BY <1>4, GoLeaves DEF Accounts!OauthCallback, Accounts!Abort, Accounts!historyVars
<1>5. CASE Accounts!FigmaCallback(p) \/ Accounts!AtlassianCallback(p)
  <2>1. /\ Accounts!Go(p, "connect") \/ Accounts!Done(p)
        /\ UNCHANGED <<entries, together>>
    BY <1>5 DEF Accounts!FigmaCallback, Accounts!AtlassianCallback, Accounts!Callback
  <2>2. QED
    BY <2>1, GoLeaves
<1>6. QED
  BY <1>1, <1>2, <1>3, <1>4, <1>5

\* Places are given up and handlers end: nothing is lost.
LEMMA PlacesQuiet ==
    ASSUME AccountsInv, PlacesInv, together \subseteq together',
           \A u \in Users : entries'[u].position \in {entries[u].position, 0},
           \A q \in Procs : handlers'[q].step = "join_save" =>
              /\ handlers[q].step = "join_save"
              /\ handlers'[q].user = handlers[q].user
              /\ handlers'[q].position = handlers[q].position
    PROVE  PlacesInv'
<1>1. \A q \in Procs : handlers[q].position \in Nat
  BY DEF AccountsInv, Accounts!AccountsTypeOK, Accounts!Handler
<1>2. \A u, v \in Users : u # v /\ entries'[u].position > 0
                                /\ entries'[u].position = entries'[v].position
                            => {u, v} \subseteq together'
  <2>1. \A u \in Users : entries'[u].position > 0 => entries'[u].position = entries[u].position
    OBVIOUS
  <2>2. QED
    BY <2>1 DEF PlacesInv
<1>3. \A p, q \in {p \in Procs : handlers'[p].step = "join_save"} :
         p # q => {handlers'[p].user, handlers'[q].user} \subseteq together'
  BY DEF PlacesInv
<1>4. \A p \in {p \in Procs : handlers'[p].step = "join_save"}, u \in Users :
         u # handlers'[p].user /\ entries'[u].position = handlers'[p].position + 1
            => {u, handlers'[p].user} \subseteq together'
  BY <1>1 DEF PlacesInv
<1>5. QED
  BY <1>2, <1>3, <1>4 DEF PlacesInv

LEMMA PlacesStep ==
    ASSUME AccountsInv, PlacesInv, Accounts!AccountsNext
    PROVE  PlacesInv'
<1>1. /\ handlers \in [Procs -> Accounts!Handler] /\ entries \in [Users -> Accounts!Entry]
      /\ \A q \in Procs : handlers[q].position \in Nat
      /\ \A q \in Procs : handlers[q].step # "idle" => handlers[q].user \in Users
  BY DEF AccountsInv, Accounts!AccountsTypeOK, Accounts!Handler, HandlersFine, HandlerFine
<1>2. ASSUME NEW p \in Procs, Leaves(p), UNCHANGED <<entries, together>>
      PROVE  PlacesInv'
  <2>1. \A q \in Procs : handlers'[q].step = "join_save" => handlers'[q] = handlers[q]
    BY <1>2 DEF Leaves
  <2>2. QED
    BY <1>2, <2>1, PlacesQuiet
<1>3. ASSUME UNCHANGED handlers, together \subseteq together',
             \A u \in Users : entries'[u].position \in {entries[u].position, 0}
      PROVE  PlacesInv'
  BY <1>3, PlacesQuiet
<1>4. ASSUME NEW p \in Procs, Accounts!JoinPosition(p)
      PROVE  PlacesInv'
  <2> DEFINE S == {q \in Procs : handlers[q].step = "join_save"}
  <2>1. PICK h : h = handlers[p]
    OBVIOUS
  <2>2. h.user \in Users /\ p \notin S
    BY <1>1, <1>4, <2>1 DEF Accounts!JoinPosition, Accounts!At
  <2>3. /\ Accounts!LastPosition \in Nat
        /\ \A u \in Users : entries[u].position <= Accounts!LastPosition
        /\ \A u \in Users : entries[u].position \in Nat
    BY <1>1, <2>2, LastPositionIsLast DEF Accounts!Entry
  <2>4. PICK last \in Nat : last = Accounts!LastPosition
    BY <2>3
  <2>5. /\ handlers'[p].step = "join_save" /\ handlers'[p].user = h.user
        /\ handlers'[p].position = last
        /\ \A q \in Procs \ {p} : handlers'[q] = handlers[q]
    <3>1. h = [step |-> h.step, user |-> h.user, provider |-> h.provider, service |-> h.service,
               copy |-> h.copy, position |-> h.position, welcome |-> h.welcome]
      BY <1>1, <2>1, HandlerParts
    <3>2. handlers' = [handlers EXCEPT ![p].step = "join_save", ![p].position = last]
      BY <1>4, <2>4 DEF Accounts!JoinPosition
    <3>3. QED
      BY <1>1, <2>1, <3>1, <3>2
  <2>6. /\ UNCHANGED entries /\ together \subseteq together'
        /\ \A q \in S : {handlers[q].user, h.user} \subseteq together'
    BY <1>4, <2>1, <2>2 DEF Accounts!JoinPosition, Accounts!At
  <2>7. \A u, v \in Users : u # v /\ entries'[u].position > 0
                                  /\ entries'[u].position = entries'[v].position
                              => {u, v} \subseteq together'
    BY <2>6 DEF PlacesInv
  <2>8. ASSUME NEW q \in Procs, handlers'[q].step = "join_save", NEW r \in Procs,
               handlers'[r].step = "join_save", q # r
        PROVE  {handlers'[q].user, handlers'[r].user} \subseteq together'
    <3>1. CASE q = p
      BY <2>5, <2>6, <2>8, <3>1
    <3>2. CASE r = p
      BY <2>5, <2>6, <2>8, <3>2
    <3>3. CASE q # p /\ r # p
      BY <2>5, <2>6, <2>8, <3>3 DEF PlacesInv
    <3>4. QED
      BY <3>1, <3>2, <3>3
  <2>9. ASSUME NEW q \in Procs, handlers'[q].step = "join_save", NEW u \in Users,
               u # handlers'[q].user, entries'[u].position = handlers'[q].position + 1
        PROVE  {u, handlers'[q].user} \subseteq together'
    <3>1. q # p
      BY <2>3, <2>4, <2>5, <2>6, <2>9
    <3>2. QED
      BY <2>5, <2>6, <2>9, <3>1 DEF PlacesInv
  <2>10. QED
    BY <2>7, <2>8, <2>9 DEF PlacesInv
<1>5. ASSUME NEW p \in Procs, Accounts!JoinSave(p)
      PROVE  PlacesInv'
  <2>1. PICK h : h = handlers[p]
    OBVIOUS
  <2>2. h.step = "join_save" /\ h.user \in Users /\ h.position \in Nat
    BY <1>1, <1>5, <2>1 DEF Accounts!JoinSave, Accounts!At
  <2>3. /\ handlers'[p].step = "idle" /\ together' = together
        /\ \A q \in Procs \ {p} : handlers'[q] = handlers[q]
    BY <1>1, <1>5 DEF Accounts!JoinSave, Accounts!Done, Accounts!Rest, Accounts!historyVars
  <2>4. CASE entries[h.user].exists
    <3>1. UNCHANGED entries
      BY <1>5, <2>1, <2>4 DEF Accounts!JoinSave
    <3>2. Leaves(p)
      BY <2>3 DEF Leaves
    <3>3. QED
      BY <1>2, <2>3, <3>1, <3>2
  <2>5. CASE ~ entries[h.user].exists
    <3>1. /\ entries'[h.user].position = h.position + 1
          /\ \A v \in Users \ {h.user} : entries'[v] = entries[v]
      BY <1>1, <1>5, <2>1, <2>2, <2>5 DEF Accounts!JoinSave
    <3>2. ASSUME NEW v \in Users, v # h.user, entries[v].position = h.position + 1
          PROVE  {v, h.user} \subseteq together
      BY <2>1, <2>2, <3>2 DEF PlacesInv
    <3>3. ASSUME NEW u \in Users, NEW v \in Users, u # v, entries'[u].position > 0,
                 entries'[u].position = entries'[v].position
          PROVE  {u, v} \subseteq together'
      <4>1. CASE u = h.user
        BY <2>3, <3>1, <3>2, <3>3, <4>1
      <4>2. CASE v = h.user
        BY <2>3, <3>1, <3>2, <3>3, <4>2
      <4>3. CASE u # h.user /\ v # h.user
        BY <2>3, <3>1, <3>3, <4>3 DEF PlacesInv
      <4>4. QED
        BY <4>1, <4>2, <4>3
    <3>4. ASSUME NEW q \in Procs, handlers'[q].step = "join_save", NEW r \in Procs,
                 handlers'[r].step = "join_save", q # r
          PROVE  {handlers'[q].user, handlers'[r].user} \subseteq together'
      BY <2>3, <3>4 DEF PlacesInv
    <3>5. ASSUME NEW q \in Procs, handlers'[q].step = "join_save", NEW u \in Users,
                 u # handlers'[q].user, entries'[u].position = handlers'[q].position + 1
          PROVE  {u, handlers'[q].user} \subseteq together'
      <4>1. q # p /\ handlers'[q] = handlers[q] /\ handlers[q].step = "join_save"
        BY <2>3, <3>5
      <4>2. CASE u = h.user
        BY <2>1, <2>2, <2>3, <4>1, <4>2 DEF PlacesInv
      <4>3. CASE u # h.user
        BY <2>3, <3>1, <3>5, <4>1, <4>3 DEF PlacesInv
      <4>4. QED
        BY <4>2, <4>3
    <3>6. QED
      BY <3>3, <3>4, <3>5 DEF PlacesInv
  <2>6. QED
    BY <2>4, <2>5
<1>6. CASE \E p \in Procs, u \in Users :
              \/ Accounts!Join(p, u) \/ Accounts!RequestRegister(p, u)
              \/ Accounts!ConfirmRegister(p, u) \/ Accounts!ChangePassword(p, u)
              \/ Accounts!ResetPassword(p, u)
              \/ \E x \in Providers : Accounts!OauthLogin(p, u, x)
                                        \/ Accounts!UnlinkOAuthProvider(p, u, x)
              \/ Accounts!InitiateFigma(p, u) \/ Accounts!InitiateAtlassian(p, u)
  <2>1. {"figma", "atlassian"} \subseteq Services
    BY AccountsAssumption
  <2>2. \E p \in Procs : Leaves(p) /\ UNCHANGED <<entries, together>>
    BY <1>6, <2>1, StartLeaves DEF Accounts!InitiateFigma, Accounts!InitiateAtlassian
  <2>3. QED
    BY <1>2, <2>2
<1>7. CASE \E p \in Procs :
              \/ Accounts!Admit(p) \/ Accounts!RegisterCreate(p)
              \/ Accounts!OauthCreate(p) \/ Accounts!ConfirmAccept(p)
              \/ Accounts!ConfirmDeletePins(p) \/ Accounts!ConfirmWelcome(p)
              \/ Accounts!OauthLink(p) \/ Accounts!OauthCallback(p) \/ Accounts!UnlinkSave(p)
              \/ Accounts!SetPassword(p) \/ Accounts!ResetAccept(p)
              \/ Accounts!FigmaCallback(p) \/ Accounts!AtlassianCallback(p)
              \/ Accounts!Connect(p) \/ Accounts!Abort(p)
  BY <1>2, <1>7, OthersLeave
<1>8. ASSUME NEW u \in Users, Accounts!WhitelistUser(u)
      PROVE  PlacesInv'
  <2>1. /\ together' = together
        /\ \A v \in Users : entries'[v].position = entries[v].position
    <3>1. PICK e \in Accounts!Entry : e = entries[u]
      BY <1>1
    <3>2. e = [exists |-> e.exists, whitelisted |-> e.whitelisted, position |-> e.position]
      BY DEF Accounts!Entry
    <3>3. QED
      BY <1>1, <1>8, <3>1, <3>2 DEF Accounts!WhitelistUser, Accounts!historyVars
  <2>2. ASSUME NEW q \in Procs
        PROVE  /\ handlers'[q].step = handlers[q].step
               /\ handlers'[q].user = handlers[q].user
               /\ handlers'[q].position = handlers[q].position
    <3>1. PICK h \in Accounts!Handler : h = handlers[q]
      BY <1>1
    <3>2. handlers'[q] = h \/ handlers'[q] = [h EXCEPT !.welcome = TRUE]
      BY <1>1, <1>8, <3>1 DEF Accounts!WhitelistUser
    <3>3. QED
      BY <3>1, <3>2 DEF Accounts!Handler
  <2>3. QED
    BY <2>1, <2>2, PlacesQuiet
<1>9. CASE \E u \in Users : \/ Accounts!RemoveFromWhitelist(u) \/ Accounts!DeleteEntry(u)
  <2>1. PICK u \in Users : Accounts!RemoveFromWhitelist(u) \/ Accounts!DeleteEntry(u)
    BY <1>9
  <2>2. PICK e \in Accounts!Entry : e = entries[u]
    BY <1>1
  <2>3. UNCHANGED <<handlers, together>>
    BY <2>1 DEF Accounts!RemoveFromWhitelist, Accounts!DeleteEntry, Accounts!historyVars
  <2>4. ASSUME NEW v \in Users
        PROVE  entries'[v].position \in {entries[v].position, 0}
    <3>1. CASE Accounts!RemoveFromWhitelist(u)
      <4> DEFINE new == [e EXCEPT !.whitelisted = FALSE]
      <4>1. entries' = [entries EXCEPT ![u] = new] /\ new.position = e.position
        BY <2>2, <3>1 DEF Accounts!RemoveFromWhitelist, Accounts!Entry
      <4> HIDE DEF new
      <4>2. QED
        BY <1>1, <2>2, <4>1
    <3>2. CASE Accounts!DeleteEntry(u)
      BY <1>1, <3>2 DEF Accounts!DeleteEntry, Accounts!NoEntry
    <3>3. QED
      BY <2>1, <3>1, <3>2
  <2>5. QED
    BY <1>3, <2>3, <2>4
<1>10. CASE \E u \in Users :
              \/ Accounts!InviteUser(u) \/ Accounts!FixUserAcceptanceStatus(u)
              \/ Accounts!DeleteUser(u) \/ Accounts!InitiateClaude(u)
              \/ \E s \in Services : Accounts!Disconnect(u, s)
  <2>1. UNCHANGED <<entries, handlers, together>>
    BY <1>10 DEF Accounts!InviteUser, Accounts!FixUserAcceptanceStatus, Accounts!DeleteUser,
                 Accounts!InitiateClaude, Accounts!Disconnect, Accounts!historyVars
  <2>2. QED
    BY <1>3, <2>1
<1>11. QED
  BY <1>4, <1>5, <1>6, <1>7, <1>8, <1>9, <1>10 DEF Accounts!AccountsNext

\* The accounts and the waitlist are as AccountsHold says, whatever the
\* requests do and wherever they are cut off: nobody is let in who was not
\* whitelisted during the request, an account keeps a way to log in, it is
\* accepted and welcomed only with a cause, what is connected was granted, and
\* only who joins together shares a place.
THEOREM AccountsStaySafe == MCSpec => []AccountsHold
<1>1. MCInit => AccountsInv /\ PlacesInv
  BY AccountsStart DEF MCInit
<1>2. AccountsInv /\ PlacesInv /\ [MCNext]_serviceVars => (AccountsInv /\ PlacesInv)'
  <2>1. ASSUME [MCNext]_serviceVars
        PROVE  Accounts!AccountsNext \/ UNCHANGED accountVars
    BY <2>1 DEF MCNext, MCAccountsStep, serviceVars
  <2>2. ASSUME AccountsInv, PlacesInv, UNCHANGED accountVars
        PROVE  (AccountsInv /\ PlacesInv)'
    BY <2>2 DEF accountVars, AccountsInv, PlacesInv, HandlersFine, AccountOf, AdmittedOf,
                Accounts!Admitted, Accounts!IsEmailWhitelisted, Accounts!AccountsTypeOK
  <2>3. QED
    BY <2>1, <2>2, AccountsStep, PlacesStep
<1>3. AccountsInv /\ PlacesInv => AccountsHold
  <2> SUFFICES ASSUME AccountsInv, PlacesInv
               PROVE  Accounts!AccountsSafe
    BY DEF AccountsHold
  <2>2. \A u \in Users : AccountFine(u, accounts[u], proven, granted)
    BY DEF AccountsInv
  <2>3. Accounts!PlacesDiffer
    <3>1. ASSUME NEW u \in Users, NEW v \in Users, u # v, entries[u].position > 0,
                 entries[u].position = entries[v].position
          PROVE  {u, v} \subseteq together
      BY <3>1 DEF PlacesInv
    <3>2. QED
      BY <3>1 DEF Accounts!PlacesDiffer
  <2>4. Accounts!StaysReachable
    BY <2>2 DEF AccountFine, Accounts!StaysReachable, Accounts!Stored
  <2>5. Accounts!AcceptedIsProven
    BY <2>2 DEF AccountFine, Accounts!AcceptedIsProven, Accounts!Stored
  <2>6. Accounts!ConnectedIsGranted
    BY <2>2 DEF AccountFine, Accounts!ConnectedIsGranted, Accounts!ConnectionStatus
  <2>7. Accounts!AccountsTypeOK /\ Accounts!NobodyUninvited
    BY DEF AccountsInv, Accounts!NobodyUninvited
  <2>8. QED
    BY <2>3, <2>4, <2>5, <2>6, <2>7 DEF Accounts!AccountsSafe
<1>4. QED
  BY <1>1, <1>2, <1>3, PTL DEF MCSpec

-----------------------------------------------------------------------------
(* Fix tasks and the settings of the validation.                           *)

\* A task has waited for all its failed attempts but the last.
TaskInv ==
    /\ task.attempts \in 0..MaxRetries
    /\ task.state \in {"attempt", "sleep", "done", "failed"}
    /\ task.state = "attempt" => /\ task.attempts < MaxRetries
                                 /\ task.waited = 2 ^ task.attempts - 1
    /\ task.state = "sleep" => /\ task.attempts \in 1..(MaxRetries - 1)
                               /\ task.delay = 2 ^ (task.attempts - 1)
                               /\ task.waited = 2 ^ (task.attempts - 1) - 1
    /\ task.state = "failed" => /\ task.attempts = MaxRetries
                                /\ task.waited = 2 ^ (MaxRetries - 1) - 1
                                /\ task.error = [class |-> "fix", recoverable |-> FALSE]

\* The fields of a task.
TaskParts(t) == t = [state |-> t.state, attempts |-> t.attempts, delay |-> t.delay,
                     waited |-> t.waited, error |-> t.error]

ConfigInv ==
    /\ DOMAIN config = Reports!Fields /\ DOMAIN environment \subseteq Reports!Fields
    /\ Reports!EnabledRuns

LEMMA TaskSucceeds ==
    ASSUME TaskParts(task), TaskInv, Reports!AttemptSucceeds
    PROVE  TaskParts(task)' /\ TaskInv'
<1>1. PICK t : t = task
  OBVIOUS
<1>2. PICK u1 : u1 = [t EXCEPT !.state = "done"]
  OBVIOUS
<1>3. PICK u2 : u2 = [u1 EXCEPT !.attempts = u1.attempts + 1]
  OBVIOUS
<1>4. u1 = [state |-> "done", attempts |-> t.attempts, delay |-> t.delay, waited |-> t.waited,
            error |-> t.error]
  BY <1>1, <1>2 DEF TaskParts
<1>5. u2 = [state |-> "done", attempts |-> t.attempts + 1, delay |-> t.delay,
            waited |-> t.waited, error |-> t.error]
  BY <1>3, <1>4
<1>6. task' = u2 /\ t.state = "attempt"
  BY <1>1, <1>2, <1>3, <1>4 DEF Reports!AttemptSucceeds
<1>7. t.attempts \in 0..MaxRetries /\ t.attempts < MaxRetries
  BY <1>1, <1>6 DEF TaskInv
<1>8. task'.attempts \in 0..MaxRetries /\ task'.state = "done"
  BY <1>5, <1>6, <1>7, ReportsAssumption
<1>9. QED
  BY <1>5, <1>6, <1>8 DEF TaskParts, TaskInv

LEMMA TaskFails ==
    ASSUME TaskParts(task), TaskInv, NEW error, Reports!AttemptFails(error)
    PROVE  TaskParts(task)' /\ TaskInv'
<1>1. PICK t : t = task
  OBVIOUS
<1>2. t.state = "attempt" /\ t.attempts \in 0..MaxRetries /\ t.attempts < MaxRetries
      /\ t.waited = 2 ^ t.attempts - 1
  BY <1>1 DEF Reports!AttemptFails, TaskInv
<1>3. CASE t.attempts + 1 >= MaxRetries
  <2> DEFINE last == [class |-> "fix", recoverable |-> FALSE]
  <2>1. PICK u1 : u1 = [t EXCEPT !.state = "failed"]
    OBVIOUS
  <2>2. PICK u2 : u2 = [u1 EXCEPT !.attempts = u1.attempts + 1]
    OBVIOUS
  <2>3. PICK u3 : u3 = [u2 EXCEPT !.error = last]
    OBVIOUS
  <2>4. u1 = [state |-> "failed", attempts |-> t.attempts, delay |-> t.delay,
              waited |-> t.waited, error |-> t.error]
    BY <1>1, <2>1 DEF TaskParts
  <2>5. u2 = [state |-> "failed", attempts |-> t.attempts + 1, delay |-> t.delay,
              waited |-> t.waited, error |-> t.error]
    BY <2>2, <2>4
  <2>6. task' = u3
    BY <1>1, <1>3, <2>1, <2>2, <2>3, <2>4 DEF Reports!AttemptFails, Reports!LastAttempt
  <2> HIDE DEF last
  <2>7. u3 = [state |-> "failed", attempts |-> t.attempts + 1, delay |-> t.delay,
              waited |-> t.waited, error |-> last]
    BY <2>3, <2>5
  <2>8. /\ task'.state = "failed" /\ task'.attempts = t.attempts + 1
        /\ task'.waited = t.waited /\ task'.error = last
    BY <2>6, <2>7
  <2>9. t.attempts = MaxRetries - 1 /\ task'.attempts = MaxRetries
    BY <1>2, <1>3, <2>8, ReportsAssumption
  <2>10. task'.waited = 2 ^ (MaxRetries - 1) - 1 /\ MaxRetries \in 0..MaxRetries
    BY <1>2, <2>8, <2>9, ReportsAssumption
  <2>11. QED
    BY <2>6, <2>7, <2>8, <2>9, <2>10 DEF TaskParts, TaskInv, last
<1>4. CASE ~ (t.attempts + 1 >= MaxRetries)
  <2>1. PICK u1 : u1 = [t EXCEPT !.state = "sleep"]
    OBVIOUS
  <2>2. PICK u2 : u2 = [u1 EXCEPT !.attempts = u1.attempts + 1]
    OBVIOUS
  <2>3. PICK u3 : u3 = [u2 EXCEPT !.delay = 2 ^ t.attempts]
    OBVIOUS
  <2>4. PICK u4 : u4 = [u3 EXCEPT !.error = error]
    OBVIOUS
  <2>5. u1 = [state |-> "sleep", attempts |-> t.attempts, delay |-> t.delay,
              waited |-> t.waited, error |-> t.error]
    BY <1>1, <2>1 DEF TaskParts
  <2>6. u2 = [state |-> "sleep", attempts |-> t.attempts + 1, delay |-> t.delay,
              waited |-> t.waited, error |-> t.error]
    BY <2>2, <2>5
  <2>7. u3 = [state |-> "sleep", attempts |-> t.attempts + 1, delay |-> 2 ^ t.attempts,
              waited |-> t.waited, error |-> t.error]
    BY <2>3, <2>6
  <2>8. u4 = [state |-> "sleep", attempts |-> t.attempts + 1, delay |-> 2 ^ t.attempts,
              waited |-> t.waited, error |-> error]
    BY <2>4, <2>7
  <2>9. task' = u4
    BY <1>1, <1>4, <2>1, <2>2, <2>3, <2>4, <2>5 DEF Reports!AttemptFails, Reports!LastAttempt
  <2>10. /\ task'.state = "sleep" /\ task'.attempts = t.attempts + 1
         /\ task'.waited = t.waited /\ task'.delay = 2 ^ t.attempts
    BY <2>8, <2>9
  <2>11. task'.attempts \in 1..(MaxRetries - 1) /\ task'.attempts - 1 = t.attempts
         /\ task'.attempts \in 0..MaxRetries
    BY <1>2, <1>4, <2>10, ReportsAssumption
  <2>12. QED
    BY <1>2, <2>8, <2>9, <2>10, <2>11 DEF TaskParts, TaskInv
<1>5. QED
  BY <1>3, <1>4

LEMMA TaskWakes ==
    ASSUME TaskParts(task), TaskInv, Reports!Wake
    PROVE  TaskParts(task)' /\ TaskInv'
<1>1. PICK t : t = task
  OBVIOUS
<1>2. /\ t.state = "sleep" /\ t.attempts \in 1..(MaxRetries - 1)
      /\ t.delay = 2 ^ (t.attempts - 1) /\ t.waited = 2 ^ (t.attempts - 1) - 1
  BY <1>1 DEF Reports!Wake, TaskInv
<1>3. PICK u1 : u1 = [t EXCEPT !.state = "attempt"]
  OBVIOUS
<1>4. PICK u2 : u2 = [u1 EXCEPT !.waited = u1.waited + t.delay]
  OBVIOUS
<1>5. u1 = [state |-> "attempt", attempts |-> t.attempts, delay |-> t.delay,
            waited |-> t.waited, error |-> t.error]
  BY <1>1, <1>3 DEF TaskParts
<1>6. u2 = [state |-> "attempt", attempts |-> t.attempts, delay |-> t.delay,
            waited |-> t.waited + t.delay, error |-> t.error]
  BY <1>4, <1>5
<1>7. task' = u2
  BY <1>1, <1>3, <1>4, <1>5 DEF Reports!Wake
<1>8. t.attempts - 1 \in 0..MaxRetries /\ (t.attempts - 1) + 1 = t.attempts
  BY <1>2, ReportsAssumption
<1>9. t.waited + t.delay = 2 ^ t.attempts - 1
  BY <1>2, <1>8, ReportsAssumption
<1>10. /\ task'.state = "attempt" /\ task'.attempts = t.attempts
       /\ task'.waited = 2 ^ t.attempts - 1
  BY <1>6, <1>7, <1>9
<1>11. t.attempts \in 0..MaxRetries /\ t.attempts < MaxRetries
  BY <1>2, ReportsAssumption
<1>12. QED
  BY <1>6, <1>7, <1>10, <1>11 DEF TaskParts, TaskInv

\* What an update, or a preset, makes of a field.
LEMMA UpdatedFields ==
    ASSUME NEW c, NEW fields, DOMAIN c = Reports!Fields
    PROVE  /\ DOMAIN Reports!Updated(c, fields) = Reports!Fields
           /\ \A f \in Reports!Fields :
                 Reports!Updated(c, fields)[f] = IF f \in DOMAIN fields THEN fields[f] ELSE c[f]
  BY DEF Reports!Updated

LEMMA DefaultRuns ==
    ASSUME NEW e, DOMAIN e \subseteq Reports!Fields,
           NEW c, c = Reports!Updated(Reports!BuiltIn, e)
    PROVE  /\ DOMAIN c = Reports!Fields
           /\ "enabled" \notin DOMAIN e => /\ c.loops > 0 \/ "loops" \in DOMAIN e
                                           /\ c.autoFix \/ "autoFix" \in DOMAIN e
<1>1. PICK d : d = Reports!BuiltIn
  OBVIOUS
<1>2. DOMAIN d = Reports!Fields
  BY <1>1 DEF Reports!BuiltIn, Reports!Fields
<1>3. d.loops = 3 /\ d.autoFix = TRUE
  BY <1>1 DEF Reports!BuiltIn
<1>4. /\ DOMAIN c = Reports!Fields
      /\ \A f \in Reports!Fields : c[f] = IF f \in DOMAIN e THEN e[f] ELSE d[f]
  BY <1>1, <1>2, UpdatedFields
<1>5. QED
  BY <1>3, <1>4 DEF Reports!Fields

LEMMA HandRuns ==
    ASSUME ConfigInv, NEW fields \in Reports!SomeSettings,
           Reports!updateValidationConfig(fields)
    PROVE  ConfigInv'
<1>1. /\ config' = Reports!Updated(config, fields) /\ environment' = environment
      /\ byHand' = byHand \union DOMAIN fields
  BY DEF Reports!updateValidationConfig
<1>2. /\ DOMAIN config' = Reports!Fields
      /\ \A f \in Reports!Fields :
            config'[f] = IF f \in DOMAIN fields THEN fields[f] ELSE config[f]
  BY <1>1, UpdatedFields DEF ConfigInv
<1>3. ASSUME config'.enabled, "enabled" \notin byHand'
      PROVE  /\ config'.loops > 0 \/ "loops" \in byHand'
             /\ config'.autoFix \/ "autoFix" \in byHand'
  <2>1. config.enabled /\ "enabled" \notin byHand
    BY <1>1, <1>2, <1>3 DEF Reports!Fields
  <2>2. config.loops > 0 \/ "loops" \in byHand
    BY <2>1 DEF ConfigInv, Reports!EnabledRuns
  <2>3. config.autoFix \/ "autoFix" \in byHand
    BY <2>1 DEF ConfigInv, Reports!EnabledRuns
  <2>4. config'.loops > 0 \/ "loops" \in byHand'
    BY <1>1, <1>2, <2>2 DEF Reports!Fields
  <2>5. config'.autoFix \/ "autoFix" \in byHand'
    BY <1>1, <1>2, <2>3 DEF Reports!Fields
  <2>6. QED
    BY <2>4, <2>5
<1>4. QED
  BY <1>1, <1>2, <1>3 DEF ConfigInv, Reports!EnabledRuns

\* A preset or an environment that switches validation on leaves it a loop and
\* the fixing; one that does not say leaves it a loop.
LEMMA ApplyRuns ==
    ASSUME ConfigInv, NEW fields, Reports!Apply(fields),
           "enabled" \in DOMAIN fields /\ fields.enabled =>
              /\ "loops" \in DOMAIN fields /\ fields.loops > 0
              /\ "autoFix" \in DOMAIN fields /\ fields.autoFix,
           "enabled" \notin DOMAIN fields =>
              /\ "loops" \in DOMAIN fields => fields.loops > 0
              /\ "autoFix" \notin DOMAIN fields
    PROVE  ConfigInv'
<1>1. /\ config' = Reports!Updated(config, fields) /\ environment' = environment
      /\ byHand' = byHand \ DOMAIN fields
  BY DEF Reports!Apply
<1>2. /\ DOMAIN config' = Reports!Fields
      /\ \A f \in Reports!Fields :
            config'[f] = IF f \in DOMAIN fields THEN fields[f] ELSE config[f]
  BY <1>1, UpdatedFields DEF ConfigInv
<1>3. ASSUME config'.enabled, "enabled" \notin byHand'
      PROVE  /\ config'.loops > 0 \/ "loops" \in byHand'
             /\ config'.autoFix \/ "autoFix" \in byHand'
  <2>1. CASE "enabled" \in DOMAIN fields
    BY <1>2, <1>3, <2>1 DEF Reports!Fields
  <2>2. CASE "enabled" \notin DOMAIN fields
    <3>1. config.enabled /\ "enabled" \notin byHand
      BY <1>1, <1>2, <1>3, <2>2 DEF Reports!Fields
    <3>2. config.loops > 0 \/ "loops" \in byHand
      BY <3>1 DEF ConfigInv, Reports!EnabledRuns
    <3>3. config.autoFix \/ "autoFix" \in byHand
      BY <3>1 DEF ConfigInv, Reports!EnabledRuns
    <3>4. config'.loops > 0 \/ "loops" \in byHand'
      BY <1>1, <1>2, <2>2, <3>2 DEF Reports!Fields
    <3>5. config'.autoFix \/ "autoFix" \in byHand'
      BY <1>1, <1>2, <2>2, <3>3 DEF Reports!Fields
    <3>6. QED
      BY <3>4, <3>5
  <2>3. QED
    BY <2>1, <2>2
<1>4. QED
  BY <1>1, <1>2, <1>3 DEF ConfigInv, Reports!EnabledRuns

LEMMA SettingsStep ==
    ASSUME ConfigInv, Reports!SettingsNext
    PROVE  ConfigInv'
<1>1. CASE \E fields \in Reports!SomeSettings : Reports!updateValidationConfig(fields)
  BY <1>1, HandRuns
<1>2. CASE \E e \in DOMAIN Reports!ENVIRONMENT_CONFIGS : Reports!applyEnvironmentConfig(e)
  <2>1. PICK e \in {"development", "staging", "production", "test"} :
           Reports!Apply(Reports!ENVIRONMENT_CONFIGS[e])
    BY <1>2 DEF Reports!applyEnvironmentConfig, Reports!ENVIRONMENT_CONFIGS
  <2>2. PICK fields : fields = Reports!ENVIRONMENT_CONFIGS[e]
    OBVIOUS
  <2>3. CASE e = "test"
    <3>1. /\ DOMAIN fields = {"enabled", "loops"} /\ fields.enabled = FALSE
      BY <2>2, <2>3 DEF Reports!ENVIRONMENT_CONFIGS
    <3>2. QED
      BY <2>1, <2>2, <3>1, ApplyRuns
  <2>4. CASE e # "test"
    <3>1. /\ DOMAIN fields = {"loops"} /\ fields.loops \in {2, 3}
      BY <2>1, <2>2, <2>4 DEF Reports!ENVIRONMENT_CONFIGS
    <3>2. fields.loops > 0
      BY <3>1
    <3>3. QED
      BY <2>1, <2>2, <3>1, <3>2, ApplyRuns
  <2>5. QED
    BY <2>3, <2>4
<1>3. CASE \E p \in DOMAIN Reports!VALIDATION_PRESETS : Reports!applyValidationPreset(p)
  <2>1. PICK p \in {"strict", "balanced", "permissive", "disabled"} :
           Reports!Apply(Reports!VALIDATION_PRESETS[p])
    BY <1>3 DEF Reports!applyValidationPreset, Reports!VALIDATION_PRESETS
  <2>2. PICK fields : fields = Reports!VALIDATION_PRESETS[p]
    OBVIOUS
  <2>3. /\ "enabled" \in DOMAIN fields /\ "loops" \in DOMAIN fields /\ "autoFix" \in DOMAIN fields
        /\ fields.enabled => fields.loops \in {2, 3, 5} /\ fields.autoFix
    BY <2>1, <2>2 DEF Reports!VALIDATION_PRESETS
  <2>4. fields.enabled => fields.loops > 0
    BY <2>3
  <2>5. QED
    BY <2>1, <2>2, <2>3, <2>4, ApplyRuns
<1>4. CASE Reports!resetValidationConfig
  <2>1. /\ config' = Reports!DefaultConfig /\ byHand' = DOMAIN environment
        /\ environment' = environment
    BY <1>4 DEF Reports!resetValidationConfig
  <2>2. DOMAIN environment \subseteq Reports!Fields
    BY DEF ConfigInv
  <2>3. /\ DOMAIN config' = Reports!Fields
        /\ "enabled" \notin byHand' => /\ config'.loops > 0 \/ "loops" \in byHand'
                                       /\ config'.autoFix \/ "autoFix" \in byHand'
    BY <2>1, <2>2, DefaultRuns DEF Reports!DefaultConfig
  <2>4. QED
    BY <2>1, <2>2, <2>3 DEF ConfigInv, Reports!EnabledRuns
<1>5. QED
  BY <1>1, <1>2, <1>3, <1>4 DEF Reports!SettingsNext

\* A fix task is tried MaxRetries times at the most, has then waited for all its
\* delays and fails with an error that nobody retries (retryFixTask).
THEOREM ReportsStayEnding == MCSpec => []Reports!RetriesEnd
<1> DEFINE Inv == TaskParts(task) /\ TaskInv
<1>1. MCInit => Inv
  <2>1. SUFFICES ASSUME task = Reports!FirstTask
                 PROVE  Inv
    BY DEF MCInit, Reports!ReportsInit
  <2>2. TaskParts(task) /\ task.state = "attempt" /\ task.attempts = 0 /\ task.waited = 0
    BY <2>1 DEF Reports!FirstTask, TaskParts
  <2>3. TaskInv
    BY <2>2, ReportsAssumption DEF TaskInv
  <2>4. QED
    BY <2>2, <2>3
<1>2. Inv /\ [MCNext]_serviceVars => Inv'
  <2>1. ASSUME [MCNext]_serviceVars
        PROVE  Reports!TaskNext \/ UNCHANGED task
    <3>1. CASE Reports!SettingsNext
      BY <3>1 DEF Reports!SettingsNext, Reports!updateValidationConfig, Reports!Apply,
         Reports!applyEnvironmentConfig, Reports!applyValidationPreset,
         Reports!resetValidationConfig
    <3>2. QED
      BY <2>1, <3>1 DEF MCNext, serviceVars, reportVars
  <2>2. ASSUME Inv, UNCHANGED task
        PROVE  Inv'
    BY <2>2 DEF TaskParts, TaskInv
  <2>3. ASSUME Inv, Reports!TaskNext
        PROVE  Inv'
    BY <2>3, TaskSucceeds, TaskFails, TaskWakes DEF Reports!TaskNext
  <2>4. QED
    BY <2>1, <2>2, <2>3
<1>3. Inv => Reports!RetriesEnd
  <2> SUFFICES ASSUME TaskInv
               PROVE  Reports!RetriesEnd
    OBVIOUS
  <2>1. task.attempts <= MaxRetries
    BY ReportsAssumption DEF TaskInv
  <2>2. task.state = "failed" => ~ Reports!isRecoverableError(task.error)
    BY DEF TaskInv, Reports!isRecoverableError
  <2>3. QED
    BY <2>1, <2>2 DEF TaskInv, Reports!RetriesEnd
<1> HIDE DEF Inv
<1>4. QED
  BY <1>1, <1>2, <1>3, PTL DEF MCSpec

\* Whatever the environment of the process sets, and whatever presets,
\* environments, updates and resets follow in whatever order, a validation that
\* is on and was not switched on by hand has a loop to run and fixes what it
\* finds, unless its loops or its fixing were set by hand (validation.config).
THEOREM SettingsStayRunning == MCSpec => []Reports!EnabledRuns
<1>1. MCInit => ConfigInv
  <2>1. SUFFICES ASSUME environment \in Reports!SomeSettings, config = Reports!DefaultConfig,
                        byHand = DOMAIN environment
                 PROVE  ConfigInv
    BY DEF MCInit, Reports!ReportsInit
  <2>2. DOMAIN environment \subseteq Reports!Fields
    BY <2>1 DEF Reports!SomeSettings
  <2>3. /\ DOMAIN config = Reports!Fields
        /\ "enabled" \notin byHand => /\ config.loops > 0 \/ "loops" \in byHand
                                      /\ config.autoFix \/ "autoFix" \in byHand
    BY <2>1, <2>2, DefaultRuns DEF Reports!DefaultConfig
  <2>4. QED
    BY <2>2, <2>3 DEF ConfigInv, Reports!EnabledRuns
<1>2. ConfigInv /\ [MCNext]_serviceVars => ConfigInv'
  <2>1. ASSUME [MCNext]_serviceVars
        PROVE  Reports!SettingsNext \/ UNCHANGED <<config, environment, byHand>>
    <3>1. CASE Reports!TaskNext
      BY <3>1 DEF Reports!TaskNext, Reports!AttemptSucceeds, Reports!AttemptFails,
         Reports!Wake, Reports!settingVars
    <3>2. QED
      BY <2>1, <3>1 DEF MCNext, serviceVars, reportVars
  <2>2. ASSUME ConfigInv, UNCHANGED <<config, environment, byHand>>
        PROVE  ConfigInv'
    BY <2>2 DEF ConfigInv, Reports!EnabledRuns
  <2>3. QED
    BY <2>1, <2>2, SettingsStep
<1>3. ConfigInv => Reports!EnabledRuns
  BY DEF ConfigInv
<1>4. QED
  BY <1>1, <1>2, <1>3, PTL DEF MCSpec

\* Both, in the parts of MCServices that run them.
THEOREM ReportsStayWhole == MCSpec => []ReportsHold
<1>1. Reports!RetriesEnd /\ Reports!EnabledRuns => ReportsHold
  BY DEF ReportsHold
<1>2. QED
  BY <1>1, ReportsStayEnding, SettingsStayRunning, PTL

-----------------------------------------------------------------------------
(* The session tracker: its routes are those of SessionsProofs.            *)

\* In its three parts the tracker keeps what SessionsStaySafe says it keeps.
THEOREM TrackerStaysWhole == MCSpec => []TrackerHolds
<1>1. MCInit => TrackerInv /\ ChainInv
  BY TrackerStart, ChainStart DEF MCInit
<1>2. TrackerInv /\ ChainInv /\ [MCNext]_serviceVars => (TrackerInv /\ ChainInv)'
  <2>1. ASSUME [MCNext]_serviceVars
        PROVE  SessionsNext \/ UNCHANGED sessionVars
    BY <2>1 DEF MCNext, MCTrackerStep, serviceVars
  <2>2. QED
    BY <2>1, TrackerStep, ChainStep, TrackerRests
<1>3. TrackerInv /\ ChainInv => TrackerHolds
  BY TrackerIsSafe DEF TrackerHolds
<1>4. QED
  BY <1>1, <1>2, <1>3, PTL DEF MCSpec

=============================================================================
