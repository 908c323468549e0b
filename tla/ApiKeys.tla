------------------------------- MODULE ApiKeys -------------------------------
(***************************************************************************)
(* The API keys of companies: their creation, update and deletion, which   *)
(* read the key before they write it, and the requests that carry one.     *)
(*                                                                         *)
(* A key is found by its hash; as two keys differ, so do their hashes, and *)
(* the model finds it by itself.  Its name and its rate limit, which no    *)
(* code reads, are left out.                                               *)
(***************************************************************************)
EXTENDS Integers, FiniteSets

CONSTANTS
    KeyIds, Companies,
    Addresses,          \* from which requests come, and which keys may be tied to
    Workers,            \* requests served at the same time
    MaxVersion,         \* bound: changes of the addresses of a key
    None

VARIABLES
    keys,               \* the collection: per id a key, or None
    workers,            \* per request: its step, and what it read
    made                \* history: the keys ever created

keyVars == <<keys, workers, made>>

-----------------------------------------------------------------------------
Permissions == {"admin", "readonly"}

Operations == {"create", "read", "readList", "update", "delete"}

\* What a save compares with, of the document that was read.
Read(key) == [active |-> key.active, ips |-> key.ips, version |-> key.version]

\* The body of an update: of isActive and allowedIPs, those it has.
Updates == [active : BOOLEAN \union {None}, ips : (SUBSET Addresses) \union {None}]
           \ {[active |-> None, ips |-> None]}

Free == [step |-> "idle", id |-> None, read |-> None, updates |-> None]

isIpAllowed(key, ip) == key.ips = {} \/ ip \in key.ips

isOperationAllowed(permission, operation) ==
    permission = "admin" \/ operation \in {"read", "readList"}

-----------------------------------------------------------------------------
createApiKey(id, company, permission, ips) ==
    /\ id \notin made
    /\ made' = made \union {id}
    /\ keys' = [keys EXCEPT ![id] =
                  [company |-> company, permission |-> permission, active |-> TRUE,
                   expired |-> FALSE, ips |-> ips, version |-> 0, lastUsed |-> FALSE]]
    /\ UNCHANGED workers

\* getApiKeyById looks for the key among those of the company of the caller;
\* a request that does not find it ends.
Found(w, id, company, step, updates) ==
    /\ workers[w] = Free
    /\ keys[id] # None /\ keys[id].company = company
    /\ keys[id].version < MaxVersion
    /\ workers' = [workers EXCEPT ![w] =
                     [step |-> step, id |-> id, read |-> Read(keys[id]), updates |-> updates]]
    /\ UNCHANGED <<keys, made>>

FindToUpdate(w, id, company, updates) == Found(w, id, company, "save", updates)

FindToDelete(w, id, company) == Found(w, id, company, "deleteOne", None)

At(w, step) == workers[w].step = step

Done(w) == workers' = [workers EXCEPT ![w] = Free]

\* The fields whose assignment changed what was read.
Changes(read, updates) ==
    {f \in {"active", "ips"} : updates[f] \notin {None, read[f]}}

\* Mutation of Saved: the whole document is written.
SavedWhole(stored, read, updates) ==
    [stored EXCEPT !.active = IF updates.active = None THEN read.active ELSE updates.active,
                   !.ips = IF updates.ips = None THEN read.ips ELSE updates.ips]

\* A save writes those fields; one of the list of addresses, which is an array,
\* counts the version of the document up.
Saved(stored, read, updates) ==
    LET changes == Changes(read, updates)
    IN [stored EXCEPT !.active = IF "active" \in changes THEN updates.active ELSE @,
                      !.ips = IF "ips" \in changes THEN updates.ips ELSE @,
                      !.version = IF "ips" \in changes THEN @ + 1 ELSE @]

\* The save fails if the key was deleted, or if it is of the list and the
\* version is not the one that was read.
updateApiKey(w) ==
    /\ At(w, "save")
    /\ LET id == workers[w].id
           read == workers[w].read
           updates == workers[w].updates
           fails == \/ keys[id] = None
                    \/ "ips" \in Changes(read, updates) /\ keys[id].version # read.version
       IN keys' = IF fails THEN keys ELSE [keys EXCEPT ![id] = Saved(@, read, updates)]
    /\ Done(w)
    /\ UNCHANGED made

deleteApiKey(w) ==
    /\ At(w, "deleteOne")
    /\ keys' = [keys EXCEPT ![workers[w].id] = None]
    /\ Done(w)
    /\ UNCHANGED made

Expire(id) ==
    /\ keys[id] # None /\ ~keys[id].expired
    /\ keys' = [keys EXCEPT ![id].expired = TRUE]
    /\ UNCHANGED <<workers, made>>

validateApiKey(id) == keys[id] # None /\ keys[id].active /\ ~keys[id].expired

\* authMiddleware with an API key: what the key allows is checked on the
\* document that was read, its permission only where the route names an
\* operation; the request goes on, and the time of use is written after it.  A
\* request that is refused changes nothing.
Authenticate(w, id, ip, operation) ==
    /\ workers[w] = Free
    /\ validateApiKey(id)
    /\ isIpAllowed(keys[id], ip)
    /\ operation = None \/ isOperationAllowed(keys[id].permission, operation)
    /\ workers' = [workers EXCEPT ![w] = [Free EXCEPT !.step = "updateLastUsed", !.id = id]]
    /\ UNCHANGED <<keys, made>>

Touched(id) == IF keys[id] = None THEN keys ELSE [keys EXCEPT ![id].lastUsed = TRUE]

\* An update by id, which makes no document; its failure is ignored.
updateLastUsed(w, fails) ==
    /\ At(w, "updateLastUsed")
    /\ keys' = IF fails THEN keys ELSE Touched(workers[w].id)
    /\ Done(w)
    /\ UNCHANGED made

-----------------------------------------------------------------------------
KeysInit ==
    /\ keys = [id \in KeyIds |-> None]
    /\ workers = [w \in Workers |-> Free]
    /\ made = {}

KeysNext ==
    \/ \E id \in KeyIds, c \in Companies, permission \in Permissions, ips \in SUBSET Addresses :
          createApiKey(id, c, permission, ips)
    \/ \E w \in Workers, id \in KeyIds, c \in Companies :
          (\E updates \in Updates : FindToUpdate(w, id, c, updates)) \/ FindToDelete(w, id, c)
    \/ \E w \in Workers, id \in KeyIds, ip \in Addresses,
          operation \in Operations \union {None} :
          Authenticate(w, id, ip, operation)
    \/ \E w \in Workers : updateApiKey(w) \/ deleteApiKey(w)
    \/ \E w \in Workers, fails \in BOOLEAN : updateLastUsed(w, fails)
    \/ \E id \in KeyIds : Expire(id)

-----------------------------------------------------------------------------
(* Properties.                                                             *)

\* What was withdrawn stays withdrawn: a key that was deleted never comes
\* back, and one that was made inactive, or tied to addresses, is let loose
\* only by an update that says so, never by one about something else that read
\* the key before, nor by the late note of its use (apiKey.service.ts 102-136).
\* Nothing extends a key that expired or moves it to another company.
WithdrawnStays ==
    [][\A id \in KeyIds :
          LET saying(w) == At(w, "save") /\ workers[w].id = id /\ workers'[w] = Free
          IN /\ id \in made /\ keys[id] = None => keys'[id] = None
             /\ keys[id] # None /\ keys'[id] # None =>
                   /\ keys[id].expired => keys'[id].expired
                   /\ keys'[id].company = keys[id].company
                   /\ keys'[id].permission = keys[id].permission
                   /\ ~keys[id].active /\ keys'[id].active =>
                         \E w \in Workers : saying(w) /\ workers[w].updates.active = TRUE
                   /\ keys'[id].ips # keys[id].ips =>
                         \E w \in Workers : saying(w) /\ workers[w].updates.ips = keys'[id].ips
      ]_keyVars
=============================================================================
