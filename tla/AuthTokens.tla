----------------------------- MODULE AuthTokens -----------------------------
(***************************************************************************)
(* Logins, sessions and what opens them (modules/auth, modules/token and   *)
(* modules/account): the Token documents, which are refresh tokens         *)
(* (sessions), login PINs and password reset links, and the recovery       *)
(* codes.  A session is the refresh token a client holds; refreshing it    *)
(* blacklists the document and creates the next one.                       *)
(*                                                                         *)
(* A request runs from one database call to the next; between two of them  *)
(* other requests run, and the process may die.  The client of a request   *)
(* knows the outcome only when it is answered.  Passwords, PIN digits and  *)
(* e-mails are abstracted: a client that uses a PIN, a link or a code is   *)
(* one that has received it.                                               *)
(***************************************************************************)
EXTENDS Naturals, FiniteSets

CONSTANTS
    Users,
    Tokens,       \* documents ever created: the bound on their number
    Codes,        \* recovery codes ever created, one for a batch of ten
    Procs,        \* requests in progress
    Operations,   \* the operations of this instance
    NoToken,
    NoCode,
    NoUser

ASSUME AuthAssumption ==
    /\ NoToken \notin Tokens /\ NoCode \notin Codes /\ NoUser \notin Users
    /\ Tokens \cap Codes = {}

VARIABLES
    tokens,       \* the Token collection
    codes,        \* the RecoveryCode collection
    procs,        \* the request of every process
    held,         \* the documents whose secret reached a client
    parent,       \* history: the session a session was refreshed from
    login,        \* history: the first session of that chain
    uses,         \* history: answered logins or resets by document or code
    ended         \* history: the logins that a log-out or revocation ended

vars == <<tokens, codes, procs, held, parent, login, uses, ended>>

Types == {"refresh", "pin", "resetPassword"}

Token == [state   : {"absent", "live", "blacklisted", "deleted"},
          type    : Types \union {"none"},
          user    : Users \union {NoUser},
          expired : BOOLEAN]

Code == [state : {"absent", "unused", "used", "deleted"},
         user  : Users \union {NoUser}]

Steps == {"idle", "deletingPins", "savingSession", "savingPin", "findingCode",
          "savingCode", "rotating", "ending", "endingAll", "savingReset",
          "deletingResets", "deletingCodes", "insertingCodes", "answering"}

Request == [op    : {"none", "login", "confirm", "oauth", "refresh", "end",
                     "endAll", "forgot", "reset", "generate", "revokeCodes"},
            at    : Steps,
            user  : Users \union {NoUser},
            token : Tokens \union {NoToken},  \* the document it was given
            code  : Codes \union {NoCode},
            made  : Tokens \union {NoToken}]  \* the document it answers

TypeOK ==
    /\ tokens \in [Tokens -> Token]
    /\ codes \in [Codes -> Code]
    /\ procs \in [Procs -> Request]
    /\ held \subseteq Tokens
    /\ parent \in [Tokens -> Tokens \union {NoToken}]
    /\ login \in [Tokens -> Tokens \union {NoToken}]
    /\ uses \in [Tokens \union Codes -> Nat]
    /\ ended \subseteq Tokens \union {NoToken}

Idle == [op |-> "none", at |-> "idle", user |-> NoUser, token |-> NoToken,
         code |-> NoCode, made |-> NoToken]

Init ==
    /\ tokens = [t \in Tokens |-> [state |-> "absent", type |-> "none",
                                   user |-> NoUser, expired |-> FALSE]]
    /\ codes = [c \in Codes |-> [state |-> "absent", user |-> NoUser]]
    /\ procs = [p \in Procs |-> Idle]
    /\ held = {}
    /\ parent = [t \in Tokens |-> NoToken]
    /\ login = [t \in Tokens |-> NoToken]
    /\ uses = [x \in Tokens \union Codes |-> 0]
    /\ ended = {}

-----------------------------------------------------------------------------
(* Documents.                                                              *)

Stored(t) == tokens[t].state \in {"live", "blacklisted"}

Live(t, type) == tokens[t].state = "live" /\ tokens[t].type = type

\* saveToken.
SaveToken(t, type, u) ==
    /\ tokens[t].state = "absent"
    /\ tokens' = [tokens EXCEPT ![t] = [state |-> "live", type |-> type,
                                        user |-> u, expired |-> FALSE]]

\* deleteManyTokens({ user, type }).
DeleteTokens(u, type) ==
    tokens' = [t \in Tokens |->
                 IF Stored(t) /\ tokens[t].user = u /\ tokens[t].type = type
                 THEN [tokens[t] EXCEPT !.state = "deleted"] ELSE tokens[t]]

Blacklisted(t) == IF tokens[t].state = "live"
                  THEN [tokens[t] EXCEPT !.state = "blacklisted"] ELSE tokens[t]

Expire(t) ==
    /\ "expire" \in Operations /\ tokens[t].state = "live" /\ ~tokens[t].expired
    /\ tokens' = [tokens EXCEPT ![t].expired = TRUE]
    /\ UNCHANGED <<codes, procs, held, parent, login, uses, ended>>

-----------------------------------------------------------------------------
(* Requests.  Each begins with what it reads before its first write.       *)

Begin(p, op, at, u, t, c) ==
    /\ procs[p].at = "idle" /\ op \in Operations
    /\ procs' = [procs EXCEPT ![p] = [op |-> op, at |-> at, user |-> u, token |-> t,
                                      code |-> c, made |-> NoToken]]
    /\ UNCHANGED <<tokens, codes, held, parent, login, uses, ended>>

GoTo(p, at) == procs' = [procs EXCEPT ![p].at = at]

\* A request whose refresh token is known and not blacklisted (verifyCallback).
Authenticated(t) == t \in held /\ Live(t, "refresh")

\* The password is right.
RequestLogin(p, u) == Begin(p, "login", "deletingPins", u, NoToken, NoCode)

\* A document that is still there, whichever it is, sends a new PIN.
ResendLoginRequest(p, t) ==
    /\ Stored(t) /\ ~tokens[t].expired
    /\ Begin(p, "login", "deletingPins", tokens[t].user, t, NoCode)

\* A PIN; confirmRegister does the same to the documents.
ConfirmLogin(p, t) ==
    /\ t \in held /\ Stored(t) /\ tokens[t].type = "pin" /\ ~tokens[t].expired
    /\ Begin(p, "confirm", "savingSession", tokens[t].user, t, NoCode)

\* A recovery code in its place: the document only names the user.
ConfirmWithCode(p, t, c) ==
    /\ Stored(t) /\ ~tokens[t].expired
    /\ codes[c].state # "absent"
    /\ Begin(p, "confirm", "findingCode", tokens[t].user, t, c)

\* The provider has authenticated the user.
OauthCallback(p, u) == Begin(p, "oauth", "savingSession", u, NoToken, NoCode)

\* Mutation of RefreshAuth: the old token is not blacklisted.
RefreshWithoutRotation(p, t) ==
    /\ t \in held /\ Live(t, "refresh") /\ ~tokens[t].expired
    /\ Begin(p, "refresh", "savingSession", tokens[t].user, t, NoCode)

\* Mutation of RefreshAuth: a blacklisted token is accepted.
RefreshAnyToken(p, t) ==
    /\ t \in held /\ Stored(t) /\ tokens[t].type = "refresh" /\ ~tokens[t].expired
    /\ Begin(p, "refresh", "rotating", tokens[t].user, t, NoCode)

RefreshAuth(p, t) ==
    /\ t \in held /\ Live(t, "refresh") /\ ~tokens[t].expired
    /\ Begin(p, "refresh", "rotating", tokens[t].user, t, NoCode)

Logout(p, t) ==
    /\ t \in held /\ Live(t, "refresh")
    /\ Begin(p, "end", "ending", tokens[t].user, t, NoCode)

LogoutAllSessions(p, t) ==
    /\ t \in held /\ Live(t, "refresh")
    /\ Begin(p, "endAll", "endingAll", tokens[t].user, t, NoCode)

\* An owned session other than the current one.
RevokeOwnedSession(p, current, t) ==
    /\ Authenticated(current) /\ current # t
    /\ Stored(t) /\ tokens[t].type = "refresh"
    /\ tokens[t].user = tokens[current].user
    /\ Begin(p, "end", "ending", tokens[t].user, t, NoCode)

\* Any document, by its identifier.
BlacklistTokens(p, current, t) ==
    /\ Authenticated(current) /\ Stored(t)
    /\ Begin(p, "end", "ending", tokens[t].user, t, NoCode)

ForgotPassword(p, u) == Begin(p, "forgot", "savingReset", u, NoToken, NoCode)

ResetPassword(p, t) ==
    /\ t \in held /\ Live(t, "resetPassword") /\ ~tokens[t].expired
    /\ Begin(p, "reset", "deletingResets", tokens[t].user, t, NoCode)

GenerateRecoveryCodes(p, current) ==
    /\ Authenticated(current)
    /\ Begin(p, "generate", "deletingCodes", tokens[current].user, current, NoCode)

RevokeAllRecoveryCodes(p, current) ==
    /\ Authenticated(current)
    /\ Begin(p, "revokeCodes", "deletingCodes", tokens[current].user, current, NoCode)

-----------------------------------------------------------------------------
(* What a request does, call by call.                                      *)

\* Mutation of DeletePins: a filter that matches no document.
KeepPins(p) ==
    /\ procs[p].at = "deletingPins"
    /\ GoTo(p, IF procs[p].op = "login" THEN "savingSession" ELSE "answering")
    /\ UNCHANGED <<tokens, codes, held, parent, login, uses, ended>>

DeletePins(p) ==
    /\ procs[p].at = "deletingPins"
    /\ DeleteTokens(procs[p].user, "pin")
    /\ GoTo(p, IF procs[p].op = "login" THEN "savingSession" ELSE "answering")
    /\ UNCHANGED <<codes, held, parent, login, uses, ended>>

\* generateAuthTokens: the refresh token, and what follows it.  The one saved
\* with a PIN is never sent to anybody.
SaveSession(p) ==
    LET r == procs[p]
        from == IF r.op = "refresh" THEN r.token ELSE NoToken
        next == CASE r.op = "login" -> "savingPin"
                  [] r.op = "confirm" -> "deletingPins"
                  [] OTHER -> "answering"
    IN  /\ r.at = "savingSession"
        /\ \E t \in Tokens :
              /\ SaveToken(t, "refresh", r.user)
              /\ procs' = [procs EXCEPT ![p].at = next, ![p].made = t]
              /\ parent' = [parent EXCEPT ![t] = from]
              /\ login' = [login EXCEPT ![t] = IF from = NoToken THEN t ELSE login[from]]
        /\ UNCHANGED <<codes, held, uses, ended>>

SaveDocument(p, at, type) ==
    /\ procs[p].at = at
    /\ \E t \in Tokens :
          /\ SaveToken(t, type, procs[p].user)
          /\ procs' = [procs EXCEPT ![p].at = "answering", ![p].made = t]
    /\ UNCHANGED <<codes, held, parent, login, uses, ended>>

SavePin(p) == SaveDocument(p, "savingPin", "pin")
SaveReset(p) == SaveDocument(p, "savingReset", "resetPassword")

\* verifyAndConsumeRecoveryCode: find it, then save it as used.  Saving a
\* document that was deleted in between fails.
FindCode(p) ==
    LET r == procs[p]
    IN  /\ r.at = "findingCode"
        /\ procs' = [procs EXCEPT ![p] =
              IF codes[r.code].state = "unused" /\ codes[r.code].user = r.user
              THEN [r EXCEPT !.at = "savingCode"] ELSE Idle]
        /\ UNCHANGED <<tokens, codes, held, parent, login, uses, ended>>

SaveCode(p) ==
    LET r == procs[p]
    IN  /\ r.at = "savingCode"
        /\ IF codes[r.code].state = "deleted"
           THEN procs' = [procs EXCEPT ![p] = Idle] /\ UNCHANGED codes
           ELSE /\ GoTo(p, "savingSession")
                /\ codes' = [codes EXCEPT ![r.code].state = "used"]
        /\ UNCHANGED <<tokens, held, parent, login, uses, ended>>

\* refreshAuth: save the blacklisted document.
Rotate(p) ==
    /\ procs[p].at = "rotating"
    /\ tokens' = [tokens EXCEPT ![procs[p].token] = Blacklisted(procs[p].token)]
    /\ GoTo(p, "savingSession")
    /\ UNCHANGED <<codes, held, parent, login, uses, ended>>

LoginsOf(documents) == {login[t] : t \in {s \in documents : tokens[s].type = "refresh"}}

\* logout, revokeOwnedSession and blacklistTokens.
EndSession(p) ==
    LET one == {t \in Tokens : t = procs[p].token /\ tokens[t].state = "live"}
    IN  /\ procs[p].at = "ending"
        /\ tokens' = [t \in Tokens |-> IF t \in one THEN Blacklisted(t) ELSE tokens[t]]
        /\ ended' = ended \union LoginsOf(one)
        /\ GoTo(p, "answering")
        /\ UNCHANGED <<codes, held, parent, login, uses>>

\* Mutation of EndAllSessions: the other sessions end.
EndOtherSessions(p) ==
    LET mine == {t \in Tokens : Stored(t) /\ tokens[t].user = procs[p].user}
    IN  /\ procs[p].at = "endingAll"
        /\ tokens' = [t \in Tokens |-> IF t \in mine \ {procs[p].token}
                                       THEN Blacklisted(t) ELSE tokens[t]]
        /\ ended' = ended \union LoginsOf(mine)
        /\ GoTo(p, "answering")
        /\ UNCHANGED <<codes, held, parent, login, uses>>

\* logoutAllSessions: updateMany.
EndAllSessions(p) ==
    LET mine == {t \in Tokens : Stored(t) /\ tokens[t].user = procs[p].user}
    IN  /\ procs[p].at = "endingAll"
        /\ tokens' = [t \in Tokens |-> IF t \in mine THEN Blacklisted(t) ELSE tokens[t]]
        /\ ended' = ended \union LoginsOf(mine)
        /\ GoTo(p, "answering")
        /\ UNCHANGED <<codes, held, parent, login, uses>>

\* resetPassword: the password is saved, then the links are deleted.
DeleteResets(p) ==
    /\ procs[p].at = "deletingResets"
    /\ DeleteTokens(procs[p].user, "resetPassword")
    /\ GoTo(p, "answering")
    /\ UNCHANGED <<codes, held, parent, login, uses, ended>>

DeleteCodes(p) ==
    /\ procs[p].at = "deletingCodes"
    /\ codes' = [c \in Codes |->
                   IF codes[c].state \in {"unused", "used"} /\ codes[c].user = procs[p].user
                   THEN [codes[c] EXCEPT !.state = "deleted"] ELSE codes[c]]
    /\ GoTo(p, IF procs[p].op = "generate" THEN "insertingCodes" ELSE "answering")
    /\ UNCHANGED <<tokens, held, parent, login, uses, ended>>

InsertCodes(p) ==
    /\ procs[p].at = "insertingCodes"
    /\ \E c \in Codes :
          /\ codes[c].state = "absent"
          /\ codes' = [codes EXCEPT ![c] = [state |-> "unused", user |-> procs[p].user]]
    /\ GoTo(p, "answering")
    /\ UNCHANGED <<tokens, held, parent, login, uses, ended>>

\* Mutation of Answer: the tokens of a response are not checked for presence.
AnswerNothing(p) ==
    /\ procs[p].at = "answering"
    /\ procs' = [procs EXCEPT ![p] = Idle]
    /\ held' = held \union {procs[p].made}
    /\ UNCHANGED <<tokens, codes, parent, login, uses, ended>>

\* The response reaches the client.
Answer(p) ==
    LET r == procs[p]
        used == IF r.code # NoCode THEN {r.code}
                ELSE IF r.op \in {"confirm", "reset"} THEN {r.token} ELSE {}
    IN  /\ r.at = "answering"
        /\ procs' = [procs EXCEPT ![p] = Idle]
        /\ held' = held \union ({r.made} \ {NoToken})
        /\ uses' = [x \in Tokens \union Codes |-> IF x \in used THEN uses[x] + 1 ELSE uses[x]]
        /\ UNCHANGED <<tokens, codes, parent, login, ended>>

\* The process dies, or a call fails and catchAsync answers an error.
Crash(p) ==
    /\ procs[p].at # "idle"
    /\ procs' = [procs EXCEPT ![p] = Idle]
    /\ UNCHANGED <<tokens, codes, held, parent, login, uses, ended>>

-----------------------------------------------------------------------------

Call(p) ==
    \/ \E u \in Users : RequestLogin(p, u) \/ OauthCallback(p, u) \/ ForgotPassword(p, u)
    \/ \E t \in Tokens :
          \/ ResendLoginRequest(p, t) \/ ConfirmLogin(p, t) \/ RefreshAuth(p, t)
          \/ Logout(p, t) \/ LogoutAllSessions(p, t) \/ ResetPassword(p, t)
          \/ GenerateRecoveryCodes(p, t) \/ RevokeAllRecoveryCodes(p, t)
          \/ \E c \in Codes : ConfirmWithCode(p, t, c)
          \/ \E s \in Tokens : RevokeOwnedSession(p, t, s) \/ BlacklistTokens(p, t, s)

Step(p) ==
    \/ DeletePins(p) \/ SaveSession(p) \/ SavePin(p) \/ SaveReset(p)
    \/ FindCode(p) \/ SaveCode(p) \/ Rotate(p) \/ EndSession(p)
    \/ EndAllSessions(p) \/ DeleteResets(p) \/ DeleteCodes(p) \/ InsertCodes(p)
    \/ Answer(p)

Next ==
    \/ \E p \in Procs : Call(p) \/ Step(p) \/ Crash(p)
    \/ \E t \in Tokens : Expire(t)

Spec == Init /\ [][Next]_vars

-----------------------------------------------------------------------------
(* Properties.                                                             *)

\* A session never has a live successor while it is still accepted itself:
\* refreshAuth blacklists the document before it creates the next one, so a
\* process that dies in between loses a session rather than doubling it.
RotationRevokesParent ==
    \A t \in Tokens : parent[t] # NoToken => tokens[parent[t]].state # "live"

\* Refreshing never forks a session: each has one successor (refreshAuth,
\* when requests with the same token do not overlap).
RotatedOnce ==
    \A s, t \in Tokens : parent[s] = parent[t] /\ parent[s] # NoToken => s = t

\* Logging out ends the login for good, and logging out of all sessions ends
\* every login of the user: no session refreshed from them is accepted
\* afterwards ('POST /v1/auth/logout-all blacklists every session',
\* tests/integration/tokens.test.ts).
LoginsStayEnded ==
    \A t \in Tokens : Live(t, "refresh") => login[t] \notin ended

\* A PIN, a reset link or a recovery code is honoured once, wherever the
\* requests that use it die (confirmLogin deletes the PINs after it created
\* the session, verifyAndConsumeRecoveryCode saves usedAt before).
UsedOnce == \A x \in Tokens \union Codes : uses[x] <= 1

\* The last PIN sent is the only one that works (requestLogin and
\* resendLoginRequest delete the earlier ones).
OnePinPerUser ==
    \A s, t \in Tokens :
       /\ Stored(s) /\ tokens[s].type = "pin"
       /\ Stored(t) /\ tokens[t].type = "pin"
       /\ tokens[s].user = tokens[t].user
       => s = t

-----------------------------------------------------------------------------
(* The inductive invariants of the proofs.                                 *)

Spent(t) == tokens[t].state \in {"blacklisted", "deleted"}

\* A token that was refreshed, or whose refresh is past its save, was live
\* once and is not any more (refreshAuth saves it before it creates the next).
RotationInv ==
    /\ \A t \in Tokens : parent[t] # NoToken => Spent(parent[t])
    /\ \A p \in Procs : procs[p].op = "refresh" =>
          /\ procs[p].at \in {"rotating", "savingSession", "answering"}
          /\ procs[p].token \in Tokens
          /\ procs[p].at = "rotating" => tokens[procs[p].token].state # "absent"
          /\ procs[p].at = "savingSession" => Spent(procs[p].token)

\* Every session belongs to a login of its user.
LoginsExist ==
    /\ \A t \in Tokens : tokens[t].state # "absent" /\ tokens[t].type = "refresh" =>
          /\ login[t] \in Tokens
          /\ tokens[login[t]].state # "absent"
          /\ tokens[login[t]].user = tokens[t].user
    /\ \A l \in ended : l \in Tokens /\ tokens[l].state # "absent"

OneSessionPerLogin ==
    \A s, t \in Tokens :
       Live(s, "refresh") /\ Live(t, "refresh") /\ login[s] = login[t] => s = t

\* What refreshAuth relies on: the token it verified is live until it rotates
\* it, and from then on the login has no session but the one it will create.
RefreshInv ==
    \A p \in Procs : procs[p].op = "refresh" =>
       /\ procs[p].at \in {"rotating", "savingSession", "answering"}
       /\ procs[p].at \in {"rotating", "savingSession"} =>
             LET t == procs[p].token
             IN  /\ t \in Tokens /\ tokens[t].type = "refresh"
                 /\ tokens[t].state # "absent" /\ tokens[t].user = procs[p].user
                 /\ login[t] \notin ended
                 /\ procs[p].at = "rotating" => Live(t, "refresh")
                 /\ procs[p].at = "savingSession" =>
                       \A s \in Tokens : Live(s, "refresh") => login[s] # login[t]

\* Requests do not overlap.
OneAtATime ==
    \A p, q \in Procs : procs[p].at # "idle" /\ procs[q].at # "idle" => p = q

\* One request at a time: one live session continues each login, and a login
\* that ended is continued by none (logout, logoutAllSessions, refreshAuth).
LoginInv == LoginsStayEnded /\ LoginsExist /\ OneSessionPerLogin /\ RefreshInv

\* No session was refreshed yet from a token whose refresh is under way.
SuccessorInv ==
    /\ RotatedOnce
    /\ \A p \in Procs :
          procs[p].op = "refresh" /\ procs[p].at \in {"rotating", "savingSession"} =>
             \A s \in Tokens : parent[s] # procs[p].token

Pin(t) == Stored(t) /\ tokens[t].type = "pin"

\* From the deletion of the earlier PINs to the next one the user has none.
PinInv ==
    /\ OnePinPerUser
    /\ \A p \in Procs :
          /\ procs[p].at = "savingPin" => procs[p].op = "login"
          /\ procs[p].op = "login" =>
                /\ procs[p].at \in {"deletingPins", "savingSession", "savingPin", "answering"}
                /\ procs[p].at \in {"savingSession", "savingPin"} =>
                      \A t \in Tokens : Pin(t) => tokens[t].user # procs[p].user

\* The document of a request that uses it: not honoured yet, and deleted when
\* the request is about to be answered.
Using(r, type, steps) ==
    /\ r.at \in steps \union {"answering"} /\ r.code = NoCode
    /\ r.token \in Tokens /\ uses[r.token] = 0
    /\ tokens[r.token].type = type /\ tokens[r.token].user = r.user
    /\ tokens[r.token].state # "absent"
    /\ r.at = "answering" => tokens[r.token].state = "deleted"

\* The code of a request that uses one: saved as used before the session is.
UsingCode(r) ==
    /\ r.at \in {"findingCode", "savingCode", "savingSession", "deletingPins", "answering"}
    /\ r.code \in Codes
    /\ r.at # "findingCode" => uses[r.code] = 0
    /\ r.at \notin {"findingCode", "savingCode"} => codes[r.code].state \in {"used", "deleted"}

\* What was honoured was honoured once and is gone.
UseInv ==
    /\ \A t \in Tokens : uses[t] # 0 => uses[t] = 1 /\ tokens[t].state = "deleted"
    /\ \A c \in Codes : uses[c] # 0 => uses[c] = 1 /\ codes[c].state \in {"used", "deleted"}
    /\ \A p \in Procs :
          /\ procs[p].op = "confirm" => \/ Using(procs[p], "pin", {"savingSession", "deletingPins"})
                                        \/ UsingCode(procs[p])
          /\ procs[p].op = "reset" => Using(procs[p], "resetPassword", {"deletingResets"})
          /\ procs[p].op # "confirm" => procs[p].code = NoCode
=============================================================================
