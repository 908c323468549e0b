-------------------------- MODULE AuthTokensProofs --------------------------
(* Proofs about AuthTokens: types and rotation with any number of requests *)
(* in progress; and, when requests do not overlap, that a session has one  *)
(* successor, that logging out is final, that one PIN works, and that a    *)
(* PIN, a reset link and a recovery code are honoured once.                *)
EXTENDS MCAuthTokens, TLAPS

Ops == {"none", "login", "confirm", "oauth", "refresh", "end", "endAll",
        "forgot", "reset", "generate", "revokeCodes"}

-----------------------------------------------------------------------------
(* Types.                                                                  *)

LEMMA RequestType ==
  ASSUME NEW op \in Ops, NEW at \in Steps, NEW u \in Users \union {NoUser},
         NEW t \in Tokens \union {NoToken}, NEW c \in Codes \union {NoCode}
  PROVE  [op |-> op, at |-> at, user |-> u, token |-> t, code |-> c,
          made |-> NoToken] \in Request
  BY DEF Request, Ops

LEMMA IdleType == Idle \in Request
  BY DEF Idle, Request, Steps

LEMMA RequestAt ==
  ASSUME NEW r \in Request, NEW at \in Steps
  PROVE  [r EXCEPT !.at = at] \in Request
  BY DEF Request

LEMMA RequestMade ==
  ASSUME NEW r \in Request, NEW at \in Steps, NEW t \in Tokens
  PROVE  [r EXCEPT !.at = at, !.made = t] \in Request
  BY DEF Request

LEMMA RequestFields ==
  ASSUME NEW r \in Request
  PROVE  /\ r.op \in Ops /\ r.at \in Steps /\ r.user \in Users \union {NoUser}
         /\ r.token \in Tokens \union {NoToken} /\ r.code \in Codes \union {NoCode}
         /\ r.made \in Tokens \union {NoToken}
  BY DEF Request, Ops

LEMMA TokenState ==
  ASSUME NEW d \in Token, NEW s \in {"absent", "live", "blacklisted", "deleted"}
  PROVE  [d EXCEPT !.state = s] \in Token
  BY DEF Token

LEMMA TokenExpired ==
  ASSUME NEW d \in Token
  PROVE  [d EXCEPT !.expired = TRUE] \in Token
  BY DEF Token

LEMMA NewToken ==
  ASSUME NEW type \in Types, NEW u \in Users \union {NoUser}
  PROVE  [state |-> "live", type |-> type, user |-> u, expired |-> FALSE] \in Token
  BY DEF Token

LEMMA InitType == Init => TypeOK
<1>1. [state |-> "absent", type |-> "none", user |-> NoUser, expired |-> FALSE] \in Token
  BY DEF Token
<1>2. [state |-> "absent", user |-> NoUser] \in Code
  BY DEF Code
<1>3. QED
  BY <1>1, <1>2, IdleType DEF Init, TypeOK

LEMMA BeginType ==
  ASSUME TypeOK, NEW p \in Procs, NEW op \in Ops, NEW at \in Steps,
         NEW u \in Users \union {NoUser}, NEW t \in Tokens \union {NoToken},
         NEW c \in Codes \union {NoCode}, Begin(p, op, at, u, t, c)
  PROVE  TypeOK'
<1>1. procs' \in [Procs -> Request]
  BY RequestType DEF TypeOK, Begin
<1>2. QED
  BY <1>1 DEF TypeOK, Begin

LEMMA CallType ==
  ASSUME TypeOK, NEW p \in Procs, Call(p)
  PROVE  TypeOK'
<1>1. \A t \in Tokens : tokens[t].user \in Users \union {NoUser}
  BY DEF TypeOK, Token
<1>2. CASE \E u \in Users : RequestLogin(p, u) \/ OauthCallback(p, u) \/ ForgotPassword(p, u)
  <2>1. PICK u \in Users : RequestLogin(p, u) \/ OauthCallback(p, u) \/ ForgotPassword(p, u)
    BY <1>2
  <2>2. QED
    BY <2>1, BeginType
    DEF RequestLogin, OauthCallback, ForgotPassword, Ops, Steps
<1>3. ASSUME NEW t \in Tokens,
             \/ ResendLoginRequest(p, t) \/ ConfirmLogin(p, t) \/ RefreshAuth(p, t)
             \/ Logout(p, t) \/ LogoutAllSessions(p, t) \/ ResetPassword(p, t)
             \/ GenerateRecoveryCodes(p, t) \/ RevokeAllRecoveryCodes(p, t)
      PROVE  TypeOK'
  BY <1>1, <1>3, BeginType
  DEF ResendLoginRequest, ConfirmLogin, RefreshAuth, Logout, LogoutAllSessions,
      ResetPassword, GenerateRecoveryCodes, RevokeAllRecoveryCodes, Ops, Steps
<1>4. ASSUME NEW t \in Tokens, NEW c \in Codes, ConfirmWithCode(p, t, c)
      PROVE  TypeOK'
  BY <1>1, <1>4, BeginType DEF ConfirmWithCode, Ops, Steps
<1>5. ASSUME NEW t \in Tokens, NEW s \in Tokens,
             RevokeOwnedSession(p, t, s) \/ BlacklistTokens(p, t, s)
      PROVE  TypeOK'
  BY <1>1, <1>5, BeginType DEF RevokeOwnedSession, BlacklistTokens, Ops, Steps
<1>6. QED
  BY <1>2, <1>3, <1>4, <1>5 DEF Call

LEMMA GoToType ==
  ASSUME TypeOK, NEW p \in Procs, NEW at \in Steps, GoTo(p, at)
  PROVE  procs' \in [Procs -> Request]
  BY RequestAt DEF TypeOK, GoTo

LEMMA BlacklistedType ==
  ASSUME TypeOK, NEW t \in Tokens
  PROVE  Blacklisted(t) \in Token
  BY TokenState DEF TypeOK, Blacklisted

LEMMA DeleteTokensType ==
  ASSUME TypeOK, NEW u, NEW type, DeleteTokens(u, type)
  PROVE  tokens' \in [Tokens -> Token]
  BY TokenState DEF TypeOK, DeleteTokens

LEMMA SaveTokenType ==
  ASSUME TypeOK, NEW t \in Tokens, NEW type \in Types,
         NEW u \in Users \union {NoUser}, SaveToken(t, type, u)
  PROVE  tokens' \in [Tokens -> Token]
  BY NewToken DEF TypeOK, SaveToken

LEMMA StepType ==
  ASSUME TypeOK, NEW p \in Procs, Step(p)
  PROVE  TypeOK'
<1> DEFINE r == procs[p]
<1>0. r \in Request
  BY DEF TypeOK
<1> HIDE DEF r
<1>1. CASE DeletePins(p)
  <2>1. tokens' \in [Tokens -> Token]
    BY <1>1, DeleteTokensType DEF DeletePins
  <2>2. procs' \in [Procs -> Request]
    BY <1>1, GoToType DEF DeletePins, Steps
  <2>3. QED
    BY <1>1, <2>1, <2>2 DEF DeletePins, TypeOK
<1>2. CASE SaveSession(p)
  <2> DEFINE from == IF r.op = "refresh" THEN r.token ELSE NoToken
  <2>1. PICK t \in Tokens, next \in Steps :
           /\ SaveToken(t, "refresh", r.user)
           /\ procs' = [procs EXCEPT ![p].at = next, ![p].made = t]
           /\ parent' = [parent EXCEPT ![t] = from]
           /\ login' = [login EXCEPT ![t] = IF from = NoToken THEN t ELSE login[from]]
    BY <1>2 DEF SaveSession, r, Steps
  <2>2. from \in Tokens \union {NoToken}
    BY <1>0, RequestFields
  <2>3. tokens' \in [Tokens -> Token]
    BY <1>0, <2>1, RequestFields, SaveTokenType DEF Types
  <2>4. procs' \in [Procs -> Request]
    BY <2>1, RequestMade DEF TypeOK
  <2> HIDE DEF from
  <2>5. /\ parent' \in [Tokens -> Tokens \union {NoToken}]
        /\ login' \in [Tokens -> Tokens \union {NoToken}]
    BY <2>1, <2>2 DEF TypeOK
  <2>6. QED
    BY <1>2, <2>3, <2>4, <2>5 DEF SaveSession, TypeOK
<1>3. CASE SavePin(p) \/ SaveReset(p)
  <2>1. PICK t \in Tokens, type \in Types :
           /\ SaveToken(t, type, r.user)
           /\ procs' = [procs EXCEPT ![p].at = "answering", ![p].made = t]
    BY <1>3 DEF SavePin, SaveReset, SaveDocument, Types, r
  <2>2. tokens' \in [Tokens -> Token]
    BY <1>0, <2>1, RequestFields, SaveTokenType
  <2>3. procs' \in [Procs -> Request]
    BY <2>1, RequestMade DEF TypeOK, Steps
  <2>4. QED
    BY <1>3, <2>2, <2>3 DEF SavePin, SaveReset, SaveDocument, TypeOK
<1>4. CASE FindCode(p)
  <2>1. procs' \in [Procs -> Request]
    BY <1>4, RequestAt, IdleType DEF FindCode, TypeOK, Steps
  <2>2. QED
    BY <1>4, <2>1 DEF FindCode, TypeOK
<1>5. CASE SaveCode(p)
  <2>1. procs' \in [Procs -> Request]
    BY <1>5, GoToType, IdleType DEF SaveCode, TypeOK, Steps
  <2>2. \A c \in Codes : [codes[c] EXCEPT !.state = "used"] \in Code
    BY DEF TypeOK, Code
  <2>3. codes' \in [Codes -> Code]
    BY <1>5, <2>2 DEF SaveCode, TypeOK
  <2>4. QED
    BY <1>5, <2>1, <2>3 DEF SaveCode, TypeOK
<1>6. CASE Rotate(p)
  <2>1. tokens' \in [Tokens -> Token]
    BY <1>6, BlacklistedType DEF Rotate, TypeOK
  <2>2. procs' \in [Procs -> Request]
    BY <1>6, GoToType DEF Rotate, Steps
  <2>3. QED
    BY <1>6, <2>1, <2>2 DEF Rotate, TypeOK
<1>7. CASE EndSession(p) \/ EndAllSessions(p)
  <2>1. PICK documents \in SUBSET Tokens :
           /\ tokens' = [t \in Tokens |-> IF t \in documents THEN Blacklisted(t)
                                          ELSE tokens[t]]
           /\ ended' = ended \union LoginsOf(documents)
    <3>1. CASE EndSession(p)
      <4> WITNESS {t \in Tokens : t = procs[p].token /\ tokens[t].state = "live"}
                  \in SUBSET Tokens
      <4> QED
        BY <3>1 DEF EndSession
    <3>2. CASE EndAllSessions(p)
      <4> WITNESS {t \in Tokens : Stored(t) /\ tokens[t].user = procs[p].user}
                  \in SUBSET Tokens
      <4> QED
        BY <3>2 DEF EndAllSessions
    <3>3. QED
      BY <1>7, <3>1, <3>2
  <2>2. tokens' \in [Tokens -> Token]
    BY <2>1, BlacklistedType DEF TypeOK
  <2>3. procs' \in [Procs -> Request]
    BY <1>7, GoToType DEF EndSession, EndAllSessions, Steps
  <2>4. LoginsOf(documents) \subseteq Tokens \union {NoToken}
    BY DEF LoginsOf, TypeOK
  <2>5. ended' \subseteq Tokens \union {NoToken}
    BY <2>1, <2>4 DEF TypeOK
  <2>6. QED
    BY <1>7, <2>2, <2>3, <2>5 DEF EndSession, EndAllSessions, TypeOK
<1>9. CASE DeleteResets(p)
  <2>1. tokens' \in [Tokens -> Token]
    BY <1>9, DeleteTokensType DEF DeleteResets
  <2>2. procs' \in [Procs -> Request]
    BY <1>9, GoToType DEF DeleteResets, Steps
  <2>3. QED
    BY <1>9, <2>1, <2>2 DEF DeleteResets, TypeOK
<1>10. CASE DeleteCodes(p) \/ InsertCodes(p)
  <2>1. procs' \in [Procs -> Request]
    BY <1>10, GoToType DEF DeleteCodes, InsertCodes, Steps
  <2>2. \A c \in Codes : [codes[c] EXCEPT !.state = "deleted"] \in Code
    BY DEF TypeOK, Code
  <2>3. [state |-> "unused", user |-> r.user] \in Code
    BY <1>0, RequestFields DEF Code
  <2>4. codes' \in [Codes -> Code]
    BY <1>10, <2>2, <2>3 DEF DeleteCodes, InsertCodes, TypeOK, r
  <2>5. QED
    BY <1>10, <2>1, <2>4 DEF DeleteCodes, InsertCodes, TypeOK
<1>11. CASE Answer(p)
  <2>1. procs' \in [Procs -> Request] /\ uses' \in [Tokens \union Codes -> Nat]
    BY <1>11, IdleType DEF Answer, TypeOK
  <2>2. held' \subseteq Tokens
    BY <1>0, <1>11, RequestFields DEF Answer, TypeOK, r
  <2>3. QED
    BY <1>11, <2>1, <2>2 DEF Answer, TypeOK
<1>12. QED
  BY <1>1, <1>2, <1>3, <1>4, <1>5, <1>6, <1>7, <1>9, <1>10, <1>11 DEF Step

LEMMA NextType == TypeOK /\ [Next]_vars => TypeOK'
<1> SUFFICES ASSUME TypeOK, [Next]_vars PROVE TypeOK'
  OBVIOUS
<1>1. ASSUME NEW p \in Procs, Crash(p) PROVE TypeOK'
  BY <1>1, IdleType DEF Crash, TypeOK
<1>2. ASSUME NEW t \in Tokens, Expire(t) PROVE TypeOK'
  BY <1>2, TokenExpired DEF Expire, TypeOK
<1>3. CASE UNCHANGED vars
  BY <1>3 DEF vars, TypeOK
<1>4. QED
  BY <1>1, <1>2, <1>3, CallType, StepType DEF Next

\* Every document stays within its schema, whatever requests meet.
THEOREM TypeCorrect == Spec => []TypeOK
  BY InitType, NextType, PTL DEF Spec

-----------------------------------------------------------------------------
(* What the steps do to the documents and to the requests.                 *)

Refreshing(r) == /\ r.at = "rotating" /\ r.token \in Tokens
                 /\ Live(r.token, "refresh") /\ r.user = tokens[r.token].user

Begun(r) ==
  /\ r.at \notin {"idle", "savingPin"}
  /\ r.op = "refresh" => Refreshing(r)
  /\ r.op = "login" => r.at = "deletingPins"
  /\ r.op = "confirm" =>
        \/ /\ r.at = "savingSession" /\ r.code = NoCode /\ r.token \in Tokens
           /\ Pin(r.token) /\ r.user = tokens[r.token].user
        \/ r.at = "findingCode" /\ r.code \in Codes
  /\ r.op = "reset" =>
        /\ r.at = "deletingResets" /\ r.token \in Tokens
        /\ Live(r.token, "resetPassword") /\ r.user = tokens[r.token].user
  /\ r.op # "confirm" => r.code = NoCode

LEMMA BeginEffect ==
  ASSUME TypeOK, NEW p \in Procs, NEW op, NEW at, NEW u, NEW t, NEW c,
         Begin(p, op, at, u, t, c),
         Begun([op |-> op, at |-> at, user |-> u, token |-> t, code |-> c,
                made |-> NoToken])
  PROVE  /\ UNCHANGED <<tokens, codes, held, parent, login, uses, ended>>
         /\ procs[p].at = "idle"
         /\ \A q \in Procs : q # p => procs'[q] = procs[q]
         /\ Begun(procs'[p])
<1>1. procs'[p] = [op |-> op, at |-> at, user |-> u, token |-> t, code |-> c,
                   made |-> NoToken]
  BY DEF Begin, TypeOK
<1>2. QED
  BY <1>1 DEF Begin, TypeOK

\* A request that begins changes no document, and has verified the document it
\* was given.
LEMMA CallEffect ==
  ASSUME TypeOK, NEW p \in Procs, Call(p)
  PROVE  /\ UNCHANGED <<tokens, codes, held, parent, login, uses, ended>>
         /\ procs[p].at = "idle"
         /\ \A q \in Procs : q # p => procs'[q] = procs[q]
         /\ Begun(procs'[p])
<1> DEFINE Goal == /\ UNCHANGED <<tokens, codes, held, parent, login, uses, ended>>
                   /\ procs[p].at = "idle"
                   /\ \A q \in Procs : q # p => procs'[q] = procs[q]
                   /\ Begun(procs'[p])
<1> HIDE DEF Goal
<1>0. \A op, at, u, t, c :
         /\ Begin(p, op, at, u, t, c)
         /\ Begun([op |-> op, at |-> at, user |-> u, token |-> t, code |-> c,
                   made |-> NoToken])
         => Goal
  BY BeginEffect DEF Goal
<1>1. ASSUME NEW u \in Users, RequestLogin(p, u) \/ OauthCallback(p, u) \/ ForgotPassword(p, u)
      PROVE  Goal
  BY <1>0, <1>1 DEF RequestLogin, OauthCallback, ForgotPassword, Begun
<1>2. ASSUME NEW t \in Tokens, RefreshAuth(p, t) \/ ConfirmLogin(p, t)
      PROVE  Goal
  BY <1>0, <1>2 DEF RefreshAuth, ConfirmLogin, Begun, Refreshing, Pin
<1>3. ASSUME NEW t \in Tokens,
             \/ ResendLoginRequest(p, t)
             \/ Logout(p, t) \/ LogoutAllSessions(p, t) \/ ResetPassword(p, t)
             \/ GenerateRecoveryCodes(p, t) \/ RevokeAllRecoveryCodes(p, t)
      PROVE  Goal
  BY <1>0, <1>3
  DEF ResendLoginRequest, Logout, LogoutAllSessions,
      ResetPassword, GenerateRecoveryCodes, RevokeAllRecoveryCodes, Begun
<1>4. ASSUME NEW t \in Tokens, NEW c \in Codes, ConfirmWithCode(p, t, c)
      PROVE  Goal
  BY <1>0, <1>4 DEF ConfirmWithCode, Begun
<1>5. ASSUME NEW t \in Tokens, NEW s \in Tokens,
             RevokeOwnedSession(p, t, s) \/ BlacklistTokens(p, t, s)
      PROVE  Goal
  BY <1>0, <1>5 DEF RevokeOwnedSession, BlacklistTokens, Begun
<1>6. Goal
  BY <1>1, <1>2, <1>3, <1>4, <1>5 DEF Call
<1>7. QED
  BY <1>6 DEF Goal

Blacklisting(documents) ==
  tokens' = [t \in Tokens |-> IF t \in documents THEN Blacklisted(t) ELSE tokens[t]]

\* The five things a step does to the documents.
LEMMA DocumentsEffect ==
  ASSUME TypeOK, [Next]_vars
  PROVE  \/ UNCHANGED tokens
         \/ \E t \in Tokens, type \in Types, u \in Users \union {NoUser} : SaveToken(t, type, u)
         \/ \E u \in Users \union {NoUser}, type \in Types : DeleteTokens(u, type)
         \/ \E documents \in SUBSET Tokens : Blacklisting(documents)
         \/ \E t \in Tokens : tokens' = [tokens EXCEPT ![t].expired = TRUE]
<1> DEFINE Goal ==
         \/ UNCHANGED tokens
         \/ \E t \in Tokens, type \in Types, u \in Users \union {NoUser} : SaveToken(t, type, u)
         \/ \E u \in Users \union {NoUser}, type \in Types : DeleteTokens(u, type)
         \/ \E documents \in SUBSET Tokens : Blacklisting(documents)
         \/ \E t \in Tokens : tokens' = [tokens EXCEPT ![t].expired = TRUE]
<1>1. ASSUME NEW p \in Procs, Step(p) PROVE Goal
  <2>0. procs[p].user \in Users \union {NoUser}
    BY RequestFields DEF TypeOK
  <2>1. CASE DeletePins(p) \/ DeleteResets(p)
    BY <2>0, <2>1 DEF DeletePins, DeleteResets, Types
  <2>2. CASE SaveSession(p) \/ SavePin(p) \/ SaveReset(p)
    BY <2>0, <2>2 DEF SaveSession, SavePin, SaveReset, SaveDocument, Types
  <2>3. CASE FindCode(p) \/ SaveCode(p) \/ DeleteCodes(p) \/ InsertCodes(p) \/ Answer(p)
    BY <2>3 DEF FindCode, SaveCode, DeleteCodes, InsertCodes, Answer
  <2>4. CASE Rotate(p)
    <3> DEFINE one == {t \in Tokens : t = procs[p].token}
    <3>1. Blacklisting(one)
      BY <2>4 DEF Rotate, Blacklisting, TypeOK
    <3> HIDE DEF one
    <3>2. one \in SUBSET Tokens
      BY DEF one
    <3>3. QED
      BY <3>1, <3>2
  <2>5. CASE EndSession(p) \/ EndAllSessions(p)
    BY <2>5 DEF EndSession, EndAllSessions, Blacklisting
  <2>6. QED
    BY <1>1, <2>1, <2>2, <2>3, <2>4, <2>5 DEF Step
<1>2. ASSUME NEW p \in Procs, Crash(p) PROVE Goal
  BY <1>2 DEF Crash
<1>3. ASSUME NEW t \in Tokens, Expire(t) PROVE Goal
  BY <1>3 DEF Expire
<1>4. ASSUME NEW p \in Procs, Call(p) PROVE Goal
  BY <1>4, CallEffect
<1>5. QED
  BY <1>1, <1>2, <1>3, <1>4 DEF Next, vars

\* A document keeps its owner and its type, and never lives twice.
LEMMA DocumentsAge ==
  ASSUME TypeOK, [Next]_vars, NEW t \in Tokens, tokens[t].state # "absent"
  PROVE  /\ tokens'[t].state # "absent"
         /\ Spent(t) => Spent(t)'
         /\ tokens[t].state = "deleted" => tokens'[t].state = "deleted"
         /\ tokens'[t].user = tokens[t].user /\ tokens'[t].type = tokens[t].type
<1>0. tokens[t] \in Token /\ DOMAIN tokens = Tokens
  BY DEF TypeOK
<1>1. CASE UNCHANGED tokens
  BY <1>1 DEF Spent
<1>2. ASSUME NEW s \in Tokens, NEW type, NEW u, SaveToken(s, type, u)
      PROVE  tokens'[t] = tokens[t]
  BY <1>0, <1>2 DEF SaveToken
<1>3. ASSUME NEW type, NEW u, DeleteTokens(u, type)
      PROVE  tokens'[t] = tokens[t] \/ tokens'[t] = [tokens[t] EXCEPT !.state = "deleted"]
  BY <1>3 DEF DeleteTokens
<1>4. ASSUME NEW documents \in SUBSET Tokens, Blacklisting(documents)
      PROVE  \/ tokens'[t] = tokens[t]
             \/ tokens[t].state = "live" /\ tokens'[t] = [tokens[t] EXCEPT !.state = "blacklisted"]
  BY <1>4 DEF Blacklisting, Blacklisted
<1>5. ASSUME NEW s \in Tokens, tokens' = [tokens EXCEPT ![s].expired = TRUE]
      PROVE  tokens'[t] = tokens[t] \/ tokens'[t] = [tokens[t] EXCEPT !.expired = TRUE]
  BY <1>0, <1>5
<1>6. \/ tokens'[t] = tokens[t]
      \/ tokens'[t] = [tokens[t] EXCEPT !.state = "deleted"]
      \/ tokens[t].state = "live" /\ tokens'[t] = [tokens[t] EXCEPT !.state = "blacklisted"]
      \/ tokens'[t] = [tokens[t] EXCEPT !.expired = TRUE]
  BY <1>1, <1>2, <1>3, <1>4, <1>5, DocumentsEffect
<1>7. QED
  BY <1>0, <1>6 DEF Spent, Token

RefreshAt(p) == procs[p].op = "refresh" =>
                   procs[p].at \in {"rotating", "savingSession", "answering"}

\* A request that is still refreshing after a step of its own has rotated its
\* token or has created the session that follows it.
LEMMA RefreshStep ==
  ASSUME TypeOK, NEW p \in Procs, Step(p), RefreshAt(p)
  PROVE  /\ \A q \in Procs : q # p => procs'[q] = procs[q]
         /\ procs'[p].op = "refresh" =>
               /\ procs[p].op = "refresh" /\ procs'[p].token = procs[p].token
               /\ procs'[p].user = procs[p].user
               /\ \/ Rotate(p) /\ procs'[p].at = "savingSession"
                  \/ SaveSession(p) /\ procs'[p].at = "answering"
<1>0. procs[p] \in Request /\ DOMAIN procs = Procs /\ Idle \in Request
  BY IdleType DEF TypeOK
<1>1. CASE DeletePins(p)
  BY <1>0, <1>1 DEF DeletePins, GoTo, RefreshAt, Request
<1>2. CASE SaveSession(p)
  <2>1. PICK t \in Tokens, next \in Steps :
           /\ procs' = [procs EXCEPT ![p].at = next, ![p].made = t]
           /\ procs[p].op = "refresh" => next = "answering"
    BY <1>2 DEF SaveSession, Steps
  <2>2. /\ \A q \in Procs : q # p => procs'[q] = procs[q]
        /\ procs'[p] = [procs[p] EXCEPT !.at = next, !.made = t]
    BY <1>0, <2>1
  <2>3. QED
    BY <1>0, <1>2, <2>1, <2>2 DEF Request
<1>3. CASE SavePin(p) \/ SaveReset(p)
  BY <1>0, <1>3 DEF SavePin, SaveReset, SaveDocument, RefreshAt, Request
<1>4. CASE FindCode(p) \/ SaveCode(p) \/ Answer(p)
  BY <1>0, <1>4 DEF FindCode, SaveCode, Answer, Idle, GoTo, RefreshAt, Request
<1>5. CASE Rotate(p)
  BY <1>0, <1>5 DEF Rotate, GoTo, Request
<1>6. CASE EndSession(p) \/ EndAllSessions(p) \/ DeleteResets(p) \/ DeleteCodes(p)
           \/ InsertCodes(p)
  BY <1>0, <1>6
  DEF EndSession, EndAllSessions, DeleteResets, DeleteCodes, InsertCodes, GoTo,
      RefreshAt, Request
<1>7. QED
  BY <1>1, <1>2, <1>3, <1>4, <1>5, <1>6 DEF Step

-----------------------------------------------------------------------------
(* Rotation, with any number of requests at a time.                        *)

ParentsSpent == \A t \in Tokens : parent[t] # NoToken => Spent(parent[t])

RefreshSpends(p) ==
  procs[p].op = "refresh" =>
     /\ procs[p].at \in {"rotating", "savingSession", "answering"}
     /\ procs[p].token \in Tokens
     /\ procs[p].at = "rotating" => tokens[procs[p].token].state # "absent"
     /\ procs[p].at = "savingSession" => Spent(procs[p].token)

LEMMA RotationParts == RotationInv <=> ParentsSpent /\ \A p \in Procs : RefreshSpends(p)
  BY DEF RotationInv, ParentsSpent, RefreshSpends

\* Documents age, so what a waiting request relies on stays true.
LEMMA RefreshSpendsStands ==
  ASSUME TypeOK, [Next]_vars, NEW p \in Procs, RefreshSpends(p), procs'[p] = procs[p]
  PROVE  RefreshSpends(p)'
<1>1. procs[p].op = "refresh" /\ procs[p].token \in Tokens
      /\ tokens[procs[p].token].state # "absent" =>
         /\ tokens'[procs[p].token].state # "absent"
         /\ Spent(procs[p].token) => tokens'[procs[p].token].state \in {"blacklisted", "deleted"}
  BY DocumentsAge DEF Spent
<1>2. QED
  BY <1>1 DEF RefreshSpends, Spent

LEMMA ParentsStand ==
  ASSUME TypeOK, [Next]_vars, NEW t \in Tokens, Spent(t)
  PROVE  tokens'[t].state \in {"blacklisted", "deleted"}
  BY DocumentsAge DEF Spent

LEMMA RotationStep ==
  ASSUME AuthAssumption, TypeOK, RotationInv, [Next]_vars
  PROVE  RotationInv'
<1>0. ParentsSpent /\ \A p \in Procs : RefreshSpends(p)
  BY RotationParts
<1>1. \A t \in Tokens : parent[t] \in Tokens \union {NoToken}
  BY DEF TypeOK
<1>2. \A t \in Tokens : parent[t] # NoToken => tokens'[parent[t]].state \in {"blacklisted", "deleted"}
  BY <1>0, <1>1, ParentsStand DEF ParentsSpent
<1>3. UNCHANGED parent => ParentsSpent'
  BY <1>2 DEF ParentsSpent, Spent
<1>4. ASSUME NEW p \in Procs, Step(p)
      PROVE  ParentsSpent' /\ \A q \in Procs : RefreshSpends(q)'
  <2>0. RefreshAt(p)
    BY <1>0 DEF RefreshSpends, RefreshAt
  <2>1. ParentsSpent'
    <3>1. CASE SaveSession(p)
      <4> DEFINE from == IF procs[p].op = "refresh" THEN procs[p].token ELSE NoToken
      <4>1. PICK t \in Tokens : parent' = [parent EXCEPT ![t] = from]
        BY <3>1 DEF SaveSession
      <4>2. from # NoToken => from \in Tokens /\ Spent(from)
        BY <1>0, <3>1 DEF RefreshSpends, SaveSession
      <4> HIDE DEF from
      <4>3. from # NoToken => tokens'[from].state \in {"blacklisted", "deleted"}
        BY <4>2, ParentsStand
      <4>4. \A s \in Tokens : parent'[s] = parent[s] \/ parent'[s] = from
        BY <4>1 DEF TypeOK
      <4>5. QED
        BY <1>2, <4>3, <4>4 DEF ParentsSpent, Spent
    <3>2. CASE ~SaveSession(p)
      <4>1. UNCHANGED parent
        BY <1>4, <3>2
        DEF Step, DeletePins, SavePin, SaveReset, SaveDocument, FindCode, SaveCode,
            Rotate, EndSession, EndAllSessions, DeleteResets, DeleteCodes,
            InsertCodes, Answer
      <4>2. QED
        BY <1>3, <4>1
    <3>3. QED
      BY <3>1, <3>2
  <2>2. \A q \in Procs : q # p => RefreshSpends(q)'
    BY <1>0, <1>4, <2>0, RefreshStep, RefreshSpendsStands
  <2>3. RefreshSpends(p)'
    <3>1. SUFFICES ASSUME procs'[p].op = "refresh" PROVE RefreshSpends(p)'
      BY DEF RefreshSpends
    <3>2. /\ procs[p].op = "refresh" /\ procs'[p].token = procs[p].token
          /\ \/ Rotate(p) /\ procs'[p].at = "savingSession"
             \/ SaveSession(p) /\ procs'[p].at = "answering"
      BY <1>4, <2>0, <3>1, RefreshStep
    <3>3. CASE SaveSession(p) /\ procs'[p].at = "answering"
      BY <1>0, <3>2, <3>3 DEF RefreshSpends
    <3>4. CASE Rotate(p) /\ procs'[p].at = "savingSession"
      <4> DEFINE t == procs[p].token
      <4>1. t \in Tokens /\ tokens[t].state # "absent" /\ tokens[t] \in Token
        BY <1>0, <3>2, <3>4 DEF RefreshSpends, Rotate, TypeOK
      <4>2. tokens'[t] = Blacklisted(t)
        BY <3>4, <4>1 DEF Rotate, TypeOK
      <4>3. tokens'[t].state \in {"blacklisted", "deleted"}
        BY <4>1, <4>2 DEF Blacklisted, Token
      <4>4. QED
        BY <3>2, <3>4, <4>1, <4>3 DEF RefreshSpends, Spent
    <3>5. QED
      BY <3>2, <3>3, <3>4
  <2>4. QED
    BY <2>1, <2>2, <2>3
<1>5. ASSUME NEW p \in Procs, Call(p)
      PROVE  ParentsSpent' /\ \A q \in Procs : RefreshSpends(q)'
  <2>1. /\ UNCHANGED <<tokens, parent>>
        /\ \A q \in Procs : q # p => procs'[q] = procs[q]
        /\ procs'[p].op = "refresh" => Refreshing(procs'[p])
    BY <1>5, CallEffect DEF Begun
  <2>2. RefreshSpends(p)'
    BY <2>1 DEF RefreshSpends, Refreshing, Live
  <2>3. QED
    BY <1>0, <1>3, <2>1, <2>2, RefreshSpendsStands
<1>6. ASSUME NEW p \in Procs, Crash(p)
      PROVE  ParentsSpent' /\ \A q \in Procs : RefreshSpends(q)'
  <2>1. /\ UNCHANGED parent
        /\ \A q \in Procs : q # p => procs'[q] = procs[q]
        /\ procs'[p].op = "none"
    BY <1>6 DEF Crash, TypeOK, Idle
  <2>2. RefreshSpends(p)'
    BY <2>1 DEF RefreshSpends
  <2>3. QED
    BY <1>0, <1>3, <2>1, <2>2, RefreshSpendsStands
<1>7. ASSUME UNCHANGED vars \/ \E t \in Tokens : Expire(t)
      PROVE  ParentsSpent' /\ \A q \in Procs : RefreshSpends(q)'
  <2>1. UNCHANGED <<procs, parent>>
    BY <1>7 DEF vars, Expire
  <2>2. QED
    BY <1>0, <1>3, <2>1, RefreshSpendsStands
<1>8. ParentsSpent' /\ \A q \in Procs : RefreshSpends(q)'
  BY <1>4, <1>5, <1>6, <1>7 DEF Next
<1>9. QED
  BY <1>8 DEF RotationInv, ParentsSpent, RefreshSpends, Spent

LEMMA InitRotation == AuthAssumption /\ Init => RotationInv
  BY DEF AuthAssumption, Init, RotationInv, Idle

\* What the rotation rests on, whatever the number of requests in progress.
THEOREM RotationHolds == Spec => []RotationInv
<1>1. Init => RotationInv
  BY AuthAssumption, InitRotation
<1>2. TypeOK /\ RotationInv /\ [Next]_vars => RotationInv'
  BY AuthAssumption, RotationStep
<1>3. QED
  BY <1>1, <1>2, TypeCorrect, PTL DEF Spec

\* A session never has a live successor while it is itself accepted, whatever
\* requests meet and wherever they die (refreshAuth).
THEOREM RotationSafe == Spec => []RotationRevokesParent
<1>1. RotationInv => RotationRevokesParent
  BY DEF RotationInv, RotationRevokesParent, Spent
<1>2. QED
  BY <1>1, RotationHolds, PTL

-----------------------------------------------------------------------------
(* Requests that do not overlap.                                           *)

RefreshReady(p) ==
  procs[p].op = "refresh" =>
     /\ procs[p].at \in {"rotating", "savingSession", "answering"}
     /\ procs[p].at \in {"rotating", "savingSession"} =>
           LET t == procs[p].token
           IN  /\ t \in Tokens /\ tokens[t].type = "refresh"
               /\ tokens[t].state # "absent" /\ tokens[t].user = procs[p].user
               /\ login[t] \notin ended
               /\ procs[p].at = "rotating" => Live(t, "refresh")
               /\ procs[p].at = "savingSession" =>
                     \A s \in Tokens : Live(s, "refresh") => login[s] # login[t]

LEMMA RefreshInvParts == RefreshInv <=> \A p \in Procs : RefreshReady(p)
  BY DEF RefreshInv, RefreshReady

\* A session that is live after a step and existed before it was live before.
LEMMA LiveBefore ==
  ASSUME TypeOK, [Next]_vars, NEW t \in Tokens, tokens[t].state # "absent",
         tokens'[t].state = "live" /\ tokens'[t].type = "refresh"
  PROVE  Live(t, "refresh")
<1>1. tokens[t].state \in {"absent", "live", "blacklisted", "deleted"}
  BY DEF TypeOK, Token
<1>2. QED
  BY <1>1, DocumentsAge DEF Spent, Live

\* A step that creates no session and ends no login leaves the logins right.
LEMMA LoginsStand ==
  ASSUME TypeOK, [Next]_vars, LoginsStayEnded, LoginsExist, OneSessionPerLogin,
         UNCHANGED <<login, ended>>,
         \A t \in Tokens : tokens'[t].state # "absent" /\ tokens'[t].type = "refresh" =>
                              tokens[t].state # "absent"
  PROVE  LoginsStayEnded' /\ LoginsExist' /\ OneSessionPerLogin'
<1>1. ASSUME NEW t \in Tokens, tokens'[t].state = "live", tokens'[t].type = "refresh"
      PROVE  Live(t, "refresh")
  BY <1>1, LiveBefore
<1>2. LoginsStayEnded'
  BY <1>1 DEF LoginsStayEnded, Live
<1>3. OneSessionPerLogin'
  BY <1>1 DEF OneSessionPerLogin, Live
<1>4. ASSUME NEW t \in Tokens, tokens'[t].state # "absent", tokens'[t].type = "refresh"
      PROVE  /\ login'[t] \in Tokens
             /\ tokens'[login'[t]].state # "absent"
             /\ tokens'[login'[t]].user = tokens'[t].user
  <2>1. /\ tokens[t].state # "absent" /\ tokens[t].type = "refresh"
        /\ tokens'[t].user = tokens[t].user
    BY <1>4, DocumentsAge
  <2>2. /\ login[t] \in Tokens /\ tokens[login[t]].state # "absent"
        /\ tokens[login[t]].user = tokens[t].user
    BY <2>1 DEF LoginsExist
  <2>3. QED
    BY <2>1, <2>2, DocumentsAge
<1>5. \A l \in ended' : l \in Tokens /\ tokens'[l].state # "absent"
  BY DocumentsAge DEF LoginsExist
<1>6. LoginsExist'
  BY <1>4, <1>5 DEF LoginsExist
<1>7. QED
  BY <1>2, <1>3, <1>6

\* Creating a session: of a new login, or of one that has no session left.
LEMMA SessionSaved ==
  ASSUME AuthAssumption, TypeOK, LoginInv, [Next]_vars, NEW p \in Procs, SaveSession(p)
  PROVE  LoginsStayEnded' /\ LoginsExist' /\ OneSessionPerLogin'
<1> DEFINE from == IF procs[p].op = "refresh" THEN procs[p].token ELSE NoToken
<1>1. PICK t \in Tokens :
         /\ SaveToken(t, "refresh", procs[p].user)
         /\ login' = [login EXCEPT ![t] = IF from = NoToken THEN t ELSE login[from]]
  BY DEF SaveSession
<1>2. /\ UNCHANGED ended
      /\ tokens[t].state = "absent"
      /\ tokens'[t].state = "live" /\ tokens'[t].type = "refresh"
      /\ tokens'[t].user = procs[p].user
      /\ \A s \in Tokens : s # t => tokens'[s] = tokens[s] /\ login'[s] = login[s]
      /\ login'[t] = IF from = NoToken THEN t ELSE login[from]
  BY <1>1 DEF SaveSession, SaveToken, TypeOK
<1>3. LoginsExist /\ LoginsStayEnded /\ OneSessionPerLogin /\ RefreshInv
  BY DEF LoginInv
<1>4. /\ login'[t] \in Tokens /\ tokens'[login'[t]].state # "absent"
      /\ tokens'[login'[t]].user = tokens'[t].user
      /\ login'[t] \notin ended
      /\ \A s \in Tokens : Live(s, "refresh") => login[s] # login'[t]
  <2>1. CASE from = NoToken
    BY <1>2, <1>3, <2>1 DEF LoginsExist, Live
  <2>2. CASE from # NoToken
    <3>1. /\ from \in Tokens /\ tokens[from].type = "refresh"
          /\ tokens[from].state # "absent" /\ tokens[from].user = procs[p].user
          /\ login[from] \notin ended
          /\ \A s \in Tokens : Live(s, "refresh") => login[s] # login[from]
      BY <1>3, <2>2 DEF RefreshInv, SaveSession
    <3> HIDE DEF from
    <3>2. /\ login[from] \in Tokens /\ tokens[login[from]].state # "absent"
          /\ tokens[login[from]].user = procs[p].user
      BY <1>3, <3>1 DEF LoginsExist
    <3>3. QED
      BY <1>2, <2>2, <3>1, <3>2
  <2>3. QED
    BY <2>1, <2>2
<1> HIDE DEF from
<1>5. LoginsStayEnded'
  BY <1>2, <1>3, <1>4 DEF LoginsStayEnded, Live
<1>6. OneSessionPerLogin'
  BY <1>2, <1>3, <1>4 DEF OneSessionPerLogin, Live
<1>7. ASSUME NEW s \in Tokens, s # t, tokens[s].state # "absent", tokens[s].type = "refresh"
      PROVE  /\ login'[s] \in Tokens /\ tokens'[login'[s]].state # "absent"
             /\ tokens'[login'[s]].user = tokens'[s].user
  BY <1>2, <1>3, <1>7 DEF LoginsExist
<1>8. \A l \in ended' : l \in Tokens /\ tokens'[l].state # "absent"
  BY <1>2, <1>3 DEF LoginsExist
<1>9. LoginsExist'
  BY <1>2, <1>4, <1>7, <1>8 DEF LoginsExist
<1>10. QED
  BY <1>5, <1>6, <1>9

\* Ending sessions: every session of the logins that end is among them.
LEMMA SessionsEnded ==
  ASSUME TypeOK, LoginInv, [Next]_vars, NEW p \in Procs, EndSession(p) \/ EndAllSessions(p)
  PROVE  LoginsStayEnded' /\ LoginsExist' /\ OneSessionPerLogin'
<1>0. LoginsExist /\ LoginsStayEnded /\ OneSessionPerLogin
  BY DEF LoginInv
<1>1. PICK documents \in SUBSET Tokens :
         /\ tokens' = [t \in Tokens |-> IF t \in documents THEN Blacklisted(t)
                                        ELSE tokens[t]]
         /\ ended' = ended \union LoginsOf(documents)
         /\ \A x \in documents : tokens[x].state # "absent"
         /\ \A x \in documents, s \in Tokens :
               tokens[x].type = "refresh" /\ Live(s, "refresh") /\ login[s] = login[x] =>
                  s \in documents
  <2>1. CASE EndSession(p)
    <3> WITNESS {t \in Tokens : t = procs[p].token /\ tokens[t].state = "live"}
                \in SUBSET Tokens
    <3> QED
      BY <1>0, <2>1 DEF EndSession, OneSessionPerLogin, Live
  <2>2. CASE EndAllSessions(p)
    <3> DEFINE mine == {t \in Tokens : Stored(t) /\ tokens[t].user = procs[p].user}
    <3>1. ASSUME NEW x \in mine, NEW s \in Tokens, tokens[x].type = "refresh",
                 Live(s, "refresh"), login[s] = login[x]
          PROVE  s \in mine
      BY <1>0, <3>1 DEF LoginsExist, Live, Stored
    <3>2. \A x \in mine : tokens[x].state # "absent"
      BY DEF Stored
    <3>3. /\ tokens' = [t \in Tokens |-> IF t \in mine THEN Blacklisted(t) ELSE tokens[t]]
          /\ ended' = ended \union LoginsOf(mine)
      BY <2>2 DEF EndAllSessions
    <3>4. mine \in SUBSET Tokens
      OBVIOUS
    <3> HIDE DEF mine
    <3>5. QED
      BY <3>1, <3>2, <3>3, <3>4
  <2>3. QED
    BY <2>1, <2>2
<1>2. UNCHANGED login
  BY DEF EndSession, EndAllSessions
<1>3. \A t \in Tokens : tokens'[t] = IF t \in documents THEN Blacklisted(t) ELSE tokens[t]
  BY <1>1
<1>4. ASSUME NEW t \in Tokens, tokens'[t].state = "live", tokens'[t].type = "refresh"
      PROVE  Live(t, "refresh") /\ t \notin documents
  <2>1. tokens[t] \in Token
    BY DEF TypeOK
  <2>2. QED
    BY <1>3, <1>4, <2>1 DEF Blacklisted, Token, Live
<1>5. \A l \in LoginsOf(documents) : \E x \in documents :
         tokens[x].type = "refresh" /\ l = login[x]
  BY DEF LoginsOf
<1>6. LoginsStayEnded'
  <2>1. SUFFICES ASSUME NEW t \in Tokens, tokens'[t].state = "live",
                        tokens'[t].type = "refresh"
                 PROVE  login[t] \notin ended'
    BY <1>2 DEF LoginsStayEnded, Live
  <2>2. Live(t, "refresh") /\ t \notin documents
    BY <1>4, <2>1
  <2>3. login[t] \notin ended
    BY <1>0, <2>2 DEF LoginsStayEnded
  <2>4. login[t] \notin LoginsOf(documents)
    BY <1>1, <1>5, <2>2
  <2>5. QED
    BY <1>1, <2>3, <2>4
<1>7. OneSessionPerLogin'
  BY <1>0, <1>2, <1>4 DEF OneSessionPerLogin, Live
<1>8. ASSUME NEW t \in Tokens, tokens'[t].state # "absent", tokens'[t].type = "refresh"
      PROVE  /\ login'[t] \in Tokens
             /\ tokens'[login'[t]].state # "absent"
             /\ tokens'[login'[t]].user = tokens'[t].user
  <2>1. tokens[t].state # "absent"
    BY <1>1, <1>3, <1>8
  <2>2. tokens[t].type = "refresh" /\ tokens'[t].user = tokens[t].user
    BY <1>8, <2>1, DocumentsAge
  <2>3. /\ login[t] \in Tokens /\ tokens[login[t]].state # "absent"
        /\ tokens[login[t]].user = tokens[t].user
    BY <1>0, <2>1, <2>2 DEF LoginsExist
  <2>4. QED
    BY <1>2, <2>2, <2>3, DocumentsAge
<1>9. \A l \in ended' : l \in Tokens /\ tokens'[l].state # "absent"
  <2>1. \A l \in ended' : l \in Tokens /\ tokens[l].state # "absent"
    BY <1>0, <1>1, <1>5 DEF LoginsExist
  <2>2. QED
    BY <2>1, DocumentsAge
<1>10. LoginsExist'
  BY <1>8, <1>9 DEF LoginsExist
<1>11. QED
  BY <1>6, <1>7, <1>10

\* Every other step creates no session and ends no login.
LEMMA OtherSteps ==
  ASSUME TypeOK, NEW p \in Procs, Step(p),
         ~SaveSession(p), ~EndSession(p), ~EndAllSessions(p)
  PROVE  /\ UNCHANGED <<login, ended>>
         /\ \A t \in Tokens : tokens'[t].state # "absent" /\ tokens'[t].type = "refresh" =>
                                 tokens[t].state # "absent"
<1>0. tokens \in [Tokens -> Token]
  BY DEF TypeOK
<1>1. CASE DeletePins(p) \/ DeleteResets(p)
  BY <1>0, <1>1 DEF DeletePins, DeleteResets, DeleteTokens, Stored, Token
<1>2. CASE SavePin(p) \/ SaveReset(p)
  BY <1>0, <1>2 DEF SavePin, SaveReset, SaveDocument, SaveToken
<1>3. CASE Rotate(p)
  BY <1>0, <1>3 DEF Rotate, Blacklisted, Token
<1>4. CASE FindCode(p) \/ SaveCode(p) \/ DeleteCodes(p) \/ InsertCodes(p) \/ Answer(p)
  BY <1>4 DEF FindCode, SaveCode, DeleteCodes, InsertCodes, Answer
<1>5. QED
  BY <1>1, <1>2, <1>3, <1>4 DEF Step

\* The request that rotates its token leaves its login without a session.
LEMMA RotateReady ==
  ASSUME TypeOK, LoginInv, [Next]_vars, NEW p \in Procs, Step(p)
  PROVE  RefreshReady(p)'
<1>1. RefreshAt(p)
  BY DEF RefreshAt, LoginInv, RefreshInv
<1>2. SUFFICES ASSUME procs'[p].op = "refresh", procs'[p].at # "answering"
               PROVE  RefreshReady(p)'
  <2>1. procs'[p].op = "refresh" /\ procs'[p].at = "answering" => RefreshReady(p)'
    BY DEF RefreshReady
  <2>2. procs'[p].op # "refresh" => RefreshReady(p)'
    BY DEF RefreshReady
  <2>3. QED
    BY <2>1, <2>2
<1> DEFINE t == procs[p].token
<1>3. /\ procs[p].op = "refresh" /\ Rotate(p)
      /\ procs'[p].token = t /\ procs'[p].user = procs[p].user
      /\ procs'[p].at = "savingSession"
  BY <1>1, <1>2, RefreshStep
<1>4. /\ t \in Tokens /\ tokens[t].type = "refresh" /\ tokens[t].state # "absent"
      /\ tokens[t].user = procs[p].user /\ login[t] \notin ended /\ Live(t, "refresh")
  BY <1>3 DEF LoginInv, RefreshInv, Rotate
<1> HIDE DEF t
<1>5. /\ tokens'[t] = [tokens[t] EXCEPT !.state = "blacklisted"]
      /\ \A s \in Tokens : s # t => tokens'[s] = tokens[s]
      /\ UNCHANGED <<login, ended>>
  BY <1>3, <1>4 DEF Rotate, Blacklisted, TypeOK, Live, t
<1>6. tokens[t] \in Token
  BY <1>4 DEF TypeOK
<1>7. /\ tokens'[t].type = "refresh" /\ tokens'[t].state = "blacklisted"
      /\ tokens'[t].user = procs'[p].user
  BY <1>3, <1>4, <1>5, <1>6 DEF Token
<1>8. \A s \in Tokens : tokens'[s].state = "live" /\ tokens'[s].type = "refresh" =>
                           login'[s] # login'[t]
  <2>1. SUFFICES ASSUME NEW s \in Tokens, tokens'[s].state = "live",
                        tokens'[s].type = "refresh"
                 PROVE  login[s] # login[t]
    BY <1>5
  <2>2. s # t /\ Live(s, "refresh")
    BY <1>5, <1>7, <2>1 DEF Live
  <2>3. QED
    BY <1>4, <2>2 DEF LoginInv, OneSessionPerLogin
<1>9. QED
  BY <1>3, <1>4, <1>5, <1>7, <1>8 DEF RefreshReady, Live

-----------------------------------------------------------------------------
(* The course of a request.                                                *)

\* A request that goes on keeps what it was given.
Moves(p, at) ==
  /\ procs'[p].op = procs[p].op /\ procs'[p].user = procs[p].user
  /\ procs'[p].token = procs[p].token /\ procs'[p].code = procs[p].code
  /\ procs'[p].at = at

LEMMA GoToMoves ==
  ASSUME TypeOK, NEW p \in Procs, NEW at, GoTo(p, at)
  PROVE  Moves(p, at) /\ \A q \in Procs : q # p => procs'[q] = procs[q]
<1>1. procs[p] \in Request
  BY DEF TypeOK
<1>2. procs'[p] = [procs[p] EXCEPT !.at = at]
  BY DEF GoTo, TypeOK
<1>3. Moves(p, at)
  BY <1>1, <1>2 DEF Moves, Request
<1>4. QED
  BY <1>3 DEF GoTo, TypeOK

\* Where each step takes its request.
Course(p) ==
  \/ /\ DeletePins(p)
     /\ Moves(p, IF procs[p].op = "login" THEN "savingSession" ELSE "answering")
  \/ /\ SaveSession(p)
     /\ Moves(p, CASE procs[p].op = "login" -> "savingPin"
                   [] procs[p].op = "confirm" -> "deletingPins"
                   [] OTHER -> "answering")
  \/ (SavePin(p) \/ SaveReset(p)) /\ Moves(p, "answering")
  \/ FindCode(p) /\ \/ procs'[p] = Idle
                    \/ codes[procs[p].code].state = "unused" /\ Moves(p, "savingCode")
  \/ SaveCode(p) /\ \/ procs'[p] = Idle
                    \/ codes[procs[p].code].state # "deleted" /\ Moves(p, "savingSession")
  \/ Rotate(p) /\ Moves(p, "savingSession")
  \/ (EndSession(p) \/ EndAllSessions(p)) /\ Moves(p, "answering")
  \/ (DeleteResets(p) \/ InsertCodes(p)) /\ Moves(p, "answering")
  \/ /\ DeleteCodes(p)
     /\ Moves(p, IF procs[p].op = "generate" THEN "insertingCodes" ELSE "answering")
  \/ Answer(p) /\ procs'[p] = Idle

LEMMA StepMoves ==
  ASSUME TypeOK, NEW p \in Procs, Step(p)
  PROVE  /\ procs[p].at # "idle"
         /\ \A q \in Procs : q # p => procs'[q] = procs[q]
         /\ Course(p)
<1>0. procs[p] \in Request /\ DOMAIN procs = Procs
  BY DEF TypeOK
<1> DEFINE Others == \A q \in Procs : q # p => procs'[q] = procs[q]
<1> HIDE DEF Others
<1>1. ASSUME NEW at, NEW t, procs' = [procs EXCEPT ![p].at = at, ![p].made = t]
      PROVE  Moves(p, at) /\ Others
  <2>1. procs'[p] = [procs[p] EXCEPT !.at = at, !.made = t]
    BY <1>0, <1>1
  <2>2. Moves(p, at)
    BY <1>0, <2>1 DEF Moves, Request
  <2>3. QED
    BY <1>0, <1>1, <2>2 DEF Others
<1>2. \A at : GoTo(p, at) => Moves(p, at) /\ Others
  BY GoToMoves DEF Others
<1>3. CASE DeletePins(p)
  BY <1>2, <1>3 DEF DeletePins, Course, Others
<1>4. CASE SaveSession(p)
  BY <1>1, <1>4 DEF SaveSession, Course, Others
<1>5. CASE SavePin(p) \/ SaveReset(p)
  BY <1>1, <1>5 DEF SavePin, SaveReset, SaveDocument, Course, Others
<1>6. CASE FindCode(p)
  <2>1. procs'[p] = IF codes[procs[p].code].state = "unused"
                       /\ codes[procs[p].code].user = procs[p].user
                    THEN [procs[p] EXCEPT !.at = "savingCode"] ELSE Idle
    BY <1>0, <1>6 DEF FindCode
  <2>2. QED
    BY <1>0, <1>6, <2>1 DEF FindCode, Course, Moves, Request
<1>7. CASE SaveCode(p)
  <2>1. CASE codes[procs[p].code].state = "deleted"
    BY <1>0, <1>7, <2>1 DEF SaveCode, Course
  <2>2. CASE codes[procs[p].code].state # "deleted"
    BY <1>2, <1>7, <2>2 DEF SaveCode, Course, Others
  <2>3. QED
    BY <2>1, <2>2
<1>8. CASE Rotate(p) \/ EndSession(p) \/ EndAllSessions(p) \/ DeleteResets(p)
  BY <1>2, <1>8 DEF Rotate, EndSession, EndAllSessions, DeleteResets, Course, Others
<1>9. CASE DeleteCodes(p) \/ InsertCodes(p)
  BY <1>2, <1>9 DEF DeleteCodes, InsertCodes, Course, Others
<1>10. CASE Answer(p)
  BY <1>0, <1>10 DEF Answer, Course
<1>11. QED
  BY <1>3, <1>4, <1>5, <1>6, <1>7, <1>8, <1>9, <1>10 DEF Step

\* While one request runs the others wait.
LEMMA OthersIdle ==
  ASSUME OneAtATime, OneAtATime', NEW p \in Procs,
         procs[p].at # "idle" \/ procs'[p].at # "idle",
         \A q \in Procs : q # p => procs'[q] = procs[q]
  PROVE  \A q \in Procs : q # p => procs[q].at = "idle" /\ procs'[q].at = "idle"
  BY DEF OneAtATime

\* A session is refreshed once.
Refreshed(p) ==
  procs[p].op = "refresh" /\ procs[p].at \in {"rotating", "savingSession"} =>
     \A s \in Tokens : parent[s] # procs[p].token

LEMMA SuccessorParts ==
  SuccessorInv <=> RotatedOnce /\ \A p \in Procs : Refreshed(p)
  BY DEF SuccessorInv, Refreshed

\* Steps that save no session leave the sessions' parents alone.
LEMMA ParentsKept ==
  ASSUME NEW p \in Procs, Step(p), ~SaveSession(p)
  PROVE  UNCHANGED parent
  BY DEF Step, DeletePins, SavePin, SaveReset, SaveDocument, FindCode, SaveCode,
         Rotate, EndSession, EndAllSessions, DeleteResets, DeleteCodes,
         InsertCodes, Answer

LEMMA SuccessorStep ==
  ASSUME AuthAssumption, OneAtATime, OneAtATime', TypeOK, RotationInv, SuccessorInv,
         [Next]_vars
  PROVE  SuccessorInv'
<1>0. RotatedOnce /\ \A p \in Procs : Refreshed(p)
  BY SuccessorParts
<1>a. \A t \in Tokens : parent[t] # NoToken => Spent(parent[t])
  BY DEF RotationInv
<1> DEFINE Goal == RotatedOnce' /\ \A q \in Procs : Refreshed(q)'
<1> HIDE DEF Goal
<1>1. UNCHANGED parent => RotatedOnce'
  BY <1>0 DEF RotatedOnce
<1>2. ASSUME NEW p \in Procs, Step(p) PROVE Goal
  <2>1. /\ procs[p].at # "idle" /\ Course(p)
        /\ \A q \in Procs : q # p => procs'[q] = procs[q]
    BY <1>2, StepMoves
  <2>2. \A q \in Procs : q # p => Refreshed(q)'
    BY <2>1, OthersIdle DEF Refreshed
  <2>3. CASE SaveSession(p)
    <3> DEFINE from == IF procs[p].op = "refresh" THEN procs[p].token ELSE NoToken
    <3>1. PICK t \in Tokens : parent' = [parent EXCEPT ![t] = from]
      BY <2>3 DEF SaveSession
    <3>2. /\ parent'[t] = from
          /\ \A s \in Tokens : s # t => parent'[s] = parent[s]
      BY <3>1 DEF TypeOK
    <3>3. from # NoToken => \A s \in Tokens : parent[s] # from
      BY <1>0, <2>3 DEF Refreshed, SaveSession
    <3> HIDE DEF from
    <3>4. RotatedOnce'
      BY <1>0, <3>2, <3>3 DEF RotatedOnce
    <3>5. procs'[p].op = "refresh" => procs'[p].at = "answering"
      <4>1. PICK next \in Steps, s \in Tokens :
               /\ procs' = [procs EXCEPT ![p].at = next, ![p].made = s]
               /\ procs[p].op = "refresh" => next = "answering"
        BY <2>3 DEF SaveSession, Steps
      <4>2. procs'[p] = [procs[p] EXCEPT !.at = next, !.made = s] /\ procs[p] \in Request
        BY <4>1 DEF TypeOK
      <4>3. procs'[p].op = procs[p].op /\ procs'[p].at = next
        BY <4>2 DEF Request
      <4>4. QED
        BY <4>1, <4>3
    <3>6. Refreshed(p)'
      BY <3>5 DEF Refreshed
    <3>7. QED
      BY <2>2, <3>4, <3>6 DEF Goal
  <2>4. CASE ~SaveSession(p)
    <3>1. UNCHANGED parent
      BY <1>2, <2>4, ParentsKept
    <3>2. Refreshed(p)'
      <4>1. SUFFICES ASSUME procs'[p].op = "refresh",
                            procs'[p].at \in {"rotating", "savingSession"}
                     PROVE  /\ procs[p].op = "refresh" /\ procs[p].token = procs'[p].token
                            /\ procs[p].at \in {"rotating", "savingSession"}
        BY <1>0, <3>1 DEF Refreshed
      <4>2. procs[p].op = "refresh" /\ procs[p].token = procs'[p].token
        BY <2>1, <4>1 DEF Course, Moves, Idle
      <4>3. procs[p].at \in {"rotating", "savingSession", "answering"}
        BY <4>2 DEF RotationInv
      <4>4. procs[p].at # "answering"
        BY <2>1, <4>1
        DEF Course, Moves, DeletePins, SavePin, SaveReset, SaveDocument, FindCode,
            SaveCode, Rotate, EndSession, EndAllSessions, DeleteResets, DeleteCodes,
            InsertCodes, Answer, SaveSession, Idle
      <4>5. QED
        BY <4>2, <4>3, <4>4
    <3>3. QED
      BY <1>1, <2>2, <3>1, <3>2 DEF Goal
  <2>5. QED
    BY <2>3, <2>4
<1>3. ASSUME NEW p \in Procs, Call(p) PROVE Goal
  <2>1. /\ UNCHANGED <<tokens, parent>> /\ Begun(procs'[p])
        /\ \A q \in Procs : q # p => procs'[q] = procs[q]
    BY <1>3, CallEffect
  <2>2. procs'[p].op = "refresh" => \A s \in Tokens : parent[s] # procs'[p].token
    BY <1>a, <2>1 DEF Begun, Refreshing, Live, Spent, AuthAssumption
  <2>3. \A q \in Procs : Refreshed(q)'
    BY <1>0, <2>1, <2>2 DEF Refreshed
  <2>4. QED
    BY <1>1, <2>1, <2>3 DEF Goal
<1>4. ASSUME NEW p \in Procs, Crash(p) PROVE Goal
  <2>1. /\ UNCHANGED parent /\ procs'[p].op = "none"
        /\ \A q \in Procs : q # p => procs'[q] = procs[q]
    BY <1>4 DEF Crash, TypeOK, Idle
  <2>2. QED
    BY <1>0, <1>1, <2>1 DEF Refreshed, Goal
<1>5. ASSUME UNCHANGED vars \/ \E t \in Tokens : Expire(t) PROVE Goal
  <2>1. UNCHANGED <<procs, parent>>
    BY <1>5 DEF vars, Expire
  <2>2. QED
    BY <1>0, <1>1, <2>1 DEF Refreshed, Goal
<1>6. Goal
  BY <1>2, <1>3, <1>4, <1>5 DEF Next
<1>7. QED
  BY <1>6 DEF Goal, SuccessorInv, Refreshed

\* Documents that a step neither creates nor sends leave the user's PINs gone.
NoPin(u) == \A t \in Tokens : Pin(t) => tokens[t].user # u

PinReady(p) ==
  /\ procs[p].at = "savingPin" => procs[p].op = "login"
  /\ procs[p].op = "login" =>
        /\ procs[p].at \in {"deletingPins", "savingSession", "savingPin", "answering"}
        /\ procs[p].at \in {"savingSession", "savingPin"} => NoPin(procs[p].user)

LEMMA PinParts == PinInv <=> OnePinPerUser /\ \A p \in Procs : PinReady(p)
  BY DEF PinInv, PinReady, NoPin

\* A PIN that is stored after a step was stored before, or the step saved it.
LEMMA PinBefore ==
  ASSUME TypeOK, [Next]_vars, NEW t \in Tokens, tokens[t].state # "absent",
         tokens'[t].state \in {"live", "blacklisted"}, tokens'[t].type = "pin"
  PROVE  Pin(t) /\ tokens'[t].user = tokens[t].user
<1>1. tokens[t].state \in {"absent", "live", "blacklisted", "deleted"}
  BY DEF TypeOK, Token
<1>2. QED
  BY <1>1, DocumentsAge DEF Pin, Stored

LEMMA PinsStand ==
  ASSUME TypeOK, [Next]_vars, OnePinPerUser,
         \A t \in Tokens : tokens'[t].state # "absent" /\ tokens'[t].type = "pin" =>
                              tokens[t].state # "absent"
  PROVE  OnePinPerUser' /\ \A u : NoPin(u) => NoPin(u)'
<1>1. ASSUME NEW t \in Tokens, tokens'[t].state \in {"live", "blacklisted"},
             tokens'[t].type = "pin"
      PROVE  Pin(t) /\ tokens'[t].user = tokens[t].user
  BY <1>1, PinBefore
<1>2. OnePinPerUser'
  BY <1>1 DEF OnePinPerUser, Stored, Pin
<1>3. ASSUME NEW u, NoPin(u) PROVE NoPin(u)'
  BY <1>1, <1>3 DEF NoPin, Pin, Stored
<1>4. QED
  BY <1>2, <1>3

\* Only savingPin saves a PIN.
LEMMA PinsSaved ==
  ASSUME TypeOK, NEW p \in Procs, Step(p), ~SavePin(p)
  PROVE  \A t \in Tokens : tokens'[t].state # "absent" /\ tokens'[t].type = "pin" =>
                              tokens[t].state # "absent"
<1>0. tokens \in [Tokens -> Token]
  BY DEF TypeOK
<1>1. CASE DeletePins(p) \/ DeleteResets(p)
  BY <1>0, <1>1 DEF DeletePins, DeleteResets, DeleteTokens, Stored, Token
<1>2. CASE SaveSession(p) \/ SaveReset(p)
  BY <1>0, <1>2 DEF SaveSession, SaveReset, SaveDocument, SaveToken
<1>3. CASE Rotate(p)
  BY <1>0, <1>3 DEF Rotate, Blacklisted, Token
<1>4. CASE EndSession(p) \/ EndAllSessions(p)
  BY <1>0, <1>4 DEF EndSession, EndAllSessions, Blacklisted, Token
<1>5. CASE FindCode(p) \/ SaveCode(p) \/ DeleteCodes(p) \/ InsertCodes(p) \/ Answer(p)
  BY <1>5 DEF FindCode, SaveCode, DeleteCodes, InsertCodes, Answer
<1>6. QED
  BY <1>1, <1>2, <1>3, <1>4, <1>5 DEF Step

\* The request that sends a PIN has deleted the earlier ones.
LEMMA PinStep ==
  ASSUME OneAtATime, OneAtATime', TypeOK, PinInv, [Next]_vars
  PROVE  PinInv'
<1>0. OnePinPerUser /\ \A p \in Procs : PinReady(p)
  BY PinParts
<1> DEFINE Goal == OnePinPerUser' /\ \A q \in Procs : PinReady(q)'
<1> HIDE DEF Goal
<1>1. ASSUME NEW p \in Procs, Step(p) PROVE Goal
  <2>1. /\ procs[p].at # "idle" /\ Course(p)
        /\ \A q \in Procs : q # p => procs'[q] = procs[q]
    BY <1>1, StepMoves
  <2>2. \A q \in Procs : q # p => PinReady(q)'
    BY <1>0, <2>1, OthersIdle DEF PinReady
  <2>3. CASE SavePin(p)
    <3>1. /\ procs[p].at = "savingPin" /\ procs[p].op = "login" /\ NoPin(procs[p].user)
      BY <1>0, <2>3 DEF SavePin, SaveDocument, PinReady
    <3>2. procs'[p].at = "answering"
      BY <2>3, <2>1
      DEF SavePin, SaveDocument, TypeOK
    <3>3. PICK t \in Tokens : SaveToken(t, "pin", procs[p].user)
      BY <2>3 DEF SavePin, SaveDocument
    <3>4. /\ tokens'[t].user = procs[p].user
          /\ \A s \in Tokens : s # t => tokens'[s] = tokens[s]
      BY <3>3 DEF SaveToken, TypeOK
    <3>5. OnePinPerUser'
      BY <1>0, <3>1, <3>4 DEF OnePinPerUser, Stored, NoPin, Pin
    <3>6. PinReady(p)'
      BY <3>2 DEF PinReady
    <3>7. QED
      BY <2>2, <3>5, <3>6 DEF Goal
  <2>4. CASE ~SavePin(p)
    <3>1. OnePinPerUser' /\ \A u : NoPin(u) => NoPin(u)'
      BY <1>0, <1>1, <2>4, PinsSaved, PinsStand
    <3>2. CASE procs'[p].op # "login" /\ procs'[p].at # "savingPin"
      BY <2>2, <3>1, <3>2 DEF Goal, PinReady
    <3>3. CASE procs'[p].op = "login" \/ procs'[p].at = "savingPin"
      <4>1. procs[p].op = "login" /\ procs'[p].op = "login" /\ procs'[p].user = procs[p].user
        BY <2>1, <3>3 DEF Course, Moves, Idle
      <4>2. procs[p].at \in {"deletingPins", "savingSession", "savingPin", "answering"}
        BY <1>0, <4>1 DEF PinReady
      <4>a. PICK u : u = procs[p].user
        OBVIOUS
      <4>3. CASE DeletePins(p)
        <5>1. procs'[p].at = "savingSession"
          BY <4>1, <4>3 DEF DeletePins, GoTo, TypeOK
        <5>2. tokens \in [Tokens -> Token] /\ DeleteTokens(u, "pin")
          BY <4>3, <4>a DEF DeletePins, TypeOK
        <5>3. NoPin(u)'
          BY <5>2 DEF DeleteTokens, NoPin, Pin, Stored, Token
        <5>4. QED
          BY <2>2, <3>1, <4>1, <4>a, <5>1, <5>3 DEF Goal, PinReady
      <4>4. CASE SaveSession(p)
        <5>1. procs'[p].at = "savingPin" /\ NoPin(procs[p].user)
          BY <1>0, <2>1, <4>1, <4>4
          DEF Course, Moves, SaveSession, PinReady, DeletePins, SavePin, SaveReset,
              SaveDocument, FindCode, SaveCode, Rotate, EndSession, EndAllSessions,
              DeleteResets, DeleteCodes, InsertCodes, Answer
        <5>2. NoPin(u)'
          BY <3>1, <4>a, <5>1
        <5>3. QED
          BY <2>2, <3>1, <4>1, <4>a, <5>1, <5>2 DEF Goal, PinReady
      <4>5. CASE ~DeletePins(p) /\ ~SaveSession(p)
        <5>1. procs'[p] = Idle
          BY <2>1, <2>4, <4>2, <4>5
          DEF Course, SaveReset, SaveDocument, FindCode, SaveCode, Rotate,
              EndSession, EndAllSessions, DeleteResets, DeleteCodes, InsertCodes
        <5>2. QED
          BY <4>1, <5>1 DEF Idle
      <4>6. QED
        BY <4>3, <4>4, <4>5
    <3>4. QED
      BY <3>2, <3>3
  <2>5. QED
    BY <2>3, <2>4
<1>2. ASSUME NEW p \in Procs, Call(p) PROVE Goal
  <2>1. /\ UNCHANGED <<tokens, parent>> /\ Begun(procs'[p])
        /\ \A q \in Procs : q # p => procs'[q] = procs[q]
    BY <1>2, CallEffect
  <2>2. OnePinPerUser' /\ \A u : NoPin(u) => NoPin(u)'
    BY <1>0, <2>1, PinsStand
  <2>3. \A q \in Procs : PinReady(q)'
    BY <1>0, <2>1, <2>2 DEF PinReady, Begun, NoPin
  <2>4. QED
    BY <2>2, <2>3 DEF Goal
<1>3. ASSUME NEW p \in Procs, Crash(p) PROVE Goal
  <2>1. /\ UNCHANGED tokens /\ procs'[p].op = "none" /\ procs'[p].at = "idle"
        /\ \A q \in Procs : q # p => procs'[q] = procs[q]
    BY <1>3 DEF Crash, TypeOK, Idle
  <2>2. OnePinPerUser' /\ \A u : NoPin(u) => NoPin(u)'
    BY <1>0, <2>1, PinsStand
  <2>3. \A q \in Procs : PinReady(q)'
    BY <1>0, <2>1, <2>2 DEF PinReady, NoPin
  <2>4. QED
    BY <2>2, <2>3 DEF Goal
<1>4. ASSUME UNCHANGED vars \/ \E t \in Tokens : Expire(t) PROVE Goal
  <2>1. UNCHANGED procs
    BY <1>4 DEF vars, Expire
  <2>2. \A t \in Tokens : tokens'[t].state = tokens[t].state
    BY <1>4 DEF vars, Expire, TypeOK, Token
  <2>3. OnePinPerUser' /\ \A u : NoPin(u) => NoPin(u)'
    BY <1>0, <2>2, PinsStand
  <2>4. \A q \in Procs : PinReady(q)'
    BY <1>0, <2>1, <2>3 DEF PinReady, NoPin
  <2>5. QED
    BY <2>3, <2>4 DEF Goal
<1>5. Goal
  BY <1>1, <1>2, <1>3, <1>4 DEF Next
<1>6. QED
  BY <1>5 DEF Goal, PinInv, PinReady, NoPin, Pin

\* A recovery code that was used or deleted never comes back.
LEMMA CodesAge ==
  ASSUME TypeOK, [Next]_vars, NEW c \in Codes, codes[c].state \in {"used", "deleted"}
  PROVE  codes'[c].state \in {"used", "deleted"}
<1>0. codes \in [Codes -> Code]
  BY DEF TypeOK
<1>1. ASSUME NEW p \in Procs, Step(p)
      PROVE  codes'[c].state \in {"used", "deleted"}
  <2>1. CASE SaveCode(p)
    BY <1>0, <2>1 DEF SaveCode, Code
  <2>2. CASE DeleteCodes(p)
    BY <1>0, <2>2 DEF DeleteCodes, Code
  <2>3. CASE InsertCodes(p)
    BY <1>0, <2>3 DEF InsertCodes, Code
  <2>4. CASE ~SaveCode(p) /\ ~DeleteCodes(p) /\ ~InsertCodes(p)
    <3>1. UNCHANGED codes
      BY <1>1, <2>4
      DEF Step, DeletePins, SaveSession, SavePin, SaveReset, SaveDocument, FindCode,
          Rotate, EndSession, EndAllSessions, DeleteResets, Answer
    <3>2. QED
      BY <3>1
  <2>5. QED
    BY <2>1, <2>2, <2>3, <2>4
<1>2. ASSUME NEW p \in Procs, Crash(p) PROVE UNCHANGED codes
  BY <1>2 DEF Crash
<1>3. ASSUME NEW t \in Tokens, Expire(t) PROVE UNCHANGED codes
  BY <1>3 DEF Expire
<1>4. ASSUME NEW p \in Procs, Call(p) PROVE UNCHANGED codes
  BY <1>4, CallEffect
<1>5. QED
  BY <1>1, <1>2, <1>3, <1>4 DEF Next, vars

DocumentsUsed == \A t \in Tokens : uses[t] # 0 => uses[t] = 1 /\ tokens[t].state = "deleted"

CodesUsed == \A c \in Codes : uses[c] # 0 =>
                uses[c] = 1 /\ codes[c].state \in {"used", "deleted"}

UseReady(p) ==
  /\ procs[p].op = "confirm" => \/ Using(procs[p], "pin", {"savingSession", "deletingPins"})
                                \/ UsingCode(procs[p])
  /\ procs[p].op = "reset" => Using(procs[p], "resetPassword", {"deletingResets"})
  /\ procs[p].op # "confirm" => procs[p].code = NoCode

LEMMA UseParts == UseInv <=> DocumentsUsed /\ CodesUsed /\ \A p \in Procs : UseReady(p)
  BY DEF UseInv, DocumentsUsed, CodesUsed, UseReady

\* Documents and codes age, so what was honoured stays gone.
LEMMA UsedStands ==
  ASSUME TypeOK, [Next]_vars, DocumentsUsed, CodesUsed, UNCHANGED uses
  PROVE  DocumentsUsed' /\ CodesUsed'
<1>1. DocumentsUsed'
  BY DocumentsAge DEF DocumentsUsed
<1>2. CodesUsed'
  BY CodesAge DEF CodesUsed
<1>3. QED
  BY <1>1, <1>2

LEMMA IdleReady == ASSUME NEW p \in Procs, procs'[p] = Idle PROVE UseReady(p)'
  BY DEF UseReady, Idle

\* The document a request uses keeps its owner and its type.
LEMMA UsingMoves ==
  ASSUME TypeOK, [Next]_vars, UNCHANGED uses, NEW p \in Procs, NEW type, NEW steps,
         Using(procs[p], type, steps), NEW at \in steps, Moves(p, at), at # "answering"
  PROVE  Using(procs[p], type, steps)'
  BY DocumentsAge DEF Using, Moves

\* It is gone once the deletion of the request has run.
LEMMA UsingDeleted ==
  ASSUME TypeOK, [Next]_vars, UNCHANGED uses, NEW p \in Procs, NEW type, NEW steps,
         Using(procs[p], type, steps), Moves(p, "answering"),
         DeleteTokens(procs[p].user, type)
  PROVE  Using(procs[p], type, steps)'
<1> DEFINE t == procs[p].token
<1>1. /\ t \in Tokens /\ tokens[t].state # "absent" /\ tokens[t].type = type
      /\ tokens[t].user = procs[p].user /\ uses[t] = 0 /\ procs[p].code = NoCode
      /\ tokens[t] \in Token
  BY DEF Using, TypeOK
<1> HIDE DEF t
<1>2. tokens'[t].state = "deleted"
  BY <1>1 DEF DeleteTokens, Stored, Token
<1>3. procs'[p].token = t /\ procs'[p].user = procs[p].user /\ procs'[p].code = NoCode
      /\ procs'[p].at = "answering"
  BY <1>1 DEF Moves, t
<1>4. tokens'[t].type = type /\ tokens'[t].user = procs[p].user
  BY <1>1, DocumentsAge
<1>5. QED
  BY <1>1, <1>2, <1>3, <1>4 DEF Using

\* A request that goes on has not honoured its document or code yet.
LEMMA ReadyMoves ==
  ASSUME AuthAssumption, TypeOK, UseInv, [Next]_vars, NEW p \in Procs, Step(p), ~Answer(p)
  PROVE  UseReady(p)'
<1>0. UseReady(p) /\ CodesUsed /\ Course(p) /\ codes \in [Codes -> Code]
  BY UseParts, StepMoves DEF TypeOK
<1>1. UNCHANGED uses
  BY DEF Step, DeletePins, SaveSession, SavePin, SaveReset, SaveDocument, FindCode,
         SaveCode, Rotate, EndSession, EndAllSessions, DeleteResets, DeleteCodes,
         InsertCodes
<1>2. CASE procs'[p] = Idle
  BY <1>2, IdleReady
<1>3. CASE procs'[p] # Idle
  <2>1. PICK at : Moves(p, at)
    BY <1>0, <1>3 DEF Course
  <2>2. /\ procs'[p].op = procs[p].op /\ procs'[p].code = procs[p].code
        /\ procs'[p].at = at
    BY <2>1 DEF Moves
  <2>3. CASE procs[p].op \notin {"confirm", "reset"}
    BY <1>0, <2>2, <2>3 DEF UseReady
  <2>4. CASE procs[p].op = "reset"
    <3>1. /\ Using(procs[p], "resetPassword", {"deletingResets"})
          /\ procs[p].code = NoCode
      BY <1>0, <2>4 DEF UseReady
    <3>2. DeleteResets(p)
      BY <1>0, <1>3, <3>1
      DEF Using, Course, DeletePins, SaveSession, SavePin, SaveReset, SaveDocument,
          FindCode, SaveCode, Rotate, EndSession, EndAllSessions, DeleteCodes,
          InsertCodes, Answer
    <3>3. Moves(p, "answering") /\ DeleteTokens(procs[p].user, "resetPassword")
      BY <3>2, GoToMoves DEF DeleteResets
    <3>4. Using(procs[p], "resetPassword", {"deletingResets"})'
      BY <1>1, <3>1, <3>3, UsingDeleted
    <3>5. QED
      BY <2>2, <2>4, <3>1, <3>4 DEF UseReady
  <2>5. CASE procs[p].op = "confirm" /\ Using(procs[p], "pin", {"savingSession", "deletingPins"})
    <3>1. procs[p].at \in {"savingSession", "deletingPins", "answering"}
      BY <2>5 DEF Using
    <3>2. \/ SaveSession(p) /\ Moves(p, "deletingPins")
          \/ DeletePins(p) /\ Moves(p, "answering")
      BY <1>0, <1>3, <2>5, <3>1
      DEF Course, DeletePins, SaveSession, SavePin, SaveReset, SaveDocument,
          FindCode, SaveCode, Rotate, EndSession, EndAllSessions, DeleteResets,
          DeleteCodes, InsertCodes, Answer
    <3>3. CASE SaveSession(p) /\ Moves(p, "deletingPins")
      <4>1. Using(procs[p], "pin", {"savingSession", "deletingPins"})'
        BY <1>1, <2>5, <3>3, UsingMoves
      <4>2. QED
        BY <2>2, <2>5, <4>1 DEF UseReady
    <3>4. CASE DeletePins(p) /\ Moves(p, "answering")
      <4>1. DeleteTokens(procs[p].user, "pin")
        BY <3>4 DEF DeletePins
      <4>2. Using(procs[p], "pin", {"savingSession", "deletingPins"})'
        BY <1>1, <2>5, <3>4, <4>1, UsingDeleted
      <4>3. QED
        BY <2>2, <2>5, <4>2 DEF UseReady
    <3>5. QED
      BY <3>2, <3>3, <3>4
  <2>6. CASE procs[p].op = "confirm" /\ UsingCode(procs[p])
    <3> DEFINE c == procs[p].code
    <3>1. /\ c \in Codes /\ procs'[p].code = c /\ uses'[c] = uses[c]
          /\ procs[p].at \in {"findingCode", "savingCode", "savingSession", "deletingPins",
                              "answering"}
          /\ procs[p].at # "findingCode" => uses[c] = 0
          /\ procs[p].at \notin {"findingCode", "savingCode"} =>
                codes[c].state \in {"used", "deleted"}
      BY <1>1, <2>2, <2>6 DEF UsingCode
    <3> HIDE DEF c
    <3>2. \/ FindCode(p) /\ codes[c].state = "unused" /\ at = "savingCode"
          \/ SaveCode(p) /\ codes[c].state # "deleted" /\ at = "savingSession"
          \/ procs[p].at = "savingSession" /\ at = "deletingPins"
          \/ procs[p].at = "deletingPins" /\ at = "answering"
      BY <1>0, <1>3, <2>2, <2>6, <3>1
      DEF Course, Moves, DeletePins, SaveSession, SavePin, SaveReset, SaveDocument,
          FindCode, SaveCode, Rotate, EndSession, EndAllSessions, DeleteResets,
          DeleteCodes, InsertCodes, Answer, c
    <3>3. CASE FindCode(p) /\ codes[c].state = "unused" /\ at = "savingCode"
      <4>1. uses[c] = 0
        BY <1>0, <3>1, <3>3 DEF CodesUsed
      <4>2. QED
        BY <2>2, <2>6, <3>1, <3>3, <4>1 DEF UseReady, UsingCode
    <3>4. CASE SaveCode(p) /\ codes[c].state # "deleted" /\ at = "savingSession"
      <4>1. codes' = [codes EXCEPT ![c].state = "used"] /\ procs[p].at = "savingCode"
        BY <3>4 DEF SaveCode, c
      <4>2. codes'[c].state = "used"
        BY <1>0, <3>1, <4>1 DEF Code
      <4>3. QED
        BY <2>2, <2>6, <3>1, <3>4, <4>1, <4>2 DEF UseReady, UsingCode
    <3>5. CASE \/ procs[p].at = "savingSession" /\ at = "deletingPins"
               \/ procs[p].at = "deletingPins" /\ at = "answering"
      <4>1. codes'[c].state \in {"used", "deleted"} /\ uses[c] = 0
        BY <3>1, <3>5, CodesAge
      <4>2. QED
        BY <2>2, <2>6, <3>1, <3>5, <4>1 DEF UseReady, UsingCode
    <3>6. QED
      BY <3>2, <3>3, <3>4, <3>5
  <2>7. QED
    BY <1>0, <2>3, <2>4, <2>5, <2>6 DEF UseReady
<1>4. QED
  BY <1>2, <1>3

\* The answer honours what the request used, for the first time.
LEMMA AnswerUses ==
  ASSUME AuthAssumption, TypeOK, UseInv, NEW p \in Procs, Answer(p)
  PROVE  DocumentsUsed' /\ CodesUsed'
<1> DEFINE r == procs[p]
           used == IF r.code # NoCode THEN {r.code}
                   ELSE IF r.op \in {"confirm", "reset"} THEN {r.token} ELSE {}
<1>0. UseReady(p) /\ DocumentsUsed /\ CodesUsed /\ r \in Request
  BY UseParts DEF TypeOK
<1>1. UNCHANGED <<tokens, codes>> /\ r.at = "answering"
  BY DEF Answer
<1>2. \A x \in Tokens \union Codes : uses'[x] = IF x \in used THEN uses[x] + 1 ELSE uses[x]
  BY DEF Answer
<1>3. \A x \in used : \/ /\ x \in Tokens /\ uses[x] = 0 /\ tokens[x].state = "deleted"
                         /\ x \notin Codes
                      \/ /\ x \in Codes /\ uses[x] = 0 /\ x \notin Tokens
                         /\ codes[x].state \in {"used", "deleted"}
  BY <1>0, <1>1 DEF UseReady, Using, UsingCode, AuthAssumption
<1> HIDE DEF used, r
<1>4. DocumentsUsed'
  BY <1>0, <1>1, <1>2, <1>3 DEF DocumentsUsed
<1>5. CodesUsed'
  BY <1>0, <1>1, <1>2, <1>3 DEF CodesUsed
<1>6. QED
  BY <1>4, <1>5

LEMMA UseStep ==
  ASSUME AuthAssumption, OneAtATime, OneAtATime', TypeOK, UseInv, [Next]_vars
  PROVE  UseInv'
<1>0. DocumentsUsed /\ CodesUsed /\ \A p \in Procs : UseReady(p)
  BY UseParts
<1> DEFINE Goal == DocumentsUsed' /\ CodesUsed' /\ \A q \in Procs : UseReady(q)'
<1> HIDE DEF Goal
<1>1. \A q \in Procs : procs[q].at = "idle" /\ procs'[q] = procs[q] => UseReady(q)'
  BY <1>0 DEF UseReady, Using, UsingCode
<1>2. ASSUME NEW p \in Procs, Step(p) PROVE Goal
  <2>1. /\ procs[p].at # "idle" /\ Course(p)
        /\ \A q \in Procs : q # p => procs'[q] = procs[q]
    BY <1>2, StepMoves
  <2>2. \A q \in Procs : q # p => UseReady(q)'
    BY <1>1, <2>1, OthersIdle
  <2>3. CASE Answer(p)
    <3>1. procs'[p] = Idle
      BY <2>3 DEF Answer, TypeOK
    <3>2. QED
      BY <2>2, <2>3, <3>1, IdleReady, AnswerUses DEF Goal
  <2>4. CASE ~Answer(p)
    <3>1. UNCHANGED uses
      BY <1>2, <2>4
      DEF Step, DeletePins, SaveSession, SavePin, SaveReset, SaveDocument, FindCode,
          SaveCode, Rotate, EndSession, EndAllSessions, DeleteResets, DeleteCodes,
          InsertCodes
    <3>2. QED
      BY <1>0, <1>2, <2>2, <2>4, <3>1, UsedStands, ReadyMoves DEF Goal
  <2>5. QED
    BY <2>3, <2>4
<1>3. ASSUME NEW p \in Procs, Call(p) PROVE Goal
  <2>1. /\ UNCHANGED <<tokens, codes, uses>> /\ Begun(procs'[p])
        /\ \A q \in Procs : q # p => procs'[q] = procs[q]
    BY <1>3, CallEffect
  <2>2. DocumentsUsed' /\ CodesUsed'
    BY <1>0, <2>1, UsedStands
  <2>3. \A t \in Tokens : Stored(t) => uses[t] = 0 /\ tokens[t].state # "absent"
                                                 /\ tokens[t].state # "deleted"
    BY <1>0 DEF DocumentsUsed, Stored
  <2>4. UseReady(p)'
    BY <2>1, <2>3
    DEF UseReady, Begun, Using, UsingCode, Pin, Live, Stored
  <2>5. \A q \in Procs : q # p => UseReady(q)'
    BY <1>1, <2>1, OthersIdle DEF Begun
  <2>6. QED
    BY <2>2, <2>4, <2>5 DEF Goal
<1>4. ASSUME NEW p \in Procs, Crash(p) PROVE Goal
  <2>1. /\ UNCHANGED uses /\ procs'[p] = Idle /\ procs[p].at # "idle"
        /\ \A q \in Procs : q # p => procs'[q] = procs[q]
    BY <1>4 DEF Crash, TypeOK
  <2>2. DocumentsUsed' /\ CodesUsed'
    BY <1>0, <2>1, UsedStands
  <2>3. QED
    BY <1>1, <2>1, <2>2, IdleReady, OthersIdle DEF Goal
<1>5. ASSUME UNCHANGED vars \/ \E t \in Tokens : Expire(t) PROVE Goal
  <2>1. UNCHANGED <<procs, uses, codes>>
    BY <1>5 DEF vars, Expire
  <2>2. \A t \in Tokens : /\ tokens'[t].state = tokens[t].state
                          /\ tokens'[t].type = tokens[t].type
                          /\ tokens'[t].user = tokens[t].user
    BY <1>5 DEF vars, Expire, TypeOK, Token
  <2>3. \A q \in Procs : UseReady(q)'
    BY <1>0, <2>1, <2>2 DEF UseReady, Using, UsingCode
  <2>4. QED
    BY <1>0, <2>1, <2>3, UsedStands DEF Goal
<1>6. Goal
  BY <1>2, <1>3, <1>4, <1>5 DEF Next
<1>7. QED
  BY <1>6 DEF Goal, UseInv, DocumentsUsed, CodesUsed, UseReady, Using, UsingCode

\* The request in progress is the only one that can disturb the logins.
LEMMA LoginStep ==
  ASSUME AuthAssumption, OneAtATime, OneAtATime', TypeOK, LoginInv, [Next]_vars
  PROVE  LoginInv'
<1>0. LoginsStayEnded /\ LoginsExist /\ OneSessionPerLogin /\ \A p \in Procs : RefreshReady(p)
  BY RefreshInvParts DEF LoginInv
<1> DEFINE Goal == /\ LoginsStayEnded' /\ LoginsExist' /\ OneSessionPerLogin'
                   /\ \A q \in Procs : RefreshReady(q)'
<1> HIDE DEF Goal
<1>1. ASSUME NEW p \in Procs, Step(p) PROVE Goal
  <2>1. RefreshReady(p)'
    BY <1>1, RotateReady
  <2>2. \A q \in Procs : q # p => procs[q].at = "idle" /\ procs'[q] = procs[q]
    BY <1>1, StepMoves, OthersIdle
  <2>3. \A q \in Procs : RefreshReady(q)'
    BY <1>0, <2>1, <2>2 DEF RefreshReady
  <2>4. CASE SaveSession(p)
    BY <2>3, <2>4, SessionSaved DEF Goal
  <2>5. CASE EndSession(p) \/ EndAllSessions(p)
    BY <2>3, <2>5, SessionsEnded DEF Goal
  <2>6. CASE ~SaveSession(p) /\ ~EndSession(p) /\ ~EndAllSessions(p)
    <3>1. /\ UNCHANGED <<login, ended>>
          /\ \A t \in Tokens : tokens'[t].state # "absent" /\ tokens'[t].type = "refresh" =>
                                  tokens[t].state # "absent"
      BY <1>1, <2>6, OtherSteps
    <3>2. QED
      BY <1>0, <2>3, <3>1, LoginsStand DEF Goal
  <2>7. QED
    BY <2>4, <2>5, <2>6
<1>2. ASSUME NEW p \in Procs, Call(p) PROVE Goal
  <2>1. /\ UNCHANGED <<tokens, login, ended>> /\ Begun(procs'[p])
        /\ procs'[p].op = "refresh" => Refreshing(procs'[p])
        /\ \A q \in Procs : q # p => procs'[q] = procs[q]
    BY <1>2, CallEffect DEF Begun
  <2>2. LoginsStayEnded' /\ LoginsExist' /\ OneSessionPerLogin'
    BY <1>0, <2>1, LoginsStand
  <2>3. procs'[p].op = "refresh" =>
           LET t == procs'[p].token
           IN  t \in Tokens /\ Live(t, "refresh") /\ login[t] \notin ended
    BY <1>0, <2>1 DEF Refreshing, LoginsStayEnded
  <2>4. RefreshReady(p)'
    BY <2>1, <2>3 DEF RefreshReady, Refreshing, Live
  <2>5. \A q \in Procs : q # p => procs[q].at = "idle" /\ procs'[q] = procs[q]
    BY <2>1, OthersIdle DEF Begun
  <2>6. \A q \in Procs : q # p => RefreshReady(q)'
    BY <1>0, <2>5 DEF RefreshReady
  <2>7. QED
    BY <2>2, <2>4, <2>6 DEF Goal
<1>3. ASSUME NEW p \in Procs, Crash(p) PROVE Goal
  <2>1. /\ UNCHANGED <<tokens, login, ended>> /\ procs'[p].op = "none"
        /\ procs[p].at # "idle" /\ \A q \in Procs : q # p => procs'[q] = procs[q]
    BY <1>3 DEF Crash, TypeOK, Idle
  <2>2. LoginsStayEnded' /\ LoginsExist' /\ OneSessionPerLogin'
    BY <1>0, <2>1, LoginsStand
  <2>3. RefreshReady(p)'
    BY <2>1 DEF RefreshReady
  <2>4. \A q \in Procs : q # p => procs[q].at = "idle" /\ procs'[q] = procs[q]
    BY <2>1, OthersIdle
  <2>5. \A q \in Procs : q # p => RefreshReady(q)'
    BY <1>0, <2>4 DEF RefreshReady
  <2>6. QED
    BY <2>2, <2>3, <2>5 DEF Goal
<1>4. ASSUME UNCHANGED vars \/ \E t \in Tokens : Expire(t) PROVE Goal
  <2>1. UNCHANGED <<procs, login, ended>>
    BY <1>4 DEF vars, Expire
  <2>2. \A t \in Tokens : /\ tokens'[t].state = tokens[t].state
                          /\ tokens'[t].type = tokens[t].type
                          /\ tokens'[t].user = tokens[t].user
    BY <1>4 DEF vars, Expire, TypeOK, Token
  <2>3. LoginsStayEnded' /\ LoginsExist' /\ OneSessionPerLogin'
    BY <1>0, <2>1, <2>2, LoginsStand
  <2>4. \A q \in Procs : RefreshReady(q)'
    BY <1>0, <2>1, <2>2 DEF RefreshReady, Live
  <2>5. QED
    BY <2>3, <2>4 DEF Goal
<1>5. Goal
  BY <1>1, <1>2, <1>3, <1>4 DEF Next
<1>6. RefreshInv'
  BY <1>5 DEF Goal, RefreshInv, RefreshReady, Live
<1>7. QED
  BY <1>5, <1>6 DEF Goal, LoginInv

LEMMA InitLogins == AuthAssumption /\ Init => LoginInv
<1> SUFFICES ASSUME AuthAssumption, Init PROVE LoginInv
  OBVIOUS
<1>1. /\ \A t \in Tokens : tokens[t].state = "absent"
      /\ \A p \in Procs : procs[p].op = "none"
      /\ ended = {}
  BY DEF Init, Idle
<1>2. QED
  BY <1>1
  DEF LoginInv, LoginsStayEnded, LoginsExist, OneSessionPerLogin, RefreshInv, Live

LEMMA InitAlone == AuthAssumption /\ Init => SuccessorInv /\ PinInv /\ UseInv /\ OneAtATime
<1> SUFFICES ASSUME AuthAssumption, Init
             PROVE  SuccessorInv /\ PinInv /\ UseInv /\ OneAtATime
  OBVIOUS
<1>1. /\ \A t \in Tokens : tokens[t].state = "absent" /\ parent[t] = NoToken
      /\ \A x \in Tokens \union Codes : uses[x] = 0
      /\ \A p \in Procs : /\ procs[p].op = "none" /\ procs[p].at = "idle"
                          /\ procs[p].code = NoCode
  BY DEF Init, Idle
<1>2. SuccessorInv /\ PinInv
  BY <1>1 DEF SuccessorInv, RotatedOnce, PinInv, OnePinPerUser, Stored
<1>3. UseInv /\ OneAtATime
  BY <1>1 DEF UseInv, OneAtATime
<1>4. QED
  BY <1>2, <1>3

\* The behaviours of the instances are behaviours of AuthTokens.
LEMMA InstanceTypes == MCSpec => [](TypeOK /\ RotationInv)
<1>1. MCInit => Init
  BY DEF MCInit
<1>2. [MCNext]_<<vars, alone>> => [Next]_vars
  BY DEF MCNext, vars
<1>3. Init => TypeOK /\ RotationInv
  BY AuthAssumption, InitType, InitRotation
<1>4. TypeOK /\ RotationInv /\ [Next]_vars => (TypeOK /\ RotationInv)'
  BY AuthAssumption, NextType, RotationStep
<1>5. QED
  BY <1>1, <1>2, <1>3, <1>4, PTL DEF MCSpec

\* When requests do not overlap, each of the four invariants is kept by every
\* operation, wherever a request dies.
THEOREM AloneHolds == MCSpec => []AloneInv
<1>1. MCInit => AloneInv
  BY AuthAssumption, InitLogins, InitAlone DEF MCInit, AloneInv
<1>2. TypeOK /\ RotationInv /\ AloneInv /\ [MCNext]_<<vars, alone>> => AloneInv'
  <2> SUFFICES ASSUME TypeOK, RotationInv, AloneInv, [MCNext]_<<vars, alone>>, alone'
               PROVE  AloneInv'
    BY DEF AloneInv
  <2>1. [Next]_vars /\ UNCHANGED alone
    BY DEF MCNext, vars
  <2>2. OneAtATime /\ LoginInv /\ SuccessorInv /\ PinInv /\ UseInv
    BY <2>1 DEF AloneInv
  <2>3. OneAtATime'
    <3>1. CASE MCNext
      BY <2>1, <3>1 DEF MCNext, MCStep
    <3>2. CASE UNCHANGED <<vars, alone>>
      BY <2>2, <3>2 DEF OneAtATime, vars
    <3>3. QED
      BY <3>1, <3>2
  <2>4. LoginInv' /\ SuccessorInv' /\ PinInv' /\ UseInv'
    BY <2>1, <2>2, <2>3, AuthAssumption, LoginStep, SuccessorStep, PinStep, UseStep
  <2>5. QED
    BY <2>3, <2>4 DEF AloneInv
<1>3. QED
  BY <1>1, <1>2, InstanceTypes, PTL DEF MCSpec

\* A log-out ends the login for good, wherever requests die, provided that
\* they do not overlap (logout, logoutAllSessions, refreshAuth).
THEOREM LogoutsHold == MCSpec => []LoginsStayEndedAlone
<1>1. AloneInv => LoginsStayEndedAlone
  BY DEF AloneInv, LoginInv, LoginsStayEndedAlone
<1>2. QED
  BY <1>1, AloneHolds, PTL

\* Refreshing never forks a session when requests do not overlap (refreshAuth).
THEOREM RefreshesOnce == MCSpec => []RotatedOnceAlone
<1>1. AloneInv => RotatedOnceAlone
  BY DEF AloneInv, SuccessorInv, RotatedOnceAlone
<1>2. QED
  BY <1>1, AloneHolds, PTL

\* The last PIN sent is the only one that works (requestLogin and
\* resendLoginRequest delete the earlier ones first).
THEOREM LastPinWorks == MCSpec => []OnePinAlone
<1>1. AloneInv => OnePinAlone
  BY DEF AloneInv, PinInv, OnePinAlone
<1>2. QED
  BY <1>1, AloneHolds, PTL

\* A PIN, a reset link or a recovery code is honoured once, wherever the
\* requests that use it die (confirmLogin, resetPassword,
\* verifyAndConsumeRecoveryCode).
THEOREM HonouredOnce == MCSpec => []UsedOnceAlone
<1>1. AloneInv => UsedOnceAlone
  <2> SUFFICES ASSUME AloneInv, alone, NEW x \in Tokens \union Codes PROVE uses[x] <= 1
    BY DEF UsedOnceAlone, UsedOnce
  <2>1. uses[x] = 0 \/ uses[x] = 1
    BY DEF AloneInv, UseInv
  <2>2. QED
    BY <2>1
<1>2. QED
  BY <1>1, AloneHolds, PTL
=============================================================================
