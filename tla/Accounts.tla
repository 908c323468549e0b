------------------------------ MODULE Accounts ------------------------------
(***************************************************************************)
(* The waitlist, the whitelist that guards registrations and logins, and   *)
(* the ways into an account: its password, the OAuth providers linked to   *)
(* it, and the services it is connected to.                                *)
(*                                                                         *)
(* A handler is a process with one step per call to the database.  A save  *)
(* of a user document writes the paths that changed; where a whole array   *)
(* is assigned, as oauthProviders always is, the save also requires the    *)
(* version of the document that was read, and moves it on.                 *)
(***************************************************************************)
EXTENDS Integers, FiniteSets

CONSTANTS
    Users,              \* addresses, and the accounts they belong to
    Domain,             \* the addresses of a whitelisted domain
    Providers,          \* google, github
    Services,           \* figma, claude, atlassian
    Procs,
    WhitelistEnabled,   \* config.betaWhitelistEnabled
    ClaudeConfigured,   \* config.claudeApi is set
    None

VARIABLES
    entries,            \* the waitlist: one document per address
    accounts,           \* the user documents
    handlers,           \* the requests in flight
    together,              \* history: addresses that joined the waitlist together
    intruders,          \* history: let in while not whitelisted
    proven,             \* history: who followed a mail, or came from a provider
    granted             \* history: connections that a service granted

accountVars == <<entries, accounts, handlers, together, intruders, proven, granted>>

historyVars == <<together, intruders, proven, granted>>

-----------------------------------------------------------------------------
(* State.                                                                  *)

Entry == [exists : BOOLEAN, whitelisted : BOOLEAN, position : Nat]

NoEntry == [exists |-> FALSE, whitelisted |-> FALSE, position |-> 0]

Account == [status : {"none", "stored", "deleted"},
            password : BOOLEAN, hasPassword : BOOLEAN,
            providers : SUBSET Providers, version : Nat,
            accepted : BOOLEAN, verified : BOOLEAN, boarded : BOOLEAN,
            pin : BOOLEAN,            \* the pin that confirms a registration
            welcomed : BOOLEAN,       \* the tokens a new user starts with
            connected : SUBSET Services]

NoAccount == [status |-> "none", password |-> FALSE, hasPassword |-> FALSE,
              providers |-> {}, version |-> 0, accepted |-> FALSE,
              verified |-> FALSE, boarded |-> FALSE, pin |-> FALSE,
              welcomed |-> FALSE, connected |-> {}]

Steps == {"idle", "join_position", "join_save", "register_admit", "register_create",
          "confirm_accept", "confirm_delete_pins", "confirm_welcome", "oauth_admit",
          "oauth_link", "oauth_create", "oauth_callback", "unlink_save",
          "change_save", "reset_save", "reset_accept", "exchange", "connect"}

Handler == [step : Steps, user : Users \union {None},
            provider : Providers \union {None}, service : Services \union {None},
            copy : Account,           \* the document as it was read
            position : Nat,           \* the last one that was read
            welcome : BOOLEAN]        \* whitelisted at some time of the request

Rest == [step |-> "idle", user |-> None, provider |-> None, service |-> None,
         copy |-> NoAccount, position |-> 0, welcome |-> FALSE]

AccountsInit ==
    /\ entries = [u \in Users |-> NoEntry]
    /\ accounts = [u \in Users |-> NoAccount]
    /\ handlers = [p \in Procs |-> Rest]
    /\ together = {} /\ intruders = {} /\ proven = {} /\ granted = {}

Stored(u) == accounts[u].status = "stored"

At(p, step) == handlers[p].step = step

Go(p, step) == handlers' = [handlers EXCEPT ![p].step = step]

Done(p) == handlers' = [handlers EXCEPT ![p] = Rest]

KeepRest == UNCHANGED <<entries, historyVars>>

\* A handler that begins with a query for the account.
Find(p, u, step) ==
    /\ At(p, "idle")
    /\ handlers' = [handlers EXCEPT ![p].step = step, ![p].user = u,
                                    ![p].copy = accounts[u]]
    /\ UNCHANGED accounts /\ KeepRest

\* user.save(): a document that is gone is an error.
Write(p, doc, step) ==
    LET u == handlers[p].user IN
    /\ IF Stored(u) THEN /\ accounts' = [accounts EXCEPT ![u] = doc]
                         /\ IF step = "idle" THEN Done(p) ELSE Go(p, step)
       ELSE Done(p) /\ UNCHANGED accounts
    /\ KeepRest

-----------------------------------------------------------------------------
(* The waitlist.                                                           *)

\* Domains first, then the document of the address.
IsEmailWhitelisted(u) == u \in Domain \/ (entries[u].exists /\ entries[u].whitelisted)

Admitted(u) == WhitelistEnabled => IsEmailWhitelisted(u)

\* addToWaitlist: an address that is there is a conflict.
Join(p, u) ==
    /\ At(p, "idle")
    /\ ~ entries[u].exists
    /\ handlers' = [handlers EXCEPT ![p].step = "join_position", ![p].user = u]
    /\ UNCHANGED accounts /\ KeepRest

\* Mutation of LastPosition: the entries are counted.
NumberOfPositions == Cardinality({u \in Users : entries[u].position > 0})

LastPosition == CHOOSE n \in {entries[u].position : u \in Users} :
                   \A u \in Users : entries[u].position <= n

JoinPosition(p) ==
    LET others == {handlers[q].user : q \in {q \in Procs \ {p} : At(q, "join_save")}} IN
    /\ At(p, "join_position")
    /\ handlers' = [handlers EXCEPT ![p].step = "join_save", ![p].position = LastPosition]
    /\ together' = together \union (IF others = {} THEN {} ELSE others \union {handlers[p].user})
    /\ UNCHANGED <<entries, accounts, intruders, proven, granted>>

\* The address is unique, the position is not.
JoinSave(p) ==
    LET u == handlers[p].user IN
    /\ At(p, "join_save")
    /\ entries' = IF entries[u].exists THEN entries
                  ELSE [entries EXCEPT ![u] = [exists |-> TRUE, whitelisted |-> FALSE,
                                               position |-> handlers[p].position + 1]]
    /\ Done(p)
    /\ UNCHANGED <<accounts, historyVars>>

\* whitelistUser creates the document of an address that never joined, without
\* a position; a mail that fails is ignored.
WhitelistUser(u) ==
    /\ entries' = [entries EXCEPT ![u].exists = TRUE, ![u].whitelisted = TRUE]
    /\ handlers' = [p \in Procs |->
          IF handlers[p].user = u THEN [handlers[p] EXCEPT !.welcome = TRUE]
          ELSE handlers[p]]
    /\ UNCHANGED <<accounts, historyVars>>

RemoveFromWhitelist(u) ==
    /\ entries[u].exists
    /\ entries' = [entries EXCEPT ![u].whitelisted = FALSE]
    /\ UNCHANGED <<accounts, handlers, historyVars>>

DeleteEntry(u) ==
    /\ entries[u].exists
    /\ entries' = [entries EXCEPT ![u] = NoEntry]
    /\ UNCHANGED <<accounts, handlers, historyVars>>

-----------------------------------------------------------------------------
(* Registration.                                                           *)

Begin(p, u, x, step) ==
    /\ At(p, "idle")
    /\ handlers' = [handlers EXCEPT ![p] =
          [step |-> step, user |-> u, provider |-> x, service |-> None,
           copy |-> accounts[u], position |-> 0, welcome |-> Admitted(u)]]
    /\ UNCHANGED <<entries, accounts, together, intruders, granted>>

RequestRegister(p, u) == Begin(p, u, None, "register_admit") /\ UNCHANGED proven

\* passport finds the account of the profile's address before it looks at the
\* whitelist.
OauthLogin(p, u, x) == Begin(p, u, x, "oauth_admit") /\ proven' = proven \union {u}

AfterAdmission(r) ==
    IF r.step = "register_admit" THEN "register_create"
    ELSE IF r.copy.status = "stored" THEN "oauth_link" ELSE "oauth_create"

Admit(p) ==
    /\ At(p, "register_admit") \/ At(p, "oauth_admit")
    /\ IF Admitted(handlers[p].user) THEN Go(p, AfterAdmission(handlers[p])) ELSE Done(p)
    /\ UNCHANGED accounts /\ KeepRest

LetIn(p) ==
    intruders' = intruders \union (IF handlers[p].welcome THEN {} ELSE {handlers[p].user})

\* The address is unique; who comes second is answered with an error.
Create(p, doc, step) ==
    LET u == handlers[p].user IN
    /\ IF accounts[u].status = "none"
       THEN /\ accounts' = [accounts EXCEPT ![u] = doc]
            /\ IF step = "idle" THEN Done(p) ELSE Go(p, step)
            /\ LetIn(p)
       ELSE Done(p) /\ UNCHANGED <<accounts, intruders>>
    /\ UNCHANGED <<entries, together, proven, granted>>

RegisterCreate(p) ==
    /\ At(p, "register_create")
    /\ Create(p, [NoAccount EXCEPT !.status = "stored", !.password = TRUE,
                                   !.hasPassword = TRUE, !.pin = TRUE], "idle")

OauthCreate(p) ==
    /\ At(p, "oauth_create")
    /\ Create(p, [NoAccount EXCEPT !.status = "stored", !.verified = TRUE,
                                   !.accepted = TRUE, !.welcomed = TRUE,
                                   !.providers = {handlers[p].provider}], "oauth_callback")

\* confirmRegister: a pin of the user that has not expired.
ConfirmRegister(p, u) ==
    /\ At(p, "idle") /\ Stored(u) /\ accounts[u].pin
    /\ handlers' = [handlers EXCEPT ![p].step = "confirm_accept", ![p].user = u]
    /\ proven' = proven \union {u}
    /\ UNCHANGED <<entries, accounts, together, intruders, granted>>

ConfirmAccept(p) ==
    /\ At(p, "confirm_accept")
    /\ Write(p, [accounts[handlers[p].user] EXCEPT !.accepted = TRUE], "confirm_delete_pins")

ConfirmDeletePins(p) ==
    /\ At(p, "confirm_delete_pins")
    /\ Write(p, [accounts[handlers[p].user] EXCEPT !.pin = FALSE], "confirm_welcome")

ConfirmWelcome(p) ==
    /\ At(p, "confirm_welcome")
    /\ Write(p, [accounts[handlers[p].user] EXCEPT !.welcomed = TRUE], "idle")

-----------------------------------------------------------------------------
(* Providers and passwords.                                                *)

\* Another save of the whole array since the document was read is a
\* VersionError.
SaveProviders(p, doc, step) ==
    IF accounts[handlers[p].user].version = handlers[p].copy.version
    THEN Write(p, [doc EXCEPT !.version = @ + 1], step)
    ELSE Done(p) /\ UNCHANGED accounts /\ KeepRest

\* addOAuthProvider replaces the entry of the same provider; the save verifies
\* an address that a provider vouches for.
OauthLink(p) ==
    LET r == handlers[p] IN
    /\ At(p, "oauth_link")
    /\ SaveProviders(p, [accounts[r.user] EXCEPT
                           !.providers = r.copy.providers \union {r.provider},
                           !.verified = TRUE], "oauth_callback")

\* The whitelist is looked at again before a session is created.
OauthCallback(p) ==
    /\ At(p, "oauth_callback")
    /\ IF Admitted(handlers[p].user) THEN LetIn(p) ELSE UNCHANGED intruders
    /\ Done(p)
    /\ UNCHANGED <<entries, accounts, together, proven, granted>>

\* The last way to log in is not given up.
UnlinkOAuthProvider(p, u, x) ==
    /\ At(p, "idle") /\ Stored(u)
    /\ accounts[u].hasPassword \/ accounts[u].providers \ {x} # {}
    /\ handlers' = [handlers EXCEPT ![p].step = "unlink_save", ![p].user = u,
                                    ![p].provider = x, ![p].copy = accounts[u]]
    /\ UNCHANGED accounts /\ KeepRest

UnlinkSave(p) ==
    LET r == handlers[p] IN
    /\ At(p, "unlink_save")
    /\ SaveProviders(p, [accounts[r.user] EXCEPT !.providers = r.copy.providers \ {r.provider}],
                     "idle")

\* changePassword asks for the present one, resetPassword for the token of a
\* mail, which any account can have sent.
ChangePassword(p, u) ==
    Stored(u) /\ accounts[u].hasPassword /\ Find(p, u, "change_save")

ResetPassword(p, u) ==
    /\ At(p, "idle") /\ Stored(u)
    /\ handlers' = [handlers EXCEPT ![p].step = "reset_save", ![p].user = u]
    /\ proven' = proven \union {u}
    /\ UNCHANGED <<entries, accounts, together, intruders, granted>>

\* The hook before every save sets hasPassword.
SetPassword(p) ==
    LET doc == [accounts[handlers[p].user] EXCEPT !.password = TRUE, !.hasPassword = TRUE] IN
    \/ At(p, "change_save") /\ Write(p, doc, "idle")
    \/ At(p, "reset_save")  /\ Write(p, doc, "reset_accept")

ResetAccept(p) ==
    /\ At(p, "reset_accept")
    /\ Write(p, [accounts[handlers[p].user] EXCEPT !.accepted = TRUE], "idle")

-----------------------------------------------------------------------------
(* Connected services.  The state that goes through the service names the   *)
(* user.                                                                    *)

Initiate(p, u, s) ==
    /\ At(p, "idle") /\ Stored(u)
    /\ handlers' = [handlers EXCEPT ![p].step = "exchange", ![p].user = u, ![p].service = s]
    /\ UNCHANGED accounts /\ KeepRest

InitiateFigma(p, u) == Initiate(p, u, "figma")

InitiateAtlassian(p, u) == Initiate(p, u, "atlassian")

Callback(p, service, granting, storing) ==
    /\ At(p, "exchange") /\ handlers[p].service = service
    /\ IF storing THEN Go(p, "connect") ELSE Done(p)
    /\ granted' = granted \union
          (IF granting THEN {<<handlers[p].user, service>>} ELSE {})
    /\ UNCHANGED <<entries, accounts, together, intruders, proven>>

\* The service accepts the code, or the callback ends.
FigmaCallback(p) == \E accepted \in BOOLEAN : Callback(p, "figma", accepted, accepted)

\* Atlassian must also name a site.
AtlassianCallback(p) ==
    \E accepted, site \in BOOLEAN :
       Callback(p, "atlassian", accepted /\ site, accepted /\ site)

\* An updateOne: without a user it changes nothing.
Connect(p) ==
    /\ At(p, "connect")
    /\ Write(p, [accounts[handlers[p].user] EXCEPT !.connected = @ \union {handlers[p].service}],
             "idle")

\* Claude has no exchange: the key is the server's.
InitiateClaude(u) ==
    /\ ClaudeConfigured /\ Stored(u)
    /\ accounts' = [accounts EXCEPT ![u].connected = @ \union {"claude"}]
    /\ granted' = granted \union {<<u, "claude">>}
    /\ UNCHANGED <<entries, handlers, together, intruders, proven>>

Disconnect(u, s) ==
    /\ Stored(u)
    /\ accounts' = [accounts EXCEPT ![u].connected = @ \ {s}]
    /\ UNCHANGED <<entries, handlers, historyVars>>

ConnectionStatus(u, s) ==
    s \in accounts[u].connected /\ (s = "claude" => ClaudeConfigured)

-----------------------------------------------------------------------------
(* Administration.                                                         *)

\* inviteUser: a generated password and a mail to reset it.  No whitelist.
InviteUser(u) ==
    /\ accounts[u].status = "none"
    /\ accounts' = [accounts EXCEPT ![u] =
          [NoAccount EXCEPT !.status = "stored", !.password = TRUE,
                            !.hasPassword = TRUE, !.boarded = TRUE]]
    /\ UNCHANGED <<handlers, entries, historyVars>>

FixUserAcceptanceStatus(u) ==
    /\ Stored(u) /\ accounts[u].boarded /\ accounts[u].verified
    /\ accounts' = [accounts EXCEPT ![u].accepted = TRUE]
    /\ UNCHANGED <<handlers, entries, historyVars>>

DeleteUser(u) ==
    /\ Stored(u)
    /\ accounts' = [accounts EXCEPT ![u] = [NoAccount EXCEPT !.status = "deleted"]]
    /\ UNCHANGED <<handlers, entries, historyVars>>
\* The process stops, or a call of the handler fails, between any two steps.
Abort(p) ==
    /\ ~ At(p, "idle")
    /\ Done(p)
    /\ UNCHANGED <<entries, accounts, historyVars>>

AccountsNext ==
    \/ \E p \in Procs, u \in Users :
          \/ Join(p, u) \/ RequestRegister(p, u) \/ ConfirmRegister(p, u)
          \/ ChangePassword(p, u) \/ ResetPassword(p, u)
          \/ \E x \in Providers : OauthLogin(p, u, x) \/ UnlinkOAuthProvider(p, u, x)
          \/ InitiateFigma(p, u) \/ InitiateAtlassian(p, u)
    \/ \E p \in Procs :
          \/ JoinPosition(p) \/ JoinSave(p) \/ Admit(p) \/ RegisterCreate(p)
          \/ OauthCreate(p) \/ ConfirmAccept(p) \/ ConfirmDeletePins(p)
          \/ ConfirmWelcome(p) \/ OauthLink(p) \/ OauthCallback(p) \/ UnlinkSave(p)
          \/ SetPassword(p) \/ ResetAccept(p) \/ FigmaCallback(p)
          \/ AtlassianCallback(p) \/ Connect(p) \/ Abort(p)
    \/ \E u \in Users :
          \/ WhitelistUser(u) \/ RemoveFromWhitelist(u) \/ DeleteEntry(u)
          \/ InviteUser(u) \/ FixUserAcceptanceStatus(u) \/ DeleteUser(u)
          \/ InitiateClaude(u) \/ \E s \in Services : Disconnect(u, s)

-----------------------------------------------------------------------------
(* Properties.                                                             *)

AccountsTypeOK ==
    /\ entries \in [Users -> Entry] /\ accounts \in [Users -> Account]
    /\ handlers \in [Procs -> Handler]
    /\ together \subseteq Users /\ intruders \subseteq Users /\ proven \subseteq Users
    /\ granted \subseteq Users \X Services

\* Two addresses have the same place on the waitlist only if they joined at the
\* same time, whoever was whitelisted, removed or deleted since.
PlacesDiffer ==
    \A u, v \in Users : u # v /\ entries[u].position > 0
                              /\ entries[u].position = entries[v].position
                         => {u, v} \subseteq together

\* Nobody registers or logs in whose address was not whitelisted at some time
\* of the request.
NobodyUninvited == intruders = {}

\* An account always keeps a way to log in, and says truly whether that is a
\* password: of two requests that each unlink one of its last two providers the
\* second is refused by the version of the document.
StaysReachable ==
    \A u \in Users : Stored(u) =>
        /\ accounts[u].hasPassword = accounts[u].password
        /\ accounts[u].hasPassword \/ accounts[u].providers # {}

\* An account is accepted only after somebody who reads the address's mail, or
\* whom a provider vouches for, has used it; it has the tokens of a new user only
\* when it is accepted and the pin is gone.
AcceptedIsProven ==
    \A u \in Users : Stored(u) =>
        /\ accounts[u].accepted => u \in proven
        /\ accounts[u].welcomed => accounts[u].accepted /\ ~ accounts[u].pin

\* What is shown as connected was granted by the service.
ConnectedIsGranted ==
    \A u \in Users, s \in Services : ConnectionStatus(u, s) => <<u, s>> \in granted

AccountsSafe ==
    /\ AccountsTypeOK
    /\ PlacesDiffer /\ NobodyUninvited /\ StaysReachable
    /\ AcceptedIsProven /\ ConnectedIsGranted
=============================================================================
