# Amoeba API: TLA+ models, checks and proofs

This directory is a verification project for the Amoeba API (a TypeScript
service on Express and MongoDB) and its two Go daemons, the gateway and the
edge. The modules model what the code does between one database call (or one
lock) and the next, because that is where requests meet; TLC checks them on
small instances and TLAPS proves many of the results for instances of any size.
Paths below are relative to the root of the repository.

Contents: the system · the modules · Workspaces · AuthTokens · Gateway · Edge ·
Billing · the services · what the runs found · what is proved and what is only
model-checked · what is not modelled · the plan · how to run it.

## The system and its parts

| Part | State | Operations | Talks to |
| --- | --- | --- | --- |
| Workspaces (`src/modules/workspace`) | memberships (unique per user and workspace), invitations, the status of the company, `User.company` | register, create, switch, delete; invite, accept, revoke, preview; change a role, remove a member; `ensureLegacyMembership` on every authenticated request | accounts, companies, tokens |
| Accounts (`src/modules/user`, `account`) | user documents, token balance, recovery codes | create, update, delete, invite, `deductTokens`, profile, revoke a session, unlink a provider | workspaces, tokens, billing |
| Sessions and tokens (`src/modules/auth`, `token`) | Token documents: refresh tokens, login PINs, reset and verify tokens | request, resend and confirm a login, OAuth, refresh, log out (one, all), forgot and reset | accounts |
| Billing (`src/modules/company/pawstackController.ts`, `payStackService.ts`) | the company's `billing`, transactions (unique reference), the user's `currentTokens` | Paystack webhooks, top-up, subscribe, change plan, cancel | Paystack, accounts |
| Gateway (`apps/gateway/main.go`) | one registered connection per node; per connection its socket, the pending heartbeat and the `syncing` flag | connect, register, heartbeat, ping, command, disconnect, close | nodes, the API |
| Edge (`apps/edge/main.go`) | one registered tunnel per node, the route cache | connect a tunnel, resolve a host, proxy a request | nodes, the API |
| Beta users (`betaUsers`) | waitlist positions, whitelist | join, whitelist, remove, check | registration, OAuth |
| OAuth (`auth/passport.ts`, `auth.controller.ts`) | the providers linked to an account, its Figma, Claude and Atlassian connections | sign up, log in, link, unlink; connect, disconnect | accounts, workspaces, providers |
| API keys (`apiKeys`) | keys of a company | create, update, delete; a request that carries one | companies, authentication |
| Session tracker (`sessions`) | anonymous sessions, events, counters, form backups | start, find by address, record an event, back up a form | none |
| Activity log, mail, storage | append-only records; none | write, send | others' services |
| Middlewares (`src/middlewares`) | counters kept by express-rate-limit, violations, a blacklist | limits, filters, authentication, validation | every route |
| Utilities (`src/utils`) | none | reference analysis, reports of issues, retries of fix tasks, pagination, repair of JSON | no caller in the repository but pagination |

### How the parts interact

- Every authenticated request first runs `ensureLegacyMembership`, which may
  create the membership that makes its user the owner of a workspace. Whatever
  writes `User.company` or a membership therefore meets every other request.
- Registration (accounts) creates a company, a membership and a pointer
  (workspaces); deleting an account leaves its memberships behind.
- The session that confirms a login is a Token document; refreshing, logging
  out and revoking a session of the account page all write the same documents.
- Paystack calls the billing webhook, possibly several times for one payment;
  billing writes the balance of the account and the plan of the company.
- A node's agent keeps one websocket to the gateway and one tunnel to the edge.
  Both daemons tell the API when a node comes and goes; the API asks the
  gateway to deliver commands, to resynchronise or to cut off a node, and tells
  the edge which node serves a hostname.

### What is hard here

Node runs one callback at a time, so a handler is atomic between two awaits;
everything it read before an await may be stale after it. MongoDB makes one
update of one document atomic; no code here opens a transaction. The API runs
as several processes (`ecosystem.config.json`: `instances: "max"`), and each
may die between two awaits: on a failure of the machine, when its memory limit
is reached, or when it is stopped and requests outlast the ten seconds that
`src/index.ts` gives them. In the Go daemons several goroutines share a connection, and the end of
one connection races the registration of the next one of the same node.

| Part | Hard behaviour | What makes it correct |
| --- | --- | --- |
| Workspaces | check-then-create on every request; `save()` of a document read earlier; a deletion of three updates; a registration of four | one owner at most, and one at least, whatever interleaves or dies; a removed member comes back only by invitation; an invitation settles once |
| Tokens | refresh is verify, save, create; a code is found, then marked used; PINs die half-way | no session is live beside its successor; a log-out is final; a PIN, link or code is honoured once |
| Gateway | a replaced connection ends after its successor registered; a worker falls asleep as a heartbeat arrives; a socket whose writer is stuck | the registry names served connections; the end of a replaced one is not reported; the newest heartbeat is never lost; nobody waits for ever |
| Edge | as above for tunnels; slow answers stored over newer ones | no open tunnel is forgotten; a request leaves by its route's node; a bound on how old a route may be |
| Billing | repeated webhooks; calls to Paystack before and after writes | a payment is credited once or refunded, never both, never neither |
| Waitlist, tracker | read the last number, then write the next; counters computed from an earlier read | positions and numbers are equal only after a race; every acknowledged event is stored |
| Accounts | a check of what remains, then a save; admission before creation | an account keeps a way to log in; nobody enters uninvited |
| API keys | an update saves what it read earlier | a key that was withdrawn stays withdrawn |
| Limits | a violation counted after an awaited log entry, swept meanwhile | none is lost, none counts twice |

## The modules

| Module | What it is |
| --- | --- |
| `Workspaces`, `MCWorkspaces`, `WorkspacesProofs` | tenancy: accounts, workspaces, memberships, invitations |
| `AuthTokens`, `MCAuthTokens`, `AuthTokensProofs` | logins, sessions, reset links, recovery codes |
| `SessionRegistry` | abstract: what both daemons promise about the sessions of a node |
| `Gateway`, `MCGateway`, `GatewayProofs` | the gateway; implements `SessionRegistry` |
| `Edge`, `MCEdge`, `EdgeProofs` | the edge; implements `SessionRegistry` |
| `Billing`, `MCBilling`, `BillingProofs` | payments, subscriptions, the plan of a company and the tokens of its users |
| `SumLemmas` | sums over finite sets, for the proofs |
| `Lists` | lists that are mapped and filtered |
| `Sessions` | the session tracker |
| `Accounts` | the waitlist, the ways into an account, its connections |
| `ApiKeys` | API keys and the requests that carry one |
| `Requests` | limits, filters, violations; the limits of the plans |
| `References`, `ValidationReports` | the analysers of an application's references; reports, retries and settings |
| `Analytics` | the usage reports |
| `MCServices` | the seven of them side by side, for TLC and for the proofs |
| `ServicesProofs` | proofs of the ones that have steps |
| `ReportsProofs` | proofs of the computations: `Analytics`, the plans, `References`, `ValidationReports` |

A component's module holds its specification and its properties. The inductive
invariant of its proofs stands last in it, or first in the module of the proofs. The `MC` module gives it the values of an
instance, and each `.cfg` is a question put to that instance. Some `MC` modules
add a variable that is chosen at the start and never changes (`alone`,
`scenario`, `part`): one run then covers several instances. A definition whose comment says
"Mutation of ..." is not part of the specification: it is a plausible mistake
in the definition it names, kept to show that a property would notice it.
`PROJECT.json` lists, for every definition, the lines of code it models.

In the two modules of the API a request is a record that holds where the
handler is and what it has read; a step is what the code does from the return
of one await to the start of the next. `Crash` forgets the record and keeps the
database. The constant `Operations` chooses which operations clients call in an
instance, so that a run can afford the ones its properties are about; between
the runs every operation is called.

## Workspaces

**State.** `users` (account status, system flag, `company` pointer),
`workspaces` (absent, active, deleted), `memberships[w][u]` (role and status:
one entry per pair, as the unique index has it), `invitations` (status, address,
workspace, role, `acceptedBy`), `requests`.

**Actions and code.**

| Actions | Code |
| --- | --- |
| `RequestRegister`, `CreateCompany`, `UpsertOwner`, `LinkCompany` | `auth.controller.ts` registration; `createWorkspaceForUser` joins it at `CreateCompany` |
| `OauthSignUp`, `CreateCompany`, `PointAtCompany`, `UpsertOwner`, `LinkCompany` | `passport.ts`: a new account, which is pointed at its company before it is a member of it |
| `EnsureLegacyMembership`, `CreateLegacyMembership` | the check and the create of `ensureLegacyMembership` |
| `InviteUser`, `CreateInvitedUser`, `DeleteUser`, `DeleteUserById` | `user.controller.ts` |
| `UpdateMemberRole`, `FindRoleTarget`, `SaveRole`; `RemoveMember`, `FindRemoveTarget`, `SaveRemoval` | `workspace.service.ts`, a read and a `save()` each |
| `CreateInvitation`, `CheckExistingMember`, `RevokeEarlierInvitations`, `StoreInvitation` | `createInvitation` |
| `AcceptInvitation`, `UpsertMember`, `SaveAccepted`, `LinkCompany` | `acceptInvitation` |
| `RevokeInvitation`, `FindRevocable`, `SaveRevoked`; `FindLapsed`, `SaveExpired`; `Lapse` | revocation; the preview that marks a lapsed invitation; time |
| `DeleteWorkspace`, `SuspendMemberships`, `RevokePendingInvitations`, `MarkDeleted` | `deleteWorkspace` |
| `SwitchWorkspace` | `switchWorkspace` |

**Abstractions.** A request's workspace may be any of which its user is an
active member, which covers every way the middleware resolves it
(`lastActiveWorkspace` is not kept). `save()` writes the modified paths only, so
a stale save changes only the field it was asked to. The e-mail of an account
never changes (no route writes it) and identifiers are never reused. No code
writes the status `invited`. Accounts that predate memberships are given by
`LegacyCompany` and `LegacySystem`. Left out: the account lock and the beta
whitelist, which only refuse; the customer created at Paystack; names, settings
and lists.

**Runs.**

| Run | Instance | Shows |
| --- | --- | --- |
| `workspaces_ownership` (859 431 states) | 2 accounts, 2 workspaces, 1 invitation, 2 requests at a time; registering by mail and by OAuth, creating, inviting both ways, role changes, accounts deleted, crashes | `AtMostOneOwner`, `SomebodyOwns` |
| `workspaces_members` (795 136) | the system users of 2 legacy companies, 2 invitations; role changes, removals, invitations, deletion, crashes. Either 2 requests overlap, or one runs at a time and they also revoke, preview, let lapse and switch | overlapping or not: `AcceptedMeansJoined`, `ActiveOwnerKept`, `NoSilentReinstatement`; one at a time: `OnePendingAlone`, `SettledOnceAlone`, `NoManagerAlone` |
| `workspaces_owner_demoted` | 1 legacy company, 1 request at a time, with crashes | a finding (below) |

*Why these bounds.* Ownership needs two rivals and one workspace besides the
one they fight for; a stale save needs two requests, and every handler has at
most two reads that another can make stale. Two invitations let one replace
another. The three properties that end in `Alone` are false when two requests
overlap: two `createInvitation` of one address both stay pending, a revocation
overwrites an acceptance, an acceptance survives a deletion. The code has
nothing against it (no conditional update), so they are stated of requests that
do not overlap.
`NoManagerOfDeleted` speaks of roles that manage because an account added by
`inviteUser` that never logged in still gets an ordinary membership of a
deleted workspace from `ensureLegacyMembership`. `SomebodyOwns` is not
asked of a run with deletions: the finding breaks it there.
Safety only: a handler that dies leaves its work undone, and nothing retries.
Deadlock is not checked since an instance runs out of identifiers.

**Proof** (`WorkspacesProofs`). From `WorkspacesAssumption` (one system user
per legacy company, one account per address), for any number of users,
workspaces, invitations and requests: `TypeCorrect`, `OwnershipInvariant` and
`OneOwner`. That there is one owner is not inductive: `ensureLegacyMembership`
makes any system user owner of the workspace its account points at. So
`OwnershipInv` counts claims instead of owners. It says that records hold the
references they will use (`Shape`), that nothing refers to a workspace before
its document exists (`FreshUntouched`), that a request about to write a pointer
finds the membership behind it (`PointerBacked`), and that no two accounts own
a workspace or are about to (`UniqueClaim`). All handlers but one write the
membership first and the pointer after it, which is what the third part rests
on. A sign-up by OAuth writes them the other way round; it is safe because only
its own account knows the new company, so the request itself is counted as a
claim until the membership is there. These invariants are proved for all
instances and not repeated in the runs.

The members and the invitations rest on four more invariants.

- `JoinInv`, for `AcceptanceJoins`: an invitation is marked accepted by a request
  that has just upserted the membership, and no handler deletes a membership.
- `AloneInv`, for `OnePending`, `NoManager` and `SettledOnce`, under the
  specification of `MCWorkspaces` in which requests do not overlap: a request
  about to settle an invitation finds it pending, and a deletion in progress
  has left nobody active.
- `ReignInv`, for `OwnersReign` (`ActiveOwnerKept`) and `NoReturn`
  (`NoSilentReinstatement`): founders come before members, and nothing in flight
  threatens an active owner.
- `Successions`, for `NeverOwnerless` (`SomebodyOwns`): whoever joins finds an
  owner or an account about to become it.

Three theorems have hypotheses, each with a reason. `OwnersReign` and `NoReturn`
assume `NoLateFounder`: clients of the instance either sign up by OAuth or delete
workspaces. Without it `NoReturn` is false, as TLC shows: a new account is pointed
at its company, deletes that workspace from another request before the sign-up
has written the membership, and the late upsert makes it an active owner of the
deleted workspace. `ReturnsExplained` says without hypotheses that this is the
only other way back: a suspended membership becomes active through an invitation
addressed to its user, or as the end of that user's own sign-up. `NeverOwnerless`
assumes `Undisturbed`: no deletion (the finding below breaks the property there),
and every legacy company has its system user.

## AuthTokens

**State.** `tokens` (refresh, PIN, reset: live, blacklisted or deleted, expired),
`codes` (recovery codes; one stands for a batch of ten), `procs` (requests),
`held` (documents whose secret reached a client), and four history variables:
`parent`, `login` (which login a session continues), `uses`, `ended`.

**Actions and code.** `RequestLogin` and `ResendLoginRequest`, then `DeletePins`
and `SavePin`; `ConfirmLogin` and `ConfirmWithCode`, then `FindCode`,
`SaveCode`, `SaveSession`, `DeletePins`; `OauthCallback`; `RefreshAuth`,
`Rotate`, `SaveSession`; `Logout`, `RevokeOwnedSession`, `LogoutAllSessions`,
then `EndSession`, `EndOtherSessions`, `EndAllSessions`; `ForgotPassword`,
`SaveReset`; `ResetPassword`, `DeleteResets`; `GenerateRecoveryCodes`,
`RevokeAllRecoveryCodes`, `DeleteCodes`, `InsertCodes` (`auth.controller.ts`,
`auth.service.ts`, `token.service.ts`, `account.controller.ts`,
`recoveryCode.service.ts`). `Answer` is the response; a client holds a document
only when the request that created it was answered. `Crash` is the process
dying, and a database call that fails looks the same to the client.

**Abstractions.** Digits, passwords and mails are data: a client that uses a
PIN, link or code is one that has received it. The login of the test address
behaves as `OauthCallback`. `confirmLogin` accepts any stored document id
together with a recovery code and does not look at `blacklisted` on a PIN, and
so does the model. The refresh token saved together with a PIN is never sent to
anyone, so it is never `held`.

**Runs.**

| Run | Instance | Shows |
| --- | --- | --- |
| `auth_sessions` (654 573 states) | 1 user, 4 documents, 1 code; either 2 requests overlap (OAuth, refresh, log out one and all, expiry, crashes) or every operation but expiry one at a time | in both, a refreshed session is never accepted again (`RotationRevokesParent`); one at a time, `RotatedOnceAlone`, `LoginsStayEndedAlone`, `OnePinAlone`, `UsedOnceAlone` |
| `auth_logout_race`, `auth_code_race` | 2 requests at a time | findings (below) |

*Why these bounds.* Four documents are a login with a refresh after a refresh
beside another login; users share no document, so one is enough. The second
request of a race needs one other step at most. What holds with one request at
a time and fails with two is stated separately, and the races are runs of their
own.

**Proof** (`AuthTokensProofs`). `TypeCorrect`, `RotationHolds` and
`RotationSafe` hold for any number of overlapping requests: `RotationInv` adds
that a refresh about to create the successor has already spent its token.

What holds when requests do not overlap is proved of `MCSpec`, the specification
of the run: `AloneHolds`, and from it `LogoutsHold`, `RefreshesOnce`,
`LastPinWorks` and `HonouredOnce`. `AloneInv` says that where `alone` was chosen
one request at most is in flight (`OneAtATime`, which `MCStep` asks of the
requests of clients) and that four invariants hold. `LoginInv`: a login has one
live session at most, the token that a refresh verified is live until it rotates
it, and between the two saves of a refresh its login has no live session at all.
`SuccessorInv`: no session was refreshed yet from a token whose refresh is under
way. `PinInv`: a request about to save a PIN has deleted the earlier ones. `UseInv`:
what was honoured is spent, and what a request is about to honour was not yet.
Each of them says what the database looks like between two calls of one handler,
which is what another request in between destroys, and what a crash leaves for
the next one.

## Gateway

**State.** `nodes` (the registry), `clients` (per connection: `done`, the
socket, `pending`, `syncing`), the goroutines `readers` (the handler),
`connecting` (`syncConnected`), `transport` (`transportLoop`) and `workers`
(`syncHeartbeats`); of the API, which credentials are `revoked` and the request
to disconnect (`cuts`); and two histories, the newest status queued and the
last one the API acted on. A step is what a goroutine does under one lock, or
one call it makes.

**Sockets.** A socket is flowing, silent, blocked, broken or closed. *Blocked*
is a writer stuck in `WriteJSON` with `writeMu` held: the code sets no write
deadline for it, so pings and the close frame wait too, and through `sync.Once`
so does the `register` of the next connection, which closes the previous one
first. Only the operating system ends it. `Close` is the `close(done)` that
happens at once, `FinishClose` the frame and the socket.

**The API.** A call succeeds, is rejected (the credential is revoked) or fails,
in which case the API may have acted on it. The order in which it handles a
late `disconnected` and a newer `connected` is not in the repository and is not
modelled.

**Faults** bounds what goes wrong in a run: silence, a silent socket that
returns, hang-ups, failing calls, revocation.

**Runs.**

| Run | Instance | Shows |
| --- | --- | --- |
| `gateway_sessions` (48 845 states) | 2 connections of a node, no heartbeats; silence, its return, hang-ups, failing calls; fairness | `RegistryNamesHandlers`, `UnregisteredIsEnding`, `SupersededStaySilent`; `NewcomerServed`; `SessionsPromise`: the gateway implements `SessionRegistry` with its liveness |
| `gateway_heartbeats` (122 376) | 1 connection, 2 statuses, 2 worker goroutines; silence, hang-ups, failing calls, revocation; fairness | `SingleFlight`, `NewestKept`; `RevokedIsCutOff`, `HeartbeatArrives` |

*Why these bounds.* Nodes share nothing but the lock, so the connections are
all of one node. Two connections give every order of register and remove; the
proofs cover more. Two statuses distinguish an older from a newer one, two
workers the one that ends from the one that starts.

**Fairness** (`FairSpec`). Weak fairness of every step of a goroutine: Go runs
what can run. `Receive` is weakly fair because agents send heartbeats while
they are connected, and `KernelGivesUp` because unacknowledged data ends a
connection (minutes, not the liveness timeout). `HeartbeatAnswered` is strongly
fair: an API called again and again answers at some time. `FinishClose` is
strongly fair too: it needs `writeMu`, which pings and frames take in between,
and a Go mutex is handed to a goroutine that has waited for a millisecond. There
is no fairness for `DisconnectNode`, whose request may be lost:
`RevokedIsCutOff` rests on heartbeats being refused. In `gateway_sessions` a
socket that fell silent may flow again, any number of times; in
`gateway_heartbeats` it may not, since an agent that is silent at every call of
the API would need fairness that nothing in the code justifies. Two connections
with heartbeats and revocation at the same time are covered by the proofs only.

**Proof** (`GatewayProofs`). For any numbers of nodes, connections, goroutines
and statuses and any faults: `GatewayInvariant`, and from it `OneWorker`,
`NewestHeartbeatKept`, `NoStrayConnection`, `RegistrySound`,
`ReplacedIsSilent`; `GatewayImplementsRegistry` is the safety part of
`SessionsPromise`. `GatewayInv` has two halves. *Registry*: a replaced
connection was registered before, for the same node, and never is again
(`PreviousIsPast`), which is why comparing before deleting is enough. *Queue*:
`syncing` is set exactly while a worker exists on an open connection, and
nothing is pending without it (`WorkerLocals`).

Left out: the environment file, the contents of commands and of desired states,
the results of commands (posted once and forgotten), heartbeats whose payload is
null, frames that were buffered when the connection was closed.

## Edge

**State.** `sessions` (the registry), `tunnels` (the handler of each and whether
its yamux session is open), `cached` (the route of the hostname and when it
expires), `requests`, the clock, and of the API the versions of the route, the
one it answers now and when each was replaced.

**Actions.** `RefuseTunnel`, `ConnectTunnel` (under the lock), `ClosePrevious`
(outside it), `Announced`, `SessionDies`, `Unregister`, `Reported`;
`ResolveCached`, `Fetch`, `ApiAnswers`, `StoreRoute`, `FetchFails`,
`FindTunnel`, `Forward`; `Publish` and `Tick`.

**Abstractions.** Hostnames share only the map, so there is one. `Unavailable`
stands for every answer that gives no node. A goroutine that has the API's
answer stores it within the same second. The exchange over the stream, its
deadline, headers, the origin secret and yamux are I/O: `Forward` answers. The
API's view of the tunnels (`tunnelState`, whose errors are ignored) is not
modelled.

**Run** `edge` (769 401 states): 2 tunnels of one node and 1 of another, 2
requests, a cache of 2 seconds, calls of 1 second. The tunnels do not look at the
clock and the cache does not look at the tunnels, so the initial state picks one
of two scenarios.

- *Tunnels*: no clock, 2 versions of the route, which may name either node or
  none. `UnregisteredIsClosed`; `OpensNewest`: between the moment a request
  resolves a route and the moment it opens its stream the API may move the route,
  another request may store the new one, the tunnel may be replaced or end, and
  still the tunnel is of the node that the request's own route names, and is that
  node's newest, or closed, or about to be closed by the one that replaced it;
  `TunnelsPromise`: the edge implements the safety part of `SessionRegistry`. Two
  requests are needed for the cache to move under one that has resolved its route.
- *Routes*: 4 seconds, 3 versions, no tunnel. `RouteFresh`: two requests are
  needed for a slow answer to overwrite a newer one, and three seconds for the
  route it stores to reach its age limit of `CacheSeconds + CallSeconds`.

**Proof** (`EdgeProofs`). For any tunnels, nodes, requests and durations:
`InvHolds` and from it `UnregisteredCloses`, `RoutingHolds`, `RoutesFresh`;
`EdgeImplementsRegistry`. The clause about time in `EdgeInv` is `RoutesAge`: no
call began after the version it read was replaced, and what is cached expires
within both durations of it. `RoutingHolds` rests on `RoutedToItsNode` and
`OpenedRetires`, which follow a tunnel from its registration through its
replacement to its close. Concurrent answers overtake one another without
harm because each is dated by its own call. Only safety is claimed of the edge:
a handler waits on yamux, whose timeouts are not in the repository.

## Billing

**State.** Of the database: which `users` and `companies` exist, `balance`
(`currentTokens` bought), `plan` (`billing.plan`), `recorded` (the references of
transaction documents). Of Paystack, which is external: `charges`, `refunded`,
`subscriptions`, and `sent`, the events it has not seen answered with 200.
`handlers` are the requests and webhooks in flight. The rest are histories:
what a charge caused (`effects`), whose processing a failure cut short (`cut`),
whose success was reported again (`retried`), whose refund failed (`dropped`).

**Actions and code** (`pawstackController.ts`, `payStackService.ts`).

| Actions | Code |
| --- | --- |
| `TopUp`, `SubscribeUser` | the routes that open a charge; they read and call Paystack once |
| `ChangePlan`, `CancelForChange`, `CreateForChange` | `changePlan`: a dearer plan opens a charge, any other cancels a subscription and creates one |
| `CancelSub`, `CancelSubscription`, `AnswerCancelSub`, `Reply` | `cancelSub` |
| `Deliver`, `FindUser`, `Credit`, `FindCompany`, `SubscribeAtPaystack`, `WritePlan`, `CancelOld`, `RecordTransaction`, `Answer` | the webhook of a paid charge: one action per call, the branches of its `action` |
| `Throw`, `ApplyFails`, `Refund` | an error inside the `try`, and the `catch` that refunds |
| `FindCustomer`, `ReportPlan` | the webhooks about subscriptions |
| `Pay`, `Decline`, `DeleteUser`, `DeleteCompany`, `Interrupt` | customers, deletions, a process that dies or an answer that is lost |

**Abstractions.** Amounts and dates are left out but for the sign of the price
difference of a plan change, which decides what the route does; a rate of
exchange that moves between two deliveries is a choice from `Grants`. The webhook
only asks that a signature header is there (`pawstackController.ts:364`) and does
not verify it; the events here are those that Paystack sends, so what is checked
and proved of payments assumes that nobody else calls the webhook. A plan
change carries no company in its metadata, so its webhook creates a subscription
and writes no document; the event `subscription.create` writes the plan.

**Run** `billing` (185 537 states). One company with one user, two plans, two
payments, three subscriptions, two requests or webhooks at a time and one
fault. What a payment for tokens and a payment for a plan touch is disjoint, so
the initial state picks a scenario: tokens; plans without faults; plans with a
fault. Two payments are the least for which one may overwrite what the other
did, or a plan change may meet the subscription it replaces; two webhooks are
the same event delivered twice, or two events in either order.

- `BalanceIsLedger`: no increment is lost, whatever overlaps.
- `RecordedIsApplied`: a transaction document means the payment was applied.
- `SettledOnce`: applied *and* refunded only after a repetition or a failure
  half-way. That it can happen then is a hazard of the code (the balance is
  incremented before the unique reference is stored) which the property bounds.
- `ChangeReplaces`: plan changes, cancellations and webhooks that overlap leave
  no company with more active subscriptions than were created for its charges for
  new ones. It counts creations: a webhook that is repeated after a failure may
  create a second subscription for one charge, and both count.
- `PlanHasCause`: no late event leaves a plan nobody subscribed to, or the free
  plan to a company that cancelled nothing.
- `ChargesSettle`: every payment is in the end applied or refunded, with one
  exception that the property names: when processing fails and then the refund
  fails too (`dropped`), the code stores nothing and answers 200, and the payment
  is lost. Fairness (`MCFairSpec`, as `FairSpec`): handlers run on, and
  Paystack sends again what was not answered with 200, so a webhook that dies
  half-way is no exception. A behaviour that used the subscriptions of the
  instance up is excepted (`FewCodesLeft`).

`billing_cancel` is a finding (below).

**Proof** (`BillingProofs`, `SumLemmas`). For any users, companies, plans,
charges, subscriptions, handlers and faults: `BillingTypes`, `BalancesAddUp`,
`RecordsAreApplied`, `ChargesSettleOnce`, `PlanChangesReplace`,
`PlansHaveCauses`, which are all the safety properties of the run. The argument:

- `Known` (the type invariant, and that what a handler or an event names exists
  and has the form its step needs) is inductive by itself. Every action is first
  brought under one of some twenty descriptions of what it writes (`Credits`,
  `Cancels`, `Delivers`, ...), and the later proofs are about these.
- `UnpaidUntouched`: a charge that was never paid was neither credited, recorded
  nor refunded. With it `BalanceIsLedger` is inductive: a credit adds the same
  number to a balance and to one summand of its ledger.
- `WorkDone`: a webhook at a later step left the mark of the earlier ones. With
  it, `RecordedIsApplied` and `PlanHasCause` are inductive.
- `HandledOnce`: a charge reported once has one handler, which carries its only
  event. With it, `SettledOnce` is.
- `Replacing`: what a company holds, and what its plan changes in flight still
  owe it, is at most what its charges for new subscriptions created.

The balance and the count of subscriptions are sums over sets of any size. The
library proves nothing about `MapThenSumSet`, and its induction theorems take an
operator for an argument. `SumLemmas` looks instead at a smallest set for which
a claim fails: inclusion is well founded on the subsets of a finite set
(`SmallestSubset`), so no induction is needed. The constants are assumed finite
for that reason, and `None` to be no member of them.

## The services

`MCServices` runs the smaller components side by side: in every behaviour one
`part` moves and the others rest in their initial states, so that the run
`services` (244 858 states) is the sum of thirteen instances. Each is
parameterised by its own constants; the values are in `MCServices.cfg` and the
restrictions of a part in the operator `MC...Step` named after it. They are
safety only: nothing in these handlers waits or is retried, but for
`retryFixTask`, whose end is a state.

| Part | Module | Instance | Shows |
| --- | --- | --- | --- |
| `starts`, `events`, `backups` | `Sessions` | one address, two sessions and one identifier a client made up, two events, two forms, two requests | `TrackerSafe`: an event that was acknowledged is stored; counters agree with the events unless requests overlapped, and never run ahead of them; a session continues a closed one and has the next number; the form backed up last is the one stored |
| `waitlist` | `Accounts` | two addresses, two requests | places differ unless people joined at once; nobody enters uninvited |
| `ways`, `connections` | `Accounts` | one account, two providers, three services, two requests, two changes of the document (one, and one provider, where there is a password) | an account keeps a way to log in although two requests each unlink "the other" provider: the version of the document refuses the second; it is accepted only after somebody proved the address; what is shown as connected was granted |
| `keys` | `ApiKeys` | one key, two companies, one address, two requests | `WithdrawnStays`: no update that read a key earlier, nor the late note of its use, brings back what was withdrawn |
| `requests` | `Requests` | two addresses, a limit of one, three units of time with a window of one, two refusals; reads begin after a call that both limits count | `ViolationsKept`: no refusal of the last day is lost, whatever sweeps and windows come between, and none counts twice |
| `plans` | `Requests`, `Analytics` | the table of plans; lists of up to five rows | `PlansGrow`, `AdvertisedIsAllowed`, `PagesAgree`, `TrendComparesSums` |
| `applications` | `References`, `ValidationReports` | 5 472 applications of three views and a controller | `DiagnosisComplete`, `AnalysersAgree`, `ReportComplete` |
| `reports` | `ValidationReports` | every sequence of outcomes of a task of three attempts | `RetriesEnd`: what fails used every attempt, waited the sum of the doubling delays, and ends with an error that nobody retries |
| `settings` | `ValidationReports` | every environment of the process; every order of presets, environments, updates and resets; no loop or one | `EnabledRuns`: a validation that is on and was not switched on by hand has a loop to run and fixes what it finds, unless its loops or its fixing were set by hand |
| `histories` | `Analytics` | 6 823 histories: two conversations with messages; two conversations of applications that are named in part, or named alike, found by either field or both; or an execution of two tasks | `TotalsAgree`, `DaysAgree`, `GroupsAgree`, `CutLosesExecutions`; `RoutesAgree` between the routes of one query |

*Why these bounds.* A stale save needs two requests and one document. A session
is continued by another, and the third identifier is one the tracker did not
issue. A counter and a list diverge with two events. A window, a sweep and a
refusal that is still being logged need three units of time and two refusals;
the limits of the program (200, 5000, 20, 50 and 3) differ from one only in how
long it takes to reach them. In the applications every kind of reference occurs
resolved, unresolved, and in another case of letters, alone and twice.

*Abstractions.* `Sessions`: an address is its hash, a page a name. `Accounts`:
passwords and PINs are kept as "has one". `ApiKeys`: a key is found by itself
rather than by its hash. `Requests`: the counters are those of the library
express-rate-limit; `checkViolationHistory` is exported and mounted on no
route, and acts as it would if it were. `References`: code is the sequence of
references that the patterns find in it. `Analytics`: costs are whole numbers
and rates the two counts they divide. Nothing in the repository writes the
conversations, so nothing is assumed of two of their fields. `currentApplication`
is read in three ways: the dashboard's filter compares it with identifiers
(`user.service.ts:234`), the table of applications goes by its `_id` (682), the
charts and the insights by its `name` (1001, 1060); the three are independent
(`value`, `id`, `name`, each of which may be missing). The dashboard finds a user's
conversations by `user` (226), the details by `userId` (319); `found` has the
fields that name the user. `RoutesAgree` compares the details with the dashboard
only where every conversation found by `userId` is found by `user`, too, and
`GroupsAgree` compares the groups by name with those by identifier only where an
identifier has one name; without these conditions TLC finds samples that break
them. `ValidationReports`: of the settings, the three core ones that say whether and
how validation runs (`enabled`, `autoFix`, `maxValidationLoops`); the others are
read and overwritten in the same way, by the same operations. `environment` is what
the process was started with (`validation.config.ts:47-49`); it and the fields of
`updateValidationConfig` are any of them, so that `VALIDATION_AUTO_FIX=false` or
`MAX_VALIDATION_LOOPS=0` do occur, and `byHand` remembers which fields were last set
that way. The property is about the tables in the code: what a person sets by hand
is the person's business. The settings and `retryFixTask` are exported and called by
nothing in the repository.

**Proof** (`ServicesProofs`). The parts that have steps are proved for
all values of the constants: any numbers of documents, requests, providers,
addresses and attempts.

- `WithdrawnKeysStay`: `KeysInv` says that a worker about to save or delete a key
  holds what it needs, and that a save writes only what differs from what it
  read, which never brings a key back.
- `RefusalsStay`: `RequestsInv` keeps books for each address. For every time of
  the last day, the violations counted after it and those still being written are
  at least the refusals after it, and altogether they are at most as many
  (`Balanced`). That is what sweeps, windows and late writes preserve, and the sum
  over the addresses that begin alike follows by `SumLemmas`.
- `AccountsStaySafe`: `AccountsInv` says what a request about to save holds
  (`CopyFine`: the providers it read, with the version that its save compares) and
  how a document may grow meanwhile (`Grows`); `PlacesInv` that whoever is about
  to take the same place joined together.
- `ReportsStayWhole` is two theorems. `ReportsStayEnding`: `TaskInv` relates the attempts to the time waited.
  `SettingsStayRunning`: `ConfigInv` is the property and the fields that settings
  have. It is inductive because no table switches validation on without giving it
  loops and fixing, and only one that switches it off takes them away.
- `SessionsStaySafe`, and `TrackerStaysWhole` for the parts of `MCServices`:
  `TrackerInv` is about a document and the requests on it (two that work on one
  document or start sessions of one address have met, and then it is in
  `raced`; a copy that no other request met agrees with its document), and
  `ChainInv` about sessions that continue one another. A session that another
  one continues is closed; the later one ends later; and a request that has
  looked for the last session to end finds one that nobody continues, unless one
  of the two met another request or lapsed, or the one before was closed again.

Proving them showed faults of the models themselves, which TLC had not: two
branches of a `CASE` in `Accounts` that overlapped; end times numbered by their
count, so that two sessions could share one after a session was closed again; and
`SessionsLinked`, which claimed too much. Three sessions break it in its earlier
form: d1 ends, d2 continues it and ends, then another tab or a late event of d1
closes d1 again, now the last to end, and d3 continues d1 too.
`recordEvent` accepts events of a closed session and writes `endTime` once more
(`sessionTracker.service.ts:183-190`); the history `reclosed` states the exception,
and an instance with three sessions of one address was checked with it.

**The computations** have no steps. Each operator follows the code and is
compared with what its result should be, stated independently: the diagnosis
with the set of unresolved references, one analyser with the other, the text of
a report with its structure, and the sums of a dashboard with each other.

**Their proof** (`ReportsProofs`). What TLC evaluates on the samples is proved of
every input of the right shape, and `NumbersStayTrue` and
`ReferencesStayComplete` conclude that the two invariants hold in every state.

| Theorem | Of every |
| --- | --- |
| `TotalsAlwaysAgree`, `DaysAlwaysAgree` | report with finitely many documents, an identifier for each, and no message in two conversations (`Analytics!IsHistory`) |
| `GroupsAlwaysAgree` | such a report whose executions are of its conversations (`IsReport`; what `getUserAnalyticsDashboard` reads) |
| `CutAlwaysLoses`, `RoutesAlwaysAgree` | such a history, and range or query; whatever its applications and the fields that name the user |
| `TrendAlwaysComparesSums`, `PagesAlwaysAgree` | number of days from seven and cost; list and width of a page |
| `PlansAlwaysGrow` | the table of plans |
| `ReportsAlwaysComplete` | list of issues |
| `DiagnosisAlwaysComplete` | application: lists of views, elements, settings, plugins and code, of any length (`IsApplication`) |
| `AnalysersAlwaysAgree` | such an application in which a plugin executes the code it has, and a view without an id has no elements (`RunsItsCode`): the first analyser reads `executeCode` alone and views without an id, too, so without this the two look at different things |

The arguments:

- *Sums.* A sum over the groups of a set is the sum over the set, whatever they
  are grouped by (`SumLemmas`); the totals of a dashboard are this for days,
  months, applications, statuses and types of steps, and pairs of an execution
  and a task for the steps.
- *Sorted lists.* `Ranked` is any order in which ranks do not fall, as a sort by
  the code leaves ties in some order. Such an order exists because of the orders
  of a finite set one has the fewest inversions; nothing else about it is used.
- *Lists.* `Lists` defines `flatMap` and `filter` by `FlattenSeq`. Its recursive
  function is followed by counting up to the length (`UpTo`, a least
  counterexample, as no induction theorem can be used), which gives the members
  of the result and the place that each came from (`FlattenHas`, `FilteredIs`);
  all other lists follow from these.
- *The diagnosis.* `ScannedTo` is the invariant of the scan: after k visits every
  key of a broken reference among them has one issue, and every issue is that of
  a broken visit. No code that is scanned belongs to a controller, so no
  controller counts as protected, and the check of headers reports nothing
  (`HeadersAre`).

To be reasoned about, the models changed in form: sums are of functions and not
of operators, filters are `Where`, and the folds of the scan are recursive
functions. Two faults came to light. Lists were sorted by a strict order, which
says nothing of ties; they are sorted by rank now. And the maps and recent
conversations were said to hold every execution, which is so up to ten
conversations, where `slice(0, 10)` cuts (`user.service.ts:738, 814`); the
properties say that now, and that beyond ten none is counted twice.

## What the runs found

- **An owner can lose the role** (`workspaces_owner_demoted`, `OwnerRoleKept`).
  `updateMemberRole` refuses with "Cannot change the workspace owner role"
  (`workspace.service.ts:237`), but `acceptInvitation` (323) upserts the role
  of the invitation over any membership. When `deleteWorkspace` (394) dies
  after its first update, an invitation that was pending still admits an admin,
  who can invite the suspended owner; accepting makes the owner an admin and
  the workspace has no owner.
- **A refresh survives a log-out of all sessions** (`auth_logout_race`,
  `LoginsStayEnded`). `auth.service.ts:204` blacklists the documents that exist;
  a refresh that verified its token before (223) creates the next one after it.
- **A recovery code opens two sessions** (`auth_code_race`, `UsedOnce`).
  `recoveryCode.service.ts:71` finds an unused code and 76 saves it as used in
  a second call without a condition.
- **A cancellation is answered as an error** (`billing_cancel`,
  `CancelledIsNoError`). "Still return 200 since the subscription was canceled"
  says `pawstackController.ts:317`, and 325-329 answer 200 if no transaction is
  found. But 276 reads the metadata of the first transaction before that test,
  and the list was asked for with the e-mail token of the subscription, which is
  no customer: the answer is 500 although the subscription is gone.
Without a run of its own, but named by the exception in `ChargesSettle`: **a
payment is lost when its refund fails**. "If we get here, the charge was
successful but our processing failed, so we should initiate a refund" says
`pawstackController.ts:629`, and a refund that fails goes to the "Helper function
to log payment errors" (799). Both calls of that helper are commented out (803,
807), and the event is answered 200 (774). Without `c \in dropped`, the property
is violated: the company is deleted before the webhook applies its payment, the
refund fails, Paystack does not report the payment again and no document names it.

Smaller observations, which the models follow without a run of their own: the trend of costs compares a sum of three days with
a sum of four, so steady use is "improving" (`TrendComparesSums`); the detailed
analytics find conversations by another field than the dashboard does and ignore
the chosen applications; two applications of one name are one in the charts and
two in the table beside them; the free plan allows ten domains per application beside the
comment "No custom domains" (`billingPlans.ts:70`), and the next plan one; `checkViolationHistory` counts addresses by the text they begin with;
`clearDataBackup` of one form is never saved; the count of failed payments is no
path of the company's schema, so it is 0 each time it is read; and a
`subscription.not_renew` of an unknown customer is never answered.

## Proved, and only model-checked

Proved for every value of the constants, from the assumptions of each module
(those of `MCServices` stand there: finite sets of users and addresses, every
address begins with itself, a task is tried at least once, numbers of loops are
natural numbers, the two conversations
of the sample histories differ, and every name in the sample applications is one):

- Workspaces: `TypeCorrect`, `OwnershipInv`, `AtMostOneOwner` with both ways to
  register; `AcceptedMeansJoined`; without overlap `OnePendingAlone`,
  `NoManagerAlone`, `SettledOnceAlone`; under the hypotheses above
  `ActiveOwnerKept`, `NoSilentReinstatement`, `SomebodyOwns`;
- AuthTokens: type correctness, `RotationInv`, `RotationRevokesParent`; without
  overlap `RotatedOnceAlone`, `LoginsStayEndedAlone`, `OnePinAlone`,
  `UsedOnceAlone`;
- Gateway: `GatewayInv` and the five properties of the gateway that follow from
  it, and that it implements the safety of `SessionRegistry`;
- Edge: `EdgeInv`, `UnregisteredIsClosed`, `OpensNewest`, `RouteFresh`, and
  that it implements the safety of `SessionRegistry`;
- Billing: `TypeOK`, `BalanceIsLedger`, `RecordedIsApplied`, `SettledOnce`,
  `ChangeReplaces`, `PlanHasCause`;
- the services: `KeysWithdrawn`, `RefusalsKept`, `AccountsHold`, `ReportsHold`,
  `TrackerHolds`;
- the computations: `NumbersHold`, `ReferencesHold`, and what they say of every
  history, list of issues and application (the table above).

So every safety property that a passing run checks has a theorem, some of them
under the hypotheses above. An invariant that a proof rests on was checked by TLC
on an instance before it was proved, and is not repeated in the runs.

Only model-checked, because the prover cannot do it:

- all liveness (`NewcomerServed`, `RevokedIsCutOff`, `HeartbeatArrives`,
  `ChargesSettle`, the liveness of `SessionsPromise`), and `ENABLED`;
- that doubling is what `2 ^ n` does, of which the provers know nothing
  (`ReportsAssumption` states it, and TLC evaluates it for the retries of the run).

The findings are counterexamples, which TLC shows and nothing needs to prove.

## What is not modelled

`PROJECT.json` lists every part with the reason. In short:

- *Accounts*: `updateUser` writes profile fields the models do not have, and the
  acceptance and permission fields as its caller gives them; the list of users
  is a read; `deductTokens` and `checkTokenBalance` are called by nothing.
- *Companies*: the profile of one document; the assignment of domains
  (`service.ts`) is called by nothing and drops what it builds.
- *Tokens*: `verify-email` has no route that issues its token; the delete-many
  and clean-up routes of `modules/token` filter on upper-case types that match
  no document.
- *Requests*: three limits mounted on no route, and the quota check, an empty
  function.
- *Utilities*: the patterns that find references in text, the repair of JSON
  answers and the parser of query filters work character by character.
- *Activity log, mail, templates, storage, infrastructure*: no state that
  another step reads. What a mail carries is in AuthTokens, and that a log entry
  is awaited before a violation is counted is in Requests.
- What the API believes about nodes: the order in which it handles a late
  `disconnected` and a newer `connected` is not in this repository.

## The plan

What the runs check of safety is proved. What is left:

1. *Workspaces*: an inductive form of `NoReturn` that keeps the late founder apart
   instead of excluding it, so that the hypothesis can be dropped for everybody else.
2. *AuthTokens*: what overlapping requests cannot break; `LoginsStayEnded` for
   logins no refresh of which was in flight at the log-out.
3. *Gateway and Edge*: a second abstract specification for the route cache.

## How to run it

    tlc -config MCEdge.cfg MCEdge.tla        # any .cfg with its MC module
    tlapm EdgeProofs.tla                     # any module of proofs

Each run takes a few minutes with two workers, and so does each module of proofs
(`ServicesProofs` and `ReportsProofs` ten to twenty). The four runs named in
"What the runs found" end in a counterexample, which is what they are for.
