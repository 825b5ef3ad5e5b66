# Verification of the auth service

TLA+ models of the Bin E-Commerce auth service, the TLC configurations that check
them on small instances, and theorems about them that TLAPS checks. Paths below
are relative to `src/src/modules/` unless they start with `src/`; `README.md:n`
is `src/README.md`.

## 1. The system

A NestJS service with one replica. PostgreSQL holds users, refresh-token rows,
role assignments, audits, grants, addresses and refund accounts. Redis holds OTP
challenges and cached access profiles. Keycloak issues tokens and holds its own
copy of every user, role and status. Kafka carries events, and the Order service
is told when a refund account changes. Node runs one handler at a time, but every
`await` lets another one run: **almost everything that is hard here is what
happens between two awaits**, and that no transaction spans two of the stores.

| component | state | operations | hard behaviour | what makes it correct |
|---|---|---|---|---|
| Sessions (`auth/…/auth.service.ts`) | rows of `refresh_tokens`; `refreshInFlight` in memory; `users.status` | login, social callback, refresh with rotation, change and reset of the password, logout, four kinds of revocation, ban | rotation is four awaits long, one of them Keycloak without a timeout; revocations run in between; a restart empties the table in memory | one login never has two tokens; a token in rotation is always let go; a ban is final |
| Browser and `auth.controller.ts` | the cookie `refresh_token`, which the tabs of a browser share | refresh, login, change of the password, logout, logout-others, logout-all, as calls that arrive late or are lost | a call carries the cookie of the moment it is sent; an answer sets the cookie of the moment it is delivered; calls with one token share one promise; other devices log in, refresh and log out meanwhile | no false alarm of reuse, logout is final, logout-others spares the caller |
| OTP (`auth/…/otp.service.ts`) | one Redis hash per purpose and identifier | `createChallenge`, `verifyOtp` | each is several Redis commands, none of them in a transaction, and any of them may fail; `HINCRBY` creates a key that was deleted | attempts are bounded; a consumed challenge is gone; a challenge without expiry is the work of a failed `EXPIRE` |
| User accounts (`users/…/admin-user.service.ts`) | role, status, active assignment, audits, Keycloak's copy | `updateRole`, `updateStatus`, their retry | commit first, mirror later; Keycloak fails between two calls; whole-entity saves elsewhere write what they read long before | an admin always remains; audits account for every gap; the assignment follows the role |
| Seller approvals (`users/…/seller-role-assignment.service.ts`) | the same | `grantApprovedSellerRole` | events are repeated and late | staff never lose their role to an approval |
| Access profiles (`access-control/…`) | catalogue of permissions, grants, roles, cached profiles | `buildViewerAccess`, `updateRolePermission`, invalidation, seeding | read the tables, write the cache later; a deployment changes the manifest and a rollback brings back old keys of the cache; whole-entity saves put a role back and invalidate nothing | a stale profile has a known cause; ADMIN keeps its core grants; retired permissions are gone |
| Registration and social login (`auth/…/auth.service.ts`) | Keycloak user, row of `users`, the invitation, `socialStateStore` in memory | `registerInitiate`, `registerVerify`, `getSocialAuthUrl`, `socialCallback`, the repair in `login` | two stores and one compensation; two handlers work on one e-mail | no Keycloak user without its row, no row without its Keycloak user, one callback per state |
| Refund accounts (`users/…/user-refund-bank-account.*`) | rows with a default flag; pending refunds at Order | create, delete, choose the default, update through Order | a lock of the user for all but the update; two services and one compensation; Order answers late or never | one default; no twins; Order agrees with the profile |
| Addresses (`users/…/user.service.ts`) | rows with a default flag | create, update, delete | no lock and no transaction | the limit; the default is passed on |
| Profile and avatar edits (`users/…/user.service.ts`) | `users.avatar_url`; the files of the Media Service | `updateProfile`, `updateAvatar` | the whole entity is saved back; Media removes the file the answer names | a file shown is not removed, a file replaced is not forgotten |
| Keycloak administration (`keycloak-admin.service.ts`) | the admin token in memory; the realm roles | `getAdminToken`, `assignRealmRole` | several requests of one operation with one token; two operations create one role | a token does not run out within its buffer; nobody lacks a role that exists |

Calls between them: registration and password reset go through the OTP service;
the session handlers read `users.status`, which the mutations of the Admin Center
write together with a revocation of the sessions; mutations and approvals
invalidate access profiles; login, refresh and `/auth/me` build them. Each module
below keeps its side of such a call and allows the other side at any time.

The remaining components (the other controllers and guards, the seller-shop client,
read-only queries, wiring, migrations) keep no state; `PROJECT.json` lists them.
Its hazards name the lines where the behaviours above bite and the
property that covers each.

## 2. Modules

Every request handler is a *slot* (an element of `Requests`, `Verifiers`, …) whose
record says at which `await` it is suspended and what it remembers; an action is
what runs from one `await` to the next, with the guard and the early
returns of the code. A statement, a Redis command or a committed transaction is
one step. External systems (Keycloak, Order, Kafka) answer, refuse or fail at
any time. History variables are marked `history`; no guard reads them.

| module | models | notes |
|---|---|---|
| `Sessions` | `auth.service.ts`: refresh, login, logout, password, revocations; the ban of `admin-user.service.ts` | a row and the token whose hash it stores are one value of `Tokens`; `lineage` records from which login a row descends |
| `LoginLineage` | abstract: what one login promises | at most one live token, spent tokens stay spent, a dead lineage stays dead |
| `SessionsRefinement` | `INSTANCE LoginLineage` with a mapping of `Sessions` to it | property `ImplementsLineage`, for one login `TheLineage` |
| `Browsers` | EXTENDS `Sessions` with `auth.controller.ts` and a browser: a call is sent, served, answered and delivered | `orderly` is the history of disturbances: overlaps of the browser's own calls other than two refreshes of one cookie, lost answers, refreshes that die after their row was marked. Other devices have tokens (`Abroad`) and request slots (`Remote`) of their own: `Elsewhere` runs every handler of `Sessions` for them, from login to logout-all. `overtaken` is the history of their refreshes that a logout-all found at work |
| `OtpChallenge` | `otp.service.ts` | one Redis key; a code is the number of its challenge. `createChallenge` sends DEL, HSET and EXPIRE as a pipeline without MULTI and reads no results (a comment calls it atomic): three steps, each of which may fail, or follow commands of another instance, as there is during a deployment |
| `UserAccounts` | `admin-user.service.ts`, `seller-role-assignment.service.ts`, whole-entity saves of `user.service.ts` | `FOR UPDATE` is `RowLocked`; the mirror is changed call by call |
| `AccessProfiles` | `access-control.service.ts`, its cache, `access-control-seed.service.ts` for permissions and grants, the restart as any version; the changes of a role that come with an invalidation, and the whole-entity saves, which do not | a profile is the set of permissions; `Manifest` gives each version its permissions, a key of the cache carries its version. `Editors` are handlers that save a user read earlier (`updateProfile`, `updateAvatar`, the repair in `login`); `raced` is the history of the keys one of the known causes hit |
| `Registration` | `auth.service.ts`: registration, social login, the repair | one e-mail; subjects are numbered as Keycloak makes them |
| `RefundAccounts` | `user-refund-bank-account.service.ts` and `.repository.ts`, `order-refund-recipient.client.ts` | one user; `refund` is Order's side |
| `Addresses` | the address handlers of `user.service.ts` | one user |
| `ProfileEdits` | `updateProfile`, `updateAvatar`, and Media, which removes what the answer names | one user; files are `Assets` |
| `KeycloakAdmin` | `keycloak-admin.service.ts`: the cached token, `assignRealmRole` request by request | time in steps; a token is known by the moments of its issue and its arrival |
| `SessionsProofs`, `BrowsersProofs`, `SignUpProofs`, `RegistrationProofs`, `AccountsProofs`, `ProfilesProofs`, `RefundAccountsProofs`, `ListsProofs` | theorems | section 6 |
| `MC…` | instances for TLC | `MCSignUp` puts `OtpChallenge`, `Registration` and `KeycloakAdmin` side by side, `MCProfileLists` the refund accounts, the addresses and the avatar; `MCUserAccounts`, `MCAccessProfiles` and `MCBrowsers` bound who acts together |

An operator with the comment `Mutant:` is a plausible bug of the operator after it.
It is not part of the model: it serves to show that a property notices it.

## 3. Runs

Distinct states in parentheses; all runs are exhaustive except the violations,
which stop at the counterexample.

| run | question and what it shows |
|---|---|
| `sessions` (260 178) | Two handlers over one user and three tokens, failures, expiry, bans and restarts. `OneUnrevokedPerLineage`: rotation is exclusive. `InFlightExact`: the table in memory holds just the tokens being rotated. `ImplementsLineage`: each login behaves as `LoginLineage`. `LockedOutStaysOut`: a ban that no handler straddles is final, although `refreshUnsafe` never reads `users.status`. |
| `sessions_live` (32 314) | `RefreshLetsGo`: unless Keycloak keeps it waiting, a refresh leaves `refreshInFlight` on every path. |
| `browsers` (886 143) | A browser with two tabs; or with one, beside admins and expiry; or with one, beside another device that logs in, refreshes and logs out. `NobodyWaitsInVain`: each call that joins a rotation awaits a live handler of its token. `AlarmNeedsDisturbance`: the reuse alarm, which ends every session of the user, is never raised on a browser that was not disturbed. `LogoutEndsLogin`, `OthersSparesCaller`: under the same condition a logout is final, but for another device's login that was in the middle of a refresh at a logout-all; and logout-others never revokes the caller. |
| `browsers_logout` | finding 1 |
| `sign_up` (2 610 578) | OTP: two verifications, two creations, two challenges, Redis commands that fail. `ComparisonsBounded`: a challenge meets at most the limit plus the verifications in progress. `AcceptedIsGone`. `ChallengeExpires`: a hash with a code is without expiry only while the pipeline that stored it still owes its `EXPIRE`, or because that `EXPIRE` failed. Registration: two requests, two states, three Keycloak users. `OneCallbackPerState`, `OrphanOnlyByFault`, `DanglingOnlyByOverlap`. Keycloak administration: two operations, one role. `BufferCoversDelay`: a request is refused for its token only if the delays exceed the buffer. `NoRoleMissing`: the loser of a race for a role finds it. |
| `otp_consumed_once` | finding 2 |
| `accounts` (2 268 086) | One admin and one user. `SomeActiveAdmin`, `AssignmentFollowsRole`, `MailFollowsAudit`, `GapIsVisible`, and of steps `ApprovalSparesStaff`, `OneFieldAtATime`. |
| `accounts_overwritten` | finding 3 |
| `accounts_retry` | finding 4 |
| `profiles` (1 436 953) | Two users, a viewer and a changer, with lost cache commands and restarts; or one user, and deployments of two versions, one of which lacks a permission; or one user, whose entity is saved whole. `AdminKeepsCore`; `StaleOnlyByRace`: a cached profile is stale only while its deletion is pending, or after a viewer that began before the change, a lost invalidation, or a save that put a role back; also for the keys of a version that a rollback brings back; `RetiredIsGone`. |
| `profiles_next` | finding 5 |
| `profile_lists` (805 233) | Two requests on the refund accounts: `OneDefault`, `TwinsOnlyByUpdate`, `RecipientAgrees`. Two requests on the addresses: `LimitExceededByOverlapOnly`, `DefaultPassesOn`. Two requests on the avatar: `GoneOnlyByEdit` (the avatar shown was not removed, unless a profile edit put it back), `NoAssetForgotten`. |

Properties that allow exceptions (`GapIsVisible`, `StaleOnlyByRace`,
`RecipientAgrees`, `OrphanOnlyByFault`, …) carry a history of the exceptions the
code cannot avoid: a lost answer, an error between the two stores, an overlap
without a lock. Each says that *nothing else* breaks the agreement, and each has
a mutant, a small bug of the code, that breaks it.

### Findings

1. `browsers_logout`. README.md:351 says that logout ends the session, README.md:331
   that logout-all revokes every session. A refresh that read its row before then
   overwrites the reason of the revocation and inserts a successor: the login goes
   on, and the answer of the refresh sets the cookie again. For logout-all it may be a refresh
   of another device. `LogoutEndsLogin` shows that such an overlap, a lost answer or a
   crash is needed for it.
2. `otp_consumed_once`. README.md:251 promises that consumed challenges are
   rejected. Two verifications that both read the hash both succeed.
3. `accounts_overwritten`. A comment says a mutation is not silently overwritten.
   `updateProfile` and `updateAvatar` save the whole entity they read without a
   lock, and put the old role or status back. Cached profiles are not invalidated then,
   which is why `StaleOnlyByRace` names such a save.
4. `accounts_retry`. A comment says a retry repairs the mirror. The retry never
   removes the old realm role, so both stay.
5. `profiles_next`. README.md:569 promises that the next profile reflects a changed
   grant. A viewer that read before the change caches after the invalidation.

### Bounds, and why they are enough

- **Slots.** The races of these handlers are between two of them: one is
  suspended while another runs to its end. Two slots show every such pair. In
  `accounts` a behaviour has either two mutations at a time, or one mutation, one
  approval and one edit (`Casts` in `MCUserAccounts`): all of them at once is out
  of TLC's reach here. What more slots do, the theorems say: every safety property
  of a passing run is proved for any number of them.
- **Tokens** (3): a login, its successor, and a second login or a second
  successor. One user suffices for `sessions`, as no handler touches rows of
  two users.
- **Browser**: three tokens of its own (a login, its successor, and another login)
  with two handlers, and for others two tokens and one handler, which see a login abroad
  rotated while this browser refreshes or logs out. Two tabs share a rotation or overlap;
  what others do is explored with one tab, an admin and another device apart (`cast` in
  `MCBrowsers`). The theorems have any number of all of them at once. The constraint `UntilDisturbed` cuts off what
  follows a disturbance, which is for good: the properties assume there was none.
  Only `NobodyWaitsInVain` does not; the run claims it of orderly behaviours, the
  theorem `NobodyIsForgotten` of all.
- **Challenges** (2) with `MaxAttempts = 3`: old and new. `CounterBound = 5` is
  the limit and one late increment of each verification (3 + 2); a key whose DEL fails
  could be counted further, which the bound cuts off.
- **Admin token**: `Lifetime` 3, `Buffer` 1 and a clock up to 6 see a token run out
  during an operation, and a second one in use.
- **Profiles**: changes with two users, deployments, and saves of a stale entity are
  explored apart (`cast` in `MCAccessProfiles`); the theorems combine them.
- **Versions** (2): a rollback is a deployment of the earlier one, in either order;
  the core permission is in both, as `ProfilesAssumption` demands of the code's
  manifests, the other in one.
- **Assets** (3): an avatar, its replacement, and another one meanwhile.
- **Audits** (2): a mutation and its retry or its successor. `OtherRoles` is empty
  in `accounts`, so ADMIN alone stands for the staff; the violations have
  `SUPPORT_AGENT`, which `accounts_retry` and `accounts_overwritten` can assign.
- **Refund accounts** (2), `MaxLate = 1`: an account and its twin or its heir; one
  request Order may still carry out. That a default passes on among three, and
  twins of a third account, are covered by the theorems.
- **Addresses**: limit 2 for the 5 of the code, four inserts, which let two
  requests pass the limit and delete afterwards. The modules of
  `profile_lists`, like those of `sign_up`, share no state: a behaviour changes one
  of them beside the start of the others.
- **Keycloak users** (3): a registration, its repetition after a compensation,
  and a sign-in through a provider in between.
- Cut off everywhere: identifiers that run out end the creation of new
  rows, not the other handlers.

Deadlock is checked but for `sign_up` and `otp_consumed_once`, where all
challenges may be spent and expired.

### Fairness

Only `RefreshLetsGo` needs it: `FairSpec` has weak fairness of each step of
`refreshUnsafe` that waits for PostgreSQL or memory. Node resumes a handler whose
promise settles, and the driver settles every statement with a result or an
error. Nothing is assumed of Keycloak, since its client sets no timeout: a refresh
may hang there for ever, and the property excepts just that. No arrival of
requests, expiry or restart is assumed.

## 4. Modelling decisions

- Time appears as steps that may happen (a row expires, the cooldown ends, a
  cached profile is evicted). The one order of times a property uses is that the
  cooldown (60 s) ends before the challenge (600 s).
- A session's device metadata, the navigation of a profile, contents of addresses,
  texts and logs are left out; no property is about them. A permission stands for
  a code together with one scope.
- Registration does not model how a challenge is verified, nor the requests behind
  a call of Keycloak: any outcome of either may occur. That is why their modules
  share no state.
- The excuses of four properties are wide on purpose, because no line of the code
  promises more, and a reader should know them. `LockedOutStaysOut` leaves out handlers
  that tested the status before the ban, and the repair in `login` that writes back a
  status it read before: it shows that nothing *else* lets a banned user in.
  `LimitExceededByOverlapOnly` bounds by how much overlapping requests pass the limit,
  it does not exclude that they do. `NoAssetForgotten` excuses an asset that two overlapping
  replacements both name. `GapIsVisible` speaks of the mutations of the Admin Center: a
  merge by a social login (`auth.service.ts:381-396`) and the repair (`:565`), which change
  a user without an audit, are in `Registration` and `Sessions`, not in `UserAccounts`.
- A whole-entity `save` writes the columns that differ from the row it finds, as
  TypeORM does: a stale field is written back.
- An update of a refund account that names the recipient it already has changes
  nothing and is left out. The partial unique indexes on `is_default` are part of
  the guards of `RefundAccounts` and `Addresses`.
- Order is seen through this service only: it replaces the recipient `old` by `new`
  where refunds say `old`; where they say something else, both outcomes are
  possible.
- `SettleRefund` removes an account from `disputed`: refunds that were paid cannot
  disagree any more.

## 5. How each property can fail

`PROJECT.json` names for every property of a passing run one mutant: a definition
of the model and a changed form of it (a lock not taken, a recheck dropped, a
`finally` that runs on one path only, a compensation that is missing). With the
mutant in place TLC finds that property violated in the same run.

## 6. Theorems

Every safety property of a passing run, and the refinement, is a theorem: proved for
every value of the constants that meets the named assumptions.

| assumption | what it says |
|---|---|
| `SentinelsAssumption`, `NoRequestAssumption`, `AssetsAssumption`, and parts of `RefundAssumption` and `RegistrationAssumption` | sentinels are no members of the sets they complete |
| `DevicesAssumption` | what other devices have is a part of the tokens and of the slots |
| `LineageAssumption` | the login that the refinement follows is one of the tokens |
| `OtpAssumption`, `RefundAssumption`, `RegistrationAssumption`, `AddressesAssumption` | limits and bounds are numbers; there are finitely many verifications |
| `TokenAssumption` | lifetime, buffer and clock are numbers, and a token lives longer than its buffer |
| `RequestsAssumption` | the slots of `MCProfileLists` are finite in number, and there is one |
| `SlotsAssumption` | in `MCSignUp` one set of slots serves the three modules |
| `AccountsAssumption` | a slot of the consumer is none of a controller; there is an admin to begin with |
| `ProfilesAssumption` | every manifest contains the critical permissions, which the default grants give to ADMIN |

Each argument is an inductive invariant, most of them called `IInv`, and each of
these was first an invariant of a run. A theorem about `MCSignUp` or
`MCProfileLists`, which let one of their modules change at a time, rests on step
lemmas about the `Next` of each module itself, which bring no such restriction.

**`SessionsProofs`.** `TypeCorrect`, `RotationIsExclusive` (`OneUnrevokedPerLineage`),
`InFlightIsExact`, `ImplementsLoginLineage` (`ImplementsLineage`) and `BanIsComplete`
(`LockedOutStaysOut`), for any number of users, tokens and handlers. Rotation is
not inductive alone: that the insert of a successor leaves one unrevoked row
depends on what the handler found four awaits earlier. `IInv` adds

- `RowsOK`: a row descends from a saved login of the same user, and a token
  without a row carries nothing over;
- `RequestsOK`: what a handler remembers of its row still holds;
- `InFlightExact`: at most one handler works on a token;
- `RotationExclusive`: while a handler is past its check, no *other* row of
  its lineage is unrevoked and no other handler is past its check in that
  lineage.

The step that matters is `Accept`: the row is unrevoked, so by
`OneUnrevokedPerLineage` it is the only one, and by `RotationExclusive` no other
rotation can be past the check. `MarkRotated` then leaves no unrevoked row, and
`SaveSuccessor` adds the only one. A revocation only removes rows; a restart only
removes handlers.

The refinement maps each step of `Sessions` to a step of `LoginLineage` or to a stutter.
One that inserts a row (`LineageInsert`) is `Open`, or `Renew`, since by `RotationExclusive`
the lineage has no live token and just this rotation. One that does not
(`LineageNoInsert`) leaves no token live that was not; rotation, revocation and expiry
are `Withdraw`, since the token they take was the only one. `BanIsComplete` needs no inductive
invariant of its own: from the state a ban leaves, a usable row of the user
can come only from a handler that the state does not have, or from a row that is
usable already (`UsableMoves`, `OpeningMoves`).

**`BrowsersProofs`.** `BrowserRunsSessions` (a behaviour with a browser is one of
`Sessions`, so its invariant is available), `BrowserTypeCorrect`, `NobodyIsForgotten`
(`NobodyWaitsInVain`), `NoFalseAlarm` (`AlarmNeedsDisturbance`), `LogoutIsComplete`
(`LogoutEndsLogin`) and `CallerIsSpared` (`OthersSparesCaller`), for any number of
tabs, other devices and admins. `BrowserInv` adds to the invariant of `Sessions` what a call carries at each
stage (`ShapeOK`), that tokens in the browser were stored (`KnownOK`),
that rows, calls and handlers of this browser and of the other devices never mix
(`DevicesApart`), and `NobodyWaitsInVain`, which needs no order among the calls. While the browser is
undisturbed, `Undisturbed` adds

- `NoOverlap`, `RefreshAwaited`, `ServedCookie`, `AnswersFirst`: refreshes run
  beside refreshes only, each of them is awaited and works on the cookie, and
  its answer arrives before the next one starts;
- `CookieFresh`, `IssuedFresh`, `AnswersFresh`: the cookie, what a handler has
  issued and what an answer brings is the one row of its login that may be unrevoked,
  and was not rotated. The cookie is excepted while a rotation of it is past its mark;
- `NoReuse`: hence nobody presents a rotated token, from which `NoFalseAlarm` follows;
- `LogoutCurrent`, `EndedOK`: a logout finds the one row of its login, and no rotation
  of it is left to insert another. That is said of `Ended`, the logins logged out but
  for those `overtaken`: for these it is false, as finding 1 says;
- `CallerOK`: the row that logout-others keeps is still the one of the cookie.

The step that matters is the insert of a successor. `RefreshAlone` shows that a
refresh at work is the only one, that its token is the cookie, and that every other call
under way is a refresh that waits for it: what it issues reaches all of them. Steps that only
revoke rows go through `MildKeeps` or `ShrinkQuiet`. A step of another device is `Distant`
(`ElsewhereDistant`): it leaves the tokens of this browser as they were, but for a
revocation, so it makes none of them usable and rotates none (`DistantKeeps`); and it
revives no login that a logout-all had ended (`ElsewhereEnded`), since a rotation of such
a login would have been at work then.

**`SignUpProofs`.** About `OtpChallenge`: `TypeCorrect`, `AttemptsAreBounded`
(`ComparisonsBounded`), `AcceptedChallengeIsGone` (`AcceptedIsGone`) and
`EveryChallengeExpires` (`ChallengeExpires`), for any number of verifications,
creations and challenges and any limit. The bound is not inductive: nothing in it keeps a
counter from starting again. `IInv` adds

- `Numbered`: nobody has met a challenge that was not stored yet;
- `CounterExact`: while Redis has challenge `n` its counter covers the comparisons
  made with it; once it is gone, the comparisons made plus the verifications that
  still hold its hash stay under the limit plus the number of verifications. Each of these
  compares once and then no longer holds it, and nobody can begin to hold it.

`ChallengeExpires` is inductive with the types: the step `SetHash` makes its creator owe
an `EXPIRE`, `SetExpiry` pays it whatever the key holds by then, `CreateFail` puts the
challenge among those that `lost` it, and `HINCRBY` and DEL make no hash with a code
(`ExpiryStep`).

About `KeycloakAdmin`: `BufferIsEnough` (`BufferCoversDelay`) and `EveryRoleIsFound`
(`NoRoleMissing`), for every lifetime and buffer and any number of operations and
roles. `OperationOK` adds what an operation knows of its token: when it took it, the
cache held it to be valid, so a refusal is due to the delays since; and a role
that is read again exists. `SignUpRuns` shows that `MCSignUp` is a behaviour of each of its
modules, `SignUpTypeCorrect` their types; `OneCallback`, `OrphansAreFaults` and
`DanglingIsOverlap` carry the next module's results over to it.

**`RegistrationProofs`.** `Invariance`, for any number of requests, states, providers
and Keycloak users. `IInv` is `OrphanOnlyByFault` together with

- `StatesOK`: a state is drawn, waits in the store, is exchanged by one handler and has
  had its callback, once and in this order. It yields `OneCallbackPerState`;
- `Numbered`: nobody knows a Keycloak user before it is made;
- `RegistrationsOK`: one handler registers a subject, and Keycloak has it until that
  handler removes it or the realm loses it; if the row or anyone else
  knows it, the two have overlapped;
- `SignInsOK`, `DanglingOnlyByOverlap`: what a sign-in remembers, and what the row says, is
  a user Keycloak has, or one whose loss the histories explain.

**`AccountsProofs`.** `TypeCorrect`, `SomeAdminIsActive`, `AssignmentsFollowRoles`,
`MailsFollowAudits`, `GapsAreVisible`, and the action properties
`ApprovalsSpareStaff` and `OneFieldChanges`, for any number of users, handlers and
audits. `IInv` adds

- `ValuesFit`: a mutation of a role carries roles, of a status statuses;
- `FoundersStay`: an admin of the start is still ADMIN and ACTIVE, since an ADMIN is no
  target and what an edit read of it was ADMIN as well;
- `Locking`: what a transaction read under `FOR UPDATE` is what is stored, and two
  transactions never hold one user;
- `AuditsHeld`: an audit in progress belongs to one handler, and is PENDING just as
  long as that handler has not finished it;
- `Accounted`: for each user that is not excused or overwritten, either some audit will
  never say SUCCESS, or Keycloak agrees and nobody syncs, or exactly one handler syncs
  and Keycloak is where that handler has brought it (`Midway`). This is what makes
  `GapIsVisible` inductive: when the last handler ends, the first or the second
  case remains.

**`ProfilesProofs`.** `TypeCorrect`, `AdministratorsKeepTheirCore`
(`AdminKeepsCore`), `RetiredPermissionsAreGone` (`RetiredIsGone`) and
`StaleOnlyThroughRaces` (`StaleOnlyByRace`), for any number of users, viewers,
changes, versions and permissions. `IInv` adds

- `Offered`, `CoreGranted`: the catalogue is the manifest of the version that runs,
  and the core is granted to ADMIN;
- `CachedByRun`: only a version that has run has cached profiles, within its
  manifest, and starting it again adds no grant to its permissions: this is
  why a rollback, which seeds again, makes no old key stale;
- `ViewsFit`, `ViewsFresh`: what a viewer has read still holds unless its key is
  marked as raced;
- `StaleIsDeleted`: a stale entry, of any version, is marked or some changer
  still has it in its scope or among the keys it found. A save that puts a role back
  marks what it makes stale and no more: the entries cached then, and the one a viewer
  is building.

**`RefundAccountsProofs`.** `TypeCorrect`, `DefaultIsKept` (`OneDefault`),
`TwinsAreUpdates` (`TwinsOnlyByUpdate`) and `RefundsAgree` (`RecipientAgrees`), for any
number of accounts and transactions. `IInv` adds

- `LockExcludes`: one transaction at a time holds the lock of the user;
- `ReadsHold`: what it read under the lock still holds when it writes: whether
  the account is the first, whether the row is the default;
- `CreationIsNew`: a row equal to the one about to be inserted was
  changed by an update, which takes no lock of the user, after the
  creation had looked for it.

`HeirExists` gives the default an heir: a set of numbers that is not empty has
exactly one least element, shown with the well-foundedness of the strict subset order on finite
sets. Steps that touch neither rows nor flags go through `LockFrame` and
`TwinFrame`; the others have a lemma each.

`RefundsAgree` has an invariant of its own, `AgreeInv`. An account that is not excused
has at most one update in progress (`AgreeOK`). That update knows what the row
says, and refunds name the old recipient, the new one, or either, according to how far
it is (`Expected`); without an update they name what the row says.

**`ListsProofs`.** About `Addresses`: `LimitHolds` (`LimitExceededByOverlapOnly`) and
`DefaultIsPassedOn` (`DefaultPassesOn`), for every limit and any number of requests.
`AddressInv` adds

- `LimitOK`: the rows there are, those that updates in progress may put back, and
  those that requests have found room for are at most the limit plus the number of *other*
  requests. `LimitExceededByOverlapOnly` alone is not inductive, because an update
  inserts again a row that was deleted after it read it;
- `FlagOK`: as long as requests come one at a time, a default that was chosen is there, or
  the request in progress is about to restore it.

About `ProfileEdits`: `RemovedIsNotShown` (`GoneOnlyByEdit`) and `AssetsAreNamed`
(`NoAssetForgotten`), for any number of assets and requests. `EditsInv` adds that
nobody has seen an asset before it is shown (`OwnOnlyReplacing`, `Fresh`), that what a
request names for removal is no longer the avatar unless an edit put it back
(`NamedIsReplaced`), and that whatever was read was stored (`WasStored`). `ListsRuns` shows that
`MCProfileLists` is a behaviour of each of its modules, `ListsTypeCorrect` their types.

**Only model-checked**: `RefreshLetsGo`. It is a liveness property under fairness, out of
the prover's reach. The five findings are counterexamples TLC finds.

## 7. Not modelled

Guards, DTOs and the controllers other than `auth.controller.ts` (validation and
routing without state); the seller-shop client and the read-only queries; wiring,
health and migrations; the seeding of roles and menus and the navigation of a
profile; the Keycloak token endpoints for users, which answer anything at any
time; `listSessions`, which refreshes `last_active_at` only. The session handlers
of `user.service.ts` do what their siblings in `Sessions` do.

## 8. Plan

Done: the models of sessions, OTP, accounts, access profiles, refund accounts,
addresses and registration, then of the browser and its cookie, deployments and
rollbacks, avatar edits and the admin token; proofs of every safety property of the
passing runs and of the refinement. Left, in this order:

1. State and prove refinements of abstract specifications other than `LoginLineage`, first of
   `Registration`: one e-mail with at most one Keycloak user and one row.
2. Model: a browser with two users, who log in one after the other on one device;
   the seeding of roles and menus with the navigation.
