# Dudo-Core in TLA+

Dudo-Core is a multi-tenant business platform on Cloudflare Workers, D1 and Durable Objects. This directory
holds TLA+ models of its core (`src/platform/core`), of its customers App (`src/apps/customers`) and of the confirmation gate of its
operators' console (`src/platform/admin`), TLC
configurations that check them on small instances, and theorems that TLAPS proves for all instances.

`PROJECT.json` is the index: components, runs, a mutant per property (a plausible bug that the property
catches), a map from definitions to source lines, findings, hazards and theorems.

## The system

A Worker serves each HTTP request. It keeps nothing between requests but per-isolate module state. What is
remembered is in D1 (SQLite: one database for the control plane, one for tenants' data) or in a Durable
Object, which has memory and its own tables, runs one turn at a time, and lets other requests in at every
`await`. A D1 batch is atomic, two batches are not. The platform may evict a Durable Object at any time; a call
to it or to D1 may fail before or after it took effect.

| Component | State | Operations | What is hard | What makes it correct |
|---|---|---|---|---|
| Write budget (`protection/coordination-engine.ts`, `adapters/durable-objects/coordinator-object.ts`) | per Organization: day, row-writes used, platform's share, permits; platform ledger per class and day | `/reserve`, `/permits` | the purchase is an await; midnight; eviction; a lost answer of the ledger | ceilings hold; a permit is spent once; every reservation is answered; nobody is deferred who has room |
| Denial evidence (`recordDenial`, `audit/denial-summary-sink.ts`) | groups per key and 15-minute window, evidence budget, `denial_summary` | `/denial`, insert of a batch | windows out of order; eviction between counting and persisting; failed batch | no denial without a trace; total reported; identities differ; cost bounded |
| Action pipeline and customers App (`action/pipeline.ts`, `apps/customers`) | `customer`, `audit_event` | create, get, list, search, update, archive, restore, move | the handler decides on a row it read; awaits before the batch; failure of each call; walks with cursors | no lost column; answers agree with the trail; tenants apart; complete walks |
| Confirmation (`confirmation/**`) and control-plane admission (`identity/control-plane-admission.ts`) | `confirmation` rows; in-memory counters; shared ledger | challenge, submission | two submissions of one challenge; reissue; lost answer of the update | used once; performed only as confirmed; every write admitted |
| Operators' console (`platform/**`, `onboarding/**`) | `platform_operator`, `template`, `organization`, credentials, the operators' and the tenants' trails | Template create, update, retire, restore, assign; identity; revoke; onboard; reads | each handler reads, reserves, writes, records: four awaits | the last operator stays; a retired Template is withdrawn; the trail tells what happened |
| Operators' console in the browser: gate, reset, removal (`platform/admin/src`) | phases of a gate; a generated password, of which there is no copy | open, approve, submit, dismiss, leave | a lost answer; a screen that goes while its request is under way | the gate that sent an operation tells its operator what came of it; a code that excludes a write only where that is certain |
| Request-rate admission (`admit`, `/admit`, `/source`) | windows per principal, Organization, source; source blocks | admit, report, apply a total | clocks straddling a window; reports late or lost; eviction | ceilings per window; what a late request or an eviction may cost |
| Sessions (`identity/session-*.ts`, `login.ts`) and credential reset (`credential/reset-service.ts`) | `session`, `principal`, `membership` rows | login, resolve, select Organization, logout, reset | status changes between reads; a login during a reset | no session outlives the authority it carries |
| Pre-authentication admission (`identity/pre-auth-*.ts`) | counters of a limiter | admit an attempt, count a failure | windows and sweeps, a bucketer or recorder that fails or is absent | attempts bounded per source and bucket of identifiers; each refusal leaves a trace |
| Tenant administration (`tenant-admin/**`) | route tables; memberships, custom roles, `invitation` rows | check a table at load; dispatch; create, list, sweep invitations | roles change between reads; the ceiling is judged before the write; records fail; an invitation lapses unwritten | a registered table is served as written; nobody does or offers what it did not hold; the trail before the answer; whole walks |
| Roles, kernel, validation, cursors, HTTP, storage predicates | none | pure functions | — | enumerated by their tests |

How they interact: `http` finds the route; a session resolves to a principal; the pipeline asks the
coordinator of the Organization for admission, runs an Action, reserves row-writes from the write budget and
commits one batch. A denial goes to the same coordinator as evidence. Console and tenant-administration writes
are admitted by the control-plane admission, which draws on the same platform ledger; a console write that touches a
tenant also reserves from that tenant's coordinator, under the platform's share. Critical operations pass the
confirmation gate first.

## Modules

| Module | Models | Proofs |
|---|---|---|
| `WriteBudget` | coordinators, ledger, requests, midnight, eviction | `WriteBudgetProofs` |
| `DailyAllowance` | what the budget promises; `WriteBudget` implements it | — |
| `DenialSummaries` | groups, evidence budget, the Worker's insert | `DenialSummariesProofs` |
| `CustomerActions` | the pipeline around the eight Actions of the App, their pages and cursors | `CustomerActionsProofs` |
| `Confirmation` | challenge, admission, spending, presence, operation | `ConfirmationProofs` |
| `AdminGate` | the console's gate in the browser over `Confirmation`, which it extends | `ConfirmationProofs` |
| `PlatformConsole` | dispatch, handlers and stores of the console, onboarding | `PlatformConsoleProofs` |
| `Sessions` | login, resolution, selection, logout, reset of a credential | `SessionsProofs` |
| `SessionLives` | what the session table promises; `Sessions` implements it | — |
| `FrontGates` | the rate gate (coordinators, shard of a source) and the gate before authentication | `FrontGatesProofs` |
| `TenantRoutes` | route tables of tenant administration: registration, matching, authorization | — |
| `TenantAdmin` | dispatch over such a table, grant ceiling, invitations, their list; extends `TenantRoutes` | `TenantAdminProofs` |
| `InvitationLives` | what invitations promise without a sweep; `TenantAdmin` implements it | — |

Each that runs has an `MC...` module (`Confirmation` runs under `AdminGate`): constants and symmetry, nothing the theorems are about.

### How state and actions correspond to the code

**WriteBudget.** `mem[o]` is the write half of `CoordinationState`, `disk[o]` the row that `persistWriteBudget`
saves (it has no share in it), `ledger` the `business` row of the ledger object. A request fixes its day when the Worker starts
(`SendReserve`). `handleReserveWrites` is one turn when no permits are needed (`ReserveWithoutBuying`) and two
when they are: `ReserveMustBuy`, up to the await, and `ReserveResumes`. `handlePermits` is the ledger's
turn; its answer arrives, is lost, goes to an evicted coordinator, or the ledger was never reached.
`Evict` replaces the memory with `hydrate` of the row and abandons the handlers that were waiting. `credited`,
`charged`, `shared` and `sold` are history.

**DenialSummaries.** `groups` and `budget` are the coordinator's memory, `stored` its tables; `RecordAndSweep`
is a whole turn of `recordDenial`, the persisting and the sweep of closed windows (`Turn` says what it leaves, given the groups
it swept and the budget it ends with); `write` and `SummariesLost` are the batch of the
Worker. `EvictGroups` keeps what was persisted. A row's key is group, window and emission number.

**CustomerActions.** One `req[q]` per request, its `phase` the await it stands at; `Begin` is admission,
authorization and shape in the order of `invokeAction`. Each handler reads and decides in one step, `Reserve`
is the write budget (its outcomes, not its books), `Commit` the batch of customer row and audit row. A listing or a
search asks for page after page: what it asks is a business or all, the statuses its filter selects and the names and addresses its query
matches, which for a listing are all. `Collect` authorizes a named business, `FindAnchor` rejects a cursor given under another body and reads the
anchor's present name again as the code does, `ReadPage` takes the first candidates after it. `walk[q]` is history: how often each customer was shown, which
were selected all along, and whether each anchor kept its name while a cursor stood on it. Other Organizations are rows of `table`
with another `org`.

**Confirmation.** `rows[b]` is the row of a binding (hash of principal, session, operation, parameters).
`CheckCeilings` and `TakeFromLedger` are the two halves of `reserve`; `StoreChallenge` the upsert, `Spend` the
conditional update; `VerifyCredential` follows whatever came of it. A client presents an identifier it was
shown, with that operation or another of the same principal.

**AdminGate** extends `Confirmation` and conjoins the browser's side to its actions. `gate[g]` is the state of a `ConfirmationGate` (`Phase`)
together with the screen that holds it, and for a reset the stages of `ResetCredential` around it (`preparing`, and `settled`
for the panels after the submission). `RequestChallenge` is `AskChallenge` by a gate, `SubmitConfirmed` is `Submit` by one, with
the challenge it was shown; `Stray` is either by another client, `CarryOut` is `Perform` with `written`, the history of what took effect.
An answer arrives (`HearAnswer`, through `Read`, which is what the parser makes of it) or does not (`LoseAnswer`); a promise goes on when its screen is gone, so
`SubmitConfirmed` does not ask for one. `Nested` holds the kinds whose gate is rendered inside another form, whose submission it starts too: `{"reset"}` in both runs,
since `OrganizationDetail` renders the reset inside the form of the look-up and nothing else renders it; a removal's gate is on the Operators' page,
on its own. The theorems hold for any `Nested`. Requests of `Confirmation`
may come from anybody who was shown a challenge of the same principal; the binding of a reset holds a derived password only its
gate knows, so nobody else asks for that.

**PlatformConsole.** `Dispatch` is `dispatchPlatformRoute` up to the handler, `Read` the reads of a handler,
`Write` the statements with the conditions inside them and the second read that explains a statement which
changed nothing, `Tell` the tenant's record, `recordThen` and the answer. `SeedOperator` is the seeding tool, the only
way an operator comes to be. Confirmation is only its outcome here (`Denied`).

**Sessions.** `sessions[s]` is a row of `session`; an absent row is `unopened` before and `ended` after it was
stored, and no action tells the two apart. `keys[p]` lists the verifiers of a principal, the last one being the stored one. A request
is a login, a resolution (`resolve`, `resolvePrincipalId`), a listing of Organizations, a selection, a logout or a
reset; its `phase` is the await it stands at, and the actions are the reads (`Verify`, `FindSession`,
`FindPrincipal`, `FindMembership`, `FindOrganization`, ...), the reservation and the writes. `Replace` is the batch of `resetCredential`. What a
principal is allowed changes in `Administer`, between any two steps: suspensions are made by tools and operators
outside these handlers. `known`, `excused`, `took`, `hindered` and `missing` are history: `missing[q]` holds the facts that have
been false in every state since request `q` began.

**FrontGates.** Two gates that share nothing but the clock. `Invoke`, `Admit`, `Report`, `Apply` are the turns of a
coordinator, of the shard of a source and of the coordinator again; `rate[o]` is its memory, its persisted row holds only
who is over (`Persisted`), and `Hydrated` is what an eviction leaves. An attempt before authentication goes through `CheckSource`,
`CheckIdentifier`, `Handle`, `CountDenial` and is answered; `TriesAfter` is the limiter's counter with its sweep. Both steps of the login declare an
`identifierField`, so `CheckIdentifier` counts either by the bucket its identifier falls in, any of `Bucket`, unless the field was not filled or no bucketer is
composed. A bucketer that throws (`BucketerThrows`) ends in `internal`: no refusal of the gate, and nothing counts or announces it. The
limiter is one of a composed runtime: several attempts meet it only where one runtime serves them. `slips[x]` is history: how often
coordinator or limiter `x` saw a window after a later one. Such a request restarts a count, and the properties allow exactly one limit more for it.

**TenantAdmin.** `table` is the registered table, one of `Tables`: the shipped table is empty, so the model takes
small ones, registers those that pass every check (`Registered`), and serves each. A request goes through `Ask`,
`Authenticate`, `Resolve`, `Charged`, `Authorize`, `Confirmed` in the order of `dispatchTenantAdminRoute`, then its
handler. Handlers are supplied by a composition that is not in the repository; the one for invitations is
strung together as `invitation-administration.ts:96-113` describes: `ReadHeld` and `ReadCustomRole` are
`clearGrantCeiling`, `Reserved` the admission, `Sweep` and `Insert` the two statements of the D1 store. `assigned[p]` holds the custom roles of a member. The dispatch goes by the grants of the role column alone
(`Held`, `grantsForRole`); the ceiling by `HeldBy`, which is what the port `heldPermissions` promises: role and custom roles together, in one answer. No adapter
implements that port; one that read the two at different moments could return what was never held, and is outside the model.
`AssignRole`, `AssignCustomRoles` and `ReplaceCustomRole` are what members do meanwhile: the first as the receipts of the ports allow, the others as the
tables of `0022_tenant_role.sql` do, since no port writes them yet. `NextPage` is one statement of the list. `seen[q]` is
history: what was granted by role, what was held in all, and the custom roles, at each moment while `q` was served.

## Runs

Every bound is a constant of the configuration.

| Run | Instance | Shows |
|---|---|---|
| `write_budget_midnight` | 2 Organizations, 2 requests of 1 or 2 units, 2 days, evictions and ledger faults at any time, fair | `PermitConservation`, `CreditBacked`, and `EveryReserveAnswered` hold in any order of messages around midnight |
| `write_budget_quiet` | 2 Organizations, 3 requests, as above, but no request straddles midnight | `OrgCeilingHeld`, `HonestDeferral`; the budget implements `DailyAllowance`, whose steps never pass the ceilings and the allocation |
| `write_budget_ledger_rollback` | 3 requests, no faults | **violation** of `AllocationHeld` (finding 1) |
| `denial_summaries` | 2 keys, 4 denials, 2 windows on 2 days, one eviction, one fault | evidence is never absent, totals are reported; in-order windows keep identities distinct, emissions and spending bounded |
| `denial_collision` | 2 keys, 4 denials, no faults | **violation** of `EmissionsDistinct` (finding 3) |
| `customer_actions` | any two requests of an owner and a clerk, 3 customers, 2 businesses, one failing call; lists over one business, another's and all, a search, a cursor under another body | the six properties of the App |
| `admin_gate` | one gate of one operator for a removal or a reset, opened again and again, and any requests of a second client, 3 requests over 3 bindings in all; expiry with a change of day, one failing call, answers lost at will | single use, performed is confirmed, ceilings in turn; `OutcomeIsHeard`: what was carried out is told at the gate that sent it, unless the operator left or the form around a reset took its screen away |
| `admin_gate_nested` | the same, with ceilings and remainders that bind sooner | **violation** of `CredentialKept` (finding 2): the second exception of `OutcomeIsHeard` occurs, and with it a password nobody has seen |
| `platform_console` | any 2 requests of 3 principals, one more operator seeded, one failing call | `TrailTellsStatus`, `RecordedAsDone`, the last operator, retired Templates, and that an overlapping edit writes back nothing but what somebody wrote (`EditsKeepTheRest`) |
| `sessions` | any two requests about a member with two sessions, of which one expires, and a bystander; one tick, one change of standing, one failing call, a reset that lists two sessions at most | `ResetEndsOldKeys`, `LogoutEnds`, `AnswersWereTrue`, and that the session table implements `SessionLives` |
| `front_gates` | either 3 requests of 3 Organizations and one source in two windows, any of them late, one lost report, one unreachable coordinator, one eviction; or 3 attempts in two windows with the bucketer, with bucketer and recorder, or with neither, one fault | ceilings per principal and Organization (`RateBounded`), source and bucket (`AttemptsBounded`) with what a late request costs, the source across Organizations, and a trace of each refusal |
| `tenant_admin` | 10 tables, of which 2 pass the checks; 2 requests out of a set of calls, 4 members, of whom the inviter holds the 1 custom role besides its own, 4 identifiers of invitations, one tick with a lifetime of one, sweeps and pages of one row, one change of a role, of a custom role or of who holds it, one fault | a registered table is served as written, effects within the grants of a role, offers within all that was held, recorded before answered, whole walks, and invitations implement `InvitationLives` |

Why the bounds are enough. What can go wrong is between two requests that each read and then write, and
something that happens between them. Budget: two requests buying at once for one Organization, a third that buys for
another, an allocation smaller than the sum of ceilings so that all three limits bind, a day before and a
day after. Denials: a ladder of two points plus the close, a second window that closes the first, an
eviction and a fault anywhere; a sweep limit of one so that the sweep leaves something; an evidence ceiling of two
summaries so that conservation and exhaustion both occur. Customers: two requests are every pair of Actions on the same row at every await;
a page of one row makes a listing of two customers walk across a cursor, equal names make the identifier break ties, and the second request edits, archives or moves what is listed between two pages. Confirmation: three requests are
a challenge, and either two submissions of it or a submission and a challenge asked again, a lifetime of one
tick expires within the run, as the day changes, and the ceilings start nearly spent. The gate: three requests are a reset's challenge and
submission and one request more, of the same operator or of the other client; a gate that closed can be opened again. A second gate would have the
same operator do one thing after the other, and the theorems bound neither gates nor requests. Console: two concurrent handlers, of which one may revoke
or retire what the other has read; one operator seeded lets the number of operators grow as well as shrink.
Sessions: two
requests are every pair of handlers interleaved at every await (a login within a reset, a selection across a
logout, a resolution across an administrator's change), or one after the other: a login first gives its principal a third live session, one more
than a reset lists, and a session expires within the run. Two resets with a login between them need a third
request and are left to the proofs, which bound nothing.
Gates: two windows and a late request are every order of two clocks at one coordinator or limiter, and the third request shows what the slip cost; the bucket's
limit is below that of the source at either step of the login, so that each level refuses where the other does not; three Organizations spread one
source, so that its total is known to nobody but the shard. Tenant administration: the eight tables that do not register fail
one check each, so that each check is needed; two requests are an inviter and somebody whose invitation
precedes or is swept, one custom role, that the inviter holds and offers, read after what the inviter holds makes the two reads straddle a
change: it may be taken away, replaced or retired before, between or after them, and it alone grants what it offers, and with a lifetime of one tick an invitation lapses before a slow sweep, made with an older
reading of the clock, or not; pages of one row and equal instants make the identifier break ties.
One failing call may fall on any call; a second one meets the same handlers, since a request that failed is over.

Deadlock is not checked where requests are finite in number and all are answered (a client that stays away is
no fault). `PlatformConsole` states its end as an action (`Finished`), and in `TenantAdmin` a caller may always
ask again, so in these two it is checked.

**Fairness** is assumed in one run only. `FairSpec` has weak fairness on `Served(r)`: a message that was sent
is handled and an await that is over is resumed, which the Durable Object runtime and the JavaScript event
loop do. New requests, midnight, evictions and faults are not fair: they need never happen, and may happen
each time they can. A request is answered even so, because an evicted coordinator's callers are answered
`unavailable` and every purchase ends in one of four ways.

**Symmetry** is used for safety only (interchangeable requests, keys, Organizations), never with a liveness
property.

## Proofs

The theorems hold for any number of Organizations, requests, days, principals, operators and Templates, under
the assumptions named in each module: numbers are naturals, blocks and units positive, and the sets that are counted or
summed over are finite (requests, Organizations, principals, invitations), which loses nothing, since a behaviour that breaks a
safety property does so after finitely many steps. Type correctness is a theorem of each module with proofs, and is therefore
not among the runs' invariants. Every safety property that a run checks and finds true is a theorem.

Sums (`SumFunctionOnSet`) are recursive functions on the subsets of a finite set. What the proofs need of them (`SumType`, `SumGrows`,
`SumAdds`, `SumOfNothing`) follows from well-foundedness of the strict subsets: what holds of the empty set, and of a set
when it does without its pick, holds of every finite set (`ByPicks`). The three modules that add up carry these lemmas each for itself, because
two modules with variables of the same names cannot extend one another.

**`WriteBudgetProofs`.** `TypeOK` is inductive once lemmas say that a roll, a purchase, a credit and a
charge keep the counters natural (`RollLemma` to `DecideLemma`): a charge never makes permits
negative because `admitWrite` has compared them. `PermitsConserved` proves `PermitConservation` for `Spec`, midnight
in any order included; the invariant is inductive together with `TypeOK`, since it bounds what was charged
*plus what is still held, in memory and on disk*, by what was credited for that very day. The ceilings
do not hold for `Spec` (finding 1), and are proved for `QuietSpec`, in which no request straddles midnight
(`OrgCeilingAlways`, `AllocationAlways`). They are not inductive alone: `BooksBalance` is the strengthening, which says
that memory, row and ledger each know exactly what the present day was charged, so that a check against a counter is
a check against the truth. `QuietMidnight` is needed where a request's day must be today.
`CreditBacked` adds up all Organizations, in any order around midnight; it becomes inductive as `Backed`, when what was granted
and is still on its way to a coordinator is added too (`Coming`): a grant moves from the ledger to that sum, and from there to one
coordinator or to nobody. That the budget implements `DailyAllowance` (`AllowanceIsKept`) maps each step to a use within both ceilings
and the allocation, to a new day, or to a stutter; it stands on `BooksBalance` and on `Backed`.
`HonestDeferral` is the converse of a ceiling: who is deferred had no room. It needs `Honest`: that `exhausted` was set only by a ledger that had nothing left
(`Marks`), that the share in memory is no more than what was used of it (`Shares`), and that permits in memory, and those a request waits for, are enough for
what was admitted against them (`Covers`).

**`DenialSummariesProofs`.** A turn is described once (`TurnOn`: what it leaves of the budget, of the answers
and of the rows; `TurnType` for the types), and each step is then quiet, a turn, or the end of a batch (`StepLemma`). No property is inductive alone; four invariants carry them.
`GroupsCounted`: an uncounted window has no group in memory or in the tables, so its first attempt opens one, stands on the ladder and is never
held back, which is what `EvidenceNeverAbsent` needs. `InOrder`: as long as windows come in order, memory and tables date the budget to the day of the
newest window and know what was charged to it, from which the ceiling and the conservation of permits follow. `Sequenced`: every row, in the table
or on its way, is of an older window or has a number its group has passed, and no two share an identity. `WithinLadder`: what a group emitted
is bounded by the ladder points that its *stored* count has passed, since that is the count an eviction goes back to.
`TotalReported` needs to follow a total from the group that holds it: `TotalKept` says of each window without a lost summary, and without two rows
of one identity of which one is still to be inserted and will be refused (`Clash`), that the group in memory knows all that was counted, and that a row with the
true total is in the table or on its way there, or the group has it still to report. `FirstKnown` says that the first summary of every counted window is such a row
or was announced as lost, so a group that is opened for the window once more clashes with it.

**`ConfirmationProofs`.** `SingleUse` is about requests that took one identifier; by itself it says nothing
of requests still on their way. `IInv` adds: rows of distinct bindings have distinct, already issued identifiers
(`RowsDistinct`), a challenge that was shown and whose row still bears its identifier is that row
(`ShownIsStored`), a request carries an identifier that was shown (`OnItsWay`), an identifier that was taken is
marked spent in its row or in no row any more (`TakenIsSpent`), and a request past the gate has taken its confirmation and
is its owner's (`GateHeld`). With these `Spend` can take an identifier only if nobody has, and `StoreChallenge`
never revives one since its identifier is new. `PerformedIsConfirmed` follows from `GateHeld` and `TakenIsSpent`.

The second half of the module is about `AdminGate`. `GateImplementsConfirmation` shows that the composition, its own variables hidden, is
`Confirmation`: each step of the gate is a step of Core or a stutter, so that what Core promises it promises under the console too
(`GateSingleUse`). `OutcomeHeard` needs `GateInv`: what was carried out is a request that is done and was not refused (`WrittenAnswered`), an operation that is
answered as done was carried out (`DoneWritten`), and `Tracks` says of a gate, by its phase, which kind of request it waits for, that a refusal or a success it
shows is the very answer of that request, and that a screen goes only with the operator or, of a nested kind, with the form around it. `CoreKeeps` is why other
steps do not disturb it: Core never takes an answer back; and those that carry nothing out (`Waiting`) answer no operation as done (`WaitingAnswers`).
The theorem holds for any `Nested`, that of the source included.

`CeilingsInTurn` is about ceilings that are checked before an await and charged after it. `Turns` says that one request at most stands between the two
(`OneTakes`), that the counters it was judged by still have the room it was promised (`RoomKept`), and that they count all that was
granted on the latest day (`Counted`), a sum over the principals. `GateCeilingsInTurn` carries it over to the composition.

**`PlatformConsoleProofs`.** `IInv` is `TypeOK`, `EachSound` and `TrailTellsStatus`. `EachSound` says of each
request, by its phase, what outcome, effect and answer it may carry and what the trails hold of it
(`Sound`): a request before its statement has no effect and no record; one about to record a success has made its
change, and told the tenant where that is due. `RecordedAsDone` is what remains of it at the end. `TrailTellsStatus` counts
retirements against restorations; its proof is that the `UPDATE` changes a status only from the other one, so each step
adds one to the side it must (`OneMore`). Two action properties are proved of every step from
`IInv`: `RevokeOperator` keeps another operator unless the caller names itself, and every statement on a Template or an
Organization asks for an active Template again. `EditsKeepTheRest` needs `EditsCurrent`: in a field it was not asked to change, what a request
is about to write back is what is there, or another edit of the same Template took effect since it read.

**`FrontGatesProofs`.** The theorems bound what a coordinator, or the limiter, lets through for any limits: one limit more for each slip, and for an
eviction the one more that the forgotten count may hide. The invariants tie counters to history. `RateSound` says that who is over is so marked in the row, and
that every window of a subject is `Covered`: what has passed is within the allowance, what the counter of that window may still let through is too, and a window it
has not begun to count, unless it is past, has a full limit left. A slip adds a limit to every window at once, which is what pays for
the counter it restarts. `TriesSound` says the same of the limiter's counters per key (`Within`), sweeps included; `TraceSound` says for each phase of an
attempt whether its refusal is still to be counted, was counted or was announced.
The ceiling of a source (`SourceHeld`) has no counter to tie to: coordinators know their own counts, the shard what was reported, and a block comes when
the report is answered. The proof follows the part of a coordinator's count that the shard has cleared (`Cleared`): all of what it reported but for a report on its
way or one that was answered beyond the limit, and once it blocks the source or counts another window, what it must have told. `Agreed` says that each
coordinator admitted no more than its cleared part and what it may hold back (`Covers`, from `OneReports` and `Counting`), and that the cleared
parts together are within the limit and within the shard's total, unless the shard has dropped that window (`Shared`). A report clears its delta only if the total,
which covers all that was cleared before, allows it; no other step clears anything.

**`TenantAdminProofs`.** `Sound` says by phase what a request has behind it: at some moment in `seen` its caller had the
role the dispatch read, from which every later permission follows; past the gate it is confirmed, past the charge charged; in the
handler, what it read for the ceiling was held at such a moment, and each custom role it no longer has to read was defined and
lay within that (`Backed` hands this to the row it inserts). `Present` says that the present moment is always among those seen, which is what makes
a read sound; `Traced` ties the trail to phases and answers. Roles change by `AssignRole`, `AssignCustomRoles` and `ReplaceCustomRole` at any step; `seen` grows with them (`ChangeStep`), so what was sound remains so.
That the rows keep the promise of `InvitationLives` rests on `Dated`: a row was made by the present moment, so its end lies in the future of
its maker, and a sweep carries a reading of the clock that is not ahead of it, so it takes the address only of what has ended by
itself. Then the sweep of rows maps to the forgetting of addresses or to nothing, an insertion to the making of one invitation, a tick to a tick.
`RegisteredServes` is about tables alone: the checks that a registered table passes, each of one thing, together let every route be served. It assumes of the tables what the
types of the source say, and that the route under the id of the challenge is the one that is built (`WellFormed`): one written by hand with a fixed permission
would pass each check and serve nothing else. `WalkIsWhole` follows a walk by its cursor: what was there all along and lies up to it was shown once, what
lies after it not yet, and a page that comes back short leaves nothing after it, since of the invitations not shown there would be a first one.

**`CustomerActionsProofs`.** Five of the six properties of the App speak of requests that are done; `Sound` says by phase what makes them so. A request that reserves
or writes holds what it was asked (`Proposed`: the columns of its body and nothing else, an entry in its own name, a target that was found within the Organization and,
since rows change neither owner nor identifier, still is), and its generated identifier is not in the table until it commits. `Judged` ties answers to evidence, `Isolated`
says that no row of another Organization was shown or hinted at, `Trail` that each entry is of a request done, once. `Walking` carries a listing: as long as anchors keep their names, each
customer selected all along was shown once if it lies up to the cursor and not yet if it lies after it (`Past`). A page then extends the shown
to exactly those up to its last (`ShownLemma`, from the totality of the order), and a batch of somebody else only takes customers away from `steady` or ends `anchored`
(`WalkedLemma`), whatever tables, bodies and page size. A cursor under another body walks no further, because it does not decode.
`FreshWriteIsLegal` speaks of a step, the batch; it needs `Decided`: what a handler decided on the row it saw (its status, the businesses of
its principal, the entry's account of the change) stays with the request until it writes. If the row is still the one it saw, so is the decision (`CommitIsLegal`).

**`SessionsProofs`.** `ResetEndsOldKeys` speaks of resets that were made; a login on its way may still break it, and
so may the batch if the listing was wrong. `IInv` adds: a login past the verification of its key is excused by each reset that was made or its
key is that reset's or a newer one (`OnTheWay`); a reset between its listing and its batch has every session it knew of either
in its list, or beyond the cap, or expired by the reading of the clock it began with (`Listed` in `Sound`); the row of a login is not opened before it is done
(`OpenedWhenDone`), so an insert never brings an ended row back; and a logout asks for a session whose login is done, which is what keeps
`LogoutEnds`. The step proofs go by `Evolves`: whatever a step does, keys are only appended and rows keep principal,
expiry and key, so each part need only be proved of the request that moves (`Becomes`, and below it `Reads` and `Writes`).
That the table implements `SessionLives` rests on `EachCarries`: what a request has put together in its reads is still good when
its statement runs, however late: the expiry is within a lifetime of the clock, the Organization is the one asked for, and each session
a reset listed is of its target, since no row changes hands. An insert then maps to the opening of a session that was
not opened before (`OpenedWhenDone`), an update to a turn or, of an ended row, to a stutter, a deletion and the batch of a reset to an end.
`AnswersWereTrue` needs `Assurance`: a fact that holds now is in no request's `missing` (`Current`), what a request
relies on was read while it stood and is therefore not among them either (`Stands`), and what a phase says was read was read (`Assured`).

Only model-checked: liveness (`EveryReserveAnswered`), which is beyond the provers, as is what `ENABLED` would say; and the three
violations, which are counterexamples and need no proof.

## Findings

Each is shown by a run TLC ends with a counterexample.

1. `coordinator-object.ts:709`: the ledger resets its counter for *any* other day. A purchase of yesterday
   handled after one of today restarts today's count, and the allocation is granted twice, though
   `write-admission.ts:63` says nothing can exceed the platform ceiling by construction.
2. `OrganizationDetail.tsx:1074`: the form that looks a member up renders, inside itself, the reset of that member with the
   gate's own form. React's submit event reaches both handlers, and neither stops it (`ConfirmationGate.tsx:347` only prevents the default): approving a reset starts the look-up
   again, its result is replaced, and the gate goes with the generated password while its promise derives and submits. The account then has
   a password nobody has seen. `ResetCredential.tsx:386` says that this browser holds the only copy and that discarding it strands the account.
3. `coordination-engine.ts:614`: a denial of an older window handled after one of a newer window closes the
   newer group and starts the older one again at emission 0, whose row collides with its own first one: the
   batch, the newer window's close included, is rejected. The loss is announced, so `EvidenceNeverAbsent` stands.

Met while modelling, and not the subject of a run:

- `coordinator-object.ts:449`: the platform's share is not among the columns `persistWriteBudget` saves, so
  every eviction hands it back, though `write-admission.ts:274` says the 1,000 are for all operators together (`hydrate` in `WriteBudget`).
- Console in the browser: a successful reset answers `revoked_session_count` and `notified_organization_count` (`platform-route-handlers.ts:1705`) where
  `credential-reset-v1.schema.json:63` and `parseResetCredential` require `sessions_revoked` and `warnings`: every success is read as `internal`, and
  the panel for a success is never shown (the one for an uncertain outcome, with the password, is). A removal whose answer is lost ends in a panel that says
  nothing was changed (`i18n.tsx:686`), which may not be true. `OnboardOrganization.tsx:209` drops the generated password after any failure, a lost answer included.
  Typing into the look-up's field, or leaving the page, during a submission drops the password too; `CredentialKept` leaves that to the operator.
  `OutcomeIsHeard` speaks of the code a gate holds, not of the words of its panels.
  `platformRequest` clears its timer before it reads the body, so a body that stalls leaves the gate submitting for ever.
- The coordinator's own day is rolled back by a late request as the ledger's is
  (`coordination-engine.ts:833`); concurrent purchases buy more permits than the ceiling lets be used (`:802`).
- An announcement of a failed batch is credited to the key and window of each lost row (`SummariesLost`); the Worker's line names the request that was denied.
- With windows out of order a group may also emit more than `MAX_WRITES_PER_GROUP_WINDOW`
  (`coordination.ts:315`), and a window has several rows where a comment says exactly one (`:310`).
  `persistBudget` dates permits with the day of the used count (`coordinator-object.ts:437`).
- Customers: an edit that was overtaken by an archive is written to the archived record; archiving twice at once
  writes two audit rows; a renamed anchor repeats or skips rows (as `customer-repository.ts:243` says).
- Control-plane ceilings are checked before and charged after an await, so overlapping admissions exceed them
  (`control-plane-admission.ts:892`); `CeilingsHeldInTurn` says when they hold.
- Console: two updates of different labels of one Template each write back what the other replaced
  (`platform-route-handlers.ts:2049`); the count that keeps the last operator counts rows of any role, so a
  moderator's row lets the last administrator be revoked by another; a request in flight keeps the authority it read.
- Console: onboarding accepts a retired Template (`onboarding-service.ts:194` reads it for its existence only), although
  `src/packages/contracts/core/platform/template-lifecycle-v1.contract.yaml:1012` says the front door must refuse it as the assignment does;
  `RetiredIsWithdrawn` therefore speaks of edits and assignments.
- Gates: a late request of an older window restarts a coordinator's, or the limiter's, counters (`coordination-engine.ts:335`); `RateBounded` and
  `AttemptsBounded` say that this costs one limit each time and no more. `pre-auth-admission.ts:878-880` says that without a recorder every
  countable denial is announced as `evidence_unrecorded`; the code announces `evidence_recorder_absent`, once per isolate and entry point
  (`REPORTED_CONFIGURATION_CAUSES`, `:944`), and `RefusalsLeaveTrace` accepts that one notice for all denials of the entry point. `:1356` and `composition.ts:197` call the notice of a missing
  bucketer one per request; it is one per isolate too. A bucketer that throws (`:1371`, outside the `try`) is answered `internal` by `fetchHandler`, with no
  evidence and no notice. The bound
  on a source that `coordination.ts:189-197` computes supposes reports that do not overlap in flight.
  `worker-entry.ts:784` makes a limiter, and `:329` a control-plane admission, per request, although the comments above speak of counters per isolate and
  `pre-auth-limiter.ts` calls its limiter not wired; the model's limiter is that of one composed runtime. `session.refresh` has no handler: it is refused
  and announced, never counted. `recordPreAuthEvidence` has no caller and no recorder is composed.
- Tenant administration: no table with a gated route can register the challenge route that
  `buildTenantAdminChallengeRoute` builds, since that is a `POST` declared `not-audited` (`tenant-admin-routes.ts:1390`) and
  `assertEveryMutationIsAudited` (`:900`) refuses it, though `:1430` tells the reader to register it; the model's registered table
  declares it audited. A vocabulary of four names has no room yet for the fields of a confirmation.
  `sweepLapsed` and `createInvitation` each consume a single-use reservation, so the handler needs two where
  `invitation-administration.ts:107-113` speaks of one figure. The clearance covers `offer`, the row takes its role from
  `record.role` (`:464-490`), and nothing compares the two. A path that repeats an earlier one with a parameter in the same place passes the shadow check.
  A request for a challenge that names an unknown operation is charged and leaves no record.
- Sessions: a login that verified the old key before the batch of a reset leaves a session that survives it, although
  `control-plane-store.ts:629` says one batch removes that window entirely, because the sessions are listed awaits
  before the batch (`reset-service.ts:189`); `ResetEndsOldKeys` names this exception. The cap of 50 sessions is
  silent, the warning `sessions_not_revoked` of the contract being returned by no code. A selection whose
  session was ended meanwhile is answered as done. A logout that the write budget defers keeps the session alive while the cookie is cleared.

## Not modelled, and why

Text formats, hashing and cursors' signatures (an injective tag or a model value stands for each), HTTP shapes,
logging, the web console and those screens of the admin console that only read and edit, the client key derivation, generated types, migrations and scripts: pure functions, or code
that keeps no state the server trusts. They are most of the repository's lines, and why the share of mapped lines stays low. Adapters to D1 are modelled
by their statements, not their SQL text. Contents of Customer records other than name and e-mail are left out:
no rule reads them, and a search by telephone number is one by address with another key. Of the gates: the equalised response time, seconds of `Retry-After`, a body that cannot be read. Of tenant
administration: transfer of ownership and listing of members, ports no adapter implements, and the texts of a challenge.

## Plan

Written, the most important first: `WriteBudget` with `DailyAllowance` (it guards every write),
`DenialSummaries` (the same object, evidence), `CustomerActions` (the pipeline that uses both), `Confirmation` with `AdminGate`,
`PlatformConsole`, `Sessions` with `SessionLives`, `FrontGates`, `TenantAdmin` with `TenantRoutes` and `InvitationLives`. Next:

1. Proofs of the abstract side: what `DailyAllowance`, `SessionLives` and `InvitationLives` promise as theorems of
   their own, carried over by the refinements.
2. Transfer of ownership once an adapter exists.
3. Composition: the pipeline of `CustomerActions` over `WriteBudget` in place of a nondeterministic grant.
