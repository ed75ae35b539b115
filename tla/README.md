# homepad-api: a TLA+ model

homepad-api is the Go back end of a household dashboard: a shared catalog of
services grouped in categories, adult and kid accounts, sign-in by password,
OIDC or an admin's hand-over of a device to a kid, and the live status of each
service polled from Gatus. State is in PostgreSQL; one process serves HTTP,
polls Gatus and sweeps sessions. Almost every handler is several SQL statements
that are not one transaction, so what is hard in this code is what happens
between them. That is what the modules here are about.

Contents: [components](#components), [modules](#modules), [runs](#runs),
[fairness](#fairness), [proofs](#proofs),
[where code and comments disagree](#where-code-and-comments-disagree),
[what is not modelled](#not-modelled), [plan](#plan).

## Components

| Component | State | Operations | Hard behaviour | What makes it correct |
|---|---|---|---|---|
| Session store, `internal/session` | `sessions` rows: user, created, last_seen, expires | Create, Lookup, Touch (slide), Destroy, RevokeByHandle, DeleteExpired, cascade from `users` | each statement carries a clock reading taken before it runs; concurrent slides; a slide of a session that just ended | an ended session stays ended; the expiry follows the owner's role; slides are throttled; expired rows go |
| Sign-in handlers, `internal/api` auth.go, cookie.go, kids.go, admin_accounts.go | none of their own; the browser's cookie jar | login, logout, currentUser, sign-in-here, revoke, delete kid | handlers interleave statement by statement; responses cross; statements fail with or without effect; the process dies in between | a hand-over ends the admin session; a dead cookie authenticates nobody |
| Accounts, auth.go, oidc.go, `internal/oidc` | `users`, the in-memory `Pending` map | register, OIDC login and callback | count-then-insert; repeated callbacks; restarts in mid-redirect | bootstrap closes; a login state is used once; an account is never rewritten |
| Status poller, `internal/gatus` | the published snapshot, the "Slow" threshold | scheduled poll, refresh, SetDegradedAfter | two pollers publish into one snapshot; Gatus hangs; the threshold changes while a payload is judged | the snapshot is not stale; verdicts follow a threshold that was in force |
| System settings, system.go, system_settings.go | one row; the poller's copy of the threshold | PATCH, load at boot | read-merge-write PATCHes overlap; the save and the apply are separate | the panel shows what the poller uses; omitted fields are kept |
| OIDC provider client, oidc.go, verify.go in `internal/oidc` | the discovery document, the signing keys by kid | Exchange, VerifyIDToken | logins refresh the keys at once while the provider rotates them; it is late or silent | a login is not refused for a key the provider lists |
| Whole-set PUTs, storage.go, collapse.go, kids.go, categories.go, library.go | `user_layout`, `user_collapsed_categories`, `kid_allowed_services`; `sort_index` of categories and offers | three replace-all transactions, two renumbering ones | READ COMMITTED, unique and foreign keys, cascades, deadlock | the set is one PUT's; a failure changes nothing; every PUT is answered |
| Catalog, services.go, categories.go, favorites.go, kids.go | `services`, `categories`, allow-list, favorites | create, PATCH, delete, the kid's listings, favorites | check and write are two statements; listings read several tables in turn | a category is its service owner's own; a kid sees only what was allowed |
| Library, library.go, seed.go, migration 0007 | `library_apps`; `services.source_library_id` | curate offers, AddFromLibrary, seed, the cutover's links | the copy's INSERT is retried while offer, category and slugs change; two processes find the library empty; the links are made anew at every start | one copy per answered add; one offer per entry of the seed |
| Start-up, main.go, storage.go, `migrations/` | the schema and what the migrations rewrite in it | lock, migrate, seed, serve | every migration runs at every start, over any release's data, in several processes, and may die anywhere | no start is refused; only an admin changes a width |
| Preferences, auth.go, migration 0016 | four columns of `users` | PATCH /api/me | one UPDATE per field; restarts, new defaults | a refusal writes nothing; only the owner changes a choice |
| Icons, icons.go | `service_icons` | upload, fetch from the service's site, delete, read | a slow download between the read of the URL and the write; the gate and the bytes are read apart | an icon is an upload or from the service's own site; a kid gets what it was allowed |

How they interact. Every handler calls `currentUser`, which reads and may slide
the session row, then the user row. Deleting a kid cascades into sessions,
allow-list, favorites, layout. Deleting a service or a category cascades into
the sets of every user. The settings PATCH calls into the poller; the status
endpoints read its snapshot or make it poll. A start migrates and seeds while
other processes may serve. Nothing else is shared in memory.

## Modules

```
TokenLifecycle            what session.Store promises about a token
  ^ refined by
SessionStore              the sessions table
  ^ extended and implemented by
DeviceSessions            handlers and browsers over it
AtomicSet                 what a PUT of a whole set promises
  ^ refined by
WholeSetPut               the five PUTs, as transactions
Accounts    OidcKeys    GatusPoller    SystemSettings
Catalog    Preferences    Icons
<module>_proofs           its theorems (TLAPS); Settings_proofs those of
                          SystemSettings and Preferences, and see Proofs
Startup                   a process migrates and starts to serve
  ^ extended by
Library                   with the library's migration, seed and handlers
MC<module>                instances for TLC: symmetry, and which modules a run
                          explores side by side
```

**TokenLifecycle** is the abstract specification: a grant is issued at most
once per token, extended only while it stands and to at most now + the holder's
lifetime, and ends by sign-out of that token, deletion of its holder, or after
its deadline. It is non-deterministic about everything the callers may choose.

**AtomicSet** is that of the whole-set PUTs: a set of rows, and PUTs that are
sent, then answered 204 with a change of the rows at that instant, or otherwise
with none. An allow-list becomes the listed services there are; an order gives
each item the last place it is listed at; a layout or the collapsed categories
keep, beside the list, at most rows of PUTs that overlapped, so that without an
overlap they too are exactly the list. A deletion takes its rows at one instant.
It knows nothing of statements, snapshots, locks and keys.

**SessionStore** has one action per `Store` method and one per effect of
another table on it (`DeleteKid`). `now` is the clock, `rows` the table,
`minted` the tokens handed out. Every statement has a reading `at \in 0..now`:
PgStore reads its clock in Go and runs the SQL later, so the reading may be old
by any amount. A token, its SHA-256 and its handle are one value, as they are
minted together from random bytes; `t \notin minted` is that they never repeat.

**DeviceSessions** extends it with `req` (a request and the statement its
handler is at), `jar` (the cookie each browser holds) and `origin` (history:
which admin token a kid session was handed over from). A handler is a little
program counter: `lookup, user, touch` is `currentUser`, run once by
`requireNotKid` (gate 1) and again by `requireAdmin` (gate 2); then the
handler's own statements. `Outcomes` gives every writing statement three ends:
it succeeded, it failed, or it took effect and the acknowledgement was lost.
`since` makes each reading of the clock one taken after the preceding
statement. `Crash` drops every handler where it is; responses already written
survive. Passwords are taken as right: a wrong one ends before any statement
this model has.

**Accounts** has the users table with the unique email, registration as
count / insert with the password hash in between, the OIDC login as
`Login`, `Callback` (with `Pending.Take` under its mutex), find / insert.
`readAt` and `commit` in an account are history, for `BootstrapWindow`. The
provider is external: it names an identity for a login, calls back any number
of times, or fails.

**GatusPoller** has `fetch[p]` for the loop and for each refresh: ask, judge
each endpoint, fill the uptime, publish. The judgement reads the threshold
twice, as the switch in `FetchAll` does. Gatus answers anything. Time is
discrete; a step that is due is taken before `Tick` (`Overdue`), which is how
the context's deadline and the ticker are stated. The ticker starts when the
first poll returns and does not drift.

**SystemSettings** has the row, the poller's threshold and PATCHes in the
phases read, upsert, apply. `agreed` and `passed` are history: whether two
PATCHes overlapped between save and apply, and whether one was saved while
another held an older copy.

**WholeSetPut** models the five PUTs with one set of actions, because they are
one shape: the variable `table` says which (`"order"` is the order of the
categories and that of the offers alike, whose rows are the items themselves), and what differs is stated where it
differs (the `FOR UPDATE` of `SetKidServices`, `INSERT ... SELECT` against one
insert per id, `ON CONFLICT DO NOTHING`, positions). PostgreSQL is external and
modelled from how it is used: a DELETE takes the rows committed when it starts
and waits for other transactions at them; an INSERT waits for whoever inserts
or deletes the same key, and for whoever deletes what it refers to; a
cascading DELETE locks the parent, then waits for the children; a cycle of
waiters loses a member. A blocked statement is a disabled action. `earlier` is
history: the PUTs that had been answered when this one was sent, which is what
AtomicSet means by an overlap.

**Catalog** has services and categories with their owners, the kid's allow-list
and favorites, and one request slot for the handlers of several statements:
PATCH of a service (check the category, write), PATCH of a category (rename,
width), the kid's listings and favorites. Single-statement handlers are actions
of their own, taken by any admin at any time. `window` is history: everything
the allow-list held while the request ran; `did` is what a category's PATCH has
written. Each statement may fail, which ends the request with 500.

**OidcKeys** has what `Provider` caches: the discovery document, fetched with
the mutex held, and the signing keys, fetched without it and put in place of
whatever is there. A callback exchanges its code, gets a token signed with a
key of the moment, and runs `signingKey`: look up, refresh once, look up again.
The provider lists any keys at any time and may not answer. `alone` is history:
did nobody else refresh meanwhile?

**Startup** has a database as any release left it (no width column, tile counts
up to 6 or 8, spans) and processes that take the advisory lock, run 0008, 0009
and 0013 in one transaction, commit and serve, or die. Each migration is an
operator from the columns before to the columns after; a row that violates the
constraint a migration adds fails the start.

**Library** extends it with offers, services and their source. The commit of a
migration makes the offers of the cutover and links services to offers (0007);
`LockSeed`, `CountSeed`, `PlantSeed` are SeedLibraryIfEmpty. AddFromLibrary is
read the offer, check the category, and the loop of INSERTs, whose keys the
database checks; the other handlers are one statement. Statements on services
wait while a migration holds its tables. `seed` and `made` are history.

**Preferences** has the four preferences of each account, migration 0016, and
PATCH /api/me: all the checks at once, as they read nothing but the request,
then one write per field carried.

**Icons** has the URL, the icons and the allow-list, and one program counter
per request, with a step for every query and every HTTP hop. `had` and
`admitted` are history. The services in it are the earliest admin's, and the
requests that admin's: what another admin's request meets is Catalog's matter.

## Runs

Every run checks deadlock. Distinct states in parentheses. `accounts`,
`catalog` and `library` each explore modules that share no variable side by
side: the variable `part` of the MC module picks one of them for a behaviour,
and the others stay in one initial state. Nothing is lost by that, as there is
nothing between them to interleave; requests have joint names, so that one
symmetry serves all. (`library` also explores Library in two instances, each
bounded by a conjunct in its MC module.)

| Run | Asks | Bounds, and why they are enough |
|---|---|---|
| `session_store` (4 780) | the table's invariants, `ExpiredAreSwept`, refinement of TokenLifecycle | 2 tokens, 1 adult, 1 kid: two rows of different roles, the most a statement relates. TouchInterval 1, lifetimes 2 and 3, clock to 5: a row can be slid twice and still lapse, and readings can be older than a lifetime |
| `device_sessions` (1.05 M) | hand-over, dead cookies, what a logout guarantees, refinement of SessionStore | 2 requests of one browser, all six routes, faults on. Every hazard listed is a race of two requests over one cookie; the second token is the one being minted. (Two sign-in-here requests that both mint need a third; that case has the theorems only.) Clock to 2 lets one slide fall due and an adult session lapse |
| `gatus_poller` (5.2 M) | staleness, slips of `as_of`, verdicts | the loop and one refresh, timeout 1 in an interval of 2, clock to 5: the first poll and two scheduled ones, the first two of which may time out, and a refresh that is overtaken. As a timeout is shorter than the interval, the loop is always idle when its ticker is due. Response times and thresholds on both sides of each other and at 0 |
| `accounts` (664 k) | Accounts: bootstrap window, single use of a state, accounts kept. OidcKeys: rotation followed. Preferences: honest answers, own choices. SystemSettings: panel and poller agree, omitted fields kept | Accounts: 2 emails, 2 handlers, 1 login state whose time-to-live is 1, clock to 2; both registration modes; restarts. OidcKeys: 2 callbacks, any number of times, 2 keys. Preferences: 1 adult, 1 kid, 2 PATCHes, each sent once, over two fields, good and bad values; any starts and defaults. SystemSettings: 3 PATCHes: two overlap while a third has an older copy; two thresholds and unset; restarts and faults any time |
| `whole_set_put` (169 k) | no ghost rows, whole allow-lists and orders, refinement of AtomicSet, every PUT answered | 2 PUTs of one or 2 items (also with repeats) against a deletion of either item or of the owner, each of the four tables: the least with which PUT/PUT and PUT/DELETE cycles occur, and with which a PUT leaves a row of another standing |
| `catalog` (508 k) | Catalog: category of its owner, what a kid sees and marks, what a category's PATCH answers. Icons: where an icon is from, who is given it | Catalog: 2 admins, 2 services, 1 category, 2 names, 1 handler of several statements against any number of single-statement ones; faults on. Icons: 1 service, 2 URLs, both variants, 2 requests, each sent once: two writers of one row, or a reader and an admin |
| `library` (368 k) | Startup: widths survive restarts. Library: one seed, one copy per add | 2 processes that start, die and start again without bound. Startup: every release's widths. Library, 2 offers and 2 suffixes: with both processes, 2 services and one name and URL, so that slugs always collide and offers always match; and with one process and one service at a time and two names, so that offers and services are renamed between the statements of an add and between two starts |
| `put_layout`, `poller_outage`, `accounts_bootstrap`, `catalog_second_admin`, `library_rerun` | what a comment says and the code does not do | each finds its counterexample; see below |

What the properties say, beyond the tables' own consistency:

- *SessionStore.* `EndedIsFinal` (a slide never resurrects),
  `SlidesAreThrottled` (two writes to a row are TouchInterval apart whatever
  races), `ExpiryFollowsRole`, `ExpiredAreSwept`; and `ImplementsLifecycle`, from
  which `OwnerExists` follows.
- *DeviceSessions.* `HandOverEndsAdminSession`: once a kid session has been
  minted by sign-in-here, the admin session it came from has no row, for ever.
  `DeadCookieIsNobody`: a request that carried a cookie already dead when it
  was sent is attributed to nobody and is not given that cookie again.
  `CarriedSessionEnded`: an answered logout, login or hand-over has ended the
  session it carried, unless its DELETE failed. What is *not* promised: a
  slide's Set-Cookie may reach the jar after the one that replaced it, so the
  jar may hold a dead cookie; and two sign-in-here requests sent together with
  one admin cookie both mint a kid session.
- *GatusPoller.* `StalenessBounded`: the snapshot is at most one interval plus
  two timeouts old. `AsOfSlipsAtMostTimeout`: an overtaken fetch can publish an
  older `as_of`, but only by the timeout. `VerdictInForce`: DEGRADED and UP are
  each justified by thresholds that were in force while the payload was judged;
  because the switch reads it twice, these may be two different ones, and an
  admin turning the check off can meanwhile get one DEGRADED from it.
- *SystemSettings.* `ShownUnlessOverlapped` is as much as holds: two PATCHes
  may save in one order and apply in the other, and a save whose
  acknowledgement is lost is not applied; a restart puts both right.
  `OmittedFieldsKept` holds for a PATCH nobody passed between its read and its
  save; overlapping ones are last-writer-wins for the whole row.
- *Accounts.* `BootstrapWindow`: any registration that became an admin, or
  that was let in while registration is closed, had looked at the table no
  later than the first account appeared in it. `StateUsedOnce`,
  `AccountsAreKept`.
- *OidcKeys.* `RotationFollowedUnlessOverlapped` is as much as holds: with two
  refreshes at once, the older answer can replace the newer between its
  publication and the second look-up, and that login is refused.
- *Preferences.* `AnswerIsHonest`: 200 stored everything asked, a refusal
  nothing, an error the fields before some point. `PrefsAreOwn`.
- *WholeSetPut.* `ImplementsAtomicSet`: to whoever sends them the PUTs are those
  of AtomicSet, each of one instant or none. `LockedSetReplaced`: an allow-list
  or an order is one PUT's. `NoGhostRows`, `PutsAreAnswered`. Two theorems say
  what the refinement comes to: `FailureKeepsPriorSet`, and as much as holds of
  a layout and of collapsed categories, `ReplacedUnlessOverlapped`: exactly the
  list, unless another PUT was accepted while this one ran (that case is
  `put_layout`'s).
- *Startup, Library.* `RestartsKeepWidths`: no start is refused; a database of
  any release is upgraded at one instant, to the spans its own widths call for;
  and from then on only an admin changes one. `SeededOnce`: no entry of the
  seed has two offers. `OneCopyPerAdd`: exactly one copy when 201 is answered,
  none on a refusal, never two.
- *Icons.* `IconIsUploadOrOwnSite`: whichever requests overlap, a stored icon is
  usable, its service exists, and it was uploaded or comes from a URL that
  service has had, perhaps no longer has. `IconReadWasAllowed`: a kid is given
  an icon of a service it was allowed at some moment of the request.
- *Catalog.* `CategoryOfOwner`, `KidSeesAllowed`, `FavoritesWereAllowed`.
  `CategoryPatchIsHonest`: 200 answers a PATCH that did both things it was asked,
  409 one that did nothing, 404 one that did nothing or whose category was
  deleted after the rename; only a 500 leaves a new name without its width.
  A kid's listing of categories may be empty or lag behind an edit; each category
  it shows held, when the services were read, one that was allowed at some
  moment of the request.

Each property is also checked against a mutant of the code's model, an operator
that sits just before the one it replaces (`...Unthrottled`, `...KeepsOld`,
`...FailOpen` and so on): a change the property must notice.

Abstractions that matter. In `SessionStore`, any reading up to `now` is allowed
even if it is older than the code's statements ever take. In `WholeSetPut`, the
lock on the kid and the count of known services are one step: taking the lock
alone changes nothing anyone but its waiters can see. In `Catalog`,
`SetKidServices` is atomic, which is what `ImplementsAtomicSet` in
`WholeSetPut` justifies. Adults are never filtered, so no adult's listing is
modelled. In `Library`, step 5b of 0007 takes effect at the migration's commit:
services cannot change from that step to the commit, as the migration holds
their table; that an offer may be renamed in between is left out. In `Startup`, all processes are of this release: what an older
one does while a newer one migrates is not asked. Symmetry is used only in runs without liveness properties.

## Fairness

Two runs, `session_store` and `whole_set_put`, check liveness; no other
specification has fairness.

- `StoreFairSpec`: weak fairness of `DeleteExpired(now)`. `RunSweeper` sweeps
  at start and at every tick of a ticker until shutdown; a failed pass is
  logged and the next tick tries again. Nothing is assumed of the callers.
- `PutFairSpec`: strong fairness of a PUT's next statement, weak fairness of
  a started cascade and of the deadlock detector. A statement waits only for
  row locks, PostgreSQL grants them in the order they were asked for, and its
  detector ends every cycle; so a statement that becomes possible again and
  again is run. A PUT may also be aborted at any time, which answers it.

## Proofs

Every safety invariant and every action property that a passing run checks, and
all three refinements, are proved for every value of the constants: any number of
tokens, accounts, requests, processes, services, offers and PUTs, lists of any
length, any lifetimes, intervals and thresholds, and a clock that runs as long as
one likes. (The bounds `MaxTime`, `MaxLen`, `MaxDeletes` and the like are
arbitrary numbers in the proofs.) `PartsTypeOK` of `accounts` and `catalog` is a
choice between type invariants; each of those is proved under its own
specification.

| Module | About | Theorems, beside the inductive and the type invariants |
|---|---|---|
| SessionStore_proofs | SessionStore | `OwnerAlwaysExists`, `ExpiryAlwaysFollowsRole`, `EndedStaysEnded`, `SlidesAlwaysThrottled`, `StoreImplementsLifecycle` |
| DeviceSessions_proofs | DeviceSessions | `DevicesImplementStore`, `HandlersKeepTheTable`, `HandOverAlwaysEnds`, `DeadCookieAlwaysNobody`, `CarriedSessionAlwaysEnded` |
| Accounts_proofs | Accounts, OidcKeys | `BootstrapAlwaysWindowed`, `StatesUsedOnce`, `AccountsAlwaysKept`, `RotationAlwaysFollowedUnlessOverlapped` |
| GatusPoller_proofs | GatusPoller | `AlwaysFresh`, `AsOfAlwaysSlipsAtMostTimeout`, `VerdictAlwaysInForce` |
| Settings_proofs | SystemSettings, Preferences | `AlwaysShownUnlessOverlapped`, `OmittedFieldsAlwaysKept`, `AnswerAlwaysHonest`, `PrefsAlwaysOwn` |
| WholeSetPut_proofs | WholeSetPut | `NeverGhostRows`, `LockedSetAlwaysReplaced`, `FailureAlwaysKeepsPriorSet`, `PutsImplementAtomicSet`, `AlwaysReplacedUnlessOverlapped` |
| Catalog_proofs | Catalog, Icons | `AlwaysCategoryOfOwner`, `KidAlwaysSeesAllowed`, `FavoritesAlwaysWereAllowed`, `CategoryPatchAlwaysHonest`, `AlwaysUploadOrOwnSite`, `IconReadsAlwaysAllowed` |
| Library_proofs | Startup, Library | `RestartsAlwaysKeepWidths`, `LibraryKeepsWidths`, `AlwaysSeededOnce`, `AlwaysOneCopyPerAdd` |

How they are laid out. A property says nothing of the handlers that are half
way, so none is inductive. The invariant that is says of each handler, by
the statement it stands before, what it has already established. One lemma per
operator that changes a record (`...Effect`) says what it makes of it, field by
field; one lemma per action says that it keeps the invariant (`...Keeps`); a
lemma about "one handler moves and the tables do not" serves most of them.

The invariants, and why the properties need them.

- *SessionStore*, `StoreInv`: every row's token was minted. Without it a row
  could exist whose token Create may mint again, so `EndedIsFinal` needs it; and
  it makes the refinement map's `Spent` grow only. The refinement also needs
  `ExpiryFollowsRole`: that a slide moves the deadline *forward* follows from a
  later last_seen because both expiries are last_seen plus the same lifetime.
- *DeviceSessions*, `DeviceInv`: `StoreInv`; `Standing`, what the handler has
  established (at `create`, sign-in-here's admin session has no row);
  `DeadStays`, a cookie that was dead on arrival is still dead, and its request
  still nobody's; `Answered`, an answer that replaces a session is given only
  when that one is over, or its DELETE failed. Every step of a handler is one
  statement of the table or none, so DeviceSpec implements StoreSpec and
  `HandlersKeepTheTable` takes over that module's theorems.
- *Accounts*: `StateInv`, an entry in Pending means that nobody has redeemed it
  yet, and a restart only drops entries. `WindowInv`, who is about to insert an
  admin had looked before any account there is was committed. `AccountsAreKept`
  needs nothing but the types. *OidcKeys*, `KeysInv`: a refresh that believes to
  be alone is, so that its answer is what the cache holds until it looks again.
- *GatusPoller*, `TimeInv`: a fetch is younger than its timeout (what is due is
  done before the clock moves on); the loop's next tick comes at most an
  interval and a timeout after what is published; a fetch of the loop began
  before that. `VerdictInv`: the thresholds a verdict rests on are in the set of
  those that were in force since Gatus answered.
- *SystemSettings*: `FreshMerge`, an omitted field of a merged row is still the
  row's, unless somebody passed; `OneApplying`, while no two PATCHes
  overlapped, at most one is between save and apply. *Preferences*,
  `CallSound`: what is stored is a beginning of what was asked, in the order of
  the writes, and nothing is written before every check has passed.
- *WholeSetPut*, `PutInv`: a transaction's own rows refer to nothing that is
  gone or being deleted, as the rows' KEY SHARE or row locks see to
  (`MineLive`); one PUT at a time holds the kid's row (`OneHolder`), and while
  it does no row is committed that it has not seen (`Exclusive`); a reorder has
  given each id it went through its last place so far (`Numbered`). The layout
  and the collapsed categories have no such lock, and `put_layout` shows what
  that leads to. For the refinement, `AtomicInv` adds what each transaction will
  leave at its commit: the rows it took no notice of are of PUTs that overlapped
  (`Fresh`) and of other items (`Apart`), its own are the list so far (`Placed`,
  `Collapsed`); no two transactions have written one item, as the unique key
  makes the second wait; and every row there is is an accepted PUT's. Then each
  statement before the commit is a stutter of AtomicSet, and the commit its
  answer. `ReplacedUnlessOverlapped` follows from the refinement: with no
  accepted PUT in between there is no row of a newer one to be kept.
- *Catalog*, `CatalogInv`: a category that was checked is the admin's or has
  been deleted, and ids are not minted again (`MovesToOwn`); whatever a kid's
  request has read came from its window (`Watches`). `PatchInv`: a category's
  PATCH stands before a statement with exactly the ones before it written, and
  the category it has renamed is still its admin's or gone for good, so that a
  404 of the second statement means a deletion. *Icons*, `IconsInv`: an
  image on its way is an upload or from a URL its service has had
  (`CarriesOwn`); past the gate only if it was allowed (`PassedTheGate`).
- *Startup*, `StartupInv`: only the lock's holder is inside a migration, and
  then the columns it works on are the committed ones through the files it has
  applied (`TxFollows`), so that a commit over a database of an earlier release
  leaves `Upgraded` of it; once one process has migrated, every later migration
  changes nothing. *Library*,
  `LibraryInv`: that, and that a process about to plant the seed still faces a
  library without any entry of it (`NothingSeeded`), as counting and planting
  are done under the same lock; an add has made no copy until it is answered.

Assumptions. The `ASSUME`s are the modules' own, and each run evaluates those of
the modules it extends: the sets of accounts are disjoint, the lifetimes and
intervals are positive, a timeout is shorter than the interval (10 s in poller.go:273, 30 s in
main.go:60), Catalog's earliest admin is an admin; and the place-holders (`NoRow`, `None`, `NoImage`, `Unset`, ...) are none
of the values they stand beside, which is why the sets of rows are named.
Nothing is assumed finite or non-empty that the code does not make so.

Only model-checked: `ExpiredAreSwept` and `PutsAreAnswered`, since liveness
under fairness and ENABLED are out of the proof system's reach, and absence of
deadlock. The five properties of the violation runs are false. No module
declares a recursive operator, and no proof needed an induction over data: a
list's remainder is described by indices (`Rest`).

## Where code and comments disagree

| Run | Comment | What happens |
|---|---|---|
| `put_layout` | storage.go:679-680 "It is a full replacement" | two PUTs, one of one service and one of another, overlap: each DELETE sees only what was committed before it, so neither removes the other's row, and both commit. The layout has rows of both, each at position 0. Lists are never empty in this run, so only a mixture breaks the property. Collapsed categories share it (collapse.go:28-29); the allow-list takes a lock and does not |
| `poller_outage` | services.go:397-398 "The last good snapshot — and its as_of — still stand" | a failed *scheduled* poll has replaced it by the empty one |
| `accounts_bootstrap` | auth.go:73-75 "First registered user bootstraps as admin" | two registrations that count before either inserts are both admins |
| `catalog_second_admin` | services.go:139-140 "owned by the acting admin (the shared-catalog owner)" | a second admin's service is owned by the second admin and listed for nobody |
| `library_rerun` | storage.go:156-159 "re-running is a no-op" | step 5b of 0007 links, at every start, any service without a source to an offer of its name and URL: one made by hand, or one whose offer was deleted and entered anew |

Seen while modelling, without a run: racing OIDC first logins of one email give
the loser a 500 (oidc.go:94-98), where a retry would find the account; the
earliest admin is decided by `created_at`, the start of the inserting
statement, so the shared owner can change when a slower insert commits;
a layout with a repeated id is answered 500; PUTs and deletions can deadlock
and one of them is answered 500; a library emptied on purpose is seeded again
by the next start; two offers of one name and URL are indistinguishable to
0007's links; while the provider hangs in discovery, logins wait for one
another's deadline, as `discover` keeps the mutex.

## Not modelled

- *What else an ID token is checked for, userinfo, the cryptography*: choices
  of pass or fail in `OidcKeys` and `Accounts`.
- *The position of a created category or offer* (max(sort_index)+1): equal
  positions only leave the order of two new rows open.
- *A query that fails before a handler of Accounts or Library has
  written anything* (the count of users, the look-up of an account, an offer or a
  category), where the model has no answer for it: nothing is written and the
  request is over, as after a crash or for a request that never takes its next
  step.
- *Migrations that only create what is missing*: their guards are the
  database's own `IF NOT EXISTS`. The failure of 0007 where services have no
  owner and there is no admin is intended.
- *An older release serving while a newer one migrates*, and the lock waits of
  its statements against the migration's.
- *Uptime figures* (`fillUptime`, response-time and health-bar data): display
  data; in `GatusPoller` only the time they take.
- *Environment parsing, router, CORS, JSON, password hashing, cookie
  attributes, name and avatar of a kid*: sequential, and covered by unit tests.
- *The in-memory session store*, *dbguard*, *testsupport*: not in the running
  program.
- *Browser, Gatus, provider, PostgreSQL*: external; modelled from use.

## Plan

Done: the models of SessionStore with TokenLifecycle, DeviceSessions,
WholeSetPut with the reorders, GatusPoller, SystemSettings, Accounts, Catalog,
Startup, Library, Preferences, Icons and OidcKeys; and the proofs of all that
their passing runs check, liveness apart.

Next:

1. In the models, the position a creation takes, in the table `"order"` of
   WholeSetPut.
2. An abstract specification of a lock that a process holds from migration to
   seeding, for Startup and Library to share.
