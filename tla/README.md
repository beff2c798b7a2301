# A verification project for the Authentication & Authorization API service

TLA+ modules of the FastAPI service under `src/app`, the TLC configurations that
check them, and proofs for TLAPS. Paths below are relative to `src/app` unless
they start with `src/`.

## 1. The system

One Python process (or several: nothing is shared in memory but the admin list
cache) serves HTTP requests on an asyncio event loop. State that outlives a
request is in two stores: PostgreSQL, one table `users`, at the default isolation
level READ COMMITTED; and Redis, one key `session:<id>` per session. A third
kind of state is with the clients: signed access and refresh tokens.

| Component | State | Operations | Talks to |
|---|---|---|---|
| Account handlers (`services/auth_service.py`, `services/user_service.py`, `api/v1/endpoints/*`) | none of their own | register, login, profile, withdraw, change password, delete, block/unblock | users table through an `AsyncSession` per request; sessions; cache |
| Users table (`db/models.py`, `db/session.py`) | rows: email (unique), hash, names, balance, role, block and delete marks; row locks; per request an identity map of loaded objects | SELECT, SELECT FOR UPDATE, flush, COMMIT, rollback on close | PostgreSQL |
| Sessions and tokens (`utils/redis_client.py`, `core/security.py`) | Redis keys with a time to live; JWTs with an expiry | set, get, extend, delete; sign, decode | Redis; called by login, refresh, logout and every authenticated request |
| Authorization (`dependencies.py`) | none | token -> session -> account -> admin, in that order, with an await between each | tokens, sessions, users table |
| Password hashing (`core/security.py`) | none | hash, verify, verify-and-upgrade | executor threads |
| Admin list cache and listings (`endpoints/admin.py`, `endpoints/users.py`, `utils/redis_client.py`) | cached listings in the memory of each process, 60 s | the admin list through a cache, two listings without one, invalidate on block | users table, process memory, Redis |
| Profile and balance reads | none | one SELECT each | users table |
| Start-up and shutdown (`main.py`, `db/session.py`) | the engine, the Redis pool | create_all, connect, fail, dispose | PostgreSQL, Redis |
| Commands and migrations (`src/manage.py`, `src/migrations`) | the schema, the enum `role`, `alembic_version` | migrate, drop, reset, downgrade | PostgreSQL |
| Schemas, exceptions, settings, logging | settings | validation, status codes, configuration | |

What is hard here is not in any one function. Handlers load a row in a
dependency, await, compute on the loaded object and write it back, so two
requests of one account work on copies; a session slides with every request
while the token that carries it does not; an account is barred between any two
awaits; either store may fail between two steps that belong together. The tests
run one request at a time. What makes each part correct:

- *Account handlers*: a balance is the bonuses earned minus the money paid; it is
  never credited twice; nobody writes a column that is not theirs to write;
  deletion is final and frees the address; there is one live account per address;
  a barred account does nothing; every request ends.
- *Sessions*: a session is opened once and ends for good; a request sent after its
  end is refused; sliding does not make it immortal; a barred account's sessions
  die out.
- *Listings*: a change is in every listing after a bounded time, at once where there
  is no cache; a listing with a filter keeps it.
- *Schema*: whatever was started, interrupted, migrated and downgraded, a database at the
  newest revision fits `models.py`, no schema is made by `create_all` and the revisions
  together, and a process that is ready has a table.

The full list of what is hard to test, with its lines, is `hazards` in
`PROJECT.json`.

## 2. Modules

| Module | What it is |
|---|---|
| `Accounts` | the handlers that write the users table, running concurrently |
| `MCAccounts` | its instances for TLC (symmetry) |
| `AccountContract` | what an account promises to its owner: the abstract specification |
| `Accounts_proofs` | type correctness, the ledger and the passwords, proved |
| `AccountContract_proofs` | that `Accounts` implements `AccountContract`, proved |
| `AccountRows_proofs` | who writes which columns; addresses, deletions, blocking, admins, paid sessions and row locks, proved |
| `SessionContract` | what a session promises to a client: the abstract specification |
| `Sessions` | Redis keys, tokens, clock and the requests that use them; implements `SessionContract` |
| `MCSessions` | its instances for TLC (symmetry) |
| `Sessions_proofs` | type correctness, the ends and lifetimes of sessions and the refinement, proved |
| `AdminList` | the three listings, the cache of one of them, and the changes of the table they should show |
| `MCAdminList` | its instances for TLC (symmetry) |
| `AdminList_proofs` | its four properties, proved |
| `Deployment` | the schema, the processes that start on it, and the commands and revisions that change it |
| `MCDeployment` | its instances for TLC (symmetry) |
| `Deployment_proofs` | its five properties, proved |

### Accounts

A *step* is what a handler does between two awaits that touch shared state. An
UPDATE and the COMMIT that follows it are one step: nobody sees the one without
the other. Each request walks through `pc`:
`auth` (about to read the caller's row: `get_current_user_obj`) or `select` (the
first SELECT of register or login) -> `handler` -> `commit` -> `after` (committed,
`db.refresh` and the answer to come) or `session` (login: Redis to come) -> `idle`.

| Code | Model |
|---|---|
| row of `users` | `users[u]`, a record; `registered` are the keys in use; `Admins` and `NullBalance` are constants because no handler writes `role` or makes a balance NULL |
| object in the identity map | `snap[r]`, of row `open[r]`: `Load` copies the row, and SELECT ... FOR UPDATE in `withdraw_balance` does **not** read it again, because the query has no `populate_existing` and the endpoint shares the session of `get_current_user_obj` |
| flush | `Flush`: only columns whose value differs from the loaded one are in the UPDATE, each name a column of its own |
| `int(time.time())` in `soft_delete_user` | some second between the request's beginning (`since`, in its job) and the commit, which may wait for a row lock |
| row lock of FOR UPDATE | `lock[u]`; every other UPDATE of the row waits for it (`MayWrite`) |
| unique index, `Integer`, `String(255)` | `EmailTaken`, `MaxBalance`, `LongAddress` |
| `async with AsyncSessionLocal()` | `End`: rollback, lock released |
| failure of a store, death of the process | `Abort`, at every stage |
| the answer | `reply`: exception and status code, set in the step that answers |

Passwords are model values; a hash is the password and the scheme, so the upgrade
from bcrypt can be told from no change. The addresses a client uses are model
values too; a deletion adds the second (`freed`) that `soft_delete_user` puts in
the prefix. Of a name only whether it is set is kept. The audit timestamps are left out, `block_at` is kept as set or not.

`granted`, `paid`, `sessions`, `lastPw`, `overlapped`, `adminOverlap` and `barred`
are history variables: the handlers never read them.

`AccountContract` has one variable, what each account is: absent, or its standing,
balance, password and names. Its operations take effect at once, on the account as it
then is and only if the account then allows it: a withdrawal of what is there, by an
account that is active and has both names. There are no rows, copies, locks or
requests in it. `Accounts` implements it under the mapping `View`; an account that two
requests have had open together is `Shared`, and promises nothing any more. What that
loses is in the runs `Overdraw` and `LostPassword`; what it does not lose, however much
requests overlap, is in the other properties of `Accounts`.

### Sessions

`deadline[s]` is when the key expires, `access[s]` and `refresh[s]` when the
tokens do, all on the one clock `now` (`access[s]` is the latest access token of
the session: an older one is accepted only if that one is). A request decodes its
token in the step it begins with, because no await lies before; then each call to
Redis or PostgreSQL is a step: GET, EXPIRE, SELECT, the endpoint's own work. The
account is only its `standing`; `Change` is the commit of a block, an unblock or a
deletion by another request (`Accounts` has the details). `RedisRestart` loses all
keys (section 5). `Latency` bounds how long a request runs: without such a bound no lifetime
could be stated, since a request may sit between decode and EXPIRE.

`SessionContract` has four variables: whether each session is unborn, live or
over; which session each request presents; whether it was live when the request
was sent; who was served. `Sessions` implements it under the mapping in
`Contract`: `Phase` says a session is live while the clock has not reached its key's
deadline, `Asked` and `Fit` are what a request between its decode and its answer
presented and found then, `Served` are those past every check. That an EXPIRE between another request's GET and SELECT, or
after a DELETE, never revives a session is the content of the refinement.

### AdminList

| Code | Model |
|---|---|
| `@cached(ttl=60, key_builder=...)` without an alias | `cache[p]`: aiocache makes a `SimpleMemoryCache` for the decorator, in each process; the configuration in `main.py:38` is for who asks for the alias `default` |
| `build_admin_list_key` | `Key`: the filter, and not who asks |
| the entry | `Entry`: what the list showed, and the time it has left; `Tick` runs it down (`call_later`) |
| `get_current_user_obj`, `get_current_admin` | `Admit`; the caller's object stays in the identity map, so `Select` shows the caller as admitted |
| the decorator, around the handler | `Hit`; or `Miss`, `Select`, `Store` and `Respond`, with other requests in between |
| `update_block_status` and `invalidate_admin_cache` | `BlockCommit`, `Scan`: the scan reads Redis, where this decorator never writes |
| `register_user`, `soft_delete_user` | `Register`, `SoftDelete`: neither touches the cache |
| `UserBase.balance: int` | `Serializable`: a NULL makes the public listing a 500 |

Of the parameters of a listing only `is_blocked` is kept: it is the one that accounts
change under, and whose `False` a key builder could lose. A list maps each account to
hidden, free or blocked; sorting and layout are left out. `age[u]` is a history
variable: for how long the row of `u` has not changed, up to `Horizon`.

### Deployment

| Code | Model |
|---|---|
| table `users` | `table`: the columns that revisions add or drop, and whether each admits NULL, has a default of the server's, or needs a value from every INSERT (`Kind`); `NoTable` |
| defaults of the ORM's (`default=`) | `Given`: the columns an INSERT of a registration has a value for |
| the enum `role` | `roleType` |
| `alembic_version` | `version` |
| `lifespan`, `init_db` | `Look` (create_all asks the catalogue) and `CreateAll` (it creates what was missing), `Connect`, `FailStart`, `Stop`; any number of processes |
| the files in `src/migrations/versions` | `Revision`: a script is the set of the columns it adds, alters and drops and what it does to the enum, because no script touches a column twice and the order of its statements does not matter; PostgreSQL accepts it or not (`Accepts`) |
| `upgrade head`, `downgrade -1` | `Upgraded`, a recursive function over the revisions not yet applied; `Downgraded` |
| `env.py` | `Transaction`: the scripts of a command and the stamp in one transaction |
| `src/manage.py` | `Migrate`, `DropCommand`, `Reset` and its second half, which is `Migrate` again or `Interrupt` |
| `drop_all` in `manage.py` | `DropAll`, which changes nothing: manage.py imports `Base` (lines 7-9) but not the models, which only `migrations/env.py:13` imports, when `migrate` runs, so that `Base.metadata` is empty |
| `alembic downgrade -1` | `Downgrade` |

One operator runs one command at a time, beside processes that start and stop. The
database is at first what older code left (the table without the columns the first
revision adds, no alembic), or empty. `created` (create_all has made the table or the
enum) and `downgraded` are history.

## 3. What the runs check

All instances finish; counts are distinct states.

| Run | Instance | States | Shows |
|---|---|---|---|
| `AccountsLedger` | 1 account, 2 requests, 2 passwords, bcrypt and Argon2, 2 logins | 0.9 M | `TypeOK`; `BalanceWithinBonuses`, `SerialLedgerExact`, `SessionsArePaidFor` (money), `SerialPasswordSticks`, `HoldersNeverWait` (row locks), `OwnColumnsOnly`, `ImplementsContract` |
| `AccountsRows` | 2 free keys, 2 addresses, one too long to delete, 2 requests, 2 seconds | 0.9 M | `OneLiveAccountPerAddress`, `DeletedStaysDeleted`, `ImplementsContract` |
| `AccountsBlocking` | 2 admins without balance, 2 requests | 0.2 M | `BarredNeverActs`, `SomeAdminLeft`, `OwnColumnsOnly`, `ImplementsContract` |
| `AccountsLiveness` | 1 account, 2 requests, login, withdraw, block | 13 k | `RequestsEnd` |
| `SessionsLifetime` | 1 session, 2 requests, tokens of 2 time units, fairness | 0.5 M | `TypeOK`, `AbsoluteLifetime`, `BarredSessionDies`, `LateRequestsRefused`, `ImplementsContract`, `SessionsEnd` |
| `AdminList` | 1 process, an admin without balance and an account to register, 2 requests, ttl 2 | 4.5 M | `TypeOK`, `ListsCatchUp`, `ListsMeetFilter`, `UncachedListsCurrent` |
| `Deployment` | 3 processes, all revisions | 2 k | `TypeOK`, `HeadFitsModel`, `OneMaker`, `ReadyHasTable`, `LegacyMigrates` |
| `Overdraw`, `LostPassword`, `ExpiredRefresh`, `StaleList`, `DropTables` | small | | five statements of the repository that its code does not keep: section 6 |

Bounds, and why they are enough:

- *Two requests*: every race of this code is between a load and a commit of one
  request and a commit of another; two requests of one account show all of them.
  Every safety property of `Accounts` is proved for any number.
- *MaxBalance* is one bonus and a half in `AccountsLedger`, so that two logins
  overflow the column unless a withdrawal came between. *Bonus = 2, Amount = {1}*:
  a withdrawal is part of a bonus, and two of them are a bonus.
- *MaxLogins* bounds the bonuses, and with them everything else that grows:
  withdrawals need money. It is a guard of `Begin` only.
- *MaxClock = 2* in `AccountsRows`: two deletions in one second and in two seconds, and
  one that is committed in a later second than the one in its address.
- `AccountsBlocking` has only admins without a balance: no login or withdrawal commits
  there, and `AccountsLiveness` has no admin, so that every block is refused. Money is in
  `AccountsLedger`; two accounts with an admin are beyond TLC's reach with liveness.
  `AdminList` asks for free accounts or all of them, never for the blocked ones. The
  theorems have no such limits.
- *Access = 2, Refresh = 2, Latency = 1, LastLogin = 1, MaxTime = 9*: a token is
  renewed before the refresh token expires and the key outlives both; the longest life
  is reached before `MaxTime` (the mutant `RotateRefresh` passes it). `MaxTime` stops
  the clock after every session is over, and `SessionsEnd` is not met by stopping it: the
  mutant `Persisted` violates it.
- *One session*: two sessions and the liveness of their end are beyond TLC's reach
  in minutes. `BeginRefresh(r, h, s)` is written for the access token of one
  session and the refresh token of another, which the code allows; TLC explores only
  `h = s`. The safety properties of `Sessions` and its refinement are proved for any
  number of sessions, `h # s` included.
- *AdminList*: with ttl 2 and latency 1 a listing may begin, store and answer at
  different times and an entry is seen fresh and nearly over. One process: processes
  share nothing but the table, and its other writers (`Register`, `SoftDelete`) are in no
  process; the four properties are proved for any number.
- *Deployment*: two processes race in `create_all`; the third is there when the second
  has failed and starts again. The state is finite without a bound.
- *Symmetry* of requests (and processes) is used where no liveness is checked;
  `ImplementsContract` is a safety property.

Fairness. `Accounts`: a coroutine that is ready runs (`WF` of the steps that wait
for nothing), and one that waits for a row lock gets it though others keep taking
it, because PostgreSQL queues the waiters of a row (`SF` of those steps). Clients
owe nothing: `Begin`, `Abort` and `Tick` are not fair. `Sessions`: steps of a request
(`WF`), and time passes.

`AdminList` and `Deployment` state no liveness and need no fairness. That no request runs
longer than `Latency` is an assumption of `Sessions` and `AdminList` (`Tick` waits for
it): the code sets no timeout of its own, and without one no bound on time could be stated.

Each property has a mutant: a plausible bug in the code it is about, with which TLC
finds the property violated in the same instance.

## 4. What is proved

`Accounts_proofs`, for every value of the constants that `RowsAssumption` and
`ClientsAssumption` allow (any number of accounts, requests, passwords, any amounts):

- `TypesHold`: `Spec => []TypeOK`. `TypeOK` is not inductive by itself: that a
  committed row is a row needs to know that a request in a stage has the job that
  leads there, and that one past `auth` or `select` has a row open. `TypeInv` adds
  `Shape`, which says that. One lemma per action; the type of a balance after a
  withdrawal needs `Covers` (never negative) and after a login the overflow guard.
- `Bonuses`: `Spec => []BalanceWithinBonuses`. A stale copy may be written over a
  newer row, so the bound has to hold of the copies too: `BonusInv` says that a
  request that has row `u` open, loaded at most `Bonus * granted[u]`. As `granted`
  only grows, a copy stays bounded however stale it is; a login adds one bonus to
  the copy and one to `granted`, and a withdrawal only subtracts.

- `LedgerExact` and `PasswordSticks`: `Spec => []SerialLedgerExact` and
  `Spec => []SerialPasswordSticks`. Both compare a row with a history of it, and hold
  only because the copy that is written back is current: `SerialInv` says that an
  account not in `overlapped` is open in one request at most (`Exclusive`), whose copy
  equals the row (`Current`), that what is open is registered (`Opened`) and that a key
  nobody registered has no history (`Unused`). A load by a second request puts the
  account into `overlapped` in the same step, so every other step keeps both.

`AccountContract_proofs`, for the same constants:

- `Implements`: `Spec => ImplementsContract`. A commit is an operation of the contract
  because the copy it writes back is the row (`Current` of `SerialInv`), so that `Flush`
  gives exactly the new object (`FlushIsNew`), and because the row still allows what was
  checked when it was loaded: `LicenseInv` says that of each copy (active; names complete
  and funds there for a withdrawal; not deleted for a block). One lemma per commit; every
  other step stutters, or shares an account.

`AccountRows_proofs`, for the same constants and without excluding overlaps:

- `OwnColumns`: `Spec => OwnColumnsOnly`. `StepWrites` says once and for all what a step
  does to the table: it inserts one row (`Inserts`), or its request commits the row it has
  open and changes only the columns of its operation (`Writes`), or it leaves the table.
- `OneLive`: `Spec => []OneLiveAccountPerAddress`, and `DeletionsLast`:
  `Spec => DeletedStaysDeleted`. `RowsInv` says that a row, and a copy of one, is deleted
  exactly if its address is freed, and that no two rows have an email: so a stale copy
  of a live row has nothing to write into the two columns of a deleted one.
- `BarredWait`: `Spec => []BarredNeverActs`. `BarredInv` adds that the account of such a
  request is still blocked or deleted. Only a block request's commit can change that
  (`StepStanding`), and a stale one that sets the flag it had loaded writes nothing.
- `AdminStays`: `Spec => []SomeAdminLeft`. `AdminInv` says that until requests of admins
  overlap, one of them at most is about to change a row (`Lone`), and that the admin who
  sent it stays: its account is active, or was deleted by its owner.
- `SessionsPaid`: `Spec => []SessionsArePaidFor`. `PaidInv` counts the logins that have
  committed and not stored their session: `sessions[u]` and they are at most `granted[u]`.
- `HoldersFree`: `Spec => []HoldersNeverWait`. Inductive with `TypeInv`: `StepLocks` says
  that a step of a request keeps all locks, or lets its own go, unless it is the one that
  locks or the one that commits. It is the safety part of `RequestsEnd`: a lock is never
  left behind, and who has one (`WithdrawCommit` asks for no lock) waits for nobody.

`Sessions_proofs`, for any number of sessions, users and requests and all lifetimes:

- `TypesHold`: `TypeOK` with `RequestShape` and `SessionShape`, as above.
- `LateRefused`: `Spec => []LateRequestsRefused`. `LateInv` is that the session
  of a request past the GET was live when the request was sent, and before the GET is
  live only if it was then; no step makes an ended session live again (`NoRevival`),
  because EXPIRE changes only a key whose deadline has not come.
- `Lifetimes`: `Spec => []AbsoluteLifetime`. A chain of bounds, each with the `Latency`
  of the request that carries one stamp to the next: a refresh token expires at most
  `Refresh + Latency` after the login; an access token is signed by a request that
  began before that; the key is extended by one that began before the access token
  expired. `RunInv` bounds how long a request has been running, `LifeInv` states the
  chain for the stamps and for the requests on their way to write them.
- `BarredDie`: `Spec => []BarredSessionDies`, by the same chain from the moment the
  account was barred: after it, only a request that had already read the account
  renews a token.
- `Implements`: `Spec => ImplementsContract`. Initial states map to initial states, and
  each action to a step of the contract or a stutter, from `NoRevival` (a phase only
  goes forward) and `LateInv` (who is served presented a live session).

`AdminList_proofs`, for any processes, requests and accounts, every time to live and latency:

- `TypesHold`, `CatchUp` (`Spec => []ListsCatchUp`), `FiltersMet`
  (`Spec => []ListsMeetFilter`) and `UncachedCurrent` (`Spec => []UncachedListsCurrent`),
  from one invariant `Inv`. It bounds how old what is on its way may be: a list being made
  shows every row that has not changed since its request began (`ListFresh`), an entry
  every row that has not changed for `Latency` and the part of its life that is over
  (`EntryFresh`), and a list taken from an entry both. `CallerFresh` is what makes the
  caller's own row, shown as it was admitted, no exception; `FilterInv` is about filters.

`Deployment_proofs`, for any number of processes:

- `TypesHold`, `HeadFits` (`Spec => []HeadFitsModel`), `OneMakes` (`Spec => []OneMaker`),
  `ReadyServes` (`Spec => []ReadyHasTable`) and `LegacyGoesUp` (`Spec => []LegacyMigrates`),
  from one invariant `Inv`. `HeadFitsModel` and `OneMaker` only speak of the newest
  revision, but how a database gets there depends on what it was. `Known` says what it is
  at each revision, and whether create_all had a part in it: no table, the old one or that
  of `models.py` at base; what a downgrade leaves (`Plain`) in between; the columns of
  `models.py`, with or without `is_blocked`, at the newest. Below the newest the enum is
  there exactly if create_all made it, and with the enum there the last revision fails.
  `Lenient` says which columns admit NULL, `Spares` which need a value, `AtBase` that no
  downgrade leads back to base, `Counted` that a process has found or made the table it
  goes on with.
- The lemmas about operators: `ChangedTable`, `RunOk` and `RunSpares` say what a script
  does to any table; `RolesRun`, `ExtensionsRun`, `RolesBack` and `ExtensionsStay` what each
  revision needs and leaves (the last one, that the first revision is never taken back);
  `UncreatedUpgrades` that an upgrade goes through where create_all has not been; `UpgradeRuns` unfolds
  `Upgraded` into at most three runs. No induction is needed for it, as there are three
  revisions.

Model-checked only: liveness (`RequestsEnd`, `SessionsEnd`), because fairness and ENABLED
are out of the prover's reach. Every invariant and action property of a passing run, and
every refinement, is a theorem.

The only assumptions are `RowsAssumption` and `ClientsAssumption` (above), those named in
`Sessions` and `AdminList` about their bounds, and `TableAssumption` of `Deployment`
(`NoTable` is not a table), all evaluated by TLC in the runs.

## 5. Not modelled

- Profile and balance reads (`get_my_profile`, `get_balance`, `get_me`): one row is
  read and nothing changes. Their authorization is the `use` request of `Sessions`.
- Pydantic validation beyond what the models' inputs assume (`gt=0`, non-empty names,
  `balance: int`): password complexity and the parsing of `CORS_ORIGINS` are functions of
  one string, without state, and a unit test reaches them.
- Of listings: filters other than `is_blocked`, sorting, layout.
- Hashing, JWT signatures, SQL: libraries. Forged tokens do not occur.
- The audit timestamps; settings; logging.
- Redis restored from an older snapshot: `RedisRestart` loses all keys. Redis has a volume
  (`src/docker-compose.yml:27`), and after a crash it may come back with keys of some time
  ago, sessions that were logged out since among them. Nothing in `src/app` could prevent
  it; the properties of `Sessions` hold as long as it does not happen.
- `make_migrations`, which writes a file; the offline mode of `env.py`, which prints SQL;
  the types of columns, and the check constraint on `balance` (create_all makes it, no
  revision does; `TypeOK` of `Accounts` is proved without it).

## 6. What the code does that its texts do not say

With a run:

- **Overdraw** (`services/user_service.py:49-64`): "lock the row" locks it, but the
  funds are checked on the object loaded before. Two withdrawals of one account that
  overlap both succeed and the balance drops once.
- **LostPassword** (`services/auth_service.py:89-99`): a login that upgrades a bcrypt
  hash, overlapping a password change, brings the old password back.
- **ExpiredRefresh** (`api/v1/endpoints/auth.py:86`): a refresh token is useless once
  the access token has expired.
- **StaleList** (`utils/redis_client.py:83-112`): "This ensures that when a user is blocked
  or registered, the admin list is refreshed." The entries are in the memory of the
  process, not in Redis, and a registration calls nothing: the list is old for up to 60 s.
- **DropTables** (`src/manage.py:43-53`): "Drop all tables (Use with caution!)." Nothing has
  imported `app.db.models` when the command runs (lines 7-9), `Base.metadata` is empty, and
  `drop_all` drops neither the table nor the enum; "All tables dropped." is logged. The
  first half of `reset` (line 58) is the same, so that a reset is a `migrate`.

Seen while modelling, without a run of their own:

- The login of a blocked user is answered 500, not 403: the comment at
  `auth_service.py:75` says "Return 403 logic", but the `BlockedUserError` is raised inside
  a `try` that turns it into a `DatabaseError` (lines 118-121), so that the endpoint's own
  `except BlockedUserError` (`api/v1/endpoints/auth.py:76`) is never reached.
- In a migrated table `last_activity_at` is NOT NULL without a default
  (`src/migrations/versions/a3edb1bf178e_...py:33-35`), while `models.py:39-43` leaves its
  value to the database: every registration there fails. `HeadFitsModel` has the exception
  in it, and says that it is the only one.
- Overlapping logins lose a bonus (`auth_service.py:93`).
- The loser of a race to register an address is answered 500, not 400
  (`auth_service.py:59-61`).
- An account with a long address cannot be deleted (`user_service.py:79`); nor can one
  whose address was freed in the same second.
- An admin whose balance is NULL (`models.py:27`) cannot log in (`auth_service.py:93`);
  one whose balance is a number earns bonuses, though "Admins do not have a balance"
  (`users.py:91`).
- "Cannot delete/block oneself" (`admin.py:73`): an admin can delete itself, and two
  admins can block one another in overlapping requests.
- `block_at` and `is_blocked` may disagree after a block and an unblock that overlap
  (`user_service.py:132-133`).
- A session outlives its token (`auth_service.py:103-104` says it is deleted with it),
  since every request slides it.
- `refresh` returns the session id of the access token, not of the refresh token
  (`auth.py:96`).
- A blocked user's refresh is answered 500; `withdraw` answers 403 to a lost database
  connection (`users.py:128-130`); `get_deleted_users` lists everybody.
- One admin without a balance makes every listing of `GET /users/` that includes it a 500
  (`schemas/user.py:22`).
- `build_admin_list_key` does not quote values: a `first_name` with `&last_name=` in it has
  the key of another question (`admin.py:35`).
- A service started once before `migrate` has created the enum, and the revision
  9804a5059475 then fails on it (line 24), as does every later `migrate`: `LegacyMigrates`
  exempts it, and `OneMaker` says that such a database never passes for migrated.
- The downgrade of 9804a5059475 drops `is_blocked` (line 50), which its upgrade does not
  add (lines 29-31): after down and up the column is missing, and the downgrade of
  a3edb1bf178e, which no other way leads to, always fails. `HeadFitsModel` says that
  nothing else is lost.

## 7. Plan

1. `Accounts`, `Sessions` and their contracts, with all their safety properties proved:
   **done**.
2. `AdminList` and `Deployment`, with all theirs proved: **done**.
3. Left: two sessions in TLC's instance of `Sessions`, if its liveness is given a run of
   its own; what stays of the ledger and of passwords on an account whose requests overlapped
   (`overlapped` is for ever, though one later commit may make the row current again).
