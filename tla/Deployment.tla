----------------------------- MODULE Deployment -----------------------------
(***************************************************************************)
(* The schema of the database, and those who change it: processes that     *)
(* start (lifespan creates what is missing before it connects to Redis),   *)
(* the commands migrate, drop and reset of manage.py, and the downgrades   *)
(* that the revisions in migrations/versions offer to alembic.             *)
(*                                                                         *)
(* DDL is transactional in PostgreSQL, and env.py runs all the revisions   *)
(* of a command in one transaction: a command happens at once or not at    *)
(* all.  create_all looks first and creates then, and another process or   *)
(* a command may come in between.                                          *)
(***************************************************************************)
EXTENDS Integers, Sequences

CONSTANTS
  Proc,     \* the processes that serve the application
  NoTable   \* there is no table users

VARIABLES
  table,      \* the columns of users that revisions add or drop, and their kind
  roleType,   \* the enum type role exists
  nulls,      \* some admin's balance is NULL
  version,    \* the revision in alembic_version
  phase,      \* where each process stands
  missing,    \* what create_all found missing, by process
  resetting,  \* manage.py reset is through with drop, and has not yet migrated
  outcome,    \* the last command, if the last step ended one
  created,    \* history: create_all has made the table or the enum type
  downgraded  \* history: some revision was downgraded

database == <<table, roleType, nulls>>
processes == <<phase, missing>>
history == <<created, downgraded>>
vars == <<table, roleType, nulls, version, phase, missing, resetting, outcome,
          created, downgraded>>

-----------------------------------------------------------------------------
(* Columns and revisions *)

\* A column admits NULL, or the server has a default for it, or every INSERT has
\* to give a value.
Kind == {"nullable", "defaulted", "required"}

\* The users table of app/db/models.py.  The columns id, email and
\* hashed_password, created_at and updated_at were there before the revisions.
Model ==
  [first_name |-> "nullable", last_name |-> "nullable", balance |-> "nullable",
   role |-> "required", is_blocked |-> "required", block_at |-> "nullable",
   is_deleted |-> "required", deleted_at |-> "nullable",
   last_activity_at |-> "defaulted"]

Column == DOMAIN Model
Table == UNION {[cols -> Kind] : cols \in SUBSET Column}

\* What the INSERT of a registration gives besides the address and the hash: the
\* columns with a default of the ORM's.
Given == {"balance", "role", "is_blocked", "is_deleted"}

ASSUME TableAssumption == NoTable \notin Table

\* The table that older code left, with none of these columns.
Legacy == [c \in {} |-> "nullable"]

\* A script is the set of its changes: in each of them a column is added,
\* altered or dropped once, and the enum type made before the column that uses it
\* and dropped after it, so their order does not matter.
Nothing == [type |-> "keep", add |-> Legacy, alter |-> Legacy, drop |-> {}]

Extensions ==
  [Nothing EXCEPT
    !.add = [balance |-> "required", is_blocked |-> "required",
             last_activity_at |-> "required",
             first_name |-> "nullable", last_name |-> "nullable"]]

WithoutExtensions ==
  [Nothing EXCEPT
    !.drop = {"last_activity_at", "is_blocked", "balance", "last_name",
              "first_name"}]

\* Mutant of Roles: with the lines that the revision has commented out.
RolesAndBlocking ==
  [type |-> "create",
   add |-> [role |-> "defaulted", is_blocked |-> "defaulted",
            block_at |-> "nullable", is_deleted |-> "defaulted",
            deleted_at |-> "nullable"],
   alter |-> [balance |-> "nullable"],
   drop |-> {}]

\* Mutant of Roles: left empty, as the revision before it is.
Pass == Nothing

Roles ==
  [type |-> "create",
   add |-> [role |-> "defaulted", block_at |-> "nullable",
            is_deleted |-> "defaulted", deleted_at |-> "nullable"],
   alter |-> [balance |-> "nullable"],
   drop |-> {}]

\* The column is_blocked, which the upgrade did not add, is dropped as well.
WithoutRoles ==
  [type |-> "drop",
   add |-> Legacy,
   alter |-> [balance |-> "required"],
   drop |-> {"deleted_at", "is_deleted", "block_at", "is_blocked", "role"}]

Revision ==
  << [id |-> "a3edb1bf178e", up |-> Extensions, down |-> WithoutExtensions],
     [id |-> "a877c2460d54", up |-> Nothing, down |-> Nothing],
     [id |-> "9804a5059475", up |-> Roles, down |-> WithoutRoles] >>

Id(n) == IF n = 0 THEN "base" ELSE Revision[n].id
Version == {Id(n) : n \in 0..Len(Revision)}
Newest == Id(Len(Revision))

\* How many revisions the database has had, by its version.
Applied == CHOOSE n \in 0..Len(Revision) : Id(n) = version

-----------------------------------------------------------------------------
(* What PostgreSQL makes of a script *)

Named(script) == DOMAIN script.add \cup DOMAIN script.alter \cup script.drop

\* Mutant of Accepts: NOT NULL as a constraint NOT VALID, which lets the NULLs
\* that are there be.
NotValid(db, script) ==
  /\ script.type = "create" => ~db.type
  /\ script.type = "drop" => db.type
  /\ Named(script) # {} =>
       /\ db.table # NoTable
       /\ DOMAIN script.add \cap DOMAIN db.table = {}
       /\ DOMAIN script.alter \cup script.drop \subseteq DOMAIN db.table

\* Columns added must not be there, columns altered or dropped must, and a
\* column with a NULL cannot be made required.
Accepts(db, script) ==
  /\ script.type = "create" => ~db.type
  /\ script.type = "drop" => db.type
  /\ Named(script) # {} =>
       /\ db.table # NoTable
       /\ DOMAIN script.add \cap DOMAIN db.table = {}
       /\ DOMAIN script.alter \cup script.drop \subseteq DOMAIN db.table
  /\ nulls => \A c \in DOMAIN script.alter : script.alter[c] = "nullable"

\* The table t, in which a script names columns, after it.
Changed(t, script) ==
  [c \in (DOMAIN t \cup DOMAIN script.add) \ script.drop |->
    IF c \in DOMAIN script.add THEN script.add[c]
    ELSE IF c \in DOMAIN script.alter THEN script.alter[c]
    ELSE t[c]]

Run(db, script) ==
  IF db.ok /\ Accepts(db, script)
  THEN [table |-> IF Named(script) = {} THEN db.table
                  ELSE Changed(db.table, script),
        type |-> IF script.type = "keep" THEN db.type
                 ELSE script.type = "create",
        ok |-> TRUE]
  ELSE [db EXCEPT !.ok = FALSE]

Here == [table |-> table, type |-> roleType, ok |-> TRUE]

\* The database after the revisions that it has not had.
Upgraded ==
  LET after[n \in 0..Len(Revision)] ==
        IF n <= Applied THEN Here ELSE Run(after[n - 1], Revision[n].up)
  IN  after[Len(Revision)]

\* The database after the last revision it has had is taken back.
Downgraded == Run(Here, Revision[Applied].down)

\* Mutant of Transaction: what comes before a failure is kept, and the newest
\* revision stamped.
Piecemeal(db, to) ==
  table' = db.table /\ roleType' = db.type /\ version' = to

\* env.py: one transaction for the scripts and for the stamp of the revision.
Transaction(db, to) ==
  IF db.ok
  THEN table' = db.table /\ roleType' = db.type /\ version' = to
  ELSE UNCHANGED <<table, roleType, version>>

NoOutcome == [command |-> "none", ok |-> TRUE]
Ends(command, ok) == outcome' = [command |-> command, ok |-> ok]

-----------------------------------------------------------------------------
(* A process: lifespan *)

\* A database that older code left, without alembic, or an empty one.
Init ==
  /\ table \in {Legacy, NoTable}
  /\ roleType = FALSE
  /\ nulls = FALSE
  /\ version = "base"
  /\ phase = [p \in Proc |-> "down"]
  /\ missing = [p \in Proc |-> {}]
  /\ resetting = FALSE
  /\ outcome = NoOutcome
  /\ created = FALSE
  /\ downgraded = FALSE

Moves(p, from, to) ==
  /\ phase[p] = from
  /\ phase' = [phase EXCEPT ![p] = to]
  /\ outcome' = NoOutcome
  /\ UNCHANGED <<nulls, version, resetting, downgraded>>

\* create_all asks the catalogue what there is.
Look(p) ==
  /\ Moves(p, "down", "create")
  /\ missing' = [missing EXCEPT ![p] =
                  (IF table = NoTable THEN {"table"} ELSE {})
                    \cup (IF roleType THEN {} ELSE {"type"})]
  /\ UNCHANGED <<table, roleType, created>>

\* ... and creates what was missing, in the transaction of engine.begin.
CreateAll(p) ==
  /\ Moves(p, "create", "connect")
  /\ "table" \in missing[p] => table = NoTable
  /\ "type" \in missing[p] => ~roleType
  /\ "table" \in missing[p] => "type" \in missing[p] \/ roleType
  /\ table' = IF "table" \in missing[p] THEN Model ELSE table
  /\ roleType' = (roleType \/ "type" \in missing[p])
  /\ created' = (created \/ missing[p] # {})
  /\ missing' = [missing EXCEPT ![p] = {}]

\* RedisClient.connect has had its answer to the PING.
Connect(p) ==
  /\ Moves(p, "connect", "ready")
  /\ UNCHANGED <<table, roleType, created, missing>>

\* Mutant of FailStart: the exception of the start-up is logged, not raised.
StartAnyway(p) ==
  /\ phase[p] \in {"create", "connect"}
  /\ Moves(p, phase[p], "ready")
  /\ missing' = [missing EXCEPT ![p] = {}]
  /\ UNCHANGED <<table, roleType, created>>

\* PostgreSQL or Redis fails, or somebody else has created the type or the
\* table first: the transaction is rolled back and the exception ends the start.
FailStart(p) ==
  /\ phase[p] \in {"create", "connect"}
  /\ Moves(p, phase[p], "down")
  /\ missing' = [missing EXCEPT ![p] = {}]
  /\ UNCHANGED <<table, roleType, created>>

\* Shutdown, Redis before the database, or the death of the process.
Stop(p) ==
  /\ Moves(p, "ready", "down")
  /\ UNCHANGED <<table, roleType, created, missing>>

-----------------------------------------------------------------------------
(* An operator: manage.py and alembic, one command at a time *)

\* An admin is made by hand, with the balance None that models.py reserves.
MakeAdmin ==
  /\ table # NoTable
  /\ "balance" \in DOMAIN table
  /\ table["balance"] = "nullable"
  /\ ~nulls
  /\ nulls' = TRUE
  /\ outcome' = NoOutcome
  /\ UNCHANGED <<table, roleType, version, processes, resetting, history>>

\* manage.py migrate, or the second half of reset: alembic upgrade head.
Migrate ==
  /\ Transaction(Upgraded, Newest)
  /\ Ends(IF resetting THEN "reset" ELSE "migrate", Upgraded.ok)
  /\ resetting' = FALSE
  /\ UNCHANGED <<nulls, processes, history>>

\* drop_all of Base.metadata.  No table is in it: manage.py imports Base, but not
\* app.db.models, which env.py imports only when migrate runs.
DropAll == UNCHANGED <<database, version>>

\* manage.py drop, confirmed.  One that was declined is left out.
DropCommand ==
  /\ ~resetting
  /\ DropAll
  /\ Ends("drop", TRUE)
  /\ UNCHANGED <<processes, resetting, history>>

\* reset calls drop, and goes on to migrate whether that was confirmed or not.
Reset ==
  /\ ~resetting
  /\ DropAll
  /\ resetting' = TRUE
  /\ outcome' = NoOutcome
  /\ UNCHANGED <<processes, history>>

\* The operator, or the connection, ends a reset between its halves.
Interrupt ==
  /\ resetting
  /\ resetting' = FALSE
  /\ outcome' = NoOutcome
  /\ UNCHANGED <<database, version, processes, history>>

\* Its down_revision.
Parent(n) == Id(n - 1)

\* alembic downgrade -1.
Downgrade ==
  /\ ~resetting
  /\ Applied > 0
  /\ Transaction(Downgraded, Parent(Applied))
  /\ Ends("downgrade", Downgraded.ok)
  /\ nulls' = (nulls /\ "balance" \in DOMAIN table')
  /\ downgraded' = (downgraded \/ Downgraded.ok)
  /\ UNCHANGED <<processes, resetting, created>>

Next ==
  \/ \E p \in Proc :
       Look(p) \/ CreateAll(p) \/ Connect(p) \/ FailStart(p) \/ Stop(p)
  \/ MakeAdmin \/ Migrate \/ DropCommand \/ Reset \/ Interrupt
  \/ Downgrade

Spec == Init /\ [][Next]_vars

-----------------------------------------------------------------------------
(* What should hold *)

\* Every variable has its type, and a column admits the NULLs it holds.
TypeOK ==
  /\ table \in Table \cup {NoTable}
  /\ roleType \in BOOLEAN
  /\ nulls \in BOOLEAN
  /\ nulls => /\ table # NoTable
              /\ "balance" \in DOMAIN table
              /\ table["balance"] = "nullable"
  /\ version \in Version
  /\ phase \in [Proc -> {"down", "create", "connect", "ready"}]
  /\ missing \in [Proc -> SUBSET {"table", "type"}]
  /\ resetting \in BOOLEAN
  /\ outcome \in [command : {"none", "migrate", "drop", "reset", "downgrade"},
                  ok : BOOLEAN]
  /\ created \in BOOLEAN
  /\ downgraded \in BOOLEAN

\* Processes start, commands fail half-way, revisions are taken back and applied
\* again: a database stamped with the newest revision has the table, with the enum
\* and the columns of models.py, where those that may be None there admit NULL, and
\* a registration gives every value it must, but for last_activity_at.  Downgrades
\* cost it is_blocked, which the upgrades after them do not bring back, and nothing
\* else.
HeadFitsModel ==
  version = Newest =>
    /\ table # NoTable /\ roleType
    /\ DOMAIN table = IF downgraded THEN Column \ {"is_blocked"} ELSE Column
    /\ \A c \in DOMAIN table :
         /\ Model[c] = "nullable" => table[c] = "nullable"
         /\ table[c] = "required" => c \in Given \cup {"last_activity_at"}

\* create_all and the revisions do not build one schema between them, in whatever
\* order processes look, create and are overtaken by commands: what create_all has
\* made anything of never passes for migrated, as the enum it leaves makes the
\* last revision fail, and where the revisions have been it finds nothing missing.
OneMaker == created => version # Newest

\* A process whose start-up raced others, and failures, is ready only if there
\* is a table users, whatever command is run beside it.
ReadyHasTable == \A p \in Proc : phase[p] = "ready" => table # NoTable

\* The migrations apply to the database that was there before alembic, and apply
\* again after downgrades: they fail only where there is no table, or where
\* create_all was faster.
LegacyMigrates ==
  outcome.command \in {"migrate", "reset"} /\ ~outcome.ok
    => created \/ table = NoTable

-----------------------------------------------------------------------------
(* What the repository says and the code does not do *)

\* manage.py:45 "Drop all tables (Use with caution!).": when that was confirmed and
\* has ended, the table is gone.
DropDrops == outcome = [command |-> "drop", ok |-> TRUE] => table = NoTable
=============================================================================
