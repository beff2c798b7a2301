-------------------------- MODULE Deployment_proofs --------------------------
(***************************************************************************)
(* The schema and the processes that start on it: the properties of        *)
(* Deployment, proved for any number of processes.                         *)
(*                                                                         *)
(* The history of a database is in its columns.  Known says which columns  *)
(* a table can have at each revision, whatever was created, migrated and   *)
(* downgraded, and who made them; the rest follows a table from one        *)
(* command to the next.                                                    *)
(***************************************************************************)
EXTENDS Deployment, TLAPS

-----------------------------------------------------------------------------
(* The invariant *)

First == "a3edb1bf178e"
Second == "a877c2460d54"
Third == "9804a5059475"

\* What a downgrade from the newest revision leaves.
Plain == {"first_name", "last_name", "balance", "last_activity_at"}
RoleColumns == {"role", "block_at", "is_deleted", "deleted_at"}

\* The tables of each version, and whether create_all had a part in them: it has,
\* if the enum is there and the last revision is not.
Known ==
  \/ table = NoTable /\ version = "base"
  \/ /\ table # NoTable
     /\ \/ DOMAIN table = Column /\ version = "base" /\ created /\ roleType
        \/ DOMAIN table = {} /\ version = "base" /\ (created <=> roleType)
        \/ /\ DOMAIN table = Plain
           /\ version \in {First, Second}
           /\ downgraded
           /\ (created <=> roleType)
        \/ /\ DOMAIN table = IF downgraded THEN Column \ {"is_blocked"} ELSE Column
           /\ version = Third
           /\ roleType
           /\ ~created

\* A column that may be None admits NULL, but for a balance that was downgraded.
Lenient ==
  table # NoTable =>
    \A c \in DOMAIN table :
      Model[c] = "nullable" /\ (c = "balance" => DOMAIN table # Plain)
        => table[c] = "nullable"

\* The columns that may need a value from an INSERT.
Demanded == Given \cup {"last_activity_at"}

Spares(t) ==
  t # NoTable => \A c \in DOMAIN t : t[c] = "required" => c \in Demanded

\* A process that has found the table, or made it, counts on it.
Counts(p) ==
  \/ phase[p] \in {"connect", "ready"}
  \/ phase[p] = "create" /\ "table" \notin missing[p]

Counted == \A p \in Proc : Counts(p) => table # NoTable

\* No downgrade leads back to a database without revisions.
AtBase == version = "base" => ~downgraded

Schema == Known /\ AtBase /\ Lenient /\ Spares(table)
Inv == TypeOK /\ Schema /\ LegacyMigrates /\ Counted
-----------------------------------------------------------------------------
(* Revisions and versions *)

\* The four versions, by the number of revisions that lead there.
LEMMA Ids ==
  /\ Len(Revision) = 3
  /\ Id(0) = "base" /\ Id(1) = First /\ Id(2) = Second /\ Id(3) = Third
  /\ Newest = Third
  /\ Version = {"base", First, Second, Third}
  <1>1. Len(Revision) = 3
    BY DEF Revision
  <1>2. /\ Id(0) = "base" /\ Id(1) = First /\ Id(2) = Second /\ Id(3) = Third
    BY DEF Id, Revision, First, Second, Third
  <1>3. Newest = Third
    BY <1>1, <1>2 DEF Newest
  <1>4. 0..3 = {0, 1, 2, 3}
    OBVIOUS
  <1>5. Version = {"base", First, Second, Third}
    BY <1>1, <1>2, <1>4 DEF Version
  <1> QED
    BY <1>1, <1>2, <1>3, <1>5

\* A version tells how many revisions were applied.
LEMMA AppliedCounts ==
  ASSUME version \in Version
  PROVE  /\ Applied \in 0..3
         /\ Id(Applied) = version
         /\ version = "base" <=> Applied = 0
         /\ version = First <=> Applied = 1
         /\ version = Second <=> Applied = 2
         /\ version = Third <=> Applied = 3
  <1>1. \E n \in 0..Len(Revision) : Id(n) = version
    BY DEF Version
  <1>2. Applied \in 0..3 /\ Id(Applied) = version
    BY <1>1, Ids DEF Applied
  <1>3. Applied \in {0, 1, 2, 3}
    BY <1>2
  <1> QED
    BY <1>2, <1>3, Ids DEF First, Second, Third

-----------------------------------------------------------------------------
(* Scripts *)

\* A schema in the middle of a transaction.
Database == [table : Table \cup {NoTable}, type : BOOLEAN, ok : BOOLEAN]

\* A table is a function from some of the columns.
LEMMA Tables ==
  /\ \A t : t \in Table <=> \E cols \in SUBSET Column : t \in [cols -> Kind]
  /\ \A t \in Table : DOMAIN t \subseteq Column /\ t \in [DOMAIN t -> Kind]
  <1>1. \A t : t \in Table <=> \E cols \in SUBSET Column : t \in [cols -> Kind]
    BY DEF Table
  <1> QED
    BY <1>1

\* The columns of the model.
LEMMA Columns ==
  /\ Column = {"first_name", "last_name", "balance", "role", "is_blocked",
               "block_at", "is_deleted", "deleted_at", "last_activity_at"}
  /\ Model \in [Column -> Kind]
  /\ Model \in Table
  <1>1. Column = {"first_name", "last_name", "balance", "role", "is_blocked",
               "block_at", "is_deleted", "deleted_at", "last_activity_at"}
    BY DEF Column, Model
  <1>2. Model \in [Column -> Kind]
    BY <1>1 DEF Model, Kind
  <1> QED
    BY <1>1, <1>2, Tables

\* An upgrade is at most three runs, one after the other.
LEMMA UpgradeRuns ==
  ASSUME version \in Version
  PROVE  /\ Applied = 3 => Upgraded = Here
         /\ Applied = 2 => Upgraded = Run(Here, Roles)
         /\ Applied = 1 => Upgraded = Run(Run(Here, Nothing), Roles)
         /\ Applied = 0 =>
              Upgraded = Run(Run(Run(Here, Extensions), Nothing), Roles)
  <1> DEFINE Stage(after, n) ==
        IF n <= Applied THEN Here ELSE Run(after[n - 1], Revision[n].up)
      After(f) == f = [n \in 0..Len(Revision) |-> Stage(f, n)]
      s0 == Here
      s1 == IF 1 <= Applied THEN Here ELSE Run(s0, Revision[1].up)
      s2 == IF 2 <= Applied THEN Here ELSE Run(s1, Revision[2].up)
      s3 == IF 3 <= Applied THEN Here ELSE Run(s2, Revision[3].up)
      g == [n \in 0..3 |-> IF n = 0 THEN s0 ELSE IF n = 1 THEN s1
                            ELSE IF n = 2 THEN s2 ELSE s3]
  <1>1. Applied \in 0..3 /\ Len(Revision) = 3
    BY AppliedCounts, Ids
  <1>2. g[0] = s0 /\ g[1] = s1 /\ g[2] = s2 /\ g[3] = s3
    <2> HIDE DEF s0, s1, s2, s3
    <2> QED OBVIOUS
  <1>3. ASSUME NEW n \in 0..3  PROVE g[n] = Stage(g, n)
    <2> HIDE DEF g
    <2>1. CASE n = 0  BY <1>1, <1>2, <2>1
    <2>2. CASE n = 1  BY <1>1, <1>2, <2>2
    <2>3. CASE n = 2  BY <1>1, <1>2, <2>3
    <2>4. CASE n = 3  BY <1>1, <1>2, <2>4
    <2> QED  BY <2>1, <2>2, <2>3, <2>4
  <1>4. After(g)
    <2>1. g = [n \in 0..3 |-> g[n]]
      OBVIOUS
    <2> HIDE DEF g, Stage
    <2>2. [n \in 0..3 |-> g[n]] = [n \in 0..3 |-> Stage(g, n)]
      BY <1>3
    <2> QED  BY <1>1, <2>1, <2>2
  <1> DEFINE after == CHOOSE f : After(f)
  <1>5. After(after)
    <2> HIDE DEF After
    <2> QED  BY <1>4
  <1>6. Upgraded = after[3]
    BY <1>1 DEF Upgraded
  <1>7. after[0] = s0 /\ after[1] = s1 /\ after[2] = s2 /\ after[3] = s3
    <2> HIDE DEF after
    <2>1. \A n \in 0..3 : after[n] = Stage(after, n)
      BY <1>1, <1>5
    <2>2. after[0] = s0  BY <1>1, <2>1
    <2>3. after[1] = s1  BY <1>1, <2>1, <2>2
    <2>4. after[2] = s2  BY <1>1, <2>1, <2>3
    <2>5. after[3] = s3  BY <1>1, <2>1, <2>4
    <2> QED  BY <2>2, <2>3, <2>4, <2>5
  <1>8. /\ Revision[1].up = Extensions
        /\ Revision[2].up = Nothing
        /\ Revision[3].up = Roles
    BY DEF Revision
  <1> HIDE DEF after
  <1>9. Upgraded = s3
    BY <1>6, <1>7
  <1> QED
    BY <1>1, <1>8, <1>9

\* The revisions and their scripts.
LEMMA Scripts ==
  /\ Revision[1].up = Extensions /\ Revision[1].down = WithoutExtensions
  /\ Revision[2].up = Nothing /\ Revision[2].down = Nothing
  /\ Revision[3].up = Roles /\ Revision[3].down = WithoutRoles
  BY DEF Revision

\* Nothing is accepted everywhere and changes nothing.
LEMMA NothingKeeps ==
  ASSUME NEW db \in Database
  PROVE  Run(db, Nothing) = db
  <1>1. Named(Nothing) = {}
    BY DEF Named, Nothing, Legacy
  <1>2. Accepts(db, Nothing)
    BY <1>1 DEF Accepts, Nothing, Legacy
  <1> QED
    BY <1>1, <1>2 DEF Run, Nothing, Database

\* What a script of revisions has: columns of the model, and their kinds, those
\* required among the few that may be.
IsScript(script) ==
  /\ DOMAIN script.add \subseteq Column
  /\ \A c \in DOMAIN script.add :
       script.add[c] \in Kind /\ (script.add[c] = "required" => c \in Demanded)
  /\ \A c \in DOMAIN script.alter :
       script.alter[c] \in Kind /\ (script.alter[c] = "required" => c \in Demanded)
  /\ Named(script) # {}

\* A table after a script is a table, and no script makes or unmakes one.
LEMMA ChangedTable ==
  ASSUME NEW t \in Table, NEW script, IsScript(script)
  PROVE  /\ Changed(t, script) \in Table
         /\ Changed(t, script) # NoTable
         /\ DOMAIN Changed(t, script)
              = (DOMAIN t \cup DOMAIN script.add) \ script.drop
         /\ \A c \in DOMAIN Changed(t, script) :
              Changed(t, script)[c] = IF c \in DOMAIN script.add THEN script.add[c]
                                      ELSE IF c \in DOMAIN script.alter
                                           THEN script.alter[c]
                                           ELSE t[c]
  <1> DEFINE cols == (DOMAIN t \cup DOMAIN script.add) \ script.drop
             kind(c) == IF c \in DOMAIN script.add THEN script.add[c]
                        ELSE IF c \in DOMAIN script.alter THEN script.alter[c]
                        ELSE t[c]
  <1>1. Changed(t, script) = [c \in cols |-> kind(c)]
    BY DEF Changed
  <1>2. cols \in SUBSET Column
    BY Tables DEF IsScript
  <1>3. ASSUME NEW c \in cols  PROVE kind(c) \in Kind
    BY Tables DEF IsScript
  <1> HIDE DEF cols, kind
  <1>4. Changed(t, script) \in [cols -> Kind]
    BY <1>1, <1>3
  <1>5. Changed(t, script) \in Table
    BY <1>2, <1>4, Tables
  <1> USE DEF cols, kind
  <1> QED
    BY <1>1, <1>5, TableAssumption

\* A run that is not rolled back: the script was accepted.
LEMMA RunOk ==
  ASSUME NEW db \in Database, NEW script, IsScript(script), Run(db, script).ok
  PROVE  /\ db.ok
         /\ db.table \in Table
         /\ Accepts(db, script)
         /\ Run(db, script).table = Changed(db.table, script)
         /\ Run(db, script).type
              = IF script.type = "keep" THEN db.type ELSE script.type = "create"
  <1>1. db.ok /\ Accepts(db, script)
    BY DEF Run, Database
  <1>2. db.table \in Table
    BY <1>1 DEF Accepts, IsScript, Database
  <1> QED
    BY <1>1, <1>2 DEF Run, IsScript

\* A run ends in a database, and fails if it was to start from a failure.
LEMMA RunTypes ==
  ASSUME NEW db \in Database, NEW script, IsScript(script)
  PROVE  Run(db, script) \in Database
  <1>1. CASE db.ok /\ Accepts(db, script)
    <2>1. db.table \in Table
      BY <1>1 DEF Accepts, IsScript, Database
    <2>2. Changed(db.table, script) \in Table
      BY <2>1, ChangedTable
    <2> QED
      BY <1>1, <2>2 DEF Run, IsScript, Database
  <1>2. CASE ~(db.ok /\ Accepts(db, script))
    BY <1>2 DEF Run, Database
  <1> QED
    BY <1>1, <1>2

\* No run of a script requires a value that an INSERT might not give.
LEMMA RunSpares ==
  ASSUME NEW db \in Database, NEW script, IsScript(script), Spares(db.table)
  PROVE  Spares(Run(db, script).table)
  <1>1. CASE db.ok /\ Accepts(db, script)
    <2>1. db.table \in Table /\ db.table # NoTable
      BY <1>1 DEF Accepts, IsScript, Database
    <2>2. Run(db, script).table = Changed(db.table, script)
      BY <1>1 DEF Run, IsScript
    <2> DEFINE t == Changed(db.table, script)
    <2>3. /\ DOMAIN t = (DOMAIN db.table \cup DOMAIN script.add) \ script.drop
          /\ \A c \in DOMAIN t :
               t[c] = IF c \in DOMAIN script.add THEN script.add[c]
                      ELSE IF c \in DOMAIN script.alter THEN script.alter[c]
                           ELSE db.table[c]
      <3> HIDE DEF t
      <3> QED  BY <2>1, ChangedTable DEF t
    <2> HIDE DEF t
    <2>4. ASSUME NEW c \in DOMAIN t, t[c] = "required"
          PROVE  c \in Demanded
      BY <2>1, <2>3, <2>4 DEF IsScript, Spares
    <2> QED
      BY <2>2, <2>4 DEF Spares, t
  <1>2. CASE ~(db.ok /\ Accepts(db, script))
    BY <1>2 DEF Run, Database
  <1> QED
    BY <1>1, <1>2

\* The scripts of the revisions, but for the empty ones, are such scripts.
LEMMA AreScripts ==
  /\ IsScript(Extensions) /\ IsScript(WithoutExtensions)
  /\ IsScript(Roles) /\ IsScript(WithoutRoles)
  <1>1. IsScript(Extensions)
    BY Columns DEF IsScript, Extensions, Nothing, Named, Legacy, Kind,
                   Demanded, Given
  <1>2. IsScript(WithoutExtensions)
    BY DEF IsScript, WithoutExtensions, Nothing, Named, Legacy
  <1>3. IsScript(Roles)
    BY Columns DEF IsScript, Roles, Named, Kind, Demanded, Given
  <1>4. IsScript(WithoutRoles)
    BY DEF IsScript, WithoutRoles, Named, Legacy, Kind, Demanded, Given
  <1> QED
    BY <1>1, <1>2, <1>3, <1>4

-----------------------------------------------------------------------------
(* Commands *)

\* What there is, is a database.
LEMMA HereIs ==
  ASSUME TypeOK
  PROVE  /\ Here \in Database
         /\ Here.table = table /\ Here.type = roleType /\ Here.ok
  BY DEF TypeOK, Here, Database

\* An upgrade and a downgrade end in a database, and require no more than a
\* registration gives, but for last_activity_at.
LEMMA UpgradedIs ==
  ASSUME TypeOK, Spares(table)
  PROVE  Upgraded \in Database /\ Spares(Upgraded.table)
  <1> DEFINE d == Run(Here, Extensions)
  <1>1. version \in Version
    BY DEF TypeOK
  <1>2. Here \in Database /\ Spares(Here.table)
    BY HereIs
  <1>3. d \in Database /\ Spares(d.table)
    BY <1>2, RunTypes, RunSpares, AreScripts
  <1>4. Run(Here, Nothing) = Here /\ Run(d, Nothing) = d
    BY <1>2, <1>3, NothingKeeps
  <1>5. Run(Here, Roles) \in Database /\ Spares(Run(Here, Roles).table)
    BY <1>2, RunTypes, RunSpares, AreScripts
  <1>6. Run(d, Roles) \in Database /\ Spares(Run(d, Roles).table)
    <2> HIDE DEF d
    <2> QED  BY <1>3, RunTypes, RunSpares, AreScripts
  <1>7. Applied \in {0, 1, 2, 3}
    BY <1>1, AppliedCounts
  <1> QED
    BY <1>1, <1>2, <1>4, <1>5, <1>6, <1>7, UpgradeRuns

LEMMA DowngradedIs ==
  ASSUME TypeOK, Spares(table), Applied \in {1, 2, 3}
  PROVE  Downgraded \in Database /\ Spares(Downgraded.table)
  <1>1. Here \in Database /\ Spares(Here.table)
    BY HereIs
  <1>2. CASE Applied = 1
    BY <1>1, <1>2, Scripts, RunTypes, RunSpares, AreScripts DEF Downgraded
  <1>3. CASE Applied = 2
    BY <1>1, <1>3, Scripts, NothingKeeps DEF Downgraded
  <1>4. CASE Applied = 3
    BY <1>1, <1>4, Scripts, RunTypes, RunSpares, AreScripts DEF Downgraded
  <1> QED
    BY <1>2, <1>3, <1>4

\* The revision of roles, where it goes through: the type was not there, the
\* balance was, and none of the columns of roles.
LEMMA RolesRun ==
  ASSUME NEW db \in Database, Run(db, Roles).ok
  PROVE  LET t == Run(db, Roles).table IN
         /\ db.ok /\ db.table \in Table /\ ~db.type
         /\ "balance" \in DOMAIN db.table
         /\ DOMAIN db.table \cap RoleColumns = {}
         /\ Run(db, Roles).type
         /\ t \in Table
         /\ DOMAIN t = DOMAIN db.table \cup RoleColumns
         /\ t["balance"] = "nullable"
         /\ t["block_at"] = "nullable" /\ t["deleted_at"] = "nullable"
         /\ \A c \in DOMAIN db.table \ {"balance"} : t[c] = db.table[c]
  <1>1. IsScript(Roles)
    BY AreScripts
  <1>2. /\ db.ok /\ db.table \in Table /\ Accepts(db, Roles)
        /\ Run(db, Roles).table = Changed(db.table, Roles)
        /\ Run(db, Roles).type = IF Roles.type = "keep" THEN db.type
                                ELSE Roles.type = "create"
    BY <1>1, RunOk
  <1>3. /\ Roles.type = "create"
        /\ DOMAIN Roles.add = RoleColumns
        /\ Roles.add["block_at"] = "nullable"
        /\ Roles.add["deleted_at"] = "nullable"
        /\ DOMAIN Roles.alter = {"balance"}
        /\ Roles.alter["balance"] = "nullable"
        /\ Roles.drop = {}
    BY DEF Roles, RoleColumns
  <1>4. Named(Roles) # {}
    BY <1>1 DEF IsScript
  <1>5. /\ ~db.type
        /\ DOMAIN db.table \cap RoleColumns = {}
        /\ "balance" \in DOMAIN db.table
    BY <1>2, <1>3, <1>4 DEF Accepts
  <1> DEFINE t == Changed(db.table, Roles)
  <1>6. /\ t \in Table
        /\ DOMAIN t = (DOMAIN db.table \cup DOMAIN Roles.add) \ Roles.drop
        /\ \A c \in DOMAIN t :
             t[c] = IF c \in DOMAIN Roles.add THEN Roles.add[c]
                    ELSE IF c \in DOMAIN Roles.alter THEN Roles.alter[c]
                         ELSE db.table[c]
    <2> HIDE DEF t
    <2> QED  BY <1>1, <1>2, ChangedTable DEF t
  <1> HIDE DEF t
  <1>7. DOMAIN t = DOMAIN db.table \cup RoleColumns
    BY <1>3, <1>6
  <1>8. /\ t["block_at"] = "nullable" /\ t["deleted_at"] = "nullable"
        /\ t["balance"] = "nullable"
    BY <1>3, <1>5, <1>6, <1>7 DEF RoleColumns
  <1>9. \A c \in DOMAIN db.table \ {"balance"} : t[c] = db.table[c]
    BY <1>3, <1>5, <1>6, <1>7
  <1>10. Run(db, Roles).table = t /\ Run(db, Roles).type
    BY <1>2, <1>3 DEF t
  <1> QED
    BY <1>2, <1>5, <1>6, <1>7, <1>8, <1>9, <1>10

\* The revision of extensions, where it goes through.
LEMMA ExtensionsRun ==
  ASSUME NEW db \in Database, Run(db, Extensions).ok
  PROVE  LET t == Run(db, Extensions).table IN
         /\ db.ok /\ db.table \in Table
         /\ DOMAIN db.table \cap (Plain \cup {"is_blocked"}) = {}
         /\ Run(db, Extensions).type = db.type
         /\ t \in Table
         /\ DOMAIN t = DOMAIN db.table \cup Plain \cup {"is_blocked"}
         /\ t["first_name"] = "nullable" /\ t["last_name"] = "nullable"
         /\ \A c \in DOMAIN db.table : t[c] = db.table[c]
  <1>1. IsScript(Extensions)
    BY AreScripts
  <1>2. /\ db.ok /\ db.table \in Table /\ Accepts(db, Extensions)
        /\ Run(db, Extensions).table = Changed(db.table, Extensions)
        /\ Run(db, Extensions).type = IF Extensions.type = "keep" THEN db.type
                                     ELSE Extensions.type = "create"
    BY <1>1, RunOk
  <1>3. /\ Extensions.type = "keep"
        /\ DOMAIN Extensions.add = Plain \cup {"is_blocked"}
        /\ Extensions.add["first_name"] = "nullable"
        /\ Extensions.add["last_name"] = "nullable"
        /\ DOMAIN Extensions.alter = {}
        /\ Extensions.drop = {}
    BY DEF Extensions, Plain, Nothing, Legacy
  <1>4. Named(Extensions) # {}
    BY <1>1 DEF IsScript
  <1>5. DOMAIN db.table \cap (Plain \cup {"is_blocked"}) = {}
    BY <1>2, <1>3, <1>4 DEF Accepts
  <1> DEFINE t == Changed(db.table, Extensions)
  <1>6. /\ t \in Table
        /\ DOMAIN t = (DOMAIN db.table \cup DOMAIN Extensions.add) \ Extensions.drop
        /\ \A c \in DOMAIN t :
             t[c] = IF c \in DOMAIN Extensions.add THEN Extensions.add[c]
                    ELSE IF c \in DOMAIN Extensions.alter THEN Extensions.alter[c]
                         ELSE db.table[c]
    <2> HIDE DEF t
    <2> QED  BY <1>1, <1>2, ChangedTable DEF t
  <1> HIDE DEF t
  <1>7. DOMAIN t = DOMAIN db.table \cup Plain \cup {"is_blocked"}
    BY <1>3, <1>6
  <1>8. t["first_name"] = "nullable" /\ t["last_name"] = "nullable"
    BY <1>3, <1>6, <1>7 DEF Plain
  <1>9. \A c \in DOMAIN db.table : t[c] = db.table[c]
    BY <1>3, <1>5, <1>6, <1>7
  <1>10. Run(db, Extensions).table = t /\ Run(db, Extensions).type = db.type
    BY <1>2, <1>3 DEF t
  <1> QED
    BY <1>2, <1>5, <1>6, <1>7, <1>8, <1>9, <1>10

\* An upgrade that goes through finds the database at the newest revision, or the
\* table of before alembic, or one whose roles were downgraded, and nothing that
\* create_all made; the table that it leaves admits the NULLs that models.py does.
LEMMA UpgradeOk ==
  ASSUME TypeOK, Schema, Upgraded.ok
  PROVE  \/ version = Third /\ Upgraded = Here
         \/ /\ version # Third
            /\ table # NoTable
            /\ ~created
            /\ Upgraded.table \in Table
            /\ Upgraded.type
            /\ DOMAIN Upgraded.table = IF downgraded THEN Column \ {"is_blocked"}
                                       ELSE Column
            /\ \A c \in DOMAIN Upgraded.table :
                 Model[c] = "nullable" => Upgraded.table[c] = "nullable"
  <1>1. version \in Version
    BY DEF TypeOK
  <1>2. /\ Here \in Database
        /\ Here.table = table /\ Here.type = roleType /\ Here.ok
    BY HereIs
  <1>3. \A c \in Column : Model[c] = "nullable" <=>
          c \in {"first_name", "last_name", "balance", "block_at", "deleted_at"}
    BY Columns DEF Model
  <1>4. CASE Applied = 3
    BY <1>1, <1>4, AppliedCounts, UpgradeRuns
  <1>5. CASE Applied \in {1, 2}
    <2>1. Upgraded = Run(Here, Roles)
      BY <1>1, <1>2, <1>5, UpgradeRuns, NothingKeeps
    <2>2. version \in {First, Second} /\ version # Third /\ version # "base"
      BY <1>1, <1>5, AppliedCounts
    <2>3. /\ table \in Table /\ table # NoTable /\ ~roleType
          /\ "balance" \in DOMAIN table
      BY <1>2, <2>1, RolesRun, TableAssumption
    <2>4. DOMAIN table = Plain /\ downgraded /\ ~created
      BY <2>2, <2>3 DEF Schema, Known
    <2>5. DOMAIN Upgraded.table = Plain \cup RoleColumns
      BY <1>2, <2>1, <2>4, RolesRun
    <2>6. DOMAIN Upgraded.table = Column \ {"is_blocked"}
      BY <2>5, Columns DEF Plain, RoleColumns
    <2>7. table["first_name"] = "nullable" /\ table["last_name"] = "nullable"
      BY <2>3, <2>4, <1>3, Columns DEF Schema, Lenient, Plain
    <2>8. /\ Upgraded.table["first_name"] = "nullable"
          /\ Upgraded.table["last_name"] = "nullable"
          /\ Upgraded.table["balance"] = "nullable"
          /\ Upgraded.table["block_at"] = "nullable"
          /\ Upgraded.table["deleted_at"] = "nullable"
      BY <1>2, <2>1, <2>4, <2>7, RolesRun DEF Plain
    <2>9. Upgraded.table \in Table /\ Upgraded.type
      BY <1>2, <2>1, RolesRun
    <2> QED
      BY <1>3, <2>2, <2>3, <2>4, <2>6, <2>8, <2>9
  <1>6. CASE Applied = 0
    <2> DEFINE d == Run(Here, Extensions)
    <2>1. d \in Database
      BY <1>2, RunTypes, AreScripts
    <2>2. Upgraded = Run(d, Roles)
      BY <1>1, <1>6, <2>1, UpgradeRuns, NothingKeeps
    <2>3. /\ d.ok /\ ~d.type
          /\ DOMAIN d.table \cap RoleColumns = {}
      BY <2>1, <2>2, RolesRun
    <2>4. /\ table \in Table /\ ~roleType
          /\ DOMAIN d.table = DOMAIN table \cup Plain \cup {"is_blocked"}
          /\ DOMAIN table \cap (Plain \cup {"is_blocked"}) = {}
          /\ d.table["first_name"] = "nullable"
          /\ d.table["last_name"] = "nullable"
      BY <1>2, <2>3, ExtensionsRun
    <2>5. DOMAIN table = {}
      <3>1. DOMAIN table \subseteq Column
        BY <2>4, Tables
      <3> QED
        BY <2>3, <2>4, <3>1, Columns DEF Plain, RoleColumns
    <2>6. version = "base" /\ version # Third /\ table # NoTable
      BY <1>1, <1>6, <2>4, AppliedCounts, TableAssumption
    <2>11. ~created /\ ~downgraded
      <3>1. Column # {} /\ Plain # {}
        BY Columns DEF Plain
      <3>2. ~created
        BY <2>4, <2>5, <2>6, <3>1 DEF Schema, Known, First, Second, Third
      <3> QED
        BY <2>6, <3>2 DEF Schema, AtBase
    <2> HIDE DEF d
    <2>7. DOMAIN Upgraded.table = Plain \cup {"is_blocked"} \cup RoleColumns
      BY <2>1, <2>2, <2>4, <2>5, RolesRun
    <2>8. DOMAIN Upgraded.table = Column
      BY <2>7, Columns DEF Plain, RoleColumns
    <2>9. /\ Upgraded.table["first_name"] = "nullable"
          /\ Upgraded.table["last_name"] = "nullable"
          /\ Upgraded.table["balance"] = "nullable"
          /\ Upgraded.table["block_at"] = "nullable"
          /\ Upgraded.table["deleted_at"] = "nullable"
      BY <2>1, <2>2, <2>4, RolesRun DEF Plain
    <2>10. Upgraded.table \in Table /\ Upgraded.type
      BY <2>1, <2>2, RolesRun
    <2> QED
      BY <1>3, <2>6, <2>8, <2>9, <2>10, <2>11
  <1> QED
    BY <1>1, <1>4, <1>5, <1>6, AppliedCounts

\* The way back from the roles: a table that had all columns is left plain.
LEMMA RolesBack ==
  ASSUME TypeOK, Schema, version = Third, Run(Here, WithoutRoles).ok
  PROVE  LET d == Run(Here, WithoutRoles) IN
         /\ table # NoTable /\ ~nulls /\ ~created
         /\ d.table \in Table /\ ~d.type
         /\ DOMAIN d.table = Plain
         /\ d.table["first_name"] = "nullable"
         /\ d.table["last_name"] = "nullable"
  <1>1. IsScript(WithoutRoles)
    BY AreScripts
  <1>2. /\ Here \in Database
        /\ Here.table = table /\ Here.type = roleType
    BY HereIs
  <1>3. /\ table \in Table /\ Accepts(Here, WithoutRoles)
        /\ Run(Here, WithoutRoles).table = Changed(table, WithoutRoles)
        /\ Run(Here, WithoutRoles).type
             = IF WithoutRoles.type = "keep" THEN roleType
               ELSE WithoutRoles.type = "create"
    BY <1>1, <1>2, RunOk
  <1>4. /\ WithoutRoles.type = "drop"
        /\ DOMAIN WithoutRoles.add = {}
        /\ DOMAIN WithoutRoles.alter = {"balance"}
        /\ WithoutRoles.alter["balance"] = "required"
        /\ WithoutRoles.drop = RoleColumns \cup {"is_blocked"}
    BY DEF WithoutRoles, Legacy, RoleColumns
  <1>5. Named(WithoutRoles) # {}
    BY <1>1 DEF IsScript
  <1>6. /\ RoleColumns \cup {"is_blocked"} \subseteq DOMAIN table
        /\ ~nulls
    BY <1>2, <1>3, <1>4, <1>5 DEF Accepts
  <1>7. table # NoTable
    BY <1>3, TableAssumption
  <1>8. version # "base" /\ version \notin {First, Second}
    BY DEF First, Second, Third
  <1>9. DOMAIN table = Column /\ ~created
    BY <1>6, <1>7, <1>8 DEF Schema, Known
  <1> DEFINE t == Changed(table, WithoutRoles)
  <1>10. /\ t \in Table
         /\ DOMAIN t = (DOMAIN table \cup DOMAIN WithoutRoles.add)
                         \ WithoutRoles.drop
         /\ \A c \in DOMAIN t :
              t[c] = IF c \in DOMAIN WithoutRoles.add THEN WithoutRoles.add[c]
                     ELSE IF c \in DOMAIN WithoutRoles.alter
                          THEN WithoutRoles.alter[c]
                          ELSE table[c]
    <2> HIDE DEF t
    <2> QED  BY <1>1, <1>3, ChangedTable DEF t
  <1> HIDE DEF t
  <1>11. DOMAIN t = Plain
    BY <1>4, <1>9, <1>10, Columns DEF Plain, RoleColumns
  <1>12. Model["first_name"] = "nullable" /\ Model["last_name"] = "nullable"
    BY DEF Model
  <1>13. table["first_name"] = "nullable" /\ table["last_name"] = "nullable"
    BY <1>7, <1>9, <1>12, Columns DEF Schema, Lenient
  <1>14. t["first_name"] = "nullable" /\ t["last_name"] = "nullable"
    BY <1>4, <1>10, <1>11, <1>13 DEF Plain
  <1>15. Run(Here, WithoutRoles).table = t /\ ~Run(Here, WithoutRoles).type
    BY <1>3, <1>4 DEF t
  <1> QED
    BY <1>6, <1>7, <1>9, <1>10, <1>11, <1>14, <1>15

\* There is no way back from the extensions: it drops is_blocked, which the way back
\* to this revision has dropped before.
LEMMA ExtensionsStay ==
  ASSUME TypeOK, Schema, version = First
  PROVE  ~Run(Here, WithoutExtensions).ok
  <1> SUFFICES ASSUME Run(Here, WithoutExtensions).ok  PROVE FALSE
    OBVIOUS
  <1>1. IsScript(WithoutExtensions)
    BY AreScripts
  <1>2. Here \in Database /\ Here.table = table
    BY HereIs
  <1>3. table \in Table /\ Accepts(Here, WithoutExtensions)
    BY <1>1, <1>2, RunOk
  <1>4. "is_blocked" \in WithoutExtensions.drop
    BY DEF WithoutExtensions
  <1>5. Named(WithoutExtensions) # {}
    BY <1>1 DEF IsScript
  <1>6. "is_blocked" \in DOMAIN table
    BY <1>2, <1>3, <1>4, <1>5 DEF Accepts
  <1>7. table # NoTable
    BY <1>3, TableAssumption
  <1>8. version # "base" /\ version # Third /\ "is_blocked" \notin Plain
    BY DEF First, Third, Plain
  <1> QED
    BY <1>6, <1>7, <1>8 DEF Schema, Known

\* The migrations apply to the database of before alembic, to one that has them, and
\* to one that has had them, unless create_all was faster.
LEMMA UncreatedUpgrades ==
  ASSUME TypeOK, Schema, ~created, table # NoTable
  PROVE  Upgraded.ok
  <1>1. version \in Version
    BY DEF TypeOK
  <1>2. /\ Here \in Database
        /\ Here.table = table /\ Here.type = roleType /\ Here.ok
        /\ table \in Table
    BY HereIs DEF TypeOK
  <1>5. /\ Roles.type = "create"
        /\ DOMAIN Roles.add = RoleColumns
        /\ DOMAIN Roles.alter = {"balance"}
        /\ Roles.alter["balance"] = "nullable"
        /\ Roles.drop = {}
    BY DEF Roles, RoleColumns
  <1>3. CASE version = Third
    BY <1>1, <1>2, <1>3, AppliedCounts, UpgradeRuns
  <1>6. CASE /\ version \in {First, Second}
             /\ DOMAIN table = Plain
             /\ ~roleType
    <2>1. DOMAIN Roles.add \cap DOMAIN table = {}
      BY <1>5, <1>6 DEF Plain, RoleColumns
    <2>2. DOMAIN Roles.alter \cup Roles.drop \subseteq DOMAIN table
      BY <1>5, <1>6 DEF Plain
    <2>3. \A c \in DOMAIN Roles.alter : Roles.alter[c] = "nullable"
      BY <1>5
    <2>4. Accepts(Here, Roles)
      BY <1>2, <1>5, <1>6, <2>1, <2>2, <2>3 DEF Accepts
    <2>5. Run(Here, Roles).ok
      BY <1>2, <2>4 DEF Run
    <2>6. Upgraded = Run(Here, Roles)
      BY <1>1, <1>2, <1>6, AppliedCounts, UpgradeRuns, NothingKeeps
    <2> QED
      BY <2>5, <2>6
  <1>4. CASE /\ version = "base"
             /\ DOMAIN table = {}
             /\ ~roleType
    <2> DEFINE d == Run(Here, Extensions)
    <2>1. ~nulls
      BY <1>4 DEF TypeOK
    <2>2. /\ Extensions.type = "keep"
          /\ DOMAIN Extensions.alter = {}
          /\ Extensions.drop = {}
      BY DEF Extensions, Nothing, Legacy
    <2>3. Accepts(Here, Extensions)
      BY <1>2, <1>4, <2>1, <2>2 DEF Accepts
    <2>4. d.ok
      BY <1>2, <2>3 DEF Run
    <2>5. /\ ~d.type
          /\ DOMAIN d.table = Plain \cup {"is_blocked"}
          /\ d.table \in Table
      BY <1>2, <1>4, <2>4, ExtensionsRun
    <2>6. d \in Database
      BY <1>2, RunTypes, AreScripts
    <2> HIDE DEF d
    <2>8. DOMAIN Roles.add \cap DOMAIN d.table = {}
      BY <1>5, <2>5 DEF Plain, RoleColumns
    <2>9. DOMAIN Roles.alter \cup Roles.drop \subseteq DOMAIN d.table
      BY <1>5, <2>5 DEF Plain
    <2>10. d.table # NoTable
      BY <2>5, TableAssumption
    <2>11. Accepts(d, Roles)
      BY <1>5, <2>1, <2>5, <2>8, <2>9, <2>10 DEF Accepts
    <2>12. Run(d, Roles).ok
      BY <2>4, <2>11 DEF Run
    <2>13. Upgraded = Run(d, Roles)
      BY <1>1, <1>4, <2>6, AppliedCounts, UpgradeRuns, NothingKeeps DEF d
    <2> QED
      BY <2>12, <2>13
  <1> QED
    BY <1>3, <1>4, <1>6 DEF Schema, Known

-----------------------------------------------------------------------------
(* The steps of a process *)

\* What the process finds, stays.
LEMMA LookKeeps ==
  ASSUME Inv, NEW p \in Proc, Look(p)
  PROVE  Inv'
  <1> USE DEF Inv
  <1>1. UNCHANGED <<nulls, version, resetting, downgraded>> /\ outcome' = NoOutcome
    BY DEF Look, Moves
  <1>2. TypeOK'
    BY DEF Look, Moves, TypeOK, NoOutcome
  <1>3. Schema'
    BY DEF Look, Moves, Schema, Known, AtBase, Lenient, Spares
  <1>5. LegacyMigrates'
    BY <1>1 DEF LegacyMigrates, NoOutcome
  <1>6. Counted'
    BY DEF Look, Moves, TypeOK, Counted, Counts
  <1> QED
    BY <1>2, <1>3, <1>5, <1>6

\* A table is made as models.py says, and only where there is none.
LEMMA CreateAllKeeps ==
  ASSUME Inv, NEW p \in Proc, CreateAll(p)
  PROVE  Inv'
  <1> USE DEF Inv
  <1>1. UNCHANGED <<nulls, version, resetting, downgraded>> /\ outcome' = NoOutcome
    BY DEF CreateAll, Moves
  <1>2. TypeOK'
    <2>1. table' \in Table \cup {NoTable}
      BY Columns DEF CreateAll, TypeOK
    <2>2. nulls => table' = table
      BY DEF CreateAll, TypeOK
    <2> QED
      BY <2>1, <2>2 DEF CreateAll, Moves, TypeOK, NoOutcome
  <1>3. Schema'
    <2>1. CASE "table" \in missing[p]
      <3>1. /\ table = NoTable /\ version' = version /\ downgraded' = downgraded
            /\ table' = Model /\ roleType' /\ created'
        BY <1>1, <2>1 DEF CreateAll
      <3>2. DOMAIN Model = Column /\ Model # NoTable
        BY Columns, TableAssumption DEF Column
      <3>3. version = "base"
        BY <3>1 DEF Schema, Known
      <3> QED
        BY <3>1, <3>2, <3>3
        DEF Schema, Known, AtBase, Lenient, Spares, Model, Demanded, Given
    <2>2. CASE missing[p] = {"type"}
      <3>1. /\ table' = table /\ ~roleType /\ roleType' /\ created'
            /\ version' = version /\ downgraded' = downgraded
        BY <1>1, <2>2 DEF CreateAll
      <3> QED
        BY <3>1 DEF Schema, Known, AtBase, Lenient, Spares
    <2>3. CASE missing[p] = {}
      <3>1. UNCHANGED <<table, roleType, created, version, downgraded>>
        BY <1>1, <2>3 DEF CreateAll, TypeOK
      <3> QED
        BY <3>1 DEF Schema, Known, AtBase, Lenient, Spares
    <2> QED
      BY <2>1, <2>2, <2>3 DEF TypeOK
  <1>5. LegacyMigrates'
    BY <1>1 DEF LegacyMigrates, NoOutcome
  <1>6. Counted'
    <2>1. Model # NoTable
      BY Columns, TableAssumption
    <2>2. table # NoTable => table' # NoTable
      BY <2>1 DEF CreateAll
    <2>3. table' # NoTable
      BY <2>1 DEF CreateAll, Moves, Counted, Counts
    <2>4. ASSUME NEW q \in Proc, q # p, Counts(q)'  PROVE Counts(q)
      BY <2>4 DEF CreateAll, Moves, TypeOK, Counts
    <2> QED
      BY <2>2, <2>3, <2>4 DEF CreateAll, Counted
  <1> QED
    BY <1>2, <1>3, <1>5, <1>6

\* Who has created what was missing, goes on with it.
LEMMA ConnectKeeps ==
  ASSUME Inv, NEW p \in Proc, Connect(p)
  PROVE  Inv'
  <1> USE DEF Inv
  <1>1. UNCHANGED <<nulls, version, resetting, downgraded>> /\ outcome' = NoOutcome
    BY DEF Connect, Moves
  <1>2. TypeOK'
    BY DEF Connect, Moves, TypeOK, NoOutcome
  <1>3. Schema'
    BY DEF Connect, Moves, Schema, Known, AtBase, Lenient, Spares
  <1>5. LegacyMigrates'
    BY <1>1 DEF LegacyMigrates, NoOutcome
  <1>6. Counted'
    BY DEF Connect, Moves, TypeOK, Counted, Counts
  <1> QED
    BY <1>2, <1>3, <1>5, <1>6

\* A start that fails counts on nothing.
LEMMA FailStartKeeps ==
  ASSUME Inv, NEW p \in Proc, FailStart(p)
  PROVE  Inv'
  <1> USE DEF Inv
  <1>1. UNCHANGED <<nulls, version, resetting, downgraded>> /\ outcome' = NoOutcome
    BY DEF FailStart, Moves
  <1>2. TypeOK'
    BY DEF FailStart, Moves, TypeOK, NoOutcome
  <1>3. Schema'
    BY DEF FailStart, Moves, Schema, Known, AtBase, Lenient, Spares
  <1>5. LegacyMigrates'
    BY <1>1 DEF LegacyMigrates, NoOutcome
  <1>6. Counted'
    BY DEF FailStart, Moves, TypeOK, Counted, Counts
  <1> QED
    BY <1>2, <1>3, <1>5, <1>6

\* Nor does a process that has ended.
LEMMA StopKeeps ==
  ASSUME Inv, NEW p \in Proc, Stop(p)
  PROVE  Inv'
  <1> USE DEF Inv
  <1>1. UNCHANGED <<nulls, version, resetting, downgraded>> /\ outcome' = NoOutcome
    BY DEF Stop, Moves
  <1>2. TypeOK'
    BY DEF Stop, Moves, TypeOK, NoOutcome
  <1>3. Schema'
    BY DEF Stop, Moves, Schema, Known, AtBase, Lenient, Spares
  <1>5. LegacyMigrates'
    BY <1>1 DEF LegacyMigrates, NoOutcome
  <1>6. Counted'
    BY DEF Stop, Moves, TypeOK, Counted, Counts
  <1> QED
    BY <1>2, <1>3, <1>5, <1>6

-----------------------------------------------------------------------------
(* The steps of an operator *)

\* A balance is made NULL only where it may be.
LEMMA MakeAdminKeeps ==
  ASSUME Inv, MakeAdmin
  PROVE  Inv'
  <1> USE DEF Inv
  <1>1. /\ UNCHANGED <<table, roleType, version, phase, missing, resetting,
                       created, downgraded>>
        /\ outcome' = NoOutcome
    BY DEF MakeAdmin, processes, history
  <1>2. TypeOK'
    BY <1>1 DEF MakeAdmin, TypeOK, NoOutcome
  <1>3. Schema'
    BY <1>1 DEF Schema, Known, AtBase, Lenient, Spares
  <1>4. LegacyMigrates'
    BY <1>1 DEF LegacyMigrates, NoOutcome
  <1>5. Counted'
    BY <1>1 DEF Counted, Counts
  <1> QED
    BY <1>2, <1>3, <1>4, <1>5

\* An upgrade goes through as UpgradeOk says, or changes nothing.
LEMMA MigrateKeeps ==
  ASSUME Inv, Migrate
  PROVE  Inv'
  <1> USE DEF Inv
  <1>1. UNCHANGED <<nulls, phase, missing, created, downgraded>>
    BY DEF Migrate, processes, history
  <1>2. /\ resetting' = FALSE
        /\ outcome' \in [command : {"migrate", "reset"}, ok : BOOLEAN]
        /\ ~outcome'.ok => ~Upgraded.ok
    <2>1. Upgraded.ok \in BOOLEAN
      BY UpgradedIs DEF Schema, Database
    <2> QED
      BY <2>1 DEF Migrate, Ends
  <1>3. \/ UNCHANGED <<table, roleType, version>>
        \/ /\ Upgraded.ok
           /\ table' = Upgraded.table
           /\ roleType' = Upgraded.type
           /\ version' = Third
    BY Ids DEF Migrate, Transaction
  <1>4. \/ UNCHANGED <<table, roleType, version>>
        \/ /\ version' = Third /\ version # Third
           /\ table # NoTable
           /\ ~created
           /\ table' \in Table
           /\ roleType'
           /\ DOMAIN table' = IF downgraded THEN Column \ {"is_blocked"} ELSE Column
           /\ \A c \in DOMAIN table' :
                Model[c] = "nullable" => table'[c] = "nullable"
    BY <1>3, UpgradeOk, HereIs
  <1>5. table # NoTable => table' # NoTable
    BY <1>4, TableAssumption
  <1>6. TypeOK'
    <2>1. version' \in Version /\ table' \in Table \cup {NoTable}
      BY <1>4, Ids DEF TypeOK
    <2>2. roleType' \in BOOLEAN
      BY <1>4, <1>3, HereIs DEF TypeOK
    <2>3. nulls => /\ table' # NoTable
                   /\ "balance" \in DOMAIN table'
                   /\ table'["balance"] = "nullable"
      <3>1. "balance" \in Column \ {"is_blocked"} /\ Model["balance"] = "nullable"
        BY Columns DEF Model
      <3> QED
        BY <1>4, <1>5, <3>1 DEF TypeOK
    <2>4. outcome' \in [command : {"none", "migrate", "drop", "reset", "downgrade"},
                        ok : BOOLEAN]
      BY <1>2
    <2> QED
      BY <1>1, <1>2, <2>1, <2>2, <2>3, <2>4 DEF TypeOK
  <1>7. Schema'
    <2>1. Known'
      BY <1>1, <1>4, TableAssumption DEF Schema, Known
    <2>3. AtBase' /\ Lenient'
      BY <1>1, <1>4 DEF Schema, AtBase, Lenient, Third
    <2>2. Spares(table')
      BY <1>3, UpgradedIs DEF Schema
    <2> QED
      BY <2>1, <2>2, <2>3 DEF Schema, Spares
  <1>9. LegacyMigrates'
    <2>1. ~outcome'.ok => ~Upgraded.ok
      BY <1>2
    <2>2. ~Upgraded.ok => UNCHANGED table
      BY <1>3
    <2> QED
      BY <1>1, <2>1, <2>2, UncreatedUpgrades DEF LegacyMigrates
  <1>10. Counted'
    BY <1>1, <1>5 DEF Counted, Counts
  <1> QED
    BY <1>6, <1>7, <1>9, <1>10

\* Nothing but an outcome and the phase of a reset changes: the invariant stays.
LEMMA NothingDone ==
  ASSUME Inv, UNCHANGED <<database, version, processes, history>>,
         resetting' \in BOOLEAN,
         outcome' = NoOutcome \/ outcome' = [command |-> "drop", ok |-> TRUE]
  PROVE  Inv'
  <1> USE DEF Inv
  <1>1. UNCHANGED <<table, roleType, nulls, version, phase, missing, created,
                    downgraded>>
    BY DEF database, processes, history
  <1>2. outcome' \in [command : {"none", "migrate", "drop", "reset", "downgrade"},
                      ok : BOOLEAN]
    <2>1. CASE outcome' = NoOutcome
      BY <2>1 DEF NoOutcome
    <2>2. CASE outcome' = [command |-> "drop", ok |-> TRUE]
      BY <2>2
    <2> QED
      BY <2>1, <2>2
  <1>3. TypeOK'
    BY <1>1, <1>2 DEF TypeOK
  <1>4. Schema'
    BY <1>1 DEF Schema, Known, AtBase, Lenient, Spares
  <1>5. LegacyMigrates'
    BY DEF LegacyMigrates, NoOutcome
  <1>6. Counted'
    BY <1>1 DEF Counted, Counts
  <1> QED
    BY <1>3, <1>4, <1>5, <1>6

LEMMA DropCommandKeeps ==
  ASSUME Inv, DropCommand
  PROVE  Inv'
  <1>1. resetting' \in BOOLEAN
    BY DEF DropCommand, Inv, TypeOK
  <1> QED
    BY <1>1, NothingDone DEF DropCommand, DropAll, Ends

LEMMA ResetKeeps ==
  ASSUME Inv, Reset
  PROVE  Inv'
  BY NothingDone DEF Reset, DropAll

LEMMA InterruptKeeps ==
  ASSUME Inv, Interrupt
  PROVE  Inv'
  BY NothingDone DEF Interrupt

\* A downgrade goes through from each version in one way, or changes nothing.
LEMMA DowngradeKeeps ==
  ASSUME Inv, Downgrade
  PROVE  Inv'
  <1> USE DEF Inv
  <1>1. /\ UNCHANGED <<phase, missing, resetting, created>>
        /\ downgraded' = (downgraded \/ Downgraded.ok)
        /\ nulls' = (nulls /\ "balance" \in DOMAIN table')
        /\ outcome' = [command |-> "downgrade", ok |-> Downgraded.ok]
        /\ Transaction(Downgraded, Parent(Applied))
    BY DEF Downgrade, processes, Ends
  <1>2. version \in Version /\ Applied \in {1, 2, 3} /\ Id(Applied) = version
    BY AppliedCounts DEF TypeOK, Downgrade
  <1>3. Downgraded \in Database /\ Spares(Downgraded.table)
    BY <1>2, DowngradedIs DEF Schema
  <1>4. \/ UNCHANGED <<table, roleType, version, downgraded>>
        \/ /\ downgraded' = TRUE
           /\ \/ /\ table' = table /\ roleType' = roleType
                 /\ version = Second /\ version' = First
              \/ /\ version' = Second /\ table # NoTable /\ ~nulls /\ ~created
                 /\ table' \in Table /\ ~roleType'
                 /\ DOMAIN table' = Plain
                 /\ table'["first_name"] = "nullable"
                 /\ table'["last_name"] = "nullable"
    <2>1. CASE ~Downgraded.ok
      BY <1>1, <2>1 DEF Transaction, TypeOK
    <2>2. CASE Downgraded.ok
      <3>1. /\ table' = Downgraded.table
            /\ roleType' = Downgraded.type
            /\ version' = Id(Applied - 1)
        BY <1>1, <2>2 DEF Transaction, Parent
      <3>5. downgraded' = TRUE
        BY <1>1, <2>2
      <3>2. Applied # 1
        BY <1>2, <2>2, Ids, Scripts, ExtensionsStay DEF Downgraded
      <3>3. CASE Applied = 2
        <4>1. table' = table /\ roleType' = roleType
          BY <3>1, <3>3, Scripts, NothingKeeps, HereIs DEF Downgraded
        <4>2. version = Second /\ version' = First
          BY <1>2, <3>1, <3>3, Ids
        <4> QED
          BY <3>5, <4>1, <4>2
      <3>4. CASE Applied = 3
        <4>1. version = Third /\ version' = Second
          BY <1>2, <3>1, <3>4, Ids
        <4>2. Downgraded = Run(Here, WithoutRoles)
          BY <3>4, Scripts DEF Downgraded
        <4>3. /\ table # NoTable /\ ~nulls /\ ~created
              /\ table' \in Table /\ ~roleType'
              /\ DOMAIN table' = Plain
              /\ table'["first_name"] = "nullable"
              /\ table'["last_name"] = "nullable"
          BY <2>2, <3>1, <4>1, <4>2, RolesBack
        <4> QED
          BY <3>5, <4>1, <4>3
      <3> QED
        BY <1>2, <3>2, <3>3, <3>4
    <2> QED
      BY <1>3, <2>1, <2>2 DEF Database
  <1>5. table # NoTable => table' # NoTable
    BY <1>4, TableAssumption
  <1>6. TypeOK'
    <2>1. version' \in Version /\ table' \in Table \cup {NoTable}
      BY <1>4, Ids DEF TypeOK
    <2>2. roleType' \in BOOLEAN
      <3>1. roleType' = roleType \/ roleType' = Downgraded.type
        BY <1>1 DEF Transaction
      <3> QED
        BY <1>3, <3>1 DEF TypeOK, Database
    <2>3. nulls' => /\ table' # NoTable
                    /\ "balance" \in DOMAIN table'
                    /\ table'["balance"] = "nullable"
      BY <1>1, <1>4, <1>5 DEF TypeOK
    <2>4. nulls' \in BOOLEAN
      BY <1>1
    <2>5. outcome' \in [command : {"none", "migrate", "drop", "reset", "downgrade"},
                        ok : BOOLEAN]
      BY <1>1, <1>3 DEF Database
    <2> QED
      BY <1>1, <2>1, <2>2, <2>3, <2>4, <2>5 DEF TypeOK
  <1>7. Schema'
    <2>1. Known'
      BY <1>1, <1>4, <1>5, TableAssumption DEF Schema, Known, First, Second, Third
    <2>4. AtBase'
      BY <1>4 DEF Schema, AtBase, First, Second
    <2>2. Lenient'
      <3>1. CASE table' = table
        BY <3>1 DEF Schema, Lenient
      <3>2. CASE /\ DOMAIN table' = Plain
                 /\ table'["first_name"] = "nullable"
                 /\ table'["last_name"] = "nullable"
        <4>1. Model["last_activity_at"] # "nullable"
          BY DEF Model
        <4> QED
          BY <3>2, <4>1 DEF Lenient, Plain
      <3> QED
        BY <1>4, <3>1, <3>2
    <2>3. Spares(table')
      BY <1>1, <1>3 DEF Transaction, Schema
    <2> QED
      BY <2>1, <2>2, <2>3, <2>4 DEF Schema, Spares
  <1>8. LegacyMigrates'
    BY <1>1 DEF LegacyMigrates
  <1>9. Counted'
    BY <1>1, <1>5 DEF Counted, Counts
  <1> QED
    BY <1>6, <1>7, <1>8, <1>9

-----------------------------------------------------------------------------
(* The invariant and what follows *)

LEMMA InitInv == Init => Inv
  <1> SUFFICES ASSUME Init  PROVE Inv
    OBVIOUS
  <1>1. Legacy \in [{} -> Kind] /\ DOMAIN Legacy = {}
    BY DEF Legacy
  <1>2. Legacy \in Table
    BY <1>1, Tables
  <1>3. TypeOK
    BY <1>2, Ids DEF Init, TypeOK, NoOutcome
  <1>4. Schema
    BY <1>1, <1>2, TableAssumption DEF Init, Schema, Known, AtBase, Lenient, Spares
  <1>5. LegacyMigrates
    BY DEF Init, LegacyMigrates, NoOutcome
  <1>6. Counted
    BY DEF Init, Counted, Counts
  <1> QED
    BY <1>3, <1>4, <1>5, <1>6 DEF Inv

LEMMA NextInv == Inv /\ [Next]_vars => Inv'
  <1> SUFFICES ASSUME Inv, [Next]_vars  PROVE Inv'
    OBVIOUS
  <1>1. ASSUME NEW p \in Proc,
               Look(p) \/ CreateAll(p) \/ Connect(p) \/ FailStart(p) \/ Stop(p)
        PROVE  Inv'
    BY <1>1, LookKeeps, CreateAllKeeps, ConnectKeeps, FailStartKeeps, StopKeeps
  <1>2. CASE MakeAdmin
    BY <1>2, MakeAdminKeeps
  <1>3. CASE Migrate
    BY <1>3, MigrateKeeps
  <1>4. CASE DropCommand
    BY <1>4, DropCommandKeeps
  <1>5. CASE Reset
    BY <1>5, ResetKeeps
  <1>6. CASE Interrupt
    BY <1>6, InterruptKeeps
  <1>7. CASE Downgrade
    BY <1>7, DowngradeKeeps
  <1>8. CASE UNCHANGED vars
    BY <1>8 DEF vars, Inv, TypeOK, Schema, Known, AtBase, Lenient, Spares,
                LegacyMigrates, Counted, Counts
  <1> QED
    BY <1>1, <1>2, <1>3, <1>4, <1>5, <1>6, <1>7, <1>8 DEF Next

LEMMA Invariance == Spec => []Inv
  BY InitInv, NextInv, PTL DEF Spec

\* Every variable has its type, and a column admits the NULLs it holds, however
\* many processes start beside the commands of manage.py and alembic.
THEOREM TypesHold == Spec => []TypeOK
  <1>1. Inv => TypeOK
    BY DEF Inv
  <1> QED
    BY <1>1, Invariance, PTL

\* Whatever was created, interrupted, migrated and downgraded: a database stamped
\* with the newest revision has the table of models.py, but for an is_blocked that
\* was downgraded, and registrations give what it requires, but for last_activity_at.
THEOREM HeadFits == Spec => []HeadFitsModel
  <1>1. Inv => HeadFitsModel
    <2> SUFFICES ASSUME Inv, version = Third
                 PROVE  /\ table # NoTable /\ roleType
                        /\ DOMAIN table = IF downgraded
                                          THEN Column \ {"is_blocked"} ELSE Column
                        /\ \A c \in DOMAIN table :
                             /\ Model[c] = "nullable" => table[c] = "nullable"
                             /\ table[c] = "required"
                                  => c \in Given \cup {"last_activity_at"}
      BY Ids DEF HeadFitsModel
    <2>1. version # "base" /\ version \notin {First, Second}
      BY DEF First, Second, Third
    <2>2. /\ table # NoTable /\ roleType
          /\ DOMAIN table = IF downgraded THEN Column \ {"is_blocked"} ELSE Column
      BY <2>1 DEF Inv, Schema, Known
    <2>3. "role" \in DOMAIN table /\ "role" \notin Plain
      BY <2>2, Columns DEF Plain
    <2> QED
      BY <2>2, <2>3 DEF Inv, Schema, Lenient, Spares, Demanded
  <1> QED
    BY <1>1, Invariance, PTL

\* However start-ups and commands interleave, no schema is made by create_all and
\* by the revisions: what create_all has made anything of never becomes the newest.
THEOREM OneMakes == Spec => []OneMaker
  <1>1. Inv => OneMaker
    BY Ids DEF Inv, Schema, Known, OneMaker, First, Second, Third
  <1> QED
    BY <1>1, Invariance, PTL

\* A process that has started serves a database with the table users.
THEOREM ReadyServes == Spec => []ReadyHasTable
  <1>1. Inv => ReadyHasTable
    BY DEF Inv, Counted, Counts, ReadyHasTable
  <1> QED
    BY <1>1, Invariance, PTL

\* The migrations go through on the database that was there before alembic, and
\* again after any downgrades, unless create_all came first.
THEOREM LegacyGoesUp == Spec => []LegacyMigrates
  <1>1. Inv => LegacyMigrates
    BY DEF Inv
  <1> QED
    BY <1>1, Invariance, PTL
=============================================================================
