-------------------------- MODULE SchemaBootstrap --------------------------
(***************************************************************************)
(* Who makes the tables of the billing database.  Postgres runs            *)
(* deploy/init-db.sql on an empty data directory, if the deployment mounts *)
(* it, before it takes connections; then the billing service and the       *)
(* billing job (RunMigrations of internal/bootstrap/migrations.go) and the *)
(* usage collector (ensureUsageSchema of its main.go) start in any order,  *)
(* at the same time, and again after a failure.  All but the script leave  *)
(* a table alone that exists, whatever its columns are.                    *)
(*                                                                         *)
(* Of a table's columns only the id tells the makers apart for the writes  *)
(* the programs do; of the writes, only the INSERTs without an id or into  *)
(* a table not everybody makes are modelled.                               *)
(***************************************************************************)
EXTENDS Naturals, Sequences, SequencesExt

CONSTANT None  \* no value

ScriptTables ==
  {"organizations", "subscriptions", "usage_records", "usage_aggregates",
   "invoices", "credits", "namespaces", "users", "api_keys"}

MigrationTables ==
  <<"organizations", "subscriptions", "namespaces", "usage_records",
    "usage_aggregates", "invoices", "credits", "api_keys", "magic_links",
    "identities", "audit_logs">>

UsageTables == <<"usage_records", "usage_aggregates">>

Table == ScriptTables \cup ToSet(MigrationTables)

\* A program: what it makes before it serves, in order; whether the id it
\* declares has a default; and the tables it then INSERTs into without an id.

\* RunMigrations, whose ids have no default.
Migrating(writes) == [makes |-> MigrationTables, default |-> FALSE, writes |-> writes]

\* ensureUsageSchema, whose ids have one.
Collecting ==
  [makes |-> UsageTables, default |-> TRUE, writes |-> {"usage_records", "usage_aggregates"}]

Programs ==
  [billing   |-> Migrating({"subscriptions"}),
   cron      |-> Migrating({"invoices"}),
   collector |-> Collecting]

Program == DOMAIN Programs

VARIABLES
  tables,   \* of each table, whether its id has a default
  made,     \* how many of its statements a program has executed
  refused   \* history: the tables an INSERT into which has failed

vars == <<tables, made, refused>>

TypeOK ==
  /\ tables \in [Table -> BOOLEAN \cup {None}]
  /\ \A p \in Program : made[p] \in 0 .. Len(Programs[p].makes)
  /\ refused \subseteq Table

\* The script has been run, or nothing has.
Init ==
  /\ \E mounted \in BOOLEAN :
       tables = [t \in Table |->
                   IF mounted /\ t \in ScriptTables THEN TRUE ELSE None]
  /\ made = [p \in Program |-> 0]
  /\ refused = {}

Serving(p) == made[p] = Len(Programs[p].makes)

CreateIfNotExists(p) ==
  LET t == Programs[p].makes[made[p] + 1] IN
  /\ ~Serving(p)
  /\ tables' = IF tables[t] = None
               THEN [tables EXCEPT ![t] = Programs[p].default]
               ELSE tables
  /\ made' = [made EXCEPT ![p] = @ + 1]
  /\ UNCHANGED refused

\* A failed statement ends the program; it, or a serving one, starts again.
Restart(p) ==
  /\ made' = [made EXCEPT ![p] = 0]
  /\ UNCHANGED <<tables, refused>>

InsertWithoutId(p) ==
  /\ Serving(p)
  /\ \E t \in Programs[p].writes :
       refused' = IF tables[t] = TRUE THEN refused ELSE refused \cup {t}
  /\ UNCHANGED <<tables, made>>

Next ==
  \E p \in Program :
    CreateIfNotExists(p) \/ Restart(p) \/ InsertWithoutId(p)

Spec == Init /\ [][Next]_vars

\* What RunMigrations says of itself (migrations.go:10): it applies the schema
\* the billing service requires, the one of init-db.sql.  So a program that
\* serves is not refused an INSERT for the want of an id.
MigrationsMirrorInitDb == refused = {}
=============================================================================
