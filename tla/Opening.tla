-------------------------------- MODULE Opening --------------------------------
(***************************************************************************)
(* Database::open by several processes: creating the file, waiting for a   *)
(* peer that is creating it, and migrating the schema                      *)
(* (src/infrastructure/sqlite/mod.rs).                                     *)
(***************************************************************************)
EXTENDS Invocations

CONSTANTS
  Target,    \* CURRENT_SCHEMA_VERSION
  Attempts   \* INIT_SCHEMA_ATTEMPTS

ASSUME OpeningAssumption == {Target, Attempts} \subseteq Nat \ {0}

VARIABLES
  db         \* the database file, its committed schema, and its writer

(* applied: how often each migration has been committed; wal: the file     *)
(* system it is on supports write-ahead logs.                              *)
Database == [file : {"absent", "plain", "insecure"}, version : Nat,
             applied : [1..Target -> Nat], tx : Clis \cup {None}, wal : BOOLEAN]

AtVersion(file, v) == [file |-> file, version |-> v, tx |-> None, wal |-> TRUE,
                       applied |-> [m \in 1..Target |-> IF m <= v THEN 1 ELSE 0]]

(* No database, one of this or another release, or one nobody should trust. *)
OpeningInit ==
  db \in {AtVersion("absent", 0), [AtVersion("absent", 0) EXCEPT !.wal = FALSE],
          AtVersion("insecure", Target)} \cup
         {AtVersion("plain", v) : v \in 1..(Target + 1)}

(* configure_connection asks for write-ahead logging; verify_pragmas sees  *)
(* at the end of Database::open whether it got it.                         *)
verify_pragmas == db.wal

Opened(c) == IF verify_pragmas THEN Goes(c, "opened") ELSE Ends(c, "storage")

(* prepare_database_file.                                                  *)
PrepareFile(c) ==
  /\ At(c, "prepare")
  /\ CASE db.file = "absent" ->
            /\ db' = [db EXCEPT !.file = "plain"]
            /\ inv' = [inv EXCEPT ![c].pc = "observe", ![c].created = TRUE]
       [] db.file = "plain" ->
            /\ inv' = [inv EXCEPT ![c].pc = "observe", ![c].left = Attempts]
            /\ UNCHANGED db
       [] OTHER -> Ends(c, "storage") /\ UNCHANGED db
  /\ UNCHANGED faults

(* Somebody is between creating the file and committing its schema.        *)
Creating == \E d \in Clis : inv[d].created

(* An existing file without a schema is looked at again, and is corrupt if *)
(* that does not help.  The attempts outlast a creator that is not stuck.  *)
Observe(c) ==
  /\ At(c, "observe")
  /\ \/ /\ inv[c].created \/ db.version > 0
        /\ Goes(c, "version")
        /\ UNCHANGED faults
     \/ /\ ~inv[c].created /\ db.version = 0
        /\ inv[c].left > 1
        /\ inv' = [inv EXCEPT ![c].left = @ - 1]
        /\ UNCHANGED faults
     \/ /\ ~inv[c].created /\ db.version = 0
        /\ inv[c].left = 1
        /\ Ends(c, "storage")
        /\ IF Creating THEN Fault ELSE UNCHANGED faults
  /\ UNCHANGED db

(* apply_migrations reads the version before it begins its transaction ... *)
ReadVersion(c) ==
  /\ At(c, "version")
  /\ IF db.version > Target THEN Ends(c, "storage")
     ELSE IF db.version = Target THEN Opened(c)
     ELSE inv' = [inv EXCEPT ![c].pc = "begin", ![c].cur = db.version]
  /\ UNCHANGED <<db, faults>>

Begin(c) ==
  /\ At(c, "begin")
  /\ db.tx = None
  /\ db' = [db EXCEPT !.tx = c]
  /\ Goes(c, "migrate")
  /\ UNCHANGED faults

(* ... and stayed busy past its timeout.                                   *)
BeginBusy(c) ==
  /\ At(c, "begin")
  /\ db.tx # None
  /\ Fault
  /\ Ends(c, "storage")
  /\ UNCHANGED db

(* Every pending migration and the new version in one transaction.  A      *)
(* migration that is in the schema already fails, and nothing is applied.  *)
Migrate_Again(c) ==
  LET pending == (inv[c].cur + 1)..Target
  IN  /\ At(c, "migrate")
      /\ db' = [db EXCEPT !.tx = None, !.version = Target,
                          !.applied = [m \in 1..Target |-> IF m \in pending
                                                           THEN @[m] + 1 ELSE @[m]]]
      /\ Goes(c, "opened")
      /\ UNCHANGED faults

Migrate(c) ==
  LET pending == (inv[c].cur + 1)..Target
  IN  /\ At(c, "migrate")
      /\ IF \E m \in pending : db.applied[m] > 0
         THEN /\ db' = [db EXCEPT !.tx = None]
              /\ Ends(c, "storage")
         ELSE /\ db' = [db EXCEPT !.tx = None, !.version = Target,
                                  !.applied = [m \in 1..Target |-> IF m \in pending
                                                                   THEN @[m] + 1 ELSE @[m]]]
              /\ Opened(c)
      /\ UNCHANGED faults

OpenStep(c) ==
  PrepareFile(c) \/ Observe(c) \/ ReadVersion(c) \/ Begin(c) \/ BeginBusy(c) \/ Migrate(c)

(* A transaction that is under way when its process dies is rolled back.   *)
RolledBack(c) == db' = IF db.tx = c THEN [db EXCEPT !.tx = None] ELSE db

===============================================================================
