----------------------------- MODULE KeyRotation -----------------------------
(***************************************************************************)
(* The key that protects the response records: rotation, recovery points   *)
(* and their retention, restarts (flood_system/security.py, repository.py, *)
(* storage/response_repository.py).                                        *)
(*                                                                         *)
(* The rows are re-encrypted in one transaction, but the key lives in      *)
(* three places no transaction spans: the rows, the protector of each      *)
(* process, and the key file or the environment the next start reads.      *)
(* Every other write encrypts with the protector first and takes the       *)
(* database lock after, so a rotation may come between the two.            *)
(***************************************************************************)
EXTENDS Naturals, Sequences, FiniteSets, SequencesExt

CONSTANTS
  Keys, NoKey, FirstKey,
  Rows,            \* records that may be written; the first is there from the start
  FirstRow,
  Processes,       \* the service and others on the same database
  Threads, ProcessOf, MayCall,
  Configurations,  \* environments an operator sets: [active, next, ring]
  KeepLatest,      \* keep_latest of the retention policy
  MaxBackups, MaxStops, MaxRotations

ASSUME KeyAssumption ==
  /\ NoKey \notin Keys /\ FirstKey \in Keys /\ FirstRow \in Rows
  /\ ProcessOf \in [Threads -> Processes]
  /\ Configurations \subseteq [active : Keys \cup {NoKey}, next : Keys, ring : SUBSET Keys]
  /\ KeepLatest \in Nat \ {0}

VARIABLES
  rows,        \* the key each stored payload is encrypted under
  keyFile,     \* content of the sidecar key file
  environ,     \* the environment the next process starts with
  process,     \* the data_protector and environment of each process
  rotations,   \* response_key_rotation_state
  backups,     \* response_database_backups and their files
  chore,       \* what each thread is in the middle of
  stops,       \* how often a process has stopped
  late         \* a row went in under another key than the rows around it

keyVars == <<rows, keyFile, environ, process, rotations, backups, chore, stops, late>>

\* A process that does not run, and one that is not deployed.
Down == [up |-> FALSE]
Absent == [up |-> FALSE, deployed |-> FALSE]
Idle == [kind |-> "idle"]
Of(t) == process[ProcessOf[t]]
Ready(t, call) == Of(t).up /\ chore[t] = Idle /\ call \in MayCall[t]
At(t, kind) == chore[t].kind = kind
Go(t, next) == chore' = [chore EXCEPT ![t] = next]

Stored == {r \in Rows : rows[r] # NoKey}
KeysInUse == {rows[r] : r \in Stored}
\* Reencrypted under k, every row there is.
Under(k) == [r \in Rows |-> IF r \in Stored THEN k ELSE NoKey]
Pending == {i \in DOMAIN rotations : rotations[i].status = "pending_activation"}

\* DataProtector.for_database, and the environment kept with it.
Configured ==
  LET active == IF environ.active = NoKey THEN keyFile ELSE environ.active
  IN [up |-> TRUE, active |-> active, ring |-> {active} \cup environ.ring,
      next |-> environ.next, managed |-> environ.active # NoKey]

(***************************************************************************)
(* Writing a record: _secure_dump, then the INSERT.                        *)
(***************************************************************************)
secure_dump(t) ==
  /\ Ready(t, "write")
  /\ \E r \in Rows \ Stored : Go(t, [kind |-> "insert", row |-> r, key |-> Of(t).active])
  /\ UNCHANGED <<rows, keyFile, environ, process, rotations, backups, stops, late>>

insert(t) ==
  /\ At(t, "insert")
  /\ rows' = [rows EXCEPT ![chore[t].row] = chore[t].key]
  /\ late' = (late \/ KeysInUse # {chore[t].key})
  /\ Go(t, Idle)
  /\ UNCHANGED <<keyFile, environ, process, rotations, backups, stops>>

(***************************************************************************)
(* Backups.                                                                *)
(***************************************************************************)
\* create_database_backup: the file is copied, then the record names the key
\* of the protector and is stored.
create_database_backup(t) ==
  /\ \/ Ready(t, "create_database_backup")
     \/ Ready(t, "rotate_data_encryption_key") /\ Len(rotations) < MaxRotations
  /\ Len(backups) < MaxBackups
  /\ \E rotating \in BOOLEAN :
       /\ (IF rotating THEN "rotate_data_encryption_key" ELSE "create_database_backup") \in MayCall[t]
       /\ Go(t, [kind |-> "record", contents |-> KeysInUse, rotating |-> rotating])
  /\ UNCHANGED <<rows, keyFile, environ, process, rotations, backups, stops, late>>

record_backup(t) ==
  /\ At(t, "record")
  /\ backups' = Append(backups, [key |-> Of(t).active, contents |-> chore[t].contents, file |-> TRUE])
  /\ Go(t, IF chore[t].rotating THEN [kind |-> "check", backup |-> Len(backups) + 1] ELSE Idle)
  /\ UNCHANGED <<rows, keyFile, environ, process, rotations, stops, late>>

\* import_database_backup of a backup another host made under a key of the ring.
import_database_backup(t) ==
  /\ Ready(t, "import_database_backup") /\ Len(backups) < MaxBackups
  /\ \E k \in Of(t).ring :
       backups' = Append(backups, [key |-> k, contents |-> {k}, file |-> TRUE])
  /\ UNCHANGED <<rows, keyFile, environ, process, rotations, chore, stops, late>>

\* apply_backup_retention: the list and what rotations protect are read, then
\* files are deleted.
ProtectedPoints == {rotations[i].backup : i \in DOMAIN rotations}
Prunable ==
  {b \in DOMAIN backups : b + KeepLatest <= Len(backups) /\ b \notin ProtectedPoints}
apply_backup_retention(t) ==
  /\ Ready(t, "apply_backup_retention")
  /\ \E victims \in SUBSET Prunable : victims # {} /\ Go(t, [kind |-> "prune", victims |-> victims])
  /\ UNCHANGED <<rows, keyFile, environ, process, rotations, backups, stops, late>>

prune(t) ==
  /\ At(t, "prune")
  /\ backups' = [b \in DOMAIN backups |->
                   IF b \in chore[t].victims THEN [backups[b] EXCEPT !.file = FALSE] ELSE backups[b]]
  /\ Go(t, Idle)
  /\ UNCHANGED <<rows, keyFile, environ, process, rotations, stops, late>>

(***************************************************************************)
(* rotate_data_encryption_key, after its recovery point.                   *)
(***************************************************************************)
OtherKey(t) == Of(t).next # Of(t).active
check_pending(t) ==
  /\ At(t, "check")
  /\ Go(t, IF Pending = {} /\ OtherKey(t)
           THEN [kind |-> "reencrypt", backup |-> chore[t].backup, old |-> Of(t).active,
                 ring |-> Of(t).ring, new |-> Of(t).next]
           ELSE Idle)
  /\ UNCHANGED <<rows, keyFile, environ, process, rotations, backups, stops, late>>

\* One transaction; it fails on a row the captured ring cannot decrypt.
Decryptable(ring) == KeysInUse \subseteq ring
reencrypt(t) ==
  /\ At(t, "reencrypt")
  /\ LET c == chore[t] IN
       IF Decryptable(c.ring)
       THEN /\ rows' = Under(c.new)
            /\ rotations' = Append(rotations, [backup |-> c.backup, old |-> c.old, new |-> c.new,
                                               status |-> "pending_activation",
                                               overtaken |-> c.backup < Len(backups)])
            /\ Go(t, [kind |-> "promote", rotation |-> Len(rotations) + 1,
                      ring |-> c.ring \cup {c.new}, new |-> c.new])
       ELSE Go(t, Idle) /\ UNCHANGED <<rows, rotations>>
  /\ UNCHANGED <<keyFile, environ, process, backups, stops, late>>

\* with_active_key: the keys before stay in the ring.
KeepsOld(c) == c.ring
\* What follows the transaction.  Seeded fault: the row is completed before the
\* key file is there.
RowFirst  == <<"activate", "file">>
FileFirst == <<"file", "activate">>
promote(t) ==
  /\ At(t, "promote")
  /\ process' = [process EXCEPT ![ProcessOf[t]].active = chore[t].new,
                                ![ProcessOf[t]].ring = KeepsOld(chore[t])]
  /\ Go(t, IF Of(t).managed THEN Idle ELSE [chore[t] EXCEPT !.kind = FileFirst[1]])
  /\ UNCHANGED <<rows, keyFile, environ, rotations, backups, stops, late>>

Onwards(t) ==
  Go(t, IF chore[t].kind = FileFirst[1] THEN [chore[t] EXCEPT !.kind = FileFirst[2]] ELSE Idle)

replace_key_file(t) ==
  /\ At(t, "file")
  /\ keyFile' = chore[t].new
  /\ Onwards(t)
  /\ UNCHANGED <<rows, environ, process, rotations, backups, stops, late>>

activate(t) ==
  /\ At(t, "activate")
  /\ rotations' = [rotations EXCEPT ![chore[t].rotation].status = "activated"]
  /\ Onwards(t)
  /\ UNCHANGED <<rows, keyFile, environ, process, backups, stops, late>>

(***************************************************************************)
(* Processes and the operator.                                             *)
(***************************************************************************)
stop(p) ==
  /\ process[p].up /\ stops < MaxStops /\ stops' = stops + 1
  /\ process' = [process EXCEPT ![p] = Down]
  /\ chore' = [t \in Threads |-> IF ProcessOf[t] = p THEN Idle ELSE chore[t]]
  /\ UNCHANGED <<rows, keyFile, environ, rotations, backups, late>>

\* The operator promotes the key that the last rotation has introduced, keeps in
\* the ring what was in use, and names as next a key that never was.
Introduced == {FirstKey} \cup {rotations[i].new : i \in DOMAIN rotations}
LastKey == IF rotations = <<>> THEN FirstKey ELSE rotations[Len(rotations)].new
Sensible(e) ==
  /\ e.active \in {NoKey, LastKey}
  /\ e.ring \subseteq Introduced /\ e.next \notin Introduced
configure ==
  /\ \E e \in Configurations :
       /\ e # environ /\ Sensible(e) /\ environ' = e
       /\ environ.active # NoKey => e.active # NoKey
  /\ UNCHANGED <<rows, keyFile, process, rotations, backups, chore, stops, late>>

\* After a stop inside a rotation the operator puts the new key in place.
promote_key_file ==
  /\ Pending # {} /\ environ.active = NoKey /\ \A p \in Processes : ~process[p].up
  /\ keyFile' = rotations[Max(Pending)].new
  /\ UNCHANGED <<rows, environ, process, rotations, backups, chore, stops, late>>

\* SQLiteRepository: a pending rotation is completed or stops the start, then
\* every row is brought under the active key or the start fails.
NewKey(active) == \A i \in Pending : (\A j \in Pending : j <= i) => active = rotations[i].new
start(p) ==
  /\ process[p] = Down
  /\ LET c == Configured IN
       /\ NewKey(c.active)
       /\ rotations' = IF Pending = {} THEN rotations
                       ELSE [rotations EXCEPT ![Max(Pending)].status = "activated"]
       /\ IF Decryptable(c.ring)
          THEN rows' = Under(c.active) /\ process' = [process EXCEPT ![p] = c]
          ELSE UNCHANGED <<rows, process>>
  /\ UNCHANGED <<keyFile, environ, backups, chore, stops, late>>

(***************************************************************************)
(* Specification.                                                          *)
(***************************************************************************)
KeyInit ==
  /\ rows = [r \in Rows |-> IF r = FirstRow THEN FirstKey ELSE NoKey]
  /\ keyFile = FirstKey
  /\ rotations = <<>> /\ backups = <<>>
  /\ environ \in {e \in Configurations : Sensible(e)}
  /\ \E deployed \in SUBSET Processes :
       process = [p \in Processes |-> IF p \in deployed THEN Configured ELSE Absent]
  /\ chore = [t \in Threads |-> Idle]
  /\ stops = 0 /\ late = FALSE

KeyNext ==
  \/ \E t \in Threads :
       \/ secure_dump(t)
       \/ insert(t)
       \/ create_database_backup(t)
       \/ record_backup(t)
       \/ import_database_backup(t)
       \/ apply_backup_retention(t)
       \/ prune(t)
       \/ check_pending(t)
       \/ reencrypt(t)
       \/ promote(t)
       \/ replace_key_file(t)
       \/ activate(t)
  \/ \E p \in Processes : stop(p) \/ start(p)
  \/ configure
  \/ promote_key_file

KeySpec == KeyInit /\ [][KeyNext]_keyVars

(***************************************************************************)
(* Properties.                                                             *)
(***************************************************************************)
\* Rows are under keys there are, rotations lead from one key to another and
\* name a backup that was made before.
KeyTypeOK ==
  /\ rows \in [Rows -> Keys \cup {NoKey}] /\ FirstRow \in Stored
  /\ \A i \in DOMAIN rotations :
       rotations[i].old # rotations[i].new /\ rotations[i].backup \in DOMAIN backups
  /\ \A p \in Processes : process[p].up => process[p].active \in process[p].ring

\* Wherever a rotation is cut off, the rows are under the key the next start
\* is told to use: the new key of a pending rotation, else that of the key
\* file or, where the environment holds the key, of the last rotation.
\* Void once a write has straddled a rotation.
RowsUnderTheKeyToCome ==
  ~late =>
    \/ Pending # {} /\ KeysInUse = {rotations[Max(Pending)].new}
    \/ Pending = {} /\ environ.active = NoKey /\ KeysInUse = {keyFile}
    \/ Pending = {} /\ environ.active # NoKey
                    /\ KeysInUse = {LastKey}

\* A process alone on its database reads every row, whatever its threads do,
\* but between the transaction of a rotation and the protector's change.
AloneReadsAll ==
  \A p \in Processes :
    process[p].up /\ (\A q \in Processes \ {p} : process[q] = Absent) =>
      KeysInUse \subseteq process[p].ring \/ \E t \in Threads : At(t, "promote")

\* One rotation at a time is left to be activated.
OnePending == Cardinality(Pending) <= 1

\* The recovery point of a rotation stays through every retention run, unless a
\* newer backup was made before the rotation took the point into protection.
RecoveryPointsStay ==
  \A i \in DOMAIN rotations :
    backups[rotations[i].backup].file \/ rotations[i].overtaken

\* No rotation leaves rows behind that the next start cannot read, and it can
\* be taken back to its recovery point.
KeysHold ==
  /\ KeyTypeOK
  /\ RowsUnderTheKeyToCome
  /\ AloneReadsAll
  /\ OnePending
  /\ RecoveryPointsStay
=============================================================================
