-------------------------- MODULE RegistryDuplicates --------------------------
(***************************************************************************)
(* Which registry records stand for which: the duplicate_of links an       *)
(* import accepts (flood_system/response_workflow/service.py,              *)
(* _commit_risk_object_registry_import).  Each row is judged against the   *)
(* other rows of the batch as they came, quarantined or not, and against   *)
(* the registry as it was before the batch.                                *)
(***************************************************************************)
EXTENDS Naturals

CONSTANTS Records, NoRecord, Own, MaxBatches

DuplicateAssumption ==
  NoRecord \notin Records /\ Own \notin Records \cup {NoRecord} /\ MaxBatches \in Nat

VARIABLES
  link,      \* duplicate_of of the record on file: NoRecord, Own for a canonical
             \* record, or another record's id
  batches,   \* imports so far
  refused    \* some import has quarantined a row

duplicateVars == <<link, batches, refused>>

\* A row: the record it is a duplicate of (Own: none) and the canonical_object_id
\* it states (NoRecord: none).
BatchRows == [of : Records \cup {Own}, canonical : Records \cup {NoRecord}]
OnFile == {r \in Records : link[r] # NoRecord}
States(row, id) == row.canonical \in {NoRecord, id}

\* Seeded fault: the target may be a duplicate itself.
AnyTarget(batch, target) == target \in DOMAIN batch \cup OnFile
CanonicalTarget(batch, target) ==
  IF target \in DOMAIN batch THEN batch[target].of = Own ELSE link[target] = Own

Accepted(batch, r) ==
  LET row == batch[r] IN
    IF row.of = Own THEN States(row, r)
    ELSE row.of # r /\ CanonicalTarget(batch, row.of) /\ States(row, row.of)

import_risk_object_registry ==
  /\ batches < MaxBatches /\ batches' = batches + 1
  /\ \E ids \in SUBSET Records \ {{}} : \E batch \in [ids -> BatchRows] :
       LET accepted == {r \in ids : Accepted(batch, r)} IN
         /\ link' = [r \in Records |-> IF r \in accepted THEN batch[r].of ELSE link[r]]
         /\ refused' = (refused \/ accepted # ids)

DuplicateInit ==
  /\ link = [r \in Records |-> NoRecord] /\ batches = 0 /\ refused = FALSE

DuplicateNext == import_risk_object_registry

DuplicateSpec == DuplicateInit /\ [][DuplicateNext]_duplicateVars

(***************************************************************************)
(* Properties.                                                             *)
(***************************************************************************)
\* Records whose duplicate_of links never reach one that stands for itself:
\* each leads to another of them, or to a record that is not on file.
Lost(some) ==
  some # {} /\ \A r \in some : link[r] # Own /\ (link[r] \in OnFile => link[r] \in some)

\* As long as no row has been refused, every duplicate leads to a record that
\* stands for itself, however many imports turned canonical records into
\* duplicates of others.
DuplicatesResolve == ~refused => \A some \in SUBSET OnFile : ~Lost(some)
=============================================================================
