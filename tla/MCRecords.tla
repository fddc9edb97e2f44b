------------------------------ MODULE MCRecords ------------------------------
(***************************************************************************)
(* The records that outlive an event, for TLC: policy documents and their  *)
(* index, the key the records are stored under, recorded contracts, and    *)
(* the duplicates of the object registry.  They share no table and read    *)
(* nothing of each other, so every behaviour of all is an interleaving of  *)
(* theirs and each is explored alone: scope says which, and in which small *)
(* instance.                                                               *)
(***************************************************************************)
EXTENDS ContractVersions, DocumentGovernance, KeyRotation, RegistryDuplicates

VARIABLE scope

vars == <<documentVars, keyVars, contractVars, duplicateVars, scope>>

(***************************************************************************)
(* The instances.                                                          *)
(***************************************************************************)
\* The documents are DocumentGovernance itself, with the constants of the .cfg: in
\* scope "library" three versions, of sources that are as good as each other, and one
\* handler at a time; in "desk" two versions, two threads and one parser; in
\* "breakdown" two versions, where an index build fails, a handler is cut off, a
\* version expires and a scan cannot be parsed.
Uneventful == failures' = 0 /\ documentStops' = 0 /\ expired' = {}
OneByOne == documentCalls'["otto"] = <<>>
Ahead == UNION {{documentCalls'[p][i] : i \in DOMAIN documentCalls'[p]} : p \in Librarians}
Registers(numbers, sources) ==
  \A call \in Ahead : call.kind = "bundle" => call.version <= numbers /\ call.rec.source \in sources
InOrder == \A call \in Ahead : call.kind = "bundle" => call.rec.source = <<"c1", "c2", "c3">>[call.version]
\* Handlers begin on a version with fewer than three events.
Short ==
  \A p \in Librarians : documentCalls[p] = <<>> /\ documentCalls'[p] # <<>> =>
    Len(lifecycle[documentCalls'[p][1].version]) < 3
DocumentScope ==
  \/ scope = "library" /\ Uneventful /\ OneByOne /\ InOrder
  \/ scope = "desk" /\ Uneventful /\ Short /\ Registers(2, {"c1", "c2"})
                    /\ \A call \in Ahead : call.kind = "parse" => call.parser = Current
  \/ scope = "breakdown" /\ OneByOne /\ Short /\ Registers(2, {"c1", "c2", "scan"})

\* The keys are KeyRotation itself, with the constants of the .cfg, two processes and
\* three threads: in scope "keyfile" one process runs, with two threads, and the key is
\* in the key file; in scope "managed" both run and the environment holds the key.
Jobs == {"write", "rotate_data_encryption_key", "create_database_backup",
         "import_database_backup", "apply_backup_retention"}
MCProcessOf == [admin |-> "api", other |-> "api", clerk |-> "worker"]
MCMayCall ==
  [admin |-> Jobs, other |-> Jobs, clerk |-> {"write", "rotate_data_encryption_key"}]
KeyFileOnly == {[active |-> "none", next |-> k, ring |-> {}] : k \in {"k2", "k3"}}
MCConfigurations ==
  KeyFileOnly \cup {[active |-> "k1", next |-> "k2", ring |-> {}],
                   [active |-> "k2", next |-> "k3", ring |-> {}],
                   [active |-> "k2", next |-> "k3", ring |-> {"k1"}]}
KeyScope ==
  \/ scope = "keyfile" /\ environ' \in KeyFileOnly
  \/ scope = "managed" /\ chore'["other"] = Idle /\ Len(backups') <= 2

\* The contracts are ContractVersions itself, with the constants of the .cfg: two
\* servers, two deployments.  The duplicates are RegistryDuplicates itself: three
\* records, three imports.
ASSUME ContractAssumption /\ DuplicateAssumption

(***************************************************************************)
(* Specification.                                                          *)
(***************************************************************************)
Init ==
  /\ scope \in {"library", "desk", "breakdown", "keyfile", "managed", "contracts", "batches"}
  /\ DocumentInit
  /\ KeyInit
  /\ environ.active = (IF scope = "managed" THEN "k1" ELSE NoKey)
  /\ process["api"].up /\ process["worker"].up = (scope = "managed")
  /\ scope # "keyfile" => environ.next = "k2"
  /\ ContractInit
  /\ scope # "contracts" => \A s \in Servers : build[s] = [label |-> "v1", content |-> "s1"]
  /\ DuplicateInit

Next ==
  /\ \/ /\ DocumentNext /\ DocumentScope
        /\ UNCHANGED <<keyVars, contractVars, duplicateVars>>
     \/ /\ KeyNext /\ KeyScope
        /\ UNCHANGED <<documentVars, contractVars, duplicateVars>>
     \/ scope = "contracts" /\ ContractNext
                            /\ UNCHANGED <<documentVars, keyVars, duplicateVars>>
     \/ scope = "batches" /\ DuplicateNext
                          /\ UNCHANGED <<documentVars, keyVars, contractVars>>
  /\ UNCHANGED scope

Spec == Init /\ [][Next]_vars

(***************************************************************************)
(* The properties, each stated where its component is: DocumentGovernance  *)
(* brings DocumentsHold, IndexServesWhatIsInForce and OneCurrentVersion,   *)
(* KeyRotation brings KeysHold, ContractVersions DriftFailsClosed, and     *)
(* RegistryDuplicates DuplicatesResolve.                                   *)
(***************************************************************************)
=============================================================================
