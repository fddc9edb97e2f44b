---------------------------- MODULE RecordsProofs ----------------------------
(***************************************************************************)
(* Proofs about the records that outlive an event: the recorded contracts, *)
(* for any labels, contents, servers and number of deployments; the key    *)
(* the records are stored under, for any keys, processes, threads and      *)
(* environments; the policy documents, for any sources, parsers and        *)
(* threads and any lengths of the histories; and the duplicates of the     *)
(* object registry, for any records and imports.                           *)
(***************************************************************************)
EXTENDS ContractVersions, KeyRotation, DocumentGovernance, RegistryDuplicates,
        FiniteSetTheorems, SequenceTheorems, WellFoundedInduction, TLAPS

(***************************************************************************)
(* Contracts: the inductive invariant.                                     *)
(***************************************************************************)
Superseded == Labels \cup {"none"}
ContractRecords == [label : Labels, content : Contents, supersedes : Superseded]

RecordsTypeOK ==
  /\ contracts \in Seq(ContractRecords)
  /\ build \in [Servers -> Builds]
  /\ DOMAIN ensuring = Servers
  /\ served \subseteq Builds /\ overlap \in BOOLEAN

Follows(label) == label = "none" \/ \E j \in DOMAIN contracts : contracts[j].label = label

\* What is about to be inserted is what the server has, and supersedes a record.
EnsuresItsBuild ==
  \A s \in Servers : ensuring[s] # Nothing =>
    /\ ensuring[s] \in ContractRecords
    /\ ensuring[s].label = build[s].label /\ ensuring[s].content = build[s].content
    /\ Follows(ensuring[s].supersedes)

\* Without an overlap nobody inserts after anyone who was not seen.
EnsuresAlone ==
  ~overlap => \A s \in Servers : ensuring[s] # Nothing =>
    /\ \A j \in DOMAIN contracts : contracts[j].label # ensuring[s].label
    /\ \A t \in Servers : ensuring[t] # Nothing => t = s

\* Without an overlap every content that was served is on record under some label.
ServedIsOnRecord ==
  ~overlap => \A b \in served : \E i \in DOMAIN contracts : contracts[i].content = b.content

Inductive ==
  RecordsTypeOK /\ ContractTypeOK /\ EnsuresItsBuild /\ EnsuresAlone /\ ServedIsOnRecord

-----------------------------------------------------------------------------
(***************************************************************************)
(* Records are only added.                                                 *)
(***************************************************************************)
\* The step of an insert: the record is the last one.
LEMMA Inserted ==
  ASSUME contracts \in Seq(ContractRecords), NEW r \in ContractRecords, contracts' = Append(contracts, r)
  PROVE  /\ contracts' \in Seq(ContractRecords)
         /\ Len(contracts') = Len(contracts) + 1
         /\ DOMAIN contracts = 1..Len(contracts) /\ DOMAIN contracts' = 1..(Len(contracts) + 1)
         /\ \A i \in DOMAIN contracts : contracts'[i] = contracts[i]
         /\ contracts'[Len(contracts) + 1] = r
  OBVIOUS

-----------------------------------------------------------------------------
(***************************************************************************)
(* Contracts: the actions.                                                 *)
(***************************************************************************)
LEMMA InitInductive ==
  ASSUME ContractInit
  PROVE  Inductive
  <1>1. contracts = <<>> /\ served = {} /\ overlap = FALSE
    BY DEF ContractInit
  <1>2. PICK b \in Builds : build = [s \in Servers |-> b]
    BY DEF ContractInit
  <1>3. build \in [Servers -> Builds]
    BY <1>2
  <1>4. DOMAIN ensuring = Servers /\ \A s \in Servers : ensuring[s] = Nothing
    <2>1. ensuring = [s \in Servers |-> Nothing]
      BY DEF ContractInit
    <2> QED  BY <2>1
  <1>5. RecordsTypeOK
    BY <1>1, <1>3, <1>4, EmptySeq DEF RecordsTypeOK
  <1>6. DOMAIN contracts = {}
    BY DEF ContractInit
  <1>7. served = {}
    BY DEF ContractInit
  <1> QED  BY <1>4, <1>5, <1>6, <1>7
           DEF Inductive, ContractTypeOK, EnsuresItsBuild, EnsuresAlone, ServedIsOnRecord

LEMMA ServeInductive ==
  ASSUME Inductive, NEW s \in Servers, serve_recorded(s)
  PROVE  Inductive'
  <1>1. /\ OnRecord(build[s].label) # {} /\ SameContent(s) /\ served' = served \cup {build[s]}
        /\ UNCHANGED <<contracts, build, ensuring, overlap>>
    BY DEF serve_recorded, Serve
  <1>2. build[s] \in Builds
    BY DEF Inductive, RecordsTypeOK
  <1>3. \E i \in DOMAIN contracts : contracts[i].content = build[s].content
    BY <1>1 DEF OnRecord, SameContent
  <1>4. RecordsTypeOK' /\ ContractTypeOK'
    BY <1>1, <1>2 DEF Inductive, RecordsTypeOK, ContractTypeOK
  <1>5. EnsuresItsBuild' /\ EnsuresAlone'
    BY <1>1 DEF Inductive, EnsuresItsBuild, EnsuresAlone, Follows
  <1>6. ServedIsOnRecord'
    BY <1>1, <1>3 DEF Inductive, ServedIsOnRecord
  <1> QED  BY <1>4, <1>5, <1>6 DEF Inductive

LEMMA EnsureInductive ==
  ASSUME Inductive, NEW s \in Servers, ensure_contract_version(s)
  PROVE  Inductive'
  <1> DEFINE r == [label |-> build[s].label, content |-> build[s].content,
                   supersedes |-> IF contracts = <<>> THEN "none"
                                  ELSE contracts[Len(contracts)].label]
  <1>1. /\ ensuring[s] = Nothing /\ OnRecord(build[s].label) = {}
        /\ ensuring' = [ensuring EXCEPT ![s] = r]
        /\ overlap' = (overlap \/ \E other \in Servers \ {s} : ensuring[other] # Nothing)
        /\ UNCHANGED <<contracts, build, served>>
    BY DEF ensure_contract_version
  <1>2. build[s] \in Builds /\ contracts \in Seq(ContractRecords)
    BY DEF Inductive, RecordsTypeOK
  <1>3. build[s].label \in Labels /\ build[s].content \in Contents
    BY <1>2 DEF Builds
  <1>4. contracts # <<>> => Len(contracts) \in DOMAIN contracts /\ contracts[Len(contracts)] \in ContractRecords
    BY <1>2
  <1>5. r \in ContractRecords /\ r.label = build[s].label /\ r.content = build[s].content
    BY <1>3, <1>4 DEF ContractRecords, Superseded
  <1>6. Follows(r.supersedes)
    <2>1. CASE contracts = <<>>
      BY <2>1 DEF Follows
    <2>2. CASE contracts # <<>>
      BY <1>4, <2>2 DEF Follows
    <2> QED  BY <2>1, <2>2
  <1> HIDE DEF r
  <1>7. /\ DOMAIN ensuring' = Servers /\ ensuring'[s] = r
        /\ \A t \in Servers \ {s} : ensuring'[t] = ensuring[t]
    BY <1>1 DEF Inductive, RecordsTypeOK
  <1>8. RecordsTypeOK' /\ ContractTypeOK' /\ ServedIsOnRecord'
    BY <1>1, <1>7
    DEF Inductive, RecordsTypeOK, ContractTypeOK, ServedIsOnRecord
  <1>9. EnsuresItsBuild'
    <2>1. ASSUME NEW t \in Servers, ensuring'[t] # Nothing
          PROVE  /\ ensuring'[t] \in ContractRecords
                 /\ ensuring'[t].label = build[t].label /\ ensuring'[t].content = build[t].content
                 /\ Follows(ensuring'[t].supersedes)
      <3>1. CASE t = s
        BY <1>5, <1>6, <1>7, <3>1
      <3>2. CASE t # s
        BY <1>7, <2>1, <3>2 DEF Inductive, EnsuresItsBuild
      <3> QED  BY <3>1, <3>2
    <2> QED  BY <1>1, <2>1 DEF EnsuresItsBuild, Follows
  <1>10. EnsuresAlone'
    <2> SUFFICES ASSUME ~overlap' PROVE EnsuresAlone'
      BY DEF EnsuresAlone
    <2>1. \A t \in Servers : ensuring'[t] # Nothing => t = s
      BY <1>1, <1>7
    <2>2. \A j \in DOMAIN contracts : contracts[j].label # r.label
      BY <1>1, <1>5 DEF OnRecord
    <2> QED  BY <1>1, <1>7, <2>1, <2>2 DEF EnsuresAlone
  <1> QED  BY <1>8, <1>9, <1>10 DEF Inductive

LEMMA SaveInductive ==
  ASSUME Inductive, NEW s \in Servers, save_contract_version(s)
  PROVE  Inductive'
  <1> DEFINE r == ensuring[s]
  <1>1. /\ r # Nothing
        /\ contracts' = IF Ignored(r) THEN contracts ELSE Append(contracts, r)
        /\ served' = served \cup {build[s]} /\ ensuring' = [ensuring EXCEPT ![s] = Nothing]
        /\ UNCHANGED <<build, overlap>>
    BY DEF save_contract_version, Serve
  <1>2. /\ contracts \in Seq(ContractRecords) /\ build[s] \in Builds
        /\ r \in ContractRecords /\ r.label = build[s].label /\ r.content = build[s].content
        /\ Follows(r.supersedes)
    BY <1>1 DEF Inductive, RecordsTypeOK, EnsuresItsBuild
  <1>3. ~overlap => /\ \A j \in DOMAIN contracts : contracts[j].label # r.label
                    /\ \A t \in Servers : ensuring[t] # Nothing => t = s
    BY <1>1 DEF Inductive, EnsuresAlone
  <1> HIDE DEF r
  <1>4. /\ DOMAIN ensuring' = Servers /\ ensuring'[s] = Nothing
        /\ \A t \in Servers \ {s} : ensuring'[t] = ensuring[t]
    BY <1>1 DEF Inductive, RecordsTypeOK
  <1>5. /\ contracts' \in Seq(ContractRecords) /\ DOMAIN contracts \subseteq DOMAIN contracts'
        /\ \A i \in DOMAIN contracts : contracts'[i] = contracts[i]
    BY <1>1, <1>2, Inserted
  <1>6. RecordsTypeOK'
    BY <1>1, <1>2, <1>4, <1>5 DEF Inductive, RecordsTypeOK
  <1>7. ContractTypeOK'
    <2>1. CASE Ignored(r)
      BY <1>1, <2>1 DEF Inductive, ContractTypeOK
    <2>2. CASE ~Ignored(r)
      <3> DEFINE n == Len(contracts)
      <3>1. /\ n \in Nat /\ DOMAIN contracts = 1..n /\ DOMAIN contracts' = 1..(n + 1)
            /\ \A i \in 1..n : contracts'[i] = contracts[i]
            /\ contracts'[n + 1] = r
        BY <1>1, <1>2, <2>2, Inserted
      <3> HIDE DEF n
      <3>2. \A j \in 1..n : contracts[j].label # r.label /\ contracts[j].content # r.content
        BY <2>2, <3>1 DEF Ignored
      <3>3. r.supersedes = "none" \/ \E j \in 1..n : contracts[j].label = r.supersedes
        BY <1>2, <3>1 DEF Follows
      <3>4. ASSUME NEW i \in DOMAIN contracts'
            PROVE  /\ \A j \in 1..(i - 1) : contracts'[j].label # contracts'[i].label
                                             /\ contracts'[j].content # contracts'[i].content
                   /\ contracts'[i].supersedes = "none"
                        \/ \E j \in 1..(i - 1) : contracts'[j].label = contracts'[i].supersedes
        <4>1. CASE i = n + 1
          <5>1. i - 1 = n
            BY <3>1, <4>1
          <5> QED  BY <3>1, <3>2, <3>3, <4>1, <5>1
        <4>2. CASE i \in 1..n
          <5>1. \A j \in 1..(i - 1) : j \in 1..n
            BY <3>1, <4>2
          <5> QED  BY <3>1, <4>2, <5>1 DEF Inductive, ContractTypeOK
        <4> QED  BY <3>1, <4>1, <4>2
      <3> QED  BY <3>4 DEF ContractTypeOK
    <2> QED  BY <2>1, <2>2
  <1>8. EnsuresItsBuild'
    BY <1>1, <1>4, <1>5 DEF Inductive, EnsuresItsBuild, Follows
  <1>9. EnsuresAlone'
    BY <1>1, <1>3, <1>4 DEF EnsuresAlone
  <1>10. ServedIsOnRecord'
    <2> SUFFICES ASSUME ~overlap, NEW b \in served'
                 PROVE  \E i \in DOMAIN contracts' :
                          contracts'[i].content = b.content
      BY <1>1 DEF ServedIsOnRecord
    <2>1. CASE b \in served
      BY <1>5, <2>1 DEF Inductive, ServedIsOnRecord
    <2>2. CASE b = build[s] /\ Ignored(r)
      <3>1. PICK i \in DOMAIN contracts : contracts[i].label = r.label \/ contracts[i].content = r.content
        BY <2>2 DEF Ignored
      <3>2. contracts[i].label # r.label
        BY <1>3, <3>1
      <3> QED  BY <1>2, <1>5, <2>2, <3>1, <3>2
    <2>3. CASE b = build[s] /\ ~Ignored(r)
      BY <1>1, <1>2, <2>3, Inserted
    <2> QED  BY <1>1, <2>1, <2>2, <2>3
  <1> QED  BY <1>6, <1>7, <1>8, <1>9, <1>10 DEF Inductive

LEMMA DeployInductive ==
  ASSUME Inductive, NEW s \in Servers, deploy(s)
  PROVE  Inductive'
  <1>1. PICK b \in Builds : build' = [build EXCEPT ![s] = b]
    BY DEF deploy
  <1>2. ensuring' = [ensuring EXCEPT ![s] = Nothing] /\ UNCHANGED <<contracts, served, overlap>>
    BY DEF deploy
  <1>3. /\ DOMAIN ensuring' = Servers /\ ensuring'[s] = Nothing
        /\ \A t \in Servers \ {s} : ensuring'[t] = ensuring[t] /\ build'[t] = build[t]
    BY <1>1, <1>2 DEF Inductive, RecordsTypeOK
  <1>4. RecordsTypeOK' /\ ContractTypeOK' /\ ServedIsOnRecord'
    BY <1>1, <1>2, <1>3
    DEF Inductive, RecordsTypeOK, ContractTypeOK, ServedIsOnRecord
  <1>5. EnsuresItsBuild' /\ EnsuresAlone'
    BY <1>2, <1>3 DEF Inductive, EnsuresItsBuild, EnsuresAlone, Follows
  <1> QED  BY <1>4, <1>5 DEF Inductive

\* The invariant holds whoever records, serves and is deployed when
\* (_ensure_contract_version).
THEOREM InductiveInvariant == ContractSpec => []Inductive
  <1>1. ContractInit => Inductive
    BY InitInductive
  <1>2. Inductive /\ [ContractNext]_contractVars => Inductive'
    <2> SUFFICES ASSUME Inductive, [ContractNext]_contractVars PROVE Inductive'
      OBVIOUS
    <2>1. ASSUME NEW s \in Servers,
                 serve_recorded(s) \/ ensure_contract_version(s)
                   \/ save_contract_version(s) \/ deploy(s)
          PROVE  Inductive'
      BY <2>1, ServeInductive, EnsureInductive, SaveInductive, DeployInductive
    <2>2. CASE UNCHANGED contractVars
      BY <2>2 DEF contractVars, Inductive, RecordsTypeOK, ContractTypeOK, EnsuresItsBuild,
                  EnsuresAlone, ServedIsOnRecord, Follows
    <2> QED  BY <2>1, <2>2 DEF ContractNext
  <1> QED  BY <1>1, <1>2, PTL DEF ContractSpec

-----------------------------------------------------------------------------
(***************************************************************************)
(* Contracts: the properties of the runs.                                  *)
(***************************************************************************)
\* A label and a content are on record once, and a record supersedes an earlier one,
\* also when servers insert at the same time (save_contract_version).
THEOREM RecordsAreUnique == ContractSpec => []ContractTypeOK
  <1>1. Inductive => ContractTypeOK
    BY DEF Inductive
  <1> QED  BY <1>1, InductiveInvariant, PTL

\* Content that drifts under a label is refused, except where first requests
\* overlapped or the content is on record under another label
\* (_ensure_contract_version).
THEOREM DriftIsRefused == ContractSpec => []DriftFailsClosed
  <1>1. Inductive => DriftFailsClosed
    <2> SUFFICES ASSUME Inductive, ContractTypeOK, NEW a \in served, NEW b \in served,
                        a.label = b.label, a # b, ~overlap
                 PROVE  \E c \in {a, b}, i \in DOMAIN contracts :
                          contracts[i].content = c.content /\ contracts[i].label # c.label
      BY DEF DriftFailsClosed, Inductive
    <2>1. PICK i \in DOMAIN contracts : contracts[i].content = a.content
      BY DEF Inductive, ServedIsOnRecord
    <2>2. PICK j \in DOMAIN contracts : contracts[j].content = b.content
      BY DEF Inductive, ServedIsOnRecord
    <2>3. a.content # b.content
      <3>1. a \in Builds /\ b \in Builds
        BY DEF Inductive, RecordsTypeOK
      <3> QED  BY <3>1 DEF Builds
    <2>4. contracts[i].label # contracts[j].label
      <3>1. i \in Nat /\ j \in Nat /\ i >= 1 /\ j >= 1
        BY <2>1, <2>2 DEF Inductive, RecordsTypeOK
      <3>2. i # j
        BY <2>1, <2>2, <2>3
      <3>3. i \in 1..(j - 1) \/ j \in 1..(i - 1)
        BY <3>1, <3>2
      <3> QED  BY <3>3 DEF Inductive, ContractTypeOK
    <2> QED  BY <2>1, <2>2, <2>4
  <1> QED  BY <1>1, InductiveInvariant, PTL

-----------------------------------------------------------------------------
(***************************************************************************)
(* Keys: the inductive invariant.                                          *)
(***************************************************************************)
Running == [up : {TRUE}, active : Keys, ring : SUBSET Keys, next : Keys, managed : BOOLEAN]
Rotations == [backup : Nat, old : Keys, new : Keys, status : {"pending_activation", "activated"},
              overtaken : BOOLEAN]
Backups == [key : Keys, contents : SUBSET Keys, file : BOOLEAN]
Inserts == [kind : {"insert"}, row : Rows, key : Keys]
Recording == [kind : {"record"}, contents : SUBSET Keys, rotating : BOOLEAN]
Checks == [kind : {"check"}, backup : Nat]
Prunes == [kind : {"prune"}, victims : SUBSET Nat]
Reencrypts ==
  [kind : {"reencrypt"}, backup : Nat, old : Keys, ring : SUBSET Keys, new : Keys]
Completing ==
  [kind : {"promote", "file", "activate"}, rotation : Nat, ring : SUBSET Keys, new : Keys]
Chores == {Idle} \cup Inserts \cup Recording \cup Checks \cup Prunes \cup Reencrypts \cup Completing

StateTypeOK ==
  /\ rows \in [Rows -> Keys \cup {NoKey}] /\ keyFile \in Keys /\ environ \in Configurations
  /\ process \in [Processes -> {Down, Absent} \cup Running]
  /\ rotations \in Seq(Rotations) /\ backups \in Seq(Backups)
  /\ chore \in [Threads -> Chores] /\ late \in BOOLEAN

\* The first row is under the last key, no row under a key that never was; once
\* a write has straddled a rotation, that is all.
RowsAreIntroduced ==
  /\ rows[FirstRow] = LastKey /\ KeysInUse \subseteq Introduced
  /\ ~late => KeysInUse = {LastKey}

RotationsAreOrderly ==
  /\ Pending \subseteq {Len(rotations)}
  /\ \A i \in DOMAIN rotations :
       rotations[i].old # rotations[i].new /\ rotations[i].backup \in DOMAIN backups

\* An environment that names an old key as active does not have the last one.
EnvironmentIsSensible ==
  /\ environ.ring \subseteq Introduced /\ environ.active \in {NoKey} \cup Introduced
  /\ environ.active \notin {NoKey, LastKey} => LastKey \notin environ.ring

KeyFileFollows ==
  /\ keyFile \in Introduced
  /\ environ.active = NoKey /\ Pending = {} => keyFile = LastKey

\* Who can read the rows may only rotate to a key that never was.
CanRotate(p) == process[p].up /\ LastKey \in process[p].ring /\ process[p].next # process[p].active
WillRotate(t) == At(t, "reencrypt") /\ LastKey \in chore[t].ring
NextIsNew ==
  /\ environ.next \in Introduced =>
       /\ environ.next = LastKey
       /\ \A p \in Processes : ~CanRotate(p)
       /\ \A t \in Threads : ~WillRotate(t)
  /\ \A p \in Processes : CanRotate(p) => process[p].next \notin Introduced
  /\ \A t \in Threads : WillRotate(t) =>
       Pending = {} /\ chore[t].new \notin Introduced /\ chore[t].ring = Of(t).ring

ProcessesAreSensible ==
  \A p \in Processes : process[p].up =>
    process[p].active \in process[p].ring /\ process[p].ring \subseteq Introduced

ChoresAreSensible ==
  \A t \in Threads :
    /\ chore[t] # Idle => Of(t).up
    /\ At(t, "insert") => chore[t].row # FirstRow /\ chore[t].key \in Of(t).ring
    /\ At(t, "check") => chore[t].backup \in DOMAIN backups
    /\ At(t, "reencrypt") =>
         /\ chore[t].old # chore[t].new /\ chore[t].new = Of(t).next
         /\ chore[t].ring \subseteq Introduced /\ chore[t].backup \in DOMAIN backups

\* The protector changes after the rows, by one thread of its process.
PromotesOnce ==
  \A t \in Threads : At(t, "promote") =>
    /\ LastKey \notin Of(t).ring /\ chore[t].new = Of(t).next
    /\ chore[t].ring = Of(t).ring \cup {chore[t].new}
    /\ \A u \in Threads : At(u, "promote") /\ ProcessOf[u] = ProcessOf[t] => u = t

\* The key file changes before the row is completed.
Completes(t) == At(t, "promote") \/ At(t, "file") \/ At(t, "activate")
CompletesInOrder ==
  \A t \in Threads : Completes(t) =>
    /\ chore[t].rotation \in DOMAIN rotations
    /\ chore[t].new = rotations[chore[t].rotation].new
    /\ \A u \in Threads : Completes(u) /\ chore[u].rotation = chore[t].rotation => u = t
    /\ environ.active = NoKey =>
         IF At(t, "activate") THEN chore[t].rotation < Len(rotations) \/ keyFile = LastKey
         ELSE /\ chore[t].rotation = Len(rotations) /\ keyFile # LastKey
              /\ Pending = {Len(rotations)}

Alone(p) == process[p].up /\ \A q \in Processes \ {p} : process[q] = Absent
ReadsOrPromotes ==
  \A p \in Processes : Alone(p) =>
    KeysInUse \subseteq process[p].ring
    \/ \E t \in Threads : At(t, "promote") /\ KeysInUse \subseteq chore[t].ring

\* What is about to be deleted is not the last backup and no recovery point.
PointsAreKept ==
  /\ backups # <<>> => backups[Len(backups)].file
  /\ \A i \in DOMAIN rotations :
       backups[rotations[i].backup].file \/ rotations[i].overtaken
  /\ \A t \in Threads : At(t, "prune") =>
       \A v \in chore[t].victims :
         /\ v \in DOMAIN backups /\ v < Len(backups)
         /\ \A i \in DOMAIN rotations : rotations[i].backup = v => rotations[i].overtaken

KeyInductive ==
  /\ StateTypeOK /\ RowsAreIntroduced /\ RotationsAreOrderly /\ EnvironmentIsSensible
  /\ KeyFileFollows /\ NextIsNew /\ ProcessesAreSensible /\ ChoresAreSensible
  /\ PromotesOnce /\ CompletesInOrder /\ ReadsOrPromotes /\ PointsAreKept

-----------------------------------------------------------------------------
(***************************************************************************)
(* Keys: what the types say of one thread and of the keys.                 *)
(***************************************************************************)
LEMMA ThreadTyped ==
  ASSUME StateTypeOK, NEW t \in Threads
  PROVE  /\ chore[t] \in Chores /\ ProcessOf[t] \in Processes
         /\ Of(t) = process[ProcessOf[t]] /\ Of(t) \in {Down, Absent} \cup Running
         /\ Of(t).up => Of(t) \in Running
         /\ At(t, "insert") => chore[t] \in Inserts
         /\ At(t, "record") => chore[t] \in Recording
         /\ At(t, "check") => chore[t] \in Checks
         /\ At(t, "prune") => chore[t] \in Prunes
         /\ At(t, "reencrypt") => chore[t] \in Reencrypts
         /\ Completes(t) => chore[t] \in Completing
         /\ chore[t] # Idle => chore[t].kind # "idle"
<1>1. chore[t] \in Chores /\ ProcessOf[t] \in Processes
  BY KeyAssumption DEF StateTypeOK
<1>2. process[ProcessOf[t]] \in {Down, Absent} \cup Running
  BY <1>1 DEF StateTypeOK
<1>3. Down.up = FALSE /\ Absent.up = FALSE
  BY DEF Down, Absent
<1>4. Idle.kind = "idle"
  BY DEF Idle
<1>5. /\ At(t, "insert") => chore[t] \in Inserts
      /\ At(t, "record") => chore[t] \in Recording
      /\ At(t, "check") => chore[t] \in Checks
      /\ At(t, "prune") => chore[t] \in Prunes
      /\ At(t, "reencrypt") => chore[t] \in Reencrypts
      /\ Completes(t) => chore[t] \in Completing
      /\ chore[t] # Idle => chore[t].kind # "idle"
  BY <1>1, <1>4 DEF Chores, At, Completes, Inserts, Recording, Checks, Prunes, Reencrypts,
                    Completing
<1> QED BY <1>1, <1>2, <1>3, <1>5 DEF Of

LEMMA KeysTyped ==
  ASSUME StateTypeOK
  PROVE  /\ LastKey \in Introduced /\ Introduced \subseteq Keys /\ NoKey \notin Introduced
         /\ Len(rotations) \in Nat /\ DOMAIN rotations = 1..Len(rotations)
         /\ rotations # <<>> => LastKey = rotations[Len(rotations)].new
         /\ \A i \in DOMAIN rotations : rotations[i] \in Rotations /\ i <= Len(rotations)
<1>1. rotations \in Seq(Rotations)
  BY DEF StateTypeOK
<1>2. Len(rotations) \in Nat /\ DOMAIN rotations = 1..Len(rotations)
  BY <1>1
<1>3. \A i \in DOMAIN rotations : rotations[i] \in Rotations /\ rotations[i].new \in Keys
  <2>1. \A i \in DOMAIN rotations : rotations[i] \in Rotations
    BY <1>1, <1>2, ElementOfSeq
  <2> QED BY <2>1 DEF Rotations
<1>4. rotations # <<>> => Len(rotations) \in DOMAIN rotations
  BY <1>1, <1>2, EmptySeq
<1>5. Introduced \subseteq Keys
  BY <1>3, KeyAssumption DEF Introduced
<1>6. LastKey \in Introduced
  BY <1>4 DEF LastKey, Introduced
<1> QED BY <1>2, <1>3, <1>5, <1>6, KeyAssumption DEF LastKey

LEMMA BackupsTyped ==
  ASSUME StateTypeOK
  PROVE  /\ backups \in Seq(Backups) /\ Len(backups) \in Nat
         /\ DOMAIN backups = 1..Len(backups)
         /\ \A b \in DOMAIN backups : backups[b] \in Backups /\ b <= Len(backups) /\ b \in Nat
BY DEF StateTypeOK

LEMMA FirstRowInUse ==
  ASSUME StateTypeOK, RowsAreIntroduced
  PROVE  FirstRow \in Stored /\ LastKey \in KeysInUse
<1>1. LastKey # NoKey
  BY KeysTyped, KeyAssumption
<1> QED BY <1>1, KeyAssumption DEF RowsAreIntroduced, Stored, KeysInUse

\* Every row is under one key after a rotation, and after a start.
LEMMA AllUnder ==
  ASSUME StateTypeOK, RowsAreIntroduced, NEW k \in Keys, rows' = Under(k)
  PROVE  /\ rows' \in [Rows -> Keys \cup {NoKey}] /\ rows'[FirstRow] = k
         /\ KeysInUse' = {k}
<1>1. FirstRow \in Stored /\ FirstRow \in Rows /\ k # NoKey
  BY FirstRowInUse, KeyAssumption
<1>2. \A r \in Rows : rows'[r] = IF r \in Stored THEN k ELSE NoKey
  BY DEF Under
<1>3. rows' \in [Rows -> Keys \cup {NoKey}]
  BY DEF Under
<1>4. \A r \in Stored' : rows'[r] = k
  BY <1>2 DEF Stored
<1>5. FirstRow \in Stored' /\ rows'[FirstRow] = k
  BY <1>1, <1>2 DEF Stored
<1> QED BY <1>3, <1>4, <1>5 DEF KeysInUse

\* No two states of a process that is not up are mistaken for each other.
LEMMA DownIsNotAbsent == Down # Absent
<1>1. "deployed" \in DOMAIN Absent /\ "deployed" \notin DOMAIN Down
  BY DEF Absent, Down
<1> QED BY <1>1

-----------------------------------------------------------------------------
(***************************************************************************)
(* Keys: what a step leaves alone.                                         *)
(***************************************************************************)
LEMMA RowsFrame ==
  ASSUME RowsAreIntroduced, UNCHANGED <<rows, rotations, late>>
  PROVE  RowsAreIntroduced'
BY DEF RowsAreIntroduced, LastKey, KeysInUse, Introduced, Stored

LEMMA RotationsFrame ==
  ASSUME RotationsAreOrderly, UNCHANGED <<rotations, backups>>
  PROVE  RotationsAreOrderly'
BY DEF RotationsAreOrderly, Pending

LEMMA EnvironmentFrame ==
  ASSUME EnvironmentIsSensible, UNCHANGED <<environ, rotations>>
  PROVE  EnvironmentIsSensible'
BY DEF EnvironmentIsSensible, LastKey, Introduced

LEMMA KeyFileFrame ==
  ASSUME KeyFileFollows, UNCHANGED <<keyFile, environ, rotations>>
  PROVE  KeyFileFollows'
BY DEF KeyFileFollows, LastKey, Introduced, Pending

LEMMA ProcessesFrame ==
  ASSUME ProcessesAreSensible, UNCHANGED <<process, rotations>>
  PROVE  ProcessesAreSensible'
BY DEF ProcessesAreSensible, Introduced

\* A thread goes on to something that neither inserts after a rotation nor
\* completes one, and nothing else changes.
LEMMA Moves ==
  ASSUME KeyInductive, NEW t \in Threads, NEW j \in Chores, chore' = [chore EXCEPT ![t] = j],
         UNCHANGED <<rows, keyFile, environ, process, rotations, backups, late>>,
         ~At(t, "promote"), j.kind \notin {"promote", "file", "activate"},
         j # Idle => Of(t).up,
         j.kind = "insert" => j.row # FirstRow /\ j.key \in Of(t).ring,
         j.kind = "check" => j.backup \in DOMAIN backups,
         j.kind = "reencrypt" =>
           /\ j.old # j.new /\ j.new = Of(t).next
           /\ j.ring \subseteq Introduced /\ j.backup \in DOMAIN backups
           /\ LastKey \in j.ring =>
                /\ Pending = {} /\ j.new \notin Introduced /\ j.ring = Of(t).ring
                /\ environ.next \notin Introduced,
         j.kind = "prune" =>
           \A v \in j.victims :
             /\ v \in DOMAIN backups /\ v < Len(backups)
             /\ \A i \in DOMAIN rotations : rotations[i].backup = v => rotations[i].overtaken
  PROVE  KeyInductive'
<1>1. /\ chore' \in [Threads -> Chores] /\ chore'[t] = j
      /\ \A u \in Threads : u # t => chore'[u] = chore[u]
  BY DEF KeyInductive, StateTypeOK
<1>2. /\ LastKey' = LastKey /\ Introduced' = Introduced /\ Pending' = Pending
      /\ KeysInUse' = KeysInUse
  BY DEF LastKey, Introduced, Pending, KeysInUse, Stored
<1>3. StateTypeOK'
  BY <1>1 DEF KeyInductive, StateTypeOK
<1>4. /\ RowsAreIntroduced' /\ RotationsAreOrderly' /\ EnvironmentIsSensible'
      /\ KeyFileFollows' /\ ProcessesAreSensible'
  BY RowsFrame, RotationsFrame, EnvironmentFrame, KeyFileFrame, ProcessesFrame DEF KeyInductive
<1>5. NextIsNew'
  BY <1>1, <1>2 DEF KeyInductive, NextIsNew, CanRotate, WillRotate, At, Of
<1>6. ChoresAreSensible'
  BY <1>1, <1>2 DEF KeyInductive, ChoresAreSensible, At, Of
<1>7. PromotesOnce'
  BY <1>1, <1>2 DEF KeyInductive, PromotesOnce, At, Of
<1>8. CompletesInOrder'
  BY <1>1, <1>2 DEF KeyInductive, CompletesInOrder, Completes, At
<1>9. ReadsOrPromotes'
  BY <1>1, <1>2 DEF KeyInductive, ReadsOrPromotes, Alone, At
<1>10. PointsAreKept'
  BY <1>1 DEF KeyInductive, PointsAreKept, At
<1> QED BY <1>3, <1>4, <1>5, <1>6, <1>7, <1>8, <1>9, <1>10 DEF KeyInductive

-----------------------------------------------------------------------------
(***************************************************************************)
(* Keys: writing and backups.                                              *)
(***************************************************************************)
LEMMA SecureDump ==
  ASSUME KeyInductive, NEW t \in Threads, secure_dump(t)
  PROVE  KeyInductive'
<1>1. /\ Of(t).up /\ chore[t] = Idle
  BY DEF secure_dump, Ready
<1>2. PICK r \in Rows \ Stored :
        chore' = [chore EXCEPT ![t] = [kind |-> "insert", row |-> r, key |-> Of(t).active]]
  BY DEF secure_dump, Go
<1>3. PICK j : j = [kind |-> "insert", row |-> r, key |-> Of(t).active]
  OBVIOUS
<1>4. Of(t).active \in Keys /\ Of(t).active \in Of(t).ring
  BY <1>1, ThreadTyped DEF KeyInductive, ProcessesAreSensible, Running
<1>5. r # FirstRow
  BY FirstRowInUse DEF KeyInductive
<1>6. j \in Chores /\ j.kind = "insert" /\ j.row = r /\ j.key = Of(t).active
  BY <1>3, <1>4 DEF Chores, Inserts
<1>7. ~At(t, "promote")
  BY <1>1 DEF At, Idle
<1>8. UNCHANGED <<rows, keyFile, environ, process, rotations, backups, late>>
  BY DEF secure_dump
<1>9. chore' = [chore EXCEPT ![t] = j]
  BY <1>2, <1>3
<1> QED BY <1>1, <1>4, <1>5, <1>6, <1>7, <1>8, <1>9, Moves

LEMMA CreateBackup ==
  ASSUME KeyInductive, NEW t \in Threads, create_database_backup(t)
  PROVE  KeyInductive'
<1>1. Of(t).up /\ chore[t] = Idle
  BY DEF create_database_backup, Ready
<1>2. PICK rotating \in BOOLEAN :
        chore' = [chore EXCEPT ![t] = [kind |-> "record", contents |-> KeysInUse,
                                       rotating |-> rotating]]
  BY DEF create_database_backup, Go
<1>3. PICK j : j = [kind |-> "record", contents |-> KeysInUse, rotating |-> rotating]
  OBVIOUS
<1>4. KeysInUse \subseteq Keys
  BY KeysTyped DEF KeyInductive, RowsAreIntroduced
<1>5. j \in Chores /\ j.kind = "record"
  BY <1>3, <1>4 DEF Chores, Recording
<1>6. ~At(t, "promote")
  BY <1>1 DEF At, Idle
<1>7. UNCHANGED <<rows, keyFile, environ, process, rotations, backups, late>>
  BY DEF create_database_backup
<1>8. chore' = [chore EXCEPT ![t] = j]
  BY <1>2, <1>3
<1> QED BY <1>1, <1>5, <1>6, <1>7, <1>8, Moves

LEMMA Retention ==
  ASSUME KeyInductive, NEW t \in Threads, apply_backup_retention(t)
  PROVE  KeyInductive'
<1>1. Of(t).up /\ chore[t] = Idle
  BY DEF apply_backup_retention, Ready
<1>2. PICK victims \in SUBSET Prunable :
        chore' = [chore EXCEPT ![t] = [kind |-> "prune", victims |-> victims]]
  BY DEF apply_backup_retention, Go
<1>3. PICK j : j = [kind |-> "prune", victims |-> victims]
  OBVIOUS
<1>4. \A v \in victims :
        /\ v \in DOMAIN backups /\ v \in Nat /\ v < Len(backups)
        /\ \A i \in DOMAIN rotations : rotations[i].backup # v
  BY BackupsTyped, KeyAssumption DEF KeyInductive, Prunable, ProtectedPoints
<1>5. j \in Chores /\ j.kind = "prune" /\ j.victims = victims
  BY <1>3, <1>4 DEF Chores, Prunes
<1>6. ~At(t, "promote")
  BY <1>1 DEF At, Idle
<1>7. UNCHANGED <<rows, keyFile, environ, process, rotations, backups, late>>
  BY DEF apply_backup_retention
<1>8. chore' = [chore EXCEPT ![t] = j]
  BY <1>2, <1>3
<1> QED BY <1>1, <1>4, <1>5, <1>6, <1>7, <1>8, Moves

LEMMA IdleMoves ==
  ASSUME KeyInductive, NEW t \in Threads, chore' = [chore EXCEPT ![t] = Idle], ~At(t, "promote"),
         UNCHANGED <<rows, keyFile, environ, process, rotations, backups, late>>
  PROVE  KeyInductive'
<1>1. Idle \in Chores /\ Idle.kind = "idle"
  BY DEF Chores, Idle
<1> QED BY <1>1, Moves

LEMMA CheckPending ==
  ASSUME KeyInductive, NEW t \in Threads, check_pending(t)
  PROVE  KeyInductive'
<1>1. /\ At(t, "check") /\ ~At(t, "promote") /\ chore[t] # Idle
  BY DEF check_pending, At, Idle
<1>2. UNCHANGED <<rows, keyFile, environ, process, rotations, backups, late>>
  BY DEF check_pending
<1>3. CASE Pending = {} /\ OtherKey(t)
  <2>1. PICK j : j = [kind |-> "reencrypt", backup |-> chore[t].backup, old |-> Of(t).active,
                      ring |-> Of(t).ring, new |-> Of(t).next]
    OBVIOUS
  <2>2. chore' = [chore EXCEPT ![t] = j]
    BY <1>3, <2>1 DEF check_pending, Go
  <2>3. /\ Of(t).up /\ Of(t) \in Running /\ ProcessOf[t] \in Processes
        /\ chore[t] \in Checks /\ chore[t].backup \in DOMAIN backups
    BY <1>1, ThreadTyped DEF KeyInductive, ChoresAreSensible
  <2>4. /\ j.kind = "reencrypt" /\ j.backup = chore[t].backup /\ j.old = Of(t).active
        /\ j.ring = Of(t).ring /\ j.new = Of(t).next
    BY <2>1
  <2>5. j \in Chores
    BY <2>1, <2>3 DEF Chores, Reencrypts, Running, Checks
  <2>6. j.old # j.new /\ j.ring \subseteq Introduced
    BY <1>3, <2>3, <2>4 DEF OtherKey, KeyInductive, ProcessesAreSensible, Of
  <2>7. ASSUME LastKey \in j.ring
        PROVE  j.new \notin Introduced /\ environ.next \notin Introduced
    <3>1. CanRotate(ProcessOf[t])
      BY <1>3, <2>3, <2>4, <2>7 DEF CanRotate, OtherKey, Of
    <3> QED BY <2>3, <2>4, <3>1 DEF KeyInductive, NextIsNew, Of
  <2> QED BY <1>1, <1>2, <1>3, <2>2, <2>3, <2>4, <2>5, <2>6, <2>7, Moves
<1>4. CASE ~(Pending = {} /\ OtherKey(t))
  <2>1. chore' = [chore EXCEPT ![t] = Idle]
    BY <1>4 DEF check_pending, Go
  <2> QED BY <1>1, <1>2, <2>1, IdleMoves
<1> QED BY <1>3, <1>4

\* A thread is done, or has its recovery point; keys and rotations stay.
LEMMA QuietSteps ==
  ASSUME KeyInductive, NEW t \in Threads, NEW j \in Chores, chore' = [chore EXCEPT ![t] = j],
         UNCHANGED <<keyFile, environ, process, rotations>>,
         ~At(t, "promote"), j.kind \in {"idle", "check"}
  PROVE  /\ chore' \in [Threads -> Chores] /\ chore'[t] = j
         /\ \A u \in Threads : u # t => chore'[u] = chore[u]
         /\ LastKey' = LastKey /\ Introduced' = Introduced /\ Pending' = Pending
         /\ NextIsNew' /\ PromotesOnce' /\ CompletesInOrder'
<1>1. /\ chore' \in [Threads -> Chores] /\ chore'[t] = j
      /\ \A u \in Threads : u # t => chore'[u] = chore[u]
  BY DEF KeyInductive, StateTypeOK
<1>2. LastKey' = LastKey /\ Introduced' = Introduced /\ Pending' = Pending
  BY DEF LastKey, Introduced, Pending
<1>3. NextIsNew'
  BY <1>1, <1>2 DEF KeyInductive, NextIsNew, CanRotate, WillRotate, At, Of
<1>4. PromotesOnce'
  BY <1>1, <1>2 DEF KeyInductive, PromotesOnce, At, Of
<1>5. CompletesInOrder'
  BY <1>1, <1>2 DEF KeyInductive, CompletesInOrder, Completes, At
<1> QED BY <1>1, <1>2, <1>3, <1>4, <1>5

LEMMA Insert ==
  ASSUME KeyInductive, NEW t \in Threads, insert(t)
  PROVE  KeyInductive'
<1>1. PICK r : r = chore[t].row
  OBVIOUS
<1>2. PICK k : k = chore[t].key
  OBVIOUS
<1>3. At(t, "insert") /\ ~At(t, "promote") /\ chore[t] # Idle
  BY DEF insert, At, Idle
<1>4. /\ r \in Rows /\ r # FirstRow /\ k \in Keys /\ k \in Of(t).ring /\ Of(t).up
      /\ ProcessOf[t] \in Processes
  BY <1>1, <1>2, <1>3, ThreadTyped DEF KeyInductive, ChoresAreSensible, Inserts
<1>5. /\ rows' = [rows EXCEPT ![r] = k] /\ chore' = [chore EXCEPT ![t] = Idle]
      /\ late' = (late \/ KeysInUse # {k})
      /\ UNCHANGED <<keyFile, environ, process, rotations, backups>>
  BY <1>1, <1>2 DEF insert, Go
<1>6. Idle \in Chores /\ Idle.kind = "idle"
  BY DEF Chores, Idle
<1>7. /\ chore' \in [Threads -> Chores] /\ chore'[t] = Idle
      /\ \A u \in Threads : u # t => chore'[u] = chore[u]
      /\ LastKey' = LastKey /\ Introduced' = Introduced
      /\ NextIsNew' /\ PromotesOnce' /\ CompletesInOrder'
  BY <1>3, <1>5, <1>6, QuietSteps
<1>8. /\ rows' \in [Rows -> Keys \cup {NoKey}] /\ rows'[r] = k
      /\ \A s \in Rows : s # r => rows'[s] = rows[s]
  BY <1>4, <1>5 DEF KeyInductive, StateTypeOK
<1>9. KeysInUse' \subseteq KeysInUse \cup {k}
  BY <1>8 DEF KeysInUse, Stored
<1>10. LastKey \in KeysInUse'
  <2>1. rows'[FirstRow] = LastKey /\ FirstRow \in Rows
    BY <1>4, <1>8, KeyAssumption DEF KeyInductive, RowsAreIntroduced
  <2>2. LastKey # NoKey
    BY KeysTyped, KeyAssumption DEF KeyInductive
  <2> QED BY <2>1, <2>2 DEF KeysInUse, Stored
<1>11. StateTypeOK'
  BY <1>5, <1>7, <1>8 DEF KeyInductive, StateTypeOK
<1>12. RowsAreIntroduced'
  <2>1. rows'[FirstRow] = LastKey
    BY <1>4, <1>8, KeyAssumption DEF KeyInductive, RowsAreIntroduced
  <2>2. k \in Introduced
    BY <1>4 DEF KeyInductive, ProcessesAreSensible, Of
  <2>3. KeysInUse' \subseteq Introduced
    BY <1>9, <2>2 DEF KeyInductive, RowsAreIntroduced
  <2>4. late' = FALSE => KeysInUse' = {LastKey}
    BY <1>5, <1>9, <1>10 DEF KeyInductive, RowsAreIntroduced
  <2>5. late' \in BOOLEAN
    BY <1>11 DEF StateTypeOK
  <2> QED BY <1>7, <2>1, <2>3, <2>4, <2>5 DEF RowsAreIntroduced
<1>13. /\ RotationsAreOrderly' /\ EnvironmentIsSensible' /\ KeyFileFollows'
       /\ ProcessesAreSensible'
  BY <1>5, RotationsFrame, EnvironmentFrame, KeyFileFrame, ProcessesFrame DEF KeyInductive
<1>14. ChoresAreSensible'
  BY <1>5, <1>6, <1>7 DEF KeyInductive, ChoresAreSensible, At, Of
<1>15. ReadsOrPromotes'
  <2> SUFFICES ASSUME NEW p \in Processes, Alone(p)'
               PROVE  KeysInUse' \subseteq process[p].ring
                      \/ \E u \in Threads : At(u, "promote")' /\ KeysInUse' \subseteq chore[u].ring'
    BY <1>5 DEF ReadsOrPromotes
  <2>1. Alone(p)
    BY <1>5 DEF Alone
  <2>2. \A q \in Processes : process[q].up => q = p
    BY <2>1 DEF Alone, Absent
  <2>3. ProcessOf[t] = p /\ k \in process[p].ring
    BY <1>4, <2>2 DEF Of
  <2>4. CASE KeysInUse \subseteq process[p].ring
    BY <1>9, <2>3, <2>4
  <2>5. ASSUME NEW u \in Threads, At(u, "promote"), KeysInUse \subseteq chore[u].ring
        PROVE  At(u, "promote")' /\ KeysInUse' \subseteq chore[u].ring'
    <3>1. u # t /\ chore[u] # Idle
      BY <1>3, <2>5 DEF At, Idle
    <3>2. Of(u).up /\ ProcessOf[u] = p
      BY <2>2, <3>1, KeyAssumption DEF KeyInductive, ChoresAreSensible, Of
    <3>3. process[p].ring \subseteq chore[u].ring
      BY <2>5, <3>2 DEF KeyInductive, PromotesOnce, Of
    <3> QED BY <1>7, <1>9, <2>3, <2>5, <3>1, <3>3 DEF At
  <2> QED BY <2>1, <2>4, <2>5 DEF KeyInductive, ReadsOrPromotes
<1>16. PointsAreKept'
  BY <1>5, <1>6, <1>7 DEF KeyInductive, PointsAreKept, At
<1> QED BY <1>7, <1>11, <1>12, <1>13, <1>14, <1>15, <1>16 DEF KeyInductive

\* A backup is the last one, and its file is there.
LEMMA BackupAdded ==
  ASSUME StateTypeOK, NEW b \in Backups, backups' = Append(backups, b)
  PROVE  /\ backups' \in Seq(Backups) /\ Len(backups') = Len(backups) + 1
         /\ Len(backups) \in Nat
         /\ DOMAIN backups = 1..Len(backups) /\ DOMAIN backups' = 1..(Len(backups) + 1)
         /\ \A i \in DOMAIN backups : backups'[i] = backups[i]
         /\ backups'[Len(backups) + 1] = b
BY DEF StateTypeOK

LEMMA BackupKept ==
  ASSUME KeyInductive, NEW b \in Backups, b.file = TRUE, backups' = Append(backups, b),
         UNCHANGED rotations,
         \A u \in Threads : At(u, "prune")' => chore'[u] = chore[u]
  PROVE  RotationsAreOrderly' /\ PointsAreKept'
<1>1. StateTypeOK
  BY DEF KeyInductive
<1>2. /\ DOMAIN backups \subseteq DOMAIN backups'
      /\ \A v \in DOMAIN backups : v < Len(backups) => v < Len(backups')
      /\ \A i \in DOMAIN backups : backups'[i] = backups[i]
      /\ backups'[Len(backups')].file
  BY <1>1, BackupAdded
<1>3. RotationsAreOrderly'
  BY <1>2 DEF KeyInductive, RotationsAreOrderly, Pending
<1>4. \A i \in DOMAIN rotations : rotations[i].backup \in DOMAIN backups
  BY DEF KeyInductive, RotationsAreOrderly
<1>5. \A i \in DOMAIN rotations' :
        backups'[rotations'[i].backup].file \/ rotations'[i].overtaken
  BY <1>2, <1>4 DEF KeyInductive, PointsAreKept
<1>6. ASSUME NEW u \in Threads, At(u, "prune")'
      PROVE  \A v \in chore'[u].victims :
               /\ v \in DOMAIN backups' /\ v < Len(backups')
               /\ \A i \in DOMAIN rotations' : rotations'[i].backup = v => rotations'[i].overtaken
  <2>1. chore'[u] = chore[u] /\ At(u, "prune")
    BY <1>6 DEF At
  <2> QED BY <1>2, <2>1 DEF KeyInductive, PointsAreKept
<1> QED BY <1>2, <1>3, <1>5, <1>6 DEF PointsAreKept

LEMMA RecordBackup ==
  ASSUME KeyInductive, NEW t \in Threads, record_backup(t)
  PROVE  KeyInductive'
<1>1. At(t, "record") /\ ~At(t, "promote") /\ chore[t] # Idle
  BY DEF record_backup, At, Idle
<1>2. /\ Of(t).up /\ Of(t) \in Running /\ chore[t] \in Recording
  BY <1>1, ThreadTyped DEF KeyInductive, ChoresAreSensible
<1>3. PICK b : b = [key |-> Of(t).active, contents |-> chore[t].contents, file |-> TRUE]
  OBVIOUS
<1>4. b \in Backups /\ b.file = TRUE
  BY <1>2, <1>3 DEF Backups, Running, Recording
<1>5. backups' = Append(backups, b)
  BY <1>3 DEF record_backup
<1>6. PICK j : j = IF chore[t].rotating THEN [kind |-> "check", backup |-> Len(backups) + 1] ELSE Idle
  OBVIOUS
<1>7. chore' = [chore EXCEPT ![t] = j] /\ UNCHANGED <<rows, keyFile, environ, process, rotations, late>>
  BY <1>6 DEF record_backup, Go
<1>8. Len(backups) \in Nat
  BY BackupsTyped DEF KeyInductive
<1>9. /\ j \in Chores /\ j.kind \in {"idle", "check"}
      /\ j.kind = "check" => j.backup = Len(backups) + 1
  BY <1>6, <1>8 DEF Chores, Checks, Idle
<1>10. /\ chore' \in [Threads -> Chores] /\ chore'[t] = j
       /\ \A u \in Threads : u # t => chore'[u] = chore[u]
       /\ LastKey' = LastKey /\ Introduced' = Introduced
       /\ NextIsNew' /\ PromotesOnce' /\ CompletesInOrder'
  BY <1>1, <1>7, <1>9, QuietSteps
<1>11. \A u \in Threads : At(u, "prune")' => chore'[u] = chore[u]
  BY <1>9, <1>10 DEF At
<1>12. RotationsAreOrderly' /\ PointsAreKept'
  BY <1>4, <1>5, <1>7, <1>11, BackupKept
<1>13. /\ backups' \in Seq(Backups) /\ Len(backups) + 1 \in DOMAIN backups'
       /\ DOMAIN backups \subseteq DOMAIN backups'
  BY <1>4, <1>5, BackupAdded DEF KeyInductive
<1>14. StateTypeOK'
  BY <1>7, <1>10, <1>13 DEF KeyInductive, StateTypeOK
<1>15. /\ RowsAreIntroduced' /\ EnvironmentIsSensible' /\ KeyFileFollows'
       /\ ProcessesAreSensible'
  BY <1>7, RowsFrame, EnvironmentFrame, KeyFileFrame, ProcessesFrame DEF KeyInductive
<1>16. ChoresAreSensible'
  BY <1>2, <1>7, <1>9, <1>10, <1>13 DEF KeyInductive, ChoresAreSensible, At, Of
<1>17. ReadsOrPromotes'
  <2>1. KeysInUse' = KeysInUse
    BY <1>7 DEF KeysInUse, Stored
  <2> QED BY <1>1, <1>7, <1>10, <2>1 DEF KeyInductive, ReadsOrPromotes, Alone, At
<1> QED BY <1>10, <1>12, <1>14, <1>15, <1>16, <1>17 DEF KeyInductive

LEMMA ImportBackup ==
  ASSUME KeyInductive, NEW t \in Threads, import_database_backup(t)
  PROVE  KeyInductive'
<1>1. Of(t).up /\ Of(t) \in Running
  BY ThreadTyped DEF import_database_backup, Ready, KeyInductive
<1>2. PICK k \in Of(t).ring :
        backups' = Append(backups, [key |-> k, contents |-> {k}, file |-> TRUE])
  BY DEF import_database_backup
<1>3. PICK b : b = [key |-> k, contents |-> {k}, file |-> TRUE]
  OBVIOUS
<1>4. b \in Backups /\ b.file = TRUE
  BY <1>1, <1>2, <1>3 DEF Backups, Running
<1>5. backups' = Append(backups, b)
  BY <1>2, <1>3
<1>6. UNCHANGED <<rows, keyFile, environ, process, rotations, chore, late>>
  BY DEF import_database_backup
<1>7. RotationsAreOrderly' /\ PointsAreKept'
  BY <1>4, <1>5, <1>6, BackupKept
<1>8. backups' \in Seq(Backups) /\ DOMAIN backups \subseteq DOMAIN backups'
  BY <1>4, <1>5, BackupAdded DEF KeyInductive
<1>9. StateTypeOK'
  BY <1>6, <1>8 DEF KeyInductive, StateTypeOK
<1>10. /\ RowsAreIntroduced' /\ EnvironmentIsSensible' /\ KeyFileFollows'
       /\ ProcessesAreSensible'
  BY <1>6, RowsFrame, EnvironmentFrame, KeyFileFrame, ProcessesFrame DEF KeyInductive
<1>11. LastKey' = LastKey /\ Introduced' = Introduced /\ Pending' = Pending /\ KeysInUse' = KeysInUse
  BY <1>6 DEF LastKey, Introduced, Pending, KeysInUse, Stored
<1>12. NextIsNew'
  BY <1>6, <1>11 DEF KeyInductive, NextIsNew, CanRotate, WillRotate, At, Of
<1>13. ChoresAreSensible'
  BY <1>6, <1>8, <1>11 DEF KeyInductive, ChoresAreSensible, At, Of
<1>14. PromotesOnce'
  BY <1>6, <1>11 DEF KeyInductive, PromotesOnce, At, Of
<1>15. CompletesInOrder'
  BY <1>6, <1>11 DEF KeyInductive, CompletesInOrder, Completes, At
<1>16. ReadsOrPromotes'
  BY <1>6, <1>11 DEF KeyInductive, ReadsOrPromotes, Alone, At
<1> QED BY <1>7, <1>9, <1>10, <1>12, <1>13, <1>14, <1>15, <1>16 DEF KeyInductive

LEMMA Prune ==
  ASSUME KeyInductive, NEW t \in Threads, prune(t)
  PROVE  KeyInductive'
<1>1. At(t, "prune") /\ ~At(t, "promote")
  BY DEF prune, At
<1>2. PICK gone : gone = chore[t].victims
  OBVIOUS
<1>3. /\ backups' = [b \in DOMAIN backups |->
                       IF b \in gone THEN [backups[b] EXCEPT !.file = FALSE] ELSE backups[b]]
      /\ chore' = [chore EXCEPT ![t] = Idle]
      /\ UNCHANGED <<rows, keyFile, environ, process, rotations, late>>
  BY <1>2 DEF prune, Go
<1>4. Idle \in Chores /\ Idle.kind = "idle"
  BY DEF Chores, Idle
<1>5. /\ chore' \in [Threads -> Chores] /\ chore'[t] = Idle
      /\ \A u \in Threads : u # t => chore'[u] = chore[u]
      /\ LastKey' = LastKey /\ Introduced' = Introduced
      /\ NextIsNew' /\ PromotesOnce' /\ CompletesInOrder'
  BY <1>1, <1>3, <1>4, QuietSteps
<1>6. /\ Len(backups) \in Nat /\ DOMAIN backups = 1..Len(backups)
      /\ \A b \in DOMAIN backups : backups[b] \in Backups
  BY BackupsTyped DEF KeyInductive
<1>7. \A b \in DOMAIN backups : backups'[b] \in Backups
  BY <1>3, <1>6 DEF Backups
<1>8. backups' \in [1..Len(backups) -> Backups]
  BY <1>3, <1>6, <1>7
<1>9. /\ backups' \in Seq(Backups) /\ Len(backups') = Len(backups)
      /\ DOMAIN backups' = DOMAIN backups
  BY <1>6, <1>8, LenProperties
<1>10. \A b \in DOMAIN backups : b \notin gone => backups'[b] = backups[b]
  BY <1>3
<1>11. /\ Len(backups) \notin gone
       /\ \A i \in DOMAIN rotations : rotations[i].backup \in gone => rotations[i].overtaken
  BY <1>1, <1>2, <1>6 DEF KeyInductive, PointsAreKept
<1>12. StateTypeOK'
  BY <1>3, <1>5, <1>9 DEF KeyInductive, StateTypeOK
<1>13. /\ RowsAreIntroduced' /\ EnvironmentIsSensible' /\ KeyFileFollows'
       /\ ProcessesAreSensible'
  BY <1>3, RowsFrame, EnvironmentFrame, KeyFileFrame, ProcessesFrame DEF KeyInductive
<1>14. RotationsAreOrderly'
  BY <1>3, <1>9 DEF KeyInductive, RotationsAreOrderly, Pending
<1>15. ChoresAreSensible'
  BY <1>3, <1>4, <1>5, <1>9 DEF KeyInductive, ChoresAreSensible, At, Of
<1>16. ReadsOrPromotes'
  <2>1. KeysInUse' = KeysInUse
    BY <1>3 DEF KeysInUse, Stored
  <2> QED BY <1>1, <1>3, <1>5, <2>1 DEF KeyInductive, ReadsOrPromotes, Alone, At
<1>17. PointsAreKept'
  <2>1. backups' # <<>> => backups'[Len(backups')].file
    <3>1. backups' # <<>> => Len(backups) \in DOMAIN backups /\ backups # <<>>
      BY <1>6, <1>9, EmptySeq
    <3> QED BY <1>9, <1>10, <1>11, <3>1 DEF KeyInductive, PointsAreKept
  <2>2. \A i \in DOMAIN rotations : rotations[i].backup \in DOMAIN backups
    BY DEF KeyInductive, RotationsAreOrderly
  <2>3. \A i \in DOMAIN rotations :
          backups'[rotations[i].backup].file \/ rotations[i].overtaken
    BY <1>10, <1>11, <2>2 DEF KeyInductive, PointsAreKept
  <2>4. \A u \in Threads : At(u, "prune")' =>
          \A v \in chore'[u].victims :
            /\ v \in DOMAIN backups /\ v < Len(backups)
            /\ \A i \in DOMAIN rotations : rotations[i].backup = v => rotations[i].overtaken
    BY <1>4, <1>5 DEF KeyInductive, PointsAreKept, At
  <2> QED BY <1>3, <1>9, <2>1, <2>3, <2>4 DEF PointsAreKept
<1> QED BY <1>5, <1>12, <1>13, <1>14, <1>15, <1>16, <1>17 DEF KeyInductive

-----------------------------------------------------------------------------
(***************************************************************************)
(* Keys: the rotation.                                                     *)
(***************************************************************************)
LEMMA RotationAdded ==
  ASSUME StateTypeOK, Pending = {}, NEW r \in Rotations, r.status = "pending_activation",
         rotations' = Append(rotations, r)
  PROVE  /\ rotations' \in Seq(Rotations) /\ Len(rotations') = Len(rotations) + 1
         /\ Len(rotations) \in Nat /\ DOMAIN rotations = 1..Len(rotations)
         /\ DOMAIN rotations' = DOMAIN rotations \cup {Len(rotations) + 1}
         /\ \A i \in DOMAIN rotations : rotations'[i] = rotations[i]
         /\ rotations'[Len(rotations) + 1] = r
         /\ LastKey' = r.new /\ Introduced' = Introduced \cup {r.new}
         /\ Pending' = {Len(rotations) + 1}
<1>1. /\ rotations' \in Seq(Rotations) /\ Len(rotations') = Len(rotations) + 1
      /\ Len(rotations) \in Nat /\ DOMAIN rotations = 1..Len(rotations)
      /\ DOMAIN rotations' = 1..(Len(rotations) + 1)
      /\ \A i \in DOMAIN rotations : rotations'[i] = rotations[i]
      /\ rotations'[Len(rotations) + 1] = r
  BY DEF StateTypeOK
<1>2. DOMAIN rotations' = DOMAIN rotations \cup {Len(rotations) + 1}
  BY <1>1
<1>3. rotations' # <<>>
  BY <1>1
<1>4. LastKey' = r.new
  BY <1>1, <1>3 DEF LastKey
<1>5. Introduced' = Introduced \cup {r.new}
  BY <1>1, <1>2 DEF Introduced
<1>6. Pending' = {Len(rotations) + 1}
  BY <1>1, <1>2 DEF Pending
<1> QED BY <1>1, <1>2, <1>4, <1>5, <1>6

LEMMA RotationDone ==
  ASSUME StateTypeOK, NEW i \in DOMAIN rotations,
         rotations' = [rotations EXCEPT ![i].status = "activated"]
  PROVE  /\ rotations' \in Seq(Rotations) /\ Len(rotations') = Len(rotations)
         /\ DOMAIN rotations' = DOMAIN rotations
         /\ \A k \in DOMAIN rotations :
              /\ rotations'[k].new = rotations[k].new /\ rotations'[k].old = rotations[k].old
              /\ rotations'[k].backup = rotations[k].backup
              /\ rotations'[k].overtaken = rotations[k].overtaken
         /\ LastKey' = LastKey /\ Introduced' = Introduced
         /\ Pending' = Pending \ {i}
<1>1. /\ Len(rotations) \in Nat /\ DOMAIN rotations = 1..Len(rotations)
      /\ \A k \in DOMAIN rotations : rotations[k] \in Rotations
  BY KeysTyped
<1>2. PICK r : r = [rotations[i] EXCEPT !.status = "activated"]
  OBVIOUS
<1>3. /\ r \in Rotations /\ r.new = rotations[i].new /\ r.old = rotations[i].old
      /\ r.backup = rotations[i].backup /\ r.overtaken = rotations[i].overtaken
      /\ r.status = "activated"
  BY <1>1, <1>2 DEF Rotations
<1>4. rotations' = [rotations EXCEPT ![i] = r]
  BY <1>2
<1>5. /\ DOMAIN rotations' = DOMAIN rotations /\ rotations'[i] = r
      /\ \A k \in DOMAIN rotations : k # i => rotations'[k] = rotations[k]
  BY <1>4
<1>6. rotations' \in [1..Len(rotations) -> Rotations]
  BY <1>1, <1>3, <1>4
<1>7. rotations' \in Seq(Rotations) /\ Len(rotations') = Len(rotations)
  BY <1>1, <1>6, LenProperties
<1>8. \A k \in DOMAIN rotations :
        /\ rotations'[k].new = rotations[k].new /\ rotations'[k].old = rotations[k].old
        /\ rotations'[k].backup = rotations[k].backup
        /\ rotations'[k].overtaken = rotations[k].overtaken
  BY <1>3, <1>5
<1>9. Introduced' = Introduced
  BY <1>5, <1>8 DEF Introduced
<1>10. LastKey' = LastKey
  <2>1. rotations # <<>> /\ rotations' # <<>> /\ Len(rotations) \in DOMAIN rotations
    BY <1>1, <1>5
  <2> QED BY <1>7, <1>8, <2>1 DEF LastKey
<1>11. Pending' = Pending \ {i}
  BY <1>3, <1>5 DEF Pending
<1> QED BY <1>5, <1>7, <1>8, <1>9, <1>10, <1>11

\* The transaction: every row is under the next key, and the row of the
\* rotation says so, before any protector does.
LEMMA Reencrypted ==
  ASSUME KeyInductive, NEW t \in Threads, reencrypt(t), Decryptable(chore[t].ring)
  PROVE  KeyInductive'
<1>1. PICK c : c = chore[t]
  OBVIOUS
<1>2. /\ At(t, "reencrypt") /\ c.kind = "reencrypt" /\ chore[t] # Idle
  BY <1>1 DEF reencrypt, At, Idle
<1>3. /\ c \in Reencrypts /\ c.new \in Keys /\ c.old \in Keys /\ c.backup \in Nat
      /\ c.ring \subseteq Keys
      /\ Of(t).up /\ ProcessOf[t] \in Processes
      /\ c.old # c.new /\ c.new = Of(t).next /\ c.backup \in DOMAIN backups
  BY <1>1, <1>2, ThreadTyped DEF KeyInductive, ChoresAreSensible, Reencrypts
<1>4. LastKey \in c.ring
  BY <1>1, FirstRowInUse DEF KeyInductive, Decryptable
<1>5. /\ Pending = {} /\ c.new \notin Introduced /\ c.ring = Of(t).ring
      /\ environ.next \notin Introduced
  BY <1>1, <1>2, <1>4 DEF KeyInductive, NextIsNew, WillRotate
<1>6. PICK r : r = [backup |-> c.backup, old |-> c.old, new |-> c.new,
                    status |-> "pending_activation", overtaken |-> c.backup < Len(backups)]
  OBVIOUS
<1>7. PICK j : j = [kind |-> "promote", rotation |-> Len(rotations) + 1,
                    ring |-> c.ring \cup {c.new}, new |-> c.new]
  OBVIOUS
<1>8. /\ rows' = Under(c.new) /\ rotations' = Append(rotations, r)
      /\ chore' = [chore EXCEPT ![t] = j]
      /\ UNCHANGED <<keyFile, environ, process, backups, late>>
  BY <1>1, <1>6, <1>7 DEF reencrypt, Go
<1>9. /\ r \in Rotations /\ r.status = "pending_activation" /\ r.new = c.new /\ r.old = c.old
      /\ r.backup = c.backup /\ r.overtaken = (c.backup < Len(backups))
  BY <1>3, <1>6 DEF Rotations
<1>10. /\ rotations' \in Seq(Rotations) /\ Len(rotations') = Len(rotations) + 1
       /\ Len(rotations) \in Nat /\ DOMAIN rotations = 1..Len(rotations)
       /\ DOMAIN rotations' = DOMAIN rotations \cup {Len(rotations) + 1}
       /\ \A i \in DOMAIN rotations : rotations'[i] = rotations[i]
       /\ rotations'[Len(rotations) + 1] = r
       /\ LastKey' = c.new /\ Introduced' = Introduced \cup {c.new}
       /\ Pending' = {Len(rotations) + 1}
  BY <1>5, <1>8, <1>9, RotationAdded DEF KeyInductive
<1>11. /\ j \in Chores /\ j.kind = "promote" /\ j.rotation = Len(rotations) + 1
       /\ j.new = c.new /\ j.ring = c.ring \cup {c.new}
  BY <1>3, <1>7, <1>10 DEF Chores, Completing
<1>12. /\ chore' \in [Threads -> Chores] /\ chore'[t] = j
       /\ \A u \in Threads : u # t => chore'[u] = chore[u]
  BY <1>8, <1>11 DEF KeyInductive, StateTypeOK
<1>13. /\ rows' \in [Rows -> Keys \cup {NoKey}] /\ rows'[FirstRow] = c.new
       /\ KeysInUse' = {c.new}
  BY <1>3, <1>8, AllUnder DEF KeyInductive
<1>14. /\ \A p \in Processes : process[p].up => process[p].ring \subseteq Introduced
       /\ \A u \in Threads : chore[u] # Idle => Of(u).up /\ Of(u).ring \subseteq Introduced
  BY ThreadTyped DEF KeyInductive, ProcessesAreSensible, ChoresAreSensible, Of
<1>15. StateTypeOK'
  BY <1>8, <1>10, <1>12, <1>13 DEF KeyInductive, StateTypeOK
<1>16. RowsAreIntroduced'
  BY <1>10, <1>13 DEF RowsAreIntroduced
<1>17. RotationsAreOrderly'
  BY <1>3, <1>8, <1>9, <1>10 DEF KeyInductive, RotationsAreOrderly
<1>18. EnvironmentIsSensible'
  BY <1>5, <1>8, <1>10 DEF KeyInductive, EnvironmentIsSensible
<1>19. KeyFileFollows'
  BY <1>8, <1>10 DEF KeyInductive, KeyFileFollows
<1>20. NextIsNew'
  <2>1. \A p \in Processes : ~CanRotate(p)'
    BY <1>5, <1>8, <1>10, <1>14 DEF CanRotate
  <2>2. ASSUME NEW u \in Threads PROVE ~WillRotate(u)'
    <3>1. CASE u = t
      BY <1>11, <1>12, <3>1 DEF WillRotate, At
    <3>2. CASE u # t
      <4>1. At(u, "reencrypt") => chore[u].ring \subseteq Introduced
        BY DEF KeyInductive, ChoresAreSensible
      <4> QED BY <1>5, <1>10, <1>12, <3>2, <4>1 DEF WillRotate, At
    <3> QED BY <3>1, <3>2
  <2>3. environ'.next \in Introduced' => environ'.next = LastKey'
    BY <1>5, <1>8, <1>10
  <2> QED BY <2>1, <2>2, <2>3 DEF NextIsNew
<1>21. ProcessesAreSensible'
  BY <1>8, <1>10 DEF KeyInductive, ProcessesAreSensible
<1>22. ChoresAreSensible'
  BY <1>3, <1>8, <1>10, <1>11, <1>12 DEF KeyInductive, ChoresAreSensible, At, Of
<1>23. PromotesOnce'
  <2>1. ASSUME NEW u \in Threads, At(u, "promote"), ProcessOf[u] = ProcessOf[t] PROVE FALSE
    BY <1>4, <1>5, <2>1 DEF KeyInductive, PromotesOnce, Of
  <2>2. ASSUME NEW u \in Threads, u # t, At(u, "promote")'
        PROVE  /\ At(u, "promote") /\ chore[u] # Idle /\ chore'[u] = chore[u]
               /\ LastKey' \notin Of(u).ring
    BY <1>5, <1>10, <1>12, <1>14, <2>2 DEF At, Idle
  <2>3. LastKey' \notin Of(t).ring
    BY <1>2, <1>5, <1>10, <1>14
  <2>4. ASSUME NEW u \in Threads, At(u, "promote")'
        PROVE  /\ LastKey' \notin Of(u).ring /\ chore'[u].new = Of(u).next
               /\ chore'[u].ring = Of(u).ring \cup {chore'[u].new}
    <3>1. CASE u = t
      BY <1>3, <1>5, <1>11, <1>12, <2>3, <3>1
    <3>2. CASE u # t
      BY <2>2, <2>4, <3>2 DEF KeyInductive, PromotesOnce
    <3> QED BY <3>1, <3>2
  <2>5. ASSUME NEW u \in Threads, NEW v \in Threads, At(u, "promote")', At(v, "promote")',
               ProcessOf[v] = ProcessOf[u]
        PROVE  v = u
    BY <2>1, <2>2, <2>5 DEF KeyInductive, PromotesOnce
  <2> QED BY <1>8, <2>4, <2>5 DEF PromotesOnce, Of
<1>24. CompletesInOrder'
  <2>1. ASSUME NEW u \in Threads, u # t, Completes(u)'
        PROVE  /\ Completes(u) /\ chore'[u] = chore[u] /\ chore[u].rotation \in DOMAIN rotations
               /\ chore[u].rotation # Len(rotations) + 1
               /\ chore[u].new = rotations'[chore[u].rotation].new
               /\ environ.active = NoKey =>
                    At(u, "activate") /\ chore[u].rotation < Len(rotations) + 1
    <3>1. Completes(u) /\ chore'[u] = chore[u]
      BY <1>12, <2>1 DEF Completes, At
    <3>2. chore[u].rotation \in DOMAIN rotations /\ chore[u].new = rotations[chore[u].rotation].new
      BY <3>1 DEF KeyInductive, CompletesInOrder
    <3>3. environ.active = NoKey => At(u, "activate")
      BY <1>5, <3>1 DEF KeyInductive, CompletesInOrder
    <3>4. chore[u].rotation < Len(rotations) + 1
      BY <1>10, <3>2
    <3> QED BY <1>10, <3>1, <3>2, <3>3, <3>4
  <2>2. /\ Completes(t)' /\ At(t, "promote")' /\ ~At(t, "activate")'
        /\ chore'[t].rotation = Len(rotations') /\ chore'[t].rotation \in DOMAIN rotations'
        /\ chore'[t].new = rotations'[chore'[t].rotation].new
        /\ Pending' = {Len(rotations')}
        /\ keyFile' # LastKey'
    BY <1>5, <1>8, <1>9, <1>10, <1>11, <1>12
       DEF Completes, At, KeyInductive, KeyFileFollows
  <2>3. ASSUME NEW u \in Threads, Completes(u)'
        PROVE  /\ chore'[u].rotation \in DOMAIN rotations'
               /\ chore'[u].new = rotations'[chore'[u].rotation].new
               /\ environ'.active = NoKey =>
                    IF At(u, "activate")'
                    THEN chore'[u].rotation < Len(rotations') \/ keyFile' = LastKey'
                    ELSE /\ chore'[u].rotation = Len(rotations') /\ keyFile' # LastKey'
                         /\ Pending' = {Len(rotations')}
    <3>1. CASE u = t
      BY <2>2, <3>1
    <3>2. CASE u # t
      <4>1. At(u, "activate")' = At(u, "activate")
        BY <1>12, <3>2 DEF At
      <4> QED BY <1>8, <1>10, <2>1, <2>3, <3>2, <4>1
    <3> QED BY <3>1, <3>2
  <2>4. ASSUME NEW u \in Threads, NEW v \in Threads, Completes(u)', Completes(v)',
               chore'[v].rotation = chore'[u].rotation
        PROVE  v = u
    <3>1. CASE u # t /\ v # t
      BY <2>1, <2>4, <3>1 DEF KeyInductive, CompletesInOrder
    <3>2. CASE u = t \/ v = t
      BY <1>10, <2>1, <2>2, <2>4, <3>2
    <3> QED BY <3>1, <3>2
  <2> QED BY <2>3, <2>4 DEF CompletesInOrder
<1>25. ReadsOrPromotes'
  <2>1. At(t, "promote")' /\ KeysInUse' \subseteq chore'[t].ring
    BY <1>11, <1>12, <1>13 DEF At
  <2> QED BY <2>1 DEF ReadsOrPromotes
<1>26. PointsAreKept'
  <2>1. Len(backups) \in Nat /\ DOMAIN backups = 1..Len(backups)
    BY BackupsTyped DEF KeyInductive
  <2>2. c.backup < Len(backups) \/ (c.backup = Len(backups) /\ backups # <<>>)
    BY <1>3, <2>1
  <2>3. backups[r.backup].file \/ r.overtaken
    <3>1. CASE c.backup < Len(backups)
      BY <1>9, <3>1
    <3>2. CASE c.backup = Len(backups) /\ backups # <<>>
      BY <1>9, <3>2 DEF KeyInductive, PointsAreKept
    <3> QED BY <2>2, <3>1, <3>2
  <2>4. \A i \in DOMAIN rotations' :
          backups[rotations'[i].backup].file \/ rotations'[i].overtaken
    BY <1>10, <2>3 DEF KeyInductive, PointsAreKept
  <2>5. ASSUME NEW u \in Threads, At(u, "prune")', NEW v \in chore'[u].victims
        PROVE  /\ v \in DOMAIN backups /\ v < Len(backups)
               /\ \A i \in DOMAIN rotations' : rotations'[i].backup = v => rotations'[i].overtaken
    <3>1. At(u, "prune") /\ chore'[u] = chore[u]
      BY <1>11, <1>12, <2>5 DEF At
    <3>2. /\ v \in DOMAIN backups /\ v < Len(backups)
          /\ \A i \in DOMAIN rotations : rotations[i].backup = v => rotations[i].overtaken
      BY <2>5, <3>1 DEF KeyInductive, PointsAreKept
    <3>3. r.backup = v => r.overtaken
      BY <1>9, <3>2
    <3> QED BY <1>10, <3>2, <3>3
  <2>6. backups # <<>> => backups[Len(backups)].file
    BY DEF KeyInductive, PointsAreKept
  <2> QED BY <1>8, <2>4, <2>5, <2>6 DEF PointsAreKept
<1> QED BY <1>15, <1>16, <1>17, <1>18, <1>19, <1>20, <1>21, <1>22, <1>23, <1>24, <1>25, <1>26
        DEF KeyInductive

LEMMA Reencrypt ==
  ASSUME KeyInductive, NEW t \in Threads, reencrypt(t)
  PROVE  KeyInductive'
<1>1. CASE Decryptable(chore[t].ring)
  BY <1>1, Reencrypted
<1>2. CASE ~Decryptable(chore[t].ring)
  <2>1. /\ chore' = [chore EXCEPT ![t] = Idle]
        /\ UNCHANGED <<rows, keyFile, environ, process, rotations, backups, late>>
    BY <1>2 DEF reencrypt, Go
  <2>2. ~At(t, "promote")
    BY DEF reencrypt, At
  <2> QED BY <2>1, <2>2, IdleMoves
<1> QED BY <1>1, <1>2

\* The protector of the process changes.
LEMMA Promote ==
  ASSUME KeyInductive, NEW t \in Threads, promote(t)
  PROVE  KeyInductive'
<1>1. PICK c : c = chore[t]
  OBVIOUS
<1>2. PICK P : P = ProcessOf[t]
  OBVIOUS
<1>3. At(t, "promote") /\ Completes(t) /\ c.kind = "promote" /\ chore[t] # Idle
  BY <1>1 DEF promote, At, Completes, Idle
<1>4. /\ c \in Completing /\ c.new \in Keys /\ c.ring \subseteq Keys /\ c.rotation \in Nat
      /\ P \in Processes /\ Of(t) = process[P] /\ process[P] \in Running /\ process[P].up
  BY <1>1, <1>2, <1>3, ThreadTyped DEF KeyInductive, ChoresAreSensible, Completing
<1>5. /\ LastKey \notin process[P].ring /\ c.new = process[P].next
      /\ c.ring = process[P].ring \cup {c.new}
      /\ \A u \in Threads : At(u, "promote") /\ ProcessOf[u] = P => u = t
  BY <1>1, <1>2, <1>3, <1>4 DEF KeyInductive, PromotesOnce
<1>6. c.rotation \in DOMAIN rotations /\ c.new = rotations[c.rotation].new
  BY <1>1, <1>3 DEF KeyInductive, CompletesInOrder
<1>7. PICK R : R = [process[P] EXCEPT !.active = c.new, !.ring = c.ring]
  OBVIOUS
<1>8. /\ R \in Running /\ R.up /\ R.active = c.new /\ R.ring = c.ring
      /\ R.next = process[P].next
  BY <1>4, <1>7 DEF Running
<1>9. PICK j : j = IF Of(t).managed THEN Idle ELSE [c EXCEPT !.kind = "file"]
  OBVIOUS
<1>10. /\ j \in Chores /\ (j = Idle \/ (j.kind = "file" /\ j.new = c.new /\ j.rotation = c.rotation))
       /\ Idle.kind = "idle"
  BY <1>4, <1>9 DEF Chores, Completing, Idle
<1>11. /\ process' = [process EXCEPT ![P] = R] /\ chore' = [chore EXCEPT ![t] = j]
       /\ UNCHANGED <<rows, keyFile, environ, rotations, backups, late>>
  <2>1. process' = [process EXCEPT ![P] = R]
    BY <1>1, <1>2, <1>7 DEF promote, KeepsOld
  <2>2. FileFirst[1] = "file"
    BY DEF FileFirst
  <2>3. chore' = [chore EXCEPT ![t] = j]
    BY <1>1, <1>9, <2>2 DEF promote, Go
  <2> QED BY <2>1, <2>3 DEF promote
<1>12. /\ chore' \in [Threads -> Chores] /\ chore'[t] = j
       /\ \A u \in Threads : u # t => chore'[u] = chore[u]
  BY <1>10, <1>11 DEF KeyInductive, StateTypeOK
<1>13. /\ process' \in [Processes -> {Down, Absent} \cup Running] /\ process'[P] = R
       /\ \A p \in Processes : p # P => process'[p] = process[p]
  BY <1>4, <1>8, <1>11 DEF KeyInductive, StateTypeOK
<1>14. LastKey' = LastKey /\ Introduced' = Introduced /\ Pending' = Pending /\ KeysInUse' = KeysInUse
  BY <1>11 DEF LastKey, Introduced, Pending, KeysInUse, Stored
<1>15. StateTypeOK'
  BY <1>11, <1>12, <1>13 DEF KeyInductive, StateTypeOK
<1>16. RowsAreIntroduced' /\ RotationsAreOrderly' /\ EnvironmentIsSensible' /\ KeyFileFollows'
  BY <1>11, RowsFrame, RotationsFrame, EnvironmentFrame, KeyFileFrame DEF KeyInductive
<1>17. c.new \in Introduced /\ process[P].ring \subseteq Introduced
  BY <1>4, <1>6 DEF Introduced, KeyInductive, ProcessesAreSensible
<1>18. \A u \in Threads : ProcessOf[u] \in Processes
  BY KeyAssumption
<1>19. NextIsNew'
  <2>1. \A p \in Processes : CanRotate(p)' => p # P /\ CanRotate(p) /\ process'[p] = process[p]
    BY <1>5, <1>8, <1>13, <1>14 DEF CanRotate
  <2>2. ASSUME NEW u \in Threads, WillRotate(u)'
        PROVE  WillRotate(u) /\ chore'[u] = chore[u] /\ Of(u)' = Of(u)
    <3>1. WillRotate(u) /\ chore'[u] = chore[u]
      BY <1>10, <1>12, <1>14, <2>2 DEF WillRotate, At
    <3>2. ProcessOf[u] # P
      BY <1>5, <3>1 DEF KeyInductive, NextIsNew, WillRotate, Of
    <3> QED BY <1>13, <1>18, <3>1, <3>2 DEF Of
  <2>3. environ'.next \in Introduced' =>
          /\ environ'.next = LastKey' /\ \A p \in Processes : ~CanRotate(p)'
          /\ \A u \in Threads : ~WillRotate(u)'
    BY <1>11, <1>14, <2>1, <2>2 DEF KeyInductive, NextIsNew
  <2>4. \A p \in Processes : CanRotate(p)' => process'[p].next \notin Introduced'
    BY <1>14, <2>1 DEF KeyInductive, NextIsNew
  <2>5. \A u \in Threads : WillRotate(u)' =>
          Pending' = {} /\ chore'[u].new \notin Introduced' /\ chore'[u].ring = Of(u)'.ring
    BY <1>14, <2>2 DEF KeyInductive, NextIsNew
  <2> QED BY <2>3, <2>4, <2>5 DEF NextIsNew
<1>20. ProcessesAreSensible'
  BY <1>5, <1>8, <1>13, <1>14, <1>17 DEF KeyInductive, ProcessesAreSensible
<1>21. \A u \in Threads : /\ Of(u)'.next = Of(u).next /\ Of(u).ring \subseteq Of(u)'.ring
                          /\ Of(u).up => Of(u)'.up
  BY <1>5, <1>8, <1>13, <1>18 DEF Of
<1>22. ChoresAreSensible'
  <2>1. ASSUME NEW u \in Threads, u # t
        PROVE  /\ chore'[u] # Idle => Of(u)'.up
               /\ At(u, "insert")' => chore'[u].row # FirstRow /\ chore'[u].key \in Of(u)'.ring
               /\ At(u, "check")' => chore'[u].backup \in DOMAIN backups'
               /\ At(u, "reencrypt")' =>
                    /\ chore'[u].old # chore'[u].new /\ chore'[u].new = Of(u)'.next
                    /\ chore'[u].ring \subseteq Introduced' /\ chore'[u].backup \in DOMAIN backups'
    <3>1. chore'[u] = chore[u]
      BY <1>12, <2>1
    <3> QED BY <1>11, <1>14, <1>21, <3>1 DEF KeyInductive, ChoresAreSensible, At
  <2>2. /\ Of(t)'.up /\ ~At(t, "insert")' /\ ~At(t, "check")' /\ ~At(t, "reencrypt")'
    BY <1>4, <1>10, <1>12, <1>21 DEF At
  <2> QED BY <2>1, <2>2 DEF ChoresAreSensible
<1>23. PromotesOnce'
  <2>1. ASSUME NEW u \in Threads, At(u, "promote")'
        PROVE  At(u, "promote") /\ chore'[u] = chore[u] /\ Of(u)' = Of(u)
    <3>1. u # t /\ At(u, "promote") /\ chore'[u] = chore[u]
      BY <1>10, <1>12, <2>1 DEF At
    <3>2. ProcessOf[u] # P
      BY <1>5, <3>1
    <3> QED BY <1>13, <1>18, <3>1, <3>2 DEF Of
  <2> QED BY <1>14, <2>1 DEF KeyInductive, PromotesOnce
<1>24. CompletesInOrder'
  <2>1. ASSUME NEW u \in Threads, Completes(u)'
        PROVE  /\ Completes(u) /\ At(u, "activate")' = At(u, "activate")
               /\ chore'[u].rotation = chore[u].rotation /\ chore'[u].new = chore[u].new
    <3>1. CASE u = t
      BY <1>1, <1>3, <1>10, <1>12, <2>1, <3>1 DEF Completes, At
    <3>2. CASE u # t
      BY <1>12, <2>1, <3>2 DEF Completes, At
    <3> QED BY <3>1, <3>2
  <2> QED BY <1>11, <1>14, <2>1 DEF KeyInductive, CompletesInOrder
<1>25. ReadsOrPromotes'
  <2> SUFFICES ASSUME NEW p \in Processes, Alone(p)'
               PROVE  KeysInUse' \subseteq process'[p].ring
                      \/ \E u \in Threads : At(u, "promote")' /\ KeysInUse' \subseteq chore'[u].ring
    BY DEF ReadsOrPromotes
  <2>1. p = P
    BY <1>4, <1>8, <1>13 DEF Alone, Absent
  <2>2. Alone(P)
    BY <1>4, <1>13, <2>1 DEF Alone
  <2>3. ASSUME NEW u \in Threads, At(u, "promote") PROVE u = t
    <3>1. Of(u).up
      BY <2>3 DEF KeyInductive, ChoresAreSensible, At, Idle
    <3>2. ProcessOf[u] = P
      BY <1>18, <2>2, <3>1 DEF Alone, Absent, Of
    <3> QED BY <1>5, <2>3, <3>2
  <2>4. KeysInUse \subseteq c.ring
    BY <1>1, <1>4, <1>5, <2>2, <2>3 DEF KeyInductive, ReadsOrPromotes
  <2> QED BY <1>8, <1>13, <1>14, <2>1, <2>4
<1>26. PointsAreKept'
  BY <1>10, <1>11, <1>12 DEF KeyInductive, PointsAreKept, At
<1> QED BY <1>15, <1>16, <1>19, <1>20, <1>22, <1>23, <1>24, <1>25, <1>26 DEF KeyInductive

\* The key file is replaced, and the row of the rotation still to be completed.
LEMMA ReplaceKeyFile ==
  ASSUME KeyInductive, NEW t \in Threads, replace_key_file(t)
  PROVE  KeyInductive'
<1>1. PICK c : c = chore[t]
  OBVIOUS
<1>2. At(t, "file") /\ Completes(t) /\ c.kind = "file" /\ chore[t] # Idle /\ ~At(t, "promote")
  BY <1>1 DEF replace_key_file, At, Completes, Idle
<1>3. c \in Completing /\ c.new \in Keys /\ Of(t).up
  BY <1>1, <1>2, ThreadTyped DEF KeyInductive, ChoresAreSensible, Completing
<1>4. PICK j : j = [c EXCEPT !.kind = "activate"]
  OBVIOUS
<1>5. /\ j \in Chores /\ j.kind = "activate" /\ j.new = c.new /\ j.rotation = c.rotation
  BY <1>3, <1>4 DEF Chores, Completing
<1>6. /\ keyFile' = c.new /\ chore' = [chore EXCEPT ![t] = j]
      /\ UNCHANGED <<rows, environ, process, rotations, backups, late>>
  <2>1. FileFirst[1] = "file" /\ FileFirst[2] = "activate"
    BY DEF FileFirst
  <2> QED BY <1>1, <1>2, <1>4, <2>1 DEF replace_key_file, Onwards, Go, At
<1>7. /\ chore' \in [Threads -> Chores] /\ chore'[t] = j
      /\ \A u \in Threads : u # t => chore'[u] = chore[u]
  BY <1>5, <1>6 DEF KeyInductive, StateTypeOK
<1>8. LastKey' = LastKey /\ Introduced' = Introduced /\ Pending' = Pending /\ KeysInUse' = KeysInUse
  BY <1>6 DEF LastKey, Introduced, Pending, KeysInUse, Stored
<1>9. /\ c.rotation \in DOMAIN rotations /\ c.new = rotations[c.rotation].new
      /\ \A u \in Threads : Completes(u) /\ chore[u].rotation = c.rotation => u = t
      /\ environ.active = NoKey => c.rotation = Len(rotations) /\ Pending = {Len(rotations)}
  BY <1>1, <1>2 DEF KeyInductive, CompletesInOrder, At
<1>10. environ.active = NoKey => c.new = LastKey
  <2>1. rotations # <<>>
    BY <1>9
  <2> QED BY <1>9, <2>1 DEF LastKey
<1>11. StateTypeOK'
  BY <1>3, <1>6, <1>7 DEF KeyInductive, StateTypeOK
<1>12. RowsAreIntroduced' /\ RotationsAreOrderly' /\ EnvironmentIsSensible' /\ ProcessesAreSensible'
  BY <1>6, RowsFrame, RotationsFrame, EnvironmentFrame, ProcessesFrame DEF KeyInductive
<1>13. KeyFileFollows'
  <2>1. c.new \in Introduced
    BY <1>9 DEF Introduced
  <2> QED BY <1>6, <1>8, <1>9, <2>1 DEF KeyFileFollows
<1>14. NextIsNew'
  BY <1>5, <1>6, <1>7, <1>8 DEF KeyInductive, NextIsNew, CanRotate, WillRotate, At, Of
<1>15. ChoresAreSensible'
  BY <1>3, <1>5, <1>6, <1>7, <1>8 DEF KeyInductive, ChoresAreSensible, At, Of
<1>16. PromotesOnce'
  BY <1>5, <1>6, <1>7, <1>8 DEF KeyInductive, PromotesOnce, At, Of
<1>17. CompletesInOrder'
  <2>1. \A u \in Threads : Completes(u)' => Completes(u) /\ chore'[u].rotation = chore[u].rotation
                                            /\ chore'[u].new = chore[u].new
    BY <1>1, <1>2, <1>5, <1>7 DEF Completes, At
  <2>2. ASSUME NEW u \in Threads, Completes(u)', environ.active = NoKey
        PROVE  IF At(u, "activate")'
               THEN chore'[u].rotation < Len(rotations) \/ keyFile' = LastKey
               ELSE /\ chore'[u].rotation = Len(rotations) /\ keyFile' # LastKey
                    /\ Pending = {Len(rotations)}
    <3>1. keyFile' = LastKey
      BY <1>6, <1>10, <2>2
    <3>2. At(u, "activate")'
      <4>1. CASE u = t
        BY <1>5, <1>7, <4>1 DEF At
      <4>2. CASE u # t
        <5>1. chore[u].rotation # Len(rotations) /\ chore'[u] = chore[u] /\ Completes(u)
          BY <1>7, <1>9, <2>1, <2>2, <4>2
        <5>2. At(u, "activate")
          BY <2>2, <5>1 DEF KeyInductive, CompletesInOrder
        <5> QED BY <5>1, <5>2 DEF At
      <4> QED BY <4>1, <4>2
    <3> QED BY <3>1, <3>2
  <2> QED BY <1>6, <1>8, <2>1, <2>2 DEF KeyInductive, CompletesInOrder
<1>18. ReadsOrPromotes'
  BY <1>2, <1>6, <1>7, <1>8 DEF KeyInductive, ReadsOrPromotes, Alone, At
<1>19. PointsAreKept'
  BY <1>5, <1>6, <1>7 DEF KeyInductive, PointsAreKept, At
<1> QED BY <1>11, <1>12, <1>13, <1>14, <1>15, <1>16, <1>17, <1>18, <1>19 DEF KeyInductive

\* What a completed rotation leaves as it was.
LEMMA DoneFrame ==
  ASSUME KeyInductive, NEW i \in DOMAIN rotations,
         rotations' = [rotations EXCEPT ![i].status = "activated"],
         UNCHANGED <<environ, backups>>
  PROVE  /\ rotations' \in Seq(Rotations)
         /\ LastKey' = LastKey /\ Introduced' = Introduced /\ Pending' = Pending \ {i}
         /\ RotationsAreOrderly' /\ EnvironmentIsSensible'
         /\ DOMAIN rotations' = DOMAIN rotations /\ Len(rotations') = Len(rotations)
         /\ \A k \in DOMAIN rotations :
              /\ rotations'[k].new = rotations[k].new
              /\ rotations'[k].backup = rotations[k].backup
              /\ rotations'[k].overtaken = rotations[k].overtaken
<1>1. /\ rotations' \in Seq(Rotations) /\ Len(rotations') = Len(rotations)
      /\ DOMAIN rotations' = DOMAIN rotations
      /\ \A k \in DOMAIN rotations :
           /\ rotations'[k].new = rotations[k].new /\ rotations'[k].old = rotations[k].old
           /\ rotations'[k].backup = rotations[k].backup
           /\ rotations'[k].overtaken = rotations[k].overtaken
      /\ LastKey' = LastKey /\ Introduced' = Introduced
      /\ Pending' = Pending \ {i}
  BY RotationDone DEF KeyInductive
<1>2. RotationsAreOrderly'
  BY <1>1 DEF KeyInductive, RotationsAreOrderly
<1>3. EnvironmentIsSensible'
  BY <1>1 DEF KeyInductive, EnvironmentIsSensible
<1> QED BY <1>1, <1>2, <1>3

LEMMA Activate ==
  ASSUME KeyInductive, NEW t \in Threads, activate(t)
  PROVE  KeyInductive'
<1>1. PICK i : i = chore[t].rotation
  OBVIOUS
<1>2. At(t, "activate") /\ Completes(t) /\ ~At(t, "promote")
  BY DEF activate, At, Completes
<1>3. /\ i \in DOMAIN rotations
      /\ \A u \in Threads : Completes(u) /\ chore[u].rotation = i => u = t
      /\ environ.active = NoKey => i < Len(rotations) \/ keyFile = LastKey
  BY <1>1, <1>2 DEF KeyInductive, CompletesInOrder
<1>4. /\ rotations' = [rotations EXCEPT ![i].status = "activated"]
      /\ chore' = [chore EXCEPT ![t] = Idle]
      /\ UNCHANGED <<rows, keyFile, environ, process, backups, late>>
  <2>1. FileFirst[1] = "file"
    BY DEF FileFirst
  <2> QED BY <1>1, <1>2, <2>1 DEF activate, Onwards, Go, At
<1>5. Idle \in Chores /\ Idle.kind = "idle"
  BY DEF Chores, Idle
<1>6. /\ rotations' \in Seq(Rotations)
      /\ LastKey' = LastKey /\ Introduced' = Introduced /\ Pending' = Pending \ {i}
      /\ RotationsAreOrderly' /\ EnvironmentIsSensible'
      /\ DOMAIN rotations' = DOMAIN rotations /\ Len(rotations') = Len(rotations)
      /\ \A k \in DOMAIN rotations :
           /\ rotations'[k].new = rotations[k].new
           /\ rotations'[k].backup = rotations[k].backup
           /\ rotations'[k].overtaken = rotations[k].overtaken
  BY <1>3, <1>4, DoneFrame
<1>7. /\ chore' \in [Threads -> Chores] /\ chore'[t] = Idle
      /\ \A u \in Threads : u # t => chore'[u] = chore[u]
  BY <1>4, <1>5 DEF KeyInductive, StateTypeOK
<1>8. KeysInUse' = KeysInUse
  BY <1>4 DEF KeysInUse, Stored
<1>9. StateTypeOK'
  BY <1>4, <1>6, <1>7 DEF KeyInductive, StateTypeOK
<1>10. RowsAreIntroduced'
  BY <1>4, <1>6, <1>8 DEF KeyInductive, RowsAreIntroduced
<1>11. Pending \subseteq {Len(rotations)} /\ Len(rotations) \in Nat
  BY KeysTyped DEF KeyInductive, RotationsAreOrderly
<1>12. KeyFileFollows'
  <2>1. CASE Pending = {}
    BY <1>4, <1>6, <2>1 DEF KeyInductive, KeyFileFollows
  <2>2. CASE Pending # {} /\ Pending' # {}
    BY <1>4, <1>6, <2>2 DEF KeyInductive, KeyFileFollows
  <2>3. CASE Pending # {} /\ Pending' = {}
    <3>1. i = Len(rotations)
      BY <1>6, <1>11, <2>3
    <3> QED BY <1>3, <1>4, <1>6, <1>11, <3>1 DEF KeyInductive, KeyFileFollows
  <2> QED BY <2>1, <2>2, <2>3
<1>13. NextIsNew'
  BY <1>4, <1>5, <1>6, <1>7 DEF KeyInductive, NextIsNew, CanRotate, WillRotate, At, Of
<1>14. ProcessesAreSensible'
  BY <1>4, <1>6 DEF KeyInductive, ProcessesAreSensible
<1>15. ChoresAreSensible'
  BY <1>4, <1>5, <1>6, <1>7 DEF KeyInductive, ChoresAreSensible, At, Of
<1>16. PromotesOnce'
  BY <1>4, <1>5, <1>6, <1>7 DEF KeyInductive, PromotesOnce, At, Of
<1>17. CompletesInOrder'
  <2>1. \A u \in Threads : Completes(u)' => u # t /\ Completes(u) /\ chore'[u] = chore[u]
                                            /\ chore[u].rotation \in DOMAIN rotations
    BY <1>5, <1>7 DEF Completes, At, KeyInductive, CompletesInOrder
  <2>2. ASSUME NEW u \in Threads, Completes(u)', environ.active = NoKey
        PROVE  IF At(u, "activate")'
               THEN chore'[u].rotation < Len(rotations') \/ keyFile' = LastKey'
               ELSE /\ chore'[u].rotation = Len(rotations') /\ keyFile' # LastKey'
                    /\ Pending' = {Len(rotations')}
    <3>1. u # t /\ Completes(u) /\ chore'[u] = chore[u] /\ At(u, "activate")' = At(u, "activate")
      BY <2>1, <2>2 DEF At
    <3>2. CASE At(u, "activate")
      BY <1>4, <1>6, <2>2, <3>1, <3>2 DEF KeyInductive, CompletesInOrder
    <3>3. CASE ~At(u, "activate")
      <4>1. /\ chore[u].rotation = Len(rotations) /\ keyFile # LastKey
            /\ Pending = {Len(rotations)}
        BY <2>2, <3>1, <3>3 DEF KeyInductive, CompletesInOrder
      <4>2. i # Len(rotations)
        BY <1>3, <3>1, <4>1
      <4>3. Pending' = {Len(rotations')}
        BY <1>6, <4>1, <4>2
      <4> QED BY <1>4, <1>6, <3>1, <3>3, <4>1, <4>3
    <3> QED BY <3>2, <3>3
  <2>3. \A u \in Threads : Completes(u)' =>
          /\ chore'[u].rotation \in DOMAIN rotations'
          /\ chore'[u].new = rotations'[chore'[u].rotation].new
    BY <1>6, <2>1 DEF KeyInductive, CompletesInOrder
  <2>4. \A u, v \in Threads : Completes(u)' /\ Completes(v)' /\ chore'[v].rotation = chore'[u].rotation
                              => v = u
    BY <2>1 DEF KeyInductive, CompletesInOrder
  <2> QED BY <1>4, <2>2, <2>3, <2>4 DEF CompletesInOrder
<1>18. ReadsOrPromotes'
  BY <1>2, <1>4, <1>7, <1>8 DEF KeyInductive, ReadsOrPromotes, Alone, At
<1>19. PointsAreKept'
  <2>1. \A k \in DOMAIN rotations : rotations[k].backup \in DOMAIN backups
    BY DEF KeyInductive, RotationsAreOrderly
  <2> QED BY <1>4, <1>5, <1>6, <1>7 DEF KeyInductive, PointsAreKept, At
<1> QED BY <1>6, <1>9, <1>10, <1>12, <1>13, <1>14, <1>15, <1>16, <1>17, <1>18, <1>19
        DEF KeyInductive

-----------------------------------------------------------------------------
(***************************************************************************)
(* Keys: processes and the operator.                                       *)
(***************************************************************************)
LEMMA Stop ==
  ASSUME KeyInductive, NEW p \in Processes, stop(p)
  PROVE  KeyInductive'
<1>1. /\ process' = [process EXCEPT ![p] = Down]
      /\ chore' = [t \in Threads |-> IF ProcessOf[t] = p THEN Idle ELSE chore[t]]
      /\ UNCHANGED <<rows, keyFile, environ, rotations, backups, late>>
  BY DEF stop
<1>2. Idle \in Chores /\ Idle.kind = "idle" /\ Down.up = FALSE
  BY DEF Chores, Idle, Down
<1>3. /\ process' \in [Processes -> {Down, Absent} \cup Running] /\ process'[p] = Down
      /\ \A q \in Processes : q # p => process'[q] = process[q]
  BY <1>1 DEF KeyInductive, StateTypeOK
<1>4. \A t \in Threads : chore'[t] = IF ProcessOf[t] = p THEN Idle ELSE chore[t]
  BY <1>1
<1>5. chore' \in [Threads -> Chores]
  BY <1>1, <1>2 DEF KeyInductive, StateTypeOK
<1>6. LastKey' = LastKey /\ Introduced' = Introduced /\ Pending' = Pending
  BY <1>1 DEF LastKey, Introduced, Pending
<1>7. \A t \in Threads : ProcessOf[t] \in Processes
  BY KeyAssumption
<1>8. \A t \in Threads : chore'[t].kind # "idle" =>
        ProcessOf[t] # p /\ chore'[t] = chore[t] /\ Of(t)' = Of(t)
  BY <1>2, <1>3, <1>4, <1>7 DEF Of
<1>9. StateTypeOK'
  BY <1>1, <1>3, <1>5 DEF KeyInductive, StateTypeOK
<1>10. RowsAreIntroduced' /\ RotationsAreOrderly' /\ EnvironmentIsSensible' /\ KeyFileFollows'
  BY <1>1, RowsFrame, RotationsFrame, EnvironmentFrame, KeyFileFrame DEF KeyInductive
<1>11. NextIsNew'
  <2>1. \A q \in Processes : CanRotate(q)' => CanRotate(q) /\ process'[q] = process[q]
    BY <1>2, <1>3, <1>6 DEF CanRotate
  <2>2. \A t \in Threads : WillRotate(t)' => WillRotate(t) /\ chore'[t] = chore[t] /\ Of(t)' = Of(t)
    BY <1>6, <1>8 DEF WillRotate, At
  <2> QED BY <1>1, <1>6, <2>1, <2>2 DEF KeyInductive, NextIsNew
<1>12. ProcessesAreSensible'
  BY <1>2, <1>3, <1>6 DEF KeyInductive, ProcessesAreSensible
<1>13. ChoresAreSensible'
  <2>1. \A t \in Threads : chore'[t] # Idle => ProcessOf[t] # p /\ chore'[t] = chore[t] /\ Of(t)' = Of(t)
    BY <1>3, <1>4, <1>7 DEF Of
  <2>2. \A t \in Threads : chore'[t] # Idle => Of(t)'.up
    BY <2>1 DEF KeyInductive, ChoresAreSensible
  <2>3. \A t \in Threads : At(t, "insert")' => chore'[t].row # FirstRow /\ chore'[t].key \in Of(t)'.ring
    BY <1>8 DEF KeyInductive, ChoresAreSensible, At
  <2>4. \A t \in Threads : At(t, "check")' => chore'[t].backup \in DOMAIN backups'
    BY <1>1, <1>8 DEF KeyInductive, ChoresAreSensible, At
  <2>5. \A t \in Threads : At(t, "reencrypt")' =>
          /\ chore'[t].old # chore'[t].new /\ chore'[t].new = Of(t)'.next
          /\ chore'[t].ring \subseteq Introduced' /\ chore'[t].backup \in DOMAIN backups'
    BY <1>1, <1>6, <1>8 DEF KeyInductive, ChoresAreSensible, At
  <2> QED BY <2>2, <2>3, <2>4, <2>5 DEF ChoresAreSensible
<1>14. PromotesOnce'
  BY <1>6, <1>8 DEF KeyInductive, PromotesOnce, At
<1>15. CompletesInOrder'
  BY <1>1, <1>6, <1>8 DEF KeyInductive, CompletesInOrder, Completes, At
<1>16. ReadsOrPromotes'
  BY <1>2, <1>3, DownIsNotAbsent DEF ReadsOrPromotes, Alone
<1>17. PointsAreKept'
  BY <1>1, <1>8 DEF KeyInductive, PointsAreKept, At
<1> QED BY <1>9, <1>10, <1>11, <1>12, <1>13, <1>14, <1>15, <1>16, <1>17 DEF KeyInductive

\* The pending rotation is the last one.
LEMMA PendingIsLast ==
  ASSUME StateTypeOK, RotationsAreOrderly, Pending # {}
  PROVE  /\ Pending = {Len(rotations)} /\ Max(Pending) = Len(rotations)
         /\ Len(rotations) \in DOMAIN rotations /\ LastKey = rotations[Len(rotations)].new
<1>1. Len(rotations) \in Nat
  BY KeysTyped
<1>2. Pending = {Len(rotations)}
  BY DEF RotationsAreOrderly
<1>3. Len(rotations) \in DOMAIN rotations
  BY <1>2 DEF Pending
<1>4. Max({Len(rotations)}) = Len(rotations)
  BY <1>1 DEF Max
<1>5. rotations # <<>>
  BY <1>3
<1> QED BY <1>2, <1>3, <1>4, <1>5 DEF LastKey

\* A start that can read the rows has the last key as active.
LEMMA StartsUnderLastKey ==
  ASSUME KeyInductive, NewKey(Configured.active)
  PROVE  /\ Configured \in Running /\ Configured.up
         /\ Configured.active \in Configured.ring /\ Configured.ring \subseteq Introduced
         /\ Configured.next = environ.next
         /\ Decryptable(Configured.ring) => Configured.active = LastKey
         /\ environ.active = NoKey => keyFile = LastKey
<1>1. PICK a : a = IF environ.active = NoKey THEN keyFile ELSE environ.active
  OBVIOUS
<1>2. PICK c : c = [up |-> TRUE, active |-> a, ring |-> {a} \cup environ.ring,
                    next |-> environ.next, managed |-> environ.active # NoKey]
  OBVIOUS
<1>3. c = Configured
  BY <1>1, <1>2 DEF Configured
<1>4. /\ environ.active \in Keys \cup {NoKey} /\ environ.next \in Keys /\ environ.ring \subseteq Keys
      /\ keyFile \in Keys
  BY KeyAssumption DEF KeyInductive, StateTypeOK
<1>5. a \in Introduced /\ environ.ring \subseteq Introduced /\ a \in Keys
  BY <1>1, <1>4 DEF KeyInductive, EnvironmentIsSensible, KeyFileFollows
<1>6. /\ c \in Running /\ c.up /\ c.active = a /\ c.ring = {a} \cup environ.ring
      /\ c.next = environ.next
  BY <1>2, <1>4, <1>5 DEF Running
<1>7. Pending # {} => a = LastKey
  <2>1. ASSUME Pending # {} PROVE a = LastKey
    <3>1. Pending = {Len(rotations)} /\ LastKey = rotations[Len(rotations)].new
          /\ Len(rotations) \in Nat
      BY <2>1, PendingIsLast, KeysTyped DEF KeyInductive
    <3> QED BY <1>3, <1>6, <3>1 DEF NewKey
  <2> QED BY <2>1
<1>8. environ.active = NoKey => a = LastKey
  BY <1>1, <1>7 DEF KeyInductive, KeyFileFollows
<1>9. LastKey \in c.ring => a = LastKey
  BY <1>1, <1>6, <1>8 DEF KeyInductive, EnvironmentIsSensible
<1>10. Decryptable(c.ring) => LastKey \in c.ring
  BY FirstRowInUse DEF KeyInductive, Decryptable
<1> QED BY <1>1, <1>3, <1>5, <1>6, <1>8, <1>9, <1>10

LEMMA Start ==
  ASSUME KeyInductive, NEW p \in Processes, start(p)
  PROVE  KeyInductive'
<1>1. PICK c : c = Configured
  OBVIOUS
<1>2. /\ NewKey(c.active) /\ process[p] = Down
      /\ UNCHANGED <<keyFile, environ, backups, chore, late>>
  BY <1>1 DEF start
<1>3. /\ c \in Running /\ c.up /\ c.active \in c.ring /\ c.ring \subseteq Introduced
      /\ c.next = environ.next
      /\ Decryptable(c.ring) => c.active = LastKey
      /\ environ.active = NoKey => keyFile = LastKey
  BY <1>1, <1>2, StartsUnderLastKey
<1>4. /\ rotations' \in Seq(Rotations)
      /\ LastKey' = LastKey /\ Introduced' = Introduced /\ Pending' = {}
      /\ RotationsAreOrderly' /\ EnvironmentIsSensible'
      /\ DOMAIN rotations' = DOMAIN rotations /\ Len(rotations') = Len(rotations)
      /\ \A k \in DOMAIN rotations :
           /\ rotations'[k].new = rotations[k].new
           /\ rotations'[k].backup = rotations[k].backup
           /\ rotations'[k].overtaken = rotations[k].overtaken
  <2>1. CASE Pending = {}
    <3>1. rotations' = rotations
      BY <2>1 DEF start
    <3>2. RotationsAreOrderly' /\ EnvironmentIsSensible'
      BY <1>2, <3>1, RotationsFrame, EnvironmentFrame DEF KeyInductive
    <3> QED BY <2>1, <3>1, <3>2 DEF KeyInductive, StateTypeOK, LastKey, Introduced, Pending
  <2>2. CASE Pending # {}
    <3>1. /\ Pending = {Len(rotations)} /\ Max(Pending) = Len(rotations)
          /\ Len(rotations) \in DOMAIN rotations
      BY <2>2, PendingIsLast DEF KeyInductive
    <3>2. rotations' = [rotations EXCEPT ![Max(Pending)].status = "activated"]
      BY <2>2 DEF start
    <3>3. rotations' = [rotations EXCEPT ![Len(rotations)].status = "activated"]
      BY <3>1, <3>2
    <3>4. Pending \ {Len(rotations)} = {}
      BY <3>1
    <3> QED BY <1>2, <3>1, <3>3, <3>4, DoneFrame
  <2> QED BY <2>1, <2>2
<1>5. \/ /\ Decryptable(c.ring) /\ rows' = Under(c.active) /\ process' = [process EXCEPT ![p] = c]
      \/ UNCHANGED <<rows, process>>
  BY <1>1 DEF start
<1>6. /\ process' \in [Processes -> {Down, Absent} \cup Running]
      /\ \A q \in Processes : q # p => process'[q] = process[q]
      /\ process'[p] \in {Down, c}
  BY <1>2, <1>3, <1>5 DEF KeyInductive, StateTypeOK
<1>7. Down.up = FALSE
  BY DEF Down
<1>8. /\ rows' \in [Rows -> Keys \cup {NoKey}] /\ rows'[FirstRow] = LastKey
      /\ KeysInUse' \in {KeysInUse, {LastKey}}
  <2>1. CASE Decryptable(c.ring) /\ rows' = Under(c.active)
    <3>1. LastKey \in Keys /\ rows' = Under(LastKey)
      BY <1>3, <2>1, KeysTyped DEF KeyInductive
    <3> QED BY <3>1, AllUnder DEF KeyInductive
  <2>2. CASE UNCHANGED rows
    BY <2>2 DEF KeyInductive, StateTypeOK, RowsAreIntroduced, KeysInUse, Stored
  <2> QED BY <1>5, <2>1, <2>2
<1>9. \A t \in Threads : chore[t].kind # "idle" => ProcessOf[t] # p /\ Of(t)' = Of(t) /\ chore[t] # Idle
  <2>1. \A t \in Threads : ProcessOf[t] \in Processes
    BY KeyAssumption
  <2>2. \A t \in Threads : chore[t].kind # "idle" => chore[t] # Idle
    BY DEF Idle
  <2>3. \A t \in Threads : chore[t] # Idle => ProcessOf[t] # p
    BY <1>2, <1>7 DEF KeyInductive, ChoresAreSensible, Of
  <2> QED BY <1>6, <2>1, <2>2, <2>3 DEF Of
<1>10. StateTypeOK'
  BY <1>2, <1>4, <1>6, <1>8 DEF KeyInductive, StateTypeOK
<1>11. RowsAreIntroduced'
  <2>1. LastKey \in Introduced
    BY KeysTyped DEF KeyInductive
  <2> QED BY <1>2, <1>4, <1>8, <2>1 DEF KeyInductive, RowsAreIntroduced
<1>12. KeyFileFollows'
  BY <1>2, <1>3, <1>4 DEF KeyInductive, KeyFileFollows
<1>13. NextIsNew'
  <2>1. CanRotate(p)' => process'[p] = c /\ c.active = LastKey
    <3>1. CanRotate(p)' => process'[p] = c /\ process'[p].up
      BY <1>6, <1>7 DEF CanRotate
    <3>2. UNCHANGED process => process'[p].up = FALSE
      BY <1>2, <1>7
    <3> QED BY <1>3, <1>5, <3>1, <3>2
  <2>2. \A q \in Processes : q # p /\ CanRotate(q)' => CanRotate(q) /\ process'[q] = process[q]
    BY <1>4, <1>6 DEF CanRotate
  <2>3. environ.next \in Introduced => environ.next = LastKey
    BY DEF KeyInductive, NextIsNew
  <2>4. CanRotate(p)' => environ.next \notin Introduced /\ process'[p].next = environ.next
    BY <1>3, <2>1, <2>3 DEF CanRotate
  <2>5. \A t \in Threads : WillRotate(t)' => WillRotate(t) /\ Of(t)' = Of(t)
    BY <1>2, <1>4, <1>9 DEF WillRotate, At
  <2>6. \A q \in Processes : CanRotate(q)' =>
          environ.next \notin Introduced /\ process'[q].next \notin Introduced
    BY <2>2, <2>4 DEF KeyInductive, NextIsNew
  <2> QED BY <1>2, <1>4, <2>3, <2>5, <2>6 DEF KeyInductive, NextIsNew
<1>14. ProcessesAreSensible'
  BY <1>3, <1>4, <1>6, <1>7 DEF KeyInductive, ProcessesAreSensible
<1>15. ChoresAreSensible'
  <2>1. \A t \in Threads : chore[t] # Idle => Of(t)'.up
    <3>1. \A t \in Threads : chore[t] # Idle => chore[t].kind # "idle"
      BY ThreadTyped DEF KeyInductive
    <3> QED BY <1>9, <3>1 DEF KeyInductive, ChoresAreSensible
  <2>2. \A t \in Threads : At(t, "insert") => chore[t].row # FirstRow /\ chore[t].key \in Of(t)'.ring
    BY <1>9 DEF KeyInductive, ChoresAreSensible, At
  <2>3. \A t \in Threads : At(t, "reencrypt") =>
          /\ chore[t].old # chore[t].new /\ chore[t].new = Of(t)'.next
          /\ chore[t].ring \subseteq Introduced /\ chore[t].backup \in DOMAIN backups
    BY <1>9 DEF KeyInductive, ChoresAreSensible, At
  <2>4. \A t \in Threads : At(t, "check") => chore[t].backup \in DOMAIN backups
    BY DEF KeyInductive, ChoresAreSensible
  <2> QED BY <1>2, <1>4, <2>1, <2>2, <2>3, <2>4 DEF ChoresAreSensible, At
<1>16. PromotesOnce'
  BY <1>2, <1>4, <1>9 DEF KeyInductive, PromotesOnce, At
<1>17. CompletesInOrder'
  <2>1. ASSUME environ.active = NoKey, NEW t \in Threads, Completes(t) PROVE At(t, "activate")
    BY <1>3, <2>1 DEF KeyInductive, CompletesInOrder
  <2> QED BY <1>2, <1>3, <1>4, <2>1 DEF KeyInductive, CompletesInOrder, Completes, At
<1>18. ReadsOrPromotes'
  <2>1. CASE UNCHANGED <<rows, process>>
    <3>1. KeysInUse' = KeysInUse
      BY <2>1 DEF KeysInUse, Stored
    <3> QED BY <1>2, <2>1, <3>1 DEF KeyInductive, ReadsOrPromotes, Alone, At
  <2>2. CASE Decryptable(c.ring) /\ rows' = Under(c.active) /\ process' = [process EXCEPT ![p] = c]
    <3>1. process'[p] = c /\ c # Absent
      BY <1>3, <2>2 DEF KeyInductive, StateTypeOK, Absent
    <3>2. \A q \in Processes : Alone(q)' => q = p
      BY <3>1 DEF Alone
    <3>3. KeysInUse' \subseteq process'[p].ring
      <4>1. c.active = LastKey /\ rows' = Under(LastKey) /\ LastKey \in Keys
        BY <1>3, <2>2, KeysTyped DEF KeyInductive
      <4>2. KeysInUse' = {LastKey}
        BY <4>1, AllUnder DEF KeyInductive
      <4> QED BY <1>3, <3>1, <4>1, <4>2
    <3> QED BY <3>2, <3>3 DEF ReadsOrPromotes
  <2> QED BY <1>5, <2>1, <2>2
<1>19. PointsAreKept'
  BY <1>2, <1>4 DEF KeyInductive, PointsAreKept, At
<1> QED BY <1>4, <1>10, <1>11, <1>12, <1>13, <1>14, <1>15, <1>16, <1>17, <1>18, <1>19
        DEF KeyInductive

LEMMA Configure ==
  ASSUME KeyInductive, configure
  PROVE  KeyInductive'
<1>1. PICK e \in Configurations :
        /\ Sensible(e) /\ environ' = e /\ (environ.active # NoKey => e.active # NoKey)
  BY DEF configure
<1>2. UNCHANGED <<rows, keyFile, process, rotations, backups, chore, late>>
  BY DEF configure
<1>3. /\ e.active \in {NoKey, LastKey} /\ e.ring \subseteq Introduced /\ e.next \notin Introduced
  BY <1>1 DEF Sensible
<1>4. LastKey' = LastKey /\ Introduced' = Introduced /\ Pending' = Pending /\ KeysInUse' = KeysInUse
  BY <1>2 DEF LastKey, Introduced, Pending, KeysInUse, Stored
<1>5. LastKey \in Introduced
  BY KeysTyped DEF KeyInductive
<1>6. StateTypeOK'
  BY <1>1, <1>2 DEF KeyInductive, StateTypeOK
<1>7. RowsAreIntroduced' /\ RotationsAreOrderly' /\ ProcessesAreSensible'
  BY <1>2, RowsFrame, RotationsFrame, ProcessesFrame DEF KeyInductive
<1>8. EnvironmentIsSensible'
  BY <1>1, <1>3, <1>4, <1>5 DEF EnvironmentIsSensible
<1>9. KeyFileFollows'
  BY <1>1, <1>2, <1>4 DEF KeyInductive, KeyFileFollows
<1>10. NextIsNew'
  BY <1>1, <1>2, <1>3, <1>4 DEF KeyInductive, NextIsNew, CanRotate, WillRotate, At, Of
<1>11. ChoresAreSensible'
  BY <1>2, <1>4 DEF KeyInductive, ChoresAreSensible, At, Of
<1>12. PromotesOnce'
  BY <1>2, <1>4 DEF KeyInductive, PromotesOnce, At, Of
<1>13. CompletesInOrder'
  BY <1>1, <1>2, <1>4 DEF KeyInductive, CompletesInOrder, Completes, At
<1>14. ReadsOrPromotes'
  BY <1>2, <1>4 DEF KeyInductive, ReadsOrPromotes, Alone, At
<1>15. PointsAreKept'
  BY <1>2 DEF KeyInductive, PointsAreKept, At
<1> QED BY <1>6, <1>7, <1>8, <1>9, <1>10, <1>11, <1>12, <1>13, <1>14, <1>15 DEF KeyInductive

LEMMA PromoteKeyFile ==
  ASSUME KeyInductive, promote_key_file
  PROVE  KeyInductive'
<1>1. /\ Pending # {} /\ \A p \in Processes : ~process[p].up
      /\ UNCHANGED <<rows, environ, process, rotations, backups, chore, late>>
  BY DEF promote_key_file
<1>2. keyFile' = LastKey
  BY <1>1, PendingIsLast DEF KeyInductive, promote_key_file
<1>3. LastKey \in Introduced /\ LastKey \in Keys
  BY KeysTyped DEF KeyInductive
<1>4. LastKey' = LastKey /\ Introduced' = Introduced /\ Pending' = Pending /\ KeysInUse' = KeysInUse
  BY <1>1 DEF LastKey, Introduced, Pending, KeysInUse, Stored
<1>5. \A t \in Threads : ~Completes(t)
  BY <1>1, KeyAssumption DEF KeyInductive, ChoresAreSensible, Completes, At, Of, Idle
<1>6. StateTypeOK'
  BY <1>1, <1>2, <1>3 DEF KeyInductive, StateTypeOK
<1>7. RowsAreIntroduced' /\ RotationsAreOrderly' /\ EnvironmentIsSensible' /\ ProcessesAreSensible'
  BY <1>1, RowsFrame, RotationsFrame, EnvironmentFrame, ProcessesFrame DEF KeyInductive
<1>8. KeyFileFollows'
  BY <1>2, <1>3, <1>4 DEF KeyFileFollows
<1>9. NextIsNew'
  BY <1>1, <1>4 DEF KeyInductive, NextIsNew, CanRotate, WillRotate, At, Of
<1>10. ChoresAreSensible'
  BY <1>1, <1>4 DEF KeyInductive, ChoresAreSensible, At, Of
<1>11. PromotesOnce'
  BY <1>1, <1>4 DEF KeyInductive, PromotesOnce, At, Of
<1>12. CompletesInOrder'
  BY <1>1, <1>5 DEF CompletesInOrder, Completes, At
<1>13. ReadsOrPromotes'
  BY <1>1, <1>4 DEF KeyInductive, ReadsOrPromotes, Alone, At
<1>14. PointsAreKept'
  BY <1>1 DEF KeyInductive, PointsAreKept, At
<1> QED BY <1>6, <1>7, <1>8, <1>9, <1>10, <1>11, <1>12, <1>13, <1>14 DEF KeyInductive

LEMMA KeyInitInductive ==
  ASSUME KeyInit
  PROVE  KeyInductive
<1>1. /\ rotations = <<>> /\ backups = <<>> /\ keyFile = FirstKey /\ late = FALSE
      /\ environ \in Configurations /\ Sensible(environ)
  BY DEF KeyInit
<1>2. LastKey = FirstKey /\ Introduced = {FirstKey} /\ Pending = {}
      /\ DOMAIN rotations = {} /\ Len(rotations) = 0
  BY <1>1 DEF LastKey, Introduced, Pending
<1>3. /\ rows \in [Rows -> Keys \cup {NoKey}] /\ rows[FirstRow] = FirstKey
      /\ \A r \in Rows : r # FirstRow => rows[r] = NoKey
  BY KeyAssumption DEF KeyInit
<1>4. KeysInUse = {FirstKey}
  BY <1>3, KeyAssumption DEF KeysInUse, Stored
<1>5. chore = [t \in Threads |-> Idle] /\ Idle \in Chores /\ Idle.kind = "idle"
  BY DEF KeyInit, Chores, Idle
<1>6. /\ environ.active \in {NoKey, FirstKey} /\ environ.ring \subseteq {FirstKey}
      /\ environ.next \notin {FirstKey} /\ environ.next \in Keys
  BY <1>1, <1>2, KeyAssumption DEF Sensible
<1>7. PICK c : c = Configured
  OBVIOUS
<1>8. PICK a : a = IF environ.active = NoKey THEN keyFile ELSE environ.active
  OBVIOUS
<1>9. a = FirstKey
  BY <1>1, <1>6, <1>8
<1>10. c = [up |-> TRUE, active |-> a, ring |-> {a} \cup environ.ring,
            next |-> environ.next, managed |-> environ.active # NoKey]
  BY <1>7, <1>8 DEF Configured
<1>11. /\ c \in Running /\ c.active = FirstKey /\ c.ring = {FirstKey} /\ c.next = environ.next
  BY <1>6, <1>9, <1>10, KeyAssumption DEF Running
<1>12. PICK deployed \in SUBSET Processes :
         process = [p \in Processes |-> IF p \in deployed THEN c ELSE Absent]
  BY <1>7 DEF KeyInit
<1>13. \A p \in Processes : process[p] \in {c, Absent}
  BY <1>12
<1>14. Absent.up = FALSE
  BY DEF Absent
<1>15. process \in [Processes -> {Down, Absent} \cup Running]
  BY <1>11, <1>12
<1>16. StateTypeOK
  BY <1>1, <1>3, <1>5, <1>15, KeyAssumption, EmptySeq DEF StateTypeOK
<1>17. RowsAreIntroduced
  BY <1>2, <1>3, <1>4 DEF RowsAreIntroduced
<1>18. RotationsAreOrderly /\ EnvironmentIsSensible /\ KeyFileFollows
  BY <1>1, <1>2, <1>6 DEF RotationsAreOrderly, EnvironmentIsSensible, KeyFileFollows
<1>19. NextIsNew
  BY <1>2, <1>5, <1>6, <1>11, <1>13, <1>14 DEF NextIsNew, CanRotate, WillRotate, At
<1>20. ProcessesAreSensible
  BY <1>2, <1>11, <1>13, <1>14 DEF ProcessesAreSensible
<1>21. ChoresAreSensible /\ PromotesOnce /\ CompletesInOrder
  BY <1>5 DEF ChoresAreSensible, PromotesOnce, CompletesInOrder, Completes, At
<1>22. ReadsOrPromotes
  BY <1>4, <1>11, <1>13, <1>14 DEF ReadsOrPromotes, Alone
<1>23. PointsAreKept
  BY <1>1, <1>2, <1>5 DEF PointsAreKept, At
<1> QED BY <1>16, <1>17, <1>18, <1>19, <1>20, <1>21, <1>22, <1>23 DEF KeyInductive

LEMMA KeyStutters ==
  ASSUME KeyInductive, UNCHANGED keyVars
  PROVE  KeyInductive'
<1>1. UNCHANGED <<rows, keyFile, environ, process, rotations, backups, chore, stops, late>>
  BY DEF keyVars
<1>2. LastKey' = LastKey /\ Introduced' = Introduced /\ Pending' = Pending /\ KeysInUse' = KeysInUse
  BY <1>1 DEF LastKey, Introduced, Pending, KeysInUse, Stored
<1>3. StateTypeOK' /\ NextIsNew' /\ ChoresAreSensible' /\ PromotesOnce'
  BY <1>1, <1>2 DEF KeyInductive, StateTypeOK, NextIsNew, CanRotate, WillRotate,
                    ChoresAreSensible, PromotesOnce, At, Of
<1>4. CompletesInOrder' /\ ReadsOrPromotes' /\ PointsAreKept'
  BY <1>1, <1>2 DEF KeyInductive, CompletesInOrder, Completes, ReadsOrPromotes, Alone,
                    PointsAreKept, At
<1> QED BY <1>1, <1>3, <1>4, RowsFrame, RotationsFrame, EnvironmentFrame, KeyFileFrame, ProcessesFrame
        DEF KeyInductive

LEMMA KeyStep ==
  ASSUME KeyInductive, [KeyNext]_keyVars
  PROVE  KeyInductive'
<1>1. ASSUME NEW t \in Threads,
             \/ secure_dump(t) \/ insert(t) \/ create_database_backup(t) \/ record_backup(t)
             \/ import_database_backup(t) \/ apply_backup_retention(t) \/ prune(t)
             \/ check_pending(t) \/ reencrypt(t) \/ promote(t) \/ replace_key_file(t)
             \/ activate(t)
      PROVE  KeyInductive'
  BY <1>1, SecureDump, Insert, CreateBackup, RecordBackup, ImportBackup, Retention, Prune,
     CheckPending, Reencrypt, Promote, ReplaceKeyFile, Activate
<1>2. ASSUME NEW p \in Processes, stop(p) \/ start(p) PROVE KeyInductive'
  BY <1>2, Stop, Start
<1> QED BY <1>1, <1>2, Configure, PromoteKeyFile, KeyStutters DEF KeyNext

-----------------------------------------------------------------------------
(***************************************************************************)
(* Keys: the property.                                                     *)
(***************************************************************************)
LEMMA InductiveHolds ==
  ASSUME KeyInductive
  PROVE  KeysHold
<1>1. Len(rotations) \in Nat
  BY KeysTyped DEF KeyInductive
<1>2. KeyTypeOK
  <2>1. FirstRow \in Stored
    BY FirstRowInUse DEF KeyInductive
  <2> QED BY <2>1 DEF KeyInductive, KeyTypeOK, StateTypeOK, RotationsAreOrderly, ProcessesAreSensible
<1>3. RowsUnderTheKeyToCome
  <2>1. Pending # {} => LastKey = rotations[Max(Pending)].new
    <3>1. ASSUME Pending # {} PROVE LastKey = rotations[Max(Pending)].new
      BY <3>1, PendingIsLast DEF KeyInductive
    <3> QED BY <3>1
  <2> QED BY <2>1 DEF KeyInductive, RowsUnderTheKeyToCome, RowsAreIntroduced, KeyFileFollows
<1>4. AloneReadsAll
  BY DEF KeyInductive, AloneReadsAll, ReadsOrPromotes, Alone
<1>5. OnePending
  <2>1. PICK n : n = Len(rotations)
    OBVIOUS
  <2>2. Pending = {} \/ Pending = {n}
    BY <2>1 DEF KeyInductive, RotationsAreOrderly
  <2>3. Cardinality({}) = 0
    BY FS_EmptySet
  <2>4. Cardinality({n}) = 1
    BY FS_Singleton
  <2> QED BY <2>2, <2>3, <2>4 DEF OnePending
<1>6. RecoveryPointsStay
  BY DEF KeyInductive, PointsAreKept, RecoveryPointsStay
<1> QED BY <1>2, <1>3, <1>4, <1>5, <1>6 DEF KeysHold

\* Wherever a rotation is cut off, the rows are under the key the next start is
\* told to use, a process alone on its database reads them all, one rotation at
\* most is pending, and every recovery point is there: for any keys, processes,
\* threads and environments (rotate_data_encryption_key, _check_pending_key_rotation).
THEOREM KeysSafe == KeySpec => []KeysHold
<1>1. KeyInit => KeyInductive
  BY KeyInitInductive
<1>2. KeyInductive /\ [KeyNext]_keyVars => KeyInductive'
  BY KeyStep
<1>3. KeyInductive => KeysHold
  BY InductiveHolds
<1> QED BY <1>1, <1>2, <1>3, PTL DEF KeySpec

(***************************************************************************)
(* Documents: the invariant of any overlap.                                *)
(***************************************************************************)
Statuses ==
  {"draft", "parsed", "parse_failed", "published", "index_failed", "retired", "superseded"}
Files == [Versions -> {"absent", "active", "superseded", "retired"}]
VersionRows == [source : Sources, replaces : Nat]
LifecycleEvents == [status : Statuses, by : Nat]

Bundles     == [kind : {"bundle"}, version : Versions, rec : VersionRows]
ParserCalls == [kind : {"parse", "store"}, version : Versions, parser : Parsers]
Publishes   == [kind : {"publish"}, version : Versions]
EventCalls  == [kind : {"event"}, version : Versions, status : Statuses, by : Nat]
IndexCalls  == [kind : {"index"}, version : Versions, publishing : BOOLEAN]
Marks       == [kind : {"mark"}, version : Versions, status : {"retired", "superseded"}]
Writes      == [kind : {"write"}, file : Files]
BuildCalls  == [kind : {"build"}, version : Versions]
Supersedes  == [kind : {"supersede"}, version : Versions, by : Versions]
DocumentCalls ==
  Bundles \cup ParserCalls \cup Publishes \cup EventCalls \cup IndexCalls \cup Marks
    \cup Writes \cup BuildCalls \cup Supersedes

StoreTyped ==
  /\ versions \in Seq(VersionRows) /\ Len(versions) <= MaxVersions
  /\ lifecycle \in [Versions -> Seq(LifecycleEvents)]
  /\ parses \in [Versions -> Seq(Parsers)]
  /\ builds \in [Versions -> SUBSET {"failed", "completed"}]
  /\ index \in Files
  /\ documentStops \in Nat

\* What a handler does after a call, and where it may end.
MayFollow(a, b) ==
  \/ a.kind = "bundle" /\ b.kind = "parse" /\ b.version = a.version
  \/ a.kind = "parse" /\ b.kind = "publish" /\ b.version = a.version
  \/ a.kind = "store" /\ b = Event(a.version, "parsed", None)
  \/ a.kind = "event" /\ a.status = "parsed" /\ b.kind = "publish" /\ b.version = a.version
  \/ a.kind = "event" /\ a.status = "published" /\ b.kind = "supersede" /\ b.by = a.version
  \/ a.kind = "index" /\ a.publishing /\ b = Event(a.version, "published", None)
  \/ a.kind = "build" /\ b = Event(a.version, "published", None)
  \/ a.kind = "mark" /\ b.kind = "event" /\ b.version = a.version /\ b.status = a.status
  \/ a.kind = "write" /\ b.kind = "build"
  \/ a.kind = "write" /\ b.kind = "event" /\ b.status \in {"retired", "superseded"}
MayEnd(a) == a.kind \notin {"store", "mark", "write"} /\ ~(a.kind = "index" /\ a.publishing)
Chained(q) ==
  /\ \A i \in 1..(Len(q) - 1) : MayFollow(q[i], q[i + 1])
  /\ q # <<>> => MayEnd(q[Len(q)])

\* What a call still to be made rests on, and what it rests on when its turn comes.
CallOK(c) ==
  /\ c.kind = "bundle" => c.version <= Len(versions) + 1 /\ c.rec.replaces < c.version
  /\ c.kind \in {"event", "index", "mark", "build", "supersede"} => c.version \in Registered
  /\ c.kind = "index" /\ c.publishing => parses[c.version] # <<>>
  /\ c.kind = "event" /\ c.status = "published" => parses[c.version] # <<>>
  /\ c.kind = "event" /\ c.status = "superseded" =>
       c.by \in Registered /\ versions[c.by].replaces = c.version /\ Happened(c.by, "published")
  /\ c.kind = "supersede" => c.by \in Registered /\ versions[c.by].replaces = c.version
TurnOK(c) ==
  /\ c.kind \in {"parse", "store", "publish"} => c.version \in Registered
  /\ c.kind = "event" /\ c.status = "published" => "completed" \in builds[c.version]
  /\ c.kind = "supersede" => Happened(c.by, "published")
CallsOK(q) == (\A i \in DOMAIN q : CallOK(q[i])) /\ (q # <<>> => TurnOK(q[1]))

SupersededByRegistered ==
  \A v \in Registered : \A i \in DOMAIN lifecycle[v] :
    lifecycle[v][i].status = "superseded" => lifecycle[v][i].by \in Registered

DocumentInvariant ==
  /\ StoreTyped /\ DocumentTypeOK /\ PublishedIsReproducible /\ SupersededByPublished
  /\ SupersededByRegistered
  /\ documentCalls \in [Librarians -> Seq(DocumentCalls)]
  /\ \A p \in Librarians : Chained(documentCalls[p]) /\ CallsOK(documentCalls[p])

-----------------------------------------------------------------------------
(***************************************************************************)
(* Documents: calls and queues of calls.                                   *)
(***************************************************************************)
LEMMA CallTyped ==
  ASSUME NEW c \in DocumentCalls
  PROVE  /\ c.kind = "bundle" => c \in Bundles
         /\ c.kind \in {"parse", "store"} => c \in ParserCalls
         /\ c.kind = "publish" => c \in Publishes
         /\ c.kind = "event" => c \in EventCalls
         /\ c.kind = "index" => c \in IndexCalls
         /\ c.kind = "mark" => c \in Marks
         /\ c.kind = "write" => c \in Writes
         /\ c.kind = "build" => c \in BuildCalls
         /\ c.kind = "supersede" => c \in Supersedes
         /\ c.kind \in {"bundle", "parse", "store", "publish", "event", "index", "mark",
                        "write", "build", "supersede"}
BY DEF DocumentCalls, Bundles, ParserCalls, Publishes, EventCalls, IndexCalls, Marks, Writes,
       BuildCalls, Supersedes

\* The rest of a queue is what was there.
LEMMA TailOfQueue ==
  ASSUME NEW q \in Seq(DocumentCalls), q # <<>>
  PROVE  /\ Tail(q) \in Seq(DocumentCalls) /\ Len(Tail(q)) = Len(q) - 1
         /\ q[1] \in DocumentCalls /\ q[1] = Head(q) /\ 1 \in DOMAIN q
         /\ \A i \in DOMAIN Tail(q) : i + 1 \in DOMAIN q /\ Tail(q)[i] = q[i + 1]
         /\ DOMAIN q = 1..Len(q) /\ DOMAIN Tail(q) = 1..(Len(q) - 1)
         /\ Len(q) \in Nat /\ Len(q) >= 1
<1>1. Len(q) \in Nat /\ Len(q) >= 1 /\ DOMAIN q = 1..Len(q)
  BY EmptySeq
<1>2. Tail(q) \in Seq(DocumentCalls) /\ Len(Tail(q)) = Len(q) - 1
  BY HeadTailProperties
<1>3. \A i \in 1..(Len(q) - 1) : Tail(q)[i] = q[i + 1]
  BY <1>1
<1>4. DOMAIN Tail(q) = 1..(Len(q) - 1)
  BY <1>2
<1>5. q[1] \in DocumentCalls /\ q[1] = Head(q)
  BY <1>1
<1> QED BY <1>1, <1>2, <1>3, <1>4, <1>5

LEMMA TailChained ==
  ASSUME NEW q \in Seq(DocumentCalls), q # <<>>, Chained(q)
  PROVE  /\ Chained(Tail(q))
         /\ Tail(q) = <<>> => MayEnd(q[1])
         /\ Tail(q) # <<>> => MayFollow(q[1], Tail(q)[1])
<1>1. PICK r \in Seq(DocumentCalls) : r = Tail(q)
  BY TailOfQueue
<1>2. /\ Len(r) = Len(q) - 1 /\ Len(q) \in Nat /\ Len(q) >= 1 /\ DOMAIN r = 1..(Len(q) - 1)
      /\ \A i \in DOMAIN r : r[i] = q[i + 1]
  BY <1>1, TailOfQueue
<1>3. r = <<>> => Len(q) = 1
  BY <1>2
<1>4. r # <<>> => Len(r) >= 1 /\ r[1] = q[2] /\ r[Len(r)] = q[Len(q)]
  <2>1. HAVE r # <<>>
  <2>2. Len(r) >= 1 /\ Len(r) \in Nat
    BY <2>1, EmptySeq
  <2> QED BY <2>2, <1>2
<1>5. \A i \in 1..(Len(r) - 1) : MayFollow(r[i], r[i + 1])
  <2>1. TAKE i \in 1..(Len(r) - 1)
  <2>2. i \in DOMAIN r /\ i + 1 \in DOMAIN r /\ i + 1 \in 1..(Len(q) - 1)
    BY <1>2
  <2>3. r[i] = q[i + 1] /\ r[i + 1] = q[(i + 1) + 1]
    BY <1>2, <2>2
  <2> QED BY <2>2, <2>3 DEF Chained
<1>6. r # <<>> => MayEnd(r[Len(r)])
  BY <1>4 DEF Chained
<1>7. r # <<>> => MayFollow(q[1], r[1])
  <2>1. HAVE r # <<>>
  <2>2. 1 \in 1..(Len(q) - 1)
    BY <2>1, <1>2, <1>4
  <2>3. MayFollow(q[1], q[1 + 1])
    BY <2>2 DEF Chained
  <2> QED BY <2>1, <2>3, <1>4
<1>8. r = <<>> => MayEnd(q[1])
  BY <1>3 DEF Chained
<1> QED BY <1>1, <1>5, <1>6, <1>7, <1>8 DEF Chained

\* A call, or two, put before the rest of a queue.
LEMMA OneChained ==
  ASSUME NEW a \in DocumentCalls, NEW r \in Seq(DocumentCalls),
         Chained(r), r = <<>> => MayEnd(a), r # <<>> => MayFollow(a, r[1])
  PROVE  /\ <<a>> \o r \in Seq(DocumentCalls) /\ Chained(<<a>> \o r)
         /\ <<a>> \o r # <<>> /\ (<<a>> \o r)[1] = a /\ Len(<<a>> \o r) = Len(r) + 1
         /\ \A i \in 1..Len(r) : (<<a>> \o r)[i + 1] = r[i]
         /\ \A i \in DOMAIN (<<a>> \o r) :
              \/ (<<a>> \o r)[i] = a
              \/ \E j \in DOMAIN r : (<<a>> \o r)[i] = r[j]
<1>1. PICK s : s = <<a>>
  OBVIOUS
<1>2. s \in Seq(DocumentCalls) /\ Len(s) = 1 /\ s[1] = a
  BY <1>1
<1>3. PICK t : t = s \o r
  OBVIOUS
<1>4. /\ t \in Seq(DocumentCalls) /\ Len(t) = Len(r) + 1 /\ Len(r) \in Nat
      /\ DOMAIN t = 1..(Len(r) + 1) /\ DOMAIN r = 1..Len(r)
      /\ \A i \in 1..(Len(r) + 1) : t[i] = IF i <= 1 THEN s[i] ELSE r[i - 1]
  <2>1. /\ t \in Seq(DocumentCalls) /\ Len(t) = Len(s) + Len(r)
        /\ \A i \in 1..(Len(s) + Len(r)) : t[i] = IF i <= Len(s) THEN s[i] ELSE r[i - Len(s)]
    BY <1>2, <1>3, ConcatProperties
  <2>2. Len(r) \in Nat /\ DOMAIN r = 1..Len(r) /\ DOMAIN t = 1..Len(t)
    BY <2>1
  <2>3. Len(t) = Len(r) + 1 /\ Len(s) + Len(r) = Len(r) + 1
    BY <2>1, <2>2, <1>2
  <2> QED BY <2>1, <2>2, <2>3, <1>2
<1>5. t[1] = a /\ t # <<>>
  <2>1. t[1] = s[1]
    BY <1>4
  <2>2. t # <<>>
    BY <1>4, EmptySeq
  <2> QED BY <2>1, <2>2, <1>2
<1>6. \A i \in 1..Len(r) : t[i + 1] = r[i]
  BY <1>4
<1>7. \A i \in DOMAIN t : t[i] = a \/ \E j \in DOMAIN r : t[i] = r[j]
  <2>1. TAKE i \in DOMAIN t
  <2>2. CASE i = 1
    BY <2>2, <1>5
  <2>3. CASE i # 1
    <3>1. i - 1 \in DOMAIN r /\ t[i] = r[i - 1]
      BY <2>3, <1>4
    <3> QED BY <3>1
  <2> QED BY <2>2, <2>3
<1>8. \A i \in 1..(Len(t) - 1) : MayFollow(t[i], t[i + 1])
  <2>1. TAKE i \in 1..(Len(t) - 1)
  <2>2. CASE i = 1
    <3>1. Len(r) >= 1 /\ r # <<>>
      BY <2>2, <1>4, EmptySeq
    <3>2. t[2] = r[1]
      BY <3>1, <1>4
    <3> QED BY <2>2, <3>1, <3>2, <1>5
  <2>3. CASE i > 1
    <3>1. t[i] = r[i - 1] /\ t[i + 1] = r[(i - 1) + 1] /\ i - 1 \in 1..(Len(r) - 1)
      BY <2>3, <1>4
    <3>2. MayFollow(r[i - 1], r[(i - 1) + 1])
      BY <3>1 DEF Chained
    <3> QED BY <3>1, <3>2
  <2>4. i \in Nat /\ i >= 1
    BY <1>4
  <2> QED BY <2>2, <2>3, <2>4
<1>9. MayEnd(t[Len(t)])
  <2>1. CASE r = <<>>
    <3>1. Len(r) = 0
      BY <2>1
    <3>2. t[Len(t)] = a
      BY <3>1, <1>4, <1>5
    <3> QED BY <2>1, <3>2
  <2>2. CASE r # <<>>
    <3>1. Len(r) >= 1
      BY <2>2, EmptySeq
    <3>2. t[Len(t)] = r[Len(r)]
      BY <3>1, <1>4
    <3> QED BY <2>2, <3>2 DEF Chained
  <2> QED BY <2>1, <2>2
<1>10. Chained(t)
  BY <1>8, <1>9 DEF Chained
<1> QED BY <1>1, <1>3, <1>4, <1>5, <1>6, <1>7, <1>10

LEMMA TwoChained ==
  ASSUME NEW a \in DocumentCalls, NEW b \in DocumentCalls, NEW r \in Seq(DocumentCalls),
         Chained(r), MayFollow(a, b), r = <<>> => MayEnd(b), r # <<>> => MayFollow(b, r[1])
  PROVE  /\ <<a, b>> \o r \in Seq(DocumentCalls) /\ Chained(<<a, b>> \o r)
         /\ <<a, b>> \o r # <<>> /\ (<<a, b>> \o r)[1] = a /\ (<<a, b>> \o r)[2] = b
         /\ Len(<<a, b>> \o r) = Len(r) + 2
         /\ \A i \in 1..Len(r) : (<<a, b>> \o r)[i + 2] = r[i]
         /\ \A i \in DOMAIN (<<a, b>> \o r) :
              \/ (<<a, b>> \o r)[i] \in {a, b}
              \/ \E j \in DOMAIN r : (<<a, b>> \o r)[i] = r[j]
<1>1. PICK t : t = <<b>> \o r
  OBVIOUS
<1>2. /\ t \in Seq(DocumentCalls) /\ Chained(t) /\ t # <<>> /\ t[1] = b /\ Len(t) = Len(r) + 1
      /\ \A i \in 1..Len(r) : t[i + 1] = r[i]
      /\ \A i \in DOMAIN t : t[i] = b \/ \E j \in DOMAIN r : t[i] = r[j]
  BY <1>1, OneChained
<1>3. PICK u : u = <<a>> \o t
  OBVIOUS
<1>4. /\ u \in Seq(DocumentCalls) /\ Chained(u) /\ u # <<>> /\ u[1] = a /\ Len(u) = Len(t) + 1
      /\ \A i \in 1..Len(t) : u[i + 1] = t[i]
      /\ \A i \in DOMAIN u : u[i] = a \/ \E j \in DOMAIN t : u[i] = t[j]
  BY <1>2, <1>3, OneChained
<1>5. Len(t) >= 1 /\ Len(r) \in Nat
  BY <1>2, EmptySeq
<1>6. u[2] = b
  <2>1. u[1 + 1] = t[1]
    BY <1>4, <1>5
  <2> QED BY <2>1, <1>2
<1>7. <<a, b>> \o r = u
  <2>1. <<a>> \in Seq(DocumentCalls) /\ <<b>> \in Seq(DocumentCalls)
    OBVIOUS
  <2>2. (<<a>> \o <<b>>) \o r = u
    BY <2>1, <1>1, <1>3, ConcatAssociative
  <2>3. <<a>> \o <<b>> = <<a, b>>
    <3>1. PICK x : x = <<a>> \o <<b>>
      OBVIOUS
    <3>2. /\ x \in Seq(DocumentCalls) /\ Len(x) = Len(<<a>>) + Len(<<b>>)
          /\ \A i \in 1..(Len(<<a>>) + Len(<<b>>)) :
               x[i] = IF i <= Len(<<a>>) THEN <<a>>[i] ELSE <<b>>[i - Len(<<a>>)]
      BY <2>1, <3>1, ConcatProperties
    <3>3. Len(<<a>>) = 1 /\ Len(<<b>>) = 1
      OBVIOUS
    <3>4. Len(x) = 2 /\ x[1] = <<a>>[1] /\ x[2] = <<b>>[1]
      BY <3>2, <3>3
    <3>5. PICK y : y = <<a, b>>
      OBVIOUS
    <3>6. y \in Seq(DocumentCalls) /\ Len(y) = 2 /\ y[1] = a /\ y[2] = b
      BY <3>5
    <3>7. \A i \in 1..Len(x) : x[i] = y[i]
      BY <3>4, <3>6
    <3> QED BY <3>1, <3>2, <3>4, <3>5, <3>6, <3>7, SeqEqual
  <2> QED BY <2>2, <2>3
<1>8. Len(u) = Len(r) + 2
  BY <1>2, <1>4, <1>5
<1>9. \A i \in DOMAIN u : u[i] \in {a, b} \/ \E j \in DOMAIN r : u[i] = r[j]
  BY <1>2, <1>4
<1>10. /\ u \in Seq(DocumentCalls) /\ Chained(u) /\ u # <<>> /\ u[1] = a /\ u[2] = b
       /\ Len(u) = Len(r) + 2
  BY <1>4, <1>6, <1>8
<1>11. \A i \in 1..Len(r) : u[i + 2] = r[i]
  <2>1. TAKE i \in 1..Len(r)
  <2>2. i + 1 \in 1..Len(t) /\ (i + 1) + 1 = i + 2
    BY <1>2, <1>5
  <2> QED BY <2>2, <1>2, <1>4
<1> QED BY <1>7, <1>9, <1>10, <1>11, Zenon

LEMMA EmptyChained ==
  /\ <<>> \in Seq(DocumentCalls) /\ Chained(<<>>) /\ CallsOK(<<>>)
  /\ DOMAIN <<>> = {} /\ Len(<<>>) = 0
<1>1. <<>> \in Seq(DocumentCalls) /\ Len(<<>>) = 0 /\ DOMAIN <<>> = {}
  OBVIOUS
<1>2. 1..(Len(<<>>) - 1) = {}
  BY <1>1
<1> QED BY <1>1, <1>2 DEF Chained, CallsOK

LEMMA ShortQueues ==
  ASSUME NEW a \in DocumentCalls, NEW b \in DocumentCalls, NEW c \in DocumentCalls
  PROVE  /\ <<a>> \in Seq(DocumentCalls) /\ <<a, b>> \in Seq(DocumentCalls)
         /\ <<a, b, c>> \in Seq(DocumentCalls)
         /\ <<a>> # <<>> /\ <<a, b>> # <<>> /\ <<a, b, c>> # <<>>
         /\ MayEnd(a) => Chained(<<a>>)
         /\ MayFollow(a, b) /\ MayEnd(b) => Chained(<<a, b>>)
         /\ MayFollow(a, b) /\ MayFollow(b, c) /\ MayEnd(c) => Chained(<<a, b, c>>)
         /\ CallOK(a) /\ TurnOK(a) => CallsOK(<<a>>)
         /\ CallOK(a) /\ CallOK(b) /\ TurnOK(a) => CallsOK(<<a, b>>)
         /\ CallOK(a) /\ CallOK(b) /\ CallOK(c) /\ TurnOK(a) => CallsOK(<<a, b, c>>)
<1>1. PICK s : s = <<a>>
  OBVIOUS
<1>2. PICK t : t = <<a, b>>
  OBVIOUS
<1>3. PICK u : u = <<a, b, c>>
  OBVIOUS
<1>4. s \in Seq(DocumentCalls) /\ Len(s) = 1 /\ s[1] = a /\ DOMAIN s = 1..1 /\ s # <<>>
  BY <1>1
<1>5. /\ t \in Seq(DocumentCalls) /\ Len(t) = 2 /\ t[1] = a /\ t[2] = b /\ DOMAIN t = 1..2
      /\ t # <<>>
  BY <1>2
<1>6. /\ u \in Seq(DocumentCalls) /\ Len(u) = 3 /\ u[1] = a /\ u[2] = b /\ u[3] = c
      /\ DOMAIN u = 1..3 /\ u # <<>>
  BY <1>3
<1>7. MayEnd(a) => Chained(s)
  BY <1>4 DEF Chained
<1>8. MayFollow(a, b) /\ MayEnd(b) => Chained(t)
  <2>1. 1..(Len(t) - 1) = {1}
    BY <1>5
  <2> QED BY <2>1, <1>5 DEF Chained
<1>9. MayFollow(a, b) /\ MayFollow(b, c) /\ MayEnd(c) => Chained(u)
  <2>1. 1..(Len(u) - 1) = {1, 2}
    BY <1>6
  <2> QED BY <2>1, <1>6 DEF Chained
<1>10. CallOK(a) /\ TurnOK(a) => CallsOK(s)
  <2>1. DOMAIN s = {1}
    BY <1>4
  <2> QED BY <2>1, <1>4 DEF CallsOK
<1>11. CallOK(a) /\ CallOK(b) /\ TurnOK(a) => CallsOK(t)
  <2>1. DOMAIN t = {1, 2}
    BY <1>5
  <2> QED BY <2>1, <1>5 DEF CallsOK
<1>12. CallOK(a) /\ CallOK(b) /\ CallOK(c) /\ TurnOK(a) => CallsOK(u)
  <2>1. DOMAIN u = {1, 2, 3}
    BY <1>6
  <2> QED BY <2>1, <1>6 DEF CallsOK
<1> QED BY <1>1, <1>2, <1>3, <1>4, <1>5, <1>6, <1>7, <1>8, <1>9, <1>10, <1>11, <1>12

\* The call whose turn it is, and the rest.
LEMMA OnTurn ==
  ASSUME DocumentInvariant, NEW p \in Librarians, NEW k, Turn(p, k)
  PROVE  \E q \in Seq(DocumentCalls), c \in DocumentCalls, r \in Seq(DocumentCalls) :
           /\ documentCalls[p] = q /\ q # <<>> /\ q[1] = c /\ Head(documentCalls[p]) = c
           /\ c.kind = k /\ Remaining(p) = r /\ Tail(q) = r
           /\ Chained(r) /\ (r = <<>> => MayEnd(c)) /\ (r # <<>> => MayFollow(c, r[1]))
           /\ CallOK(c) /\ TurnOK(c) /\ \A i \in DOMAIN r : CallOK(r[i])
<1>1. PICK q \in Seq(DocumentCalls) : q = documentCalls[p]
  BY DEF DocumentInvariant
<1>2. q # <<>> /\ Head(q).kind = k /\ Chained(q) /\ CallsOK(q)
  BY <1>1 DEF Turn, DocumentInvariant
<1>3. PICK c \in DocumentCalls : c = q[1] /\ c = Head(q)
  BY <1>2, TailOfQueue
<1>4. PICK r \in Seq(DocumentCalls) : r = Tail(q)
  BY <1>2, TailOfQueue
<1>5. Chained(r) /\ (r = <<>> => MayEnd(c)) /\ (r # <<>> => MayFollow(c, r[1]))
  BY <1>2, <1>3, <1>4, TailChained
<1>6. CallOK(c) /\ TurnOK(c)
  BY <1>2, <1>3, TailOfQueue DEF CallsOK
<1>7. \A i \in DOMAIN r : CallOK(r[i])
  <2>1. TAKE i \in DOMAIN r
  <2>2. i + 1 \in DOMAIN q /\ r[i] = q[i + 1]
    BY <1>2, <1>4, TailOfQueue
  <2> QED BY <2>2, <1>2 DEF CallsOK
<1> QED BY <1>1, <1>2, <1>3, <1>4, <1>5, <1>6, <1>7 DEF Remaining

-----------------------------------------------------------------------------
(***************************************************************************)
(* Documents: what is on record stays, so calls stay justified.            *)
(***************************************************************************)
Grows ==
  /\ Registered \subseteq Registered' /\ Len(versions) <= Len(versions')
  /\ \A v \in Registered : versions'[v] = versions[v]
  /\ \A v \in Versions :
       /\ parses[v] # <<>> => parses'[v] # <<>>
       /\ builds[v] \subseteq builds'[v]
       /\ \A s \in Statuses : Happened(v, s) => Happened(v, s)'

LEMMA RegisteredVersions ==
  ASSUME StoreTyped
  PROVE  /\ Registered \subseteq Versions /\ Len(versions) \in Nat
         /\ DOMAIN versions = Registered
         /\ \A v \in Registered : versions[v] \in VersionRows
         /\ \A v \in Versions : v \in Nat /\ v >= 1 /\ v # None /\ (v \in Registered <=> v <= Len(versions))
<1>1. Len(versions) \in Nat /\ DOMAIN versions = 1..Len(versions)
  BY DEF StoreTyped
<1>2. MaxVersions \in Nat /\ Len(versions) <= MaxVersions
  BY DocumentAssumption DEF StoreTyped
<1>3. \A v \in Registered : versions[v] \in VersionRows
  BY <1>1, ElementOfSeq DEF StoreTyped, Registered
<1> QED BY <1>1, <1>2, <1>3 DEF Registered, Versions, None

LEMMA CallsStay ==
  ASSUME StoreTyped, StoreTyped', Grows, NEW c \in DocumentCalls
  PROVE  (CallOK(c) => CallOK(c)') /\ (TurnOK(c) => TurnOK(c)')
<1>1. /\ Registered \subseteq Versions /\ Len(versions) \in Nat /\ Len(versions') \in Nat
      /\ \A v \in Versions : v \in Nat
  BY RegisteredVersions DEF StoreTyped
<1>2. ASSUME CallOK(c) PROVE CallOK(c)'
  <2>1. c.kind = "bundle" => c.version <= Len(versions') + 1 /\ c.rec.replaces < c.version
    <3>1. HAVE c.kind = "bundle"
    <3>2. c.version \in Versions
      BY <3>1, CallTyped DEF Bundles
    <3> QED BY <1>1, <1>2, <3>1, <3>2 DEF CallOK, Grows
  <2>2. c.kind \in {"event", "index", "mark", "build", "supersede"} => c.version \in Registered'
    BY <1>2 DEF CallOK, Grows
  <2>3. (c.kind = "index" /\ c.publishing) \/ (c.kind = "event" /\ c.status = "published")
          => parses'[c.version] # <<>>
    BY <1>1, <1>2 DEF CallOK, Grows
  <2>4. c.kind = "event" /\ c.status = "superseded" =>
          c.by \in Registered' /\ versions'[c.by].replaces = c.version /\ Happened(c.by, "published")'
    BY <1>1, <1>2 DEF CallOK, Grows, Statuses
  <2>5. c.kind = "supersede" => c.by \in Registered' /\ versions'[c.by].replaces = c.version
    BY <1>1, <1>2 DEF CallOK, Grows
  <2> QED BY <2>1, <2>2, <2>3, <2>4, <2>5 DEF CallOK
<1>3. ASSUME TurnOK(c) PROVE TurnOK(c)'
  <2>1. c.kind \in {"event", "supersede"} => c.version \in Versions
    BY CallTyped DEF EventCalls, Supersedes
  <2>2. c.kind = "supersede" => c.by \in Versions
    BY CallTyped DEF Supersedes
  <2> QED BY <1>1, <1>3, <2>1, <2>2 DEF TurnOK, Grows, Statuses
<1> QED BY <1>2, <1>3

LEMMA Proceeds ==
  ASSUME DocumentInvariant, StoreTyped', Grows, NEW p \in Librarians, NEW q \in Seq(DocumentCalls),
         documentCalls' = [documentCalls EXCEPT ![p] = q], Chained(q),
         \A i \in DOMAIN q : CallOK(q[i]) \/ CallOK(q[i])', q # <<>> => TurnOK(q[1])'
  PROVE  /\ documentCalls' \in [Librarians -> Seq(DocumentCalls)]
         /\ \A r \in Librarians : Chained(documentCalls'[r]) /\ CallsOK(documentCalls[r])'
<1>1. /\ documentCalls' \in [Librarians -> Seq(DocumentCalls)] /\ documentCalls'[p] = q
      /\ \A r \in Librarians \ {p} : documentCalls'[r] = documentCalls[r]
  BY DEF DocumentInvariant
<1>2. StoreTyped
  BY DEF DocumentInvariant
<1>3. CallsOK(q)'
  <2>1. \A i \in DOMAIN q : q[i] \in DocumentCalls
    BY ElementOfSeq, LenProperties
  <2>2. \A i \in DOMAIN q : CallOK(q[i])'
    BY <2>1, <1>2, CallsStay
  <2> QED BY <2>2 DEF CallsOK
<1>4. ASSUME NEW r \in Librarians \ {p}
      PROVE  Chained(documentCalls[r]) /\ CallsOK(documentCalls[r])'
  <2>1. PICK s \in Seq(DocumentCalls) : s = documentCalls[r]
    BY DEF DocumentInvariant
  <2>2. Chained(s) /\ CallsOK(s)
    BY <2>1 DEF DocumentInvariant
  <2>3. \A i \in DOMAIN s : s[i] \in DocumentCalls
    BY ElementOfSeq, LenProperties
  <2>4. \A i \in DOMAIN s : CallOK(s[i])'
    BY <2>2, <2>3, <1>2, CallsStay DEF CallsOK
  <2>5. s # <<>> => TurnOK(s[1])'
    <3>1. s # <<>> => s[1] \in DocumentCalls
      BY TailOfQueue
    <3> QED BY <3>1, <2>2, <1>2, CallsStay DEF CallsOK
  <2>6. documentCalls'[r] = s
    BY <1>1, <2>1
  <2>7. CallsOK(s)'
    BY <2>4, <2>5 DEF CallsOK
  <2> QED BY <2>1, <2>2, <2>6, <2>7 DEF CallsOK
<1>5. \A r \in Librarians : Chained(documentCalls'[r])
  BY <1>1, <1>4
<1>6. \A r \in Librarians : CallsOK(documentCalls[r])'
  BY <1>1, <1>3, <1>4 DEF CallsOK
<1> QED BY <1>1, <1>5, <1>6

LEMMA Promised ==
  ASSUME DocumentInvariant, NEW p \in Librarians, NEW q \in Seq(DocumentCalls),
         documentCalls' = [documentCalls EXCEPT ![p] = q], Chained(q), CallsOK(q),
         UNCHANGED documentStore, documentStops' = documentStops
  PROVE  DocumentInvariant'
<1>1. StoreTyped'
  BY DEF DocumentInvariant, StoreTyped, documentStore
<1>2. /\ DocumentTypeOK' /\ PublishedIsReproducible' /\ SupersededByPublished'
      /\ SupersededByRegistered'
  <2>1. DocumentTypeOK' /\ SupersededByRegistered'
    BY DEF DocumentInvariant, DocumentTypeOK, SupersededByRegistered, documentStore, Registered
  <2>2. PublishedIsReproducible' /\ SupersededByPublished'
    BY DEF DocumentInvariant, PublishedIsReproducible, SupersededByPublished, documentStore,
           Registered, Happened
  <2> QED BY <2>1, <2>2
<1>3. Grows
  <2>1. Len(versions) <= Len(versions)
    BY RegisteredVersions DEF DocumentInvariant
  <2> QED BY <2>1 DEF Grows, documentStore, Registered, Happened
<1>4. (\A i \in DOMAIN q : CallOK(q[i])) /\ (q # <<>> => TurnOK(q[1])')
  BY DEF CallsOK, TurnOK, documentStore, Registered, Happened
<1> QED BY <1>1, <1>2, <1>3, <1>4, Proceeds DEF DocumentInvariant

-----------------------------------------------------------------------------
(***************************************************************************)
(* Documents: the handlers.                                                *)
(***************************************************************************)
LEMMA Create ==
  ASSUME DocumentInvariant, NEW p \in Librarians, create_document_version(p)
  PROVE  DocumentInvariant'
<1>1. PICK source \in Sources, replaces \in Registered \cup {None}, auto_publish \in BOOLEAN :
        Promise(p, IF auto_publish
                   THEN <<[kind |-> "bundle", version |-> Len(versions) + 1,
                           rec |-> [source |-> source, replaces |-> replaces]],
                          Parse(Len(versions) + 1, Current),
                          [kind |-> "publish", version |-> Len(versions) + 1]>>
                   ELSE <<[kind |-> "bundle", version |-> Len(versions) + 1,
                           rec |-> [source |-> source, replaces |-> replaces]]>>)
  BY DEF create_document_version
<1>2. StoreTyped
  BY DEF DocumentInvariant
<1>3. PICK v \in Versions : v = Len(versions) + 1
  <2>1. Len(versions) < MaxVersions /\ Len(versions) \in Nat /\ MaxVersions \in Nat
    BY <1>2, RegisteredVersions, DocumentAssumption DEF create_document_version
  <2> QED BY <2>1 DEF Versions
<1>4. replaces \in Nat /\ replaces < v
  <2>1. Len(versions) \in Nat
    BY <1>2, RegisteredVersions
  <2> QED BY <2>1, <1>3 DEF Registered, None
<1>5. PICK a : a = [kind |-> "bundle", version |-> v, rec |-> [source |-> source, replaces |-> replaces]]
  OBVIOUS
<1>6. PICK b : b = Parse(v, Current)
  OBVIOUS
<1>7. PICK c : c = [kind |-> "publish", version |-> v]
  OBVIOUS
<1>8. a \in DocumentCalls
  <2>1. [source |-> source, replaces |-> replaces] \in VersionRows
    BY <1>4 DEF VersionRows
  <2> QED BY <1>5, <2>1 DEF DocumentCalls, Bundles
<1>9. b \in DocumentCalls /\ c \in DocumentCalls
  BY <1>3, <1>6, <1>7, DocumentAssumption
     DEF DocumentCalls, ParserCalls, Publishes, Parse
<1>10. a.kind = "bundle" /\ a.version = v /\ a.rec.replaces = replaces
  BY <1>5
<1>11. b.kind = "parse" /\ b.version = v /\ c.kind = "publish" /\ c.version = v
  BY <1>6, <1>7 DEF Parse
<1>12. MayFollow(a, b) /\ MayFollow(b, c) /\ MayEnd(c) /\ MayEnd(a)
  BY <1>10, <1>11 DEF MayFollow, MayEnd
<1>13. CallOK(a) /\ TurnOK(a) /\ CallOK(b) /\ CallOK(c)
  <2>1. v <= Len(versions) + 1
    BY <1>3, <1>2, RegisteredVersions
  <2> QED BY <2>1, <1>4, <1>10, <1>11 DEF CallOK, TurnOK
<1>14. Promise(p, IF auto_publish THEN <<a, b, c>> ELSE <<a>>)
  BY <1>1, <1>3, <1>5, <1>6, <1>7
<1>15. PICK q \in Seq(DocumentCalls) : q = (IF auto_publish THEN <<a, b, c>> ELSE <<a>>)
                                       /\ Chained(q) /\ CallsOK(q)
  BY <1>8, <1>9, <1>12, <1>13, ShortQueues
<1> QED BY <1>14, <1>15, Promised DEF Promise, Proceed

LEMMA ParseVersion ==
  ASSUME DocumentInvariant, NEW p \in Librarians, parse_document_version(p)
  PROVE  DocumentInvariant'
<1>1. PICK v \in Registered, parser \in Parsers :
        Promise(p, IF versions[v].source \in Unparsable
                   THEN <<Event(v, "parse_failed", None)>> ELSE <<Parse(v, parser)>>)
  BY DEF parse_document_version
<1>2. v \in Versions
  BY RegisteredVersions DEF DocumentInvariant
<1>3. PICK a : a = Event(v, "parse_failed", None)
  OBVIOUS
<1>4. PICK b : b = Parse(v, parser)
  OBVIOUS
<1>5. a \in DocumentCalls /\ b \in DocumentCalls
  BY <1>2, <1>3, <1>4 DEF Event, Parse, None, Statuses, DocumentCalls, EventCalls, ParserCalls
<1>6. /\ a.kind = "event" /\ a.version = v /\ a.status = "parse_failed"
      /\ b.kind = "parse" /\ b.version = v
  BY <1>3, <1>4 DEF Event, Parse
<1>7. MayEnd(a) /\ MayEnd(b) /\ CallOK(a) /\ TurnOK(a) /\ CallOK(b) /\ TurnOK(b)
  BY <1>6 DEF MayEnd, CallOK, TurnOK
<1>8. PICK q \in Seq(DocumentCalls) :
        q = (IF versions[v].source \in Unparsable THEN <<a>> ELSE <<b>>) /\ Chained(q) /\ CallsOK(q)
  BY <1>5, <1>7, ShortQueues
<1> QED BY <1>1, <1>3, <1>4, <1>8, Promised DEF Promise, Proceed

\* What publication promises: the index, the event, and what becomes of the
\* version replaced.
LEMMA PublicationPlanned ==
  ASSUME DocumentInvariant, NEW v \in Registered, parses[v] # <<>>
  PROVE  \E q \in Seq(DocumentCalls) :
           /\ q = Publication(v) /\ q # <<>> /\ Chained(q) /\ CallsOK(q)
           /\ q[1] = Indexing(v, TRUE)
           /\ versions[v].replaces # None => 
                \E i \in DOMAIN q : q[i].kind = "supersede" /\ q[i].version = versions[v].replaces
<1>1. StoreTyped /\ v \in Versions /\ versions[v] \in VersionRows
  BY RegisteredVersions DEF DocumentInvariant
<1>2. PICK old \in Nat : old = versions[v].replaces
  BY <1>1 DEF VersionRows
<1>3. old < v
  <2>1. versions[v].replaces \in 0..(v - 1) /\ v \in Nat
    BY RegisteredVersions DEF DocumentInvariant, DocumentTypeOK
  <2> QED BY <2>1, <1>2
<1>4. PICK a : a = Indexing(v, TRUE)
  OBVIOUS
<1>5. PICK b : b = Event(v, "published", None)
  OBVIOUS
<1>6. PICK c : c = [kind |-> "supersede", version |-> old, by |-> v]
  OBVIOUS
<1>7. a \in DocumentCalls /\ b \in DocumentCalls
  BY <1>1, <1>4, <1>5 DEF Indexing, Event, None, Statuses, DocumentCalls, IndexCalls, EventCalls
<1>8. old # None => old \in Versions /\ old \in Registered
  BY <1>1, <1>3, RegisteredVersions DEF Versions, None
<1>9. old # None => c \in DocumentCalls
  BY <1>1, <1>6, <1>8 DEF DocumentCalls, Supersedes
<1>10. /\ a.kind = "index" /\ a.version = v /\ a.publishing = TRUE
       /\ b.kind = "event" /\ b.version = v /\ b.status = "published" /\ b.by = None
       /\ c.kind = "supersede" /\ c.version = old /\ c.by = v
  BY <1>4, <1>5, <1>6 DEF Indexing, Event
<1>11. MayFollow(a, b) /\ MayEnd(b) /\ MayFollow(b, c) /\ MayEnd(c)
  BY <1>5, <1>10 DEF MayFollow, MayEnd
<1>12. CallOK(a) /\ TurnOK(a) /\ CallOK(b) /\ (old # None => CallOK(c))
  BY <1>2, <1>8, <1>10 DEF CallOK, TurnOK
<1>13. <<a, b>> \in Seq(DocumentCalls)
  BY <1>7
<1>14. CASE old = None
  <2>1. Publication(v) = <<a, b>>
    <3>1. Publication(v) = <<a, b>> \o <<>>
      BY <1>2, <1>4, <1>5, <1>14 DEF Publication, IndexedFirst, Supersession
    <3> QED BY <3>1, <1>13, ConcatEmptySeq
  <2>2. PICK q \in Seq(DocumentCalls) : q = <<a, b>> /\ q # <<>> /\ Chained(q) /\ CallsOK(q)
    BY <1>7, <1>11, <1>12, ShortQueues
  <2>3. q[1] = a
    BY <2>2
  <2> QED BY <2>1, <2>2, <2>3, <1>2, <1>4, <1>14
<1>15. CASE old # None
  <2>1. PICK r : r = <<c>>
    OBVIOUS
  <2>2. r \in Seq(DocumentCalls) /\ Chained(r) /\ r # <<>> /\ r[1] = c /\ DOMAIN r = 1..1
    <3>1. c \in DocumentCalls
      BY <1>9, <1>15
    <3>2. r \in Seq(DocumentCalls) /\ Chained(r) /\ r # <<>>
      BY <2>1, <3>1, <1>11, ShortQueues
    <3> QED BY <2>1, <3>2
  <2>3. PICK q : q = <<a, b>> \o r
    OBVIOUS
  <2>4. /\ q \in Seq(DocumentCalls) /\ Chained(q) /\ q # <<>> /\ q[1] = a /\ Len(q) = Len(r) + 2
        /\ \A i \in DOMAIN q : q[i] \in {a, b} \/ \E j \in DOMAIN r : q[i] = r[j]
    BY <2>2, <2>3, <1>7, <1>11, TwoChained
  <2>5. \A i \in DOMAIN q : q[i] \in {a, b, c}
    BY <2>2, <2>4
  <2>6. CallsOK(q)
    BY <2>4, <2>5, <1>12, <1>15 DEF CallsOK
  <2>7. Publication(v) = q
    BY <1>2, <1>4, <1>5, <1>6, <1>15, <2>1, <2>3 DEF Publication, IndexedFirst, Supersession
  <2>8. 3 \in DOMAIN q /\ q[3] = c
    <3>1. PICK s : s = <<a, b>>
      OBVIOUS
    <3>2. s \in Seq(DocumentCalls) /\ Len(s) = 2 /\ Len(r) = 1
      BY <3>1, <2>1, <1>7
    <3>3. /\ Len(q) = Len(s) + Len(r)
          /\ \A i \in 1..(Len(s) + Len(r)) : q[i] = IF i <= Len(s) THEN s[i] ELSE r[i - Len(s)]
      BY <3>1, <3>2, <2>2, <2>3, ConcatProperties
    <3>4. q[3] = r[1] /\ Len(q) = 3
      BY <3>2, <3>3
    <3>5. DOMAIN q = 1..Len(q)
      BY <2>4
    <3> QED BY <3>4, <3>5, <2>2
  <2> QED BY <2>4, <2>6, <2>7, <2>8, <1>2, <1>4, <1>10
<1> QED BY <1>14, <1>15

LEMMA Publish ==
  ASSUME DocumentInvariant, NEW p \in Librarians, publish_document_version(p)
  PROVE  DocumentInvariant'
<1>1. PICK v \in Registered : Publishable(v) /\ Promise(p, Publication(v))
  BY DEF publish_document_version
<1>2. PICK q \in Seq(DocumentCalls) : q = Publication(v) /\ Chained(q) /\ CallsOK(q)
  BY <1>1, PublicationPlanned DEF Publishable
<1> QED BY <1>1, <1>2, Promised DEF Promise, Proceed

LEMMA Retire ==
  ASSUME DocumentInvariant, NEW p \in Librarians, retire_document_version(p)
  PROVE  DocumentInvariant'
<1>1. PICK v \in Registered : Promise(p, <<Marking(v, "retired"), Event(v, "retired", None)>>)
  BY DEF retire_document_version
<1>2. v \in Versions
  BY RegisteredVersions DEF DocumentInvariant
<1>3. PICK a : a = Marking(v, "retired")
  OBVIOUS
<1>4. PICK b : b = Event(v, "retired", None)
  OBVIOUS
<1>5. a \in DocumentCalls /\ b \in DocumentCalls
  BY <1>2, <1>3, <1>4 DEF Marking, Event, None, Statuses, DocumentCalls, Marks, EventCalls
<1>6. /\ a.kind = "mark" /\ a.version = v /\ a.status = "retired"
      /\ b.kind = "event" /\ b.version = v /\ b.status = "retired"
  BY <1>3, <1>4 DEF Marking, Event
<1>7. MayFollow(a, b) /\ MayEnd(b) /\ CallOK(a) /\ TurnOK(a) /\ CallOK(b)
  BY <1>6 DEF MayFollow, MayEnd, CallOK, TurnOK
<1>8. PICK q \in Seq(DocumentCalls) : q = <<a, b>> /\ Chained(q) /\ CallsOK(q)
  BY <1>5, <1>7, ShortQueues
<1> QED BY <1>1, <1>3, <1>4, <1>8, Promised DEF Promise, Proceed

LEMMA Rebuild ==
  ASSUME DocumentInvariant, NEW p \in Librarians, create_index_build(p)
  PROVE  DocumentInvariant'
<1>1. PICK v \in Registered : Promise(p, <<Indexing(v, FALSE)>>)
  BY DEF create_index_build, Published
<1>2. v \in Versions
  BY RegisteredVersions DEF DocumentInvariant
<1>3. PICK a : a = Indexing(v, FALSE)
  OBVIOUS
<1>4. a \in DocumentCalls /\ a.kind = "index" /\ a.version = v /\ a.publishing = FALSE
  BY <1>2, <1>3 DEF Indexing, DocumentCalls, IndexCalls
<1>5. MayEnd(a) /\ CallOK(a) /\ TurnOK(a)
  BY <1>4 DEF MayEnd, CallOK, TurnOK
<1>6. PICK q \in Seq(DocumentCalls) : q = <<a>> /\ Chained(q) /\ CallsOK(q)
  BY <1>4, <1>5, ShortQueues
<1> QED BY <1>1, <1>3, <1>6, Promised DEF Promise, Proceed

-----------------------------------------------------------------------------
(***************************************************************************)
(* Documents: the calls.                                                   *)
(***************************************************************************)
\* What is said of versions by others, when versions and histories stay.
LEMMA HistoriesStay ==
  ASSUME DocumentInvariant, UNCHANGED <<versions, lifecycle>>,
         \A v \in Versions : parses[v] # <<>> => parses'[v] # <<>>,
         \A v \in Versions : builds[v] \subseteq builds'[v],
         StoreTyped', \A v \in Versions : IsInjective(parses'[v])
  PROVE  /\ Grows /\ DocumentTypeOK' /\ PublishedIsReproducible' /\ SupersededByPublished'
         /\ SupersededByRegistered'
<1>1. Registered \subseteq Versions /\ Len(versions) \in Nat
  BY RegisteredVersions DEF DocumentInvariant
<1>2. Grows
  <2>1. Len(versions) <= Len(versions)
    BY <1>1
  <2> QED BY <2>1 DEF Grows, Registered, Happened
<1>3. DocumentTypeOK'
  BY DEF DocumentInvariant, DocumentTypeOK, Registered, StoreTyped, Files
<1>4. PublishedIsReproducible'
  BY <1>1 DEF DocumentInvariant, PublishedIsReproducible, Registered, Happened
<1>5. SupersededByPublished' /\ SupersededByRegistered'
  BY DEF DocumentInvariant, SupersededByPublished, SupersededByRegistered, Registered, Happened
<1> QED BY <1>2, <1>3, <1>4, <1>5

LEMMA Bundle ==
  ASSUME DocumentInvariant, NEW p \in Librarians, save_document_version_bundle(p)
  PROVE  DocumentInvariant'
<1>1. PICK q \in Seq(DocumentCalls), c \in DocumentCalls, r \in Seq(DocumentCalls) :
        /\ documentCalls[p] = q /\ Head(documentCalls[p]) = c /\ c.kind = "bundle"
        /\ Remaining(p) = r /\ Chained(r) /\ (r # <<>> => MayFollow(c, r[1]))
        /\ CallOK(c) /\ \A i \in DOMAIN r : CallOK(r[i])
  BY OnTurn DEF save_document_version_bundle
<1>2. /\ StoreTyped /\ c \in Bundles /\ c.version \in Versions /\ c.rec \in VersionRows
      /\ c.version <= Len(versions) + 1 /\ c.rec.replaces < c.version /\ c.rec.replaces \in Nat
  BY <1>1, CallTyped DEF Bundles, VersionRows, CallOK, DocumentInvariant
<1>3. CASE c.version <= Len(versions) \/ \E v \in Registered : versions[v].source = c.rec.source
  <2>1. UNCHANGED documentStore /\ documentStops' = documentStops
        /\ documentCalls' = [documentCalls EXCEPT ![p] = <<>>]
    BY <1>1, <1>3 DEF save_document_version_bundle, Proceed, documentStore
  <2> QED BY <2>1, EmptyChained, Promised
<1>4. CASE ~(c.version <= Len(versions)) /\ \A v \in Registered : versions[v].source # c.rec.source
  <2>1. /\ versions' = Append(versions, c.rec)
        /\ lifecycle' = [lifecycle EXCEPT ![c.version] = <<[status |-> "draft", by |-> None]>>]
        /\ documentCalls' = [documentCalls EXCEPT ![p] = r]
        /\ UNCHANGED <<parses, builds, index, documentStops>>
    BY <1>1, <1>4 DEF save_document_version_bundle, Proceed
  <2>2. PICK n \in Nat : n = Len(versions)
    BY <1>2, RegisteredVersions
  <2>3. c.version = n + 1 /\ n + 1 <= MaxVersions /\ MaxVersions \in Nat
    BY <1>2, <1>4, <2>2, DocumentAssumption DEF Versions
  <2>4. /\ versions' \in Seq(VersionRows) /\ Len(versions') = n + 1 /\ versions'[n + 1] = c.rec
        /\ \A v \in 1..n : versions'[v] = versions[v]
    BY <1>2, <2>1, <2>2 DEF StoreTyped
  <2>5. /\ Registered = 1..n /\ Registered' = 1..(n + 1) /\ n + 1 \notin Registered
        /\ \A v \in Registered' : v = n + 1 \/ v \in Registered
    BY <2>2, <2>4 DEF Registered
  <2>6. PICK d : d = <<[status |-> "draft", by |-> None]>>
    OBVIOUS
  <2>7. /\ d \in Seq(LifecycleEvents) /\ d # <<>> /\ Head(d).status = "draft" /\ Len(d) = 1
        /\ DOMAIN d = 1..1 /\ d[1].status = "draft"
    <3>1. [status |-> "draft", by |-> None] \in LifecycleEvents
      BY DEF LifecycleEvents, Statuses, None
    <3> QED BY <2>6, <3>1
  <2>8. /\ lifecycle' \in [Versions -> Seq(LifecycleEvents)] /\ lifecycle'[n + 1] = d
        /\ \A v \in Versions : v # n + 1 => lifecycle'[v] = lifecycle[v]
    BY <1>2, <2>1, <2>3, <2>6, <2>7 DEF StoreTyped
  <2>9. StoreTyped'
    BY <1>2, <2>1, <2>3, <2>4, <2>8 DEF StoreTyped
  <2>10. lifecycle[n + 1] = <<>> /\ n + 1 \in Versions
    BY <1>2, <2>3, <2>5 DEF DocumentInvariant, DocumentTypeOK
  <2>11. Registered \subseteq Versions /\ Registered' \subseteq Versions
    BY <2>3, <2>5 DEF Versions
  <2>12. \A v \in Versions : \A s : Happened(v, s) => Happened(v, s)'
    <3>1. \A s : ~Happened(n + 1, s)
      BY <2>10, EmptyChained DEF Happened
    <3> QED BY <2>8, <3>1 DEF Happened
  <2>13. Grows
    BY <2>1, <2>2, <2>4, <2>5, <2>12 DEF Grows
  <2>14. DocumentTypeOK'
    <3>1. ASSUME NEW v \in Registered', NEW w \in Registered',
                 versions'[v].source = versions'[w].source
          PROVE  v = w
      <4>1. \A u \in Registered : versions'[u].source # versions'[n + 1].source
        BY <1>4, <2>4, <2>5
      <4>2. CASE v = n + 1 \/ w = n + 1
        BY <3>1, <4>1, <4>2, <2>5
      <4>3. CASE v \in Registered /\ w \in Registered
        <5>1. versions[v].source = versions[w].source
          BY <3>1, <4>3, <2>4, <2>5
        <5> QED BY <4>3, <5>1 DEF DocumentInvariant, DocumentTypeOK
      <4> QED BY <4>2, <4>3, <2>5
    <3>2. ASSUME NEW v \in Registered' PROVE versions'[v].replaces \in 0..(v - 1)
      <4>1. CASE v = n + 1
        <5>1. versions'[v].replaces = c.rec.replaces /\ c.rec.replaces < n + 1
          BY <4>1, <1>2, <2>3, <2>4
        <5> QED BY <4>1, <5>1, <1>2
      <4>2. CASE v \in Registered
        <5>1. versions'[v] = versions[v]
          BY <4>2, <2>4, <2>5
        <5> QED BY <4>2, <5>1 DEF DocumentInvariant, DocumentTypeOK
      <4> QED BY <4>1, <4>2, <2>5
    <3>3. ASSUME NEW v \in Versions
          PROVE  /\ v \in Registered' <=> lifecycle'[v] # <<>>
                 /\ lifecycle'[v] # <<>> => Head(lifecycle'[v]).status = "draft"
      <4>1. CASE v = n + 1
        BY <4>1, <2>5, <2>7, <2>8
      <4>2. CASE v # n + 1
        <5>1. lifecycle'[v] = lifecycle[v] /\ (v \in Registered' <=> v \in Registered)
          BY <4>2, <2>5, <2>8
        <5> QED BY <5>1 DEF DocumentInvariant, DocumentTypeOK
      <4> QED BY <4>1, <4>2
    <3>4. \A v \in Versions :
            IsInjective(parses'[v]) /\ index'[v] \in {"absent", "active", "superseded", "retired"}
      BY <2>1 DEF DocumentInvariant, DocumentTypeOK
    <3> QED BY <3>1, <3>2, <3>3, <3>4 DEF DocumentTypeOK
  <2>15. PublishedIsReproducible'
    <3>1. ASSUME NEW v \in Registered', Happened(v, "published")'
          PROVE  v \in Registered /\ Happened(v, "published")
      <4>1. \E i \in DOMAIN lifecycle'[v] : lifecycle'[v][i].status = "published"
        BY <3>1 DEF Happened
      <4>2. v # n + 1
        <5>1. \A i \in DOMAIN d : d[i].status = "draft"
          BY <2>7
        <5> QED BY <5>1, <4>1, <2>8
      <4>3. v \in Registered /\ lifecycle'[v] = lifecycle[v]
        BY <4>2, <2>5, <2>8, <2>11
      <4> QED BY <4>1, <4>3 DEF Happened
    <3> QED BY <2>1, <3>1 DEF DocumentInvariant, PublishedIsReproducible
  <2>16. SupersededByPublished' /\ SupersededByRegistered'
    <3>1. ASSUME NEW v \in Registered', NEW i \in DOMAIN lifecycle'[v],
                 lifecycle'[v][i].status = "superseded"
          PROVE  /\ lifecycle'[v][i].by \in Registered'
                 /\ versions'[lifecycle'[v][i].by].replaces = v
                 /\ Happened(lifecycle[v][i].by, "published")'
      <4>1. v # n + 1
        BY <2>7, <2>8, <3>1
      <4>2. v \in Registered /\ lifecycle'[v] = lifecycle[v]
        BY <4>1, <2>5, <2>8, <2>11
      <4>3. PICK by : by = lifecycle[v][i].by
        OBVIOUS
      <4>4. by \in Registered /\ versions[by].replaces = v /\ Happened(by, "published")
        BY <3>1, <4>2, <4>3 DEF DocumentInvariant, SupersededByPublished, SupersededByRegistered
      <4>5. by \in Registered' /\ versions'[by].replaces = v
        BY <4>4, <2>4, <2>5
      <4>6. Happened(by, "published")'
        BY <4>4, <2>11, <2>12
      <4>7. lifecycle'[v][i].by = by
        BY <4>2, <4>3
      <4> QED BY <4>5, <4>6, <4>7 DEF Happened
    <3> QED BY <3>1 DEF SupersededByPublished, SupersededByRegistered, Happened
  <2>17. r # <<>> => TurnOK(r[1])'
    <3>1. HAVE r # <<>>
    <3>2. r[1].kind = "parse" /\ r[1].version = c.version
      BY <1>1, <3>1 DEF MayFollow
    <3> QED BY <2>3, <2>5, <3>2 DEF TurnOK
  <2> QED BY <1>1, <2>1, <2>9, <2>13, <2>14, <2>15, <2>16, <2>17, Proceeds DEF DocumentInvariant
<1> QED BY <1>3, <1>4

LEMMA ReuseParse ==
  ASSUME DocumentInvariant, NEW p \in Librarians, reuse_document_parse(p)
  PROVE  DocumentInvariant'
<1>1. PICK q \in Seq(DocumentCalls), c \in DocumentCalls, r \in Seq(DocumentCalls) :
        /\ documentCalls[p] = q /\ Head(documentCalls[p]) = c /\ c.kind = "parse"
        /\ Remaining(p) = r /\ Chained(r) /\ (r # <<>> => MayFollow(c, r[1]))
        /\ TurnOK(c) /\ \A i \in DOMAIN r : CallOK(r[i])
  BY OnTurn DEF reuse_document_parse
<1>2. c \in ParserCalls /\ c.version \in Versions /\ c.version \in Registered
  BY <1>1, CallTyped DEF ParserCalls, TurnOK
<1>3. r # <<>> => r[1].kind = "publish" /\ r[1].version = c.version
  BY <1>1 DEF MayFollow
<1>4. CallsOK(r)
  BY <1>1, <1>2, <1>3 DEF CallsOK, TurnOK
<1>5. PICK a : a = [c EXCEPT !.kind = "store"]
  OBVIOUS
<1>6. PICK b : b = Event(c.version, "parsed", None)
  OBVIOUS
<1>7. a \in DocumentCalls /\ a.kind = "store" /\ a.version = c.version
  BY <1>2, <1>5 DEF ParserCalls, DocumentCalls
<1>8. b \in DocumentCalls /\ b.kind = "event" /\ b.version = c.version /\ b.status = "parsed"
  BY <1>2, <1>6 DEF Event, None, Statuses, DocumentCalls, EventCalls
<1>9. MayFollow(a, b) /\ MayEnd(b) /\ (r # <<>> => MayFollow(b, r[1]))
  BY <1>3, <1>6, <1>7, <1>8 DEF MayFollow, MayEnd
<1>10. CallOK(a) /\ TurnOK(a) /\ CallOK(b)
  BY <1>2, <1>7, <1>8 DEF CallOK, TurnOK
<1>11. PICK s : s = <<a, b>> \o r
  OBVIOUS
<1>12. /\ s \in Seq(DocumentCalls) /\ Chained(s) /\ s # <<>> /\ s[1] = a
       /\ \A i \in DOMAIN s : s[i] \in {a, b} \/ \E j \in DOMAIN r : s[i] = r[j]
  BY <1>1, <1>7, <1>8, <1>9, <1>11, TwoChained
<1>13. CallsOK(s)
  BY <1>1, <1>10, <1>12 DEF CallsOK
<1>14. \/ Promise(p, r)
       \/ Promise(p, s)
  BY <1>1, <1>5, <1>6, <1>11 DEF reuse_document_parse
<1> QED BY <1>1, <1>4, <1>12, <1>13, <1>14, Promised DEF Promise, Proceed

LEMMA SaveParse ==
  ASSUME DocumentInvariant, NEW p \in Librarians, save_document_parse(p)
  PROVE  DocumentInvariant'
<1>1. PICK q \in Seq(DocumentCalls), c \in DocumentCalls, r \in Seq(DocumentCalls) :
        /\ documentCalls[p] = q /\ Head(documentCalls[p]) = c /\ c.kind = "store"
        /\ Remaining(p) = r /\ Chained(r) /\ (r # <<>> => MayFollow(c, r[1]))
        /\ TurnOK(c) /\ \A i \in DOMAIN r : CallOK(r[i])
  BY OnTurn DEF save_document_parse
<1>2. c \in ParserCalls /\ c.version \in Versions /\ c.parser \in Parsers /\ StoreTyped
  BY <1>1, CallTyped DEF ParserCalls, DocumentInvariant
<1>3. /\ parses' = IF Unrecorded(c.version, c.parser)
                   THEN [parses EXCEPT ![c.version] = Append(parses[c.version], c.parser)]
                   ELSE parses
      /\ documentCalls' = [documentCalls EXCEPT ![p] = r]
      /\ UNCHANGED <<versions, lifecycle, builds, index, documentStops>>
  BY <1>1 DEF save_document_parse, Proceed
<1>4. PICK ps \in Seq(Parsers) : ps = parses[c.version]
  BY <1>2 DEF StoreTyped
<1>5. PICK qs : qs = Append(ps, c.parser)
  OBVIOUS
<1>6. /\ qs \in Seq(Parsers) /\ qs # <<>> /\ Len(ps) \in Nat /\ Len(qs) = Len(ps) + 1
      /\ qs[Len(ps) + 1] = c.parser /\ \A i \in 1..Len(ps) : qs[i] = ps[i]
  BY <1>2, <1>5, AppendProperties, LenProperties
<1>7. parses' \in [Versions -> Seq(Parsers)]
  BY <1>2, <1>3, <1>4, <1>5, <1>6 DEF StoreTyped
<1>8. \A v \in Versions : parses[v] # <<>> => parses'[v] # <<>>
  BY <1>2, <1>3, <1>4, <1>5, <1>6 DEF StoreTyped
<1>9. \A v \in Versions : IsInjective(parses'[v])
  <2>1. ASSUME NEW v \in Versions, v # c.version \/ ~Unrecorded(c.version, c.parser)
        PROVE  IsInjective(parses'[v])
    BY <1>2, <1>3, <2>1 DEF StoreTyped, DocumentInvariant, DocumentTypeOK
  <2>2. Unrecorded(c.version, c.parser) => IsInjective(qs)
    <3>1. HAVE Unrecorded(c.version, c.parser)
    <3>2. IsInjective(ps)
      BY <1>2, <1>4 DEF DocumentInvariant, DocumentTypeOK
    <3>3. \A i \in 1..Len(ps) : ps[i] # c.parser
      BY <1>4, <3>1 DEF Unrecorded, Contains
    <3>4. DOMAIN ps = 1..Len(ps) /\ DOMAIN qs = 1..(Len(ps) + 1)
      BY <1>6
    <3> QED BY <1>6, <3>2, <3>3, <3>4 DEF IsInjective
  <2>3. Unrecorded(c.version, c.parser) => parses'[c.version] = qs
    BY <1>2, <1>3, <1>4, <1>5 DEF StoreTyped
  <2> QED BY <2>1, <2>2, <2>3
<1>10. StoreTyped'
  BY <1>2, <1>3, <1>7 DEF StoreTyped
<1>11. /\ Grows /\ DocumentTypeOK' /\ PublishedIsReproducible' /\ SupersededByPublished'
       /\ SupersededByRegistered'
  BY <1>3, <1>8, <1>9, <1>10, HistoriesStay
<1>12. r # <<>> => TurnOK(r[1])'
  BY <1>1 DEF MayFollow, TurnOK, Event
<1> QED BY <1>1, <1>3, <1>10, <1>11, <1>12, Proceeds DEF DocumentInvariant

LEMMA SaveEvent ==
  ASSUME DocumentInvariant, NEW p \in Librarians, save_document_lifecycle_event(p)
  PROVE  DocumentInvariant'
<1>1. PICK q \in Seq(DocumentCalls), c \in DocumentCalls, r \in Seq(DocumentCalls) :
        /\ documentCalls[p] = q /\ Head(documentCalls[p]) = c /\ c.kind = "event"
        /\ Remaining(p) = r /\ Chained(r) /\ (r # <<>> => MayFollow(c, r[1]))
        /\ CallOK(c) /\ TurnOK(c) /\ \A i \in DOMAIN r : CallOK(r[i])
  BY OnTurn DEF save_document_lifecycle_event
<1>2. /\ StoreTyped /\ c \in EventCalls /\ c.version \in Versions /\ c.status \in Statuses
      /\ c.by \in Nat /\ c.version \in Registered
  BY <1>1, CallTyped DEF EventCalls, DocumentInvariant, CallOK
<1>3. PICK v \in Versions : v = c.version /\ v \in Registered
  BY <1>2
<1>4. PICK e \in LifecycleEvents : e = [status |-> c.status, by |-> c.by]
  BY <1>2 DEF LifecycleEvents
<1>5. /\ lifecycle' = [lifecycle EXCEPT ![v] = Append(lifecycle[v], e)]
      /\ documentCalls' = [documentCalls EXCEPT ![p] = r]
      /\ UNCHANGED <<versions, parses, builds, index, documentStops>>
  BY <1>1, <1>3, <1>4 DEF save_document_lifecycle_event, Proceed
<1>6. PICK s \in Seq(LifecycleEvents) : s = lifecycle[v]
  BY <1>2 DEF StoreTyped
<1>7. PICK t : t = Append(s, e)
  OBVIOUS
<1>8. /\ t \in Seq(LifecycleEvents) /\ t # <<>> /\ Len(s) \in Nat /\ DOMAIN s = 1..Len(s)
      /\ DOMAIN t = 1..(Len(s) + 1) /\ t[Len(s) + 1] = e /\ \A i \in 1..Len(s) : t[i] = s[i]
  BY <1>7, AppendProperties, LenProperties
<1>9. /\ lifecycle' \in [Versions -> Seq(LifecycleEvents)] /\ lifecycle'[v] = t
      /\ \A w \in Versions \ {v} : lifecycle'[w] = lifecycle[w]
  BY <1>2, <1>5, <1>6, <1>7, <1>8 DEF StoreTyped
<1>10. StoreTyped'
  BY <1>2, <1>5, <1>9 DEF StoreTyped
<1>11. Registered' = Registered /\ Registered \subseteq Versions /\ Len(versions) <= Len(versions)
  BY <1>2, <1>5, RegisteredVersions DEF Registered
<1>12. \A i \in DOMAIN t : i = Len(s) + 1 \/ i \in DOMAIN s
  BY <1>8
<1>13. \A w \in Versions : \A st : Happened(w, st) => Happened(w, st)'
  <2>1. ASSUME NEW st, Happened(v, st) PROVE Happened(v, st)'
    <3>1. PICK i \in DOMAIN s : s[i].status = st
      BY <2>1, <1>6 DEF Happened
    <3>2. i \in DOMAIN t /\ t[i] = s[i]
      BY <1>8
    <3> QED BY <3>1, <3>2, <1>9 DEF Happened
  <2> QED BY <2>1, <1>9 DEF Happened
<1>14. Grows
  BY <1>5, <1>11, <1>13 DEF Grows
<1>15. DocumentTypeOK'
  <2>1. s # <<>> /\ Head(s).status = "draft"
    BY <1>3, <1>6 DEF DocumentInvariant, DocumentTypeOK
  <2>2. Head(t).status = "draft"
    BY <2>1, <1>7, HeadTailAppend
  <2>3. \A w \in Versions :
          /\ w \in Registered <=> lifecycle'[w] # <<>>
          /\ lifecycle'[w] # <<>> => Head(lifecycle'[w]).status = "draft"
    BY <2>2, <1>3, <1>8, <1>9 DEF DocumentInvariant, DocumentTypeOK
  <2> QED BY <2>3, <1>5, <1>11 DEF DocumentInvariant, DocumentTypeOK
<1>16. PublishedIsReproducible'
  <2>1. ASSUME NEW w \in Registered, Happened(w, "published")'
        PROVE  parses[w] # <<>> /\ "completed" \in builds[w]
    <3>1. CASE Happened(w, "published")
      BY <3>1 DEF DocumentInvariant, PublishedIsReproducible
    <3>2. CASE w = v /\ c.status = "published"
      BY <3>2, <1>1, <1>3 DEF CallOK, TurnOK
    <3>3. Happened(w, "published") \/ (w = v /\ c.status = "published")
      <4>1. CASE w = v
        <5>1. PICK i \in DOMAIN t : t[i].status = "published"
          BY <2>1, <4>1, <1>9 DEF Happened
        <5>2. CASE i = Len(s) + 1
          BY <5>1, <5>2, <4>1, <1>4, <1>8
        <5>3. CASE i \in DOMAIN s
          BY <5>1, <5>3, <4>1, <1>6, <1>8 DEF Happened
        <5> QED BY <5>2, <5>3, <1>12
      <4>2. CASE w # v
        BY <2>1, <4>2, <1>9, <1>11 DEF Happened
      <4> QED BY <4>1, <4>2
    <3> QED BY <3>1, <3>2, <3>3
  <2> QED BY <2>1, <1>5, <1>11 DEF PublishedIsReproducible
<1>17. SupersededByPublished' /\ SupersededByRegistered'
  <2>1. ASSUME NEW w \in Registered, NEW i \in DOMAIN lifecycle'[w],
               lifecycle'[w][i].status = "superseded"
        PROVE  /\ lifecycle'[w][i].by \in Registered
               /\ versions[lifecycle'[w][i].by].replaces = w
               /\ Happened(lifecycle[w][i].by, "published")'
    <3>1. PICK by : by = lifecycle'[w][i].by
      OBVIOUS
    <3>2. by \in Registered /\ versions[by].replaces = w /\ Happened(by, "published")
      <4>1. CASE w = v /\ i = Len(s) + 1
        BY <2>1, <3>1, <4>1, <1>1, <1>3, <1>4, <1>8, <1>9 DEF CallOK
      <4>2. CASE ~(w = v /\ i = Len(s) + 1)
        <5>1. i \in DOMAIN lifecycle[w] /\ lifecycle'[w][i] = lifecycle[w][i]
          BY <4>2, <1>6, <1>8, <1>9, <1>11, <1>12
        <5> QED BY <5>1, <2>1, <3>1
                DEF DocumentInvariant, SupersededByPublished, SupersededByRegistered
      <4> QED BY <4>1, <4>2
    <3>3. Happened(by, "published")'
      BY <3>2, <1>11, <1>13
    <3> QED BY <3>1, <3>2, <3>3 DEF Happened
  <2>2. versions' = versions /\ Registered' = Registered
    BY <1>5, <1>11
  <2>3. \A w \in Registered : \A i \in DOMAIN lifecycle'[w] :
          lifecycle'[w][i].status = "superseded" => lifecycle'[w][i].by \in Registered
    BY <2>1
  <2>4. \A w \in Registered : \A i \in DOMAIN lifecycle'[w] :
          lifecycle'[w][i].status = "superseded"
            => /\ versions[lifecycle'[w][i].by].replaces = w
               /\ Happened(lifecycle[w][i].by, "published")'
    BY <2>1
  <2>5. SupersededByRegistered'
    BY <2>2, <2>3 DEF SupersededByRegistered
  <2>6. SupersededByPublished'
    BY <2>2, <2>4 DEF SupersededByPublished
  <2> QED BY <2>5, <2>6
<1>18. r # <<>> => TurnOK(r[1])'
  <2>1. HAVE r # <<>>
  <2>2. CASE r[1].kind = "publish" /\ r[1].version = v
    BY <2>2, <1>3, <1>11 DEF TurnOK
  <2>3. CASE r[1].kind = "supersede" /\ r[1].by = v /\ c.status = "published"
    <3>1. Happened(v, "published")'
      <4>1. Len(s) + 1 \in DOMAIN t /\ t[Len(s) + 1].status = "published"
        BY <2>3, <1>4, <1>8
      <4> QED BY <4>1, <1>9 DEF Happened
    <3> QED BY <2>3, <3>1 DEF TurnOK
  <2> QED BY <2>1, <2>2, <2>3, <1>1, <1>3 DEF MayFollow
<1> QED BY <1>1, <1>5, <1>10, <1>14, <1>15, <1>16, <1>17, <1>18, Proceeds DEF DocumentInvariant

LEMMA PublishCreated ==
  ASSUME DocumentInvariant, NEW p \in Librarians, publish_created(p)
  PROVE  DocumentInvariant'
<1>1. PICK q \in Seq(DocumentCalls), c \in DocumentCalls, r \in Seq(DocumentCalls) :
        documentCalls[p] = q /\ Head(documentCalls[p]) = c /\ c.kind = "publish" /\ TurnOK(c)
  BY OnTurn DEF publish_created
<1>2. PICK v \in Registered : v = c.version
  BY <1>1 DEF TurnOK
<1>3. /\ documentCalls' = [documentCalls EXCEPT ![p] = IF Publishable(v) THEN Publication(v) ELSE <<>>]
      /\ UNCHANGED documentStore /\ documentStops' = documentStops
  BY <1>1, <1>2 DEF publish_created, Proceed
<1>4. CASE Publishable(v)
  <2>1. PICK s \in Seq(DocumentCalls) : s = Publication(v) /\ Chained(s) /\ CallsOK(s)
    BY <1>4, PublicationPlanned DEF Publishable
  <2> QED BY <1>3, <1>4, <2>1, Promised
<1>5. CASE ~Publishable(v)
  BY <1>3, <1>5, EmptyChained, Promised
<1> QED BY <1>4, <1>5

LEMMA BuildIndex ==
  ASSUME DocumentInvariant, NEW p \in Librarians, build_document_index(p)
  PROVE  DocumentInvariant'
<1>1. PICK q \in Seq(DocumentCalls), c \in DocumentCalls, r \in Seq(DocumentCalls) :
        /\ documentCalls[p] = q /\ Head(documentCalls[p]) = c /\ c.kind = "index"
        /\ Remaining(p) = r /\ Chained(r) /\ (r = <<>> => MayEnd(c))
        /\ (r # <<>> => MayFollow(c, r[1]))
        /\ CallOK(c) /\ \A i \in DOMAIN r : CallOK(r[i])
  BY OnTurn DEF build_document_index
<1>2. /\ c \in IndexCalls /\ c.version \in Versions /\ c.version \in Registered
      /\ c.publishing \in BOOLEAN /\ StoreTyped
  BY <1>1, CallTyped DEF IndexCalls, CallOK, DocumentInvariant
<1>3. PICK v \in Versions : v = c.version /\ v \in Registered
  BY <1>2
<1>4. UNCHANGED <<versions, lifecycle, parses, index, documentStops>>
  BY DEF build_document_index
<1>5. CASE /\ documentCalls' = [documentCalls EXCEPT ![p] =
                <<IndexWrite([index EXCEPT ![v] = "active"]),
                  [kind |-> "build", version |-> v]>> \o r]
           /\ UNCHANGED builds
  <2>1. PICK file \in Files : file = [index EXCEPT ![v] = "active"]
    BY <1>2 DEF StoreTyped, Files
  <2>2. PICK a : a = IndexWrite(file)
    OBVIOUS
  <2>3. PICK b : b = [kind |-> "build", version |-> v]
    OBVIOUS
  <2>4. a \in DocumentCalls /\ a.kind = "write"
    BY <2>1, <2>2 DEF IndexWrite, DocumentCalls, Writes
  <2>5. b \in DocumentCalls /\ b.kind = "build" /\ b.version = v
    BY <2>3 DEF DocumentCalls, BuildCalls
  <2>6. MayFollow(a, b) /\ MayEnd(b) /\ (r # <<>> => MayFollow(b, r[1]))
    BY <1>1, <1>3, <2>4, <2>5 DEF MayFollow, MayEnd
  <2>7. CallOK(a) /\ TurnOK(a) /\ CallOK(b)
    BY <1>3, <2>4, <2>5 DEF CallOK, TurnOK
  <2>8. PICK s : s = <<a, b>> \o r
    OBVIOUS
  <2>9. /\ s \in Seq(DocumentCalls) /\ Chained(s) /\ s # <<>> /\ s[1] = a
        /\ \A i \in DOMAIN s : s[i] \in {a, b} \/ \E j \in DOMAIN r : s[i] = r[j]
    BY <1>1, <2>4, <2>5, <2>6, <2>8, TwoChained
  <2>10. CallsOK(s)
    BY <1>1, <2>7, <2>9 DEF CallsOK
  <2>11. documentCalls' = [documentCalls EXCEPT ![p] = s]
    BY <1>5, <2>1, <2>2, <2>3, <2>8
  <2> QED BY <1>4, <1>5, <2>9, <2>10, <2>11, Promised DEF documentStore
<1>6. CASE /\ builds' = [builds EXCEPT ![v] = builds[v] \cup {"failed"}]
           /\ documentCalls' = [documentCalls EXCEPT ![p] =
                IF c.publishing THEN <<Event(v, "index_failed", None)>> ELSE <<>>]
  <2>1. /\ builds' \in [Versions -> SUBSET {"failed", "completed"}]
        /\ \A w \in Versions : builds[w] \subseteq builds'[w]
    BY <1>2, <1>6 DEF StoreTyped
  <2>2. StoreTyped'
    BY <1>2, <1>4, <2>1 DEF StoreTyped
  <2>3. /\ Grows /\ DocumentTypeOK' /\ PublishedIsReproducible' /\ SupersededByPublished'
        /\ SupersededByRegistered'
    BY <1>4, <2>1, <2>2, HistoriesStay DEF DocumentInvariant, DocumentTypeOK
  <2>4. PICK a : a = Event(v, "index_failed", None)
    OBVIOUS
  <2>5. a \in DocumentCalls /\ a.kind = "event" /\ a.version = v /\ a.status = "index_failed"
    BY <2>4 DEF Event, None, Statuses, DocumentCalls, EventCalls
  <2>6. CallOK(a) /\ TurnOK(a) /\ MayEnd(a) /\ TurnOK(a)'
    BY <2>5, <1>3 DEF CallOK, TurnOK, MayEnd
  <2>7. PICK s \in Seq(DocumentCalls) :
          /\ s = (IF c.publishing THEN <<a>> ELSE <<>>) /\ Chained(s) /\ CallsOK(s)
    BY <2>5, <2>6, ShortQueues, EmptyChained
  <2>8. s # <<>> => TurnOK(s[1])'
    BY <2>6, <2>7
  <2>9. documentCalls' = [documentCalls EXCEPT ![p] = s]
    BY <1>6, <2>4, <2>7
  <2> QED BY <2>2, <2>3, <2>7, <2>8, <2>9, Proceeds DEF DocumentInvariant, CallsOK
<1>7. Remaining(p) = r /\ Head(documentCalls[p]) = c /\ c.version = v
  BY <1>1, <1>3
<1> QED BY <1>5, <1>6, <1>7 DEF build_document_index, Proceed

LEMMA SetStatus ==
  ASSUME DocumentInvariant, NEW p \in Librarians, set_rag_document_status(p)
  PROVE  DocumentInvariant'
<1>1. PICK q \in Seq(DocumentCalls), c \in DocumentCalls, r \in Seq(DocumentCalls) :
        /\ documentCalls[p] = q /\ Head(documentCalls[p]) = c /\ c.kind = "mark"
        /\ Remaining(p) = r /\ Chained(r) /\ (r = <<>> => MayEnd(c))
        /\ (r # <<>> => MayFollow(c, r[1])) /\ \A i \in DOMAIN r : CallOK(r[i])
  BY OnTurn DEF set_rag_document_status
<1>2. c \in Marks /\ c.version \in Versions /\ c.status \in {"retired", "superseded"} /\ StoreTyped
  BY <1>1, CallTyped DEF Marks, DocumentInvariant
<1>3. /\ documentCalls' = [documentCalls EXCEPT ![p] =
           IF Indexed(c.version) THEN <<IndexWrite([index EXCEPT ![c.version] = c.status])>> \o r ELSE r]
      /\ UNCHANGED documentStore /\ documentStops' = documentStops
  BY <1>1 DEF set_rag_document_status, Proceed
<1>4. r # <<>> /\ r[1].kind = "event" /\ r[1].status = c.status
  BY <1>1 DEF MayEnd, MayFollow
<1>5. CallsOK(r)
  BY <1>1, <1>2, <1>4 DEF CallsOK, TurnOK
<1>6. PICK file \in Files : file = [index EXCEPT ![c.version] = c.status]
  BY <1>2 DEF StoreTyped, Files
<1>7. PICK a : a = IndexWrite(file)
  OBVIOUS
<1>8. a \in DocumentCalls /\ a.kind = "write"
  BY <1>7 DEF IndexWrite, DocumentCalls, Writes
<1>9. CallOK(a) /\ TurnOK(a) /\ MayFollow(a, r[1])
  BY <1>2, <1>4, <1>8 DEF CallOK, TurnOK, MayFollow
<1>10. PICK s : s = <<a>> \o r
  OBVIOUS
<1>11. /\ s \in Seq(DocumentCalls) /\ Chained(s) /\ s # <<>> /\ s[1] = a
       /\ \A i \in DOMAIN s : s[i] = a \/ \E j \in DOMAIN r : s[i] = r[j]
  BY <1>1, <1>4, <1>8, <1>9, <1>10, OneChained
<1>12. CallsOK(s)
  BY <1>1, <1>9, <1>11 DEF CallsOK
<1>13. documentCalls' = [documentCalls EXCEPT ![p] = IF Indexed(c.version) THEN s ELSE r]
  BY <1>3, <1>6, <1>7, <1>10
<1> QED BY <1>1, <1>3, <1>5, <1>11, <1>12, <1>13, Promised

LEMMA SaveIndex ==
  ASSUME DocumentInvariant, NEW p \in Librarians, save_runtime_rag_documents(p)
  PROVE  DocumentInvariant'
<1>1. PICK q \in Seq(DocumentCalls), c \in DocumentCalls, r \in Seq(DocumentCalls) :
        /\ documentCalls[p] = q /\ Head(documentCalls[p]) = c /\ c.kind = "write"
        /\ Remaining(p) = r /\ Chained(r) /\ (r = <<>> => MayEnd(c))
        /\ (r # <<>> => MayFollow(c, r[1])) /\ \A i \in DOMAIN r : CallOK(r[i])
  BY OnTurn DEF save_runtime_rag_documents
<1>2. c.file \in Files /\ StoreTyped
  BY <1>1, CallTyped DEF Writes, DocumentInvariant
<1>3. /\ index' = c.file /\ documentCalls' = [documentCalls EXCEPT ![p] = r]
      /\ UNCHANGED <<versions, lifecycle, parses, builds, documentStops>>
  BY <1>1 DEF save_runtime_rag_documents, Proceed
<1>4. StoreTyped'
  BY <1>2, <1>3 DEF StoreTyped
<1>5. /\ Grows /\ DocumentTypeOK' /\ PublishedIsReproducible' /\ SupersededByPublished'
      /\ SupersededByRegistered'
  BY <1>3, <1>4, HistoriesStay DEF DocumentInvariant, DocumentTypeOK
<1>6. r # <<>> => TurnOK(r[1])'
  BY <1>1 DEF MayFollow, TurnOK
<1> QED BY <1>1, <1>3, <1>4, <1>5, <1>6, Proceeds DEF DocumentInvariant

LEMMA SaveBuild ==
  ASSUME DocumentInvariant, NEW p \in Librarians, save_index_build(p)
  PROVE  DocumentInvariant'
<1>1. PICK q \in Seq(DocumentCalls), c \in DocumentCalls, r \in Seq(DocumentCalls) :
        /\ documentCalls[p] = q /\ Head(documentCalls[p]) = c /\ c.kind = "build"
        /\ Remaining(p) = r /\ Chained(r) /\ (r # <<>> => MayFollow(c, r[1]))
        /\ \A i \in DOMAIN r : CallOK(r[i])
  BY OnTurn DEF save_index_build
<1>2. c \in BuildCalls /\ c.version \in Versions /\ StoreTyped
  BY <1>1, CallTyped DEF BuildCalls, DocumentInvariant
<1>3. /\ builds' = [builds EXCEPT ![c.version] = builds[c.version] \cup {"completed"}]
      /\ documentCalls' = [documentCalls EXCEPT ![p] = r]
      /\ UNCHANGED <<versions, lifecycle, parses, index, documentStops>>
  BY <1>1 DEF save_index_build, Proceed
<1>4. /\ builds' \in [Versions -> SUBSET {"failed", "completed"}]
      /\ \A v \in Versions : builds[v] \subseteq builds'[v]
      /\ "completed" \in builds'[c.version]
  BY <1>2, <1>3 DEF StoreTyped
<1>5. StoreTyped'
  BY <1>2, <1>3, <1>4 DEF StoreTyped
<1>6. /\ Grows /\ DocumentTypeOK' /\ PublishedIsReproducible' /\ SupersededByPublished'
      /\ SupersededByRegistered'
  BY <1>3, <1>4, <1>5, HistoriesStay DEF DocumentInvariant, DocumentTypeOK
<1>7. r # <<>> => TurnOK(r[1])'
  <2>1. HAVE r # <<>>
  <2>2. r[1] = Event(c.version, "published", None)
    BY <2>1, <1>1 DEF MayFollow
  <2>3. r[1].kind = "event" /\ r[1].version = c.version
    BY <2>2 DEF Event
  <2> QED BY <2>3, <1>4 DEF TurnOK
<1> QED BY <1>1, <1>3, <1>5, <1>6, <1>7, Proceeds DEF DocumentInvariant

LEMMA Supersede ==
  ASSUME DocumentInvariant, NEW p \in Librarians, supersede(p)
  PROVE  DocumentInvariant'
<1>1. PICK q \in Seq(DocumentCalls), c \in DocumentCalls, r \in Seq(DocumentCalls) :
        /\ documentCalls[p] = q /\ Head(documentCalls[p]) = c /\ c.kind = "supersede"
        /\ CallOK(c) /\ TurnOK(c)
  BY OnTurn DEF supersede
<1>2. c \in Supersedes /\ c.version \in Versions /\ c.by \in Versions /\ c.by \in Nat
  BY <1>1, CallTyped, RegisteredVersions DEF Supersedes, DocumentInvariant
<1>3. PICK a : a = Marking(c.version, "superseded")
  OBVIOUS
<1>4. PICK b : b = Event(c.version, "superseded", c.by)
  OBVIOUS
<1>5. a \in DocumentCalls /\ a.kind = "mark" /\ a.version = c.version /\ a.status = "superseded"
  BY <1>2, <1>3 DEF Marking, DocumentCalls, Marks
<1>6. /\ b \in DocumentCalls /\ b.kind = "event" /\ b.version = c.version
      /\ b.status = "superseded" /\ b.by = c.by
  BY <1>2, <1>4 DEF Event, Statuses, DocumentCalls, EventCalls
<1>7. MayFollow(a, b) /\ MayEnd(b) /\ CallOK(a) /\ TurnOK(a) /\ CallOK(b)
  BY <1>1, <1>5, <1>6 DEF MayFollow, MayEnd, CallOK, TurnOK
<1>8. PICK s \in Seq(DocumentCalls) : s = <<a, b>> /\ Chained(s) /\ CallsOK(s)
  BY <1>5, <1>6, <1>7, ShortQueues
<1>9. /\ documentCalls' = [documentCalls EXCEPT ![p] =
           IF Status(c.version) \in {"retired", "superseded"} THEN <<>> ELSE s]
      /\ UNCHANGED documentStore /\ documentStops' = documentStops
  BY <1>1, <1>3, <1>4, <1>8 DEF supersede, Proceed
<1> QED BY <1>8, <1>9, EmptyChained, Promised

\* A stop leaves a thread with nothing to do, or with what it had.
LEMMA BreakOff ==
  ASSUME DocumentInvariant, NEW broken \in SUBSET Librarians, break_off(broken)
  PROVE  DocumentInvariant'
<1>1. UNCHANGED documentStore /\ documentStops \in Nat /\ documentStops' = documentStops + 1
  BY DEF break_off, DocumentInvariant, StoreTyped
<1>2. documentCalls' = [p \in Librarians |-> IF p \in broken THEN <<>> ELSE documentCalls[p]]
  BY DEF break_off
<1>3. StoreTyped'
  BY <1>1 DEF DocumentInvariant, StoreTyped, documentStore
<1>4. DocumentTypeOK' /\ SupersededByRegistered'
  BY <1>1 DEF DocumentInvariant, DocumentTypeOK, SupersededByRegistered, documentStore, Registered
<1>5. PublishedIsReproducible' /\ SupersededByPublished'
  BY <1>1 DEF DocumentInvariant, PublishedIsReproducible, SupersededByPublished, documentStore,
              Registered, Happened
<1>6. documentCalls' \in [Librarians -> Seq(DocumentCalls)]
  BY <1>2, EmptyChained DEF DocumentInvariant
<1>7. ASSUME NEW p \in Librarians
      PROVE  Chained(documentCalls'[p]) /\ CallsOK(documentCalls[p])'
  <2>1. PICK s : s = documentCalls'[p] /\ (s = <<>> \/ s = documentCalls[p])
    BY <1>2
  <2>2. Chained(s) /\ CallsOK(s)
    BY <2>1, EmptyChained DEF DocumentInvariant
  <2>3. CallsOK(s)'
    BY <2>2, <1>1 DEF CallsOK, CallOK, TurnOK, documentStore, Registered, Happened
  <2> QED BY <2>1, <2>2, <2>3 DEF CallsOK
<1> QED BY <1>3, <1>4, <1>5, <1>6, <1>7 DEF DocumentInvariant

LEMMA DocumentStutters ==
  ASSUME DocumentInvariant, UNCHANGED documentStore, documentCalls' = documentCalls,
         documentStops' = documentStops
  PROVE  DocumentInvariant'
<1>1. StoreTyped'
  BY DEF DocumentInvariant, StoreTyped, documentStore
<1>2. DocumentTypeOK' /\ SupersededByRegistered'
  BY DEF DocumentInvariant, DocumentTypeOK, SupersededByRegistered, documentStore, Registered
<1>3. PublishedIsReproducible' /\ SupersededByPublished'
  BY DEF DocumentInvariant, PublishedIsReproducible, SupersededByPublished, documentStore,
         Registered, Happened
<1>4. \A p \in Librarians : Chained(documentCalls'[p]) /\ CallsOK(documentCalls[p])'
  BY DEF DocumentInvariant, CallsOK, CallOK, TurnOK, documentStore, Registered, Happened
<1> QED BY <1>1, <1>2, <1>3, <1>4 DEF DocumentInvariant

LEMMA DocumentInitInvariant ==
  ASSUME DocumentInit
  PROVE  DocumentInvariant
<1>1. /\ versions = <<>> /\ Len(versions) = 0 /\ MaxVersions \in Nat
      /\ \A v \in Versions : lifecycle[v] = <<>> /\ parses[v] = <<>> /\ index[v] = "absent"
  BY DocumentAssumption DEF DocumentInit
<1>2. Registered = {}
  BY <1>1 DEF Registered
<1>3. StoreTyped
  <2>1. <<>> \in Seq(VersionRows) /\ <<>> \in Seq(LifecycleEvents) /\ <<>> \in Seq(Parsers)
    OBVIOUS
  <2> QED BY <1>1, <2>1 DEF StoreTyped, DocumentInit, Files
<1>4. DocumentTypeOK
  <2>1. IsInjective(<<>>)
    BY EmptyChained DEF IsInjective
  <2> QED BY <2>1, <1>1, <1>2 DEF DocumentTypeOK
<1>5. PublishedIsReproducible /\ SupersededByPublished /\ SupersededByRegistered
  BY <1>2 DEF PublishedIsReproducible, SupersededByPublished, SupersededByRegistered
<1>6. /\ documentCalls \in [Librarians -> Seq(DocumentCalls)]
      /\ \A p \in Librarians : documentCalls[p] = <<>>
  BY EmptyChained DEF DocumentInit
<1> QED BY <1>3, <1>4, <1>5, <1>6, EmptyChained DEF DocumentInvariant

LEMMA DocumentStep ==
  ASSUME DocumentInvariant, [DocumentNext]_documentVars
  PROVE  DocumentInvariant'
<1>1. CASE DocumentNext
  <2>1. ASSUME NEW p \in Librarians,
               \/ create_document_version(p)
               \/ parse_document_version(p)
               \/ publish_document_version(p)
               \/ retire_document_version(p)
               \/ create_index_build(p)
               \/ save_document_version_bundle(p)
               \/ reuse_document_parse(p)
               \/ save_document_parse(p)
               \/ save_document_lifecycle_event(p)
               \/ publish_created(p)
               \/ build_document_index(p)
               \/ set_rag_document_status(p)
               \/ save_runtime_rag_documents(p)
               \/ save_index_build(p)
               \/ supersede(p)
        PROVE  DocumentInvariant'
    BY <2>1, Create, ParseVersion, Publish, Retire, Rebuild, Bundle, ReuseParse, SaveParse,
       SaveEvent, PublishCreated, BuildIndex, SetStatus, SaveIndex, SaveBuild, Supersede
  <2>2. ASSUME NEW broken \in SUBSET Librarians, break_off(broken) PROVE DocumentInvariant'
    BY <2>2, BreakOff
  <2>3. CASE expire
    BY <2>3, DocumentStutters DEF expire
  <2> QED BY <1>1, <2>1, <2>2, <2>3 DEF DocumentNext
<1>2. CASE UNCHANGED documentVars
  BY <1>2, DocumentStutters DEF documentVars, documentStore
<1> QED BY <1>1, <1>2

\* Whatever runs beside it, fails or is cut off: what was ever published has a parse
\* and a completed build, and only a published version supersedes, and the one it
\* names; for any sources, parsers, threads and failures (publish_document_version).
THEOREM DocumentsSafe == DocumentSpec => []DocumentsHold
<1>1. DocumentInit => DocumentInvariant
  BY DocumentInitInvariant
<1>2. DocumentInvariant /\ [DocumentNext]_documentVars => DocumentInvariant'
  BY DocumentStep
<1>3. DocumentInvariant => DocumentsHold
  BY DEF DocumentInvariant, DocumentsHold
<1> QED BY <1>1, <1>2, <1>3, PTL DEF DocumentSpec

-----------------------------------------------------------------------------
(***************************************************************************)
(* Documents: the invariant of one handler at a time, none cut off.        *)
(***************************************************************************)
Undisturbed == documentStops = 0 /\ "together" \notin upset
Withdrawals == {"retired", "superseded"}

UsesIn(h) == {i \in DOMAIN h : h[i].status \in DOMAIN InUse}
LastUseIn(h) == IF UsesIn(h) = {} THEN "absent" ELSE InUse[h[Max(UsesIn(h))].status]

\* The index and the history agree on a version, or the next call makes them agree.
Agreed(seen, outcomes, h) ==
  /\ seen = (IF "completed" \in outcomes THEN LastUseIn(h) ELSE "absent")
  /\ "completed" \in outcomes => UsesIn(h) # {}
Agrees(v) == Agreed(index[v], builds[v], lifecycle[v])
Owes(q, v) ==
  /\ q # <<>> /\ q[1].kind \in {"build", "event"} /\ q[1].version = v
  /\ q[1].kind = "event" => q[1].status \in DOMAIN InUse
Accounted(q) == \A v \in Versions : Agrees(v) \/ Owes(q, v)

\* What the next call finds in the index, and what a file holds that it writes.
Rebuilds(q, file, v) == file[v] = "active" /\ (Len(q) = 1 => Status(v) = "published")
Finds(q) ==
  q # <<>> =>
    LET c == q[1] IN
      /\ c.kind = "index" /\ ~c.publishing => Status(c.version) = "published"
      /\ c.kind = "write" /\ q[2].kind = "build" =>
           /\ c.file = [index EXCEPT ![q[2].version] = "active"]
           /\ Rebuilds(Tail(q), c.file, q[2].version)
      /\ c.kind = "write" /\ q[2].kind = "event" =>
           /\ c.file = [index EXCEPT ![q[2].version] = q[2].status]
           /\ "completed" \in builds[q[2].version]
      /\ c.kind = "build" => Rebuilds(q, index, c.version)
      /\ c.kind = "event" /\ c.status = "published" => index[c.version] = "active"
      /\ c.kind = "event" /\ c.status \in Withdrawals =>
           index[c.version] = IF "completed" \in builds[c.version] THEN c.status ELSE "absent"

\* Of the versions that retrieval sees, or is about to see, all but one are to be
\* withdrawn; before a call that leaves the index alone there is one at most.
Awaits(q, v) == \E i \in DOMAIN q : q[i].kind \in {"supersede", "mark"} /\ q[i].version = v
InView(q) == IF q # <<>> /\ q[1].kind = "write" THEN q[1].file ELSE index
Staying(q) == {v \in Versions : InView(q)[v] = "active" /\ ~Awaits(q, v)}
OneStays(q) == \A v, w \in Staying(q) : v = w
Sole == \A v, w \in Versions : index[v] = "active" /\ index[w] = "active" => v = w
ActiveIsPublished(q) ==
  \A v \in Versions : index[v] = "active" => Status(v) = "published" \/ Owes(q, v)
Calm(c) ==
  \/ c.kind \in {"bundle", "parse", "store", "publish", "index"}
  \/ c.kind = "event" /\ c.status \notin DOMAIN InUse
Replaces(q) ==
  q # <<>> =>
    LET c == q[1] IN
      /\ Calm(c) => Sole
      /\ c.kind = "index" /\ c.publishing =>
           /\ index[c.version] # "active"
           /\ \A v \in Versions : index[v] = "active" => Awaits(q, v)
      /\ Calm(c) /\ c.kind = "event" /\ c.status \notin {"parsed", "parse_failed"} =>
           index[c.version] # "active"

InForce(q) ==
  /\ Accounted(q) /\ Finds(q)
  /\ "reparsed" \notin upset => OneStays(q) /\ ActiveIsPublished(q) /\ Replaces(q)

\* Every thread but one is at rest, and the calls of that one account for the index.
ForceInvariant ==
  Undisturbed =>
    \/ AtRest /\ InForce(<<>>)
    \/ \E p \in Librarians :
         /\ ~Quiet(p) /\ \A r \in Librarians \ {p} : Quiet(r)
         /\ InForce(documentCalls[p])

-----------------------------------------------------------------------------
(***************************************************************************)
(* Documents: the last use that a history speaks of.                       *)
(***************************************************************************)
LEMMA UsesNamed ==
  /\ DOMAIN InUse = {"published", "retired", "superseded"}
  /\ InUse["published"] = "active" /\ InUse["retired"] = "retired"
  /\ InUse["superseded"] = "superseded"
BY DEF InUse

\* A set of positions has a last one.
LEMMA LastPosition ==
  ASSUME NEW n \in Nat, NEW S \in SUBSET (1..n), S # {}
  PROVE  Max(S) \in S /\ \A i \in S : i <= Max(S)
<1>1. PICK T \in SUBSET Nat : T = {n - i : i \in S}
  <2>1. \A i \in S : n - i \in Nat
    OBVIOUS
  <2> QED BY <2>1
<1>2. PICK j \in S : n - j \in T
  BY <1>1
<1>3. PICK m \in T : \A k \in T : m <= k
  <2>1. PICK R : R = OpToRel(<, Nat) /\ IsWellFoundedOn(R, Nat)
    BY NatLessThanWellFounded
  <2>2. PICK m \in T : \A k \in T : ~(<<k, m>> \in R)
    BY <1>2, <2>1, WFMin
  <2>3. \A k \in T : k < m => <<k, m>> \in R
    BY <2>1 DEF OpToRel
  <2>4. \A k \in T : ~(k < m) /\ k \in Nat /\ m \in Nat
    BY <2>2, <2>3
  <2> QED BY <2>4
<1>4. PICK x \in S : m = n - x
  BY <1>1
<1>5. \A i \in S : i <= x
  <2>1. TAKE i \in S
  <2>2. n - x <= n - i
    BY <1>1, <1>3, <1>4
  <2> QED BY <2>2
<1>6. \E y \in S : \A i \in S : y >= i
  BY <1>5
<1>7. Max(S) = CHOOSE y \in S : \A i \in S : y >= i
  BY DEF Max
<1>8. Max(S) \in S /\ \A i \in S : Max(S) >= i
  BY <1>6, <1>7
<1> QED BY <1>8

LEMMA LastUseKnown ==
  ASSUME NEW h \in Seq(LifecycleEvents)
  PROVE  /\ UsesIn(h) # {} => LastUseIn(h) \in {"active", "retired", "superseded"}
         /\ UsesIn(h) = {} => LastUseIn(h) = "absent"
         /\ h # <<>> /\ Last(h).status = "published" =>
              UsesIn(h) # {} /\ LastUseIn(h) = "active"
<1>1. Len(h) \in Nat /\ DOMAIN h = 1..Len(h)
  OBVIOUS
<1>2. UsesIn(h) \in SUBSET (1..Len(h))
  BY <1>1 DEF UsesIn
<1>3. ASSUME UsesIn(h) # {}
      PROVE  /\ Max(UsesIn(h)) \in UsesIn(h) /\ \A i \in UsesIn(h) : i <= Max(UsesIn(h))
             /\ LastUseIn(h) = InUse[h[Max(UsesIn(h))].status]
  BY <1>1, <1>2, <1>3, LastPosition DEF LastUseIn
<1>4. UsesIn(h) # {} => LastUseIn(h) \in {"active", "retired", "superseded"}
  <2>1. HAVE UsesIn(h) # {}
  <2>2. PICK m \in UsesIn(h) : LastUseIn(h) = InUse[h[m].status]
    BY <2>1, <1>3
  <2>3. h[m].status \in {"published", "retired", "superseded"}
    BY <2>2, UsesNamed DEF UsesIn
  <2> QED BY <2>2, <2>3, UsesNamed
<1>5. h # <<>> /\ Last(h).status = "published" => UsesIn(h) # {} /\ LastUseIn(h) = "active"
  <2>1. HAVE h # <<>> /\ Last(h).status = "published"
  <2>2. Len(h) >= 1 /\ h[Len(h)].status = "published"
    BY <2>1, EmptySeq DEF Last
  <2>3. Len(h) \in UsesIn(h)
    BY <2>2, <1>1, UsesNamed DEF UsesIn
  <2>4. PICK m \in UsesIn(h) : Len(h) <= m /\ LastUseIn(h) = InUse[h[m].status]
    BY <2>3, <1>3
  <2>5. m = Len(h)
    BY <2>4, <1>1, <1>2
  <2> QED BY <2>2, <2>3, <2>4, <2>5, UsesNamed
<1>6. UsesIn(h) = {} => LastUseIn(h) = "absent"
  BY DEF LastUseIn
<1> QED BY <1>4, <1>5, <1>6

LEMMA UseRecorded ==
  ASSUME NEW h \in Seq(LifecycleEvents), NEW e \in LifecycleEvents,
         NEW t \in Seq(LifecycleEvents), t = Append(h, e)
  PROVE  /\ Last(t) = e /\ t # <<>> /\ t # h
         /\ e.status \in DOMAIN InUse => UsesIn(t) # {} /\ LastUseIn(t) = InUse[e.status]
         /\ e.status \notin DOMAIN InUse => UsesIn(t) = UsesIn(h) /\ LastUseIn(t) = LastUseIn(h)
<1>1. /\ Len(h) \in Nat /\ DOMAIN h = 1..Len(h) /\ Len(t) = Len(h) + 1
      /\ DOMAIN t = 1..(Len(h) + 1) /\ t[Len(h) + 1] = e /\ \A i \in 1..Len(h) : t[i] = h[i]
  BY AppendProperties, LenProperties
<1>2. Last(t) = e /\ t # <<>> /\ t # h
  <2>1. Last(t) = e
    BY <1>1 DEF Last
  <2>2. PICK n \in Nat : n = Len(h) /\ Len(t) = n + 1
    BY <1>1
  <2>3. t # <<>>
    BY <2>2, EmptySeq
  <2>4. t # h
    BY <2>2
  <2> QED BY <2>1, <2>3, <2>4
<1>3. ASSUME e.status \in DOMAIN InUse
      PROVE  UsesIn(t) # {} /\ LastUseIn(t) = InUse[e.status]
  <2>1. Len(h) + 1 \in UsesIn(t) /\ UsesIn(t) \in SUBSET (1..(Len(h) + 1))
    BY <1>1, <1>3 DEF UsesIn
  <2>2. Max(UsesIn(t)) \in UsesIn(t) /\ Len(h) + 1 <= Max(UsesIn(t))
    <3>1. PICK n \in Nat : n = Len(h) + 1
      BY <1>1
    <3> QED BY <2>1, <3>1, LastPosition
  <2>3. Max(UsesIn(t)) = Len(h) + 1
    BY <2>1, <2>2, <1>1
  <2> QED BY <2>1, <2>3, <1>1 DEF LastUseIn
<1>4. ASSUME e.status \notin DOMAIN InUse
      PROVE  UsesIn(t) = UsesIn(h) /\ LastUseIn(t) = LastUseIn(h)
  <2>1. UsesIn(t) = UsesIn(h)
    <3>1. \A i \in DOMAIN t : i = Len(h) + 1 \/ i \in DOMAIN h
      BY <1>1
    <3> QED BY <3>1, <1>1, <1>4 DEF UsesIn
  <2>2. CASE UsesIn(h) = {}
    BY <2>1, <2>2 DEF LastUseIn
  <2>3. CASE UsesIn(h) # {}
    <3>1. UsesIn(h) \in SUBSET (1..Len(h))
      BY <1>1 DEF UsesIn
    <3>2. Max(UsesIn(h)) \in 1..Len(h)
      BY <3>1, <2>3, <1>1, LastPosition
    <3>3. t[Max(UsesIn(h))] = h[Max(UsesIn(h))]
      BY <3>2, <1>1
    <3> QED BY <2>1, <2>3, <3>3 DEF LastUseIn
  <2> QED BY <2>1, <2>2, <2>3
<1> QED BY <1>2, <1>3, <1>4

\* What a version that agrees is known for.
LEMMA Agreement ==
  ASSUME NEW h \in Seq(LifecycleEvents), NEW seen, NEW outcomes, Agreed(seen, outcomes, h)
  PROVE  /\ seen # "absent" <=> "completed" \in outcomes
         /\ seen = "active" => h # <<>>
         /\ h # <<>> /\ Last(h).status = "published" /\ "completed" \in outcomes => seen = "active"
<1>1. h = <<>> => UsesIn(h) = {}
  BY EmptyChained DEF UsesIn
<1>2. /\ seen = (IF "completed" \in outcomes THEN LastUseIn(h) ELSE "absent")
      /\ "completed" \in outcomes => UsesIn(h) # {}
  BY DEF Agreed
<1> QED BY <1>1, <1>2, LastUseKnown

-----------------------------------------------------------------------------
(***************************************************************************)
(* Documents: what a queue says of the index.                              *)
(***************************************************************************)
\* A call that withdraws nothing says nothing of what is awaited.
LEMMA AwaitedStill ==
  ASSUME NEW q \in Seq(DocumentCalls), q # <<>>, NEW v
  PROVE  Awaits(q, v) <=>
           \/ q[1].kind \in {"supersede", "mark"} /\ q[1].version = v
           \/ Awaits(Tail(q), v)
<1>1. PICK r \in Seq(DocumentCalls) : r = Tail(q)
  BY TailOfQueue
<1>2. /\ \A i \in DOMAIN r : i + 1 \in DOMAIN q /\ r[i] = q[i + 1]
      /\ 1 \in DOMAIN q /\ DOMAIN q = 1..Len(q) /\ DOMAIN r = 1..(Len(q) - 1) /\ Len(q) \in Nat
  BY <1>1, TailOfQueue
<1>3. ASSUME Awaits(q, v)
      PROVE  (q[1].kind \in {"supersede", "mark"} /\ q[1].version = v) \/ Awaits(r, v)
  <2>1. PICK i \in DOMAIN q : q[i].kind \in {"supersede", "mark"} /\ q[i].version = v
    BY <1>3 DEF Awaits
  <2>2. CASE i = 1
    BY <2>1, <2>2
  <2>3. CASE i # 1
    <3>1. i - 1 \in DOMAIN r /\ (i - 1) + 1 = i
      BY <2>3, <1>2
    <3>2. r[i - 1] = q[i]
      BY <3>1, <1>2
    <3> QED BY <2>1, <3>1, <3>2 DEF Awaits
  <2> QED BY <2>2, <2>3
<1>4. ASSUME Awaits(r, v) PROVE Awaits(q, v)
  <2>1. PICK i \in DOMAIN r : r[i].kind \in {"supersede", "mark"} /\ r[i].version = v
    BY <1>4 DEF Awaits
  <2> QED BY <2>1, <1>2 DEF Awaits
<1>5. q[1].kind \in {"supersede", "mark"} /\ q[1].version = v => Awaits(q, v)
  BY <1>2 DEF Awaits
<1> QED BY <1>1, <1>3, <1>4, <1>5

\* A file is written for a build or an event.
LEMMA WriteFollowed ==
  ASSUME NEW q \in Seq(DocumentCalls), Chained(q), q # <<>>, q[1].kind = "write"
  PROVE  /\ Tail(q) # <<>> /\ Tail(q)[1] = q[2] /\ q[2] \in DocumentCalls
         /\ q[2].version \in Versions
         /\ q[2].kind = "build" \/ (q[2].kind = "event" /\ q[2].status \in Withdrawals)
<1>1. PICK r \in Seq(DocumentCalls) : r = Tail(q)
  BY TailOfQueue
<1>2. r # <<>> /\ MayFollow(q[1], r[1])
  BY <1>1, TailChained DEF MayEnd
<1>3. r[1] \in DocumentCalls /\ 1 \in DOMAIN r
  BY <1>2, TailOfQueue
<1>4. r[1] = q[2]
  <2>1. r[1] = q[1 + 1]
    BY <1>1, <1>3, TailOfQueue
  <2> QED BY <2>1
<1>5. r[1].kind = "build" \/ (r[1].kind = "event" /\ r[1].status \in Withdrawals)
  BY <1>2 DEF MayFollow, Withdrawals
<1>6. r[1].version \in Versions
  BY <1>3, <1>5, CallTyped DEF BuildCalls, EventCalls
<1> QED BY <1>1, <1>2, <1>3, <1>4, <1>5, <1>6

\* Nothing is to be done in the index: every version agrees, and one is active at most.
Settled ==
  /\ \A v \in Versions : Agrees(v)
  /\ "reparsed" \notin upset =>
       Sole /\ \A v \in Versions : index[v] = "active" => Status(v) = "published"

LEMMA CalmIsSettled ==
  ASSUME NEW q, InForce(q), q = <<>> \/ Calm(q[1])
  PROVE  Settled
<1>1. ASSUME NEW v PROVE ~Owes(q, v)
  BY DEF Owes, Calm
<1>2. \A v \in Versions : Agrees(v)
  BY <1>1 DEF InForce, Accounted
<1>3. ASSUME "reparsed" \notin upset PROVE Sole
  <2>1. CASE q = <<>>
    <3>1. ASSUME NEW v PROVE ~Awaits(q, v)
      BY <2>1, EmptyChained DEF Awaits
    <3> QED BY <1>3, <2>1, <3>1 DEF InForce, OneStays, Staying, InView, Sole
  <2>2. CASE q # <<>>
    BY <1>3, <2>2 DEF InForce, Replaces
  <2> QED BY <2>1, <2>2
<1>4. ASSUME "reparsed" \notin upset
      PROVE  \A v \in Versions : index[v] = "active" => Status(v) = "published"
  BY <1>1, <1>4 DEF InForce, ActiveIsPublished
<1> QED BY <1>2, <1>3, <1>4 DEF Settled

LEMMA SettledIsInForce ==
  ASSUME Settled, NEW q,
         q # <<>> =>
           /\ Calm(q[1]) \/ q[1].kind = "mark"
           /\ q[1].kind = "index" /\ ~q[1].publishing => Status(q[1].version) = "published"
           /\ "reparsed" \notin upset => Replaces(q)
  PROVE  InForce(q)
<1>1. Accounted(q)
  BY DEF Settled, Accounted
<1>2. Finds(q)
  BY UsesNamed DEF Finds, Calm, Withdrawals
<1>3. ASSUME "reparsed" \notin upset PROVE OneStays(q)
  <2>1. InView(q) = index
    BY DEF InView, Calm
  <2> QED BY <1>3, <2>1 DEF OneStays, Staying, Settled, Sole
<1>4. "reparsed" \notin upset => ActiveIsPublished(q) /\ Replaces(q)
  BY DEF Settled, ActiveIsPublished, Replaces
<1> QED BY <1>1, <1>2, <1>3, <1>4 DEF InForce

\* A step that leaves the index alone, and what the histories say of use.
LEMMA ForceCarried ==
  ASSUME index' = index, upset \subseteq upset', StoreTyped,
         NEW q \in Seq(DocumentCalls), Chained(q), InForce(q),
         \A v \in Versions : Agrees(v) => Agrees(v)',
         \A v \in Versions : "completed" \in builds'[v] <=> "completed" \in builds[v],
         q # <<>> /\ q[1].kind \in {"index", "write", "build"} =>
           \A v \in Versions : Status(v) = "published" => Status(v)' = "published",
         "reparsed" \notin upset' =>
           \A v \in Versions : index[v] = "active" /\ Status(v) = "published" =>
             Status(v)' = "published"
  PROVE  InForce(q)'
<1>1. Accounted(q)'
  BY DEF InForce, Accounted, Owes
<1>2. ASSUME "reparsed" \notin upset'
      PROVE  OneStays(q)' /\ ActiveIsPublished(q)' /\ Replaces(q)'
  <2>1. OneStays(q) /\ ActiveIsPublished(q) /\ Replaces(q)
    BY <1>2 DEF InForce
  <2>2. OneStays(q)'
    BY <2>1 DEF OneStays, Staying, InView, Awaits
  <2>3. ActiveIsPublished(q)'
    BY <1>2, <2>1 DEF ActiveIsPublished, Owes
  <2>4. Replaces(q)'
    BY <2>1 DEF Replaces, Sole, Awaits
  <2> QED BY <2>2, <2>3, <2>4
<1>3. Finds(q)'
  <2>1. CASE q = <<>>
    BY <2>1 DEF Finds
  <2>2. CASE q # <<>> /\ q[1].kind \notin {"index", "write", "build", "event"}
    BY <2>2 DEF Finds
  <2>3. CASE q # <<>> /\ q[1].kind \in {"index", "write", "build", "event"}
    <3>1. PICK c \in DocumentCalls : c = q[1]
      BY <2>3, TailOfQueue
    <3>2. /\ Finds(q)
          /\ c.kind \in {"index", "write", "build"} =>
               \A v \in Versions : Status(v) = "published" => Status(v)' = "published"
      BY <2>3, <3>1 DEF InForce
    <3>3. c.kind \in {"index", "build", "event"} => c.version \in Versions
      BY CallTyped DEF IndexCalls, BuildCalls, EventCalls
    <3>4. ASSUME c.kind = "write" PROVE q[2].version \in Versions
      BY <2>3, <3>1, <3>4, WriteFollowed
    <3>5. c.kind = "index" /\ ~c.publishing => Status(c.version)' = "published"
      BY <2>3, <3>1, <3>2, <3>3 DEF Finds
    <3>6. ASSUME c.kind = "write", q[2].kind = "build"
          PROVE  /\ c.file = [index' EXCEPT ![q[2].version] = "active"]
                 /\ Rebuilds(Tail(q), c.file, q[2].version)'
      <4>1. /\ c.file = [index EXCEPT ![q[2].version] = "active"]
            /\ Rebuilds(Tail(q), c.file, q[2].version)
        BY <2>3, <3>1, <3>2, <3>6 DEF Finds
      <4> QED BY <4>1, <3>2, <3>4, <3>6 DEF Rebuilds
    <3>7. ASSUME c.kind = "write", q[2].kind = "event"
          PROVE  /\ c.file = [index' EXCEPT ![q[2].version] = q[2].status]
                 /\ "completed" \in builds'[q[2].version]
      <4>1. /\ c.file = [index EXCEPT ![q[2].version] = q[2].status]
            /\ "completed" \in builds[q[2].version]
        BY <2>3, <3>1, <3>2, <3>7 DEF Finds
      <4> QED BY <4>1, <3>4, <3>7
    <3>8. ASSUME c.kind = "build" PROVE Rebuilds(q, index, c.version)'
      <4>1. Rebuilds(q, index, c.version)
        BY <2>3, <3>1, <3>2, <3>8 DEF Finds
      <4> QED BY <4>1, <3>2, <3>3, <3>8 DEF Rebuilds
    <3>9. c.kind = "event" /\ c.status = "published" => index'[c.version] = "active"
      BY <2>3, <3>1, <3>2 DEF Finds
    <3>10. c.kind = "event" /\ c.status \in Withdrawals =>
             index'[c.version] = IF "completed" \in builds'[c.version] THEN c.status ELSE "absent"
      BY <2>3, <3>1, <3>2, <3>3 DEF Finds
    <3> QED BY <3>1, <3>5, <3>6, <3>7, <3>8, <3>9, <3>10 DEF Finds
  <2> QED BY <2>1, <2>2, <2>3
<1> QED BY <1>1, <1>2, <1>3 DEF InForce

LEMMA ForceKept ==
  ASSUME DocumentInvariant, UNCHANGED <<lifecycle, builds, index>>, upset \subseteq upset',
         NEW q \in Seq(DocumentCalls), Chained(q), InForce(q)
  PROVE  InForce(q)'
<1>1. \A v \in Versions : Agrees(v) => Agrees(v)'
  BY DEF Agrees
<1>2. \A v \in Versions : Status(v) = "published" => Status(v)' = "published"
  BY DEF Status
<1>3. StoreTyped
  BY DEF DocumentInvariant
<1>4. \A v \in Versions : "completed" \in builds'[v] <=> "completed" \in builds[v]
  OBVIOUS
<1> QED BY <1>1, <1>2, <1>3, <1>4, ForceCarried

\* What counts as published is in the index.
LEMMA PublishedIsActive ==
  ASSUME DocumentInvariant, NEW v \in Registered, Agrees(v), Status(v) = "published"
  PROVE  v \in Versions /\ "completed" \in builds[v] /\ index[v] = "active"
<1>1. v \in Versions
  BY RegisteredVersions DEF DocumentInvariant
<1>2. PICK h \in Seq(LifecycleEvents) : h = lifecycle[v]
  BY <1>1 DEF DocumentInvariant, StoreTyped
<1>3. h # <<>> /\ Last(h).status = "published"
  BY <1>1, <1>2 DEF DocumentInvariant, DocumentTypeOK, Status
<1>4. Len(h) \in DOMAIN h /\ h[Len(h)].status = "published"
  <2>1. Len(h) \in Nat /\ Len(h) >= 1 /\ DOMAIN h = 1..Len(h)
    BY <1>3, EmptySeq
  <2> QED BY <2>1, <1>3 DEF Last
<1>5. Happened(v, "published")
  BY <1>2, <1>4 DEF Happened
<1>6. "completed" \in builds[v]
  BY <1>5 DEF DocumentInvariant, PublishedIsReproducible
<1>7. Agreed(index[v], builds[v], h)
  BY <1>2 DEF Agrees
<1> QED BY <1>1, <1>2, <1>3, <1>6, <1>7, Agreement

LEMMA PublicationInForce ==
  ASSUME DocumentInvariant, Settled, NEW v \in Registered, Publishable(v)
  PROVE  \E q \in Seq(DocumentCalls) :
           q = Publication(v) /\ q # <<>> /\ Chained(q) /\ InForce(q)
<1>1. PICK q \in Seq(DocumentCalls) :
        /\ q = Publication(v) /\ q # <<>> /\ Chained(q) /\ q[1] = Indexing(v, TRUE)
        /\ versions[v].replaces # None =>
             \E i \in DOMAIN q : q[i].kind = "supersede" /\ q[i].version = versions[v].replaces
  BY PublicationPlanned DEF Publishable
<1>2. q[1].kind = "index" /\ q[1].version = v /\ q[1].publishing = TRUE
  BY <1>1 DEF Indexing
<1>3. v \in Versions /\ Registered \subseteq Versions /\ \A x \in Versions : x # None
  BY RegisteredVersions DEF DocumentInvariant
<1>4. ASSUME "reparsed" \notin upset PROVE Replaces(q)
  <2>1. Sole /\ \A x \in Versions : index[x] = "active" => Status(x) = "published"
    BY <1>4 DEF Settled
  <2>2. index[v] # "active"
    BY <1>3, <2>1 DEF Publishable
  <2>3. ASSUME NEW x \in Versions, index[x] = "active" PROVE Awaits(q, x)
    <3>1. x \in Registered
      <4>1. PICK h \in Seq(LifecycleEvents) : h = lifecycle[x]
        BY DEF DocumentInvariant, StoreTyped
      <4>2. Agreed(index[x], builds[x], h)
        BY <4>1 DEF Settled, Agrees
      <4>3. h # <<>>
        BY <2>3, <4>2, Agreement
      <4> QED BY <4>1, <4>3 DEF DocumentInvariant, DocumentTypeOK
    <3>2. x \in Published \ {v}
      BY <2>1, <2>2, <2>3, <3>1 DEF Published
    <3>3. ASSUME NEW y \in Published PROVE y = x
      <4>1. y \in Registered /\ y \in Versions /\ Status(y) = "published"
        BY <1>3 DEF Published
      <4>2. index[y] = "active"
        BY <4>1, PublishedIsActive DEF Settled
      <4> QED BY <2>1, <2>3, <4>1, <4>2 DEF Sole
    <3>4. PICK S : S = Published \ {v} /\ S = {x}
      BY <3>2, <3>3
    <3>5. Max(S) = x
      <4>1. x >= x
        BY RegisteredVersions DEF DocumentInvariant
      <4>2. \E y \in S : \A z \in S : y >= z
        BY <3>4, <4>1
      <4>3. Max(S) \in S
        BY <4>2 DEF Max
      <4> QED BY <3>4, <4>3
    <3>6. versions[v].replaces = x
      BY <3>4, <3>5 DEF Publishable, ReplacesCurrent
    <3> QED BY <1>1, <1>3, <3>6 DEF Awaits
  <2> QED BY <1>2, <2>1, <2>2, <2>3 DEF Replaces
<1>5. Calm(q[1])
  BY <1>2 DEF Calm
<1>6. InForce(q)
  BY <1>2, <1>4, <1>5, SettledIsInForce
<1> QED BY <1>1, <1>6

-----------------------------------------------------------------------------
(***************************************************************************)
(* Documents: the handlers begin where the index is settled.               *)
(***************************************************************************)
LEMMA RestIsSettled ==
  ASSUME NEW p \in Librarians, Quiet(p), InForce(documentCalls[p])
  PROVE  Settled
BY CalmIsSettled DEF Quiet

LEMMA CreateInForce ==
  ASSUME NEW p \in Librarians, create_document_version(p), InForce(documentCalls[p]),
         DocumentInvariant, DocumentInvariant'
  PROVE  InForce(documentCalls'[p])
<1>1. Settled
  BY RestIsSettled DEF create_document_version
<1>2. PICK q \in Seq(DocumentCalls) : q = documentCalls'[p]
  BY DEF DocumentInvariant
<1>3. q # <<>> /\ q[1].kind = "bundle"
  <2>1. PICK a, b, c : a.kind = "bundle" /\ (q = <<a, b, c>> \/ q = <<a>>)
    <3>1. documentCalls \in [Librarians -> Seq(DocumentCalls)]
      BY DEF DocumentInvariant
    <3>2. PICK source \in Sources, replaces \in Registered \cup {None}, auto_publish \in BOOLEAN :
            q = IF auto_publish
                THEN <<[kind |-> "bundle", version |-> Len(versions) + 1,
                        rec |-> [source |-> source, replaces |-> replaces]],
                       Parse(Len(versions) + 1, Current),
                       [kind |-> "publish", version |-> Len(versions) + 1]>>
                ELSE <<[kind |-> "bundle", version |-> Len(versions) + 1,
                        rec |-> [source |-> source, replaces |-> replaces]]>>
      BY <1>2, <3>1 DEF create_document_version, Promise, Proceed
    <3>3. PICK a : a = [kind |-> "bundle", version |-> Len(versions) + 1,
                        rec |-> [source |-> source, replaces |-> replaces]]
      OBVIOUS
    <3>4. a.kind = "bundle"
      BY <3>3
    <3> QED BY <3>2, <3>3, <3>4
  <2> QED BY <2>1
<1>4. "reparsed" \notin upset => Replaces(q)
  BY <1>1, <1>3 DEF Replaces, Settled
<1> QED BY <1>1, <1>2, <1>3, <1>4, SettledIsInForce DEF Calm

LEMMA ParseInForce ==
  ASSUME NEW p \in Librarians, parse_document_version(p), InForce(documentCalls[p]),
         DocumentInvariant, DocumentInvariant'
  PROVE  InForce(documentCalls'[p])
<1>1. Settled
  BY RestIsSettled DEF parse_document_version
<1>2. PICK q \in Seq(DocumentCalls) : q = documentCalls'[p]
  BY DEF DocumentInvariant
<1>3. PICK v \in Registered, parser \in Parsers :
        q = IF versions[v].source \in Unparsable
            THEN <<Event(v, "parse_failed", None)>> ELSE <<Parse(v, parser)>>
  BY <1>2 DEF DocumentInvariant, parse_document_version, Promise, Proceed
<1>4. /\ Event(v, "parse_failed", None).kind = "event"
      /\ Event(v, "parse_failed", None).status = "parse_failed"
      /\ Parse(v, parser).kind = "parse"
  BY DEF Event, Parse
<1>5. /\ q # <<>>
      /\ q[1].kind = "parse" \/ (q[1].kind = "event" /\ q[1].status = "parse_failed")
  BY <1>3, <1>4
<1>6. Calm(q[1])
  BY <1>5, UsesNamed DEF Calm
<1>7. "reparsed" \notin upset => Replaces(q)
  BY <1>1, <1>5 DEF Replaces, Settled
<1> QED BY <1>1, <1>2, <1>5, <1>6, <1>7, SettledIsInForce

LEMMA PublishInForce ==
  ASSUME NEW p \in Librarians, publish_document_version(p), InForce(documentCalls[p]),
         DocumentInvariant
  PROVE  InForce(documentCalls'[p])
<1>1. Settled
  BY RestIsSettled DEF publish_document_version
<1>2. PICK v \in Registered : Publishable(v) /\ documentCalls'[p] = Publication(v)
  BY DEF DocumentInvariant, publish_document_version, Promise, Proceed
<1> QED BY <1>1, <1>2, PublicationInForce

LEMMA RetireInForce ==
  ASSUME NEW p \in Librarians, retire_document_version(p), InForce(documentCalls[p]),
         DocumentInvariant
  PROVE  InForce(documentCalls'[p])
<1>1. Settled
  BY RestIsSettled DEF retire_document_version
<1>2. PICK v \in Registered :
        documentCalls'[p] = <<Marking(v, "retired"), Event(v, "retired", None)>>
  BY DEF DocumentInvariant, retire_document_version, Promise, Proceed
<1>3. PICK q : q = documentCalls'[p] /\ q # <<>> /\ q[1] = Marking(v, "retired")
  <2>1. PICK a, b : a = Marking(v, "retired") /\ b = Event(v, "retired", None)
    OBVIOUS
  <2>2. PICK q : q = <<a, b>>
    OBVIOUS
  <2>3. q # <<>> /\ q[1] = a
    BY <2>2
  <2> QED BY <1>2, <2>1, <2>2, <2>3
<1>4. q[1].kind = "mark"
  BY <1>3 DEF Marking
<1>5. Replaces(q)
  BY <1>4 DEF Replaces, Calm
<1> QED BY <1>1, <1>3, <1>4, <1>5, SettledIsInForce

LEMMA RebuildInForce ==
  ASSUME NEW p \in Librarians, create_index_build(p), InForce(documentCalls[p]),
         DocumentInvariant
  PROVE  InForce(documentCalls'[p])
<1>1. Settled
  BY RestIsSettled DEF create_index_build
<1>2. PICK v \in Published : documentCalls'[p] = <<Indexing(v, FALSE)>>
  BY DEF DocumentInvariant, create_index_build, Promise, Proceed
<1>3. PICK q : q = documentCalls'[p] /\ q # <<>> /\ q[1] = Indexing(v, FALSE)
  <2>1. PICK a : a = Indexing(v, FALSE)
    OBVIOUS
  <2>2. PICK q : q = <<a>>
    OBVIOUS
  <2>3. q # <<>> /\ q[1] = a
    BY <2>2
  <2> QED BY <1>2, <2>1, <2>2, <2>3
<1>4. q[1].kind = "index" /\ q[1].version = v /\ q[1].publishing = FALSE
  BY <1>3 DEF Indexing
<1>5. "reparsed" \notin upset => Replaces(q)
  BY <1>1, <1>4 DEF Replaces, Settled
<1> QED BY <1>1, <1>3, <1>4, <1>5, SettledIsInForce DEF Calm, Published

-----------------------------------------------------------------------------
(***************************************************************************)
(* Documents: the calls carry out what the index and the histories owe.    *)
(***************************************************************************)
\* OnTurn, with what the index holds.
LEMMA TurnInForce ==
  ASSUME DocumentInvariant, DocumentInvariant', NEW p \in Librarians, NEW k, Turn(p, k),
         InForce(documentCalls[p])
  PROVE  \E q \in Seq(DocumentCalls), c \in DocumentCalls, r \in Seq(DocumentCalls),
            t \in Seq(DocumentCalls) :
           /\ documentCalls[p] = q /\ q # <<>> /\ q[1] = c /\ Head(documentCalls[p]) = c
           /\ c.kind = k /\ Remaining(p) = r /\ Tail(q) = r
           /\ Chained(q) /\ Chained(r) /\ (r = <<>> => MayEnd(c))
           /\ (r # <<>> => MayFollow(c, r[1])) /\ CallOK(c) /\ TurnOK(c)
           /\ InForce(q) /\ \A v : Awaits(q, v) <=>
                (c.kind \in {"supersede", "mark"} /\ c.version = v) \/ Awaits(r, v)
           /\ documentCalls'[p] = t /\ Chained(t)
<1>1. PICK q \in Seq(DocumentCalls), c \in DocumentCalls, r \in Seq(DocumentCalls) :
        /\ documentCalls[p] = q /\ q # <<>> /\ q[1] = c /\ Head(documentCalls[p]) = c
        /\ c.kind = k /\ Remaining(p) = r /\ Tail(q) = r
        /\ Chained(r) /\ (r = <<>> => MayEnd(c)) /\ (r # <<>> => MayFollow(c, r[1]))
        /\ CallOK(c) /\ TurnOK(c)
  BY OnTurn
<1>2. Chained(q)
  BY <1>1 DEF DocumentInvariant
<1>3. PICK t \in Seq(DocumentCalls) : t = documentCalls'[p] /\ Chained(t)
  BY DEF DocumentInvariant
<1>4. \A v : Awaits(q, v) <=>
        (c.kind \in {"supersede", "mark"} /\ c.version = v) \/ Awaits(r, v)
  <2>1. TAKE v
  <2>2. Awaits(q, v) <=>
          (q[1].kind \in {"supersede", "mark"} /\ q[1].version = v) \/ Awaits(Tail(q), v)
    BY <1>1, AwaitedStill
  <2> QED BY <1>1, <2>2
<1> QED BY <1>1, <1>2, <1>3, <1>4

LEMMA BundleInForce ==
  ASSUME DocumentInvariant, DocumentInvariant', NEW p \in Librarians,
         save_document_version_bundle(p), InForce(documentCalls[p]), upset \subseteq upset'
  PROVE  InForce(documentCalls[p])'
<1>1. PICK q \in Seq(DocumentCalls), c \in DocumentCalls, r \in Seq(DocumentCalls),
           t \in Seq(DocumentCalls) :
        /\ documentCalls[p] = q /\ q # <<>> /\ q[1] = c /\ Head(documentCalls[p]) = c
        /\ c.kind = "bundle" /\ Remaining(p) = r /\ Tail(q) = r
        /\ (r # <<>> => MayFollow(c, r[1])) /\ CallOK(c) /\ InForce(q)
        /\ documentCalls'[p] = t /\ Chained(t)
  BY TurnInForce DEF save_document_version_bundle
<1>2. Settled
  BY <1>1, CalmIsSettled DEF Calm
<1>3. StoreTyped /\ StoreTyped' /\ c.version \in Versions
  BY <1>1, CallTyped DEF DocumentInvariant, Bundles
<1>4. t = <<>> \/ t = r
  BY <1>1 DEF save_document_version_bundle, Proceed, DocumentInvariant
<1>5. t # <<>> => t[1].kind = "parse"
  BY <1>1, <1>4 DEF MayFollow
<1>6. "reparsed" \notin upset => Replaces(t)
  BY <1>2, <1>5 DEF Settled, Replaces
<1>7. InForce(t)
  BY <1>2, <1>5, <1>6, SettledIsInForce DEF Calm
<1>8. UNCHANGED <<builds, index>>
  BY DEF save_document_version_bundle
<1>9. CASE UNCHANGED lifecycle
  BY <1>1, <1>7, <1>8, <1>9, ForceKept
<1>10. CASE /\ ~(c.version <= Len(versions))
            /\ lifecycle' = [lifecycle EXCEPT ![c.version] = <<[status |-> "draft", by |-> None]>>]
  <2>1. PICK d \in Seq(LifecycleEvents) :
          d = lifecycle'[c.version] /\ DOMAIN d = {1} /\ d[1].status = "draft"
    <3>1. PICK d : d = <<[status |-> "draft", by |-> None]>>
      OBVIOUS
    <3>2. DOMAIN d = {1} /\ d[1].status = "draft"
      BY <3>1
    <3>3. lifecycle'[c.version] = d
      BY <1>3, <1>10, <3>1 DEF StoreTyped
    <3>4. d \in Seq(LifecycleEvents)
      BY <1>3, <3>3 DEF StoreTyped
    <3> QED BY <3>2, <3>3, <3>4
  <2>2. UsesIn(d) = {}
    BY <2>1, UsesNamed DEF UsesIn
  <2>3. c.version \notin Registered
    BY <1>3, <1>10, RegisteredVersions
  <2>4. lifecycle[c.version] = <<>>
    BY <1>3, <2>3 DEF DocumentInvariant, DocumentTypeOK
  <2>5. UsesIn(lifecycle[c.version]) = {}
    BY <2>4, EmptyChained DEF UsesIn
  <2>6. Agrees(c.version)
    BY <1>2, <1>3 DEF Settled
  <2>7. "completed" \notin builds[c.version] /\ index[c.version] = "absent"
    BY <2>5, <2>6 DEF Agrees, Agreed
  <2>8. \A v \in Versions : v # c.version => lifecycle'[v] = lifecycle[v]
    BY <1>3, <1>10 DEF StoreTyped
  <2>9. \A v \in Versions : Agrees(v)'
    <3>1. TAKE v \in Versions
    <3>2. CASE v = c.version
      BY <3>2, <2>7, <1>8 DEF Agrees, Agreed
    <3>3. CASE v # c.version
      <4>1. Agrees(v)
        BY <1>2 DEF Settled
      <4> QED BY <4>1, <3>3, <1>8, <2>8 DEF Agrees
    <3> QED BY <3>2, <3>3
  <2>10. "reparsed" \notin upset' =>
           \A v \in Versions : index[v] = "active" /\ Status(v) = "published" =>
             Status(v)' = "published"
    BY <2>7, <2>8 DEF Status
  <2>11. InForce(t)'
    BY <1>1, <1>3, <1>5, <1>7, <1>8, <2>9, <2>10, ForceCarried
  <2> QED BY <1>1, <2>11
<1> QED BY <1>1, <1>9, <1>10 DEF save_document_version_bundle

LEMMA ReuseInForce ==
  ASSUME DocumentInvariant, DocumentInvariant', NEW p \in Librarians,
         reuse_document_parse(p), InForce(documentCalls[p])
  PROVE  InForce(documentCalls'[p])
<1>1. PICK q \in Seq(DocumentCalls), c \in DocumentCalls, r \in Seq(DocumentCalls),
           t \in Seq(DocumentCalls) :
        /\ documentCalls[p] = q /\ q # <<>> /\ q[1] = c /\ Head(documentCalls[p]) = c
        /\ c.kind = "parse" /\ Remaining(p) = r /\ Tail(q) = r
        /\ Chained(r) /\ (r = <<>> => MayEnd(c)) /\ (r # <<>> => MayFollow(c, r[1]))
        /\ InForce(q) /\ documentCalls'[p] = t
  BY TurnInForce DEF reuse_document_parse
<1>2. Settled
  BY <1>1, CalmIsSettled DEF Calm
<1>3. r # <<>> => r[1].kind = "publish" /\ r[1].version = c.version
  BY <1>1 DEF MayFollow
<1>4. PICK a : a = [c EXCEPT !.kind = "store"]
  OBVIOUS
<1>5. PICK b : b = Event(c.version, "parsed", None)
  OBVIOUS
<1>6. c \in ParserCalls /\ c.version \in Versions
  BY <1>1, CallTyped DEF ParserCalls
<1>7. a \in DocumentCalls /\ a.kind = "store" /\ a.version = c.version
  BY <1>4, <1>6 DEF ParserCalls, DocumentCalls
<1>8. b \in DocumentCalls /\ b.kind = "event" /\ b.version = c.version /\ b.status = "parsed"
  BY <1>5, <1>6 DEF Event, None, Statuses, DocumentCalls, EventCalls
<1>9. MayFollow(a, b) /\ MayEnd(b) /\ (r # <<>> => MayFollow(b, r[1]))
  BY <1>3, <1>5, <1>7, <1>8 DEF MayFollow, MayEnd
<1>10. PICK s : s = <<a, b>> \o r
  OBVIOUS
<1>11. s # <<>> /\ s[1] = a
  BY <1>1, <1>7, <1>8, <1>9, <1>10, TwoChained
<1>12. t = s \/ t = r
  BY <1>1, <1>4, <1>5, <1>10 DEF reuse_document_parse, Promise, Proceed, DocumentInvariant
<1>13. t # <<>> => t[1].kind \in {"store", "publish"}
  BY <1>3, <1>7, <1>11, <1>12
<1>14. "reparsed" \notin upset => Replaces(t)
  BY <1>2, <1>13 DEF Settled, Replaces
<1> QED BY <1>1, <1>2, <1>13, <1>14, SettledIsInForce DEF Calm

LEMMA StoreInForce ==
  ASSUME DocumentInvariant, DocumentInvariant', NEW p \in Librarians,
         save_document_parse(p), InForce(documentCalls[p]), upset \subseteq upset'
  PROVE  InForce(documentCalls[p])'
<1>1. PICK q \in Seq(DocumentCalls), c \in DocumentCalls, r \in Seq(DocumentCalls),
           t \in Seq(DocumentCalls) :
        /\ documentCalls[p] = q /\ q # <<>> /\ q[1] = c /\ Head(documentCalls[p]) = c
        /\ c.kind = "store" /\ Remaining(p) = r /\ (r # <<>> => MayFollow(c, r[1]))
        /\ InForce(q) /\ documentCalls'[p] = t /\ Chained(t)
  BY TurnInForce DEF save_document_parse
<1>2. Settled
  BY <1>1, CalmIsSettled DEF Calm
<1>3. t = r
  BY <1>1 DEF save_document_parse, Proceed, DocumentInvariant
<1>4. ASSUME t # <<>> PROVE t[1].kind = "event" /\ t[1].status = "parsed"
  <2>1. t[1] = Event(c.version, "parsed", None)
    BY <1>1, <1>3, <1>4 DEF MayFollow
  <2> QED BY <2>1 DEF Event
<1>5. t # <<>> => Calm(t[1])
  BY <1>4, UsesNamed DEF Calm
<1>6. "reparsed" \notin upset => Replaces(t)
  BY <1>2, <1>4 DEF Settled, Replaces
<1>7. InForce(t)
  BY <1>2, <1>4, <1>5, <1>6, SettledIsInForce
<1>8. UNCHANGED <<lifecycle, builds, index>>
  BY DEF save_document_parse
<1> QED BY <1>1, <1>7, <1>8, ForceKept

LEMMA CreatedInForce ==
  ASSUME DocumentInvariant, DocumentInvariant', NEW p \in Librarians,
         publish_created(p), InForce(documentCalls[p])
  PROVE  InForce(documentCalls'[p])
<1>1. PICK q \in Seq(DocumentCalls), c \in DocumentCalls :
        /\ documentCalls[p] = q /\ q # <<>> /\ q[1] = c /\ Head(documentCalls[p]) = c
        /\ c.kind = "publish" /\ TurnOK(c) /\ InForce(q)
  BY TurnInForce DEF publish_created
<1>2. Settled
  BY <1>1, CalmIsSettled DEF Calm
<1>3. PICK v \in Registered : v = c.version
  BY <1>1 DEF TurnOK
<1>4. documentCalls'[p] = IF Publishable(v) THEN Publication(v) ELSE <<>>
  BY <1>1, <1>3 DEF publish_created, Proceed, DocumentInvariant
<1>5. CASE Publishable(v)
  BY <1>2, <1>4, <1>5, PublicationInForce
<1>6. CASE ~Publishable(v)
  BY <1>2, <1>4, <1>6, SettledIsInForce
<1> QED BY <1>5, <1>6

\* Recording the use that the index already shows, or what is no use of a version.
LEMMA EventInForce ==
  ASSUME DocumentInvariant, DocumentInvariant', NEW p \in Librarians,
         save_document_lifecycle_event(p), InForce(documentCalls[p]), upset' = upset \cup Upsets
  PROVE  InForce(documentCalls[p])'
<1>1. PICK q \in Seq(DocumentCalls), c \in DocumentCalls, r \in Seq(DocumentCalls),
           t \in Seq(DocumentCalls) :
        /\ documentCalls[p] = q /\ q # <<>> /\ q[1] = c /\ Head(documentCalls[p]) = c
        /\ c.kind = "event" /\ Remaining(p) = r /\ (r # <<>> => MayFollow(c, r[1]))
        /\ CallOK(c) /\ TurnOK(c) /\ InForce(q)
        /\ \A v : Awaits(q, v) <=> Awaits(r, v)
        /\ documentCalls'[p] = t /\ Chained(t)
  BY TurnInForce DEF save_document_lifecycle_event
<1>2. /\ StoreTyped /\ c \in EventCalls /\ c.status \in Statuses /\ c.by \in Nat
      /\ c.version \in Versions /\ c.version \in Registered
  BY <1>1, CallTyped DEF EventCalls, CallOK, DocumentInvariant
<1>3. PICK v \in Versions : v = c.version /\ v \in Registered
  BY <1>2
<1>4. PICK e \in LifecycleEvents : e = [status |-> c.status, by |-> c.by] /\ e.status = c.status
  <2>1. [status |-> c.status, by |-> c.by] \in LifecycleEvents
    BY <1>2 DEF LifecycleEvents
  <2> QED BY <2>1
<1>5. /\ lifecycle' = [lifecycle EXCEPT ![v] = Append(lifecycle[v], e)]
      /\ t = r /\ UNCHANGED <<builds, index>>
  BY <1>1, <1>3, <1>4 DEF save_document_lifecycle_event, Proceed, DocumentInvariant
<1>6. PICK h \in Seq(LifecycleEvents) : h = lifecycle[v]
  BY <1>2 DEF StoreTyped
<1>7. PICK s \in Seq(LifecycleEvents) : s = lifecycle'[v] /\ s = Append(h, e)
  BY <1>2, <1>5, <1>6 DEF StoreTyped, DocumentInvariant
<1>8. /\ Last(s) = e /\ s # h
      /\ e.status \in DOMAIN InUse => UsesIn(s) # {} /\ LastUseIn(s) = InUse[e.status]
      /\ e.status \notin DOMAIN InUse => UsesIn(s) = UsesIn(h) /\ LastUseIn(s) = LastUseIn(h)
  <2>1. h \in Seq(LifecycleEvents) /\ e \in LifecycleEvents /\ s \in Seq(LifecycleEvents)
    OBVIOUS
  <2>2. s = Append(h, e)
    BY <1>7
  <2> QED BY ONLY <2>1, <2>2, UseRecorded
<1>9. \A w \in Versions \ {v} : lifecycle'[w] = lifecycle[w]
  BY <1>2, <1>5 DEF StoreTyped
<1>10. \A w \in Versions \ {v} : Agrees(w)' <=> Agrees(w)
  BY <1>5, <1>9 DEF Agrees
<1>11. Status(v)' = c.status /\ \A w \in Versions \ {v} : Status(w)' = Status(w)
  <2>1. Status(v)' = Last(lifecycle'[v]).status
    BY DEF Status
  <2> QED BY <2>1, <1>4, <1>7, <1>8, <1>9 DEF Status
<1>12. upset \subseteq upset'
  OBVIOUS
<1>13. CASE c.status \notin DOMAIN InUse
  <2>1. Settled
    BY <1>1, <1>13, CalmIsSettled DEF Calm
  <2>2. t # <<>> => t[1].kind = "publish"
    BY <1>1, <1>5, <1>13, UsesNamed DEF MayFollow
  <2>3. InForce(t)
    BY <2>1, <2>2, SettledIsInForce DEF Calm, Replaces, Settled
  <2>4. Agrees(v) => Agrees(v)'
    BY <1>4, <1>5, <1>6, <1>7, <1>8, <1>13 DEF Agrees, Agreed
  <2>5. \A w \in Versions : Agrees(w) => Agrees(w)'
    BY <1>10, <2>4
  <2>6. ASSUME "reparsed" \notin upset' PROVE index[v] # "active"
    <3>1. CASE c.status \in {"parsed", "parse_failed"}
      <4>1. Last(lifecycle'[v]).status \in {"parsed", "parse_failed"} /\ lifecycle'[v] # lifecycle[v]
        BY <3>1, <1>4, <1>6, <1>7, <1>8
      <4>2. "reparsed" \notin Upsets
        BY <2>6
      <4> QED BY <4>1, <4>2, <1>3 DEF Upsets
    <3>2. CASE c.status \notin {"parsed", "parse_failed"}
      <4>1. Replaces(q)
        BY <2>6, <1>1, <1>12 DEF InForce
      <4> QED BY <4>1, <3>2, <1>1, <1>3, <1>13 DEF Replaces, Calm
    <3> QED BY <3>1, <3>2
  <2>7. "reparsed" \notin upset' =>
          \A w \in Versions : index[w] = "active" /\ Status(w) = "published" =>
            Status(w)' = "published"
    BY <2>6, <1>11
  <2>8. InForce(t)'
    BY <1>1, <1>2, <1>5, <1>12, <2>2, <2>3, <2>5, <2>7, ForceCarried
  <2> QED BY <2>8, <1>1
<1>14. CASE c.status \in DOMAIN InUse
  <2>1. c.status \in {"published", "retired", "superseded"}
    BY <1>14, UsesNamed
  <2>2. t # <<>> => t[1].kind = "supersede"
    BY <1>1, <1>5, <2>1 DEF MayFollow
  <2>3. Finds(q) /\ \A w \in Versions \ {v} : ~Owes(q, w)
    BY <1>1, <1>3 DEF InForce, Owes
  <2>4. index[v] = IF "completed" \in builds[v] THEN InUse[c.status] ELSE "absent"
    <3>1. CASE c.status = "published"
      BY <3>1, <2>3, <1>1, <1>3, UsesNamed DEF Finds, TurnOK
    <3>2. CASE c.status \in Withdrawals
      BY <3>2, <2>3, <1>1, <1>3, UsesNamed DEF Finds, Withdrawals
    <3> QED BY <2>1, <3>1, <3>2 DEF Withdrawals
  <2>5. Agrees(v)'
    BY <2>4, <1>4, <1>5, <1>7, <1>8, <1>14 DEF Agrees, Agreed
  <2>6. Accounted(t)'
    BY <2>3, <2>5, <1>1, <1>10 DEF InForce, Accounted
  <2>7. Finds(t)'
    BY <2>2 DEF Finds
  <2>8. ASSUME "reparsed" \notin upset'
        PROVE  OneStays(t)' /\ ActiveIsPublished(t)' /\ Replaces(t)'
    <3>1. OneStays(q) /\ ActiveIsPublished(q)
      BY <2>8, <1>1, <1>12 DEF InForce
    <3>2. InView(q) = index /\ InView(t)' = index
      BY <1>1, <1>5, <2>2 DEF InView
    <3>3. \A w : Awaits(t, w)' <=> Awaits(q, w)
      <4>1. \A w : Awaits(t, w)' <=> Awaits(t, w)
        BY DEF Awaits
      <4> QED BY <4>1, <1>1, <1>5
    <3>4. OneStays(t)'
      BY <3>1, <3>2, <3>3 DEF OneStays, Staying
    <3>5. index[v] = "active" => c.status = "published"
      BY <2>1, <2>4, UsesNamed
    <3>6. ActiveIsPublished(t)'
      BY <3>1, <3>5, <2>3, <1>5, <1>11 DEF ActiveIsPublished
    <3>7. Replaces(t)'
      BY <2>2 DEF Replaces, Calm
    <3> QED BY <3>4, <3>6, <3>7
  <2>9. InForce(t)'
    BY <2>6, <2>7, <2>8 DEF InForce
  <2> QED BY <2>9, <1>1
<1> QED BY <1>13, <1>14

LEMMA WriteInForce ==
  ASSUME DocumentInvariant, DocumentInvariant', NEW p \in Librarians,
         save_runtime_rag_documents(p), InForce(documentCalls[p]), upset \subseteq upset'
  PROVE  InForce(documentCalls[p])'
<1>1. PICK q \in Seq(DocumentCalls), c \in DocumentCalls, r \in Seq(DocumentCalls),
           t \in Seq(DocumentCalls) :
        /\ documentCalls[p] = q /\ q # <<>> /\ q[1] = c /\ Head(documentCalls[p]) = c
        /\ c.kind = "write" /\ Remaining(p) = r /\ Tail(q) = r /\ Chained(q) /\ InForce(q)
        /\ \A v : Awaits(q, v) <=> Awaits(r, v)
        /\ documentCalls'[p] = t /\ Chained(t)
  BY TurnInForce DEF save_runtime_rag_documents
<1>2. index' = c.file /\ t = r /\ UNCHANGED <<lifecycle, builds>>
  BY <1>1 DEF save_runtime_rag_documents, Proceed, DocumentInvariant
<1>3. PICK d \in DocumentCalls :
        /\ d = q[2] /\ t # <<>> /\ t[1] = d /\ d.version \in Versions
        /\ d.kind = "build" \/ (d.kind = "event" /\ d.status \in Withdrawals)
  BY <1>1, <1>2, WriteFollowed
<1>4. PICK v \in Versions : v = d.version
  BY <1>3
<1>5. Finds(q) /\ index \in Files /\ \A w \in Versions : ~Owes(q, w)
  BY <1>1 DEF InForce, Owes, DocumentInvariant, StoreTyped
<1>6. /\ d.kind = "build" => c.file = [index EXCEPT ![v] = "active"] /\ Rebuilds(r, c.file, v)
      /\ d.kind = "event" =>
           c.file = [index EXCEPT ![v] = d.status] /\ "completed" \in builds[v]
  BY <1>1, <1>3, <1>4, <1>5 DEF Finds
<1>7. \A w \in Versions \ {v} : index'[w] = index[w]
  BY <1>2, <1>3, <1>5, <1>6 DEF Files
<1>8. /\ d.kind = "build" => index'[v] = "active"
      /\ d.kind = "event" => index'[v] = d.status /\ d.status \in {"retired", "superseded"}
  BY <1>2, <1>3, <1>5, <1>6 DEF Files, Withdrawals
<1>9. Owes(t, v) /\ \A w : Owes(t, w)' <=> Owes(t, w)
  BY <1>3, <1>4, UsesNamed DEF Owes, Withdrawals
<1>10. \A w \in Versions \ {v} : Agrees(w)'
  <2>1. \A w \in Versions : Agrees(w)
    BY <1>1, <1>5 DEF InForce, Accounted
  <2> QED BY <2>1, <1>2, <1>7 DEF Agrees
<1>11. Accounted(t)'
  BY <1>9, <1>10 DEF Accounted
<1>12. Finds(t)'
  <2>1. d.kind = "build" => Rebuilds(t, index, v)'
    BY <1>2, <1>6 DEF Rebuilds, Status
  <2>2. d.kind = "event" => "completed" \in builds'[v]
    BY <1>2, <1>6
  <2> QED BY <2>1, <2>2, <1>3, <1>4, <1>8 DEF Finds, Rebuilds
<1>13. ASSUME "reparsed" \notin upset'
       PROVE  OneStays(t)' /\ ActiveIsPublished(t)' /\ Replaces(t)'
  <2>1. OneStays(q) /\ ActiveIsPublished(q)
    BY <1>1, <1>13 DEF InForce
  <2>2. InView(q) = c.file /\ InView(t)' = c.file
    BY <1>1, <1>2, <1>3 DEF InView
  <2>3. \A w : Awaits(t, w)' <=> Awaits(q, w)
    <3>1. \A w : Awaits(t, w)' <=> Awaits(t, w)
      BY DEF Awaits
    <3> QED BY <3>1, <1>1, <1>2
  <2>4. OneStays(t)'
    BY <2>1, <2>2, <2>3 DEF OneStays, Staying
  <2>5. ActiveIsPublished(t)'
    BY <2>1, <1>2, <1>5, <1>7, <1>9 DEF ActiveIsPublished, Status
  <2>6. Replaces(t)'
    BY <1>3, UsesNamed DEF Replaces, Calm, Withdrawals
  <2> QED BY <2>4, <2>5, <2>6
<1>14. InForce(t)'
  BY <1>11, <1>12, <1>13 DEF InForce
<1> QED BY <1>1, <1>14

LEMMA BuildInForce ==
  ASSUME DocumentInvariant, DocumentInvariant', NEW p \in Librarians,
         save_index_build(p), InForce(documentCalls[p]), upset \subseteq upset'
  PROVE  InForce(documentCalls[p])'
<1>1. PICK q \in Seq(DocumentCalls), c \in DocumentCalls, r \in Seq(DocumentCalls),
           t \in Seq(DocumentCalls) :
        /\ documentCalls[p] = q /\ q # <<>> /\ q[1] = c /\ Head(documentCalls[p]) = c
        /\ c.kind = "build" /\ Remaining(p) = r /\ Tail(q) = r
        /\ (r # <<>> => MayFollow(c, r[1])) /\ CallOK(c) /\ InForce(q)
        /\ \A v : Awaits(q, v) <=> Awaits(r, v)
        /\ documentCalls'[p] = t /\ Chained(t)
  BY TurnInForce DEF save_index_build
<1>2. c.version \in Versions /\ c.version \in Registered /\ StoreTyped
  BY <1>1, CallTyped DEF BuildCalls, CallOK, DocumentInvariant
<1>3. PICK v \in Versions : v = c.version /\ v \in Registered
  BY <1>2
<1>4. /\ builds' = [builds EXCEPT ![v] = builds[v] \cup {"completed"}]
      /\ t = r /\ UNCHANGED <<lifecycle, index>>
  BY <1>1, <1>3 DEF save_index_build, Proceed, DocumentInvariant
<1>5. "completed" \in builds'[v] /\ \A w \in Versions \ {v} : builds'[w] = builds[w]
  BY <1>2, <1>4 DEF StoreTyped
<1>6. t # <<>> => t[1].kind = "event" /\ t[1].version = v /\ t[1].status = "published"
  <2>1. t # <<>> => t[1] = Event(v, "published", None)
    BY <1>1, <1>3, <1>4 DEF MayFollow
  <2> QED BY <2>1 DEF Event
<1>7. index[v] = "active" /\ (t = <<>> => Status(v) = "published")
  <2>1. Rebuilds(q, index, v)
    BY <1>1, <1>3 DEF InForce, Finds
  <2>2. t = <<>> => Len(q) = 1
    <3>1. Len(q) \in Nat /\ Len(r) = Len(q) - 1
      BY <1>1, TailOfQueue
    <3> QED BY <3>1, <1>4
  <2> QED BY <2>1, <2>2 DEF Rebuilds
<1>8. \A w \in Versions \ {v} : ~Owes(q, w)
  BY <1>1, <1>3 DEF Owes
<1>9. \A w \in Versions \ {v} : Agrees(w)'
  <2>1. \A w \in Versions \ {v} : Agrees(w)
    BY <1>1, <1>8 DEF InForce, Accounted
  <2> QED BY <2>1, <1>4, <1>5 DEF Agrees
<1>10. Agrees(v)' \/ Owes(t, v)'
  <2>1. CASE t = <<>>
    <3>1. PICK h \in Seq(LifecycleEvents) : h = lifecycle[v]
      BY <1>2 DEF StoreTyped
    <3>2. h # <<>> /\ Last(h).status = "published"
      BY <2>1, <3>1, <1>3, <1>7 DEF Status, DocumentInvariant, DocumentTypeOK
    <3>3. UsesIn(h) # {} /\ LastUseIn(h) = "active"
      BY <3>2, LastUseKnown
    <3> QED BY <3>1, <3>3, <1>4, <1>5, <1>7 DEF Agrees, Agreed
  <2>2. CASE t # <<>>
    BY <2>2, <1>6, UsesNamed DEF Owes
  <2> QED BY <2>1, <2>2
<1>11. Accounted(t)'
  BY <1>9, <1>10 DEF Accounted
<1>12. Finds(t)'
  BY <1>4, <1>6, <1>7 DEF Finds, Withdrawals
<1>13. ASSUME "reparsed" \notin upset'
       PROVE  OneStays(t)' /\ ActiveIsPublished(t)' /\ Replaces(t)'
  <2>1. OneStays(q) /\ ActiveIsPublished(q)
    BY <1>1, <1>13 DEF InForce
  <2>2. InView(q) = index /\ InView(t)' = index
    BY <1>1, <1>4, <1>6 DEF InView
  <2>3. \A w : Awaits(t, w)' <=> Awaits(q, w)
    <3>1. \A w : Awaits(t, w)' <=> Awaits(t, w)
      BY DEF Awaits
    <3> QED BY <3>1, <1>1, <1>4
  <2>4. OneStays(t)'
    BY <2>1, <2>2, <2>3 DEF OneStays, Staying
  <2>5. Status(v)' = "published" \/ Owes(t, v)'
    BY <1>4, <1>6, <1>7, UsesNamed DEF Owes, Status
  <2>6. ActiveIsPublished(t)'
    BY <2>1, <2>5, <1>4, <1>8 DEF ActiveIsPublished, Status
  <2>7. Replaces(t)'
    BY <1>6, UsesNamed DEF Replaces, Calm
  <2> QED BY <2>4, <2>6, <2>7
<1>14. InForce(t)'
  BY <1>11, <1>12, <1>13 DEF InForce
<1> QED BY <1>1, <1>14

\* A build that will be written, or one that failed.
LEMMA IndexInForce ==
  ASSUME DocumentInvariant, DocumentInvariant', NEW p \in Librarians,
         build_document_index(p), InForce(documentCalls[p]), upset \subseteq upset'
  PROVE  InForce(documentCalls[p])'
<1>1. PICK q \in Seq(DocumentCalls), c \in DocumentCalls, r \in Seq(DocumentCalls),
           t \in Seq(DocumentCalls) :
        /\ documentCalls[p] = q /\ q # <<>> /\ q[1] = c /\ Head(documentCalls[p]) = c
        /\ c.kind = "index" /\ Remaining(p) = r /\ Chained(r) /\ (r = <<>> => MayEnd(c))
        /\ (r # <<>> => MayFollow(c, r[1])) /\ CallOK(c) /\ InForce(q)
        /\ \A v : Awaits(q, v) <=> Awaits(r, v)
        /\ documentCalls'[p] = t /\ Chained(t)
  <2>1. Turn(p, "index")
    BY DEF build_document_index
  <2> QED BY <2>1, TurnInForce
<1>2. /\ c \in IndexCalls /\ c.version \in Versions /\ c.version \in Registered
      /\ c.publishing \in BOOLEAN /\ StoreTyped
  BY <1>1, CallTyped DEF IndexCalls, CallOK, DocumentInvariant
<1>3. PICK v \in Versions : v = c.version /\ v \in Registered
  BY <1>2
<1>4. Settled
  BY <1>1, CalmIsSettled DEF Calm
<1>5. Finds(q) /\ ("reparsed" \notin upset => Replaces(q))
  BY <1>1 DEF InForce
<1>6. UNCHANGED <<lifecycle, index>>
  BY DEF build_document_index
<1>7. CASE /\ t = <<IndexWrite([index EXCEPT ![v] = "active"]), [kind |-> "build", version |-> v]>> \o r
           /\ UNCHANGED builds
  <2>1. PICK file \in Files : file = [index EXCEPT ![v] = "active"]
    BY <1>2 DEF StoreTyped, Files
  <2>2. file[v] = "active" /\ \A w \in Versions \ {v} : file[w] = index[w]
    BY <2>1, <1>2 DEF StoreTyped, Files
  <2>3. PICK a : a = IndexWrite(file)
    OBVIOUS
  <2>4. PICK b : b = [kind |-> "build", version |-> v]
    OBVIOUS
  <2>5. a \in DocumentCalls /\ a.kind = "write" /\ a.file = file
    BY <2>3 DEF IndexWrite, DocumentCalls, Writes
  <2>6. b \in DocumentCalls /\ b.kind = "build" /\ b.version = v
    BY <2>4 DEF DocumentCalls, BuildCalls
  <2>7. MayFollow(a, b) /\ MayEnd(b) /\ (r # <<>> => MayFollow(b, r[1]))
    BY <1>1, <1>3, <2>5, <2>6 DEF MayFollow, MayEnd
  <2>8. t = <<a, b>> \o r
    BY <1>7, <2>1, <2>3, <2>4
  <2>9. /\ t # <<>> /\ t[1] = a /\ t[2] = b /\ Len(t) = Len(r) + 2
        /\ \A i \in 1..Len(r) : t[i + 2] = r[i]
    BY ONLY <1>1, <2>5, <2>6, <2>7, <2>8, TwoChained
  <2>10. Len(r) \in Nat /\ DOMAIN r = 1..Len(r) /\ DOMAIN t = 1..(Len(r) + 2)
    BY <2>9
  <2>11. Len(Tail(t)) = 1 => r = <<>>
    <3>1. PICK u \in Seq(DocumentCalls) : u = Tail(t) /\ Len(u) = Len(t) - 1
      BY <2>9, TailOfQueue
    <3>2. PICK n \in Nat : n = Len(r) /\ Len(t) = n + 2
      BY <2>9, <2>10
    <3>3. Len(u) = n + 1
      BY <3>1, <3>2
    <3>4. Len(u) = 1 => n = 0
      BY <3>2, <3>3
    <3> QED BY <3>1, <3>2, <3>4, EmptySeq
  <2>12. ASSUME NEW x, Awaits(r, x) PROVE Awaits(t, x)
    <3>1. PICK i \in DOMAIN r : r[i].kind \in {"supersede", "mark"} /\ r[i].version = x
      BY <2>12 DEF Awaits
    <3>2. i + 2 \in DOMAIN t /\ t[i + 2] = r[i]
      BY <2>9, <2>10
    <3> QED BY <3>1, <3>2 DEF Awaits
  <2>13. ASSUME ~c.publishing PROVE Status(v) = "published" /\ index[v] = "active"
    <3>1. Status(v) = "published"
      BY <2>13, <1>1, <1>3, <1>5 DEF Finds
    <3> QED BY <3>1, <1>3, <1>4, PublishedIsActive DEF Settled
  <2>14. Rebuilds(Tail(t), file, v)
    <3>1. r = <<>> => ~c.publishing
      BY <1>1 DEF MayEnd
    <3> QED BY <3>1, <2>2, <2>11, <2>13 DEF Rebuilds
  <2>15. Finds(t)
    BY <2>1, <2>5, <2>6, <2>9, <2>14 DEF Finds
  <2>16. Accounted(t)
    BY <1>4 DEF Settled, Accounted
  <2>17. ASSUME "reparsed" \notin upset PROVE OneStays(t)
    <3>1. ASSUME NEW x \in Staying(t) PROVE x = v
      <4>1. x \in Versions /\ file[x] = "active" /\ ~Awaits(t, x)
        BY <2>5, <2>9 DEF Staying, InView
      <4>2. CASE c.publishing
        <5>1. \A w \in Versions : index[w] = "active" => Awaits(q, w)
          BY <2>17, <4>2, <1>1, <1>5 DEF Replaces
        <5>2. index[x] # "active"
          BY <4>1, <5>1, <2>12, <1>1
        <5> QED BY <4>1, <5>2, <2>2
      <4>3. CASE ~c.publishing
        <5>1. index[x] = "active"
          BY <4>1, <4>3, <2>2, <2>13
        <5> QED BY <4>1, <4>3, <5>1, <2>13, <2>17, <1>4 DEF Settled, Sole
      <4> QED BY <4>2, <4>3
    <3> QED BY <3>1 DEF OneStays
  <2>18. "reparsed" \notin upset => ActiveIsPublished(t) /\ Replaces(t)
    BY <1>4, <2>5, <2>9 DEF Settled, ActiveIsPublished, Replaces, Calm
  <2>19. InForce(t)
    BY <2>15, <2>16, <2>17, <2>18 DEF InForce
  <2>20. UNCHANGED <<lifecycle, builds, index>>
    BY <1>6, <1>7
  <2> QED BY <1>1, <2>19, <2>20, ForceKept
<1>8. CASE /\ builds' = [builds EXCEPT ![v] = builds[v] \cup {"failed"}]
           /\ t = IF c.publishing THEN <<Event(v, "index_failed", None)>> ELSE <<>>
  <2>1. \A w \in Versions : "completed" \in builds'[w] <=> "completed" \in builds[w]
    BY <1>2, <1>8 DEF StoreTyped
  <2>2. PICK a : a = Event(v, "index_failed", None)
    OBVIOUS
  <2>3. a.kind = "event" /\ a.version = v /\ a.status = "index_failed"
    BY <2>2 DEF Event
  <2>4. t # <<>> => t[1] = a /\ c.publishing
    BY <1>8, <2>2
  <2>5. "reparsed" \notin upset => Replaces(t)
    BY <1>1, <1>3, <1>4, <1>5, <2>3, <2>4 DEF Settled, Replaces
  <2>6. t # <<>> => Calm(t[1])
    BY <2>3, <2>4, UsesNamed DEF Calm
  <2>7. InForce(t)
    BY <1>4, <2>3, <2>4, <2>5, <2>6, SettledIsInForce
  <2>8. \A w \in Versions : Agrees(w) => Agrees(w)'
    BY <1>6, <2>1 DEF Agrees, Agreed
  <2>9. \A w \in Versions : Status(w)' = Status(w)
    BY <1>6 DEF Status
  <2>10. InForce(t)'
    BY <1>1, <1>2, <1>6, <2>1, <2>7, <2>8, <2>9, ForceCarried
  <2> QED BY <1>1, <2>10
<1> QED BY <1>1, <1>3, <1>7, <1>8 DEF build_document_index, Proceed, DocumentInvariant

LEMMA MarkInForce ==
  ASSUME DocumentInvariant, DocumentInvariant', NEW p \in Librarians,
         set_rag_document_status(p), InForce(documentCalls[p])
  PROVE  InForce(documentCalls'[p])
<1>1. PICK q \in Seq(DocumentCalls), c \in DocumentCalls, r \in Seq(DocumentCalls),
           t \in Seq(DocumentCalls) :
        /\ documentCalls[p] = q /\ q # <<>> /\ q[1] = c /\ Head(documentCalls[p]) = c
        /\ c.kind = "mark" /\ Remaining(p) = r /\ Tail(q) = r /\ Chained(r)
        /\ (r = <<>> => MayEnd(c)) /\ (r # <<>> => MayFollow(c, r[1])) /\ InForce(q)
        /\ \A v : Awaits(q, v) <=>
             (c.kind \in {"supersede", "mark"} /\ c.version = v) \/ Awaits(r, v)
        /\ documentCalls'[p] = t
  BY TurnInForce DEF set_rag_document_status
<1>2. c \in Marks /\ c.version \in Versions /\ c.status \in {"retired", "superseded"} /\ StoreTyped
  BY <1>1, CallTyped DEF Marks, DocumentInvariant
<1>3. PICK v \in Versions : v = c.version
  BY <1>2
<1>4. \A w : Awaits(q, w) <=> w = v \/ Awaits(r, w)
  BY <1>1, <1>3
<1>5. r # <<>> /\ r[1].kind = "event" /\ r[1].version = v /\ r[1].status = c.status
  BY <1>1, <1>3 DEF MayEnd, MayFollow
<1>6. /\ \A w \in Versions : Agrees(w)
      /\ "reparsed" \notin upset =>
           OneStays(q) /\ \A w \in Versions : index[w] = "active" => Status(w) = "published"
  BY <1>1 DEF InForce, Accounted, ActiveIsPublished, Owes
<1>7. index[v] # "absent" <=> "completed" \in builds[v]
  <2>1. PICK h \in Seq(LifecycleEvents) : h = lifecycle[v]
    BY <1>2 DEF StoreTyped
  <2>2. Agreed(index[v], builds[v], h)
    BY <1>6, <2>1 DEF Agrees
  <2> QED BY <2>2, Agreement
<1>8. Accounted(t)
  BY <1>6 DEF Accounted
<1>9. "reparsed" \notin upset => ActiveIsPublished(t)
  BY <1>6 DEF ActiveIsPublished
<1>10. InView(q) = index
  BY <1>1 DEF InView
<1>11. CASE Indexed(v)
  <2>1. PICK file \in Files : file = [index EXCEPT ![v] = c.status]
    BY <1>2 DEF StoreTyped, Files
  <2>2. file[v] = c.status /\ \A w \in Versions \ {v} : file[w] = index[w]
    BY <2>1, <1>2 DEF StoreTyped, Files
  <2>3. PICK a : a = IndexWrite(file)
    OBVIOUS
  <2>4. a \in DocumentCalls /\ a.kind = "write" /\ a.file = file
    BY <2>3 DEF IndexWrite, DocumentCalls, Writes
  <2>5. MayFollow(a, r[1])
    BY <1>2, <1>5, <2>4 DEF MayFollow
  <2>6. t = <<a>> \o r
    BY <1>1, <1>3, <1>11, <2>1, <2>3
       DEF set_rag_document_status, Promise, Proceed, DocumentInvariant
  <2>7. /\ t # <<>> /\ t[1] = a /\ Len(t) = Len(r) + 1
        /\ \A i \in 1..Len(r) : t[i + 1] = r[i]
    BY <1>1, <1>5, <2>4, <2>5, <2>6, OneChained
  <2>8. Len(r) \in Nat /\ DOMAIN r = 1..Len(r) /\ DOMAIN t = 1..(Len(r) + 1)
    BY <2>7
  <2>9. t[2] = r[1]
    <3>1. Len(r) >= 1
      BY <1>5, EmptySeq
    <3>2. t[1 + 1] = r[1]
      BY <3>1, <2>7, <2>8
    <3> QED BY <3>2
  <2>10. "completed" \in builds[v]
    BY <1>7, <1>11 DEF Indexed
  <2>11. Finds(t)
    BY <1>5, <2>1, <2>4, <2>7, <2>9, <2>10 DEF Finds
  <2>12. ASSUME NEW x, Awaits(r, x) PROVE Awaits(t, x)
    <3>1. PICK i \in DOMAIN r : r[i].kind \in {"supersede", "mark"} /\ r[i].version = x
      BY <2>12 DEF Awaits
    <3>2. i + 1 \in DOMAIN t /\ t[i + 1] = r[i]
      BY <2>7, <2>8
    <3> QED BY <3>1, <3>2 DEF Awaits
  <2>13. ASSUME "reparsed" \notin upset PROVE OneStays(t)
    <3>1. ASSUME NEW x \in Staying(t) PROVE x \in Staying(q)
      <4>1. x \in Versions /\ file[x] = "active" /\ ~Awaits(t, x)
        BY <2>4, <2>7 DEF Staying, InView
      <4>2. x # v
        BY <4>1, <2>2, <1>2
      <4>3. index[x] = "active" /\ ~Awaits(q, x)
        BY <4>1, <4>2, <2>2, <2>12, <1>4
      <4> QED BY <4>1, <4>3, <1>10 DEF Staying
    <3> QED BY <3>1, <2>13, <1>6 DEF OneStays
  <2>14. Replaces(t)
    BY <2>4, <2>7 DEF Replaces, Calm
  <2> QED BY <1>1, <1>8, <1>9, <2>11, <2>13, <2>14 DEF InForce
<1>12. CASE ~Indexed(v)
  <2>1. t = r
    BY <1>1, <1>3, <1>12 DEF set_rag_document_status, Promise, Proceed, DocumentInvariant
  <2>2. index[v] = "absent" /\ "completed" \notin builds[v]
    BY <1>7, <1>12 DEF Indexed
  <2>3. Finds(t)
    BY <1>2, <1>5, <2>1, <2>2 DEF Finds
  <2>4. ASSUME "reparsed" \notin upset PROVE OneStays(t)
    <3>1. ASSUME NEW x \in Staying(t) PROVE x \in Staying(q)
      <4>1. x \in Versions /\ index[x] = "active" /\ ~Awaits(r, x)
        BY <1>5, <2>1 DEF Staying, InView
      <4>2. x # v
        BY <4>1, <2>2
      <4> QED BY <4>1, <4>2, <1>4, <1>10 DEF Staying
    <3> QED BY <3>1, <2>4, <1>6 DEF OneStays
  <2>5. Replaces(t)
    BY <1>2, <1>5, <2>1, UsesNamed DEF Replaces, Calm
  <2> QED BY <1>1, <1>8, <1>9, <2>3, <2>4, <2>5 DEF InForce
<1> QED BY <1>11, <1>12

\* A version withdrawn meanwhile is not in the index any more.
LEMMA SupersedeInForce ==
  ASSUME DocumentInvariant, DocumentInvariant', NEW p \in Librarians,
         supersede(p), InForce(documentCalls[p])
  PROVE  InForce(documentCalls'[p])
<1>1. PICK q \in Seq(DocumentCalls), c \in DocumentCalls, r \in Seq(DocumentCalls),
           t \in Seq(DocumentCalls) :
        /\ documentCalls[p] = q /\ q # <<>> /\ q[1] = c /\ Head(documentCalls[p]) = c
        /\ c.kind = "supersede" /\ Remaining(p) = r /\ (r # <<>> => MayFollow(c, r[1]))
        /\ CallOK(c) /\ InForce(q)
        /\ \A v : Awaits(q, v) <=>
             (c.kind \in {"supersede", "mark"} /\ c.version = v) \/ Awaits(r, v)
        /\ documentCalls'[p] = t
  BY TurnInForce DEF supersede
<1>2. c \in Supersedes /\ c.version \in Versions
  BY <1>1, CallTyped DEF Supersedes
<1>3. PICK v \in Versions : v = c.version
  BY <1>2
<1>4. r = <<>>
  BY <1>1 DEF MayFollow
<1>5. \A w : Awaits(q, w) <=> w = v
  <2>1. \A w : ~Awaits(r, w)
    BY <1>4, EmptyChained DEF Awaits
  <2> QED BY <2>1, <1>1, <1>3
<1>6. /\ \A w \in Versions : Agrees(w)
      /\ "reparsed" \notin upset =>
           OneStays(q) /\ \A w \in Versions : index[w] = "active" => Status(w) = "published"
  BY <1>1 DEF InForce, Accounted, ActiveIsPublished, Owes
<1>7. "reparsed" \notin upset =>
        \A x, y \in Versions :
          index[x] = "active" /\ index[y] = "active" /\ x # v /\ y # v => x = y
  BY <1>1, <1>5, <1>6 DEF OneStays, Staying, InView
<1>8. CASE Status(v) \in {"retired", "superseded"}
  <2>1. t = <<>>
    BY <1>1, <1>3, <1>8 DEF supersede, Proceed, DocumentInvariant
  <2>2. Settled
    BY <1>6, <1>7, <1>8 DEF Settled, Sole
  <2> QED BY <1>1, <2>1, <2>2, SettledIsInForce
<1>9. CASE Status(v) \notin {"retired", "superseded"}
  <2>1. t = <<Marking(v, "superseded"), Event(v, "superseded", c.by)>>
    BY <1>1, <1>3, <1>9 DEF supersede, Proceed, DocumentInvariant
  <2>2. PICK a : a = Marking(v, "superseded")
    OBVIOUS
  <2>3. a.kind = "mark" /\ a.version = v
    BY <2>2 DEF Marking
  <2>4. t # <<>> /\ t[1] = a /\ 1 \in DOMAIN t
    BY <2>1, <2>2
  <2>5. Awaits(t, v)
    BY <2>3, <2>4 DEF Awaits
  <2>6. "reparsed" \notin upset => OneStays(t)
    BY <1>7, <2>3, <2>4, <2>5 DEF OneStays, Staying, InView
  <2>7. Finds(t) /\ Replaces(t)
    BY <2>3, <2>4 DEF Finds, Replaces, Calm
  <2>8. Accounted(t) /\ ("reparsed" \notin upset => ActiveIsPublished(t))
    BY <1>6 DEF Accounted, ActiveIsPublished
  <2> QED BY <1>1, <2>6, <2>7, <2>8 DEF InForce
<1> QED BY <1>8, <1>9

-----------------------------------------------------------------------------
(***************************************************************************)
(* Documents: one thread at a time.                                        *)
(***************************************************************************)
Begin(p) ==
  \/ create_document_version(p)
  \/ parse_document_version(p)
  \/ publish_document_version(p)
  \/ retire_document_version(p)
  \/ create_index_build(p)
Continue(p) ==
  \/ save_document_version_bundle(p)
  \/ reuse_document_parse(p)
  \/ save_document_parse(p)
  \/ save_document_lifecycle_event(p)
  \/ publish_created(p)
  \/ build_document_index(p)
  \/ set_rag_document_status(p)
  \/ save_runtime_rag_documents(p)
  \/ save_index_build(p)
  \/ supersede(p)

\* A thread at rest that takes a step has something to do; no other is touched.
LEMMA OwnCalls ==
  ASSUME DocumentInvariant, DocumentInvariant', NEW p \in Librarians, Begin(p) \/ Continue(p)
  PROVE  /\ \A r \in Librarians \ {p} : documentCalls'[r] = documentCalls[r]
         /\ documentStops' = documentStops
         /\ Quiet(p) => documentCalls'[p] # <<>>
<1>1. \E t : documentCalls' = [documentCalls EXCEPT ![p] = t]
  BY DEF Begin, Continue, create_document_version, parse_document_version,
         publish_document_version, retire_document_version, create_index_build,
         save_document_version_bundle, reuse_document_parse, save_document_parse,
         save_document_lifecycle_event, publish_created, build_document_index,
         set_rag_document_status, save_runtime_rag_documents, save_index_build, supersede,
         Promise, Proceed
<1>2. documentStops' = documentStops
  BY DEF Begin, Continue, create_document_version, parse_document_version,
         publish_document_version, retire_document_version, create_index_build,
         save_document_version_bundle, reuse_document_parse, save_document_parse,
         save_document_lifecycle_event, publish_created, build_document_index,
         set_rag_document_status, save_runtime_rag_documents, save_index_build, supersede,
         Promise
<1>3. ASSUME Begin(p) PROVE documentCalls'[p] # <<>>
  <2>1. ASSUME NEW a, NEW b, NEW c PROVE <<a>> # <<>> /\ <<a, b>> # <<>> /\ <<a, b, c>> # <<>>
    OBVIOUS
  <2>2. \A q : Proceed(p, q) => documentCalls'[p] = q
    BY DEF Proceed, DocumentInvariant
  <2>3. create_document_version(p) => documentCalls'[p] # <<>>
    BY <2>1, <2>2 DEF create_document_version, Promise
  <2>4. parse_document_version(p) => documentCalls'[p] # <<>>
    BY <2>1, <2>2 DEF parse_document_version, Promise
  <2>5. publish_document_version(p) => documentCalls'[p] # <<>>
    <3>1. ASSUME NEW v \in Registered, Publishable(v) PROVE Publication(v) # <<>>
      BY <3>1, PublicationPlanned DEF Publishable
    <3> QED BY <2>2, <3>1 DEF publish_document_version, Promise
  <2>6. retire_document_version(p) => documentCalls'[p] # <<>>
    BY <2>1, <2>2 DEF retire_document_version, Promise
  <2>7. create_index_build(p) => documentCalls'[p] # <<>>
    BY <2>1, <2>2 DEF create_index_build, Promise
  <2> QED BY <1>3, <2>3, <2>4, <2>5, <2>6, <2>7 DEF Begin
<1>4. Continue(p) => ~Quiet(p)
  BY DEF Continue, Quiet, Turn,
         save_document_version_bundle, reuse_document_parse, save_document_parse,
         save_document_lifecycle_event, publish_created, build_document_index,
         set_rag_document_status, save_runtime_rag_documents, save_index_build, supersede
<1>5. \A r \in Librarians \ {p} : documentCalls'[r] = documentCalls[r]
  BY <1>1 DEF DocumentInvariant
<1> QED BY <1>2, <1>3, <1>4, <1>5

LEMMA OwnTurn ==
  ASSUME DocumentInvariant, DocumentInvariant', NEW p \in Librarians, Begin(p) \/ Continue(p),
         InForce(documentCalls[p]), upset' = upset \cup Upsets
  PROVE  InForce(documentCalls[p])'
<1>1. upset \subseteq upset'
  OBVIOUS
<1>2. PICK t \in Seq(DocumentCalls) : t = documentCalls'[p] /\ Chained(t)
  BY DEF DocumentInvariant
<1>3. ASSUME UNCHANGED <<lifecycle, builds, index>>, InForce(documentCalls'[p])
      PROVE  InForce(documentCalls[p])'
  <2>1. InForce(t)'
    BY <1>1, <1>2, <1>3, ForceKept
  <2> QED BY <1>2, <2>1
<1>4. ASSUME Begin(p) PROVE InForce(documentCalls[p])'
  <2>1. UNCHANGED <<lifecycle, builds, index>>
    BY <1>4 DEF Begin, create_document_version, parse_document_version,
         publish_document_version, retire_document_version, create_index_build, Promise,
         documentStore
  <2> QED BY <1>3, <1>4, <2>1, CreateInForce, ParseInForce, PublishInForce, RetireInForce,
             RebuildInForce DEF Begin
<1>5. ASSUME reuse_document_parse(p) \/ publish_created(p) \/ set_rag_document_status(p)
               \/ supersede(p)
      PROVE  InForce(documentCalls[p])'
  <2>1. UNCHANGED <<lifecycle, builds, index>>
    BY <1>5 DEF reuse_document_parse, publish_created, set_rag_document_status, supersede,
         Promise, documentStore
  <2> QED BY <1>3, <1>5, <2>1, ReuseInForce, CreatedInForce, MarkInForce, SupersedeInForce
<1>6. ASSUME save_document_version_bundle(p) \/ save_document_parse(p)
               \/ save_document_lifecycle_event(p) \/ build_document_index(p)
               \/ save_runtime_rag_documents(p) \/ save_index_build(p)
      PROVE  InForce(documentCalls[p])'
  BY <1>1, <1>6, BundleInForce, StoreInForce, EventInForce, IndexInForce, WriteInForce,
     BuildInForce
<1> QED BY <1>4, <1>5, <1>6 DEF Continue

\* Two threads at work are two too many.
LEMMA Together ==
  ASSUME "together" \notin Upsets, NEW p \in Librarians, NEW r \in Librarians,
         documentCalls'[p] # <<>>, documentCalls'[r] # <<>>
  PROVE  p = r
<1>1. PICK S : S = {x \in Librarians : ~Quiet(x)'}
  OBVIOUS
<1>2. IsFiniteSet(S) /\ p \in S /\ r \in S
  <2>1. IsFiniteSet(S)
    BY <1>1, FS_Subset, DocumentAssumption
  <2> QED BY <1>1, <2>1 DEF Quiet
<1>3. ~(Cardinality(S) > 1)
  BY <1>1 DEF Upsets
<1>4. Cardinality({p}) = 1 /\ IsFiniteSet({p})
  BY FS_Singleton
<1>5. PICK n \in Nat : n = Cardinality(S)
  BY <1>2, FS_CardinalityType
<1>6. 1 <= n /\ (n = 1 => S = {p})
  BY <1>2, <1>4, <1>5, FS_Subset
<1> QED BY <1>2, <1>3, <1>5, <1>6

LEMMA ForceStep ==
  ASSUME DocumentInvariant, DocumentInvariant', ForceInvariant, [DocumentNext]_documentVars
  PROVE  ForceInvariant'
<1> SUFFICES ASSUME Undisturbed'
             PROVE  \/ AtRest' /\ InForce(<<>>)'
                    \/ \E p \in Librarians :
                         /\ ~Quiet(p)' /\ \A r \in Librarians \ {p} : Quiet(r)'
                         /\ InForce(documentCalls[p])'
  BY DEF ForceInvariant
<1>1. ASSUME NEW p \in Librarians, Begin(p) \/ Continue(p), upset' = upset \cup Upsets
      PROVE  \/ AtRest' /\ InForce(<<>>)'
             \/ \E x \in Librarians :
                  /\ ~Quiet(x)' /\ \A r \in Librarians \ {x} : Quiet(r)'
                  /\ InForce(documentCalls[x])'
  <2>1. /\ \A r \in Librarians \ {p} : documentCalls'[r] = documentCalls[r]
        /\ documentStops' = documentStops
        /\ Quiet(p) => documentCalls'[p] # <<>>
    BY <1>1, OwnCalls
  <2>2. Undisturbed /\ "together" \notin Upsets
    BY <1>1, <2>1 DEF Undisturbed
  <2>3. \A r \in Librarians \ {p} : Quiet(r)
    <3>1. CASE AtRest
      BY <3>1 DEF AtRest
    <3>2. ASSUME NEW x \in Librarians, ~Quiet(x), \A r \in Librarians \ {x} : Quiet(r)
          PROVE  x = p
      <4>1. SUFFICES ASSUME x # p PROVE FALSE
        OBVIOUS
      <4>2. documentCalls'[x] # <<>> /\ documentCalls'[p] # <<>>
        BY <3>2, <4>1, <2>1 DEF Quiet
      <4> QED BY <4>1, <4>2, <2>2, Together
    <3> QED BY <2>2, <3>1, <3>2 DEF ForceInvariant
  <2>4. InForce(documentCalls[p])
    <3>1. CASE AtRest /\ InForce(<<>>)
      <4>1. documentCalls[p] = <<>>
        BY <3>1 DEF AtRest, Quiet
      <4> QED BY <3>1, <4>1
    <3>2. ASSUME NEW x \in Librarians, ~Quiet(x), InForce(documentCalls[x])
          PROVE  InForce(documentCalls[p])
      BY <3>2, <2>3
    <3> QED BY <2>2, <3>1, <3>2 DEF ForceInvariant
  <2>5. InForce(documentCalls[p])'
    BY <1>1, <2>4, OwnTurn
  <2>6. \A r \in Librarians \ {p} : Quiet(r)'
    BY <2>1, <2>3 DEF Quiet
  <2>7. CASE documentCalls'[p] = <<>>
    <3>1. AtRest'
      BY <2>6, <2>7 DEF AtRest, Quiet
    <3>2. InForce(<<>>)'
      BY <2>5, <2>7
    <3> QED BY <3>1, <3>2
  <2>8. CASE documentCalls'[p] # <<>>
    BY <2>5, <2>6, <2>8 DEF Quiet
  <2> QED BY <2>7, <2>8
<1>2. ASSUME UNCHANGED <<lifecycle, builds, index, documentCalls, documentStops>>,
             upset \subseteq upset'
      PROVE  \/ AtRest' /\ InForce(<<>>)'
             \/ \E x \in Librarians :
                  /\ ~Quiet(x)' /\ \A r \in Librarians \ {x} : Quiet(r)'
                  /\ InForce(documentCalls[x])'
  <2>1. Undisturbed
    BY <1>2 DEF Undisturbed
  <2>2. \A x \in Librarians : Quiet(x)' <=> Quiet(x)
    BY <1>2 DEF Quiet
  <2>3. ASSUME AtRest, InForce(<<>>) PROVE AtRest' /\ InForce(<<>>)'
    <3>1. AtRest'
      BY <2>2, <2>3 DEF AtRest
    <3>2. InForce(<<>>)'
      BY <1>2, <2>3, EmptyChained, ForceKept
    <3> QED BY <3>1, <3>2
  <2>4. ASSUME NEW x \in Librarians, InForce(documentCalls[x])
        PROVE  InForce(documentCalls[x])'
    <3>1. PICK q \in Seq(DocumentCalls) : q = documentCalls[x] /\ Chained(q)
      BY DEF DocumentInvariant
    <3>2. InForce(q)'
      BY <1>2, <2>4, <3>1, ForceKept
    <3>3. documentCalls'[x] = q
      BY <1>2, <3>1
    <3> QED BY <3>2, <3>3
  <2> QED BY <2>1, <2>2, <2>3, <2>4 DEF ForceInvariant
<1>3. ASSUME NEW broken \in SUBSET Librarians, break_off(broken) PROVE FALSE
  <2>1. documentStops \in Nat /\ documentStops' = documentStops + 1
    BY <1>3 DEF break_off, DocumentInvariant, StoreTyped
  <2> QED BY <2>1 DEF Undisturbed
<1>4. CASE DocumentNext
  <2>1. upset' = upset \cup Upsets
    BY <1>4 DEF DocumentNext
  <2>2. CASE expire
    BY <2>1, <2>2, <1>2 DEF expire, documentStore
  <2> QED BY <2>1, <2>2, <1>1, <1>3, <1>4 DEF DocumentNext, Begin, Continue
<1>5. CASE UNCHANGED documentVars
  BY <1>2, <1>5 DEF documentVars
<1> QED BY <1>4, <1>5

LEMMA ForceInit ==
  ASSUME DocumentInit
  PROVE  ForceInvariant
<1>1. AtRest
  BY DEF DocumentInit, AtRest, Quiet
<1>2. \A v \in Versions :
        lifecycle[v] = <<>> /\ builds[v] = {} /\ index[v] = "absent"
  BY DEF DocumentInit
<1>3. Settled
  BY <1>2 DEF Settled, Agrees, Agreed, Sole
<1>4. InForce(<<>>)
  BY <1>3, SettledIsInForce
<1> QED BY <1>1, <1>4 DEF ForceInvariant

LEMMA ServedInForce ==
  ASSUME DocumentInvariant, ForceInvariant
  PROVE  IndexServesWhatIsInForce
<1>1. Undisturbed /\ AtRest => Settled
  <2>1. HAVE Undisturbed /\ AtRest
  <2>2. InForce(<<>>)
    BY <2>1 DEF ForceInvariant, AtRest
  <2> QED BY <2>2, CalmIsSettled
<1>2. Registered \subseteq Versions
  BY RegisteredVersions DEF DocumentInvariant
<1>3. IndexFollowsHistory
  <2>1. \A v \in Versions :
          Agrees(v) => index[v] = (IF "completed" \in builds[v] THEN LastUse(v) ELSE "absent")
    BY DEF Agrees, Agreed, LastUse, LastUseIn, Uses, UsesIn
  <2> QED BY <1>1, <1>2, <2>1 DEF IndexFollowsHistory, Undisturbed, Settled
<1>4. OneVersionInUse
  <2>1. SUFFICES ASSUME documentStops = 0, upset = {}, AtRest
                 PROVE  Cardinality({v \in Registered : index[v] = "active"}) <= 1
    BY DEF OneVersionInUse
  <2>2. Sole
    BY <2>1, <1>1 DEF Undisturbed, Settled
  <2>3. PICK S : S = {v \in Registered : index[v] = "active"}
    OBVIOUS
  <2>4. CASE S = {}
    BY <2>3, <2>4, FS_EmptySet
  <2>5. CASE S # {}
    <3>1. PICK x : S = {x}
      BY <2>2, <2>3, <2>5, <1>2 DEF Sole
    <3>2. Cardinality(S) = 1
      BY <3>1, FS_Singleton
    <3> QED BY <2>3, <3>2
  <2> QED BY <2>4, <2>5
<1> QED BY <1>3, <1>4 DEF IndexServesWhatIsInForce

\* One handler at a time and none cut off: between handlers retrieval sees of a version
\* what its history last says of its use, and, unless one in use was parsed anew, one
\* version at most; for any sources, parsers, threads, versions and failed builds
\* (publish_document_version, retire_document_version, _set_rag_document_status).
THEOREM IndexSafe == DocumentSpec => []IndexServesWhatIsInForce
<1>1. DocumentInit => DocumentInvariant /\ ForceInvariant
  BY DocumentInitInvariant, ForceInit
<1>2. DocumentInvariant /\ ForceInvariant /\ [DocumentNext]_documentVars
        => DocumentInvariant' /\ ForceInvariant'
  BY DocumentStep, ForceStep
<1>3. DocumentInvariant /\ ForceInvariant => IndexServesWhatIsInForce
  BY ServedInForce
<1> QED BY <1>1, <1>2, <1>3, PTL DEF DocumentSpec

-----------------------------------------------------------------------------
(***************************************************************************)
(* Duplicates of the object registry.                                      *)
(***************************************************************************)
LinksOK == link \in [Records -> Records \cup {Own, NoRecord}] /\ refused \in BOOLEAN

\* Nothing refused: each row of the batch stands for itself or leads to a record
\* that does once the batch is in, so records that were lost after it were lost
\* before it.
LEMMA BatchResolves ==
  ASSUME DuplicateAssumption, LinksOK, DuplicatesResolve,
         NEW ids \in SUBSET Records, NEW batch \in [ids -> BatchRows],
         \A r \in ids : Accepted(batch, r), ~refused,
         link' = [r \in Records |-> IF r \in ids THEN batch[r].of ELSE link[r]]
  PROVE  \A some \in SUBSET OnFile' : ~Lost(some)'
<1> SUFFICES ASSUME NEW some \in SUBSET OnFile', Lost(some)' PROVE FALSE
  OBVIOUS
<1> DEFINE to(r) == IF r \in ids THEN batch[r].of ELSE link[r]
<1>1. /\ some # {} /\ some \subseteq Records
      /\ \A r \in Records : link'[r] = to(r)
      /\ \A r \in some : to(r) # NoRecord /\ to(r) # Own
      /\ \A r \in some : to(r) \in Records /\ to(to(r)) # NoRecord => to(r) \in some
  BY DEF Lost, OnFile, LinksOK
<1>2. \A r \in ids : batch[r].of \in Records \cup {Own}
  BY DEF BatchRows
<1>3. \A r \in some : r \notin ids
  <2> SUFFICES ASSUME NEW r \in some, r \in ids PROVE FALSE
    OBVIOUS
  <2>1. batch[r].of # Own /\ batch[r].of \in Records
    BY <1>1, <1>2
  <2>2. CanonicalTarget(batch, batch[r].of)
    BY <2>1 DEF Accepted
  <2>3. to(batch[r].of) = Own
    BY <2>2 DEF CanonicalTarget
  <2>4. batch[r].of \in some
    BY <2>1, <2>3, <1>1 DEF DuplicateAssumption
  <2> QED BY <2>3, <2>4, <1>1
<1>4. \A r \in some : link[r] # NoRecord /\ link[r] # Own
  BY <1>1, <1>3
<1>5. \A r \in some : link[r] \in OnFile => link[r] \in some
  <2> SUFFICES ASSUME NEW r \in some, link[r] \in OnFile PROVE link[r] \in some
    OBVIOUS
  <2>1. to(r) = link[r] /\ link[r] \in Records /\ link[link[r]] # NoRecord
    BY <1>3 DEF OnFile
  <2>2. to(link[r]) # NoRecord
    BY <2>1, <1>2 DEF DuplicateAssumption
  <2> QED BY <1>1, <2>1, <2>2
<1>6. some \in SUBSET OnFile /\ Lost(some)
  BY <1>1, <1>4, <1>5 DEF OnFile, Lost
<1> QED BY <1>6 DEF DuplicatesResolve

\* As long as no row has been refused every duplicate leads to a record that stands
\* for itself, for any records and any number of imports, whatever canonical records
\* they turn into duplicates (_commit_risk_object_registry_import).
THEOREM DuplicatesSafe ==
  ASSUME DuplicateAssumption
  PROVE  DuplicateSpec => []DuplicatesResolve
<1>1. DuplicateInit => LinksOK /\ DuplicatesResolve
  <2> SUFFICES ASSUME DuplicateInit PROVE LinksOK /\ DuplicatesResolve
    OBVIOUS
  <2>1. LinksOK /\ OnFile = {}
    BY DEF DuplicateInit, LinksOK, OnFile
  <2> QED BY <2>1 DEF DuplicatesResolve, Lost
<1>2. LinksOK /\ DuplicatesResolve /\ [DuplicateNext]_duplicateVars
        => (LinksOK /\ DuplicatesResolve)'
  <2> SUFFICES ASSUME LinksOK, DuplicatesResolve, [DuplicateNext]_duplicateVars
               PROVE  LinksOK' /\ DuplicatesResolve'
    OBVIOUS
  <2>1. CASE UNCHANGED duplicateVars
    BY <2>1 DEF duplicateVars, LinksOK, DuplicatesResolve, Lost, OnFile
  <2>2. CASE DuplicateNext
    <3>0. PICK ids \in SUBSET Records : \E batch \in [ids -> BatchRows] :
            LET accepted == {r \in ids : Accepted(batch, r)} IN
              /\ link' = [r \in Records |-> IF r \in accepted THEN batch[r].of ELSE link[r]]
              /\ refused' = (refused \/ accepted # ids)
      BY <2>2 DEF DuplicateNext, import_risk_object_registry
    <3>1. PICK batch \in [ids -> BatchRows] :
            LET accepted == {r \in ids : Accepted(batch, r)} IN
              /\ link' = [r \in Records |-> IF r \in accepted THEN batch[r].of ELSE link[r]]
              /\ refused' = (refused \/ accepted # ids)
      BY <3>0
    <3>2. LinksOK'
      BY <3>1 DEF LinksOK, BatchRows
    <3>3. CASE refused'
      BY <3>2, <3>3 DEF DuplicatesResolve
    <3>4. CASE ~refused'
      <4>1. ~refused /\ {r \in ids : Accepted(batch, r)} = ids
        BY <3>1, <3>4
      <4>2. \A r \in ids : Accepted(batch, r)
        BY <4>1
      <4>3. link' = [r \in Records |-> IF r \in ids THEN batch[r].of ELSE link[r]]
        BY <3>1, <4>1
      <4>4. \A some \in SUBSET OnFile' : ~Lost(some)'
        BY <4>1, <4>2, <4>3, BatchResolves
      <4> QED BY <3>2, <4>4 DEF DuplicatesResolve
    <3> QED BY <3>2, <3>3, <3>4
  <2> QED BY <2>1, <2>2
<1> QED BY <1>1, <1>2, PTL DEF DuplicateSpec
=============================================================================
