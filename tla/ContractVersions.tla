--------------------------- MODULE ContractVersions ---------------------------
(***************************************************************************)
(* The task schema and the rule set as recorded contracts: whoever serves  *)
(* a contract first records what it is under its version label             *)
(* (flood_system/response_workflow/service.py, _ensure_contract_version).  *)
(* Each process runs one build of the program, a label and a content; the  *)
(* check of what is on record and the insert are two connections.          *)
(***************************************************************************)
EXTENDS Naturals, Sequences

CONSTANTS Labels, Contents, Servers, MaxDeployments

ContractAssumption == MaxDeployments \in Nat

VARIABLES
  contracts,    \* response_contract_versions, in order
  build,        \* [label, content] the code of each server has
  ensuring,     \* the record a server is about to insert, or Nothing
  served,       \* every [label, content] a request was answered with
  deployments,  \* how often a server was given another build
  overlap       \* two servers have been about to insert at the same time

contractVars == <<contracts, build, ensuring, served, deployments, overlap>>
Builds == [label : Labels, content : Contents]
Nothing == [label |-> "nothing"]
OnRecord(label) == {i \in DOMAIN contracts : contracts[i].label = label}
Serve(s) == served' = served \cup {build[s]}

\* The contract is on record: served when the content agrees, else RuntimeError.
\* Seeded fault: the label alone is looked at.
SameLabel(s) == TRUE
SameContent(s) == \A i \in OnRecord(build[s].label) : contracts[i].content = build[s].content
serve_recorded(s) ==
  /\ ensuring[s] = Nothing /\ OnRecord(build[s].label) # {}
  /\ SameContent(s)
  /\ Serve(s)
  /\ UNCHANGED <<contracts, build, ensuring, deployments, overlap>>

ensure_contract_version(s) ==
  /\ ensuring[s] = Nothing /\ OnRecord(build[s].label) = {}
  /\ ensuring' = [ensuring EXCEPT ![s] =
       [label |-> build[s].label, content |-> build[s].content,
        supersedes |-> IF contracts = <<>> THEN "none"
                       ELSE contracts[Len(contracts)].label]]
  /\ overlap' = (overlap \/ \E other \in Servers \ {s} : ensuring[other] # Nothing)
  /\ UNCHANGED <<contracts, build, served, deployments>>

\* INSERT OR IGNORE, unique in the label and in the content; served either way.
Ignored(record) == \E i \in DOMAIN contracts : contracts[i].label = record.label
                                              \/ contracts[i].content = record.content
save_contract_version(s) ==
  /\ ensuring[s] # Nothing
  /\ contracts' = IF Ignored(ensuring[s]) THEN contracts ELSE Append(contracts, ensuring[s])
  /\ Serve(s)
  /\ ensuring' = [ensuring EXCEPT ![s] = Nothing]
  /\ UNCHANGED <<build, deployments, overlap>>

\* Another build is rolled out to one server; what it was about to do is lost.
deploy(s) ==
  /\ deployments < MaxDeployments /\ deployments' = deployments + 1
  /\ \E b \in Builds \ {build[s]} : build' = [build EXCEPT ![s] = b]
  /\ ensuring' = [ensuring EXCEPT ![s] = Nothing]
  /\ UNCHANGED <<contracts, served, overlap>>

ContractInit ==
  /\ contracts = <<>>
  /\ build \in {[s \in Servers |-> b] : b \in Builds}
  /\ ensuring = [s \in Servers |-> Nothing]
  /\ served = {} /\ deployments = 0 /\ overlap = FALSE

ContractNext ==
  \E s \in Servers :
    \/ serve_recorded(s)
    \/ ensure_contract_version(s)
    \/ save_contract_version(s)
    \/ deploy(s)

ContractSpec == ContractInit /\ [][ContractNext]_contractVars

(***************************************************************************)
(* Properties.                                                             *)
(***************************************************************************)
\* Whoever races whom, a label and a content are on record once, and a record
\* supersedes one that was there before it.
ContractTypeOK ==
  \A i \in DOMAIN contracts :
    /\ \A j \in 1..(i - 1) : contracts[j].label # contracts[i].label
                              /\ contracts[j].content # contracts[i].content
    /\ contracts[i].supersedes = "none"
         \/ \E j \in 1..(i - 1) : contracts[j].label = contracts[i].supersedes

\* The records hold what they say, and two contents are served under one label only where first requests overlapped,
\* or where one content is on record under another label and so never under
\* this one.
DriftFailsClosed ==
  /\ ContractTypeOK
  /\ \A a, b \in served :
       a.label = b.label /\ a # b =>
         \/ overlap
         \/ \E c \in {a, b}, i \in DOMAIN contracts :
              contracts[i].content = c.content /\ contracts[i].label # c.label
=============================================================================
