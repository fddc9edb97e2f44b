--------------------------- MODULE CandidateSafety ---------------------------
(***************************************************************************)
(* What the path from a warning to a task draft must keep true.            *)
(***************************************************************************)
EXTENDS CandidateObjects

\* A row of response_event_objects says what it rests on, once there is one.
WellFormed(row) ==
  /\ row.status \in {"absent", "pending", "confirmed", "excluded"} /\ row.stale \in BOOLEAN
  /\ row.version \in Nat /\ row.run \in 0..runIds /\ row.verifiedUnder \in 0..Len(alerts)
  /\ row.version = 0 <=> row.status = "absent"
  /\ row.version = 0 <=> row.content = NoContent

\* Rows are well formed, and no version of a registry record was skipped.
CandidateTypeOK ==
  /\ responseEvent.closed \in BOOLEAN /\ responseEvent.alert \in DOMAIN alerts
  /\ \A o \in DOMAIN object : WellFormed(object[o])
  /\ \A o \in DOMAIN registry :
       {h.version : h \in {k \in registryHistory : k.object = o}} = 1..registry[o].version

\* The immutable versions of a registry record tell its whole story: one
\* per version, the last one the record itself, and no version that changes
\* nothing (an import that brings nothing new writes nothing), whatever
\* imports race.
RegistryHistoryExplains ==
  \A o \in DOMAIN registry : \A n \in 1..registry[o].version :
    LET at(k) == {h.content : h \in {g \in registryHistory : g.object = o /\ g.version = k}}
    IN /\ Cardinality(at(n)) = 1
       /\ n = registry[o].version => at(n) = {registry[o].content}
       /\ n > 1 => at(n) # at(n - 1)

\* A screening run that still counts as completed saw the registry as it is:
\* every record it considered is unchanged and none has been added, unless
\* an import and a screening ran beside each other.
CompletedRunsAreCurrent ==
  ("import beside" \notin disturbed /\ ~responseEvent.closed) =>
    \A r \in Range(runs) : r.status = "completed" =>
      \A o \in DOMAIN registry :
        /\ o \in DOMAIN r.screened => registry[o].version = r.screened[o]
        /\ registry[o].version > 0 /\ Usable(registry[o].content) => o \in DOMAIN r.screened

\* With the append of a warning behind it, no object counts as confirmed on
\* the strength of an older warning.  Void once an append was cut off (the
\* same warning sent again is answered as already stored) or ran beside
\* another decision.
ConfirmationsAreRecent ==
  ({"cut off", "alert beside"} \cap disturbed = {}
   /\ ~\E p \in DOMAIN handling : handling[p] = "append_alert") =>
    \A o \in DOMAIN object : Frozenable(o) => object[o].verifiedUnder = Len(alerts)

\* What the last screening run and the confirmations say is said of the alert
\* and the registry as they are now.
ScreeningIsCurrent ==
  /\ CandidateTypeOK
  /\ RegistryHistoryExplains
  /\ CompletedRunsAreCurrent
  /\ ConfirmationsAreRecent

\* A task drafted from a frozen list orders what somebody confirmed under the
\* latest warning, on the master data the registry then held.
ListedDraftsAreGrounded ==
  \A d \in drafts : d.list > 0 /\ disturbed = {} =>
    /\ d.row.verifiedUnder = d.alert
    /\ d.row.run # Manual /\ d.row.content # "profile" => d.row.content = d.registered.content
=============================================================================
