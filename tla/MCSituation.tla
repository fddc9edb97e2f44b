----------------------------- MODULE MCSituation -----------------------------
(***************************************************************************)
(* What is put before people to decide, for TLC: candidate objects,        *)
(* evidence packages, the timeline, and the regional proposals of the      *)
(* platform.  They meet in two places: a draft generated by machine ends   *)
(* in the create_task of CandidateObjects, and every handler of the        *)
(* workflow appends to the timeline.  Beyond that no table is shared and   *)
(* nothing one does is read by another, so a behaviour of all is an        *)
(* interleaving of their behaviours and each can be explored alone: scope  *)
(* says which one a behaviour is about, and in which small instance.       *)
(***************************************************************************)
EXTENDS CandidateSafety, EvidencePackage, TimelineChain, RegionalProposals

VARIABLE scope

vars == <<candidateVars, evidenceVars, timelineVars, proposalVars, scope>>

(***************************************************************************)
(* The instances.                                                          *)
(***************************************************************************)
Work == {"add_risk_objects", "discover_risk_objects", "verify_risk_object",
         "freeze_candidate_object_list", "create_task"}
Changes == {"append_alert", "import_risk_object_registry", "close_event"}
\* An officer works on one object while the warning and the registry change.
Sharing == [officer |-> Work, registrar |-> Changes]
Everything == [officer |-> (Work \ {"add_risk_objects"}) \cup (Changes \ {"close_event"})]
Importing == [officer |-> {"import_risk_object_registry"},
              registrar |-> {"import_risk_object_registry"}]

\* One object, contents of which one is not usable; the process stops once between
\* two transactions: CandidateSafety itself, with the constants of situation.cfg.
\* One object, two threads.
Race == INSTANCE CandidateSafety WITH
  Masters <- {"m1", "m2"}, ByHand <- {"m1"}, Warnings <- {"w1", "w2"}, Called_off <- {},
  MaxRuns <- 1, Profiles <- {}, Threads <- {"officer", "registrar"}, MayCall <- Sharing,
  MaxObjectVersion <- 3, MaxStops <- 0
\* Two objects, one handler at a time.
Area == INSTANCE CandidateSafety WITH
  Masters <- {"m1", "m2"}, Warnings <- {"w1", "w2"}, Called_off <- {}, MaxRuns <- 1,
  Objects <- {"o1", "o2"}, Lapsing <- {"m2"}, Profiles <- {}, MayCall <- Everything,
  MaxObjectVersion <- 3, MaxStops <- 0
\* Two imports of the registry at once.
Imports == INSTANCE CandidateSafety WITH
  Masters <- {"m1", "m3"}, Warnings <- {"w1", "w2"}, Called_off <- {}, MaxImports <- 3,
  MaxRuns <- 0, Objects <- {"o1", "o2"}, Profiles <- {}, Threads <- {"officer", "registrar"},
  MayCall <- Importing, MaxObjectVersion <- 0, MaxStops <- 0

\* The evidence is EvidencePackage itself, with the constants of situation.cfg:
\* two documents that decide a deadline differently and a third that joins in.
FieldsSupported == {<<"d1", "action">>, <<"d2", "action">>}
RolesCovered == {<<"d1", "procedure">>, <<"d2", "procedure">>}
Decided == [d1 |-> "deadline", d2 |-> "deadline", d3 |-> "deadline"]
Deadlines == [d1 |-> "short", d2 |-> "long", d3 |-> "short"]
Contradictions == {[field |-> "action", sources |-> {"d1", "d2"}]}

\* One action, levels that rise and fall, a commander beside the supervisor:
\* RegionalProposals itself, with the constants of situation.cfg.
OneDesk == [feed |-> {"simulate", "other_run"},
            desk |-> {"edit", "approve", "reject", "warn"}, deputy |-> {}]
\* A package of two actions, two commanders.
TwoDesks == [feed |-> {"simulate"}, desk |-> {"approve", "warn"},
             deputy |-> {"approve", "reject"}]
Parcel == INSTANCE RegionalProposals WITH
  ActionTypes <- {"evacuate", "close_road"}, Hashes <- {"h1"}, Levels <- {"red"},
  Allowed <- TwoDesks, MaxProposals <- 2, MaxSimulations <- 1, MaxReconciles <- 2
\* Reconciliations that overlap: the supervisor's and a requested one.
Requested == [feed |-> {"simulate"}, desk |-> {"edit", "reject"}, deputy |-> {"generate"}]
Overlap == INSTANCE RegionalProposals WITH
  Levels <- {"red"}, Allowed <- Requested, MaxProposals <- 2, MaxReconciles <- 2,
  MaxRestarts <- 0

ASSUME /\ Race!CandidateAssumption
       /\ Area!CandidateAssumption
       /\ Imports!CandidateAssumption
       /\ EvidenceAssumption
       /\ ProposalAssumption /\ Parcel!ProposalAssumption /\ Overlap!ProposalAssumption

(***************************************************************************)
(* Specification.                                                          *)
(***************************************************************************)
Init ==
  /\ scope \in {"race", "area", "restart", "imports", "evidence", "timeline",
               "queue", "parcel", "overlap"}
  /\ CASE scope = "race"    -> Race!CandidateInit
       [] scope = "area"    -> Area!CandidateInit
       [] scope = "restart" -> CandidateInit
       [] OTHER             -> Imports!CandidateInit
  /\ EvidenceInit
  /\ TimelineInit
  /\ CASE scope = "parcel"  -> Parcel!ProposalInit
       [] scope = "overlap" -> Overlap!ProposalInit
       [] OTHER             -> ProposalInit

Next ==
  /\ \/ /\ \/ scope = "race"    /\ Race!CandidateNext
           \/ scope = "area"    /\ Area!CandidateNext
           \/ scope = "restart" /\ CandidateNext
           \/ scope = "imports" /\ Imports!CandidateNext
        /\ UNCHANGED <<evidenceVars, timelineVars, proposalVars>>
     \/ /\ scope = "evidence" /\ EvidenceNext
        /\ UNCHANGED <<candidateVars, timelineVars, proposalVars>>
     \/ /\ scope = "timeline" /\ TimelineNext
        /\ UNCHANGED <<candidateVars, evidenceVars, proposalVars>>
     \/ /\ \/ scope = "queue"   /\ ProposalNext
           \/ scope = "parcel"  /\ Parcel!ProposalNext
           \/ scope = "overlap" /\ Overlap!ProposalNext
        /\ UNCHANGED <<candidateVars, evidenceVars, timelineVars>>
  /\ UNCHANGED scope

Spec == Init /\ [][Next]_vars

(***************************************************************************)
(* The properties, each stated where its component is: CandidateSafety     *)
(* brings ScreeningIsCurrent and ListedDraftsAreGrounded, EvidencePackage  *)
(* EvidenceHolds, TimelineChain ChainsBreakByOverlapOnly, and              *)
(* RegionalProposals QueueIsOrderly, ApprovalsAreCarriedOut and            *)
(* CommandersPrevail.                                                      *)
(***************************************************************************)
=============================================================================
