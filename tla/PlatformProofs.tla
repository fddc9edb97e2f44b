---------------------------- MODULE PlatformProofs ----------------------------
(***************************************************************************)
(* Proofs about the copilot: one question, for any objects, rankings and   *)
(* number of rounds; the papers on the episodes of an event that reach its *)
(* sessions, for any handlers, sessions, levels and failures; and the jobs *)
(* of the data pipeline.                                                   *)
(***************************************************************************)
EXTENDS CopilotTurn, EpisodeReports, DatasetJobs,
        FiniteSetTheorems, WellFoundedInduction, TLAPS

(***************************************************************************)
(* The inductive invariant.                                                *)
(***************************************************************************)
Whom == Entities \cup {NoOne}
Rounds == {"resolve", "exposure", "context", "impact", "secondary"}
Stages == Rounds \cup {"idle", "review", "answer", "reply"}

CopilotTypeOK ==
  /\ exposed \in Whom /\ question.hint \in Whom
  /\ stage \in Stages /\ plan \subseteq Tools /\ pending \subseteq Tools
  /\ outputs \in [Tools -> Whom \cup {Absent}]

\* Between two turns nothing is left of the last one.
NothingLeft ==
  stage = "idle" => pending = {} /\ outputs = NoOutputs /\ ~moved /\ ~unresolved

\* Every round resolves the target, and before anything else.
ResolvedFirst ==
  /\ stage # "idle" => "resolve_target_entity" \in plan
  /\ "resolve_target_entity" \in pending => stage = "resolve"
  /\ stage \in {"review", "answer", "reply"} => pending = {}
  /\ stage = "resolve" => pending \subseteq {"resolve_target_entity"}

\* The object the turn is about, as long as that is certain.
Meant == IF question.hint # NoOne THEN question.hint ELSE exposed
Certain == stage # "idle" /\ ~unresolved /\ (question.hint # NoOne \/ ~moved)

\* Outputs about an object are about that one, and past its resolution it is known.
AboutMeant ==
  Certain =>
    /\ \A tool \in {"resolve_target_entity", "synthesize_entity_impact", "get_route_options"} :
         outputs[tool] \in {Absent, Meant}
    /\ "resolve_target_entity" \notin pending =>
         outputs["resolve_target_entity"] # Absent

\* The kind of answer was settled with the impact at hand.
Settled == stage \in {"answer", "reply"} /\ Impact \in HighRisk => answer = "human_escalation"

Inductive == CopilotTypeOK /\ NothingLeft /\ ResolvedFirst /\ AboutMeant /\ Settled

-----------------------------------------------------------------------------
(***************************************************************************)
(* The target and the stages.                                              *)
(***************************************************************************)
\* What the resolution found comes before the ranking and the plan.
LEMMA ResolutionPrevails ==
  ASSUME outputs["resolve_target_entity"] # Absent
  PROVE  Target = outputs["resolve_target_entity"]
  <1> DEFINE found == {outputs["resolve_target_entity"]} \ {Absent}
  <1>1. found = {outputs["resolve_target_entity"]}
    OBVIOUS
  <1>2. (CHOOSE e \in found : TRUE) = outputs["resolve_target_entity"]
    BY <1>1
  <1> QED  BY <1>1, <1>2 DEF Target

LEMMA TargetType ==
  ASSUME CopilotTypeOK
  PROVE  Target \in Whom
  <1> DEFINE found == {outputs["resolve_target_entity"]} \ {Absent}
             ranked == {outputs["get_exposure_summary"]} \ {Absent, NoOne}
  <1>1. found \subseteq Whom /\ ranked \subseteq Whom
    BY DEF CopilotTypeOK, Tools
  <1>2. found # {} => (CHOOSE e \in found : TRUE) \in found
    OBVIOUS
  <1>3. ranked # {} => (CHOOSE e \in ranked : TRUE) \in ranked
    OBVIOUS
  <1> HIDE DEF found, ranked
  <1>4. Target = IF found # {} THEN CHOOSE e \in found : TRUE
                 ELSE IF ranked # {} THEN CHOOSE e \in ranked : TRUE ELSE question.hint
    BY DEF Target, found, ranked
  <1> QED  BY <1>1, <1>2, <1>3, <1>4 DEF CopilotTypeOK

LEMMA SubjectType ==
  ASSUME CopilotTypeOK, NEW tool \in Tools
  PROVE  Subject(tool) \in Whom
  BY TargetType DEF Subject, CopilotTypeOK, Tools, Whom

LEMMA Resolution ==
  ASSUME NEW p \in SUBSET Tools, "resolve_target_entity" \in p
  PROVE  StageTools("resolve", p) = {"resolve_target_entity"}
  BY DEF StageTools

LEMMA LaterTools ==
  ASSUME NEW s \in Stages \ {"resolve"}, NEW p \in SUBSET Tools
  PROVE  StageTools(s, p) \subseteq Tools /\ "resolve_target_entity" \notin StageTools(s, p)
  BY DEF StageTools, Stages, Rounds

LEMMA Follows ==
  ASSUME NEW s \in Rounds
  PROVE  Following(s) \in {"exposure", "context", "impact", "secondary", "review"}
  <1> DEFINE k == CHOOSE i \in 1..Len(Order) : Order[i] = s
  <1>1. Len(Order) = 6
    BY DEF Order
  <1>2. \E i \in 1..Len(Order) : Order[i] = s
    <2>1. 1 \in 1..6 /\ 2 \in 1..6 /\ 3 \in 1..6 /\ 4 \in 1..6 /\ 5 \in 1..6
      OBVIOUS
    <2> QED  BY <1>1, <2>1 DEF Order, Rounds
  <1>3. k \in 1..6 /\ Order[k] = s
    BY <1>1, <1>2
  <1>4. k # 6
    BY <1>3 DEF Order, Rounds
  <1> HIDE DEF k
  <1>5. k \in {1, 2, 3, 4, 5}
    BY <1>3, <1>4
  <1>6. Order[1 + k] \in {"exposure", "context", "impact", "secondary", "review"}
    BY <1>5 DEF Order
  <1> QED  BY <1>6 DEF Following, k

-----------------------------------------------------------------------------
(***************************************************************************)
(* Actions.                                                                *)
(***************************************************************************)
LEMMA InitInductive ==
  ASSUME CopilotAssumption, CopilotInit
  PROVE  Inductive
  BY DEF CopilotAssumption, CopilotInit, Inductive, CopilotTypeOK, NothingLeft, ResolvedFirst, Certain,
         AboutMeant, Settled, Whom, Stages, Rounds, NoQuestion, NoOutputs, Absent

LEMMA AskInductive ==
  ASSUME CopilotAssumption, Inductive, ask
  PROVE  Inductive'
  <1>1. PICK q \in Questions, added \in SUBSET {"get_exposure_summary"} :
          /\ stage = "idle" /\ question' = q /\ StartRound(RulePlan(q) \cup added)
          /\ UNCHANGED <<exposed, focus, round, outputs, answer, historyVars>>
    BY DEF ask
  <1>2. /\ RulePlan(q) \cup added \subseteq Tools
        /\ "resolve_target_entity" \in RulePlan(q) \cup added
    BY DEF RulePlan, Required, Tools
  <1>3. /\ plan' = RulePlan(q) \cup added /\ stage' = "resolve"
        /\ pending' = {"resolve_target_entity"}
    BY <1>1, <1>2, Resolution DEF StartRound
  <1>4. question'.hint \in Whom
    BY <1>1 DEF Questions, Whom
  <1>5. /\ exposed' = exposed /\ outputs' = outputs /\ outputs = NoOutputs
        /\ moved' = moved /\ unresolved' = unresolved
    BY <1>1 DEF historyVars, Inductive, NothingLeft
  <1>6. CopilotTypeOK'
    BY <1>2, <1>3, <1>4, <1>5 DEF Inductive, CopilotTypeOK, Stages, Rounds, Tools
  <1>7. NothingLeft' /\ ResolvedFirst' /\ Settled'
    BY <1>2, <1>3 DEF NothingLeft, ResolvedFirst, Settled
  <1>8. AboutMeant'
    BY <1>3, <1>5 DEF AboutMeant, NoOutputs, Tools
  <1> QED  BY <1>6, <1>7, <1>8 DEF Inductive

LEMMA ReuseInductive ==
  ASSUME Inductive, NEW tool \in Tools, reuse_tool(tool)
  PROVE  Inductive'
  <1>1. tool # "resolve_target_entity"
    BY DEF reuse_tool, Cached
  <1>2. /\ pending' = pending \ {tool} /\ pending # {}
        /\ UNCHANGED <<exposed, question, stage, plan, outputs, answer, moved, unresolved>>
    BY DEF reuse_tool, historyVars
  <1> QED  BY <1>1, <1>2 DEF Inductive, CopilotTypeOK, NothingLeft, ResolvedFirst, AboutMeant, Certain,
              Meant, Settled, Impact

LEMMA RunInductive ==
  ASSUME CopilotAssumption, Inductive, NEW tool \in Tools, run_tool(tool)
  PROVE  Inductive'
  <1>1. PICK status \in {"success", "late", "stale", "timed_out", "raised"} :
          LET again == status \in {"late", "timed_out"} /\ MayRetry(tool)
              kept  == CASE status = "success" -> TRUE
                         [] status \in {"late", "stale"} -> tool # "resolve_target_entity"
                         [] OTHER -> FALSE
          IN  /\ tool \in pending
              /\ tool = "resolve_target_entity" =>
                   (question.hint = NoOne /\ exposed = NoOne => status = "raised")
              /\ pending' = IF again THEN pending ELSE pending \ {tool}
              /\ outputs' = IF kept /\ ~again THEN [outputs EXCEPT ![tool] = Subject(tool)] ELSE outputs
              /\ unresolved' = (unresolved \/ (tool = "resolve_target_entity" /\ status # "success"))
              /\ UNCHANGED <<exposed, question, stage, plan, answer, moved>>
    BY DEF run_tool
  <1>2. /\ tool \in pending /\ pending' \subseteq pending /\ pending \ pending' \subseteq {tool}
        /\ outputs' = outputs \/ outputs' = [outputs EXCEPT ![tool] = Subject(tool)]
        /\ unresolved => unresolved'
        /\ UNCHANGED <<exposed, question, stage, plan, answer, moved>>
    BY <1>1
  <1>3. tool = "resolve_target_entity" /\ ~unresolved' =>
          /\ outputs' = [outputs EXCEPT ![tool] = Subject(tool)]
          /\ question.hint # NoOne \/ exposed # NoOne
    BY <1>1
  <1>4. stage # "idle"
    BY <1>2 DEF Inductive, NothingLeft
  <1>5. CopilotTypeOK'
    BY <1>2, SubjectType DEF Inductive, CopilotTypeOK
  <1>6. NothingLeft' /\ ResolvedFirst'
    BY <1>2, <1>4 DEF Inductive, NothingLeft, ResolvedFirst
  <1>7. Certain' => Certain /\ Meant' = Meant /\ Meant \in Whom
    BY <1>2 DEF Certain, Meant, Inductive, CopilotTypeOK
  <1>8. AboutMeant'
    <2> SUFFICES ASSUME Certain' PROVE AboutMeant'
      BY DEF AboutMeant
    <2> DEFINE About == {"resolve_target_entity", "synthesize_entity_impact", "get_route_options"}
    <2>1. Certain /\ ~unresolved' /\ Meant' = Meant
      BY <1>7 DEF Certain
    <2>2. Meant # Absent
      BY <1>7 DEF CopilotAssumption, Whom, Absent
    <2>3. /\ outputs \in [Tools -> Whom \cup {Absent}] /\ About \subseteq Tools
          /\ \A t \in About : outputs[t] \in {Absent, Meant}
          /\ "resolve_target_entity" \notin pending => outputs["resolve_target_entity"] # Absent
      BY <2>1 DEF Inductive, CopilotTypeOK, AboutMeant, Tools
    <2> HIDE DEF About
    <2>4. /\ \A t \in Tools \ {tool} : outputs'[t] = outputs[t]
          /\ outputs'[tool] \in {outputs[tool], Subject(tool)}
      BY <1>2, <2>3
    <2>5. tool = "resolve_target_entity" => outputs'[tool] = Meant
      <3> SUFFICES ASSUME tool = "resolve_target_entity" PROVE outputs'[tool] = Meant
        OBVIOUS
      <3>1. Subject(tool) = Meant
        BY DEF Subject, Meant
      <3>2. outputs' = [outputs EXCEPT ![tool] = Subject(tool)]
        BY <1>3, <2>1
      <3> QED  BY <2>3, <3>1, <3>2
    <2>6. tool \in About => outputs'[tool] \in {Absent, Meant}
      <3>1. CASE tool = "resolve_target_entity"
        BY <2>5, <3>1
      <3>2. CASE tool \in {"synthesize_entity_impact", "get_route_options"}
        <4>1. "resolve_target_entity" \notin pending
          BY <1>2, <3>2 DEF Inductive, ResolvedFirst
        <4>2. Target = Meant
          BY <2>3, <4>1, ResolutionPrevails DEF About
        <4>3. Subject(tool) = Target
          BY <3>2 DEF Subject
        <4>4. tool \in About
          BY <3>2 DEF About
        <4>5. outputs[tool] \in {Absent, Meant}
          BY <2>3, <4>4
        <4> QED  BY <2>4, <4>2, <4>3, <4>5
      <3> QED  BY <3>1, <3>2 DEF About
    <2>7. \A t \in About : outputs'[t] \in {Absent, Meant}
      BY <2>3, <2>4, <2>6
    <2>8. "resolve_target_entity" \notin pending' => outputs'["resolve_target_entity"] # Absent
      <3>1. CASE tool = "resolve_target_entity"
        BY <2>2, <2>5, <3>1
      <3>2. CASE tool # "resolve_target_entity"
        <4>1. "resolve_target_entity" \notin pending' => "resolve_target_entity" \notin pending
          BY <1>2, <3>2
        <4>2. outputs'["resolve_target_entity"] = outputs["resolve_target_entity"]
          BY <2>4, <3>2 DEF Tools
        <4> QED  BY <2>3, <4>1, <4>2
      <3> QED  BY <3>1, <3>2
    <2> QED  BY <2>1, <2>7, <2>8 DEF AboutMeant, About
  <1>9. Settled'
    <2>1. stage \notin {"answer", "reply"}
      BY <1>2 DEF Inductive, ResolvedFirst
    <2> QED  BY <1>2, <2>1 DEF Settled
  <1> QED  BY <1>5, <1>6, <1>8, <1>9 DEF Inductive

LEMMA StageInductive ==
  ASSUME CopilotAssumption, Inductive, next_stage
  PROVE  Inductive'
  <1>1. /\ stage \in Rounds /\ pending = {}
        /\ stage' = Following(stage) /\ pending' = StageTools(Following(stage), plan)
        /\ UNCHANGED <<exposed, question, plan, outputs, answer, moved, unresolved>>
    BY DEF next_stage, historyVars, Inductive, CopilotTypeOK, Stages
  <1>2. stage' \in {"exposure", "context", "impact", "secondary", "review"}
    BY <1>1, Follows
  <1>3. pending' \subseteq Tools /\ "resolve_target_entity" \notin pending'
    BY <1>1, <1>2, LaterTools DEF Stages, Rounds, Inductive, CopilotTypeOK
  <1>4. stage' = "review" => pending' = {}
    BY <1>1 DEF StageTools
  <1>5. CopilotTypeOK'
    BY <1>1, <1>2, <1>3 DEF Inductive, CopilotTypeOK, Stages, Rounds
  <1>6. stage # "idle" /\ "resolve_target_entity" \in plan
    BY <1>1 DEF Rounds, Inductive, ResolvedFirst
  <1>7. NothingLeft' /\ ResolvedFirst' /\ Settled'
    BY <1>1, <1>2, <1>3, <1>4, <1>6 DEF NothingLeft, ResolvedFirst, Settled
  <1>8. Certain' => Certain /\ Meant' = Meant
    BY <1>1, <1>6 DEF Certain, Meant
  <1>9. AboutMeant'
    BY <1>1, <1>8 DEF Inductive, AboutMeant
  <1> QED  BY <1>5, <1>7, <1>9 DEF Inductive

LEMMA ReplanInductive ==
  ASSUME CopilotAssumption, Inductive, replan
  PROVE  Inductive'
  <1>1. stage = "review" /\ StartRound(Replanned)
    BY DEF replan
  <1>2. UNCHANGED <<exposed, question, outputs, answer, moved, unresolved>>
    BY DEF replan, historyVars
  <1>3. Replanned \subseteq Tools /\ "resolve_target_entity" \in Replanned
    BY <1>1 DEF Replanned, Tools, Inductive, CopilotTypeOK, ResolvedFirst
  <1>4. plan' = Replanned /\ stage' = "resolve" /\ pending' = {"resolve_target_entity"}
    BY <1>1, <1>3, Resolution DEF StartRound
  <1>5. CopilotTypeOK'
    BY <1>2, <1>3, <1>4 DEF Inductive, CopilotTypeOK, Stages, Rounds
  <1>6. NothingLeft' /\ ResolvedFirst' /\ Settled'
    BY <1>3, <1>4 DEF NothingLeft, ResolvedFirst, Settled
  <1>7. Certain' => Certain /\ Meant' = Meant
    BY <1>1, <1>2 DEF Certain, Meant
  <1>8. AboutMeant'
    BY <1>2, <1>4, <1>7 DEF Inductive, AboutMeant
  <1> QED  BY <1>5, <1>6, <1>8 DEF Inductive

LEMMA SettleInductive ==
  ASSUME Inductive, settle
  PROVE  Inductive'
  <1>1. /\ stage = "review" /\ stage' = "answer" /\ answer' = Status
        /\ UNCHANGED <<exposed, question, plan, pending, outputs, moved, unresolved>>
    BY DEF settle, roundVars, historyVars
  <1>2. Impact' \in HighRisk => answer' = "human_escalation"
    BY <1>1 DEF Status, Escalates, Impact
  <1>3. CopilotTypeOK' /\ NothingLeft' /\ ResolvedFirst' /\ Settled'
    BY <1>1, <1>2
    DEF Inductive, CopilotTypeOK, NothingLeft, ResolvedFirst, Settled, Stages, Rounds
  <1>4. AboutMeant'
    BY <1>1 DEF Inductive, AboutMeant, Certain, Meant
  <1> QED  BY <1>3, <1>4 DEF Inductive

LEMMA ApplyInductive ==
  ASSUME Inductive, apply_answer
  PROVE  Inductive'
  <1>1. /\ stage = "answer" /\ stage' = "reply"
        /\ UNCHANGED <<exposed, question, plan, pending, outputs, answer, moved, unresolved>>
    BY DEF apply_answer, roundVars, historyVars
  <1>2. CopilotTypeOK' /\ NothingLeft' /\ ResolvedFirst' /\ Settled'
    BY <1>1
    DEF Inductive, CopilotTypeOK, NothingLeft, ResolvedFirst, Settled, Impact, Stages, Rounds
  <1>3. AboutMeant'
    BY <1>1 DEF Inductive, AboutMeant, Certain, Meant
  <1> QED  BY <1>2, <1>3 DEF Inductive

\* An answered question and one that is given up.
LEMMA EndInductive ==
  ASSUME Inductive, EndTurn, UNCHANGED exposed
  PROVE  Inductive'
  <1>1. NoOutputs \in [Tools -> Whom \cup {Absent}] /\ NoQuestion.hint \in Whom
    BY DEF NoOutputs, NoQuestion, Whom
  <1> QED  BY <1>1 DEF EndTurn, Inductive, CopilotTypeOK, NothingLeft, ResolvedFirst, AboutMeant,
              Certain, Settled, Stages

\* Once the exposure has moved, only a question with an object of its own is certain.
LEMMA ObserveInductive ==
  ASSUME CopilotAssumption, Inductive, observe
  PROVE  Inductive'
  <1>1. /\ exposed' \in Rankings /\ moved' = (stage # "idle")
        /\ UNCHANGED <<question, stage, plan, pending, outputs, answer, unresolved>>
    BY DEF observe, turnVars, roundVars
  <1>2. CopilotTypeOK'
    BY <1>1 DEF Inductive, CopilotTypeOK, CopilotAssumption, Whom
  <1>3. NothingLeft' /\ ResolvedFirst' /\ Settled'
    BY <1>1 DEF Inductive, NothingLeft, ResolvedFirst, Settled, Impact
  <1>4. Certain' => Certain /\ Meant' = Meant
    BY <1>1 DEF Certain, Meant
  <1>5. AboutMeant'
    BY <1>1, <1>4 DEF Inductive, AboutMeant
  <1> QED  BY <1>2, <1>3, <1>5 DEF Inductive

\* The invariant holds in every state of a turn (run_agent_loop, _execute_round).
THEOREM InductiveInvariant ==
  ASSUME CopilotAssumption
  PROVE  CopilotSpec => []Inductive
  <1>1. CopilotInit => Inductive
    BY InitInductive
  <1>2. Inductive /\ [CopilotNext]_copilotVars => Inductive'
    <2> SUFFICES ASSUME Inductive, [CopilotNext]_copilotVars PROVE Inductive'
      OBVIOUS
    <2>1. CASE ask
      BY <2>1, AskInductive
    <2>2. ASSUME NEW tool \in Tools, reuse_tool(tool) \/ run_tool(tool) PROVE Inductive'
      BY <2>2, ReuseInductive, RunInductive
    <2>3. CASE next_stage
      BY <2>3, StageInductive
    <2>4. CASE replan
      BY <2>4, ReplanInductive
    <2>5. CASE settle
      BY <2>5, SettleInductive
    <2>6. CASE apply_answer
      BY <2>6, ApplyInductive
    <2>7. CASE reply
      BY <2>7, EndInductive DEF reply
    <2>8. CASE abandon
      BY <2>8, EndInductive DEF abandon
    <2>9. CASE observe
      BY <2>9, ObserveInductive
    <2>10. CASE UNCHANGED copilotVars
      BY <2>10 DEF copilotVars, turnVars, roundVars, historyVars, Inductive, CopilotTypeOK,
                   NothingLeft, ResolvedFirst, AboutMeant, Certain, Meant, Settled, Impact
    <2> QED  BY <2>1, <2>2, <2>3, <2>4, <2>5, <2>6, <2>7, <2>8, <2>9, <2>10
             DEF CopilotNext, TurnStep
  <1> QED  BY <1>1, <1>2, PTL DEF CopilotSpec

-----------------------------------------------------------------------------
(***************************************************************************)
(* The property of the runs.                                               *)
(***************************************************************************)
\* While every resolution of the turn succeeded, impact and routes are about the
\* object that was meant, whatever was retried, failed or taken over from an
\* earlier round, and high risk is not answered without a human
\* (_resolved_entity_id, _maybe_cached_tool, _assess_round).
THEOREM TargetSafe ==
  ASSUME CopilotAssumption
  PROVE  CopilotSpec => []TargetIsKept
  <1>1. Inductive => TargetIsKept
    <2> SUFFICES ASSUME Inductive, Working, ~unresolved
                 PROVE  /\ question.hint # NoOne => Objects \subseteq {question.hint}
                        /\ ~moved => Cardinality(Objects) <= 1
                        /\ stage \in {"answer", "reply"} /\ question.hint \in HighRisk =>
                             answer = "human_escalation" \/ Impact = Absent
      BY DEF TargetIsKept
    <2>1. question.hint # NoOne \/ ~moved => Objects \subseteq {Meant}
      BY DEF Inductive, AboutMeant, Certain, Working, Objects
    <2>2. question.hint # NoOne => Objects \subseteq {question.hint}
      BY <2>1 DEF Meant
    <2>3. Objects \subseteq {Meant} => Cardinality(Objects) <= 1
      <3>1. Objects \subseteq {Meant} => Objects = {} \/ Objects = {Meant}
        OBVIOUS
      <3>2. Objects = {} => Cardinality(Objects) = 0
        BY FS_EmptySet
      <3>3. Objects = {Meant} => Cardinality(Objects) = 1
        BY FS_Singleton
      <3> QED  BY <3>1, <3>2, <3>3
    <2>4. ASSUME stage \in {"answer", "reply"}, question.hint \in HighRisk
          PROVE  answer = "human_escalation" \/ Impact = Absent
      <3>1. question.hint # NoOne
        BY <2>4 DEF CopilotAssumption
      <3>2. Impact \in {Absent, question.hint}
        BY <3>1 DEF Inductive, AboutMeant, Certain, Working, Meant, Impact
      <3> QED  BY <2>4, <3>2 DEF Inductive, Settled
    <2> QED  BY <2>1, <2>2, <2>3, <2>4
  <1> QED  BY <1>1, InductiveInvariant, PTL

-----------------------------------------------------------------------------
(***************************************************************************)
(* Episodes and papers: the inductive invariant.                           *)
(***************************************************************************)
Rows == [status : {"open", "closed", "summarized"}, peak : Nat]
Copies == Rows \cup {NoEpisode}
Steps == {"summarise", "settle", "memorise", "list", "deliver"}

EpisodeTypeOK ==
  /\ level \in Nat /\ failures \in Nat /\ reports \in 0..MaxReports
  /\ ran \in BOOLEAN /\ overlapped \in BOOLEAN
  /\ handler \in [Handlers -> [at : {"away", "read", "stored", "listed"}, previous : Nat,
                               level : Nat, open : Seq(Copies)]]
  /\ episodes \in Seq(Rows) /\ Len(episodes) <= MaxEpisodes
  /\ summaries \subseteq DOMAIN episodes
  /\ session \in [Sessions -> {"absent", "saved", "reported", "ready", "lost"}]
  /\ inbox \in [Sessions -> [Papers -> Nat]]
  /\ writer \in [Writers -> [at : Steps \cup {"resting"}, paper : Papers \cup {NoPaper},
                             copy : Copies, todo : SUBSET Sessions]]

\* A paper is worked on by the thread of its kind; a summary is stored once.
Resumed(w) == writer[w].at = "resting" => writer[w].paper = NoPaper
SummaryInHand ==
  writer["postmortem"].at # "resting" =>
    \E i \in DOMAIN episodes :
      /\ writer["postmortem"].paper = <<"summary", i>> /\ writer["postmortem"].copy \in Rows
      /\ writer["postmortem"].at = "summarise" <=> i \notin summaries
      /\ writer["postmortem"].at \in {"list", "deliver"} => i \in memories
ReportInHand ==
  writer["daily"].at # "resting" =>
    /\ writer["daily"].at \in {"list", "deliver"}
    /\ reports \in 1..MaxReports /\ writer["daily"].paper = <<"report", reports>>
WritersOK == (\A w \in Writers : Resumed(w)) /\ SummaryInHand /\ ReportInHand

EpisodeTyped == EpisodeTypeOK /\ WritersOK

\* Handlers that come one after the other: what each still has to do to the episodes.
Calm == ~overlapped /\ failures = 0
Matches(l) == l > 0 <=> Open # {}
HandledAlone == \A g, h \in Handlers : handler[g].at # "away" /\ handler[h].at # "away" => g = h
OneOpen == \A i, k \in Open : i = k
SummarisedAreOver ==
  /\ \A i \in summaries : i \notin Open
  /\ writer["postmortem"].at \in {"summarise", "settle"} =>
       \A i \in Open : writer["postmortem"].paper # <<"summary", i>>
AwayFollows ==
  (\A h \in Handlers : handler[h].at = "away") =>
    Matches(level) /\ \A i \in Open : level <= episodes[i].peak
ReadFollows ==
  \A h \in Handlers : handler[h].at = "read" => handler[h].previous = level /\ Matches(level)
StoredFollows ==
  \A h \in Handlers : handler[h].at \in {"stored", "listed"} =>
    handler[h].level = level /\ Matches(handler[h].previous)
ListedFollows ==
  \A h \in Handlers : handler[h].at = "listed" =>
    /\ DOMAIN handler[h].open = DOMAIN episodes
    /\ \A i \in DOMAIN episodes :
         handler[h].open[i] = IF i \in Open THEN episodes[i] ELSE NoEpisode

LevelInvariant ==
  Calm => /\ HandledAlone /\ OneOpen /\ SummarisedAreOver
          /\ AwayFollows /\ ReadFollows /\ StoredFollows /\ ListedFollows

\* A session gets a paper when it is set up, when it is delivered, or both.
Summary(p) == p[1] = "summary"
Stored(p) == IF Summary(p) THEN p[2] \in summaries ELSE p[2] <= reports
Backfilled(s, p) ==
  IF Summary(p) THEN session[s] = "ready" ELSE session[s] \in {"reported", "ready", "lost"}
Complete(s, p) == IF Summary(p) THEN session[s] = "ready" ELSE session[s] \in {"reported", "ready"}
InHand(w, p, s) ==
  /\ writer[w].paper = p
  /\ \/ writer[w].at \in {"settle", "memorise", "list"}
     \/ writer[w].at = "deliver" /\ s \in writer[w].todo
WriterOf(p) == IF Summary(p) THEN "postmortem" ELSE "daily"
Awaited(s, p) == InHand(WriterOf(p), p, s)

Told(s, p) ==
  /\ ~Stored(p) => inbox[s][p] = 0
  /\ inbox[s][p] <= (IF Backfilled(s, p) THEN 1 ELSE 0) + (IF Awaited(s, p) THEN 0 ELSE 1)
  /\ Stored(p) /\ Complete(s, p) /\ p \notin missed => inbox[s][p] >= 1 \/ Awaited(s, p)

Remembered ==
  \A i \in summaries :
    i \in memories \/ <<"summary", i>> \in missed \/ writer["postmortem"].paper = <<"summary", i>>
OncePerDay ==
  failures = 0 =>
    /\ reports <= 1
    /\ reports = 1 => ran \/ writer["daily"].at # "resting"

ToldInvariant == (\A s \in Sessions : \A p \in Papers : Told(s, p)) /\ Remembered /\ OncePerDay

-----------------------------------------------------------------------------
(***************************************************************************)
(* Episodes and papers: types.                                             *)
(***************************************************************************)
LEMMA PapersNamed ==
  /\ \A i \in 1..MaxEpisodes : <<"summary", i>> \in Papers /\ Summary(<<"summary", i>>)
  /\ \A n \in 1..MaxReports : <<"report", n>> \in Papers /\ ~Summary(<<"report", n>>)
  /\ \A p \in Papers : \/ Summary(p) /\ \E i \in 1..MaxEpisodes : p = <<"summary", i>>
                       \/ ~Summary(p) /\ \E n \in 1..MaxReports : p = <<"report", n>>
  /\ NoPaper \notin Papers
BY DEF Papers, Summary, NoPaper

LEMMA BoundsNamed ==
  /\ MaxEpisodes \in Nat \ {0} /\ MaxReports \in Nat /\ MaxFailures \in Nat
  /\ Levels \subseteq Nat /\ NoEpisode \in Copies /\ NoEpisode \notin Rows
  /\ Writers = {"postmortem", "daily"}
<1>1. MaxEpisodes \in Nat \ {0} /\ MaxReports \in Nat /\ MaxFailures \in Nat
  BY EpisodeAssumption DEF EpisodeAssumption
<1>2. Levels \subseteq Nat
  BY EpisodeAssumption DEF EpisodeAssumption
<1>3. NoEpisode \in Copies /\ NoEpisode \notin Rows
  <2>1. NoEpisode.status \notin {"open", "closed", "summarized"}
    BY DEF NoEpisode
  <2>2. \A row \in Rows : row.status \in {"open", "closed", "summarized"}
    BY DEF Rows
  <2> QED BY <2>1, <2>2 DEF Copies
<1> QED BY <1>1, <1>2, <1>3 DEF Writers

LEMMA EpisodeInitTyped == EpisodeInit => EpisodeTyped
<1>1. HAVE EpisodeInit
<1>2. Away \in [at : {"away", "read", "stored", "listed"}, previous : Nat, level : Nat,
                open : Seq(Copies)]
  BY DEF Away
<1>3. Resting \in [at : Steps \cup {"resting"}, paper : Papers \cup {NoPaper},
                   copy : Copies, todo : SUBSET Sessions]
  BY DEF Resting, Copies
<1>4. inbox \in [Sessions -> [Papers -> Nat]]
  BY <1>1 DEF EpisodeInit
<1>5. EpisodeTypeOK
  <2>1. handler = [h \in Handlers |-> Away] /\ writer = [w \in Writers |-> Resting]
    BY <1>1 DEF EpisodeInit
  <2>2. /\ episodes = <<>> /\ summaries = {} /\ level = 0 /\ failures = 0 /\ reports = 0
        /\ ran = FALSE /\ overlapped = FALSE
    BY <1>1 DEF EpisodeInit
  <2>3. session \in [Sessions -> {"absent", "saved", "reported", "ready", "lost"}]
    BY <1>1 DEF EpisodeInit
  <2>4. episodes \in Seq(Rows) /\ Len(episodes) <= MaxEpisodes /\ reports \in 0..MaxReports
    BY <2>2, BoundsNamed
  <2> HIDE DEF EpisodeInit
  <2> QED BY <1>2, <1>3, <1>4, <2>1, <2>2, <2>3, <2>4 DEF EpisodeTypeOK
<1>6. WritersOK
  BY <1>1, BoundsNamed
     DEF EpisodeInit, Resting, WritersOK, Resumed, SummaryInHand, ReportInHand
<1> QED BY <1>5, <1>6 DEF EpisodeTyped

\* The handlers leave the papers alone, and the episodes' number only grows.
LEMMA HandledTyped ==
  ASSUME EpisodeTyped, UNCHANGED <<paperVars, sessionVars>>,
         level' \in Nat, failures' \in Nat, overlapped' \in BOOLEAN,
         handler' \in [Handlers -> [at : {"away", "read", "stored", "listed"},
                                    previous : Nat, level : Nat, open : Seq(Copies)]],
         episodes' \in Seq(Rows), Len(episodes') <= MaxEpisodes,
         DOMAIN episodes \subseteq DOMAIN episodes'
  PROVE  EpisodeTyped'
<1>1. EpisodeTypeOK'
  BY DEF EpisodeTyped, EpisodeTypeOK, paperVars, sessionVars
<1>2. WritersOK'
  BY DEF EpisodeTyped, WritersOK, Resumed, SummaryInHand, ReportInHand, paperVars, sessionVars
<1> QED BY <1>1, <1>2 DEF EpisodeTyped

LEMMA HandlerTyped ==
  ASSUME EpisodeTyped, NEW h \in Handlers,
         NEW next \in [at : {"away", "read", "stored", "listed"}, previous : Nat,
                       level : Nat, open : Seq(Copies)],
         Handles(h, next)
  PROVE  handler' \in [Handlers -> [at : {"away", "read", "stored", "listed"},
                                    previous : Nat, level : Nat, open : Seq(Copies)]]
BY DEF EpisodeTyped, EpisodeTypeOK, Handles

LEMMA IngestTyped ==
  ASSUME EpisodeTyped, NEW h \in Handlers,
         read_level(h) \/ store_level(h) \/ list_open(h) \/ ingest_fails(h)
  PROVE  EpisodeTyped'
<1>1. /\ level \in Nat /\ failures \in Nat /\ episodes \in Seq(Rows)
      /\ Len(episodes) <= MaxEpisodes /\ overlapped \in BOOLEAN
  BY DEF EpisodeTyped, EpisodeTypeOK
<1>2. PICK c \in [at : {"away", "read", "stored", "listed"}, previous : Nat,
                  level : Nat, open : Seq(Copies)] : c = handler[h]
  BY DEF EpisodeTyped, EpisodeTypeOK
<1>3. CASE read_level(h)
  <2>1. PICK l \in Levels : Handles(h, [at |-> "read", previous |-> level, level |-> l,
                                        open |-> <<>>])
    BY <1>3 DEF read_level
  <2>2. l \in Nat
    BY BoundsNamed
  <2>3. [at |-> "read", previous |-> level, level |-> l, open |-> <<>>]
          \in [at : {"away", "read", "stored", "listed"}, previous : Nat, level : Nat,
               open : Seq(Copies)]
    BY <1>1, <2>2
  <2>4. overlapped' \in BOOLEAN /\ UNCHANGED <<level, episodes, failures, paperVars, sessionVars>>
    BY <1>3 DEF read_level
  <2> QED BY <1>1, <2>1, <2>3, <2>4, HandlerTyped, HandledTyped
<1>4. CASE store_level(h)
  <2>1. Handles(h, [c EXCEPT !.at = "stored"]) /\ level' = c.level
    BY <1>2, <1>4 DEF store_level
  <2>2. [c EXCEPT !.at = "stored"] \in [at : {"away", "read", "stored", "listed"},
                                        previous : Nat, level : Nat, open : Seq(Copies)]
    BY <1>2
  <2>3. UNCHANGED <<overlapped, episodes, failures, paperVars, sessionVars>>
    BY <1>4 DEF store_level
  <2> QED BY <1>1, <1>2, <2>1, <2>2, <2>3, HandlerTyped, HandledTyped
<1>5. CASE list_open(h)
  <2> DEFINE copies == [i \in DOMAIN episodes |-> IF i \in Open THEN episodes[i] ELSE NoEpisode]
  <2>1. Handles(h, [c EXCEPT !.at = "listed", !.open = copies])
    BY <1>2, <1>5 DEF list_open
  <2>2. PICK n \in Nat : n = Len(episodes) /\ DOMAIN episodes = 1..n
    BY <1>1
  <2>3. \A i \in 1..n : copies[i] \in Copies
    BY <1>1, <2>2, BoundsNamed DEF Copies
  <2>4. copies \in Seq(Copies)
    BY <2>2, <2>3
  <2> HIDE DEF copies
  <2>5. [c EXCEPT !.at = "listed", !.open = copies]
          \in [at : {"away", "read", "stored", "listed"}, previous : Nat, level : Nat,
               open : Seq(Copies)]
    BY <1>2, <2>4
  <2>6. UNCHANGED <<level, overlapped, episodes, failures, paperVars, sessionVars>>
    BY <1>5 DEF list_open
  <2> QED BY <1>1, <2>1, <2>5, <2>6, HandlerTyped, HandledTyped
<1>6. CASE ingest_fails(h)
  <2>1. Handles(h, Away) /\ failures' = failures + 1
    BY <1>6 DEF ingest_fails
  <2>2. Away \in [at : {"away", "read", "stored", "listed"}, previous : Nat, level : Nat,
                  open : Seq(Copies)]
    BY DEF Away
  <2>3. UNCHANGED <<level, overlapped, episodes, paperVars, sessionVars>>
    BY <1>6 DEF ingest_fails
  <2> QED BY <1>1, <2>1, <2>2, <2>3, HandlerTyped, HandledTyped
<1> QED BY <1>3, <1>4, <1>5, <1>6

\* A set of positions has a first one and a last one.
LEMMA FirstOf ==
  ASSUME NEW T \in SUBSET Nat, T # {}
  PROVE  \E m \in T : \A k \in T : m <= k
<1>1. PICK R : R = OpToRel(<, Nat) /\ IsWellFoundedOn(R, Nat)
  BY NatLessThanWellFounded
<1>2. PICK m \in T : \A k \in T : ~(<<k, m>> \in R)
  BY <1>1, WFMin
<1>3. \A k \in T : k < m => <<k, m>> \in R
  BY <1>1 DEF OpToRel
<1>4. \A k \in T : ~(k < m) /\ k \in Nat /\ m \in Nat
  BY <1>2, <1>3
<1> QED BY <1>4

LEMMA LastOf ==
  ASSUME NEW n \in Nat, NEW S \in SUBSET (1..n), S # {}
  PROVE  \E m \in S : \A k \in S : k <= m
<1>1. PICK T \in SUBSET Nat : T = {n - i : i \in S}
  <2>1. \A i \in S : n - i \in Nat
    OBVIOUS
  <2> QED BY <2>1
<1>2. T # {}
  BY <1>1
<1>3. PICK m \in T : \A k \in T : m <= k
  BY <1>2, FirstOf
<1>4. PICK x \in S : m = n - x
  BY <1>1
<1>5. \A i \in S : i <= x
  <2>1. TAKE i \in S
  <2>2. n - x <= n - i
    BY <1>1, <1>3, <1>4
  <2> QED BY <2>2
<1> QED BY <1>5

\* Of the copies a handler holds, the episodes that were open.
Seen(copies) == {i \in DOMAIN copies : copies[i] # NoEpisode}
Newest(copies) == CHOOSE i \in Seen(copies) : \A k \in Seen(copies) : k <= i

LEMMA NewestSeen ==
  ASSUME NEW copies \in Seq(Copies), Seen(copies) # {}
  PROVE  Newest(copies) \in Seen(copies)
<1>1. PICK n \in Nat : n = Len(copies) /\ DOMAIN copies = 1..n
  OBVIOUS
<1>2. Seen(copies) \in SUBSET (1..n)
  BY <1>1 DEF Seen
<1>3. \E m \in Seen(copies) : \A k \in Seen(copies) : k <= m
  BY <1>2, LastOf
<1> QED BY <1>3 DEF Newest

LEMMA RowsOfCopies ==
  ASSUME NEW copies \in Seq(Copies), NEW i \in Seen(copies)
  PROVE  copies[i] \in Rows
BY DEF Seen, Copies

LEMMA SyncTyped ==
  ASSUME EpisodeTyped, NEW h \in Handlers, sync_risk_transition(h)
  PROVE  EpisodeTyped'
<1>1. PICK c \in [at : {"away", "read", "stored", "listed"}, previous : Nat,
                  level : Nat, open : Seq(Copies)] : c = handler[h]
  BY DEF EpisodeTyped, EpisodeTypeOK
<1>2. PICK n \in Nat : n = Len(episodes) /\ DOMAIN episodes = 1..n /\ n <= MaxEpisodes
  BY DEF EpisodeTyped, EpisodeTypeOK
<1>3. episodes \in Seq(Rows) /\ \A i \in 1..n : episodes[i] \in Rows
  BY <1>2 DEF EpisodeTyped, EpisodeTypeOK
<1>4. PICK m : m = Newest(c.open)
  OBVIOUS
<1>5. PICK seen : seen = Seen(c.open)
  OBVIOUS
<1>6. /\ c.level > 0 /\ seen = {} => n < MaxEpisodes
      /\ episodes' =
           CASE c.level > 0 /\ seen = {} -> Append(episodes, [status |-> "open", peak |-> c.level])
             [] c.level > 0 /\ seen # {} ->
                  IF c.level > c.open[m].peak
                  THEN [episodes EXCEPT ![m] = [c.open[m] EXCEPT !.peak = c.level]]
                  ELSE episodes
             [] c.level = 0 /\ c.previous > 0 ->
                  [i \in DOMAIN episodes |->
                     IF i \in seen THEN [c.open[i] EXCEPT !.status = "closed"] ELSE episodes[i]]
             [] OTHER -> episodes
  BY <1>1, <1>2, <1>4, <1>5 DEF sync_risk_transition, Seen, Newest
<1>7. Handles(h, Away) /\ UNCHANGED <<level, overlapped, failures, paperVars, sessionVars>>
  BY DEF sync_risk_transition
<1>8. Away \in [at : {"away", "read", "stored", "listed"}, previous : Nat, level : Nat,
                open : Seq(Copies)]
  BY DEF Away
<1>9. episodes' \in Seq(Rows) /\ Len(episodes') <= MaxEpisodes /\ DOMAIN episodes \subseteq DOMAIN episodes'
  <2>1. CASE c.level > 0 /\ seen = {}
    <3>1. episodes' = Append(episodes, [status |-> "open", peak |-> c.level])
      BY <1>6, <2>1
    <3>2. [status |-> "open", peak |-> c.level] \in Rows
      BY <1>1 DEF Rows
    <3>3. Len(episodes') = n + 1 /\ DOMAIN episodes' = 1..(n + 1) /\ episodes' \in Seq(Rows)
      BY <3>1, <3>2, <1>2, <1>3
    <3> QED BY <3>3, <1>2, <1>6, <2>1, BoundsNamed
  <2>2. CASE c.level > 0 /\ seen # {} /\ c.level > c.open[m].peak
    <3>1. episodes' = [episodes EXCEPT ![m] = [c.open[m] EXCEPT !.peak = c.level]]
      BY <1>6, <2>2
    <3>2. c.open[m] \in Rows
      BY <1>1, <1>4, <1>5, <2>2, NewestSeen, RowsOfCopies
    <3>3. [c.open[m] EXCEPT !.peak = c.level] \in Rows
      BY <3>2, <1>1 DEF Rows
    <3>4. PICK row \in Rows : row = [c.open[m] EXCEPT !.peak = c.level]
      BY <3>3
    <3>5. episodes \in [1..n -> Rows] /\ episodes' = [episodes EXCEPT ![m] = row]
      BY <3>1, <3>4, <1>2, <1>3
    <3>6. episodes' \in [1..n -> Rows]
      BY <3>5
    <3>7. Len(episodes') = n /\ DOMAIN episodes' = 1..n /\ episodes' \in Seq(Rows)
      BY <3>6
    <3> QED BY <3>7, <1>2
  <2>3. CASE c.level = 0 /\ c.previous > 0
    <3>1. episodes' = [i \in 1..n |->
                         IF i \in seen THEN [c.open[i] EXCEPT !.status = "closed"] ELSE episodes[i]]
      BY <1>2, <1>6, <2>3
    <3>2. ASSUME NEW i \in 1..n PROVE episodes'[i] \in Rows
      <4>1. CASE i \in seen
        <5>1. c.open[i] \in Rows
          BY <4>1, <1>1, <1>5, RowsOfCopies
        <5>2. [c.open[i] EXCEPT !.status = "closed"] \in Rows
          BY <5>1 DEF Rows
        <5> QED BY <5>2, <3>1, <4>1
      <4>2. CASE i \notin seen
        BY <4>2, <3>1, <1>3
      <4> QED BY <4>1, <4>2
    <3>3. episodes' \in [1..n -> Rows]
      BY <3>1, <3>2
    <3>4. Len(episodes') = n /\ DOMAIN episodes' = 1..n /\ episodes' \in Seq(Rows)
      BY <3>3
    <3> QED BY <3>4, <1>2
  <2>4. CASE ~(c.level = 0 /\ c.previous > 0) /\ (c.level > 0 => seen # {} /\ ~(c.level > c.open[m].peak))
    <3>1. episodes' = episodes
      BY <1>1, <1>6, <2>4
    <3> QED BY <3>1, <1>2, <1>3
  <2> QED BY <2>1, <2>2, <2>3, <2>4
<1>10. level \in Nat /\ failures \in Nat /\ overlapped \in BOOLEAN
  BY DEF EpisodeTyped, EpisodeTypeOK
<1> QED BY <1>7, <1>8, <1>9, <1>10, HandlerTyped, HandledTyped

\* What the threads and the sessions do leaves the handlers' state as it was.
Notes == [at : Steps \cup {"resting"}, paper : Papers \cup {NoPaper}, copy : Copies,
          todo : SUBSET Sessions]

LEMMA NotesTyped ==
  ASSUME EpisodeTyped, NEW w \in Writers, NEW next \in Notes, Writes(w, next)
  PROVE  writer' \in [Writers -> Notes]
BY DEF EpisodeTyped, EpisodeTypeOK, Writes, Notes

LEMMA RestingNoted == Resting \in Notes
BY BoundsNamed DEF Resting, Notes

LEMMA PapersTyped ==
  ASSUME EpisodeTyped, UNCHANGED <<level, handler, overlapped, episodes>>,
         failures' \in Nat, ran' \in BOOLEAN, reports' \in 0..MaxReports,
         summaries' \subseteq DOMAIN episodes, writer' \in [Writers -> Notes],
         session' \in [Sessions -> {"absent", "saved", "reported", "ready", "lost"}],
         inbox' \in [Sessions -> [Papers -> Nat]]
  PROVE  EpisodeTypeOK'
BY DEF EpisodeTyped, EpisodeTypeOK, Notes

LEMMA TakeTyped ==
  ASSUME EpisodeTyped, take_episode
  PROVE  EpisodeTyped'
<1>1. PICK n \in Nat : n = Len(episodes) /\ DOMAIN episodes = 1..n /\ n <= MaxEpisodes
  BY DEF EpisodeTyped, EpisodeTypeOK
<1>2. episodes \in Seq(Rows) /\ \A i \in 1..n : episodes[i] \in Rows
  BY <1>1 DEF EpisodeTyped, EpisodeTypeOK
<1>3. PICK i : i = (CHOOSE j \in Pending : \A k \in Pending : j <= k)
  OBVIOUS
<1>4. i \in Pending
  <2>1. Pending \in SUBSET Nat /\ Pending # {}
    BY <1>1 DEF Pending, take_episode
  <2> QED BY <2>1, <1>3, FirstOf
<1>5. i \in 1..n /\ i \notin summaries /\ episodes[i].status = "closed" /\ episodes[i] \in Rows
  BY <1>1, <1>2, <1>4 DEF Pending
<1>6. <<"summary", i>> \in Papers
  <2>1. i \in Nat /\ i >= 1 /\ i <= MaxEpisodes
    BY ONLY <1>1, <1>5, BoundsNamed
  <2> QED BY ONLY <2>1, PapersNamed, BoundsNamed
<1>7. PICK next : next = [at |-> "summarise", paper |-> <<"summary", i>>, copy |-> episodes[i],
                          todo |-> {}]
  OBVIOUS
<1>8. next \in Notes
  BY <1>5, <1>6, <1>7 DEF Notes, Copies, Steps
<1>9. Writes("postmortem", next) /\ writer["postmortem"].at = "resting"
  BY <1>3, <1>7 DEF take_episode, Is
<1>10. UNCHANGED <<ingestVars, summaries, memories, reports, ran, missed, sessionVars, failures>>
  BY DEF take_episode
<1>11. writer' = [writer EXCEPT !["postmortem"] = next] /\ "postmortem" \in Writers
  BY <1>9, BoundsNamed DEF Writes
<1>12. EpisodeTypeOK'
  <2>1. writer' \in [Writers -> Notes]
    BY <1>8, <1>9, <1>11, NotesTyped
  <2> QED BY <2>1, <1>10, PapersTyped DEF EpisodeTyped, EpisodeTypeOK, ingestVars, sessionVars
<1>13. writer'["postmortem"] = next /\ writer'["daily"] = writer["daily"]
  BY <1>11, BoundsNamed DEF EpisodeTyped, EpisodeTypeOK
<1>14. next.at = "summarise" /\ next.paper = <<"summary", i>> /\ next.copy \in Rows
  BY <1>5, <1>7
<1>15. WritersOK'
  BY <1>1, <1>5, <1>10, <1>13, <1>14, BoundsNamed
     DEF EpisodeTyped, WritersOK, Resumed, SummaryInHand, ReportInHand, ingestVars
<1> QED BY <1>12, <1>15 DEF EpisodeTyped

\* The thread in the middle of a summary: which one, and what its notes are.
LEMMA SummaryKnown ==
  ASSUME EpisodeTyped, writer["postmortem"].at # "resting"
  PROVE  \E i \in 1..MaxEpisodes :
           /\ i \in DOMAIN episodes /\ Episode = i
           /\ writer["postmortem"].paper = <<"summary", i>> /\ writer["postmortem"].copy \in Rows
           /\ writer["postmortem"].at = "summarise" <=> i \notin summaries
           /\ writer["postmortem"].at \in {"list", "deliver"} => i \in memories
<1>1. PICK i \in DOMAIN episodes :
        /\ writer["postmortem"].paper = <<"summary", i>> /\ writer["postmortem"].copy \in Rows
        /\ writer["postmortem"].at = "summarise" <=> i \notin summaries
        /\ writer["postmortem"].at \in {"list", "deliver"} => i \in memories
  BY DEF EpisodeTyped, WritersOK, SummaryInHand
<1>2. PICK n \in Nat : n = Len(episodes) /\ DOMAIN episodes = 1..n /\ n <= MaxEpisodes
  BY DEF EpisodeTyped, EpisodeTypeOK
<1>3. i \in 1..MaxEpisodes
  BY <1>2, BoundsNamed
<1>4. Episode = i
  BY <1>1 DEF Episode
<1> QED BY <1>1, <1>3, <1>4

LEMMA SummariseTyped ==
  ASSUME EpisodeTyped, save_summary \/ settle_episode \/ save_memory
  PROVE  EpisodeTyped'
<1>1. writer["postmortem"].at \in {"summarise", "settle", "memorise"}
  BY DEF save_summary, settle_episode, save_memory, Is
<1>2. PICK i \in 1..MaxEpisodes :
        /\ i \in DOMAIN episodes /\ Episode = i
        /\ writer["postmortem"].paper = <<"summary", i>> /\ writer["postmortem"].copy \in Rows
        /\ writer["postmortem"].at = "summarise" <=> i \notin summaries
  BY <1>1, SummaryKnown
<1>3. PICK c \in Notes : c = writer["postmortem"]
  BY BoundsNamed DEF EpisodeTyped, EpisodeTypeOK, Notes
<1>4. \A step \in Steps : [c EXCEPT !.at = step] \in Notes
  BY <1>3 DEF Notes
<1>5. PICK step \in {"settle", "memorise", "list"} : Writes("postmortem", [c EXCEPT !.at = step])
  BY <1>3 DEF save_summary, settle_episode, save_memory
<1>6. writer' \in [Writers -> Notes]
  BY <1>4, <1>5, NotesTyped, BoundsNamed DEF Steps
<1>7. writer'["postmortem"] = [c EXCEPT !.at = step] /\ writer'["daily"] = writer["daily"]
  BY <1>5, BoundsNamed DEF Writes, EpisodeTyped, EpisodeTypeOK
<1>8. /\ writer'["postmortem"].at = step /\ writer'["postmortem"].paper = <<"summary", i>>
      /\ writer'["postmortem"].copy \in Rows
  BY <1>2, <1>3, <1>7 DEF Notes
<1>9. UNCHANGED <<level, handler, overlapped, reports, ran, missed, session, inbox, failures>>
  BY DEF save_summary, settle_episode, save_memory, ingestVars, sessionVars
<1>10. /\ summaries' \subseteq DOMAIN episodes /\ i \in summaries'
       /\ step = "list" => i \in memories'
  <2>1. CASE save_summary
    BY <2>1, <1>2, <1>3, <1>5, <1>7, <1>8 DEF save_summary, Writes, Is, Notes, EpisodeTyped, EpisodeTypeOK
  <2>2. CASE settle_episode
    BY <2>2, <1>2, <1>3, <1>5, <1>7, <1>8 DEF settle_episode, Writes, Is, Notes, EpisodeTyped, EpisodeTypeOK
  <2>3. CASE save_memory
    BY <2>3, <1>2 DEF save_memory, Is, EpisodeTyped, EpisodeTypeOK
  <2> QED BY <2>1, <2>2, <2>3
<1>11. DOMAIN episodes' = DOMAIN episodes /\ episodes' \in Seq(Rows) /\ Len(episodes') <= MaxEpisodes
  <2>1. PICK n \in Nat : n = Len(episodes) /\ DOMAIN episodes = 1..n /\ n <= MaxEpisodes
    BY DEF EpisodeTyped, EpisodeTypeOK
  <2>2. episodes \in Seq(Rows) /\ episodes \in [1..n -> Rows]
    BY <2>1 DEF EpisodeTyped, EpisodeTypeOK
  <2>3. CASE settle_episode
    <3>1. PICK row : row = [c.copy EXCEPT !.status = "summarized"]
      OBVIOUS
    <3>2. row \in Rows
      BY <3>1, <1>2, <1>3 DEF Rows
    <3>3. episodes' = [episodes EXCEPT ![i] = row]
      BY <2>3, <3>1, <1>2, <1>3 DEF settle_episode
    <3>4. episodes' \in [1..n -> Rows]
      BY <3>2, <3>3, <2>2
    <3>5. DOMAIN episodes' = 1..n /\ episodes' \in Seq(Rows) /\ Len(episodes') = n
      BY <3>4
    <3> QED BY <3>5, <2>1
  <2>4. CASE save_summary \/ save_memory
    BY <2>4, <2>1, <2>2 DEF save_summary, save_memory, ingestVars
  <2> QED BY <2>3, <2>4
<1>12. EpisodeTypeOK'
  BY <1>6, <1>9, <1>10, <1>11 DEF EpisodeTyped, EpisodeTypeOK, Notes
<1>13. WritersOK'
  <2>1. SummaryInHand'
    BY <1>2, <1>5, <1>8, <1>10, <1>11 DEF SummaryInHand
  <2>2. ReportInHand' /\ Resumed("daily")'
    BY <1>7, <1>9, BoundsNamed DEF EpisodeTyped, WritersOK, ReportInHand, Resumed
  <2>3. Resumed("postmortem")'
    BY <1>5, <1>8 DEF Resumed
  <2> QED BY <2>1, <2>2, <2>3, BoundsNamed DEF WritersOK
<1> QED BY <1>12, <1>13 DEF EpisodeTyped

LEMMA ReportTyped ==
  ASSUME EpisodeTyped, write_report
  PROVE  EpisodeTyped'
<1>1. /\ reports < MaxReports /\ reports' = reports + 1 /\ reports \in Nat /\ MaxReports \in Nat
      /\ writer["daily"].at = "resting"
  BY BoundsNamed DEF write_report, Is, EpisodeTyped, EpisodeTypeOK
<1>2. PICK next : next = [at |-> "list", paper |-> <<"report", reports + 1>>,
                          copy |-> NoEpisode, todo |-> {}]
  OBVIOUS
<1>3. <<"report", reports + 1>> \in Papers
  BY <1>1, PapersNamed
<1>4. next \in Notes
  BY <1>2, <1>3, BoundsNamed DEF Notes, Steps
<1>5. Writes("daily", next)
  BY <1>2 DEF write_report
<1>6. writer' \in [Writers -> Notes] /\ reports' \in 1..MaxReports
  BY <1>1, <1>4, <1>5, NotesTyped, BoundsNamed
<1>7. writer'["daily"] = next /\ writer'["postmortem"] = writer["postmortem"]
  BY <1>5, BoundsNamed DEF Writes, EpisodeTyped, EpisodeTypeOK
<1>8. UNCHANGED <<level, handler, overlapped, episodes, summaries, memories, ran, missed,
                  session, inbox, failures>>
  BY DEF write_report, ingestVars, sessionVars
<1>9. EpisodeTypeOK'
  BY <1>6, <1>8, PapersTyped DEF EpisodeTyped, EpisodeTypeOK
<1>10. next.at = "list" /\ next.paper = <<"report", reports'>>
  BY <1>1, <1>2
<1>11. WritersOK'
  BY <1>6, <1>7, <1>8, <1>10, BoundsNamed
     DEF EpisodeTyped, WritersOK, Resumed, SummaryInHand, ReportInHand
<1> QED BY <1>9, <1>11 DEF EpisodeTyped

\* A thread goes on with the paper it holds.
LEMMA CarriesOn ==
  ASSUME EpisodeTyped, NEW w \in Writers, NEW step \in {"list", "deliver"},
         NEW sessions \in SUBSET Sessions, writer[w].at \in {"list", "deliver"},
         Writes(w, [writer[w] EXCEPT !.at = step, !.todo = sessions])
  PROVE  /\ writer' \in [Writers -> Notes]
         /\ UNCHANGED <<episodes, summaries, memories, reports>> => WritersOK'
         /\ writer'[w].at = step /\ writer'[w].paper = writer[w].paper
         /\ writer'[w].todo = sessions
         /\ \A v \in Writers \ {w} : writer'[v] = writer[v]
<1>1. PICK c \in Notes : c = writer[w]
  BY DEF EpisodeTyped, EpisodeTypeOK, Notes
<1>2. PICK next : next = [c EXCEPT !.at = step, !.todo = sessions]
  OBVIOUS
<1>3. /\ next \in Notes /\ next.at = step /\ next.todo = sessions
      /\ next.paper = c.paper /\ next.copy = c.copy
  BY <1>1, <1>2 DEF Notes, Steps
<1>4. Writes(w, next)
  BY <1>1, <1>2
<1>5. writer' \in [Writers -> Notes]
  BY <1>3, <1>4, NotesTyped
<1>6. writer'[w] = next /\ \A v \in Writers \ {w} : writer'[v] = writer[v]
  BY <1>4 DEF Writes, EpisodeTyped, EpisodeTypeOK
<1>7. ASSUME UNCHANGED <<episodes, summaries, memories, reports>>
      PROVE  WritersOK'
  <2>1. \A v \in Writers : Resumed(v)'
    BY <1>3, <1>6 DEF EpisodeTyped, WritersOK, Resumed
  <2>2. ReportInHand'
    BY <1>1, <1>3, <1>6, <1>7, BoundsNamed DEF EpisodeTyped, WritersOK, ReportInHand
  <2>3. SummaryInHand'
    BY <1>1, <1>3, <1>6, <1>7, BoundsNamed DEF EpisodeTyped, WritersOK, SummaryInHand
  <2> QED BY <2>1, <2>2, <2>3 DEF WritersOK
<1> QED BY <1>1, <1>3, <1>5, <1>6, <1>7

LEMMA DeliveryTyped ==
  ASSUME EpisodeTyped, NEW w \in Writers, list_sessions(w) \/ deliver(w)
  PROVE  EpisodeTyped'
<1>1. writer[w] \in Notes
  BY DEF EpisodeTyped, EpisodeTypeOK, Notes
<1>2. CASE list_sessions(w)
  <2>1. writer[w].at = "list"
    BY <1>2 DEF list_sessions, Is
  <2>2. Writes(w, [writer[w] EXCEPT !.at = "deliver",
                     !.todo = {s \in Sessions : session[s] # "absent"}])
    BY <1>2 DEF list_sessions
  <2>3. UNCHANGED <<level, handler, overlapped, episodes, summaries, memories, reports, ran,
                    missed, session, inbox, failures>>
    BY <1>2 DEF list_sessions, ingestVars, sessionVars
  <2>4. writer' \in [Writers -> Notes] /\ WritersOK'
    BY <2>1, <2>2, <2>3, CarriesOn
  <2> QED BY <2>3, <2>4, PapersTyped DEF EpisodeTyped, EpisodeTypeOK
<1>3. CASE deliver(w)
  <2>1. PICK s \in writer[w].todo :
          /\ writer[w].at = "deliver"
          /\ inbox' = [inbox EXCEPT ![s][writer[w].paper] = @ + 1]
          /\ Writes(w, [writer[w] EXCEPT !.todo = @ \ {s}])
    BY <1>3 DEF deliver, Is
  <2>2. UNCHANGED <<level, handler, overlapped, episodes, summaries, memories, reports, ran,
                    missed, session, failures>>
    BY <1>3 DEF deliver, ingestVars
  <2>3. s \in Sessions /\ writer[w].todo \ {s} \in SUBSET Sessions
    BY <1>1, <2>1 DEF Notes
  <2>4. PICK c \in Notes : c = writer[w]
    BY <1>1
  <2>5. [c EXCEPT !.todo = @ \ {s}] = [c EXCEPT !.at = "deliver", !.todo = c.todo \ {s}]
    BY <2>1, <2>4 DEF Notes
  <2>6. writer' \in [Writers -> Notes] /\ WritersOK'
    BY <2>1, <2>2, <2>3, <2>4, <2>5, CarriesOn
  <2>7. PICK f \in [Papers -> Nat] : f = inbox[s]
    BY <2>3 DEF EpisodeTyped, EpisodeTypeOK
  <2>8. PICK p : p = writer[w].paper
    OBVIOUS
  <2>9. [f EXCEPT ![p] = @ + 1] \in [Papers -> Nat]
    <3>1. \A q \in Papers : [f EXCEPT ![p] = @ + 1][q] = IF q = p THEN f[q] + 1 ELSE f[q]
      BY <2>7
    <3>2. \A q \in Papers : [f EXCEPT ![p] = @ + 1][q] \in Nat
      BY <2>7, <3>1
    <3> QED BY <2>7, <3>2
  <2>10. inbox' = [inbox EXCEPT ![s] = [f EXCEPT ![p] = @ + 1]]
    BY <2>1, <2>3, <2>7, <2>8
  <2>11. inbox' \in [Sessions -> [Papers -> Nat]]
    BY <2>9, <2>10 DEF EpisodeTyped, EpisodeTypeOK
  <2> QED BY <2>2, <2>6, <2>11, PapersTyped DEF EpisodeTyped, EpisodeTypeOK
<1> QED BY <1>2, <1>3

LEMMA RestTyped ==
  ASSUME EpisodeTyped, NEW w \in Writers, finish(w) \/ writer_fails(w)
  PROVE  EpisodeTyped'
<1>1. Writes(w, Resting) /\ failures' \in Nat /\ ran' \in BOOLEAN
  <2>1. failures \in Nat /\ ran \in BOOLEAN
    BY DEF EpisodeTyped, EpisodeTypeOK
  <2>2. CASE finish(w)
    <3>1. (ran \/ w = "daily") \in BOOLEAN
      OBVIOUS
    <3> QED BY <2>1, <2>2, <3>1 DEF finish
  <2>3. CASE writer_fails(w)
    BY <2>1, <2>3 DEF writer_fails
  <2> QED BY <2>2, <2>3
<1>2. UNCHANGED <<level, handler, overlapped, episodes, summaries, memories, reports,
                  session, inbox>>
  BY DEF finish, writer_fails, ingestVars, sessionVars
<1>3. writer' \in [Writers -> Notes]
  BY <1>1, RestingNoted, NotesTyped
<1>4. EpisodeTypeOK'
  BY <1>1, <1>2, <1>3, PapersTyped DEF EpisodeTyped, EpisodeTypeOK
<1>5. /\ writer'[w].at = "resting" /\ writer'[w].paper = NoPaper
      /\ \A v \in Writers \ {w} : writer'[v] = writer[v]
  BY <1>1 DEF Writes, Resting, EpisodeTyped, EpisodeTypeOK
<1>6. \A v \in Writers : Resumed(v)'
  BY <1>5 DEF EpisodeTyped, WritersOK, Resumed
<1>7. ReportInHand'
  BY <1>2, <1>5, BoundsNamed DEF EpisodeTyped, WritersOK, ReportInHand
<1>8. SummaryInHand'
  BY <1>2, <1>5, BoundsNamed DEF EpisodeTyped, WritersOK, SummaryInHand
<1> QED BY <1>4, <1>6, <1>7, <1>8 DEF EpisodeTyped, WritersOK

LEMMA SessionsTyped ==
  ASSUME EpisodeTyped, NEW s \in Sessions,
         create_session(s) \/ backfill_reports(s) \/ backfill_summaries(s)
  PROVE  EpisodeTyped'
<1>1. UNCHANGED <<level, handler, overlapped, episodes, summaries, memories, reports, ran,
                  writer, missed, failures>>
  BY DEF create_session, backfill_reports, backfill_summaries, ingestVars, paperVars
<1>2. session' \in [Sessions -> {"absent", "saved", "reported", "ready", "lost"}]
  BY DEF create_session, backfill_reports, backfill_summaries, EpisodeTyped, EpisodeTypeOK
<1>3. ASSUME NEW papers, Receives(s, papers)
      PROVE  inbox' \in [Sessions -> [Papers -> Nat]]
  <2>1. PICK f \in [Papers -> Nat] : f = inbox[s]
    BY DEF EpisodeTyped, EpisodeTypeOK
  <2>2. PICK g : g = [p \in Papers |-> f[p] + IF p \in papers THEN 1 ELSE 0]
    OBVIOUS
  <2>3. g \in [Papers -> Nat]
    BY <2>1, <2>2
  <2>4. inbox' = [inbox EXCEPT ![s] = g]
    BY <1>3, <2>1, <2>2 DEF Receives, EpisodeTyped, EpisodeTypeOK
  <2> QED BY <2>3, <2>4 DEF EpisodeTyped, EpisodeTypeOK
<1>4. inbox' \in [Sessions -> [Papers -> Nat]]
  <2>1. CASE create_session(s)
    BY <2>1 DEF create_session, EpisodeTyped, EpisodeTypeOK
  <2>2. CASE backfill_reports(s)
    BY <2>2, <1>3 DEF backfill_reports
  <2>3. CASE backfill_summaries(s)
    BY <2>3, <1>3 DEF backfill_summaries
  <2> QED BY <2>1, <2>2, <2>3
<1>5. EpisodeTypeOK'
  BY <1>1, <1>2, <1>4 DEF EpisodeTyped, EpisodeTypeOK
<1>6. WritersOK'
  BY <1>1 DEF EpisodeTyped, WritersOK, Resumed, SummaryInHand, ReportInHand
<1> QED BY <1>5, <1>6 DEF EpisodeTyped

LEMMA RestartTyped ==
  ASSUME EpisodeTyped, restart_process
  PROVE  EpisodeTyped'
<1>1. /\ failures' \in Nat /\ handler' = [h \in Handlers |-> Away]
      /\ writer' = [w \in Writers |-> Resting]
  BY DEF restart_process, EpisodeTyped, EpisodeTypeOK
<1>2. UNCHANGED <<level, overlapped, episodes, summaries, memories, reports, ran, inbox>>
  BY DEF restart_process
<1>3. Away \in [at : {"away", "read", "stored", "listed"}, previous : Nat, level : Nat,
                open : Seq(Copies)]
  BY DEF Away
<1>4. session' \in [Sessions -> {"absent", "saved", "reported", "ready", "lost"}]
  BY DEF restart_process, EpisodeTyped, EpisodeTypeOK
<1>5. writer' \in [Writers -> Notes]
  BY <1>1, RestingNoted
<1>6. handler' \in [Handlers -> [at : {"away", "read", "stored", "listed"}, previous : Nat,
                                 level : Nat, open : Seq(Copies)]]
  BY <1>1, <1>3
<1>7. EpisodeTypeOK'
  BY <1>1, <1>2, <1>4, <1>5, <1>6 DEF EpisodeTyped, EpisodeTypeOK, Notes
<1>8. \A w \in Writers : writer'[w].at = "resting" /\ writer'[w].paper = NoPaper
  BY <1>1 DEF Resting
<1>9. WritersOK'
  BY <1>2, <1>8, BoundsNamed DEF WritersOK, Resumed, SummaryInHand, ReportInHand
<1> QED BY <1>7, <1>9 DEF EpisodeTyped

LEMMA EpisodeTypedStep ==
  ASSUME EpisodeTyped, [EpisodeNext]_episodeVars
  PROVE  EpisodeTyped'
<1>1. ASSUME NEW h \in Handlers,
             read_level(h) \/ store_level(h) \/ list_open(h) \/ ingest_fails(h)
      PROVE  EpisodeTyped'
  BY <1>1, IngestTyped
<1>2. ASSUME NEW h \in Handlers, sync_risk_transition(h) PROVE EpisodeTyped'
  BY <1>2, SyncTyped
<1>3. ASSUME NEW w \in Writers, \/ list_sessions(w) \/ deliver(w)
                                \/ finish(w) \/ writer_fails(w)
      PROVE  EpisodeTyped'
  BY <1>3, DeliveryTyped, RestTyped
<1>4. ASSUME NEW s \in Sessions,
             create_session(s) \/ backfill_reports(s) \/ backfill_summaries(s)
      PROVE  EpisodeTyped'
  BY <1>4, SessionsTyped
<1>5. CASE take_episode \/ save_summary \/ settle_episode \/ save_memory
  BY <1>5, TakeTyped, SummariseTyped
<1>6. CASE write_report \/ restart_process
  BY <1>6, ReportTyped, RestartTyped
<1>7. CASE UNCHANGED episodeVars
  <2>1. /\ UNCHANGED <<level, handler, episodes, overlapped, failures, session, inbox>>
        /\ UNCHANGED paperVars
    BY <1>7 DEF episodeVars, ingestVars, sessionVars
  <2> QED BY <2>1 DEF EpisodeTyped, EpisodeTypeOK, WritersOK, Resumed, SummaryInHand,
                      ReportInHand, paperVars
<1> QED BY <1>1, <1>2, <1>3, <1>4, <1>5, <1>6, <1>7, BoundsNamed
        DEF EpisodeNext, Postmortem, Daily

-----------------------------------------------------------------------------
(***************************************************************************)
(* Episodes: they follow the level.                                        *)
(***************************************************************************)
LEMMA LevelInit == EpisodeInit => LevelInvariant
<1>1. HAVE EpisodeInit
<1>2. Open = {} /\ summaries = {} /\ level = 0
  BY <1>1 DEF EpisodeInit, Open
<1>3. \A h \in Handlers : handler[h].at = "away"
  BY <1>1 DEF EpisodeInit, Away
<1> QED BY <1>2, <1>3
        DEF LevelInvariant, HandledAlone, OneOpen, SummarisedAreOver, AwayFollows, ReadFollows,
            StoredFollows, ListedFollows, Matches

\* Nothing happens to the level, the handlers and the episodes.
LEMMA LevelKept ==
  ASSUME LevelInvariant, UNCHANGED <<level, handler, episodes, overlapped>>,
         failures' = 0 => failures = 0,
         Calm' => SummarisedAreOver'
  PROVE  LevelInvariant'
<1>1. CASE ~Calm'
  BY <1>1 DEF LevelInvariant
<1>2. CASE Calm'
  <2>1. Calm
    BY <1>2 DEF Calm
  <2>2. Open' = Open
    BY DEF Open
  <2>3. HandledAlone' /\ OneOpen' /\ AwayFollows' /\ ReadFollows' /\ StoredFollows' /\ ListedFollows'
    BY <2>1, <2>2 DEF LevelInvariant, HandledAlone, OneOpen, AwayFollows, ReadFollows,
                      StoredFollows, ListedFollows, Matches
  <2> QED BY <1>2, <2>3 DEF LevelInvariant
<1> QED BY <1>1, <1>2

LEMMA LevelRead ==
  ASSUME EpisodeTyped, LevelInvariant, NEW h \in Handlers, read_level(h)
  PROVE  LevelInvariant'
<1>1. CASE ~Calm'
  BY <1>1 DEF LevelInvariant
<1>2. CASE Calm'
  <2>1. PICK l \in Levels : Handles(h, [at |-> "read", previous |-> level, level |-> l,
                                        open |-> <<>>])
    BY DEF read_level
  <2>2. Calm /\ ~overlapped'
    BY <1>2 DEF Calm, read_level
  <2>3. Busy = {} /\ UNCHANGED <<level, episodes, paperVars>>
    BY <2>2 DEF read_level
  <2>4. \A g \in Handlers : handler[g].at = "away"
    BY <2>3 DEF Busy, EpisodeTyped, EpisodeTypeOK
  <2>5. /\ handler'[h].at = "read" /\ handler'[h].previous = level
        /\ \A g \in Handlers \ {h} : handler'[g].at = "away"
    BY <2>1, <2>4 DEF Handles, EpisodeTyped, EpisodeTypeOK
  <2>6. Open' = Open
    BY <2>3 DEF Open
  <2>7. OneOpen /\ SummarisedAreOver /\ AwayFollows
    BY <2>2 DEF LevelInvariant
  <2>8. HandledAlone' /\ OneOpen' /\ ReadFollows'
    BY <2>3, <2>4, <2>5, <2>6, <2>7
       DEF HandledAlone, OneOpen, AwayFollows, ReadFollows, Matches
  <2>9. SummarisedAreOver'
    BY <2>3, <2>6, <2>7 DEF SummarisedAreOver, paperVars
  <2>10. AwayFollows' /\ StoredFollows' /\ ListedFollows'
    BY <2>5 DEF AwayFollows, StoredFollows, ListedFollows
  <2> QED BY <2>8, <2>9, <2>10 DEF LevelInvariant
<1> QED BY <1>1, <1>2

\* The handler that goes on is the only one at work.
LEMMA LevelAlone ==
  ASSUME EpisodeTyped, LevelInvariant, Calm, NEW h \in Handlers, handler[h].at # "away",
         NEW next, Handles(h, next)
  PROVE  /\ handler'[h] = next
         /\ \A g \in Handlers \ {h} : handler[g].at = "away" /\ handler'[g].at = "away"
BY DEF LevelInvariant, HandledAlone, Handles, EpisodeTyped, EpisodeTypeOK

LEMMA LevelStored ==
  ASSUME EpisodeTyped, LevelInvariant, NEW h \in Handlers, store_level(h)
  PROVE  LevelInvariant'
<1>1. CASE ~Calm'
  BY <1>1 DEF LevelInvariant
<1>2. CASE Calm'
  <2>1. Calm /\ UNCHANGED <<episodes, paperVars>> /\ level' = handler[h].level
    BY <1>2 DEF Calm, store_level
  <2>2. PICK next : next = [handler[h] EXCEPT !.at = "stored"] /\ Handles(h, next)
    BY DEF store_level
  <2>3. handler[h].at = "read"
    BY DEF store_level
  <2>4. handler'[h] = next /\ \A g \in Handlers \ {h} : handler'[g].at = "away"
    BY <2>1, <2>2, <2>3, LevelAlone
  <2>5. next.at = "stored" /\ next.level = handler[h].level /\ next.previous = handler[h].previous
    BY <2>2 DEF EpisodeTyped, EpisodeTypeOK
  <2>6. Open' = Open
    BY <2>1 DEF Open
  <2>7. OneOpen /\ SummarisedAreOver /\ ReadFollows
    BY <2>1 DEF LevelInvariant
  <2>8. HandledAlone' /\ OneOpen' /\ ReadFollows' /\ AwayFollows' /\ ListedFollows'
    BY <2>4, <2>5, <2>6, <2>7
       DEF HandledAlone, OneOpen, AwayFollows, ReadFollows, ListedFollows
  <2>9. SummarisedAreOver'
    BY <2>1, <2>6, <2>7 DEF SummarisedAreOver, paperVars
  <2>10. handler[h].previous = level /\ Matches(level)
    BY <2>3, <2>7 DEF ReadFollows
  <2>11. Matches(handler[h].previous)'
    BY <2>4, <2>5, <2>6, <2>10 DEF Matches
  <2>12. StoredFollows'
    BY <2>1, <2>4, <2>5, <2>11 DEF StoredFollows
  <2> QED BY <2>8, <2>9, <2>12 DEF LevelInvariant
<1> QED BY <1>1, <1>2

LEMMA LevelListed ==
  ASSUME EpisodeTyped, LevelInvariant, NEW h \in Handlers, list_open(h)
  PROVE  LevelInvariant'
<1>1. CASE ~Calm'
  BY <1>1 DEF LevelInvariant
<1>2. CASE Calm'
  <2>1. Calm /\ UNCHANGED <<level, episodes, paperVars>> /\ handler[h].at = "stored"
    BY <1>2 DEF Calm, list_open
  <2>2. PICK copies : copies = [i \in DOMAIN episodes |->
                                  IF i \in Open THEN episodes[i] ELSE NoEpisode]
    OBVIOUS
  <2>3. PICK next : /\ next = [handler[h] EXCEPT !.at = "listed", !.open = copies]
                    /\ Handles(h, next)
    BY <2>2 DEF list_open
  <2>4. handler'[h] = next /\ \A g \in Handlers \ {h} : handler'[g].at = "away"
    BY <2>1, <2>3, LevelAlone
  <2>5. /\ next.at = "listed" /\ next.level = handler[h].level /\ next.open = copies
        /\ next.previous = handler[h].previous
    BY <2>3 DEF EpisodeTyped, EpisodeTypeOK
  <2>6. Open' = Open
    BY <2>1 DEF Open
  <2>7. OneOpen /\ SummarisedAreOver /\ StoredFollows
    BY <2>1 DEF LevelInvariant
  <2>8. HandledAlone' /\ OneOpen' /\ ReadFollows' /\ AwayFollows'
    BY <2>4, <2>5, <2>6, <2>7
       DEF HandledAlone, OneOpen, AwayFollows, ReadFollows
  <2>9. SummarisedAreOver'
    BY <2>1, <2>6, <2>7 DEF SummarisedAreOver, paperVars
  <2>10. ListedFollows'
    BY <2>1, <2>2, <2>4, <2>5, <2>6 DEF ListedFollows
  <2>11. handler[h].level = level /\ Matches(handler[h].previous)
    BY <2>1, <2>7 DEF StoredFollows
  <2>12. Matches(handler[h].previous)'
    BY <2>4, <2>5, <2>6, <2>11 DEF Matches
  <2>13. StoredFollows'
    BY <2>1, <2>4, <2>5, <2>11, <2>12 DEF StoredFollows
  <2> QED BY <2>8, <2>9, <2>10, <2>13 DEF LevelInvariant
<1> QED BY <1>1, <1>2

LEMMA LevelSynced ==
  ASSUME EpisodeTyped, LevelInvariant, NEW h \in Handlers, sync_risk_transition(h)
  PROVE  LevelInvariant'
<1>1. CASE ~Calm'
  BY <1>1 DEF LevelInvariant
<1>2. CASE Calm'
  <2>1. Calm /\ UNCHANGED <<level, paperVars>> /\ handler[h].at = "listed" /\ Handles(h, Away)
    BY <1>2 DEF Calm, sync_risk_transition
  <2>2. handler'[h] = Away /\ \A g \in Handlers \ {h} : handler'[g].at = "away"
    BY <2>1, LevelAlone
  <2>3. \A g \in Handlers : handler'[g].at = "away"
    BY <2>2 DEF Away
  <2>4. HandledAlone' /\ ReadFollows' /\ StoredFollows' /\ ListedFollows'
    BY <2>3 DEF HandledAlone, ReadFollows, StoredFollows, ListedFollows
  <2>5. PICK n \in Nat : n = Len(episodes) /\ DOMAIN episodes = 1..n
    BY DEF EpisodeTyped, EpisodeTypeOK
  <2>6. episodes \in [1..n -> Rows] /\ episodes \in Seq(Rows)
    BY <2>5 DEF EpisodeTyped, EpisodeTypeOK
  <2>7. PICK c : c = handler[h] /\ c.level \in Nat /\ c.previous \in Nat
    BY DEF EpisodeTyped, EpisodeTypeOK
  <2>8. PICK copies : copies = c.open
    OBVIOUS
  <2>9. /\ OneOpen /\ SummarisedAreOver /\ c.level = level /\ Matches(c.previous)
        /\ DOMAIN copies = 1..n
        /\ \A i \in 1..n : copies[i] = IF i \in Open THEN episodes[i] ELSE NoEpisode
    BY <2>1, <2>5, <2>7, <2>8 DEF LevelInvariant, StoredFollows, ListedFollows
  <2>10. Open = {i \in 1..n : episodes[i].status = "open"}
    BY <2>5 DEF Open
  <2>11. Seen(copies) = Open
    <3>1. \A i \in 1..n : episodes[i] # NoEpisode
      BY <2>6, BoundsNamed
    <3> QED BY <3>1, <2>9, <2>10 DEF Seen
  <2>12. PICK m : m = Newest(copies)
    OBVIOUS
  <2>13. Open # {} => m \in Open /\ Open = {m} /\ copies[m] = episodes[m]
    <3>1. HAVE Open # {}
    <3>2. PICK k \in Open : Open = {k}
      BY <3>1, <2>9 DEF OneOpen
    <3>3. \E i \in Seen(copies) : \A j \in Seen(copies) : j <= i
      BY <3>2, <2>10, <2>11
    <3>4. m \in Seen(copies)
      BY <3>3, <2>12 DEF Newest
    <3> QED BY <3>2, <3>4, <2>9, <2>10, <2>11
  <2>14. episodes' =
           CASE level > 0 /\ Open = {} -> Append(episodes, [status |-> "open", peak |-> level])
             [] level > 0 /\ Open # {} ->
                  IF level > copies[m].peak
                  THEN [episodes EXCEPT ![m] = [copies[m] EXCEPT !.peak = level]]
                  ELSE episodes
             [] level = 0 /\ c.previous > 0 ->
                  [i \in DOMAIN episodes |->
                     IF i \in Open THEN [copies[i] EXCEPT !.status = "closed"] ELSE episodes[i]]
             [] OTHER -> episodes
    <3>1. /\ Open = {i \in DOMAIN copies : copies[i] # NoEpisode}
          /\ m = CHOOSE i \in Open : \A k \in Open : k <= i
      BY <2>11, <2>12 DEF Seen, Newest
    <3> QED BY <3>1, <2>7, <2>8, <2>9 DEF sync_risk_transition
  <2>15. level \in Nat /\ level' = level
    BY <2>1 DEF EpisodeTyped, EpisodeTypeOK
  <2>16. summaries' = summaries /\ summaries \subseteq 1..n /\ writer' = writer
    BY <2>1, <2>5 DEF paperVars, EpisodeTyped, EpisodeTypeOK
  <2>17. writer["postmortem"].at \in {"summarise", "settle"} =>
           \A i : writer["postmortem"].paper = <<"summary", i>> => i \in 1..n
    BY <2>5, SummaryKnown
  <2> DEFINE InStep == /\ \A j, k \in Open' : j = k
                       /\ level > 0 <=> Open' # {}
                       /\ \A i \in Open' : level <= episodes'[i].peak
                       /\ Open' \subseteq Open \cup {n + 1}
  <2>18. InStep
    <3>1. CASE level > 0 /\ Open = {}
      <4>1. PICK row : row = [status |-> "open", peak |-> level]
        OBVIOUS
      <4>2. row.status = "open" /\ row.peak = level /\ row \in Rows
        BY <4>1, <2>15 DEF Rows
      <4>3. episodes' = Append(episodes, row)
        BY <4>1, <3>1, <2>14
      <4>4. /\ DOMAIN episodes' = 1..(n + 1) /\ episodes'[n + 1] = row
            /\ \A i \in 1..n : episodes'[i] = episodes[i]
        BY <4>2, <4>3, <2>5, <2>6
      <4>5. \A i \in 1..n : episodes'[i].status # "open"
        BY <4>4, <3>1, <2>10
      <4>6. Open' = {n + 1}
        BY <4>2, <4>4, <4>5, <2>5 DEF Open
      <4> QED BY <4>2, <4>4, <4>6, <3>1, <2>15
    <3>2. CASE level > 0 /\ Open # {} /\ level > copies[m].peak
      <4>1. PICK row : row = [copies[m] EXCEPT !.peak = level]
        OBVIOUS
      <4>2. row.status = "open" /\ row.peak = level
        BY <4>1, <3>2, <2>6, <2>10, <2>13 DEF Rows
      <4>3. episodes' = [episodes EXCEPT ![m] = row]
        BY <4>1, <3>2, <2>14
      <4>4. /\ DOMAIN episodes' = 1..n /\ episodes'[m] = row /\ m \in 1..n
            /\ \A i \in (1..n) \ {m} : episodes'[i] = episodes[i]
        BY <4>3, <3>2, <2>6, <2>10, <2>13
      <4>5. Open' = {m}
        BY <4>2, <4>4, <3>2, <2>10, <2>13 DEF Open
      <4> QED BY <4>2, <4>4, <4>5, <3>2, <2>13, <2>15
    <3>3. CASE level > 0 /\ Open # {} /\ ~(level > copies[m].peak)
      <4>1. episodes' = episodes
        BY <3>3, <2>14
      <4>2. Open' = Open /\ episodes[m].peak \in Nat
        BY <4>1, <3>3, <2>6, <2>10, <2>13 DEF Open, Rows
      <4> QED BY <4>1, <4>2, <3>3, <2>13, <2>15
    <3>4. CASE level = 0 /\ c.previous > 0
      <4>1. episodes' = [i \in 1..n |->
                           IF i \in Open THEN [copies[i] EXCEPT !.status = "closed"]
                           ELSE episodes[i]]
        BY <3>4, <2>5, <2>14
      <4>2. ASSUME NEW i \in 1..n PROVE episodes'[i].status # "open"
        <5>1. CASE i \in Open
          <6>1. episodes'[i] = [episodes[i] EXCEPT !.status = "closed"] /\ episodes[i] \in Rows
            BY <5>1, <4>1, <2>6, <2>9
          <6> QED BY <6>1 DEF Rows
        <5>2. CASE i \notin Open
          BY <5>2, <4>1, <2>10
        <5> QED BY <5>1, <5>2
      <4>3. Open' = {}
        BY <4>1, <4>2 DEF Open
      <4> QED BY <4>3, <3>4
    <3>5. CASE level = 0 /\ ~(c.previous > 0)
      <4>1. episodes' = episodes
        BY <3>5, <2>14
      <4>2. Open' = Open /\ Open = {}
        BY <4>1, <3>5, <2>9 DEF Open, Matches
      <4> QED BY <4>2, <3>5
    <3> QED BY <3>1, <3>2, <3>3, <3>4, <3>5, <2>15
  <2>19. OneOpen' /\ AwayFollows'
    BY <2>15, <2>18 DEF OneOpen, AwayFollows, Matches
  <2>20. SummarisedAreOver'
    <3>1. \A i \in Open' : i \in Open \/ i \notin 1..n
      BY <2>5, <2>18
    <3>2. \A i \in summaries : i \notin Open'
      BY <3>1, <2>9, <2>16 DEF SummarisedAreOver
    <3>3. writer["postmortem"].at \in {"summarise", "settle"} =>
            \A i \in Open' : writer["postmortem"].paper # <<"summary", i>>
      BY <3>1, <2>9, <2>17 DEF SummarisedAreOver
    <3> QED BY <3>2, <3>3, <2>16 DEF SummarisedAreOver
  <2> QED BY <2>4, <2>19, <2>20 DEF LevelInvariant
<1> QED BY <1>1, <1>2

LEMMA LevelPapers ==
  ASSUME EpisodeTyped, LevelInvariant, take_episode \/ save_summary \/ save_memory
  PROVE  LevelInvariant'
<1>1. UNCHANGED <<level, handler, episodes, overlapped, failures>>
  BY DEF take_episode, save_summary, save_memory, ingestVars
<1>2. Open' = Open
  BY <1>1 DEF Open
<1>3. ASSUME Calm' PROVE SummarisedAreOver'
  <2>1. SummarisedAreOver
    BY <1>1, <1>3 DEF Calm, LevelInvariant
  <2>2. CASE take_episode
    <3>1. PICK i : i = (CHOOSE j \in Pending : \A k \in Pending : j <= k)
      OBVIOUS
    <3>2. i \in Pending
      <4>1. PICK n \in Nat : DOMAIN episodes = 1..n
        BY DEF EpisodeTyped, EpisodeTypeOK
      <4>2. Pending \in SUBSET Nat /\ Pending # {}
        BY <2>2, <4>1 DEF Pending, take_episode
      <4> QED BY <4>2, <3>1, FirstOf
    <3>3. i \notin Open
      BY <3>2 DEF Pending, Open
    <3>4. writer'["postmortem"].paper = <<"summary", i>>
      BY <2>2, <3>1, BoundsNamed DEF take_episode, Writes, EpisodeTyped, EpisodeTypeOK
    <3>5. summaries' = summaries
      BY <2>2 DEF take_episode
    <3>6. \A k \in Open : <<"summary", i>> # <<"summary", k>>
      BY <3>3
    <3> QED BY <1>2, <2>1, <3>4, <3>5, <3>6 DEF SummarisedAreOver
  <2>3. CASE save_summary
    <3>1. /\ writer["postmortem"].at = "summarise" /\ summaries' = summaries \cup {Episode}
          /\ Writes("postmortem", [writer["postmortem"] EXCEPT !.at = "settle"])
      BY <2>3 DEF save_summary, Is
    <3>2. PICK i \in 1..MaxEpisodes : Episode = i /\ writer["postmortem"].paper = <<"summary", i>>
      BY <3>1, SummaryKnown
    <3>3. i \notin Open
      BY <2>1, <3>1, <3>2 DEF SummarisedAreOver
    <3>4. writer'["postmortem"].paper = <<"summary", i>>
      BY <3>1, <3>2, BoundsNamed DEF Writes, EpisodeTyped, EpisodeTypeOK
    <3>5. \A k \in Open : <<"summary", i>> # <<"summary", k>>
      BY <3>3
    <3> QED BY <1>2, <2>1, <3>1, <3>2, <3>3, <3>4, <3>5 DEF SummarisedAreOver
  <2>4. CASE save_memory
    <3>1. /\ Writes("postmortem", [writer["postmortem"] EXCEPT !.at = "list"])
          /\ summaries' = summaries
      BY <2>4 DEF save_memory
    <3>2. writer'["postmortem"].at = "list"
      BY <3>1, BoundsNamed DEF Writes, EpisodeTyped, EpisodeTypeOK
    <3> QED BY <1>2, <2>1, <3>1, <3>2 DEF SummarisedAreOver
  <2> QED BY <2>2, <2>3, <2>4
<1> QED BY <1>1, <1>3, LevelKept

\* settle_episode writes back a copy, with the status of one that is over.
LEMMA LevelSettled ==
  ASSUME EpisodeTyped, LevelInvariant, settle_episode
  PROVE  LevelInvariant'
<1>1. CASE ~Calm'
  BY <1>1 DEF LevelInvariant
<1>2. CASE Calm'
  <2>1. UNCHANGED <<level, handler, overlapped, summaries, failures>> /\ Calm
    BY <1>2 DEF settle_episode, Calm
  <2>2. writer["postmortem"].at = "settle"
    BY DEF settle_episode, Is
  <2>3. PICK i \in 1..MaxEpisodes :
          /\ i \in DOMAIN episodes /\ Episode = i
          /\ writer["postmortem"].paper = <<"summary", i>> /\ writer["postmortem"].copy \in Rows
    BY <2>2, SummaryKnown
  <2>4. PICK n \in Nat : n = Len(episodes) /\ DOMAIN episodes = 1..n
    BY DEF EpisodeTyped, EpisodeTypeOK
  <2>5. PICK row : row = [writer["postmortem"].copy EXCEPT !.status = "summarized"]
    OBVIOUS
  <2>6. row.status = "summarized"
    BY <2>3, <2>5 DEF Rows
  <2>7. episodes' = [episodes EXCEPT ![i] = row]
    BY <2>3, <2>5 DEF settle_episode
  <2>8. /\ DOMAIN episodes' = 1..n /\ i \in 1..n /\ episodes'[i] = row
        /\ \A k \in (1..n) \ {i} : episodes'[k] = episodes[k]
    BY <2>3, <2>4, <2>7 DEF EpisodeTyped, EpisodeTypeOK
  <2>9. /\ HandledAlone /\ OneOpen /\ SummarisedAreOver /\ AwayFollows /\ ReadFollows
        /\ StoredFollows /\ ListedFollows
    BY <2>1 DEF LevelInvariant
  <2>10. i \notin Open
    BY <2>2, <2>3, <2>9 DEF SummarisedAreOver
  <2>11. Open' = Open /\ \A k \in Open : episodes'[k] = episodes[k]
    BY <2>4, <2>6, <2>8, <2>10 DEF Open
  <2>12. HandledAlone' /\ OneOpen' /\ AwayFollows' /\ ReadFollows' /\ StoredFollows'
    BY <2>1, <2>9, <2>11 DEF HandledAlone, OneOpen, AwayFollows, ReadFollows, StoredFollows, Matches
  <2>13. ListedFollows'
    BY <2>1, <2>4, <2>8, <2>9, <2>10, <2>11 DEF ListedFollows
  <2>14. writer'["postmortem"].at = "memorise"
    BY BoundsNamed DEF settle_episode, Writes, EpisodeTyped, EpisodeTypeOK
  <2>15. SummarisedAreOver'
    BY <2>1, <2>9, <2>11, <2>14 DEF SummarisedAreOver
  <2> QED BY <2>12, <2>13, <2>15 DEF LevelInvariant
<1> QED BY <1>1, <1>2

\* The other steps of the threads and the sessions.
LEMMA LevelLeft ==
  ASSUME EpisodeTyped, LevelInvariant,
         UNCHANGED <<level, handler, episodes, overlapped, summaries, failures>>,
         \/ writer'["postmortem"] = writer["postmortem"]
         \/ writer'["postmortem"].at \notin {"summarise", "settle"}
  PROVE  LevelInvariant'
<1>1. ASSUME Calm' PROVE SummarisedAreOver'
  <2>1. SummarisedAreOver /\ Open' = Open
    BY <1>1 DEF Calm, LevelInvariant, Open
  <2> QED BY <2>1 DEF SummarisedAreOver
<1> QED BY <1>1, LevelKept

LEMMA LevelStep ==
  ASSUME EpisodeTyped, LevelInvariant, [EpisodeNext]_episodeVars
  PROVE  LevelInvariant'
<1>1. ASSUME NEW h \in Handlers, read_level(h) \/ store_level(h) \/ list_open(h)
                                   \/ sync_risk_transition(h)
      PROVE  LevelInvariant'
  BY <1>1, LevelRead, LevelStored, LevelListed, LevelSynced
<1>2. ASSUME failures' = failures + 1 PROVE LevelInvariant'
  BY <1>2 DEF LevelInvariant, Calm, EpisodeTyped, EpisodeTypeOK
<1>3. CASE (\E h \in Handlers : ingest_fails(h)) \/ (\E w \in Writers : writer_fails(w))
             \/ restart_process
  BY <1>2, <1>3 DEF ingest_fails, writer_fails, restart_process
<1>4. CASE take_episode \/ save_summary \/ save_memory \/ settle_episode
  BY <1>4, LevelPapers, LevelSettled
<1>5. CASE write_report
  <2>1. UNCHANGED <<level, handler, episodes, overlapped, summaries, failures>>
    BY <1>5 DEF write_report, ingestVars
  <2>2. writer'["postmortem"] = writer["postmortem"]
    BY <1>5, BoundsNamed DEF write_report, Writes, EpisodeTyped, EpisodeTypeOK
  <2> QED BY <2>1, <2>2, LevelLeft
<1>6. ASSUME NEW w \in Writers, list_sessions(w) \/ deliver(w) \/ finish(w)
      PROVE  LevelInvariant'
  <2>1. UNCHANGED <<level, handler, episodes, overlapped, summaries, failures>>
    BY <1>6 DEF list_sessions, deliver, finish, ingestVars
  <2>2. PICK next : Writes(w, next) /\ next.at \notin {"summarise", "settle"}
    <3>1. CASE list_sessions(w)
      <4>1. PICK next : /\ next = [writer[w] EXCEPT !.at = "deliver",
                                     !.todo = {s \in Sessions : session[s] # "absent"}]
                        /\ Writes(w, next)
        BY <3>1 DEF list_sessions
      <4>2. next.at = "deliver"
        BY <4>1 DEF EpisodeTyped, EpisodeTypeOK
      <4> QED BY <4>1, <4>2
    <3>2. CASE deliver(w)
      <4>1. PICK s, next : next = [writer[w] EXCEPT !.todo = @ \ {s}] /\ Writes(w, next)
        BY <3>2 DEF deliver
      <4>2. next.at = writer[w].at /\ writer[w].at = "deliver"
        BY <3>2, <4>1 DEF deliver, Is, EpisodeTyped, EpisodeTypeOK
      <4> QED BY <4>1, <4>2
    <3>3. CASE finish(w)
      BY <3>3 DEF finish, Resting
    <3> QED BY <1>6, <3>1, <3>2, <3>3
  <2>3. \/ writer'["postmortem"] = writer["postmortem"]
        \/ writer'["postmortem"].at \notin {"summarise", "settle"}
    BY <2>2, BoundsNamed DEF Writes, EpisodeTyped, EpisodeTypeOK
  <2> QED BY <2>1, <2>3, LevelLeft
<1>7. ASSUME NEW s \in Sessions,
             create_session(s) \/ backfill_reports(s) \/ backfill_summaries(s)
      PROVE  LevelInvariant'
  BY <1>7, LevelLeft
     DEF create_session, backfill_reports, backfill_summaries, ingestVars, paperVars
<1>8. CASE UNCHANGED episodeVars
  BY <1>8, LevelLeft DEF episodeVars, ingestVars, paperVars
<1> QED BY <1>1, <1>3, <1>4, <1>5, <1>6, <1>7, <1>8, BoundsNamed
        DEF EpisodeNext, Postmortem, Daily

-----------------------------------------------------------------------------
(***************************************************************************)
(* Papers: every session hears of them.                                    *)
(***************************************************************************)
LEMMA ToldInit == EpisodeInit => ToldInvariant
<1>1. HAVE EpisodeInit
<1>2. ASSUME NEW s \in Sessions, NEW p \in Papers
      PROVE  Told(s, p)
  <2>1. inbox[s][p] = 0 /\ session[s] = "absent"
    BY <1>1 DEF EpisodeInit
  <2>2. ~Complete(s, p)
    BY <2>1 DEF Complete
  <2> QED BY <2>1, <2>2 DEF Told
<1>3. Remembered /\ OncePerDay
  BY <1>1 DEF EpisodeInit, Remembered, OncePerDay
<1> QED BY <1>2, <1>3 DEF ToldInvariant

LEMMA CountOfPaper ==
  ASSUME EpisodeTyped, NEW s \in Sessions, NEW p \in Papers
  PROVE  inbox[s][p] \in Nat
BY DEF EpisodeTyped, EpisodeTypeOK

\* A step that does not touch this paper of this session.
LEMMA ToldKept ==
  ASSUME EpisodeTyped, NEW s \in Sessions, NEW p \in Papers, Told(s, p),
         inbox'[s][p] = inbox[s][p], Stored(p)' <=> Stored(p), missed \subseteq missed',
         Backfilled(s, p) => Backfilled(s, p)', Complete(s, p)' => Complete(s, p),
         Awaited(s, p)' => Awaited(s, p),
         Awaited(s, p) => Awaited(s, p)' \/ p \in missed' \/ ~Complete(s, p)'
  PROVE  Told(s, p)'
<1>1. inbox[s][p] \in Nat
  BY CountOfPaper
<1>2. inbox'[s][p] <= (IF Backfilled(s, p)' THEN 1 ELSE 0) + (IF Awaited(s, p)' THEN 0 ELSE 1)
  BY <1>1 DEF Told
<1>3. ~Stored(p)' => inbox'[s][p] = 0
  BY DEF Told
<1>4. Stored(p)' /\ Complete(s, p)' /\ p \notin missed' => inbox'[s][p] >= 1 \/ Awaited(s, p)'
  BY DEF Told
<1> QED BY <1>2, <1>3, <1>4 DEF Told

\* The thread's notes change, nothing else of what a session is told does.
LEMMA AwaitedOf ==
  ASSUME NEW s, NEW p, NEW w \in Writers, WriterOf(p) # w,
         \A v \in Writers \ {w} : writer'[v] = writer[v]
  PROVE  Awaited(s, p)' <=> Awaited(s, p)
BY DEF Awaited, InHand, WriterOf, Writers

LEMMA WriterOfPaper ==
  ASSUME EpisodeTyped, NEW p \in Papers, NEW w \in Writers, writer[w].paper = p
  PROVE  WriterOf(p) = w
<1>1. p # NoPaper /\ writer[w].at # "resting"
  BY PapersNamed DEF EpisodeTyped, WritersOK, Resumed
<1>2. CASE w = "postmortem"
  <2>1. PICK i \in 1..MaxEpisodes : p = <<"summary", i>>
    BY <1>1, <1>2, SummaryKnown
  <2> QED BY <2>1, <1>2, PapersNamed DEF WriterOf
<1>3. CASE w = "daily"
  <2>1. PICK n \in 1..MaxReports : p = <<"report", n>>
    BY <1>1, <1>3 DEF EpisodeTyped, WritersOK, ReportInHand
  <2> QED BY <2>1, <1>3, PapersNamed DEF WriterOf
<1> QED BY <1>2, <1>3, BoundsNamed

LEMMA NotAwaited ==
  ASSUME NEW s, NEW p, writer[WriterOf(p)].paper # p
  PROVE  ~Awaited(s, p)
BY DEF Awaited, InHand

\* Writes by one thread: nothing changes for the papers the other one holds.
LEMMA NotesChange ==
  ASSUME EpisodeTyped, NEW w \in Writers, NEW next, Writes(w, next)
  PROVE  writer'[w] = next /\ \A v \in Writers \ {w} : writer'[v] = writer[v]
BY DEF Writes, EpisodeTyped, EpisodeTypeOK

LEMMA ToldIngest ==
  ASSUME EpisodeTyped, ToldInvariant, UNCHANGED <<paperVars, sessionVars>>,
         failures' = 0 => failures = 0
  PROVE  ToldInvariant'
<1>1. ASSUME NEW s \in Sessions, NEW p \in Papers
      PROVE  Told(s, p)'
  <2>1. Told(s, p)
    BY DEF ToldInvariant
  <2> QED BY <2>1 DEF Told, Stored, Backfilled, Complete, Awaited, InHand, paperVars, sessionVars
<1>2. Remembered'
  BY DEF ToldInvariant, Remembered, paperVars
<1>3. OncePerDay'
  BY DEF ToldInvariant, OncePerDay, paperVars
<1> QED BY <1>1, <1>2, <1>3 DEF ToldInvariant

LEMMA ToldTake ==
  ASSUME EpisodeTyped, ToldInvariant, take_episode
  PROVE  ToldInvariant'
<1>1. PICK i, next : /\ next = [at |-> "summarise", paper |-> <<"summary", i>>,
                                copy |-> episodes[i], todo |-> {}]
                     /\ Writes("postmortem", next)
  BY DEF take_episode
<1>2. /\ writer'["postmortem"] = next /\ next.at = "summarise"
      /\ \A v \in Writers \ {"postmortem"} : writer'[v] = writer[v]
  BY <1>1, NotesChange, BoundsNamed
<1>3. UNCHANGED <<summaries, memories, reports, ran, missed, session, inbox, failures>>
  BY DEF take_episode, sessionVars
<1>4. writer["postmortem"].at = "resting" /\ writer["postmortem"].paper = NoPaper
  BY BoundsNamed DEF take_episode, Is, EpisodeTyped, WritersOK, Resumed
<1>5. ASSUME NEW s \in Sessions, NEW p \in Papers
      PROVE  Told(s, p)'
  <2>1. Told(s, p)
    BY DEF ToldInvariant
  <2>2. Awaited(s, p)' <=> Awaited(s, p)
    <3>1. CASE WriterOf(p) = "postmortem"
      BY <3>1, <1>2, <1>4 DEF Awaited, InHand
    <3>2. CASE WriterOf(p) # "postmortem"
      BY <3>2, <1>2, AwaitedOf, BoundsNamed
    <3> QED BY <3>1, <3>2
  <2> QED BY <2>1, <2>2, <1>3, ToldKept DEF Stored, Backfilled, Complete
<1>6. Remembered'
  <2>1. \A k \in summaries : writer["postmortem"].paper # <<"summary", k>>
    BY <1>4 DEF NoPaper
  <2> QED BY <2>1, <1>3 DEF ToldInvariant, Remembered
<1>7. OncePerDay'
  BY <1>2, <1>3, BoundsNamed DEF ToldInvariant, OncePerDay
<1> QED BY <1>5, <1>6, <1>7 DEF ToldInvariant

LEMMA ToldSave ==
  ASSUME EpisodeTyped, ToldInvariant, save_summary
  PROVE  ToldInvariant'
<1>1. writer["postmortem"].at = "summarise"
  BY DEF save_summary, Is
<1>2. PICK i \in 1..MaxEpisodes :
        Episode = i /\ writer["postmortem"].paper = <<"summary", i>> /\ i \notin summaries
  BY <1>1, SummaryKnown
<1>3. PICK next : /\ next = [writer["postmortem"] EXCEPT !.at = "settle"]
                  /\ Writes("postmortem", next)
  BY DEF save_summary
<1>4. next.at = "settle" /\ next.paper = <<"summary", i>>
  BY <1>2, <1>3, BoundsNamed DEF EpisodeTyped, EpisodeTypeOK
<1>5. /\ writer'["postmortem"] = next
      /\ \A v \in Writers \ {"postmortem"} : writer'[v] = writer[v]
  BY <1>3, NotesChange, BoundsNamed
<1>6. UNCHANGED <<memories, reports, ran, missed, session, inbox, failures>>
      /\ summaries' = summaries \cup {i}
  BY <1>2 DEF save_summary, sessionVars
<1>7. PICK mine : mine = <<"summary", i>> /\ mine \in Papers /\ WriterOf(mine) = "postmortem"
                  /\ Summary(mine)
  BY PapersNamed DEF WriterOf
<1>8. ASSUME NEW s \in Sessions, NEW p \in Papers
      PROVE  Told(s, p)'
  <2>1. Told(s, p) /\ inbox[s][p] \in Nat
    BY CountOfPaper DEF ToldInvariant
  <2>2. CASE p = mine
    <3>1. inbox'[s][p] = 0
      BY <2>1, <2>2, <1>2, <1>6, <1>7 DEF Told, Stored
    <3>2. Awaited(s, p)' /\ Stored(p)'
      BY <2>2, <1>4, <1>5, <1>6, <1>7 DEF Awaited, InHand, Stored
    <3> QED BY <3>1, <3>2 DEF Told
  <2>3. CASE p # mine
    <3>1. Stored(p)' <=> Stored(p)
      <4>1. Summary(p) => \E k : p = <<"summary", k>> /\ k # i
        BY <2>3, <1>7, PapersNamed
      <4> QED BY <4>1, <1>6 DEF Stored
    <3>2. Awaited(s, p)' <=> Awaited(s, p)
      <4>1. CASE WriterOf(p) = "postmortem"
        BY <4>1, <2>3, <1>2, <1>4, <1>5, <1>7 DEF Awaited, InHand
      <4>2. CASE WriterOf(p) # "postmortem"
        BY <4>2, <1>5, AwaitedOf, BoundsNamed
      <4> QED BY <4>1, <4>2
    <3>3. UNCHANGED <<inbox, missed, session>>
      BY <1>6
    <3> QED BY <2>1, <3>1, <3>2, <3>3, ToldKept DEF Backfilled, Complete
  <2> QED BY <2>2, <2>3
<1>9. Remembered'
  BY <1>2, <1>4, <1>5, <1>6 DEF ToldInvariant, Remembered
<1>10. OncePerDay'
  BY <1>5, <1>6, BoundsNamed DEF ToldInvariant, OncePerDay
<1> QED BY <1>8, <1>9, <1>10 DEF ToldInvariant

LEMMA ToldSettle ==
  ASSUME EpisodeTyped, ToldInvariant, settle_episode \/ save_memory
  PROVE  ToldInvariant'
<1>1. writer["postmortem"].at \in {"settle", "memorise"}
  BY DEF settle_episode, save_memory, Is
<1>2. PICK next : /\ \/ next = [writer["postmortem"] EXCEPT !.at = "memorise"]
                     \/ next = [writer["postmortem"] EXCEPT !.at = "list"]
                  /\ Writes("postmortem", next)
  BY DEF settle_episode, save_memory
<1>3. next.at \in {"memorise", "list"} /\ next.paper = writer["postmortem"].paper
  BY <1>2, BoundsNamed DEF EpisodeTyped, EpisodeTypeOK
<1>4. /\ writer'["postmortem"] = next
      /\ \A v \in Writers \ {"postmortem"} : writer'[v] = writer[v]
  BY <1>2, NotesChange, BoundsNamed
<1>5. UNCHANGED <<summaries, reports, ran, missed, session, inbox, failures>>
      /\ memories \subseteq memories'
  BY DEF settle_episode, save_memory, sessionVars, ingestVars
<1>6. ASSUME NEW s \in Sessions, NEW p \in Papers
      PROVE  Told(s, p)'
  <2>1. Told(s, p)
    BY DEF ToldInvariant
  <2>2. Awaited(s, p)' <=> Awaited(s, p)
    <3>1. CASE WriterOf(p) = "postmortem"
      BY <3>1, <1>1, <1>3, <1>4 DEF Awaited, InHand
    <3>2. CASE WriterOf(p) # "postmortem"
      BY <3>2, <1>4, AwaitedOf, BoundsNamed
    <3> QED BY <3>1, <3>2
  <2> QED BY <2>1, <2>2, <1>5, ToldKept DEF Stored, Backfilled, Complete
<1>7. Remembered'
  BY <1>3, <1>4, <1>5 DEF ToldInvariant, Remembered
<1>8. OncePerDay'
  BY <1>4, <1>5, BoundsNamed DEF ToldInvariant, OncePerDay
<1> QED BY <1>6, <1>7, <1>8 DEF ToldInvariant

LEMMA ToldReport ==
  ASSUME EpisodeTyped, ToldInvariant, write_report
  PROVE  ToldInvariant'
<1>1. /\ reports \in Nat /\ reports < MaxReports /\ reports' = reports + 1 /\ ~ran
      /\ MaxReports \in Nat /\ reports + 1 \in 1..MaxReports
  BY BoundsNamed DEF write_report, EpisodeTyped, EpisodeTypeOK
<1>2. writer["daily"].at = "resting" /\ writer["daily"].paper = NoPaper
  BY BoundsNamed DEF write_report, Is, EpisodeTyped, WritersOK, Resumed
<1>3. PICK mine : mine = <<"report", reports + 1>> /\ mine \in Papers /\ ~Summary(mine)
                  /\ WriterOf(mine) = "daily"
  BY <1>1, PapersNamed DEF WriterOf
<1>4. PICK next : /\ next = [at |-> "list", paper |-> mine, copy |-> NoEpisode, todo |-> {}]
                  /\ Writes("daily", next)
  BY <1>3 DEF write_report
<1>5. /\ writer'["daily"] = next /\ next.at = "list" /\ next.paper = mine
      /\ \A v \in Writers \ {"daily"} : writer'[v] = writer[v]
  BY <1>4, NotesChange, BoundsNamed
<1>6. UNCHANGED <<summaries, memories, ran, missed, session, inbox, failures>>
  BY DEF write_report, sessionVars
<1>7. ASSUME NEW s \in Sessions, NEW p \in Papers
      PROVE  Told(s, p)'
  <2>1. Told(s, p) /\ inbox[s][p] \in Nat
    BY CountOfPaper DEF ToldInvariant
  <2>2. CASE p = mine
    <3>1. inbox'[s][p] = 0
      BY <2>1, <2>2, <1>1, <1>3, <1>6 DEF Told, Stored
    <3>2. Awaited(s, p)' /\ Stored(p)'
      BY <2>2, <1>1, <1>3, <1>5 DEF Awaited, InHand, Stored
    <3> QED BY <3>1, <3>2 DEF Told
  <2>3. CASE p # mine
    <3>1. Stored(p)' <=> Stored(p)
      <4>1. CASE Summary(p)
        BY <4>1, <1>6 DEF Stored
      <4>2. CASE ~Summary(p)
        <5>1. PICK n \in 1..MaxReports : p = <<"report", n>>
          BY <4>2, PapersNamed
        <5>2. n # reports + 1 /\ p[2] = n
          BY <5>1, <2>3, <1>3
        <5> QED BY <5>2, <4>2, <1>1 DEF Stored
      <4> QED BY <4>1, <4>2
    <3>2. Awaited(s, p)' <=> Awaited(s, p)
      <4>1. CASE WriterOf(p) = "daily"
        BY <4>1, <2>3, <1>2, <1>5 DEF Awaited, InHand
      <4>2. CASE WriterOf(p) # "daily"
        BY <4>2, <1>5, AwaitedOf, BoundsNamed
      <4> QED BY <4>1, <4>2
    <3>3. UNCHANGED <<inbox, missed, session>>
      BY <1>6
    <3> QED BY <2>1, <3>1, <3>2, <3>3, ToldKept DEF Backfilled, Complete
  <2> QED BY <2>2, <2>3
<1>8. Remembered'
  BY <1>5, <1>6, BoundsNamed DEF ToldInvariant, Remembered
<1>9. OncePerDay'
  BY <1>1, <1>2, <1>5, <1>6 DEF ToldInvariant, OncePerDay
<1> QED BY <1>7, <1>8, <1>9 DEF ToldInvariant

LEMMA ToldList ==
  ASSUME EpisodeTyped, ToldInvariant, NEW w \in Writers, list_sessions(w)
  PROVE  ToldInvariant'
<1>1. PICK next : /\ next = [writer[w] EXCEPT !.at = "deliver",
                               !.todo = {s \in Sessions : session[s] # "absent"}]
                  /\ Writes(w, next)
  BY DEF list_sessions
<1>2. /\ next.at = "deliver" /\ next.paper = writer[w].paper
      /\ next.todo = {s \in Sessions : session[s] # "absent"}
  BY <1>1 DEF EpisodeTyped, EpisodeTypeOK
<1>3. /\ writer'[w] = next /\ \A v \in Writers \ {w} : writer'[v] = writer[v]
      /\ writer[w].at = "list"
  BY <1>1, NotesChange DEF list_sessions, Is
<1>4. UNCHANGED <<summaries, memories, reports, ran, missed, session, inbox, failures>>
  BY DEF list_sessions, sessionVars
<1>5. ASSUME NEW s \in Sessions, NEW p \in Papers
      PROVE  Told(s, p)'
  <2>1. Told(s, p)
    BY DEF ToldInvariant
  <2>2. /\ Awaited(s, p)' => Awaited(s, p)
        /\ Awaited(s, p) => Awaited(s, p)' \/ ~Complete(s, p)'
    <3>1. CASE WriterOf(p) = w
      <4>1. session[s] # "absent" => (Awaited(s, p)' <=> Awaited(s, p))
        BY <3>1, <1>2, <1>3 DEF Awaited, InHand
      <4>2. session[s] = "absent" => ~Complete(s, p)'
        BY <1>4 DEF Complete
      <4>3. Awaited(s, p)' => Awaited(s, p)
        BY <3>1, <1>2, <1>3 DEF Awaited, InHand
      <4> QED BY <4>1, <4>2, <4>3
    <3>2. CASE WriterOf(p) # w
      BY <3>2, <1>3, AwaitedOf
    <3> QED BY <3>1, <3>2
  <2> QED BY <2>1, <2>2, <1>4, ToldKept DEF Stored, Backfilled, Complete
<1>6. Remembered'
  BY <1>2, <1>3, <1>4, BoundsNamed DEF ToldInvariant, Remembered
<1>7. OncePerDay'
  BY <1>2, <1>3, <1>4, BoundsNamed DEF ToldInvariant, OncePerDay
<1> QED BY <1>5, <1>6, <1>7 DEF ToldInvariant

LEMMA ToldDeliver ==
  ASSUME EpisodeTyped, ToldInvariant, NEW w \in Writers, deliver(w)
  PROVE  ToldInvariant'
<1>1. PICK t \in writer[w].todo :
        /\ writer[w].at = "deliver"
        /\ inbox' = [inbox EXCEPT ![t][writer[w].paper] = @ + 1]
        /\ Writes(w, [writer[w] EXCEPT !.todo = @ \ {t}])
  BY DEF deliver, Is
<1>2. PICK next : next = [writer[w] EXCEPT !.todo = @ \ {t}] /\ Writes(w, next)
  BY <1>1
<1>3. /\ next.at = "deliver" /\ next.paper = writer[w].paper
      /\ next.todo = writer[w].todo \ {t} /\ t \in Sessions
  BY <1>1, <1>2 DEF EpisodeTyped, EpisodeTypeOK
<1>4. writer'[w] = next /\ \A v \in Writers \ {w} : writer'[v] = writer[v]
  BY <1>2, NotesChange
<1>5. UNCHANGED <<summaries, memories, reports, ran, missed, session, failures>>
  BY DEF deliver
<1>6. PICK mine : mine = writer[w].paper
  OBVIOUS
<1>7. mine \in Papers /\ Stored(mine) /\ WriterOf(mine) = w
  <2>1. CASE w = "postmortem"
    <3>1. PICK i \in 1..MaxEpisodes : mine = <<"summary", i>> /\ i \in summaries
      BY <2>1, <1>1, <1>6, SummaryKnown
    <3> QED BY <3>1, <2>1, PapersNamed DEF Stored, WriterOf
  <2>2. CASE w = "daily"
    <3>1. reports \in 1..MaxReports /\ mine = <<"report", reports>>
      BY <2>2, <1>1, <1>6 DEF EpisodeTyped, WritersOK, ReportInHand
    <3> QED BY <3>1, <2>2, PapersNamed DEF Stored, WriterOf
  <2> QED BY <2>1, <2>2, BoundsNamed
<1>8. PICK f \in [Papers -> Nat] : f = inbox[t]
  BY <1>3 DEF EpisodeTyped, EpisodeTypeOK
<1>9. /\ inbox'[t] = [f EXCEPT ![mine] = @ + 1]
      /\ \A s \in Sessions \ {t} : inbox'[s] = inbox[s]
  BY <1>1, <1>3, <1>6, <1>8 DEF EpisodeTyped, EpisodeTypeOK
<1>10. inbox'[t][mine] = inbox[t][mine] + 1 /\ \A p \in Papers \ {mine} : inbox'[t][p] = inbox[t][p]
  BY <1>7, <1>8, <1>9
<1>11. ASSUME NEW s \in Sessions, NEW p \in Papers
      PROVE  Told(s, p)'
  <2>1. Told(s, p) /\ inbox[s][p] \in Nat
    BY CountOfPaper DEF ToldInvariant
  <2>2. CASE s = t /\ p = mine
    <3>1. Awaited(s, p) /\ ~Awaited(s, p)'
      BY <2>2, <1>1, <1>3, <1>4, <1>6, <1>7 DEF Awaited, InHand
    <3>2. /\ inbox'[s][p] = inbox[s][p] + 1 /\ Stored(p)'
          /\ Backfilled(s, p)' <=> Backfilled(s, p)
      BY <2>2, <1>5, <1>7, <1>10 DEF Stored, Backfilled
    <3>3. inbox[s][p] <= IF Backfilled(s, p) THEN 1 ELSE 0
      BY <2>1, <3>1 DEF Told
    <3>4. inbox'[s][p] <= (IF Backfilled(s, p)' THEN 1 ELSE 0) + (IF Awaited(s, p)' THEN 0 ELSE 1)
      BY <2>1, <3>1, <3>2, <3>3
    <3> QED BY <2>1, <3>2, <3>4 DEF Told
  <2>3. CASE ~(s = t /\ p = mine)
    <3>1. inbox'[s][p] = inbox[s][p]
      BY <2>3, <1>9, <1>10
    <3>2. Awaited(s, p)' <=> Awaited(s, p)
      <4>1. CASE WriterOf(p) = w
        BY <4>1, <2>3, <1>1, <1>3, <1>4, <1>6 DEF Awaited, InHand
      <4>2. CASE WriterOf(p) # w
        BY <4>2, <1>4, AwaitedOf
      <4> QED BY <4>1, <4>2
    <3> QED BY <2>1, <3>1, <3>2, <1>5, ToldKept DEF Stored, Backfilled, Complete
  <2> QED BY <2>2, <2>3
<1>12. Remembered'
  BY <1>3, <1>4, <1>5, BoundsNamed DEF ToldInvariant, Remembered
<1>13. OncePerDay'
  BY <1>3, <1>4, <1>5, BoundsNamed DEF ToldInvariant, OncePerDay
<1> QED BY <1>11, <1>12, <1>13 DEF ToldInvariant

LEMMA ToldFinish ==
  ASSUME EpisodeTyped, ToldInvariant, NEW w \in Writers, finish(w)
  PROVE  ToldInvariant'
<1>1. /\ writer[w].at = "deliver" /\ writer[w].todo = {} /\ Writes(w, Resting)
      /\ ran' = (ran \/ w = "daily")
      /\ UNCHANGED <<summaries, memories, reports, missed, session, inbox, failures>>
  BY DEF finish, Is, sessionVars
<1>2. /\ writer'[w].at = "resting" /\ \A v \in Writers \ {w} : writer'[v] = writer[v]
  BY <1>1, NotesChange DEF Resting
<1>3. ASSUME NEW s \in Sessions, NEW p \in Papers
      PROVE  Told(s, p)'
  <2>1. Told(s, p)
    BY DEF ToldInvariant
  <2>2. Awaited(s, p)' <=> Awaited(s, p)
    <3>1. CASE WriterOf(p) = w
      BY <3>1, <1>1, <1>2 DEF Awaited, InHand
    <3>2. CASE WriterOf(p) # w
      BY <3>2, <1>2, AwaitedOf
    <3> QED BY <3>1, <3>2
  <2> QED BY <2>1, <2>2, <1>1, ToldKept DEF Stored, Backfilled, Complete
<1>4. Remembered'
  <2>1. ASSUME NEW i \in summaries, writer["postmortem"].paper = <<"summary", i>>,
               w = "postmortem"
        PROVE  i \in memories
    <3>1. PICK k \in 1..MaxEpisodes :
            writer["postmortem"].paper = <<"summary", k>> /\ k \in memories
      BY <1>1, <2>1, SummaryKnown
    <3>2. i = k
      BY <2>1, <3>1
    <3> QED BY <3>1, <3>2
  <2> QED BY <2>1, <1>1, <1>2, BoundsNamed DEF ToldInvariant, Remembered
<1>5. OncePerDay'
  <2>1. CASE w = "daily"
    BY <2>1, <1>1 DEF ToldInvariant, OncePerDay
  <2>2. CASE w # "daily"
    BY <2>2, <1>1, <1>2, BoundsNamed DEF ToldInvariant, OncePerDay
  <2> QED BY <2>1, <2>2
<1> QED BY <1>3, <1>4, <1>5 DEF ToldInvariant

\* What was in hand is noted as missed; a failure voids OncePerDay.
LEMMA ToldFails ==
  ASSUME EpisodeTyped, ToldInvariant, NEW w \in Writers, writer_fails(w)
  PROVE  ToldInvariant'
<1>1. /\ writer[w].at # "resting" /\ Writes(w, Resting) /\ failures' = failures + 1
      /\ missed' = missed \cup {writer[w].paper} /\ failures \in Nat
      /\ UNCHANGED <<summaries, memories, reports, ran, session, inbox>>
  BY DEF writer_fails, Is, sessionVars, EpisodeTyped, EpisodeTypeOK
<1>2. /\ writer'[w].at = "resting" /\ \A v \in Writers \ {w} : writer'[v] = writer[v]
  BY <1>1, NotesChange DEF Resting
<1>3. ASSUME NEW s \in Sessions, NEW p \in Papers
      PROVE  Told(s, p)'
  <2>1. Told(s, p)
    BY DEF ToldInvariant
  <2>2. /\ Awaited(s, p)' => Awaited(s, p)
        /\ Awaited(s, p) => Awaited(s, p)' \/ p \in missed'
    <3>1. CASE WriterOf(p) = w
      BY <3>1, <1>1, <1>2 DEF Awaited, InHand
    <3>2. CASE WriterOf(p) # w
      BY <3>2, <1>2, AwaitedOf
    <3> QED BY <3>1, <3>2
  <2> QED BY <2>1, <2>2, <1>1, ToldKept DEF Stored, Backfilled, Complete
<1>4. Remembered'
  <2>1. ASSUME NEW i \in summaries, writer["postmortem"].paper = <<"summary", i>>,
               w = "postmortem"
        PROVE  <<"summary", i>> \in missed'
    BY <1>1, <2>1
  <2> QED BY <2>1, <1>1, <1>2, BoundsNamed DEF ToldInvariant, Remembered
<1>5. OncePerDay'
  BY <1>1 DEF OncePerDay
<1> QED BY <1>3, <1>4, <1>5 DEF ToldInvariant

LEMMA ToldCreate ==
  ASSUME EpisodeTyped, ToldInvariant, NEW t \in Sessions, create_session(t)
  PROVE  ToldInvariant'
<1>1. /\ session[t] = "absent" /\ session' = [session EXCEPT ![t] = "saved"]
      /\ UNCHANGED <<summaries, memories, reports, ran, writer, missed, inbox, failures>>
  BY DEF create_session, paperVars
<1>2. session'[t] = "saved" /\ \A s \in Sessions \ {t} : session'[s] = session[s]
  BY <1>1 DEF EpisodeTyped, EpisodeTypeOK
<1>3. ASSUME NEW s \in Sessions, NEW p \in Papers
      PROVE  Told(s, p)'
  <2>1. Told(s, p)
    BY DEF ToldInvariant
  <2>2. (Backfilled(s, p)' <=> Backfilled(s, p)) /\ (Complete(s, p)' <=> Complete(s, p))
    BY <1>1, <1>2 DEF Backfilled, Complete
  <2>3. (Awaited(s, p)' <=> Awaited(s, p)) /\ (Stored(p)' <=> Stored(p))
    BY <1>1 DEF Awaited, InHand, Stored
  <2> QED BY <2>1, <2>2, <2>3, <1>1, ToldKept
<1>4. Remembered' /\ OncePerDay'
  BY <1>1 DEF ToldInvariant, Remembered, OncePerDay
<1> QED BY <1>3, <1>4 DEF ToldInvariant

\* The papers of one kind become messages of a session, once.
LEMMA ToldBackfill ==
  ASSUME EpisodeTyped, ToldInvariant, NEW t \in Sessions,
         backfill_reports(t) \/ backfill_summaries(t)
  PROVE  ToldInvariant'
<1>1. UNCHANGED <<summaries, memories, reports, ran, writer, missed, failures>>
  BY DEF backfill_reports, backfill_summaries, paperVars
<1>2. PICK kind \in BOOLEAN, papers \in {{"summary"} \X summaries, {"report"} \X (1..reports)} :
        /\ kind => /\ session[t] = "reported" /\ session' = [session EXCEPT ![t] = "ready"]
                   /\ papers = {"summary"} \X summaries
        /\ ~kind => /\ session[t] = "saved" /\ session' = [session EXCEPT ![t] = "reported"]
                    /\ papers = {"report"} \X (1..reports)
        /\ Receives(t, papers)
  <2>1. CASE backfill_reports(t)
    BY <2>1 DEF backfill_reports
  <2>2. CASE backfill_summaries(t)
    BY <2>2 DEF backfill_summaries
  <2> QED BY <2>1, <2>2
<1>3. \A p \in Papers : p \in papers <=> (Stored(p) /\ (Summary(p) <=> kind))
  <2>1. TAKE p \in Papers
  <2>2. reports \in Nat
    BY DEF EpisodeTyped, EpisodeTypeOK
  <2>3. CASE Summary(p)
    <3>1. PICK i \in 1..MaxEpisodes : p = <<"summary", i>>
      BY <2>3, PapersNamed
    <3>2. Stored(p) <=> i \in summaries
      BY <2>3, <3>1 DEF Stored
    <3> QED BY <2>3, <3>1, <3>2, <1>2
  <2>4. CASE ~Summary(p)
    <3>1. PICK n \in 1..MaxReports : p = <<"report", n>>
      BY <2>4, PapersNamed
    <3>2. Stored(p) <=> n \in 1..reports
      BY <2>2, <2>4, <3>1, BoundsNamed DEF Stored
    <3> QED BY <2>4, <3>1, <3>2, <1>2
  <2> QED BY <2>3, <2>4
<1>4. PICK f \in [Papers -> Nat] : f = inbox[t]
  BY DEF EpisodeTyped, EpisodeTypeOK
<1>5. inbox' = [inbox EXCEPT ![t] = [p \in Papers |-> f[p] + IF p \in papers THEN 1 ELSE 0]]
  BY <1>2, <1>4 DEF Receives, EpisodeTyped, EpisodeTypeOK
<1>6. /\ \A p \in Papers : inbox'[t][p] = inbox[t][p] + IF p \in papers THEN 1 ELSE 0
      /\ \A s \in Sessions \ {t} : inbox'[s] = inbox[s]
  BY <1>4, <1>5 DEF EpisodeTyped, EpisodeTypeOK
<1>7. /\ session'[t] = IF kind THEN "ready" ELSE "reported"
      /\ \A s \in Sessions \ {t} : session'[s] = session[s]
  BY <1>2 DEF EpisodeTyped, EpisodeTypeOK
<1>8. ASSUME NEW s \in Sessions, NEW p \in Papers
      PROVE  Told(s, p)'
  <2>1. Told(s, p) /\ inbox[s][p] \in Nat
    BY CountOfPaper DEF ToldInvariant
  <2>2. (Awaited(s, p)' <=> Awaited(s, p)) /\ (Stored(p)' <=> Stored(p))
    BY <1>1 DEF Awaited, InHand, Stored
  <2>3. CASE s = t /\ (Summary(p) <=> kind)
    <3>1. ~Backfilled(s, p) /\ Backfilled(s, p)'
      BY <2>3, <1>2, <1>7 DEF Backfilled
    <3>2. inbox'[s][p] = inbox[s][p] + IF Stored(p) THEN 1 ELSE 0
      BY <2>3, <1>3, <1>6
    <3>3. inbox'[s][p] <= (IF Backfilled(s, p)' THEN 1 ELSE 0) + (IF Awaited(s, p)' THEN 0 ELSE 1)
      BY <2>1, <2>2, <3>1, <3>2 DEF Told
    <3>4. /\ ~Stored(p)' => inbox'[s][p] = 0
          /\ Stored(p)' => inbox'[s][p] >= 1
      BY <2>1, <2>2, <3>2 DEF Told
    <3> QED BY <3>3, <3>4 DEF Told
  <2>4. CASE ~(s = t /\ (Summary(p) <=> kind))
    <3>1. inbox'[s][p] = inbox[s][p]
      BY <2>1, <2>4, <1>3, <1>6
    <3>2. (Backfilled(s, p)' <=> Backfilled(s, p)) /\ (Complete(s, p)' <=> Complete(s, p))
      BY <2>4, <1>2, <1>7 DEF Backfilled, Complete
    <3> QED BY <2>1, <2>2, <3>1, <3>2, <1>1, ToldKept
  <2> QED BY <2>3, <2>4
<1>9. Remembered' /\ OncePerDay'
  BY <1>1 DEF ToldInvariant, Remembered, OncePerDay
<1> QED BY <1>8, <1>9 DEF ToldInvariant

LEMMA ToldRestart ==
  ASSUME EpisodeTyped, ToldInvariant, restart_process
  PROVE  ToldInvariant'
<1>1. /\ failures' = failures + 1 /\ failures \in Nat
      /\ writer' = [w \in Writers |-> Resting]
      /\ session' = [s \in Sessions |-> IF session[s] = "ready" THEN "ready" ELSE
                                        IF session[s] = "absent" THEN "absent" ELSE "lost"]
      /\ missed' = missed \cup Undelivered
      /\ UNCHANGED <<summaries, memories, reports, ran, inbox>>
  BY DEF restart_process, EpisodeTyped, EpisodeTypeOK
<1>2. \A w \in Writers : writer'[w].at = "resting"
  BY <1>1 DEF Resting
<1>3. \A w \in Writers : writer[w].at # "resting" => writer[w].paper \in missed'
  BY <1>1 DEF Undelivered, Is
<1>4. \A p : WriterOf(p) \in Writers
  BY BoundsNamed DEF WriterOf
<1>5. ASSUME NEW s \in Sessions, NEW p \in Papers
      PROVE  Told(s, p)'
  <2>1. Told(s, p)
    BY DEF ToldInvariant
  <2>2. ~Awaited(s, p)' /\ (Awaited(s, p) => p \in missed')
    BY <1>2, <1>3, <1>4 DEF Awaited, InHand
  <2>3. (Backfilled(s, p) => Backfilled(s, p)') /\ (Complete(s, p)' => Complete(s, p))
    BY <1>1 DEF Backfilled, Complete, EpisodeTyped, EpisodeTypeOK
  <2> QED BY <2>1, <2>2, <2>3, <1>1, ToldKept DEF Stored
<1>6. Remembered'
  <2>1. ASSUME NEW i \in summaries, writer["postmortem"].paper = <<"summary", i>>
        PROVE  <<"summary", i>> \in missed'
    <3>1. writer["postmortem"].at # "resting"
      BY <2>1, BoundsNamed DEF EpisodeTyped, WritersOK, Resumed, NoPaper
    <3> QED BY <2>1, <3>1, <1>3, BoundsNamed
  <2> QED BY <2>1, <1>1 DEF ToldInvariant, Remembered
<1>7. OncePerDay'
  BY <1>1 DEF OncePerDay
<1> QED BY <1>5, <1>6, <1>7 DEF ToldInvariant

LEMMA ToldStep ==
  ASSUME EpisodeTyped, ToldInvariant, [EpisodeNext]_episodeVars
  PROVE  ToldInvariant'
<1>1. ASSUME NEW h \in Handlers, \/ read_level(h) \/ store_level(h) \/ list_open(h)
                                 \/ sync_risk_transition(h) \/ ingest_fails(h)
      PROVE  ToldInvariant'
  <2>1. UNCHANGED <<paperVars, sessionVars>>
    BY <1>1 DEF read_level, store_level, list_open, sync_risk_transition, ingest_fails
  <2>2. failures' \in {failures, failures + 1} /\ failures \in Nat
    BY <1>1 DEF read_level, store_level, list_open, sync_risk_transition, ingest_fails,
                EpisodeTyped, EpisodeTypeOK
  <2> QED BY <2>1, <2>2, ToldIngest
<1>2. CASE take_episode \/ save_summary \/ settle_episode \/ save_memory \/ write_report
  BY <1>2, ToldTake, ToldSave, ToldSettle, ToldReport
<1>3. ASSUME NEW w \in Writers, list_sessions(w) \/ deliver(w) \/ finish(w) \/ writer_fails(w)
      PROVE  ToldInvariant'
  BY <1>3, ToldList, ToldDeliver, ToldFinish, ToldFails
<1>4. ASSUME NEW s \in Sessions,
             create_session(s) \/ backfill_reports(s) \/ backfill_summaries(s)
      PROVE  ToldInvariant'
  BY <1>4, ToldCreate, ToldBackfill
<1>5. CASE restart_process
  BY <1>5, ToldRestart
<1>6. CASE UNCHANGED episodeVars
  BY <1>6, ToldIngest DEF episodeVars
<1> QED BY <1>1, <1>2, <1>3, <1>4, <1>5, <1>6, BoundsNamed DEF EpisodeNext, Postmortem, Daily

LEMMA LevelIsFollowed ==
  ASSUME EpisodeTyped, LevelInvariant
  PROVE  EpisodesFollowTheLevel
<1>1. SUFFICES ASSUME Calm
               PROVE  /\ Cardinality(Open) <= 1
                      /\ Busy = {} => (level > 0 <=> Open # {})
                      /\ Busy = {} => \A i \in Open : level <= episodes[i].peak
                      /\ \A i \in Open : i \notin summaries
  BY DEF EpisodesFollowTheLevel, Calm
<1>2. OneOpen /\ SummarisedAreOver /\ AwayFollows
  BY <1>1 DEF LevelInvariant
<1>3. Cardinality(Open) <= 1
  <2>1. CASE Open = {}
    BY <2>1, FS_EmptySet
  <2>2. CASE Open # {}
    <3>1. PICK i : i \in Open
      BY <2>2
    <3>2. Open = {i}
      BY <3>1, <1>2 DEF OneOpen
    <3>3. Cardinality({i}) = 1
      BY FS_Singleton
    <3> QED BY <3>2, <3>3
  <2> QED BY <2>1, <2>2
<1>4. Busy = {} => \A h \in Handlers : handler[h].at = "away"
  BY DEF Busy, EpisodeTyped, EpisodeTypeOK
<1> QED BY <1>2, <1>3, <1>4 DEF AwayFollows, Matches, SummarisedAreOver

LEMMA SessionsAreTold ==
  ASSUME EpisodeTyped, ToldInvariant
  PROVE  EveryoneIsTold
<1>1. /\ DOMAIN session = Sessions /\ \A s \in Sessions : DOMAIN inbox[s] = Papers
      /\ summaries \subseteq 1..MaxEpisodes /\ reports \in 0..MaxReports
  <2>1. PICK n \in Nat : DOMAIN episodes = 1..n /\ n <= MaxEpisodes
    BY DEF EpisodeTyped, EpisodeTypeOK
  <2> QED BY <2>1, BoundsNamed DEF EpisodeTyped, EpisodeTypeOK
<1>2. ASSUME NEW s \in Sessions, NEW p \in Papers
      PROVE  /\ Told(s, p) /\ inbox[s][p] <= 2 /\ inbox[s][p] \in Nat
             /\ Awaited(s, p) => p \in Undelivered
  <2>1. Told(s, p) /\ inbox[s][p] \in Nat
    BY CountOfPaper DEF ToldInvariant
  <2>2. inbox[s][p] <= 2
    BY <2>1 DEF Told
  <2>3. Awaited(s, p) => p \in Undelivered
    BY DEF Awaited, InHand, WriterOf, Undelivered, Is, Writers
  <2> QED BY <2>1, <2>2, <2>3
<1>3. ASSUME NEW i \in summaries, NEW s \in Sessions, session[s] = "ready",
             <<"summary", i>> \notin missed \cup Undelivered
      PROVE  i \in memories /\ inbox[s][<<"summary", i>>] >= 1
  <2>1. PICK p \in Papers : p = <<"summary", i>> /\ Summary(p)
    BY <1>1, PapersNamed
  <2>2. Stored(p) /\ Complete(s, p)
    BY <1>3, <2>1 DEF Stored, Complete
  <2>3. inbox[s][p] >= 1
    BY <1>2, <1>3, <2>1, <2>2 DEF Told
  <2>4. i \in memories
    <3>1. writer["postmortem"].paper = p => p \in Undelivered
      BY <2>1, BoundsNamed DEF EpisodeTyped, WritersOK, Resumed, NoPaper, Undelivered, Is
    <3> QED BY <1>3, <2>1, <3>1 DEF ToldInvariant, Remembered
  <2> QED BY <2>1, <2>3, <2>4
<1>4. ASSUME NEW n \in 1..reports, NEW s \in Sessions, session[s] = "ready",
             <<"report", n>> \notin missed \cup Undelivered
      PROVE  inbox[s][<<"report", n>>] >= 1
  <2>1. n \in 1..MaxReports /\ n <= reports
    BY <1>1, BoundsNamed
  <2>2. PICK p \in Papers : p = <<"report", n>> /\ ~Summary(p)
    BY <2>1, PapersNamed
  <2>3. Stored(p) /\ Complete(s, p)
    BY <1>4, <2>1, <2>2 DEF Stored, Complete
  <2> QED BY <1>2, <1>4, <2>2, <2>3 DEF Told
<1>5. failures = 0 => reports <= 1
  BY DEF ToldInvariant, OncePerDay
<1> QED BY <1>1, <1>2, <1>3, <1>4, <1>5 DEF EveryoneIsTold

\* For any handlers, sessions, levels, numbers of episodes and reports and any failures
\* and ends of the process: episodes follow the level while handlers come one by one, and
\* a session that is set up has every paper whose delivery was not cut off, at most twice
\* (sync_risk_transition, EventPostmortemService, DailySummaryService, bootstrap_session).
THEOREM EpisodesSafe == EpisodeSpec => []EpisodesAreTold
<1> DEFINE EpisodeInvariant == EpisodeTyped /\ LevelInvariant /\ ToldInvariant
<1>1. EpisodeInit => EpisodeInvariant
  BY EpisodeInitTyped, LevelInit, ToldInit
<1>2. EpisodeInvariant /\ [EpisodeNext]_episodeVars => EpisodeInvariant'
  BY EpisodeTypedStep, LevelStep, ToldStep
<1>3. EpisodeInvariant => EpisodesAreTold
  BY LevelIsFollowed, SessionsAreTold DEF EpisodesAreTold
<1> HIDE DEF EpisodeInvariant
<1> QED BY <1>1, <1>2, <1>3, PTL DEF EpisodeSpec

-----------------------------------------------------------------------------
(***************************************************************************)
(* The jobs of the data pipeline: the inductive invariant, for any number  *)
(* of jobs, attempts, progress reports and ends of the process.            *)
(***************************************************************************)
JobStages == {"begin", "run", "report", "result", "canceled"}
Records == [status : {"unknown"} \cup Active \cup Terminal, asked : BOOLEAN]
Threads == [at : JobStages \cup {"none"}, attempt : Int, left : Int]

DatasetTypeOK ==
  /\ created \in 0..MaxJobs /\ active \in 0..MaxJobs
  /\ history \in [Jobs -> Records] /\ thread \in [Jobs -> Threads]
  /\ cancelled \subseteq Jobs /\ orphans \subseteq Jobs /\ late \in [Jobs -> Nat]

\* What has not been started has left nothing behind.
NotStarted ==
  \A j \in Jobs : j > created => history[j] = Unknown /\ thread[j].at = "none" /\ late[j] = 0

\* A thread is alone, finds its job active, and keeps others from starting.
OneAtWork ==
  \A j \in Alive : active # 0 /\ IsActive(j) /\ \A k \in Alive : j = k

\* With all threads accounted for, the files name the one at work.
FilesTell ==
  orphans = {} => /\ \A j \in Jobs : IsActive(j) => j \in Alive
                  /\ \A j \in Alive : active = j
                  /\ active # 0 => active \in Alive

\* A late update is the last: the next check finds the cancellation.
LateOnce ==
  \A j \in Jobs :
    /\ late[j] <= 1
    /\ late[j] = 1 /\ j \in Alive => history[j].asked /\ thread[j].at \notin {"report", "result"}

CanceledOnRequest == \A j \in Jobs : history[j].status = "canceled" => history[j].asked

JobsInductive ==
  DatasetTypeOK /\ NotStarted /\ OneAtWork /\ FilesTell /\ LateOnce /\ CanceledOnRequest

-----------------------------------------------------------------------------
(***************************************************************************)
(* Records and threads.                                                    *)
(***************************************************************************)
LEMMA StatusChange ==
  ASSUME NEW j \in Jobs, history[j] \in Records, NEW st \in Active \cup Terminal
  PROVE  LET q == [history[j] EXCEPT !.status = st]
         IN  q \in Records /\ q.status = st /\ q.asked = history[j].asked
  <1>1. PICK r \in Records : r = history[j]
    OBVIOUS
  <1>2. LET q == [r EXCEPT !.status = st] IN q \in Records /\ q.status = st /\ q.asked = r.asked
    BY DEF Records
  <1> QED  BY <1>1, <1>2

LEMMA StageChange ==
  ASSUME NEW j \in Jobs, thread[j] \in Threads, NEW at \in JobStages
  PROVE  LET t == [thread[j] EXCEPT !.at = at] IN t \in Threads /\ t.at = at
  <1>1. PICK s \in Threads : s = thread[j]
    OBVIOUS
  <1>2. LET t == [s EXCEPT !.at = at] IN t \in Threads /\ t.at = at
    BY DEF Threads
  <1> QED  BY <1>1, <1>2

LEMMA LeftChange ==
  ASSUME NEW j \in Jobs, thread[j] \in Threads, NEW at \in JobStages, NEW left \in Int
  PROVE  LET t == [thread[j] EXCEPT !.at = at, !.left = left] IN t \in Threads /\ t.at = at
  <1>1. PICK s \in Threads : s = thread[j]
    OBVIOUS
  <1>2. LET t == [s EXCEPT !.at = at, !.left = left] IN t \in Threads /\ t.at = at
    BY DEF Threads
  <1> QED  BY <1>1, <1>2

LEMMA AttemptChange ==
  ASSUME NEW j \in Jobs, thread[j] \in Threads, NEW at \in JobStages, NEW attempt \in Int
  PROVE  LET t == [thread[j] EXCEPT !.at = at, !.attempt = attempt] IN t \in Threads /\ t.at = at
  <1>1. PICK s \in Threads : s = thread[j]
    OBVIOUS
  <1>2. LET t == [s EXCEPT !.at = at, !.attempt = attempt] IN t \in Threads /\ t.at = at
    BY DEF Threads
  <1> QED  BY <1>1, <1>2

-----------------------------------------------------------------------------
(***************************************************************************)
(* Actions.                                                                *)
(***************************************************************************)
LEMMA JobsInitInductive ==
  ASSUME DatasetAssumption, DatasetInit
  PROVE  JobsInductive
  BY DEF DatasetAssumption, DatasetInit, JobsInductive, DatasetTypeOK, NotStarted, OneAtWork, FilesTell,
         LateOnce, CanceledOnRequest, Jobs, Records, Threads, JobStages, Unknown, NoThread, Alive,
         IsActive, Active, Terminal

LEMMA StartInductive ==
  ASSUME DatasetAssumption, JobsInductive, start_job
  PROVE  JobsInductive'
  <1>1. PICK j \in Jobs : j = created + 1 /\ j > created
    BY DEF start_job, JobsInductive, DatasetTypeOK, DatasetAssumption, Jobs
  <1>2. Alive = {}
    BY DEF start_job, JobsInductive, OneAtWork
  <1>3. /\ history' = [history EXCEPT ![j] = [status |-> "pending", asked |-> FALSE]]
        /\ active' = j /\ created' = j
        /\ thread' = [thread EXCEPT ![j] = [at |-> "begin", attempt |-> 1, left |-> MaxUpdates]]
        /\ cancelled' = cancelled /\ orphans' = orphans /\ late' = late
    BY <1>1 DEF start_job, Persist, NewState, Goes, NoThread, Active
  <1>4. Alive' = {j}
    BY <1>1, <1>2, <1>3 DEF Alive, JobsInductive, DatasetTypeOK
  <1>5. DatasetTypeOK'
    BY <1>1, <1>3 DEF JobsInductive, DatasetTypeOK, DatasetAssumption, Jobs, Records, Threads, JobStages, Active
  <1>6. NotStarted'
    BY <1>1, <1>3 DEF JobsInductive, DatasetTypeOK, NotStarted, Jobs
  <1>7. OneAtWork' /\ FilesTell'
    <2>1. \A k \in Jobs : IsActive(k)' => k = j \/ IsActive(k)
      BY <1>1, <1>3 DEF IsActive, JobsInductive, DatasetTypeOK
    <2>2. IsActive(j)'
      BY <1>1, <1>3 DEF IsActive, JobsInductive, DatasetTypeOK, Active
    <2> QED  BY <1>1, <1>2, <1>3, <1>4, <2>1, <2>2 DEF OneAtWork, FilesTell, JobsInductive, Jobs
  <1>8. LateOnce' /\ CanceledOnRequest'
    BY <1>1, <1>3, <1>4 DEF JobsInductive, DatasetTypeOK, NotStarted, LateOnce, CanceledOnRequest, Records
  <1> QED  BY <1>5, <1>6, <1>7, <1>8 DEF JobsInductive

LEMMA CancelInductive ==
  ASSUME DatasetAssumption, JobsInductive, NEW j \in Jobs, cancel_job(j)
  PROVE  JobsInductive'
  <1>1. Alive' = Alive
    BY DEF cancel_job, Alive
  <1>2. \A k \in Jobs : IsActive(k)' <=> IsActive(k)
    BY DEF cancel_job, IsActive, JobsInductive, DatasetTypeOK, Active
  <1>3. DatasetTypeOK'
    BY DEF cancel_job, JobsInductive, DatasetTypeOK, Jobs, Records, Active
  <1>4. NotStarted'
    <2>1. ~(j > created)
      BY DEF cancel_job, IsActive, Active, JobsInductive, NotStarted, Unknown
    <2> QED  BY <2>1 DEF cancel_job, JobsInductive, DatasetTypeOK, NotStarted
  <1>5. OneAtWork' /\ FilesTell'
    BY <1>1, <1>2 DEF cancel_job, JobsInductive, OneAtWork, FilesTell, Jobs, Alive
  <1>6. LateOnce' /\ CanceledOnRequest'
    BY <1>1 DEF cancel_job, JobsInductive, DatasetTypeOK, LateOnce, CanceledOnRequest, Records
  <1> QED  BY <1>3, <1>4, <1>5, <1>6 DEF JobsInductive

\* A step of a thread that stays alive and keeps its job active.
LEMMA ThreadGoesOn ==
  ASSUME DatasetAssumption, JobsInductive,
         NEW j \in Alive, NEW record \in Records, NEW next \in Threads, record.status \in Active,
         history[j].asked => record.asked,
         next.at # "none", Persist(j, record), Goes(j, next),
         created' = created, orphans' = orphans, late' \in [Jobs -> Nat],
         \A k \in Jobs \ {j} : late'[k] = late[k],
         late'[j] <= 1,
         late'[j] = 1 => record.asked /\ next.at \notin {"report", "result"}
  PROVE  JobsInductive'
  <1>0. j \in Jobs
    BY DEF Alive
  <1>1. /\ history' = [history EXCEPT ![j] = record] /\ active' = j
        /\ thread' = [thread EXCEPT ![j] = next] /\ cancelled' = cancelled
    BY DEF Persist, NewState, Goes, NoThread
  <1>2. Alive' = Alive
    BY <1>0, <1>1 DEF Alive, JobsInductive, DatasetTypeOK
  <1>3. \A k \in Jobs : IsActive(k)' <=> IsActive(k)
    BY <1>0, <1>1 DEF IsActive, JobsInductive, DatasetTypeOK, OneAtWork
  <1>4. DatasetTypeOK'
    BY <1>0, <1>1 DEF JobsInductive, DatasetTypeOK, Jobs, DatasetAssumption
  <1>5. NotStarted'
    BY <1>0, <1>1 DEF JobsInductive, DatasetTypeOK, NotStarted, Alive
  <1>6. OneAtWork' /\ FilesTell'
    BY <1>0, <1>1, <1>2, <1>3 DEF JobsInductive, OneAtWork, FilesTell, Jobs
  <1>7. LateOnce'
    BY <1>0, <1>1, <1>2 DEF JobsInductive, DatasetTypeOK, LateOnce
  <1>8. CanceledOnRequest'
    BY <1>0, <1>1 DEF JobsInductive, DatasetTypeOK, CanceledOnRequest, Active
  <1> QED  BY <1>4, <1>5, <1>6, <1>7, <1>8 DEF JobsInductive

\* A thread that ends with a last record.
LEMMA ThreadEnds ==
  ASSUME DatasetAssumption, JobsInductive, NEW j \in Alive, NEW record \in Records,
         record.status \in Terminal, record.status = "canceled" => record.asked,
         Persist(j, record), Goes(j, NoThread),
         created' = created, orphans' = orphans, late' \in [Jobs -> Nat],
         \A k \in Jobs : late'[k] \in {0, 1}, \A k \in Jobs \ {j} : late'[k] = late[k]
  PROVE  JobsInductive'
  <1>0. j \in Jobs /\ j <= created
    BY DEF Alive, JobsInductive, NotStarted, DatasetTypeOK, Jobs
  <1>1. /\ history' = [history EXCEPT ![j] = record]
        /\ active' = IF active \in {0, j} THEN 0 ELSE active
        /\ thread' = [thread EXCEPT ![j] = NoThread] /\ cancelled' \subseteq cancelled
    BY DEF Persist, NewState, Goes, Active, Terminal
  <1>2. Alive' = {}
    BY <1>0, <1>1 DEF Alive, JobsInductive, DatasetTypeOK, OneAtWork, NoThread
  <1>3. \A k \in Jobs : IsActive(k)' => IsActive(k) /\ k # j
    BY <1>0, <1>1 DEF IsActive, JobsInductive, DatasetTypeOK, Active, Terminal
  <1>4. DatasetTypeOK'
    <2>1. NoThread \in Threads
      BY DEF NoThread, Threads
    <2>2. active' \in 0..MaxJobs
      BY <1>1 DEF JobsInductive, DatasetTypeOK, DatasetAssumption
    <2> QED  BY <1>0, <1>1, <2>1, <2>2 DEF JobsInductive, DatasetTypeOK
  <1>5. NotStarted'
    BY <1>0, <1>1 DEF JobsInductive, DatasetTypeOK, NotStarted, Jobs, NoThread
  <1>6. OneAtWork' /\ FilesTell'
    BY <1>0, <1>1, <1>2, <1>3 DEF JobsInductive, OneAtWork, FilesTell
  <1>7. LateOnce'
    BY <1>2 DEF LateOnce
  <1>8. CanceledOnRequest'
    BY <1>0, <1>1 DEF JobsInductive, DatasetTypeOK, CanceledOnRequest, Terminal
  <1> QED  BY <1>4, <1>5, <1>6, <1>7, <1>8 DEF JobsInductive

\* A thread that dies without a last record.
LEMMA ThreadIsLost ==
  ASSUME DatasetAssumption, JobsInductive, NEW j \in Alive, NEW record \in Records,
         record.status \in Active, Persist(j, record), Goes(j, NoThread),
         created' = created, orphans' = orphans \cup {j}, late' = late
  PROVE  JobsInductive'
  <1>0. j \in Jobs /\ j <= created
    BY DEF Alive, JobsInductive, NotStarted, DatasetTypeOK, Jobs
  <1>1. /\ history' = [history EXCEPT ![j] = record] /\ active' = j
        /\ thread' = [thread EXCEPT ![j] = NoThread] /\ cancelled' \subseteq cancelled
    BY DEF Persist, NewState, Goes
  <1>2. Alive' = {}
    BY <1>0, <1>1 DEF Alive, JobsInductive, DatasetTypeOK, OneAtWork, NoThread
  <1>3. DatasetTypeOK'
    <2>1. NoThread \in Threads
      BY DEF NoThread, Threads
    <2> QED  BY <1>0, <1>1, <2>1 DEF JobsInductive, DatasetTypeOK, Jobs, DatasetAssumption
  <1>4. NotStarted'
    BY <1>0, <1>1 DEF JobsInductive, DatasetTypeOK, NotStarted, Jobs, NoThread
  <1>5. OneAtWork' /\ FilesTell' /\ LateOnce'
    BY <1>2 DEF OneAtWork, FilesTell, LateOnce, JobsInductive
  <1>6. CanceledOnRequest'
    BY <1>0, <1>1 DEF JobsInductive, DatasetTypeOK, CanceledOnRequest, Active
  <1> QED  BY <1>3, <1>4, <1>5, <1>6 DEF JobsInductive

LEMMA StepInductive ==
  ASSUME DatasetAssumption, JobsInductive, NEW j \in Jobs, JobStep(j)
  PROVE  JobsInductive'
  <1> USE DatasetAssumption
  <1>1. /\ history[j] \in Records /\ thread[j] \in Threads /\ late[j] \in {0, 1}
        /\ thread[j].at # "none" => j \in Alive
        /\ late[j] = 1 /\ j \in Alive => history[j].asked /\ thread[j].at \notin {"report", "result"}
        /\ j \in Alive => history[j].status \in Active
        /\ history[j].status = "canceled" => history[j].asked
        /\ late \in [Jobs -> Nat]
    <2>1. history[j] \in Records /\ thread[j] \in Threads /\ late \in [Jobs -> Nat]
      BY DEF JobsInductive, DatasetTypeOK
    <2>2. late[j] \in {0, 1}
      BY <2>1 DEF JobsInductive, LateOnce
    <2>3. j \in Alive => history[j].status \in Active
      BY DEF JobsInductive, OneAtWork, IsActive
    <2> QED  BY <2>1, <2>2, <2>3 DEF JobsInductive, LateOnce, CanceledOnRequest, Alive
  <1>2. \A k \in Jobs : late[k] \in {0, 1}
    BY DEF JobsInductive, DatasetTypeOK, LateOnce
  <1>3. CASE begin(j)
    <2> DEFINE record == [history[j] EXCEPT !.status = "running"]
               next == [thread[j] EXCEPT !.at = "run", !.left = MaxUpdates]
    <2>1. /\ record \in Records /\ record.status = "running" /\ record.asked = history[j].asked
          /\ next \in Threads /\ next.at = "run"
      <3>1. record \in Records /\ record.status = "running" /\ record.asked = history[j].asked
        BY <1>1, StatusChange DEF Active
      <3>2. next \in Threads /\ next.at = "run"
        <4>1. MaxUpdates \in Int
          BY DEF DatasetAssumption
        <4> QED  BY <1>1, <4>1, LeftChange DEF JobStages
      <3> QED  BY <3>1, <3>2
    <2>2. /\ j \in Alive /\ Persist(j, record) /\ Goes(j, next)
          /\ created' = created /\ orphans' = orphans /\ late' = late
      BY <1>1, <1>3 DEF begin, At
    <2> HIDE DEF record, next
    <2> QED  BY <1>1, <2>1, <2>2, ThreadGoesOn DEF Active
  <1>4. CASE check_cancel(j)
    <2>1. j \in Alive /\ thread[j].at = "run"
      BY <1>1, <1>4 DEF check_cancel, At
    <2>2. PICK where \in {"canceled", "report", "result"} :
            /\ thread' = [thread EXCEPT ![j] = [thread[j] EXCEPT !.at = where]]
            /\ history[j].asked => where = "canceled"
      BY <1>4 DEF check_cancel, Goes, To
    <2>3. UNCHANGED <<created, history, active, orphans, late>>
      BY <1>4 DEF check_cancel, files
    <2>4. cancelled' \subseteq cancelled
      BY <1>4 DEF check_cancel, Goes
    <2>5. /\ [thread[j] EXCEPT !.at = where] \in Threads
          /\ [thread[j] EXCEPT !.at = where].at = where
      BY <1>1, <2>2, StageChange DEF JobStages
    <2>6. /\ thread' \in [Jobs -> Threads] /\ thread'[j].at = where
          /\ \A k \in Jobs \ {j} : thread'[k] = thread[k]
      BY <2>2, <2>5 DEF JobsInductive, DatasetTypeOK
    <2>7. Alive' = Alive
      BY <2>1, <2>2, <2>6 DEF Alive
    <2>8. DatasetTypeOK' /\ CanceledOnRequest'
      BY <2>3, <2>4, <2>6 DEF JobsInductive, DatasetTypeOK, CanceledOnRequest
    <2>9. NotStarted'
      BY <2>1, <2>3, <2>6 DEF JobsInductive, NotStarted
    <2>10. OneAtWork' /\ FilesTell'
      BY <2>3, <2>7 DEF JobsInductive, OneAtWork, FilesTell, IsActive
    <2>11. LateOnce'
      BY <2>1, <2>2, <2>3, <2>6, <2>7 DEF JobsInductive, LateOnce
    <2> QED  BY <2>8, <2>9, <2>10, <2>11 DEF JobsInductive
  <1>5. CASE report(j)
    <2> DEFINE next == [thread[j] EXCEPT !.at = "run", !.left = @ - 1]
    <2>1. next \in Threads /\ next.at = "run"
      <3>1. thread[j].left - 1 \in Int
        BY <1>1 DEF Threads
      <3> QED  BY <1>1, <3>1, LeftChange DEF JobStages
    <2>2. /\ j \in Alive /\ Persist(j, history[j]) /\ Goes(j, next)
          /\ created' = created /\ orphans' = orphans /\ thread[j].at = "report"
      BY <1>1, <1>5 DEF report, At
    <2>3. /\ late' \in [Jobs -> Nat] /\ \A k \in Jobs \ {j} : late'[k] = late[k]
          /\ late'[j] <= 1 /\ (late'[j] = 1 => history[j].asked)
      BY <1>1, <1>5, <2>2 DEF report, Late
    <2> HIDE DEF next
    <2> QED  BY <1>1, <2>1, <2>2, <2>3, ThreadGoesOn DEF Active
  <1>6. CASE complete(j)
    <2> DEFINE record == [history[j] EXCEPT !.status = "completed"]
    <2>1. record \in Records /\ record.status = "completed"
      BY <1>1, StatusChange DEF Terminal
    <2>2. /\ j \in Alive /\ Persist(j, record) /\ Goes(j, NoThread)
          /\ created' = created /\ orphans' = orphans /\ thread[j].at = "result"
      BY <1>1, <1>6 DEF complete, At
    <2>3. /\ late' \in [Jobs -> Nat] /\ \A k \in Jobs \ {j} : late'[k] = late[k]
          /\ late'[j] \in {0, 1}
      BY <1>1, <1>6, <2>2 DEF complete, Late
    <2> HIDE DEF record
    <2> QED  BY <1>2, <2>1, <2>2, <2>3, ThreadEnds DEF Terminal
  <1>7. CASE canceled(j)
    <2> DEFINE record == [status |-> "canceled", asked |-> TRUE]
    <2>1. record \in Records /\ record.status = "canceled" /\ record.asked
      BY DEF Records, Terminal
    <2>2. /\ j \in Alive /\ Persist(j, record) /\ Goes(j, NoThread)
          /\ created' = created /\ orphans' = orphans /\ late' = late
      BY <1>1, <1>7 DEF canceled, At
    <2> HIDE DEF record
    <2> QED  BY <1>1, <1>2, <2>1, <2>2, ThreadEnds DEF Terminal
  <1>8. CASE fail(j)
    <2>1. /\ j \in Alive /\ created' = created /\ late' = late /\ thread[j].at = "run"
      BY <1>1, <1>8 DEF fail, At
    <2> DEFINE record == [history[j] EXCEPT !.status = "running"]
               again == [thread[j] EXCEPT !.at = "begin", !.attempt = @ + 1]
    <2>2. /\ record \in Records /\ record.status = "running" /\ record.asked = history[j].asked
          /\ again \in Threads /\ again.at = "begin"
      <3>1. thread[j].attempt + 1 \in Int
        BY <1>1 DEF Threads
      <3>2. record \in Records /\ record.status = "running" /\ record.asked = history[j].asked
        BY <1>1, StatusChange DEF Active
      <3>3. again \in Threads /\ again.at = "begin"
        <4> DEFINE attempt == thread[j].attempt + 1
        <4>1. [thread[j] EXCEPT !.at = "begin", !.attempt = attempt] \in Threads
          <5>1. attempt \in Int
            BY <3>1
          <5> HIDE DEF attempt
          <5> QED  BY <1>1, <5>1, AttemptChange DEF JobStages
        <4>2. again.at = "begin"
          BY <1>1 DEF Threads
        <4> QED  BY <4>1, <4>2
      <3> QED  BY <3>2, <3>3
    <2>3. CASE Persist(j, record) /\ Goes(j, again) /\ orphans' = orphans
      <3> HIDE DEF record, again
      <3> QED  BY <1>1, <2>1, <2>2, <2>3, ThreadGoesOn DEF Active
    <2>4. CASE Persist(j, record) /\ Goes(j, NoThread) /\ orphans' = orphans \cup {j}
      <3> HIDE DEF record, again
      <3> QED  BY <1>1, <2>1, <2>2, <2>4, ThreadIsLost DEF Active
    <2>5. CASE /\ Persist(j, [history[j] EXCEPT !.status = "failed"]) /\ Goes(j, NoThread)
               /\ orphans' = orphans
      <3> DEFINE last == [history[j] EXCEPT !.status = "failed"]
      <3>1. last \in Records /\ last.status = "failed"
        BY <1>1, StatusChange DEF Terminal
      <3>2. Persist(j, last)
        BY <2>5
      <3> HIDE DEF last
      <3> QED  BY <1>1, <1>2, <2>1, <2>5, <3>1, <3>2, ThreadEnds DEF Terminal
    <2> QED  BY <1>8, <2>3, <2>4, <2>5 DEF fail
  <1> QED  BY <1>3, <1>4, <1>5, <1>6, <1>7, <1>8 DEF JobStep

\* A write that is cut off, or complete in the history file, and no threads.
LEMMA RestartInductive ==
  ASSUME DatasetAssumption, JobsInductive, restart
  PROVE  JobsInductive'
  <1>1. /\ thread' = [j \in Jobs |-> NoThread] /\ cancelled' = {} /\ late' = late
        /\ orphans' = orphans \cup Alive \cup {j \in Jobs : created < j /\ j <= created'}
    BY DEF restart
  <1>2. Alive' = {}
    BY <1>1 DEF Alive, NoThread
  <1>3. \A j \in Jobs : \A record \in Unstored(j) :
          /\ record \in Records /\ (record.status = "canceled" => record.asked)
          /\ Alive = {} => IsActive(j) \/ j = created + 1
    <2> SUFFICES ASSUME NEW j \in Jobs, NEW record \in Unstored(j)
                 PROVE  /\ record \in Records /\ (record.status = "canceled" => record.asked)
                        /\ Alive = {} => IsActive(j) \/ j = created + 1
      OBVIOUS
    <2>1. history[j] \in Records /\ (history[j].status = "canceled" => history[j].asked)
      BY DEF JobsInductive, DatasetTypeOK, CanceledOnRequest
    <2>2. CASE \E st \in {"running", "failed", "completed"} :
                 record = [history[j] EXCEPT !.status = st] /\ thread[j].at # "none"
      <3>1. record \in Records /\ record.status # "canceled"
        BY <2>1, <2>2, StatusChange DEF Active, Terminal
      <3> QED  BY <2>2, <3>1 DEF Alive
    <2>3. CASE record = history[j] /\ thread[j].at # "none"
      BY <2>1, <2>3 DEF Alive
    <2>4. CASE record = [status |-> "canceled", asked |-> TRUE] /\ thread[j].at # "none"
      BY <2>4 DEF Alive, Records, Terminal
    <2>5. CASE record = [status |-> "cancel_requested", asked |-> TRUE] /\ IsActive(j)
      BY <2>5 DEF Records, Active
    <2>6. CASE record = [status |-> "pending", asked |-> FALSE] /\ j = created + 1
      BY <2>6 DEF Records, Active
    <2> QED  BY <2>2, <2>3, <2>4, <2>5, <2>6 DEF Unstored, At
  <1>4. CASE UNCHANGED <<created, files>>
    <2>1. DatasetTypeOK'
      BY <1>1, <1>4 DEF JobsInductive, DatasetTypeOK, NoThread, Threads, files, Alive
    <2>2. NotStarted' /\ LateOnce' /\ CanceledOnRequest' /\ OneAtWork'
      BY <1>1, <1>2, <1>4 DEF JobsInductive, NotStarted, LateOnce, CanceledOnRequest, OneAtWork, NoThread, files
    <2>3. FilesTell'
      BY <1>1, <1>2, <1>4 DEF JobsInductive, FilesTell, IsActive, files
    <2> QED  BY <2>1, <2>2, <2>3 DEF JobsInductive
  <1>5. ASSUME NEW j \in Jobs, NEW record \in Unstored(j),
               created' = IF j > created THEN j ELSE created,
               \/ history' = [k \in Jobs |-> Unknown] /\ UNCHANGED active
               \/ history' = [history EXCEPT ![j] = record] /\ active' \in {active, 0}
        PROVE  JobsInductive'
    <2>1. record \in Records /\ (record.status = "canceled" => record.asked)
      BY <1>3
    <2>2. /\ created' \in 0..MaxJobs /\ created' >= created /\ created' >= j
          /\ active' \in 0..MaxJobs
      BY <1>5 DEF JobsInductive, DatasetTypeOK, DatasetAssumption, Jobs
    <2>3. DatasetTypeOK'
      <3>1. history' \in [Jobs -> Records]
        <4>1. Unknown \in Records
          BY DEF Unknown, Records
        <4> QED  BY <1>5, <2>1, <4>1 DEF JobsInductive, DatasetTypeOK
      <3>2. NoThread \in Threads
        BY DEF NoThread, Threads
      <3> QED  BY <1>1, <2>2, <3>1, <3>2 DEF JobsInductive, DatasetTypeOK, Alive
    <2>4. NotStarted'
      <3>1. \A k \in Jobs : k > created' => k > created /\ k # j
        BY <2>2 DEF JobsInductive, DatasetTypeOK, Jobs
      <3> QED  BY <1>1, <1>5, <3>1 DEF JobsInductive, DatasetTypeOK, NotStarted, NoThread
    <2>5. OneAtWork' /\ LateOnce'
      BY <1>1, <1>2 DEF JobsInductive, OneAtWork, LateOnce
    <2>6. CanceledOnRequest'
      BY <1>5, <2>1 DEF JobsInductive, DatasetTypeOK, CanceledOnRequest, Unknown
    <2>7. orphans' # {}
      <3> SUFFICES ASSUME orphans = {}, Alive = {} PROVE \E k \in Jobs : created < k /\ k <= created'
        BY <1>1
      <3>1. j = created + 1
        BY <1>3 DEF JobsInductive, FilesTell
      <3> QED  BY <1>5, <3>1 DEF JobsInductive, DatasetTypeOK, Jobs
    <2>8. FilesTell'
      BY <2>7 DEF FilesTell
    <2> QED  BY <2>3, <2>4, <2>5, <2>6, <2>8 DEF JobsInductive
  <1> QED  BY <1>4, <1>5 DEF restart

-----------------------------------------------------------------------------
(***************************************************************************)
(* Theorems.                                                               *)
(***************************************************************************)
\* Threads, the two files and the cancellations stay as described, wherever the
\* process ends (DatasetJobService).
THEOREM JobsInductiveInvariant ==
  ASSUME DatasetAssumption
  PROVE  DatasetSpec => []JobsInductive
  <1> USE DatasetAssumption
  <1>1. JobsInductive /\ [DatasetNext]_datasetVars => JobsInductive'
    <2> SUFFICES ASSUME JobsInductive, [DatasetNext]_datasetVars  PROVE JobsInductive'
      OBVIOUS
    <2>1. CASE UNCHANGED datasetVars
      BY <2>1 DEF datasetVars, files, JobsInductive, DatasetTypeOK, NotStarted, OneAtWork, FilesTell,
                  LateOnce, CanceledOnRequest, Alive, IsActive
    <2>2. ASSUME NEW j \in Jobs, cancel_job(j) \/ JobStep(j)  PROVE JobsInductive'
      BY <2>2, CancelInductive, StepInductive
    <2> QED  BY <2>1, <2>2, StartInductive, RestartInductive DEF DatasetNext
  <1> QED  BY JobsInitInductive, <1>1, PTL DEF DatasetSpec

\* Two jobs never work on the data set at once, a start is turned away while one
\* does, the files tell of it as long as no thread is lost, and a canceled job
\* stores one more update at most (_start_job, _persist_job, check_cancel).
THEOREM JobsOrderly ==
  ASSUME DatasetAssumption
  PROVE  DatasetSpec => []JobsAreOrderly
  <1>1. JobsInductive => JobsAreOrderly
    <2> SUFFICES ASSUME JobsInductive PROVE JobsAreOrderly
      OBVIOUS
    <2>1. Cardinality(Alive) <= 1
      <3>1. CASE Alive = {}
        BY <3>1, FS_EmptySet
      <3>2. CASE Alive # {}
        <4>1. PICK j \in Alive : Alive = {j}
          BY <3>2 DEF JobsInductive, OneAtWork
        <4> QED  BY <4>1, FS_Singleton
      <3> QED  BY <3>1, <3>2
    <2>2. Alive # {} => active # 0
      BY DEF JobsInductive, OneAtWork
    <2>3. orphans = {} => {j \in Jobs : IsActive(j)} = Alive /\ Alive = {active} \ {0}
      BY DEF JobsInductive, OneAtWork, FilesTell, Alive
    <2> QED  BY <2>1, <2>2, <2>3 DEF JobsInductive, LateOnce, CanceledOnRequest, JobsAreOrderly
  <1> QED  BY <1>1, JobsInductiveInvariant, PTL

\* No late update, cancellation or repetition changes the status of a job that has
\* ended (cancel_job asks for an active one; a thread's own job is active).
THEOREM EndedStays ==
  ASSUME DatasetAssumption
  PROVE  DatasetSpec => [][EndedJobsStay]_datasetVars
  <1> USE DatasetAssumption
  <1>1. JobsInductive /\ [DatasetNext]_datasetVars => [EndedJobsStay]_datasetVars
    <2> SUFFICES ASSUME JobsInductive, DatasetNext, NEW j \in Jobs, history[j].status \in Terminal
                 PROVE  history'[j].status \in {history[j].status, "unknown"}
      BY DEF EndedJobsStay
    <2>1. ~IsActive(j) /\ j \notin Alive /\ j <= created
      BY DEF IsActive, Active, Terminal, JobsInductive, OneAtWork, NotStarted, Unknown, DatasetTypeOK, Jobs
    <2>2. history \in [Jobs -> Records] /\ created \in Nat
      BY DEF JobsInductive, DatasetTypeOK, DatasetAssumption
    <2>3. CASE start_job
      BY <2>1, <2>2, <2>3 DEF start_job, Persist, Jobs
    <2>4. ASSUME NEW k \in Jobs, cancel_job(k)  PROVE history'[j] = history[j]
      BY <2>1, <2>2, <2>4 DEF cancel_job
    <2>5. ASSUME NEW k \in Jobs, JobStep(k)  PROVE history'[j] = history[j]
      <3>1. thread[k].at # "none" /\ k # j
        BY <2>1, <2>5 DEF JobStep, begin, check_cancel, report, complete, canceled, fail, At, Alive
      <3>2. history' = history \/ \E record : history' = [history EXCEPT ![k] = record]
        BY <2>5 DEF JobStep, begin, check_cancel, report, complete, canceled, fail, Persist, files
      <3> QED  BY <2>2, <3>1, <3>2
    <2>6. CASE restart
      <3>1. Unstored(j) = {}
        BY <2>1, <2>2 DEF Unstored, At, Alive
      <3>2. CASE UNCHANGED files
        BY <3>2 DEF files
      <3>3. ASSUME NEW k \in Jobs, NEW record \in Unstored(k),
                   \/ history' = [i \in Jobs |-> Unknown]
                   \/ history' = [history EXCEPT ![k] = record]
            PROVE  history'[j].status \in {history[j].status, "unknown"}
        BY <2>2, <3>1, <3>3 DEF Unknown
      <3> QED  BY <2>6, <3>2, <3>3 DEF restart
    <2> QED  BY <2>3, <2>4, <2>5, <2>6 DEF DatasetNext
  <1> QED  BY <1>1, JobsInductiveInvariant, PTL DEF DatasetSpec
=============================================================================
