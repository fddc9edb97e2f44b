------------------------------ MODULE CopilotTurn -----------------------------
(***************************************************************************)
(* One question put to the copilot of the legacy platform: the rule plan,  *)
(* the rounds of tools that carry it out, the review that asks for another *)
(* round or settles the kind of answer, and the memory the next question   *)
(* starts from (v2/copilot_orchestrator.py, execution_engine.py,           *)
(* planner.py, tools.py, memory_store.py).  Meanwhile other requests       *)
(* recompute the hazard, and with it which object is exposed most.         *)
(*                                                                         *)
(* Of the tools only those are kept whose result decides what happens      *)
(* next; profile, knowledge, shelters, policy and the draft (which never   *)
(* holds a proposal: draft_action_proposal returns None) only supply text. *)
(***************************************************************************)
EXTENDS Naturals, Sequences, FiniteSets

CONSTANTS
  Entities,          \* the objects of the event's area
  HighRisk,          \* those of a type under high-risk governance
  NoOne,             \* no object
  Rankings,          \* what may be exposed most: objects, or NoOne for none
  Routing,           \* whether questions ask for routes
  MaxReplan          \* MAX_REPLAN_ROUNDS

CopilotAssumption ==
  /\ HighRisk \subseteq Entities /\ NoOne \notin Entities
  /\ "absent" \notin Entities \cup {NoOne}
  /\ Rankings \subseteq Entities \cup {NoOne} /\ Routing \subseteq BOOLEAN
  /\ MaxReplan \in Nat

VARIABLES
  exposed,      \* the most exposed object, or NoOne
  focus,        \* the object the session's memory keeps, or NoOne
  question,     \* [mode, hint, route] of the question at work
  stage,        \* where the turn is; "idle" between two turns
  round,        \* replan_round
  plan,         \* selected_tools
  pending,      \* tools of the stage that have not finished
  retried,      \* those of them whose first attempt timed out
  failed,       \* required tools with a failed attempt in this round
  succeeded,    \* tools that succeeded in this round (a reuse is not a success)
  outputs,      \* for each tool what its output is about, or Absent
  answer,       \* completion status of the last turn, "none" before it
  moved,        \* history: the exposure changed during the turn
  unresolved    \* history: a resolution of the target failed in the turn

roundVars == <<plan, pending, retried, failed, succeeded, outputs>>
turnVars == <<question, stage, round, roundVars, answer>>
historyVars == <<moved, unresolved>>
copilotVars == <<exposed, focus, turnVars, historyVars>>

(***************************************************************************)
(* Tools.                                                                  *)
(***************************************************************************)
Tools == {"resolve_target_entity", "get_exposure_summary", "get_hazard_tiles",
          "synthesize_entity_impact", "get_route_options", "get_live_traffic"}

Absent == "absent"

\* retry_policy: a second attempt after a timeout, but not for the resolution.
MayRetry(tool) == tool # "resolve_target_entity" /\ tool \notin retried

\* Seeded fault: the ranking before the resolution.
Target_ranked ==
  LET found == {outputs["resolve_target_entity"]} \ {Absent}
      ranked == {outputs["get_exposure_summary"]} \ {Absent, NoOne}
  IN  IF ranked # {} THEN CHOOSE e \in ranked : TRUE
      ELSE IF found # {} THEN CHOOSE e \in found : TRUE
      ELSE question.hint

\* _resolved_entity_id: the resolution of this or an earlier round, else the head
\* of the exposure ranking, else the object the plan was made for.
Target ==
  LET found == {outputs["resolve_target_entity"]} \ {Absent}
      ranked == {outputs["get_exposure_summary"]} \ {Absent, NoOne}
  IN  IF found # {} THEN CHOOSE e \in found : TRUE
      ELSE IF ranked # {} THEN CHOOSE e \in ranked : TRUE
      ELSE question.hint

\* What an output of the tool is about.
Subject(tool) ==
  CASE tool = "resolve_target_entity" -> IF question.hint # NoOne THEN question.hint ELSE exposed
    [] tool = "get_exposure_summary" -> exposed
    [] tool \in {"synthesize_entity_impact", "get_route_options"} -> Target
    [] OTHER -> NoOne

(***************************************************************************)
(* The plan.                                                               *)
(***************************************************************************)
\* An object the question names; the one the memory keeps; otherwise whichever is
\* exposed most, among all or of the kind it names (_resolve_target_hint).
Questions ==
  {q \in [mode : {"explicit", "memory_focus", "open"},
          hint : Entities \cup {NoOne}, route : Routing] :
     CASE q.mode = "explicit"     -> q.hint # NoOne
       [] q.mode = "memory_focus" -> focus # NoOne /\ q.hint = focus
       [] OTHER                   -> q.hint = NoOne}

\* Exposure is looked up unless the question names its object.
Required(q) == {"resolve_target_entity", "get_hazard_tiles"}
               \cup IF q.mode = "explicit" THEN {} ELSE {"get_exposure_summary"}

RulePlan(q) ==
  Required(q) \cup {"synthesize_entity_impact"}
  \cup IF q.route THEN {"get_route_options", "get_live_traffic"} ELSE {}

\* The tools of a stage of _execute_round, given what the stages before it found.
StageTools(s, p) ==
  p \cap CASE s = "resolve"   -> {"resolve_target_entity"}
           [] s = "exposure"  -> {"get_exposure_summary"}
           [] s = "context"   -> {"get_hazard_tiles"}
           [] s = "impact"    -> IF Target # NoOne THEN {"synthesize_entity_impact"} ELSE {}
           [] s = "secondary" -> {"get_live_traffic"}
                                 \cup IF Target # NoOne THEN {"get_route_options"} ELSE {}
           [] OTHER           -> {}

Order == <<"resolve", "exposure", "context", "impact", "secondary", "review">>
Following(s) == Order[1 + CHOOSE i \in 1..Len(Order) : Order[i] = s]

\* A round starts over with the resolution of its target.
StartRound(p) ==
  /\ plan' = p /\ stage' = "resolve" /\ pending' = StageTools("resolve", p)
  /\ retried' = {} /\ failed' = {} /\ succeeded' = {}

(***************************************************************************)
(* Actions.                                                                *)
(***************************************************************************)
NoOutputs == [tool \in Tools |-> Absent]
NoQuestion == [mode |-> "open", hint |-> NoOne, route |-> FALSE]

\* A turn that has ended leaves its messages and records behind, and no state.
EndTurn ==
  /\ question' = NoQuestion /\ stage' = "idle" /\ round' = 0 /\ plan' = {} /\ pending' = {}
  /\ retried' = {} /\ failed' = {} /\ succeeded' = {} /\ outputs' = NoOutputs
  /\ answer' = "none" /\ moved' = FALSE /\ unresolved' = FALSE

CopilotInit ==
  /\ exposed \in Rankings /\ focus \in Entities \cup {NoOne}
  /\ question = NoQuestion /\ stage = "idle" /\ round = 0 /\ plan = {} /\ pending = {}
  /\ retried = {} /\ failed = {} /\ succeeded = {} /\ outputs = NoOutputs /\ answer = "none"
  /\ moved = FALSE /\ unresolved = FALSE

\* answer: the rule plan, and the tools the language model adds to it (merge), of
\* which only the exposure ranking matters to the target or to a gap.
ask ==
  \E q \in Questions, added \in SUBSET {"get_exposure_summary"} :
    /\ stage = "idle"
    /\ question' = q /\ StartRound(RulePlan(q) \cup added)
    /\ UNCHANGED <<exposed, focus, round, outputs, answer, historyVars>>

\* _maybe_cached_tool: an output of an earlier round is taken over, whatever the
\* arguments are now and however the tool had ended.
Cached(tool) ==
  tool # "resolve_target_entity" /\ tool \notin retried /\ outputs[tool] # Absent
reuse_tool(tool) ==
  /\ tool \in pending /\ Cached(tool)
  /\ pending' = pending \ {tool}
  /\ UNCHANGED <<exposed, focus, question, stage, round, plan, retried, failed, succeeded,
                 outputs, answer, historyVars>>

\* _run_tool: an attempt that succeeds; one that took too long, or read data older
\* than its budget, and keeps its output all the same (but for the resolution's);
\* an exception, which is retried when its message speaks of a timeout.
run_tool(tool) ==
  \E status \in {"success", "late", "stale", "timed_out", "raised"} :
    LET again == status \in {"late", "timed_out"} /\ MayRetry(tool)
        kept  == CASE status = "success" -> TRUE
                   [] status \in {"late", "stale"} -> tool # "resolve_target_entity"
                   [] OTHER -> FALSE
    IN  /\ tool \in pending /\ ~Cached(tool)
        /\ tool = "resolve_target_entity" =>
             /\ status # "stale"
             /\ question.hint = NoOne /\ exposed = NoOne => status = "raised"
        /\ pending' = IF again THEN pending ELSE pending \ {tool}
        /\ retried' = IF again THEN retried \cup {tool} ELSE retried \ {tool}
        /\ outputs' = IF kept /\ ~again THEN [outputs EXCEPT ![tool] = Subject(tool)] ELSE outputs
        /\ succeeded' = IF status = "success" THEN succeeded \cup {tool} ELSE succeeded
        /\ failed' = IF status = "success" THEN failed
                     ELSE failed \cup ({tool} \cap Required(question))
        /\ unresolved' = (unresolved \/ (tool = "resolve_target_entity" /\ status # "success"))
        /\ UNCHANGED <<exposed, focus, question, stage, round, plan, answer, moved>>

next_stage ==
  /\ stage \notin {"idle", "review", "answer", "reply"} /\ pending = {}
  /\ stage' = Following(stage) /\ pending' = StageTools(Following(stage), plan)
  /\ UNCHANGED <<exposed, focus, question, round, plan, retried, failed, succeeded, outputs,
                 answer, historyVars>>

(***************************************************************************)
(* The review.                                                             *)
(***************************************************************************)
Impact == outputs["synthesize_entity_impact"]

\* The gaps of the evidence, each of which asks for another round.  A hazard state
\* past the freshness threshold is past the tool's budget too, a failure.
Gaps ==
  failed
  \cup (IF outputs["resolve_target_entity"] = Absent THEN {"target"} ELSE {})
  \cup (IF question.route THEN {"get_route_options", "get_live_traffic"} \ succeeded ELSE {})
  \cup (IF Impact = Absent THEN {"impact"} ELSE {})

\* _assess_round: an impact on an object of high risk goes to a human at once.
Escalates == Impact \in HighRisk
Status == IF Escalates THEN "human_escalation"
          ELSE IF Gaps = {} THEN "direct_answer" ELSE "conservative_answer"

\* replan: tools for the gaps that name them.
Replanned ==
  plan \cup (IF Gaps \cap {"resolve_target_entity", "target"} # {}
             THEN {"get_exposure_summary"} ELSE {})
       \cup (Gaps \cap {"get_route_options", "get_live_traffic"})

\* Seeded fault: the rounds are not counted.
replan_uncounted ==
  /\ stage = "review" /\ Gaps # {} /\ ~Escalates /\ round < MaxReplan
  /\ StartRound(Replanned)
  /\ UNCHANGED <<exposed, focus, question, round, outputs, answer, historyVars>>

\* run_agent_loop: another round with the plan for the gaps, as long as there may be one.
replan ==
  /\ stage = "review" /\ Gaps # {} /\ ~Escalates /\ round < MaxReplan
  /\ round' = round + 1 /\ StartRound(Replanned)
  /\ UNCHANGED <<exposed, focus, question, outputs, answer, historyVars>>

settle ==
  /\ stage = "review" /\ (Gaps = {} \/ Escalates \/ round >= MaxReplan)
  /\ stage' = "answer" /\ answer' = Status
  /\ UNCHANGED <<exposed, focus, question, round, roundVars, historyVars>>

\* apply_answer: the object whose impact was found becomes the session's focus.
apply_answer ==
  /\ stage = "answer"
  /\ stage' = "reply" /\ focus' = IF Impact = Absent THEN focus ELSE Impact
  /\ UNCHANGED <<exposed, question, round, roundVars, answer, historyVars>>

\* The answer becomes a message of the session.
reply ==
  /\ stage = "reply" /\ EndTurn
  /\ UNCHANGED <<exposed, focus>>

\* The handler raises (the language model that words the answer cannot be reached,
\* a table is locked) or the process stops: the question stays unanswered.
abandon ==
  /\ stage # "idle" /\ EndTurn
  /\ UNCHANGED <<exposed, focus>>

\* Another request ingests observations, and another object is exposed most.
observe ==
  /\ exposed' \in Rankings \ {exposed}
  /\ moved' = (stage # "idle")
  /\ UNCHANGED <<focus, turnVars, unresolved>>

TurnStep ==
  \/ \E tool \in Tools : reuse_tool(tool) \/ run_tool(tool)
  \/ next_stage \/ replan \/ settle \/ apply_answer \/ reply

CopilotNext == ask \/ TurnStep \/ abandon \/ observe

\* The request's thread goes on until the question is answered.
CopilotSpec == CopilotInit /\ [][CopilotNext]_copilotVars /\ WF_copilotVars(TurnStep)

(***************************************************************************)
(* Properties.                                                             *)
(***************************************************************************)
Working == stage # "idle"
Objects == {outputs[tool] : tool \in {"synthesize_entity_impact", "get_route_options"}} \ {Absent}

\* As long as every round resolved its target, whatever else failed, was retried
\* or was taken over from a round before, impact and routes are about the object
\* the plan was made for; without such an object they are about one and the same
\* unless the ranking changed in the middle of the turn.  A question about an
\* object of high risk then ends with a human or without an impact.
TargetIsKept ==
  Working /\ ~unresolved =>
    /\ question.hint # NoOne => Objects \subseteq {question.hint}
    /\ ~moved => Cardinality(Objects) <= 1
    /\ stage \in {"answer", "reply"} /\ question.hint \in HighRisk =>
         answer = "human_escalation" \/ Impact = Absent

\* Every question is answered or given up: rounds and attempts run out.
TurnEnds == Working ~> ~Working
===============================================================================
