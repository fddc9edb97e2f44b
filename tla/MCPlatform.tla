------------------------------ MODULE MCPlatform ------------------------------
(***************************************************************************)
(* The copilot's questions, the episodes and reports of an event, and the  *)
(* jobs of the data pipeline, for TLC.  A question moves the focus of its  *)
(* own session only, papers reach sessions as messages nobody reads for a  *)
(* decision, and jobs write the data set's files: none reads what another  *)
(* writes, so each is explored alone; scope says which, and in which small *)
(* instance.                                                               *)
(***************************************************************************)
EXTENDS CopilotTurn, DatasetJobs, EpisodeReports

VARIABLE scope

vars == <<copilotVars, datasetVars, episodeVars, scope>>

(***************************************************************************)
(* The instances.                                                          *)
(***************************************************************************)
\* Questions about an object, as many rounds as the code allows, the jobs and the
\* episodes are CopilotTurn, DatasetJobs and EpisodeReports themselves, with the
\* constants of platform.cfg: a job that is repeated once, another after it, the
\* process ends twice; a session created while two episodes are summarised and a
\* step fails.
\* Questions for a route, with one more round.
Route == INSTANCE CopilotTurn WITH
  Rankings <- {"home"}, Routing <- {TRUE}, MaxReplan <- 1

\* Two handlers overtake each other.
Overtaken == INSTANCE EpisodeReports WITH
  Handlers <- {"h1", "h2"}, Sessions <- {}, Levels <- {0, 1, 2},
  MaxEpisodes <- 1, MaxReports <- 0, MaxFailures <- 0
\* Two sessions are created while the report is written, perhaps twice.
Report == INSTANCE EpisodeReports WITH
  Handlers <- {}, Sessions <- {"s1", "s2"}, Levels <- {0},
  MaxEpisodes <- 1, MaxReports <- 2, MaxFailures <- 1

ASSUME /\ CopilotAssumption /\ Route!CopilotAssumption
       /\ DatasetAssumption
       /\ Overtaken!EpisodeAssumption
       /\ Report!EpisodeAssumption

(***************************************************************************)
(* Specification.                                                          *)
(***************************************************************************)
Init ==
  /\ scope \in {"ask", "route", "jobs", "overtaken", "told", "report"}
  /\ IF scope = "ask" THEN CopilotInit ELSE Route!CopilotInit
  /\ scope \notin {"ask", "route"} => focus = "none"
  /\ DatasetInit
  /\ CASE scope = "told"   -> EpisodeInit
       [] scope = "report" -> Report!EpisodeInit
       [] OTHER            -> Overtaken!EpisodeInit

Next ==
  /\ \/ /\ \/ scope = "ask"   /\ CopilotNext
           \/ scope = "route" /\ Route!CopilotNext
        /\ UNCHANGED <<datasetVars, episodeVars>>
     \/ /\ scope = "jobs" /\ DatasetNext
        /\ UNCHANGED <<copilotVars, episodeVars>>
     \/ /\ \/ scope = "overtaken" /\ Overtaken!EpisodeNext
           \/ scope = "told"      /\ EpisodeNext
           \/ scope = "report"    /\ Report!EpisodeNext
        /\ UNCHANGED <<copilotVars, datasetVars>>
  /\ UNCHANGED scope

\* The steps that are owed, those of the instances' specifications.
Turn ==
  /\ \/ scope = "ask"   /\ TurnStep
     \/ scope = "route" /\ Route!TurnStep
  /\ UNCHANGED <<datasetVars, episodeVars, scope>>
JobRuns(j) ==
  /\ scope = "jobs" /\ JobStep(j)
  /\ UNCHANGED <<copilotVars, episodeVars, scope>>
Summarising ==
  /\ \/ scope = "overtaken" /\ Overtaken!Postmortem
     \/ scope = "told"      /\ Postmortem
     \/ scope = "report"    /\ Report!Postmortem
  /\ UNCHANGED <<copilotVars, datasetVars, scope>>
Reporting ==
  /\ \/ scope = "overtaken" /\ Overtaken!Daily
     \/ scope = "told"      /\ Daily
     \/ scope = "report"    /\ Report!Daily
  /\ UNCHANGED <<copilotVars, datasetVars, scope>>

Fairness ==
  /\ WF_vars(Turn)
  /\ \A j \in Jobs : WF_vars(JobRuns(j))
  /\ WF_vars(Summarising) /\ WF_vars(Reporting)

Spec == Init /\ [][Next]_vars /\ Fairness

(***************************************************************************)
(* The properties, each stated where its component is.  CopilotTurn,       *)
(* DatasetJobs and EpisodeReports bring TargetIsKept, JobsAreOrderly and   *)
(* EpisodesAreTold, which depend on no constant that differs between the   *)
(* instances.                                                              *)
(***************************************************************************)
\* A question is being answered, a job is active.
UnderWay ==
  \/ scope \in {"ask", "route"} /\ Working
  \/ scope = "jobs" /\ orphans = {} /\ AtWork
\* A question is answered or given up (CopilotTurn), a job ends and stays ended
\* (DatasetJobs).
WorkEnds ==
  /\ UnderWay ~> ~UnderWay
  /\ [][EndedJobsStay]_vars

\* An episode that is over gets its summary, and the day its report, whatever fails
\* in between - unless overtaken handlers leave an episode closed and open again.
Owed ==
  \/ scope = "told" /\ PapersOwed
  \/ scope = "report" /\ Report!PapersOwed
  \/ scope = "overtaken" /\ Overtaken!PapersOwed
PapersAreWritten == Owed ~> ~Owed \/ overlapped
===============================================================================
