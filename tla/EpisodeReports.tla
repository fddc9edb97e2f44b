---------------------------- MODULE EpisodeReports ----------------------------
(***************************************************************************)
(* The high-risk episodes of an event and what is written about them: the  *)
(* handlers that ingest data open and close an episode with the hazard     *)
(* level, one background thread writes the postmortem of a closed episode  *)
(* and another the report of the day before, and both put them into the    *)
(* copilot sessions of the event, as does the creation of a session        *)
(* (v2/reporting.py, platform_event_ops.py, copilot_orchestrator.py and    *)
(* storage/memory_repository.py).                                          *)
(*                                                                         *)
(* One event, one day.  Levels: 0 stands for all below orange, 1 and 2 for *)
(* orange and red.  What the papers say is left out.                       *)
(***************************************************************************)
EXTENDS Naturals, Sequences, FiniteSets

CONSTANTS
  Handlers,          \* requests that ingest data
  Sessions,          \* sessions that may be created
  Levels,            \* levels the data may lead to
  MaxEpisodes,       \* bound: episodes
  MaxReports,        \* bound: reports written
  MaxFailures        \* bound: failures of a step, and ends of the process

ASSUME EpisodeAssumption ==
  /\ Levels \subseteq 0..2
  /\ MaxEpisodes \in Nat \ {0} /\ {MaxReports, MaxFailures} \subseteq Nat

VARIABLES
  level,        \* level of the stored hazard state
  handler,      \* for each handler [at, previous, level, open]
  episodes,     \* the stored episodes [status, peak], oldest first
  summaries,    \* episodes with a stored summary
  memories,     \* episodes with a long-term memory
  reports,      \* number of reports stored for the day
  ran,          \* the record of the day's run is stored
  writer,       \* for each background thread [at, paper, copy, todo]
  session,      \* for each session "absent", "saved", "reported" or "ready"
  inbox,        \* for each session and paper the copies among its messages
  failures,     \* counter for the bound
  overlapped,   \* history: two handlers were at work at once
  missed        \* history: papers whose delivery was cut off

ingestVars == <<level, handler, episodes, overlapped>>
paperVars == <<summaries, memories, reports, ran, writer, missed>>
sessionVars == <<session, inbox>>
episodeVars == <<ingestVars, paperVars, sessionVars, failures>>

Writers == {"postmortem", "daily"}
Papers == ({"summary"} \X (1..MaxEpisodes)) \cup ({"report"} \X (1..MaxReports))
NoPaper == <<"none", 0>>
NoEpisode == [status |-> "none", peak |-> 0]

Away == [at |-> "away", previous |-> 0, level |-> 0, open |-> <<>>]
Resting == [at |-> "resting", paper |-> NoPaper, copy |-> NoEpisode, todo |-> {}]

EpisodeInit ==
  /\ level = 0 /\ handler = [h \in Handlers |-> Away] /\ episodes = <<>>
  /\ summaries = {} /\ memories = {} /\ reports = 0 /\ ran = FALSE
  /\ writer = [w \in Writers |-> Resting]
  /\ session = [s \in Sessions |-> "absent"]
  /\ inbox = [s \in Sessions |-> [p \in Papers |-> 0]]
  /\ failures = 0 /\ overlapped = FALSE /\ missed = {}

Busy == {h \in DOMAIN handler : handler[h].at # "away"}
Open == {i \in DOMAIN episodes : episodes[i].status = "open"}

(***************************************************************************)
(* ingest_observations and ingest_simulation_update.                       *)
(***************************************************************************)
Handles(h, next) == handler' = [handler EXCEPT ![h] = next]

\* The stored level is read, then the level of the new data is stored.
read_level(h) ==
  \E l \in Levels :
    /\ handler[h].at = "away"
    /\ Handles(h, [at |-> "read", previous |-> level, level |-> l, open |-> <<>>])
    /\ overlapped' = (overlapped \/ Busy # {})
    /\ UNCHANGED <<level, episodes, paperVars, sessionVars, failures>>

store_level(h) ==
  /\ handler[h].at = "read"
  /\ level' = handler[h].level /\ Handles(h, [handler[h] EXCEPT !.at = "stored"])
  /\ UNCHANGED <<episodes, overlapped, paperVars, sessionVars, failures>>

\* sync_risk_transition reads the open episodes, newest first; the copies are of now.
list_open(h) ==
  /\ handler[h].at = "stored"
  /\ Handles(h, [handler[h] EXCEPT !.at = "listed",
                   !.open = [i \in DOMAIN episodes |->
                               IF i \in Open THEN episodes[i] ELSE NoEpisode]])
  /\ UNCHANGED <<level, episodes, overlapped, paperVars, sessionVars, failures>>

\* Then it opens one, raises the peak of the newest, or closes them all: whole rows
\* made from the copies.
sync_risk_transition(h) ==
  LET copies == handler[h].open
      seen   == {i \in DOMAIN copies : copies[i] # NoEpisode}
      newest == CHOOSE i \in seen : \A k \in seen : k <= i
      l      == handler[h].level
  IN  /\ handler[h].at = "listed"
      /\ l > 0 /\ seen = {} => Len(episodes) < MaxEpisodes
      /\ episodes' =
           CASE l > 0 /\ seen = {} -> Append(episodes, [status |-> "open", peak |-> l])
             [] l > 0 /\ seen # {} ->
                  IF l > copies[newest].peak
                  THEN [episodes EXCEPT ![newest] = [copies[newest] EXCEPT !.peak = l]]
                  ELSE episodes
             [] l = 0 /\ handler[h].previous > 0 ->
                  [i \in DOMAIN episodes |->
                     IF i \in seen THEN [copies[i] EXCEPT !.status = "closed"] ELSE episodes[i]]
             [] OTHER -> episodes
      /\ Handles(h, Away)
      /\ UNCHANGED <<level, overlapped, paperVars, sessionVars, failures>>

\* A step of the handler fails: the simulation's agent run, a locked table.
ingest_fails(h) ==
  /\ handler[h].at # "away" /\ failures < MaxFailures
  /\ failures' = failures + 1 /\ Handles(h, Away)
  /\ UNCHANGED <<level, episodes, overlapped, paperVars, sessionVars>>

(***************************************************************************)
(* The background threads.                                                 *)
(***************************************************************************)
Writes(w, next) == writer' = [writer EXCEPT ![w] = next]
Is(w, where) == writer[w].at = where

\* list_pending_v2_episode_summaries: closed, and without a summary; oldest first.
Pending == {i \in DOMAIN episodes : episodes[i].status = "closed"} \ summaries

\* Seeded fault: the episode is settled before its summary is stored.
take_episode_marked ==
  /\ Is("postmortem", "resting") /\ Pending # {}
  /\ LET i == CHOOSE i \in Pending : \A k \in Pending : i <= k
     IN  /\ Writes("postmortem", [at |-> "summarise", paper |-> <<"summary", i>>,
                                  copy |-> episodes[i], todo |-> {}])
         /\ episodes' = [episodes EXCEPT ![i].status = "summarized"]
  /\ UNCHANGED <<level, handler, overlapped, summaries, memories, reports, ran, missed,
                 sessionVars, failures>>

\* EventPostmortemService.run_once, for one episode.
take_episode ==
  /\ Is("postmortem", "resting") /\ Pending # {}
  /\ LET i == CHOOSE i \in Pending : \A k \in Pending : i <= k
     IN  Writes("postmortem", [at |-> "summarise", paper |-> <<"summary", i>>,
                               copy |-> episodes[i], todo |-> {}])
  /\ UNCHANGED <<ingestVars, summaries, memories, reports, ran, missed, sessionVars, failures>>

Episode == writer["postmortem"].paper[2]

save_summary ==
  /\ Is("postmortem", "summarise")
  /\ summaries' = summaries \cup {Episode}
  /\ Writes("postmortem", [writer["postmortem"] EXCEPT !.at = "settle"])
  /\ UNCHANGED <<ingestVars, memories, reports, ran, missed, sessionVars, failures>>

settle_episode ==
  /\ Is("postmortem", "settle")
  /\ episodes' = [episodes EXCEPT ![Episode] =
                    [writer["postmortem"].copy EXCEPT !.status = "summarized"]]
  /\ Writes("postmortem", [writer["postmortem"] EXCEPT !.at = "memorise"])
  /\ UNCHANGED <<level, handler, overlapped, summaries, memories, reports, ran, missed,
                 sessionVars, failures>>

save_memory ==
  /\ Is("postmortem", "memorise")
  /\ memories' = memories \cup {Episode}
  /\ Writes("postmortem", [writer["postmortem"] EXCEPT !.at = "list"])
  /\ UNCHANGED <<ingestVars, summaries, reports, ran, missed, sessionVars, failures>>

\* DailySummaryService.run_once: unless the day has its run record.
write_report ==
  /\ Is("daily", "resting") /\ ~ran /\ reports < MaxReports
  /\ reports' = reports + 1
  /\ Writes("daily", [at |-> "list", paper |-> <<"report", reports + 1>>,
                      copy |-> NoEpisode, todo |-> {}])
  /\ UNCHANGED <<ingestVars, summaries, memories, ran, missed, sessionVars, failures>>

\* Seeded fault: sessions that are still being set up are left out.
list_sessions_ready(w) ==
  /\ Is(w, "list")
  /\ Writes(w, [writer[w] EXCEPT !.at = "deliver",
                  !.todo = {s \in Sessions : session[s] = "ready"}])
  /\ UNCHANGED <<ingestVars, summaries, memories, reports, ran, missed, sessionVars, failures>>

\* _deliver_event_message: the sessions of now, one after the other.
list_sessions(w) ==
  /\ Is(w, "list")
  /\ Writes(w, [writer[w] EXCEPT !.at = "deliver",
                  !.todo = {s \in Sessions : session[s] # "absent"}])
  /\ UNCHANGED <<ingestVars, summaries, memories, reports, ran, missed, sessionVars, failures>>

deliver(w) ==
  \E s \in writer[w].todo :
    /\ Is(w, "deliver")
    /\ inbox' = [inbox EXCEPT ![s][writer[w].paper] = @ + 1]
    /\ Writes(w, [writer[w] EXCEPT !.todo = @ \ {s}])
    /\ UNCHANGED <<ingestVars, summaries, memories, reports, ran, missed, session, failures>>

finish(w) ==
  /\ Is(w, "deliver") /\ writer[w].todo = {}
  /\ Writes(w, Resting) /\ ran' = (ran \/ w = "daily")
  /\ UNCHANGED <<ingestVars, summaries, memories, reports, missed, sessionVars, failures>>

\* A step fails and the loop notes it, or the process ends: the thread comes back at
\* the next poll and starts from what is stored.
Undelivered == {writer[w].paper : w \in {v \in Writers : ~Is(v, "resting")}}

writer_fails(w) ==
  /\ ~Is(w, "resting") /\ failures < MaxFailures
  /\ failures' = failures + 1 /\ Writes(w, Resting)
  /\ missed' = missed \cup {writer[w].paper}
  /\ UNCHANGED <<ingestVars, summaries, memories, reports, ran, sessionVars>>

(***************************************************************************)
(* bootstrap_session: the session is stored, then the reports and the      *)
(* summaries of the event are read and become its first messages.          *)
(***************************************************************************)
create_session(s) ==
  /\ session[s] = "absent" /\ session' = [session EXCEPT ![s] = "saved"]
  /\ UNCHANGED <<ingestVars, paperVars, inbox, failures>>

Receives(s, papers) ==
  inbox' = [inbox EXCEPT ![s] = [p \in Papers |-> @[p] + IF p \in papers THEN 1 ELSE 0]]

backfill_reports(s) ==
  /\ session[s] = "saved" /\ session' = [session EXCEPT ![s] = "reported"]
  /\ Receives(s, {"report"} \X (1..reports))
  /\ UNCHANGED <<ingestVars, paperVars, failures>>

backfill_summaries(s) ==
  /\ session[s] = "reported" /\ session' = [session EXCEPT ![s] = "ready"]
  /\ Receives(s, {"summary"} \X summaries)
  /\ UNCHANGED <<ingestVars, paperVars, failures>>

(***************************************************************************)
(* The process ends and starts again.                                      *)
(***************************************************************************)
restart_process ==
  /\ failures < MaxFailures /\ failures' = failures + 1
  /\ handler' = [h \in Handlers |-> Away] /\ writer' = [w \in Writers |-> Resting]
  /\ session' = [s \in Sessions |-> IF session[s] = "ready" THEN "ready" ELSE
                                    IF session[s] = "absent" THEN "absent" ELSE "lost"]
  /\ missed' = missed \cup Undelivered
  /\ UNCHANGED <<level, episodes, overlapped, summaries, memories, reports, ran, inbox>>

Postmortem == take_episode \/ save_summary \/ settle_episode \/ save_memory
                \/ list_sessions("postmortem") \/ deliver("postmortem") \/ finish("postmortem")
Daily == write_report \/ list_sessions("daily") \/ deliver("daily") \/ finish("daily")

EpisodeNext ==
  \/ \E h \in Handlers : \/ read_level(h) \/ store_level(h) \/ list_open(h)
                         \/ sync_risk_transition(h) \/ ingest_fails(h)
  \/ Postmortem \/ Daily \/ (\E w \in Writers : writer_fails(w))
  \/ \E s \in Sessions : create_session(s) \/ backfill_reports(s) \/ backfill_summaries(s)
  \/ restart_process

\* The two loops poll for ever.
EpisodeSpec ==
  /\ EpisodeInit /\ [][EpisodeNext]_episodeVars
  /\ WF_episodeVars(Postmortem) /\ WF_episodeVars(Daily)

(***************************************************************************)
(* Properties.                                                             *)
(***************************************************************************)
\* As long as the handlers come one after the other and none is cut off, an episode
\* is open exactly while the level is high, with the highest level as its peak, and a
\* summarised episode stays so.
EpisodesFollowTheLevel ==
  ~overlapped /\ failures = 0 =>
    /\ Cardinality(Open) <= 1
    /\ Busy = {} => (level > 0 <=> Open # {})
    /\ Busy = {} => \A i \in Open : level <= episodes[i].peak
    /\ \A i \in Open : i \notin summaries

\* Whoever creates a session while papers are written gets each of them, and at most
\* twice; a delivery that was cut off may leave some without.
EveryoneIsTold ==
  /\ \A s \in DOMAIN session : \A p \in DOMAIN inbox[s] : inbox[s][p] <= 2
  /\ \A i \in summaries, s \in DOMAIN session :
       session[s] = "ready" /\ <<"summary", i>> \notin missed \cup Undelivered =>
         i \in memories /\ inbox[s][<<"summary", i>>] >= 1
  /\ \A n \in 1..reports, s \in DOMAIN session :
       session[s] = "ready" /\ <<"report", n>> \notin missed \cup Undelivered =>
         inbox[s][<<"report", n>>] >= 1
  /\ failures = 0 => reports <= 1

\* Episodes are those of the level, and the sessions hear of them: whatever fails, and
\* in whatever order the handlers and the two background threads take their turns.
EpisodesAreTold == EpisodesFollowTheLevel /\ EveryoneIsTold

\* A paper is still to be written: the summary of an episode that is over, the
\* report of the day.
PapersOwed ==
  \/ \E i \in DOMAIN episodes : episodes[i].status # "open" /\ i \notin summaries
  \/ ~ran /\ reports < MaxReports
===============================================================================
