---------------------------- MODULE TimelineChain ----------------------------
(***************************************************************************)
(* The audit timeline of the events: each entry carries the hash of the    *)
(* entry before it (flood_system/response_workflow/service.py, _record).   *)
(* The last entry is read and the new one inserted in two transactions,    *)
(* and no constraint of the table ties an entry to its predecessor.  An    *)
(* entry is abstracted to its identifier, which stands for its hash.       *)
(***************************************************************************)
EXTENDS Naturals, Sequences

CONSTANTS
  Events, Writers,   \* threads that run handlers, the worker among them
  MaxEntries         \* bound of the instance

ASSUME TimelineAssumption == "none" \notin Events /\ MaxEntries \in Nat

Genesis == 0

VARIABLES
  timeline,    \* response_timeline per event, in the order of created_at, rowid
  entryIds,    \* entry identifiers handed out
  recording,   \* the entry each thread has composed and not stored, or NoEntry
  reports,     \* status of the last integrity report per event
  overlapped   \* events two of whose entries were composed at once

timelineVars == <<timeline, entryIds, recording, reports, overlapped>>
NoEntry == [id |-> 0, event |-> "none", previous |-> 0]
Clear(w) == recording[w] = NoEntry

\* Seeded fault: the last entry of any event is taken.
NewestEntry(e) == entryIds
PreviousHash(e) == IF timeline[e] = <<>> THEN Genesis ELSE timeline[e][Len(timeline[e])].id

\* _record up to save_timeline_entry: the previous hash and the time are set.
compose(w) ==
  /\ Clear(w) /\ entryIds < MaxEntries
  /\ \E e \in Events :
       /\ recording' = [recording EXCEPT ![w] =
            [id |-> entryIds + 1, event |-> e, previous |-> PreviousHash(e)]]
       /\ overlapped' = IF \E v \in Writers : recording[v].event = e
                        THEN overlapped \cup {e} ELSE overlapped
  /\ entryIds' = entryIds + 1
  /\ UNCHANGED <<timeline, reports>>

\* save_timeline_entry.  Identifiers are handed out in the order of the
\* clock, by which list_timeline_entries sorts.
Inserted(entries, k, entry) ==
  [i \in 1..(Len(entries) + 1) |->
     IF i <= k THEN entries[i] ELSE IF i = k + 1 THEN entry ELSE entries[i - 1]]
save_timeline_entry(w) ==
  /\ ~Clear(w)
  /\ LET entry == recording[w]  entries == timeline[entry.event] IN
       \E k \in 0..Len(entries) :
         /\ \A i \in 1..k : entries[i].id < entry.id
         /\ \A i \in (k + 1)..Len(entries) : entries[i].id > entry.id
         /\ timeline' = [timeline EXCEPT ![entry.event] =
              Inserted(@, k, [id |-> entry.id, previous |-> entry.previous])]
  /\ recording' = [recording EXCEPT ![w] = NoEntry]
  /\ UNCHANGED <<entryIds, reports, overlapped>>

\* The process stops between the two: its entry is never stored.
lose(w) ==
  /\ ~Clear(w)
  /\ recording' = [recording EXCEPT ![w] = NoEntry]
  /\ UNCHANGED <<timeline, entryIds, reports, overlapped>>

\* verify_timeline_integrity; replay_event refuses unless it says "verified".
Linked(entries) ==
  \A i \in 1..Len(entries) :
    entries[i].previous = IF i = 1 THEN Genesis ELSE entries[i - 1].id
verify_timeline_integrity(e) ==
  /\ reports' = [reports EXCEPT ![e] = IF Linked(timeline[e]) THEN "verified" ELSE "failed"]
  /\ UNCHANGED <<timeline, entryIds, recording, overlapped>>

TimelineInit ==
  /\ timeline = [e \in Events |-> <<>>]
  /\ entryIds = 0
  /\ recording = [w \in Writers |-> NoEntry]
  /\ reports = [e \in Events |-> "none"]
  /\ overlapped = {}

TimelineNext ==
  \/ \E w \in Writers : compose(w) \/ save_timeline_entry(w) \/ lose(w)
  \/ \E e \in Events : verify_timeline_integrity(e)

TimelineSpec == TimelineInit /\ [][TimelineNext]_timelineVars

(***************************************************************************)
(* Properties.                                                             *)
(***************************************************************************)
\* The chain of an event fails its check only where two entries of that very
\* event were composed at once: handlers of other events, and entries lost
\* with their process, never break it.
ChainsBreakByOverlapOnly ==
  \A e \in Events : e \notin overlapped => Linked(timeline[e]) /\ reports[e] # "failed"
=============================================================================
