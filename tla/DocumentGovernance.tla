-------------------------- MODULE DocumentGovernance --------------------------
(***************************************************************************)
(* The versions of one policy document: registered, parsed, published into *)
(* the retrieval index, superseded and retired (flood_system/              *)
(* response_workflow/service.py, document_governance.py, rag_runtime.py).  *)
(*                                                                         *)
(* The status of a version is the last event of its history, and what      *)
(* retrieval sees is another store, a file read and rewritten as a whole;  *)
(* no transaction spans the two.  Handlers read, and leave in              *)
(* documentCalls[p] the calls they still make; some of those read again.   *)
(***************************************************************************)
EXTENDS Naturals, Sequences, FiniteSets, SequencesExt

CONSTANTS
  Sources,       \* source files that may be registered
  Unparsable,    \* those parse_document_source rejects
  Parsers,       \* parser_version labels a client may send; Current is the default
  Current,
  Perishable,    \* version numbers with an expires_at
  Librarians,    \* request threads
  MaxVersions, MaxHistory, MaxFailures, MaxDocumentStops  \* bounds

ASSUME DocumentAssumption ==
  /\ Unparsable \subseteq Sources /\ Current \in Parsers /\ IsFiniteSet(Librarians)
  /\ {MaxVersions, MaxHistory, MaxFailures, MaxDocumentStops} \subseteq Nat

VARIABLES
  versions,       \* response_document_versions: [source, replaces], by version_number
  lifecycle,      \* response_document_lifecycle_events per version
  parses,         \* response_document_parses: the parser versions, in order
  builds,         \* response_index_builds: the outcomes a version has had
  index,          \* status of a version's clauses in the runtime index
  expired,        \* versions whose expires_at has passed
  documentCalls,  \* what each thread still has to do
  failures,       \* index builds that failed
  documentStops,  \* times that handlers were broken off
  upset           \* what has come between handlers so far: see Upsets

documentVars == <<versions, lifecycle, parses, builds, index, expired, documentCalls,
                  failures, documentStops, upset>>
documentStore == <<versions, lifecycle, parses, builds, index>>
Versions == 1..MaxVersions
Registered == 1..Len(versions)
None == 0

\* _materialize_document_version.
Status(v) == Last(lifecycle[v]).status
Happened(v, status) == \E i \in DOMAIN lifecycle[v] : lifecycle[v][i].status = status
SupersededBy(v) ==
  lifecycle[v][Max({i \in DOMAIN lifecycle[v] : lifecycle[v][i].status = "superseded"})].by
Published == {v \in Registered : Status(v) = "published"}

Quiet(p) == documentCalls[p] = <<>>
Room(v) == Len(lifecycle[v]) < MaxHistory
Proceed(p, calls) == documentCalls' = [documentCalls EXCEPT ![p] = calls]
Promise(p, calls) ==
  Proceed(p, calls) /\ UNCHANGED <<documentStore, expired, failures, documentStops>>

Event(v, status, by) == [kind |-> "event", version |-> v, status |-> status, by |-> by]
Parse(v, parser)     == [kind |-> "parse", version |-> v, parser |-> parser]
Indexing(v, publishing) == [kind |-> "index", version |-> v, publishing |-> publishing]
Marking(v, status)   == [kind |-> "mark", version |-> v, status |-> status]
IndexWrite(file)     == [kind |-> "write", file |-> file]

(***************************************************************************)
(* Handlers.                                                               *)
(***************************************************************************)
\* create_document_version.  A source on record is answered with its version;
\* with auto_publish an unparsable source is refused before anything is stored.
create_document_version(p) ==
  /\ Quiet(p) /\ Len(versions) < MaxVersions
  /\ \E source \in Sources, replaces \in Registered \cup {None}, auto_publish \in BOOLEAN :
       /\ \A v \in Registered : versions[v].source # source
       /\ auto_publish => source \notin Unparsable
       /\ LET v == Len(versions) + 1
              bundle == [kind |-> "bundle", version |-> v,
                         rec |-> [source |-> source, replaces |-> replaces]]
          IN Promise(p, IF auto_publish
                        THEN <<bundle, Parse(v, Current), [kind |-> "publish", version |-> v]>>
                        ELSE <<bundle>>)

parse_document_version(p) ==
  /\ Quiet(p)
  /\ \E v \in Registered, parser \in Parsers :
       /\ Room(v) /\ Status(v) \notin {"retired", "superseded"}
       /\ Promise(p, IF versions[v].source \in Unparsable
                     THEN <<Event(v, "parse_failed", None)>>
                     ELSE <<Parse(v, parser)>>)

\* The version published before must be the one this version replaces.
ReplacesCurrent(v) ==
  Published \ {v} # {} => versions[v].replaces = Max(Published \ {v})
Publishable(v) ==
  /\ Status(v) \notin {"published", "retired", "superseded"}
  /\ parses[v] # <<>> /\ v \notin expired
  /\ ReplacesCurrent(v)
  /\ LET old == versions[v].replaces
     IN old # None /\ Status(old) = "superseded" => SupersededBy(old) = v

\* Seeded fault: publication is recorded before the index is built.
RecordedFirst(v) == <<Event(v, "published", None), Indexing(v, TRUE)>>
IndexedFirst(v)  == <<Indexing(v, TRUE), Event(v, "published", None)>>
Supersession(v) ==
  IF versions[v].replaces = None THEN <<>>
  ELSE <<[kind |-> "supersede", version |-> versions[v].replaces, by |-> v]>>
Publication(v)    == IndexedFirst(v) \o Supersession(v)

publish_document_version(p) ==
  /\ Quiet(p)
  /\ \E v \in Registered : Room(v) /\ Publishable(v) /\ Promise(p, Publication(v))

retire_document_version(p) ==
  /\ Quiet(p)
  /\ \E v \in Registered :
       /\ Room(v) /\ Status(v) # "retired"
       /\ Promise(p, <<Marking(v, "retired"), Event(v, "retired", None)>>)

create_index_build(p) ==
  /\ Quiet(p)
  /\ \E v \in Published : Promise(p, <<Indexing(v, FALSE)>>)

(***************************************************************************)
(* The calls.                                                              *)
(***************************************************************************)
Turn(p, kind) == documentCalls[p] # <<>> /\ Head(documentCalls[p]).kind = kind
Remaining(p) == Tail(documentCalls[p])

\* save_document_version_bundle: one transaction, UNIQUE version number.
save_document_version_bundle(p) ==
  /\ Turn(p, "bundle")
  /\ LET call == Head(documentCalls[p]) IN
       IF call.version <= Len(versions) \/ \E v \in Registered : versions[v].source = call.rec.source
       THEN UNCHANGED <<versions, lifecycle>> /\ Proceed(p, <<>>)
       ELSE /\ versions' = Append(versions, call.rec)
            /\ lifecycle' = [lifecycle EXCEPT ![call.version] = <<[status |-> "draft", by |-> None]>>]
            /\ Proceed(p, Remaining(p))
  /\ UNCHANGED <<parses, builds, index, expired, failures, documentStops>>

\* _save_document_parse: a parse on record is not stored again, nor its event.
reuse_document_parse(p) ==
  /\ Turn(p, "parse")
  /\ LET call == Head(documentCalls[p])
     IN Promise(p, IF Contains(parses[call.version], call.parser) THEN Remaining(p)
                   ELSE <<[call EXCEPT !.kind = "store"], Event(call.version, "parsed", None)>>
                          \o Remaining(p))

\* INSERT OR IGNORE, unique in the version, the parser and the source.
Unrecorded(v, parser) == ~Contains(parses[v], parser)
save_document_parse(p) ==
  /\ Turn(p, "store")
  /\ LET call == Head(documentCalls[p])
     IN parses' = IF Unrecorded(call.version, call.parser)
                  THEN [parses EXCEPT ![call.version] = Append(@, call.parser)] ELSE parses
  /\ Proceed(p, Remaining(p))
  /\ UNCHANGED <<versions, lifecycle, builds, index, expired, failures, documentStops>>

save_document_lifecycle_event(p) ==
  /\ Turn(p, "event")
  /\ LET call == Head(documentCalls[p])
     IN lifecycle' = [lifecycle EXCEPT ![call.version] =
                        Append(@, [status |-> call.status, by |-> call.by])]
  /\ Proceed(p, Remaining(p))
  /\ UNCHANGED <<versions, parses, builds, index, expired, failures, documentStops>>

\* publish_document_version at the end of create_document_version.
publish_created(p) ==
  /\ Turn(p, "publish")
  /\ LET v == Head(documentCalls[p]).version
     IN Proceed(p, IF Publishable(v) THEN Publication(v) ELSE <<>>)
  /\ UNCHANGED <<documentStore, expired, failures, documentStops>>

\* _build_document_index up to import_documents: the index file is read as a
\* whole, to be written back with the clauses of this version.  The build of
\* a failed import is recorded, and its event when it was a publication.
build_document_index(p) ==
  /\ Turn(p, "index")
  /\ LET call == Head(documentCalls[p]) IN
       \/ /\ Proceed(p, <<IndexWrite([index EXCEPT ![call.version] = "active"]),
                          [kind |-> "build", version |-> call.version]>> \o Remaining(p))
          /\ UNCHANGED <<builds, failures>>
       \/ /\ failures < MaxFailures /\ failures' = failures + 1
          /\ builds' = [builds EXCEPT ![call.version] = @ \cup {"failed"}]
          /\ Proceed(p, IF call.publishing THEN <<Event(call.version, "index_failed", None)>> ELSE <<>>)
  /\ UNCHANGED <<versions, lifecycle, parses, index, expired, documentStops>>

\* _set_rag_document_status, likewise; clauses that are not there stay away.
\* Seeded fault: only clauses already out of use are marked.
Withdrawn(v) == index[v] \in {"retired", "superseded"}
Indexed(v) == index[v] # "absent"
set_rag_document_status(p) ==
  /\ Turn(p, "mark")
  /\ LET call == Head(documentCalls[p])
     IN Proceed(p, IF Indexed(call.version)
                   THEN <<IndexWrite([index EXCEPT ![call.version] = call.status])>> \o Remaining(p)
                   ELSE Remaining(p))
  /\ UNCHANGED <<documentStore, expired, failures, documentStops>>

\* save_runtime_rag_documents and the reload after it.
save_runtime_rag_documents(p) ==
  /\ Turn(p, "write")
  /\ index' = Head(documentCalls[p]).file
  /\ Proceed(p, Remaining(p))
  /\ UNCHANGED <<versions, lifecycle, parses, builds, expired, failures, documentStops>>

save_index_build(p) ==
  /\ Turn(p, "build")
  /\ builds' = [builds EXCEPT ![Head(documentCalls[p]).version] = @ \cup {"completed"}]
  /\ Proceed(p, Remaining(p))
  /\ UNCHANGED <<versions, lifecycle, parses, index, expired, failures, documentStops>>

\* The end of publish_document_version: what became of the replaced version
\* is read again.
supersede(p) ==
  /\ Turn(p, "supersede")
  /\ LET call == Head(documentCalls[p])
     IN Proceed(p, IF Status(call.version) \in {"retired", "superseded"} THEN <<>>
                   ELSE <<Marking(call.version, "superseded"),
                          Event(call.version, "superseded", call.by)>>)
  /\ UNCHANGED <<documentStore, expired, failures, documentStops>>

\* The process stops, or a call of one handler fails: the rest is not done.
break_off(broken) ==
  /\ \E p \in broken : ~Quiet(p)
  /\ documentStops < MaxDocumentStops /\ documentStops' = documentStops + 1
  /\ documentCalls' = [p \in Librarians |-> IF p \in broken THEN <<>> ELSE documentCalls[p]]
  /\ UNCHANGED <<documentStore, expired, failures>>

expire ==
  /\ \E v \in (Perishable \cap Registered) \ expired : expired' = expired \cup {v}
  /\ UNCHANGED <<documentStore, documentCalls, failures, documentStops>>

(***************************************************************************)
(* What has come between handlers.  Not state of the code: the properties  *)
(* say by it, and by documentStops, which promise which accident voids.    *)
(***************************************************************************)
Upsets ==
  {u \in {"together", "reparsed"} :
     \/ u = "together" /\ Cardinality({p \in Librarians : ~Quiet(p)'}) > 1
     \/ /\ u = "reparsed"
        /\ \E v \in Registered : /\ index[v] = "active" /\ lifecycle'[v] # lifecycle[v]
                                 /\ Last(lifecycle'[v]).status \in {"parsed", "parse_failed"}}

(***************************************************************************)
(* Specification.                                                          *)
(***************************************************************************)
DocumentInit ==
  /\ versions = <<>>
  /\ lifecycle = [v \in Versions |-> <<>>]
  /\ parses = [v \in Versions |-> <<>>]
  /\ builds = [v \in Versions |-> {}]
  /\ index = [v \in Versions |-> "absent"]
  /\ expired = {}
  /\ documentCalls = [p \in Librarians |-> <<>>]
  /\ failures = 0 /\ documentStops = 0
  /\ upset = {}

DocumentNext ==
  /\ \/ \E p \in Librarians :
          \/ create_document_version(p)
          \/ parse_document_version(p)
          \/ publish_document_version(p)
          \/ retire_document_version(p)
          \/ create_index_build(p)
          \/ save_document_version_bundle(p)
          \/ reuse_document_parse(p)
          \/ save_document_parse(p)
          \/ save_document_lifecycle_event(p)
          \/ publish_created(p)
          \/ build_document_index(p)
          \/ set_rag_document_status(p)
          \/ save_runtime_rag_documents(p)
          \/ save_index_build(p)
          \/ supersede(p)
     \/ \E broken \in SUBSET Librarians : break_off(broken)
     \/ expire
  /\ upset' = upset \cup Upsets

DocumentSpec == DocumentInit /\ [][DocumentNext]_documentVars

(***************************************************************************)
(* Properties.                                                             *)
(***************************************************************************)
\* Version numbers have no gaps and sources no second version; a history
\* starts with the registration; one parse per parser version.
DocumentTypeOK ==
  /\ \A v, w \in Registered : versions[v].source = versions[w].source => v = w
  /\ \A v \in Registered : versions[v].replaces \in 0..(v - 1)
  /\ \A v \in Versions :
       /\ v \in Registered <=> lifecycle[v] # <<>>
       /\ lifecycle[v] # <<>> => Head(lifecycle[v]).status = "draft"
       /\ IsInjective(parses[v])
       /\ index[v] \in {"absent", "active", "superseded", "retired"}

\* Whatever runs beside it and wherever a handler is cut off: a version that
\* ever counted as published has a parse and a completed build to show.
PublishedIsReproducible ==
  \A v \in Registered :
    Happened(v, "published") => parses[v] # <<>> /\ "completed" \in builds[v]

\* A version is superseded only in favour of a published one that said so.
SupersededByPublished ==
  \A v \in Registered : \A i \in DOMAIN lifecycle[v] :
    LET event == lifecycle[v][i] IN
      event.status = "superseded" =>
        versions[event.by].replaces = v /\ Happened(event.by, "published")

\* What is published can be rebuilt, and supersedes what it said it replaces.
DocumentsHold == DocumentTypeOK /\ PublishedIsReproducible /\ SupersededByPublished

\* One handler at a time and none cut off: between handlers, what retrieval
\* sees of a version is the last that its history says of its use.
InUse == [published |-> "active", retired |-> "retired", superseded |-> "superseded"]
Uses(v) == {i \in DOMAIN lifecycle[v] : lifecycle[v][i].status \in DOMAIN InUse}
LastUse(v) == IF Uses(v) = {} THEN "absent" ELSE InUse[lifecycle[v][Max(Uses(v))].status]
AtRest == \A p \in Librarians : Quiet(p)
IndexFollowsHistory ==
  documentStops = 0 /\ "together" \notin upset /\ AtRest =>
    \A v \in Registered :
      index[v] = (IF "completed" \in builds[v] THEN LastUse(v) ELSE "absent")

\* Then, unless a version in use was parsed anew, retrieval sees one at most.
OneVersionInUse ==
  documentStops = 0 /\ upset = {} /\ AtRest =>
    Cardinality({v \in Registered : index[v] = "active"}) <= 1

\* What retrieval reads is what the histories say is in force, one version.
IndexServesWhatIsInForce == IndexFollowsHistory /\ OneVersionInUse

\* The claim of the data dictionary ("at most one current published version
\* per document"), with nothing going wrong and one handler at a time.
OneCurrentVersion ==
  documentStops = 0 /\ "together" \notin upset /\ AtRest =>
    Cardinality({v \in Registered : index[v] = "active"}) <= 1
=============================================================================
