--------------------------- MODULE ChangeIngestion ---------------------------
(***************************************************************************)
(* From a vendor's change to a remediation job: the endpoints that ingest  *)
(* a change, take a snapshot of a repository, report its blast radius and  *)
(* decide whether the job needs an approval (sentinel/api.py, diff.py,     *)
(* repository.py, matcher.py, blast_radius.py, orchestrator.py).  The      *)
(* service keeps nothing between these requests; the variables are what    *)
(* the client has been given and passes on.                                *)
(*                                                                         *)
(* Files are a sequence, as in a Python dict: paths, what the regular      *)
(* expressions of matcher.py find in their lines and which paths a line    *)
(* quotes.  A path is the names between its slashes, and a name may        *)
(* contain backslashes.  Confidences are in hundredths.                    *)
(***************************************************************************)
EXTENDS OpenApiDiff

CONSTANTS
  Documents,     \* documents that are ingested, JSON objects
  Vendors,       \* names of vendors, "stripe" among them
  Repositories,  \* sequences of [path, ext, imports, lines] with distinct paths
  PathOrder,     \* the paths that occur, in the order of their strings
  Pieces,        \* for a name with backslashes, what is between them
  GlobLists,     \* for some include_globs, the set of paths that match one
  NoGlobs,       \* no include_globs
  Nothing

Lines == [quotes : SUBSET Seq(STRING), stripe : BOOLEAN, http : BOOLEAN]
SourceFiles ==
  [path : Seq(STRING), ext : {"js", "upper", "other"}, imports : BOOLEAN,
   lines : Seq(Lines)]

ASSUME IngestionAssumption ==
  /\ Documents \subseteq {v \in Values : IsObject(v)}
  /\ \A r \in Repositories :
       r \in Seq(SourceFiles) /\ IsInjective([i \in 1 .. Len(r) |-> r[i].path])
  /\ \A s \in DOMAIN Pieces : Pieces[s] \in Seq(STRING) /\ Len(Pieces[s]) > 1
  /\ Nothing \notin GlobLists \cup {NoGlobs}

(* A finite set of places in order: the nth is the one with n - 1 before   *)
(* it.                                                                     *)
InOrder(S, Precedes(_, _)) ==
  [n \in 1 .. Cardinality(S) |->
     CHOOSE x \in S : Cardinality({y \in S : Precedes(y, x)}) = n - 1]

VARIABLES
  event,    \* the last event of ingest_openapi
  news,     \* the last event of ingest_vendor_event
  given,    \* the repository as the client has it
  files,    \* the files it sends for analysis
  included, \* the include_globs of the last snapshot, which gave these files
  report,   \* the last blast-radius report, with the files it is about
  job,      \* the last remediation job
  answer    \* the status of the last answer, and what a 204 was about

Status(code) == [status |-> code, about |-> Nothing]

vars == <<event, news, given, files, included, report, job, answer>>

Init ==
  /\ event = Nothing /\ news = Nothing
  /\ given \in Repositories /\ files = given /\ included = Nothing
  /\ report = Nothing /\ job = Nothing
  /\ answer = Status(200)

-----------------------------------------------------------------------------
(* POST /v1/changes/openapi *)
IngestOpenApi ==
  /\ event = Nothing
  /\ \E before, after \in Documents, vendor \in Vendors :
       LET changes == DiffOpenApi(before, after)
       IN  IF changes = {}
           THEN /\ answer' = [status |-> 204, about |-> <<before, after>>]
                /\ UNCHANGED event
           ELSE /\ event' = [id |-> "change", vendor |-> vendor,
                             before |-> before, after |-> after,
                             changes |-> changes, change_type |-> TypeOf(changes),
                             endpoints |-> AffectedEndpoints(changes),
                             fields |-> AffectedFields(changes)]
                /\ answer' = Status(200)
  /\ UNCHANGED <<news, given, files, included, report, job>>

(* POST /v1/vendors/events *)
IngestVendorEvent ==
  /\ news = Nothing
  /\ \E vendor \in Vendors :
       news' = [id |-> "news", vendor |-> vendor, change_type |-> "non-breaking-fix",
                endpoints |-> {}, fields |-> {}]
  /\ answer' = Status(200)
  /\ UNCHANGED <<event, given, files, included, report, job>>

-----------------------------------------------------------------------------
(* validate_relative_path: path.replace("\\", "/"), and posixpath.normpath *)
(* on the names.  One or two slashes in front stay there, as empty names,  *)
(* which .. does not go above.                                             *)
Slashed(path) ==
  FlattenSeq([i \in 1 .. Len(path) |->
                IF path[i] \in DOMAIN Pieces THEN Pieces[path[i]] ELSE <<path[i]>>])
Absolute(p) == p # <<>> /\ p[1] = ""
Leading(p) ==
  IF ~Absolute(p) THEN <<>>
  ELSE IF Len(p) > 2 /\ p[2] = "" /\ (Len(p) > 3 => p[3] # "") THEN <<"", "">>
  ELSE <<"">>
Enter(done, s) ==
  IF s \in {"", "."} THEN done
  ELSE IF s # ".." \/ done = <<>> \/ Last(done) = ".." THEN Append(done, s)
  ELSE IF Last(done) = "" THEN done
  ELSE Front(done)
NormPath(path) ==
  LET p == Slashed(path)
      done[i \in 0 .. Len(p)] ==
        IF i = 0 THEN Leading(p) ELSE Enter(done[i - 1], p[i])
  IN  done[Len(p)]

(* It refuses a slash in front before it replaces the backslashes.         *)
ValidPath(path) ==
  /\ path # <<>> /\ ~Absolute(path)
  /\ NormPath(path) # <<>> /\ NormPath(path)[1] # ".."

(* The paths of given files and of their snapshots are in PathOrder.       *)
ASSUME PathOrderAssumption ==
  /\ PathOrder \in Seq(Seq(STRING))
  /\ \A r \in Repositories : \A i \in 1 .. Len(r) :
       /\ \E n \in 1 .. Len(PathOrder) : PathOrder[n] = r[i].path
       /\ ValidPath(r[i].path) =>
            \E n \in 1 .. Len(PathOrder) : PathOrder[n] = NormPath(r[i].path)

(* normalized[path] = content: a path that is there already keeps its      *)
(* place and gets the later content.                                       *)
Store(dict, file) ==
  LET same == {i \in 1 .. Len(dict) : dict[i].path = file.path}
  IN  IF same = {} THEN Append(dict, file)
      ELSE [i \in 1 .. Len(dict) |-> IF i \in same THEN file ELSE dict[i]]
NormalDroppingDots(file) ==
  [file EXCEPT !.path = SelectSeq(file.path, LAMBDA s : s \notin {"", ".", ".."})]
Normal(file) == [file EXCEPT !.path = NormPath(file.path)]
Takes(globs, path) == globs = NoGlobs \/ path \in globs
StoreTaken(dict, file, globs) == IF Takes(globs, file.path) THEN Store(dict, file) ELSE dict
Normalized(dict, globs) ==
  LET done[i \in 0 .. Len(dict)] ==
        IF i = 0 THEN <<>> ELSE StoreTaken(done[i - 1], Normal(dict[i]), globs)
  IN  done[Len(dict)]

(* POST /v1/repositories/snapshots; the client goes on with its files.     *)
IngestRepositorySnapshot ==
  /\ \/ /\ \A i \in 1 .. Len(given) : ValidPath(given[i].path)
        /\ included' \in GlobLists \cup {NoGlobs}
        /\ files' = Normalized(given, included')
        /\ answer' = Status(200)
     \/ /\ \E i \in 1 .. Len(given) : ~ValidPath(given[i].path)
        /\ answer' = Status(422)
        /\ UNCHANGED <<files, included>>
  /\ UNCHANGED <<event, news, given, report, job>>

-----------------------------------------------------------------------------
(* build_blast_radius: the default patterns, **/*.ts and so on, need a     *)
(* slash and the extension in lower case; the pattern * takes any file.    *)
Candidate(file, globs) ==
  /\ file.ext # "other"
  /\ globs = "default" => file.ext = "js" /\ Len(file.path) > 1

(* An endpoint occurs in a quoted path: its segments in a row, where an    *)
(* empty one at either end is a part of any segment.                       *)
OccursExactly(endpoint, quoted) == endpoint = quoted
Occurs(endpoint, quoted) ==
  \E i \in 0 .. Len(quoted) - Len(endpoint) : \A j \in 1 .. Len(endpoint) :
    \/ endpoint[j] = quoted[i + j]
    \/ endpoint[j] = "" /\ j \in {1, Len(endpoint)}

(* match_typescript_javascript, for one line                               *)
EndpointHit(line, ev) ==
  \E e \in ev.endpoints, quoted \in line.quotes : Occurs(e, quoted)
StripeHit(line, ev) == ev.vendor = "stripe" /\ line.stripe
Matches(file, line, ev) ==
  \/ EndpointHit(line, ev)
  \/ file.imports /\ (StripeHit(line, ev) \/ line.http)
Confidence(file, line, ev) ==
  Min({99, 65 + (IF file.imports THEN 10 ELSE 0)
              + (IF EndpointHit(line, ev) THEN 20 ELSE 0)})
(* The places, file and line, of the call sites                            *)
SitePlaces(dict, ev, globs) ==
  {p \in UNION {{i} \X (1 .. Len(dict[i].lines)) : i \in 1 .. Len(dict)} :
     LET f == dict[p[1]]
     IN  Candidate(f, globs) /\ f.ext = "js" /\ Matches(f, f.lines[p[2]], ev)}
SiteAt(dict, ev, p) ==
  LET f == dict[p[1]]
      line == f.lines[p[2]]
  IN  [file |-> f.path, line |-> p[2], exact |-> EndpointHit(line, ev),
       confidence |-> Confidence(f, line, ev)]

(* _rank.  The endpoint of a call site is one of the affected ones, which  *)
(* makes it exact whenever there is one.                                   *)
Position(path) == CHOOSE i \in 1 .. Len(PathOrder) : PathOrder[i] = path
RankByConfidence(s) == <<IF s.exact THEN 0 ELSE 1, 100 - s.confidence, 0, 0>>
Rank(s) ==
  <<IF s.exact THEN 0 ELSE 1, 100 - s.confidence, Position(s.file), s.line>>
Before(s, t) ==
  LET a == Rank(s)
      b == Rank(t)
  IN  \E i \in 1 .. 4 : a[i] < b[i] /\ \A j \in 1 .. i - 1 : a[j] = b[j]

(* The sort is stable: sites of the same rank stay in the order of files   *)
(* and lines.                                                              *)
Outranks(dict, ev, p, q) ==
  LET s == SiteAt(dict, ev, p)
      t == SiteAt(dict, ev, q)
  IN  \/ Before(s, t)
      \/ ~Before(t, s) /\ (p[1] < q[1] \/ (p[1] = q[1] /\ p[2] < q[2]))
Ranked(dict, ev, globs) ==
  LET places == InOrder(SitePlaces(dict, ev, globs), LAMBDA p, q : Outranks(dict, ev, p, q))
  IN  [n \in DOMAIN places |-> SiteAt(dict, ev, places[n])]

BlastRadius(dict, ev, globs) ==
  LET sites == Ranked(dict, ev, globs)
      best == Max({0} \cup {sites[i].confidence : i \in DOMAIN sites})
  IN  [event |-> ev.id, files |-> dict, globs |-> globs, call_sites |-> sites,
       confidence |-> IF Len(sites) > 1 THEN Min({99, best + 2}) ELSE best]

(* POST /v1/analysis/blast-radius, for an event the client has             *)
Events == {event, news} \ {Nothing}
AnalyzeBlastRadius ==
  /\ \E ev \in Events, globs \in {"default", "*"} :
       report' = BlastRadius(files, ev, globs)
  /\ answer' = Status(200)
  /\ UNCHANGED <<event, news, given, files, included, job>>

-----------------------------------------------------------------------------
(* POST /v1/remediation/jobs, up to its first call of the audit sink       *)
StatusFor(ev) ==
  IF ev.change_type = "new-feature" THEN "awaiting-approval" ELSE "queued"
CreateRemediationJob(ev, dry_run) ==
  IF report.event = ev.id /\ dry_run
  THEN job' = [event |-> ev.id, status |-> StatusFor(ev)] /\ answer' = Status(200)
  ELSE answer' = Status(422) /\ UNCHANGED job
CreateJob ==
  /\ report # Nothing
  /\ \E ev \in Events, dry_run \in BOOLEAN : CreateRemediationJob(ev, dry_run)
  /\ UNCHANGED <<event, news, given, files, included, report>>

Next ==
  \/ IngestOpenApi \/ IngestVendorEvent \/ IngestRepositorySnapshot
  \/ AnalyzeBlastRadius \/ CreateJob

Spec == Init /\ [][Next]_vars

-----------------------------------------------------------------------------
(* The diff is exact up to Python's ==, by which true is 1 and false is 0: *)
(* its changes are the topmost places where the documents differ, each     *)
(* with its path and with the kind that the documents say, and 204 is the  *)
(* answer to documents that differ nowhere.                                *)
DiffCoversExactly ==
  /\ answer.status = 204 => Alike(answer.about[1], answer.about[2])
  /\ event # Nothing =>
       {<<c.path, c.kind>> : c \in event.changes} =
         {<<n.path, KindAt(n.at, event.before, event.after)>> :
            n \in Topmost(Differing(event.before, event.after))}

(* A change inside an operation is attributed by its value if that has a   *)
(* key that is a method, such as a property named options, and then not to *)
(* the endpoint.                                                           *)
Misattributed(e, m) ==
  \E c \in event.changes :
    /\ IsPrefix(<<"paths">> \o e \o <<m>>, c.path)
    /\ HasMethodKey(IF c.after # None THEN c.after ELSE c.before)
Changed(e, m) ==
  /\ ~Alike(Operation(event.before, e, m), Operation(event.after, e, m))
  /\ ~Misattributed(e, m)

(* From the documents to the report, if they are OpenAPI documents: a line *)
(* that quotes an endpoint with a changed operation is a call site, also   *)
(* if a segment of the endpoint is the name of a method; for the           *)
(* JavaScript and TypeScript files the patterns cover.  No affected        *)
(* endpoint is the empty string, which every line of every file contains.  *)
CallSitesFound ==
  /\ report # Nothing /\ report.event = "change"
  /\ WellFormed(event.before) /\ WellFormed(event.after)
  =>
    /\ \A e \in event.endpoints : Len(e) > 1 /\ e[1] = ""
    /\ \A i \in 1 .. Len(report.files) :
      LET f == report.files[i]
      IN  f.ext = "js" /\ (report.globs = "*" \/ Len(f.path) > 1) =>
            \A l \in 1 .. Len(f.lines) :
              (\E e \in f.lines[l].quotes, m \in HttpMethods : Changed(e, m)) =>
                \E j \in 1 .. Len(report.call_sites) :
                  /\ report.call_sites[j].file = f.path
                  /\ report.call_sites[j].line = l

(* The report does not depend on the order in which the files were sent    *)
(* ("deterministic, evidence-backed", build_blast_radius).                 *)
ReportIgnoresFileOrder ==
  report # Nothing =>
    LET ev == CHOOSE e \in Events : e.id = report.event
        n == 1 .. Len(report.files)
    IN  \A order \in {g \in [n -> n] : IsInjective(g)} :
          BlastRadius([i \in n |-> report.files[order[i]]], ev, report.globs).call_sites
            = report.call_sites

(* Walking down a path one directory at a time: how far below the root the *)
(* segments i to j lead, and which names are not undone later on.          *)
Descent(path, i, j) ==
  Cardinality({k \in i .. j : path[k] \notin {"", ".", ".."}})
    - Cardinality({k \in i .. j : path[k] = ".."})
Kept(path) ==
  {i \in 1 .. Len(path) :
     /\ path[i] \notin {"", ".", ".."}
     /\ \A j \in i + 1 .. Len(path) : Descent(path, i + 1, j) >= 0}
Location(path) ==
  [n \in 1 .. Cardinality(Kept(path)) |-> path[InOrder(Kept(path), <)[n]]]

(* A snapshot is what the client has and the globs take, file for file:    *)
(* every path is where walking the given path ends, without ever leaving   *)
(* the root, and two names for the same file leave its later content.      *)
(* This is for the paths that do not begin with a backslash: the others    *)
(* become absolute, and no file of the former kind is lost to one.         *)
SnapshotStaysInside ==
  included # Nothing =>
    LET relative == {i \in 1 .. Len(given) : ~Absolute(Slashed(given[i].path))}
        place(i) == Location(Slashed(given[i].path))
        moved(i) == [given[i] EXCEPT !.path = place(i)]
        last == {i \in relative :
                   /\ Takes(included, place(i))
                   /\ \A j \in relative : j > i => place(j) # place(i)}
    IN  /\ \A i \in relative :
             LET p == Slashed(given[i].path)
             IN  \A j \in 1 .. Len(p) : Descent(p, 1, j) >= 0
        /\ \A i \in last : \E n \in 1 .. Len(files) : files[n] = moved(i)
        /\ \A n \in 1 .. Len(files) :
             \/ Absolute(files[n].path)
             \/ \E i \in relative : files[n] = moved(i) /\ Takes(included, place(i))
        /\ IsInjective([n \in 1 .. Len(files) |-> files[n].path])

(* A change that only adds to the API waits for an approval, unless it     *)
(* adds a true somewhere below a key that begins with "deprecated"; and a  *)
(* change never waits if it takes a key away, or if it replaces an object  *)
(* of the contract by something else than an object or null                *)
(* (classify_openapi_changes, create_remediation_job).                     *)
HeldIfPureExtension ==
  job # Nothing /\ job.event = "change" =>
    /\ Extends(event.before, event.after) /\ ~(\E c \in event.changes : Deprecates(c))
         => job.status = "awaiting-approval"
    /\ job.status = "awaiting-approval" => Keeps(event.before, event.after)
=============================================================================
