---------------------------- MODULE SearchPages ----------------------------
(***************************************************************************)
(* A search in the browser (src/web/src/lib: useLoad, loadAll; pages), the *)
(* API requests it is made of, the response cache they pass and the sweeps *)
(* that commit between their statements.                                   *)
(*                                                                         *)
(* Each navigation starts a load and aborts the one before.  A load asks   *)
(* for the pages of each of its filters, one after the other, the filters  *)
(* side by side, and merges them by CRN.  A request that misses the cache  *)
(* counts in one statement and reads the page in another.                  *)
(***************************************************************************)
EXTENDS TermSearch, Sequences

CONSTANTS
  Routes,      \* routes the visitor may open
  FirstTables, \* tables a visit may start with
  Edits(_),    \* the tables a sweep may commit, given the present one
  MaxLoads,    \* bound: loads started
  MaxCommits   \* bound: sweeps committed

VARIABLES
  tables,  \* history: each committed state of the term; the last is the present
  cache,   \* response cache: requests |-> answers
  loads,   \* the loads of useLoad, the last is the current one
  view     \* what the page shows

searchVars == <<tables, cache, loads, view>>

version == Len(tables)
current == Len(loads)

(***************************************************************************)
(* Routes                                                                  *)
(***************************************************************************)
(* A Gen Ed area asks for each of its codes, a course and a subject for one
   listing, a text for the filters that discovery offers *)
AreaRoute(codes) == [view |-> "area", filters |-> {CodeFilter(code) : code \in codes}]
CourseRoute(course) == [view |-> "course", filters |-> {CourseFilter(course)}]
PersonRoute(course, name) == [view |-> "person", filters |-> {PersonFilter(course, name)}]
SubjectRoute(courses) == [view |-> "subject", filters |-> {SubjectFilter(courses)}]
TextRoute == [view |-> "text", filters |-> {}]

(* A route other than a text has filters, of its own kind *)
ASSUME RoutesAssumption ==
  /\ FirstTables \subseteq Tables
  /\ \A route \in Routes :
       IF route.view = "text" THEN route.filters = {}
       ELSE /\ route.view \in {"area", "course", "person", "subject"} /\ route.filters # {}
            /\ \A f \in route.filters : f.kind = (IF route.view = "area" THEN "code" ELSE route.view)

Discovery == Filter("discovery", {}, NoName)

Asked(filters) == [f \in filters |-> [phase |-> "ask", offset |-> 0]]

NewLoad(route) ==
  [route |-> route, merged |-> {}, seen |-> {}, failed |-> FALSE,
   tasks |-> IF route.view = "text" THEN Asked({Discovery}) ELSE Asked(route.filters)]

(***************************************************************************)
(* The visitor                                                             *)
(***************************************************************************)
(* navigate: the key of useLoad changes, the old load is aborted *)
Navigate(route) ==
  /\ current < MaxLoads
  /\ loads' = Append(loads, NewLoad(route))
  /\ view' = [status |-> "loading", route |-> route, crns |-> {}, seen |-> {}]
  /\ UNCHANGED <<tables, cache>>

Retry ==
  /\ view.status = "error"
  /\ Navigate(view.route)

(***************************************************************************)
(* Requests                                                                *)
(***************************************************************************)
Request(l, f) == <<f, loads[l].tasks[f].offset>>
SetTask(l, f, task) == loads' = [loads EXCEPT ![l].tasks[f] = task]
Phase(l, f) == loads[l].tasks[f].phase

(* cache_get_responses: a cached answer, or the handler where there is none, or
   it has expired or was evicted.  An aborted load asks for nothing more. *)
Ask(l, f) ==
  /\ l = current
  /\ Phase(l, f) = "ask"
  /\ LET key == Request(l, f)
         task == loads[l].tasks[f]
     IN \/ /\ key \in DOMAIN cache
           /\ SetTask(l, f, [phase |-> "answer", offset |-> task.offset, body |-> cache[key]])
        \/ SetTask(l, f, [phase |-> "count", offset |-> task.offset])
  /\ UNCHANGED <<tables, cache, view>>

Total(f, table) ==
  IF f = Discovery THEN Cardinality(SectionFilters(table)) ELSE Cardinality(Listed(f, table))

(* the first statement of the handler; it runs on for an aborted load *)
CountRows(l, f) ==
  /\ Phase(l, f) = "count"
  /\ SetTask(l, f, [phase |-> "page", offset |-> loads[l].tasks[f].offset,
                    total |-> Total(f, tables[version]), counted |-> version])
  /\ UNCHANGED <<tables, cache, view>>

(* the page's statement, and put *)
ReadPage(l, f) ==
  /\ Phase(l, f) = "page"
  /\ LET task == loads[l].tasks[f]
         items == IF f = Discovery THEN SectionFilters(tables[version])
                  ELSE PageOf(f, task.offset, tables[version])
         body == [items |-> items, total |-> task.total, seen |-> {task.counted, version}]
     IN /\ cache' = [key \in DOMAIN cache \cup {Request(l, f)} |->
                       IF key = Request(l, f) THEN body ELSE cache[key]]
        /\ SetTask(l, f, [phase |-> "answer", offset |-> task.offset, body |-> body])
  /\ UNCHANGED <<tables, view>>

(***************************************************************************)
(* Answers                                                                 *)
(***************************************************************************)
(* Fault: the total is compared with the sections before this page *)
IsLastPageEarly(offset, body) ==
  \/ Cardinality(body.items) < PageSize
  \/ offset + 2 * PageSize >= body.total
  \/ offset + PageSize >= MaxSections

(* loadAllSections leaves its loop *)
IsLastPage(offset, body) ==
  \/ Cardinality(body.items) < PageSize
  \/ offset + PageSize >= body.total
  \/ offset + PageSize >= MaxSections

(* The load after the answer of f: the next page is due, or f is done *)
Merge(load, f) ==
  LET task == load.tasks[f]
      next == IF IsLastPage(task.offset, task.body)
              THEN [phase |-> "done", offset |-> task.offset]
              ELSE [phase |-> "ask", offset |-> task.offset + PageSize]
  IN [load EXCEPT !.tasks[f] = next,
                  !.merged = @ \cup task.body.items,
                  !.seen = @ \cup task.body.seen]

AllDone(load) ==
  ~load.failed /\ \A f \in DOMAIN load.tasks : load.tasks[f].phase = "done"

(* "Three letters with no sections may be a name or title": the page of the subject
   hands over to the discovery of the text *)
FallsBack(load) ==
  /\ load.route.view = "subject" /\ DOMAIN load.tasks = load.route.filters
  /\ load.merged = {}

(* The offered filters are loaded next; with none there is nothing to load *)
WithFilters(load, body) ==
  [load EXCEPT !.tasks = Asked(body.items), !.seen = @ \cup body.seen]

(* Fault: a late answer settles the page *)
SettleAnyLoad(l, load) ==
  view' = [status |-> "ready", route |-> view.route, crns |-> load.merged, seen |-> load.seen]

(* then, unless the load was aborted *)
Settle(l, load) ==
  IF l = current
  THEN view' = [status |-> "ready", route |-> view.route, crns |-> load.merged, seen |-> load.seen]
  ELSE UNCHANGED view

(* An answer of discovery *)
ReceiveDiscovery(l) ==
  /\ Discovery \in DOMAIN loads[l].tasks
  /\ Phase(l, Discovery) = "answer"
  /\ LET load == WithFilters(loads[l], loads[l].tasks[Discovery].body)
     IN /\ loads' = [loads EXCEPT ![l] = load]
        /\ IF AllDone(load) THEN Settle(l, load) ELSE UNCHANGED view
  /\ UNCHANGED <<tables, cache>>

(* An answer with a page of sections *)
ReceivePage(l, f) ==
  /\ f # Discovery
  /\ Phase(l, f) = "answer"
  /\ LET load == Merge(loads[l], f)
         fallback == [load EXCEPT !.tasks = Asked({Discovery})]
     IN IF AllDone(load) /\ FallsBack(load) /\ l = current
        THEN loads' = [loads EXCEPT ![l] = fallback] /\ UNCHANGED view
        ELSE /\ loads' = [loads EXCEPT ![l] = load]
             /\ IF AllDone(load) THEN Settle(l, load) ELSE UNCHANGED view
  /\ UNCHANGED <<tables, cache>>

(* Fault: an error leaves the page as it is *)
ReportNothing(l) == UNCHANGED view

(* catch *)
ReportError(l) == view' = [view EXCEPT !.status = "error"]

(* A request fails: Promise.all rejects, though the other filters read on.  An
   aborted load does not report, as if its request were never answered. *)
FailRequest(l, f) ==
  /\ l = current
  /\ Phase(l, f) = "count"
  /\ loads' = [loads EXCEPT ![l].failed = TRUE, ![l].tasks[f].phase = "done"]
  /\ ReportError(l)
  /\ UNCHANGED <<tables, cache>>

(***************************************************************************)
(* Beside them                                                             *)
(***************************************************************************)
(* A sweep commits sections and their ranking rows at once *)
CommitSweep ==
  /\ version <= MaxCommits
  /\ \E table \in Edits(tables[version]) : table \in Tables /\ tables' = Append(tables, table)
  /\ UNCHANGED <<cache, loads, view>>

(***************************************************************************)
Init ==
  /\ \E table \in FirstTables : tables = <<table>>
  /\ cache = <<>>
  /\ loads = <<>>
  /\ view = [status |-> "home", route |-> TextRoute, crns |-> {}, seen |-> {}]

RequestOf(l, f) == Ask(l, f) \/ CountRows(l, f) \/ ReadPage(l, f) \/ ReceivePage(l, f)

Next ==
  \/ \E route \in Routes : Navigate(route)
  \/ Retry
  \/ \E l \in DOMAIN loads :
       \/ \E f \in DOMAIN loads[l].tasks :
            Ask(l, f) \/ CountRows(l, f) \/ ReadPage(l, f) \/ ReceivePage(l, f) \/ FailRequest(l, f)
       \/ ReceiveDiscovery(l)
  \/ CommitSweep

(* Requests of the current load are answered and their answers delivered; the
   visitor need not do anything, nor need a sweep come *)
Answered ==
  \E l \in DOMAIN loads :
    /\ l = current
    /\ \/ \E f \in DOMAIN loads[l].tasks : RequestOf(l, f)
       \/ ReceiveDiscovery(l)

Spec == Init /\ [][Next]_searchVars /\ WF_searchVars(Answered)

(***************************************************************************)
(* Properties                                                              *)
(***************************************************************************)
(* The sections a page of the route should show of one table: for a text, those of
   the courses and by the people on discovery's page, and otherwise all that the
   route's filters list *)
OfferedTo(table) ==
  {c \in Crns :
     /\ ~table[c].removed
     /\ \/ CourseOf[c] \in CoursePage
        \/ [course |-> CourseOf[c], name |-> Assigned(table[c].names)] \in PeoplePage(table)}

FirstOf(filter, table) ==
  {c \in Listed(filter, table) : Rank(filter, table, c) < MaxSections}

Expected(route, table) == UNION {FirstOf(f, table) : f \in route.filters}

(* A page whose answers all come from one committed state shows all sections
   the route lists in it, up to the client's limit, and no other: whatever
   pages were cached, aborted or answered out of order before.  For a text it
   shows every section of a course or by a person on the page of discovery, though
   discovery and search resolve the teacher of a section by different rules. *)
QuietLoadIsExact ==
  \A v \in DOMAIN tables :
    view.status = "ready" /\ view.seen = {v} =>
      LET expected == Expected(view.route, tables[v])
      IN IF view.route.view = "text" \/ (view.route.view = "subject" /\ expected = {})
         THEN OfferedTo(tables[v]) \subseteq view.crns
         ELSE view.crns = expected

(* Whatever was committed in between, a section that is shown was listed by the
   route in one of the states that the route's own load has read: nothing of an
   earlier route or of a load left behind gets in. *)
ShownWasListed ==
  view.status = "ready" /\ view.route.view = "area" =>
    \A c \in view.crns :
      \E v \in loads[current].seen, f \in view.route.filters : c \in Listed(f, tables[v])

(* A page that loads ends with sections or an error, or the visitor leaves it,
   though the term may change under every request. *)
LoadEnds ==
  \A n \in 1..MaxLoads : (view.status = "loading" /\ current = n) ~> (view.status # "loading" \/ current # n)

(* Every section that the route lists, unchanged in every state the page was
   made of, is shown (the client's "every section matching each filter").  It is
   no invariant: a section above it that goes moves it to a page already read. *)
NothingListedIsMissed ==
  view.status = "ready" /\ view.route.view = "area" =>
    \A c \in Crns :
      /\ \A v \in view.seen : tables[v][c] = tables[CHOOSE w \in view.seen : TRUE][c]
      /\ \A v \in view.seen : c \in Expected(view.route, tables[v])
      => c \in view.crns
=============================================================================
