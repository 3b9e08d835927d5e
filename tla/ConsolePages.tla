---------------------------- MODULE ConsolePages ----------------------------
(***************************************************************************)
(* Lists and logs of the console, read page by page: the rows of a         *)
(* snapshot under offsets (internal/console/api_v1.go over the projections *)
(* of source.go) and the history of a container under a time cursor (Logs  *)
(* in source.go).  The console keeps nothing between two pages; the client *)
(* keeps the cursor, and what is read changes in the meantime.  Regions,   *)
(* names and times are numbers, in the order of their text.                *)
(***************************************************************************)
EXTENDS Integers, SequencesExt

CONSTANTS
  Region,     \* regions of the configuration, numbers from 1
  Name,       \* names of nodes and of rooms
  MaxOffset,  \* apiPagination: the highest offset a page may have
  Window,     \* minutes asked for
  Now,        \* time of the first question for a log
  MaxLimit,   \* bound: page size
  MaxRooms,   \* bound: rooms in a fleet at first
  MaxChanges, \* bound: rows that come or go while a list is read
  MaxEntries  \* bound: entries of a log

ASSUME PageConstants ==
  /\ Region \subseteq Nat \ {0} /\ Name \subseteq Nat
  /\ IsFiniteSet(Region) /\ IsFiniteSet(Name)
  /\ {MaxOffset, Window, Now, MaxLimit, MaxRooms, MaxChanges, MaxEntries} \subseteq Nat

VARIABLES
  limit,   \* page size of the client, 0 while it reads nothing
  rows,    \* rows there are of the resource it lists
  list,    \* the list it reads
  log,     \* log[i]: time of entry i of the container's history
  clock,   \* the time
  reader   \* the history it reads

pageVars == <<limit, rows, list, log, clock, reader>>

NoQuery == [region |-> 0, names |-> {}]
NoList ==
  [at |-> "idle", resource |-> "nodes", query |-> NoQuery, offset |-> 0,
   due |-> {}, got |-> <<>>, kept |-> TRUE, changes |-> 0]
NoReader ==
  [at |-> "idle", before |-> 0, saw |-> {}, count |-> 0, cursors |-> {},
   start |-> 0, upto |-> 0]

PageInit ==
  /\ limit = 0 /\ rows = {} /\ list = NoList
  /\ log = <<>> /\ clock = Now /\ reader = NoReader

Least(a, b) == IF a < b THEN a ELSE b

-----------------------------------------------------------------------------
(* A page of a list.                                                       *)

(* The eight reads of a region are nodes, pods and events of two           *)
(* namespaces (workloads), and the usage of all of them (metrics).         *)
Reads == {"nodes", "workloads", "metrics"}
\* Mutant: the read that ends last decides.
RegionSnapshotOfLastRead(name, nodes, failed) ==
  [name |-> name, ok |-> "workloads" \notin failed, metrics_ok |-> "metrics" \notin failed,
   nodes |-> IF "nodes" \in failed THEN {} ELSE nodes]
RegionSnapshot(name, nodes, failed) ==
  [name |-> name, ok |-> failed \subseteq {"metrics"}, metrics_ok |-> "metrics" \notin failed,
   nodes |-> IF "nodes" \in failed THEN {} ELSE nodes]

FleetSnapshot(rooms, ok) == [ok |-> ok, rooms |-> IF ok THEN rooms ELSE {}]

(* Region 0 is no filter and, in a row, a room without a worker.           *)
SelectRegions(regions, query) == {r \in regions : query.region \in {0, r.name}}

SnapshotWarnings(fleet, regions) ==
  (IF fleet.ok THEN {} ELSE {<<"fleet", 0>>})
  \cup {<<"region", r.name>> : r \in {s \in regions : ~s.ok}}
  \cup {<<"metrics", r.name>> : r \in {s \in regions : ~s.metrics_ok}}

(* Rooms name their region; the nodes are those of the selected regions.   *)
ProjectRows(resource, fleet, regions) ==
  IF resource = "rooms" THEN fleet.rooms
  ELSE UNION {{r.name} \X r.nodes : r \in regions}

MatchRow(row, query) == query.region \in {0, row[1]} /\ row[2] \in query.names
Wanted(there, query) == {row \in there : MatchRow(row, query)}

(* rowSortKey is the identity of a row, so that the stable sort leaves     *)
(* nothing open: row i has i - 1 rows before it.                           *)
RowBefore(a, b) == a[1] < b[1] \/ (a[1] = b[1] /\ a[2] < b[2])
Ahead(there, row) == {r \in there : RowBefore(r, row)}
Ordered(there) ==
  [i \in 1..Cardinality(there) |->
     CHOOSE row \in there : Cardinality(Ahead(there, row)) = i - 1]

Page(filtered, offset) ==
  LET start == Least(offset, Len(filtered))
      end == Least(start + limit, Len(filtered))
  IN [data |-> SubSeq(filtered, start + 1, end),
      next |-> IF end < Len(filtered) THEN end ELSE 0]

(* versionedAPI for a list: the rows that match, in order, or a refusal.   *)
Refused(resource, fleet, regions, query, offset) ==
  \/ offset > MaxOffset
  \/ query.region # 0 /\ SelectRegions(regions, query) = {}
  \/ resource = "rooms" /\ ~fleet.ok
Filtered(resource, fleet, regions, query) ==
  Ordered(Wanted(ProjectRows(resource, fleet, SelectRegions(regions, query)), query))

-----------------------------------------------------------------------------
(* External: a client that follows next_offset until there is none, or     *)
(* until a page is refused or has a warning; and the rows it should get.   *)

Queries == [region : Region \cup {0}, names : SUBSET Name]
Possible(resource) == (IF resource = "rooms" THEN Region \cup {0} ELSE Region) \X Name

AskList(resource) ==
  /\ limit = 0
  /\ limit' \in 1..MaxLimit
  /\ \E there \in SUBSET Possible(resource), query \in Queries :
       /\ resource = "rooms" => Cardinality(there) <= MaxRooms
       /\ rows' = there
       /\ list' = [NoList EXCEPT !.at = "reading", !.resource = resource,
                                 !.query = query, !.due = Wanted(there, query)]
  /\ UNCHANGED <<log, clock, reader>>

RegionSnapshots(failed) ==
  {RegionSnapshot(r, {name \in Name : <<r, name>> \in rows}, failed[r]) : r \in Region}

(* Each page is cut from a snapshot of its own, in which other reads fail. *)
ReadPage(failed, fleetOk) ==
  LET regions == RegionSnapshots(failed)
      fleet == FleetSnapshot(rows, fleetOk)
      page == Page(Filtered(list.resource, fleet, regions, list.query), list.offset)
  IN /\ list.at = "reading"
     /\ IF Refused(list.resource, fleet, regions, list.query, list.offset)
        THEN list' = [list EXCEPT !.at = "refused"]
        ELSE IF SnapshotWarnings(fleet, SelectRegions(regions, list.query)) # {}
        THEN list' = [list EXCEPT !.at = "partial", !.got = @ \o page.data]
        ELSE list' = [list EXCEPT !.at = IF page.next = 0 THEN "complete" ELSE "reading",
                                  !.got = @ \o page.data, !.offset = page.next]
     /\ UNCHANGED <<limit, rows, log, clock, reader>>

(* Rows come and go between two pages.                                     *)
RowAdded ==
  /\ list.at = "reading" /\ list.changes < MaxChanges
  /\ \E row \in Possible(list.resource) \ rows : rows' = rows \cup {row}
  /\ list' = [list EXCEPT !.changes = @ + 1]
  /\ UNCHANGED <<limit, log, clock, reader>>
RowRemoved ==
  /\ list.at = "reading" /\ list.changes < MaxChanges
  /\ \E row \in rows : rows' = rows \ {row}
  /\ list' = [list EXCEPT !.changes = @ + 1, !.kept = FALSE]
  /\ UNCHANGED <<limit, log, clock, reader>>

-----------------------------------------------------------------------------
(* A page of a history.                                                    *)

(* External: Loki answers with the latest entries of the interval; of      *)
(* those of the oldest time it gives any.                                  *)
LokiAnswers(start, end) ==
  LET within == {i \in DOMAIN log : log[i] \in start..end}
  IN {T \in SUBSET within :
        /\ Cardinality(T) = Least(limit, Cardinality(within))
        /\ \A i \in T, j \in within \ T : log[j] <= log[i]}

\* Mutant: a full batch is taken for the last one.
LogPageIfMore(T) ==
  [entries |-> T,
   next_before |-> IF Cardinality(T) <= limit THEN 0
                   ELSE CHOOSE t \in {log[i] : i \in T} : \A i \in T : t <= log[i]]
LogPage(T) ==
  [entries |-> T,
   next_before |-> IF Cardinality(T) < limit THEN 0
                   ELSE CHOOSE t \in {log[i] : i \in T} : \A i \in T : t <= log[i]]

(* before must lie in the interval that ends now, and is left out itself.  *)
BadCursor(before, now) == before # 0 /\ ~(now - Window < before /\ before <= now)
End(before, now) == IF before = 0 THEN now ELSE before - 1

-----------------------------------------------------------------------------
(* External: a client that follows next_before until it is empty or too    *)
(* old: what it saw, how many entries that were, the cursors it used, the  *)
(* start of its last interval, and the entries there were when it began.   *)

AskLog ==
  /\ limit = 0
  /\ limit' \in 1..MaxLimit
  /\ \E n \in 0..MaxEntries :
       /\ log' \in [1..n -> 1..Now]
       /\ reader' = [NoReader EXCEPT !.at = "reading", !.upto = n]
  /\ UNCHANGED <<rows, list, clock>>

ReadLogPage ==
  LET start == clock - Window
  IN /\ reader.at = "reading"
     /\ IF BadCursor(reader.before, clock)
        THEN reader' = [reader EXCEPT !.at = "done", !.start = start]
        ELSE \E T \in LokiAnswers(start, End(reader.before, clock)) :
               LET page == LogPage(T)
                   last == page.next_before = 0
               IN reader' =
                    [reader EXCEPT
                       !.at = IF last THEN "done" ELSE "reading",
                       !.before = page.next_before, !.start = start,
                       !.saw = @ \cup page.entries,
                       !.count = @ + Cardinality(page.entries),
                       !.cursors = IF last THEN @ ELSE @ \cup {page.next_before}]
     /\ UNCHANGED <<limit, rows, list, log, clock>>

(* External: an entry reaches Loki, at once or late.                       *)
Logged ==
  /\ reader.at = "reading" /\ Len(log) < MaxEntries
  /\ \E t \in 1..clock : log' = Append(log, t)
  /\ UNCHANGED <<limit, rows, list, clock, reader>>

(* After a window every cursor is too old.                                 *)
PageTick ==
  /\ reader.at = "reading" /\ clock < Now + Window
  /\ clock' = clock + 1
  /\ UNCHANGED <<limit, rows, list, log, reader>>

(* The client is through, or loses interest.                               *)
Leave ==
  /\ limit > 0 /\ limit' = 0
  /\ rows' = {} /\ list' = NoList
  /\ log' = <<>> /\ clock' = Now /\ reader' = NoReader

PageNext ==
  \/ \E resource \in {"nodes", "rooms"} : AskList(resource)
  \/ \E failed \in [Region -> SUBSET Reads], fleetOk \in BOOLEAN : ReadPage(failed, fleetOk)
  \/ RowAdded \/ RowRemoved
  \/ AskLog \/ ReadLogPage \/ Logged \/ PageTick
  \/ Leave

PageSpec == PageInit /\ [][PageNext]_pageVars

-----------------------------------------------------------------------------
(* Properties.                                                             *)

(* A list without a warning is complete, whichever reads fail and whatever *)
(* comes between two pages: no row that was there is lost unless a row     *)
(* goes; and if nothing changes, the pages hold every row that matches     *)
(* once and in order.                                                      *)
ListsAreComplete ==
  list.at = "complete" =>
  /\ list.kept => list.due \subseteq ToSet(list.got)
  /\ list.changes = 0 =>
       /\ ToSet(list.got) = list.due
       /\ \A i, j \in DOMAIN list.got : i < j => RowBefore(list.got[i], list.got[j])

(* A client that reads a log back to the start of its interval gets no     *)
(* entry twice, even if others come late, and misses none that was there   *)
(* when it began but entries of the same time as the oldest of a page.     *)
OnlyTiesAreSkipped ==
  /\ reader.count = Cardinality(reader.saw)
  /\ reader.at = "done" =>
       \A i \in 1..reader.upto :
         log[i] >= reader.start /\ i \notin reader.saw => log[i] \in reader.cursors
=============================================================================
