---------------------------- MODULE ResultPages ----------------------------
(***************************************************************************)
(* ListTaskResults serves the output of a task in pages.  The first page   *)
(* of a request retains the visible output in the task registry (a lease   *)
(* that keeps the resource bodies), stores a snapshot under the lock of    *)
(* the page store, and publishes it when the response is really returned;  *)
(* later pages are served from the stored snapshot.  A deletion of a       *)
(* library item changes the visible output, removes the snapshots that     *)
(* show the item and then unlinks its media.                               *)
(*                                                                         *)
(* One task is modelled.  A lease is named after the request that took it, *)
(* a snapshot after the version of the output it shows.                    *)
(***************************************************************************)
EXTENDS Naturals, Sequences, FiniteSets, SequencesExt, Queues

CONSTANTS
    Requests,       \* first-page requests, each made once
    Items,          \* library items the output may show
    MaxSnapshots,   \* MAX_TASK_RESULT_PAGE_SNAPSHOTS
    MaxVersions     \* bound: changes of the output that are not deletions

VARIABLES
    version,    \* the visible output: its snapshot_id
    items,      \* ... and the items its results still show
    leases,     \* retained_resource_snapshots of the registry
    old,        \* leases whose time to live is over
    pages,      \* snapshots_by_id: from versions to stored snapshots
    order,      \* snapshot_order
    req,        \* where each request is
    gone,       \* requests whose caller has gone away
    del         \* where the deletion of each item is

pagesVars == <<version, items, leases, old, pages, order, req, gone, del>>

PagesInit ==
    /\ version = 0
    /\ items = Items
    /\ leases = {} /\ old = {}
    /\ pages = <<>>
    /\ order = <<>>
    /\ req = [r \in Requests |-> [pc |-> "idle", version |-> 0, shows |-> {}, registered |-> FALSE]]
    /\ gone = {}
    /\ del = [i \in Items |-> "none"]

Stored == DOMAIN pages

(***************************************************************************)
(* The page store.  Each operator takes and returns the store as a record  *)
(* [pages, order, released].                                               *)
(***************************************************************************)
Store == [pages |-> pages, order |-> order, released |-> {}]

RemoveSnapshots(s, V) ==
    [pages    |-> [v \in DOMAIN s.pages \ V |-> s.pages[v]],
     order    |-> Without(s.order, V),
     released |-> s.released \cup {s.pages[v].lease : v \in V \cap DOMAIN s.pages}]

\* prune: the snapshots whose lease has run out.
Prune(s) == RemoveSnapshots(s, {v \in DOMAIN s.pages : s.pages[v].lease \in old})

Published(s) == {v \in DOMAIN s.pages : s.pages[v].published}

\* evict_oldest_published_snapshot, repeated until there is room: None when
\* only unpublished snapshots are left.
Oldest(s) == s.order[SelectInSeq(s.order, LAMBDA v : v \in Published(s))]

Evict(s) ==
    IF Cardinality(DOMAIN s.pages) < MaxSnapshots THEN s
    ELSE RemoveSnapshots(s, {Oldest(s)})

HasRoom(s) == Cardinality(DOMAIN s.pages) < MaxSnapshots \/ Published(s) # {}

Put(s, v, page) ==
    [s EXCEPT !.pages = [w \in DOMAIN s.pages \cup {v} |-> IF w = v THEN page ELSE s.pages[w]],
              !.order = Append(Without(s.order, {v}), v)]

\* A request for the snapshot that is stored already swaps the leases.
Insert(s, v, r) ==
    IF v \in DOMAIN s.pages
    THEN [Put(s, v, [s.pages[v] EXCEPT !.lease = r]) EXCEPT !.released = @ \cup {s.pages[v].lease}]
    ELSE Put(Evict(s), v, [lease |-> r, shows |-> req[r].shows, published |-> FALSE, pending |-> {}])

\* register_first_page: only an unpublished snapshot needs a publication.
Register(s, v, r) ==
    IF s.pages[v].published THEN s ELSE [s EXCEPT !.pages[v].pending = @ \cup {r}]

\* cancel_first_page: the last registration of an unpublished snapshot takes
\* the snapshot with it.
CancelFirstPage(s, v, r) ==
    IF v \notin DOMAIN s.pages THEN s
    ELSE IF s.pages[v].published \/ r \notin s.pages[v].pending THEN s
    ELSE IF s.pages[v].pending = {r} THEN RemoveSnapshots(s, {v})
    ELSE [s EXCEPT !.pages[v].pending = @ \ {r}]

\* The lock is dropped and the leases that the operation returned are released.
SetStore(s, extra) ==
    /\ pages' = s.pages
    /\ order' = s.order
    /\ leases' = (leases \ s.released) \ extra

Answer(r, result) == req' = [req EXCEPT ![r].pc = result, ![r].registered = FALSE]

(***************************************************************************)
(* A first page.                                                           *)
(***************************************************************************)
\* retain_task_output_snapshot.
Retain(r) ==
    /\ req[r].pc = "idle"
    /\ req' = [req EXCEPT ![r] = [pc |-> "retained", version |-> version, shows |-> items, registered |-> FALSE]]
    /\ leases' = (leases \ old) \cup {r}
    /\ UNCHANGED <<version, items, old, pages, order, gone, del>>

\* The snapshot is stored only if it is still what the registry shows.
Current_Unchecked(r) == TRUE

Current(r) == req[r].version = version

\* The request has the lock of the page store, but may not use it.
Refused(r) ==
    /\ req[r].pc = "retained"
    /\ r \in gone \/ ~Current(r) \/ r \in old
    /\ Answer(r, "failed")
    /\ leases' = leases \ {r}
    /\ UNCHANGED <<version, items, old, pages, order, gone, del>>

\* No snapshot can be evicted for it.
StoreBusy(r) ==
    LET s == Prune(Store)
    IN  /\ req[r].pc = "retained" /\ r \notin gone \cup old /\ Current(r)
        /\ req[r].version \notin DOMAIN s.pages /\ ~HasRoom(s)
        /\ Answer(r, "failed")
        /\ SetStore(s, {r})
        /\ UNCHANGED <<version, items, old, gone, del>>

FirstPage(r) ==
    LET p == Prune(Store)
        v == req[r].version
    IN  /\ req[r].pc = "retained" /\ r \notin gone \cup old /\ Current(r)
        /\ v \in DOMAIN p.pages \/ HasRoom(p)
        /\ LET s == Insert(p, v, r)
               t == Register(s, v, r)
           IN  \/ /\ SetStore(t, {})                \* the page fits
                  /\ req' = [req EXCEPT ![r].pc = "paged", ![r].registered = ~s.pages[v].published]
               \/ /\ SetStore(CancelFirstPage(t, v, r), {})  \* a result exceeds the page budget
                  /\ Answer(r, "failed")
        /\ UNCHANGED <<version, items, old, gone, del>>

\* publish_first_page, called when the response is about to be returned.
PublishFirstPage(r) ==
    LET v == req[r].version
    IN  /\ req[r].pc = "paged" /\ r \notin gone
        /\ req[r].registered => v \in Stored /\ (pages[v].published \/ r \in pages[v].pending)
        /\ Answer(r, "served")
        /\ pages' = IF req[r].registered
                    THEN [pages EXCEPT ![v].published = TRUE, ![v].pending = {}]
                    ELSE pages
        /\ UNCHANGED <<version, items, leases, old, order, gone, del>>

\* The caller has gone, or the snapshot was removed meanwhile: the guard is
\* dropped and takes back the registration.
Abort(r) ==
    LET v == req[r].version
    IN  /\ req[r].pc = "paged"
        /\ \/ r \in gone
           \/ /\ req[r].registered
              /\ ~(v \in Stored /\ (pages[v].published \/ r \in pages[v].pending))
        /\ SetStore(IF req[r].registered THEN CancelFirstPage(Store, v, r) ELSE Store, {})
        /\ Answer(r, "failed")
        /\ UNCHANGED <<version, items, old, gone, del>>

\* The call is dropped: the blocking work goes on and sees the flag.
Disconnect(r) ==
    /\ req[r].pc \in {"retained", "paged"} /\ r \notin gone
    /\ gone' = gone \cup {r}
    /\ UNCHANGED <<version, items, leases, old, pages, order, req, del>>

\* A continuation, or the reaper: expired snapshots go, the rest is read.
Reap ==
    /\ Prune(Store) # Store
    /\ SetStore(Prune(Store), {})
    /\ UNCHANGED <<version, items, old, req, gone, del>>

(***************************************************************************)
(* The rest of the server.                                                 *)
(***************************************************************************)
Expire(r) ==
    /\ r \in leases \ old
    /\ old' = old \cup {r}
    /\ UNCHANGED <<version, items, leases, pages, order, req, gone, del>>

UpdateOutput ==
    /\ version < MaxVersions
    /\ version' = version + 1
    /\ UNCHANGED <<items, leases, old, pages, order, req, gone, del>>

\* tombstone_library_item_before_delete publishes an output without the item.
Tombstone(i) ==
    /\ del[i] = "none"
    /\ del' = [del EXCEPT ![i] = "tombstoned"]
    /\ items' = items \ {i}
    /\ version' = version + 1
    /\ UNCHANGED <<leases, old, pages, order, req, gone>>

\* invalidate_library_item and invalidate_tasks.
Invalidated(i) == Stored

Invalidate(i) ==
    /\ del[i] = "tombstoned"
    /\ SetStore(RemoveSnapshots(Store, Invalidated(i)), {})
    /\ del' = [del EXCEPT ![i] = "invalidated"]
    /\ UNCHANGED <<version, items, old, req, gone>>

Unlink(i) ==
    /\ del[i] = "invalidated"
    /\ del' = [del EXCEPT ![i] = "unlinked"]
    /\ UNCHANGED <<version, items, leases, old, pages, order, req, gone>>

PagesNext ==
    \/ \E r \in Requests :
          \/ Retain(r) \/ Refused(r) \/ StoreBusy(r) \/ FirstPage(r)
          \/ PublishFirstPage(r) \/ Abort(r) \/ Disconnect(r) \/ Expire(r)
    \/ \E i \in Items : Tombstone(i) \/ Invalidate(i) \/ Unlink(i)
    \/ Reap
    \/ UpdateOutput

PagesSpec == PagesInit /\ [][PagesNext]_pagesVars

(***************************************************************************)
(* What must hold.                                                         *)
(***************************************************************************)
\* Once the snapshots of an item have been invalidated and its media may be
\* unlinked, no stored snapshot shows the item, whatever requests had
\* retained the old output before: no later page offers what is gone.
PagesHonourDeletion ==
    \A i \in Items : del[i] \in {"invalidated", "unlinked"} =>
        \A v \in Stored : i \notin pages[v].shows

\* Every lease in the registry belongs to a stored snapshot or to a request
\* that has not entered the store yet; every stored snapshot that has its
\* lease still is published or has a request that will publish or cancel it.
\* Otherwise bodies are kept, or store capacity is lost, for nobody.
LeasesAreOwned ==
    /\ leases \ old \subseteq {pages[v].lease : v \in Stored} \cup {r \in Requests : req[r].pc = "retained"}
    /\ \A v \in Stored : pages[v].published \/
          \E r \in pages[v].pending : req[r].pc = "paged" /\ req[r].version = v
    /\ {order[k] : k \in DOMAIN order} = Stored /\ Len(order) = Cardinality(Stored)

PagesAreCurrent == PagesHonourDeletion /\ LeasesAreOwned
=============================================================================
