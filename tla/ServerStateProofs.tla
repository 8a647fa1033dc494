-------------------------- MODULE ServerStateProofs ---------------------------
(*****************************************************************************)
(* Proofs about three components of the server's state that share nothing.   *)
(* The first part is about the pages of task results, for any requests,      *)
(* items and size of the page store.  The second part is about the state     *)
(* file, for any files that older versions may have left: it gives back what *)
(* was saved in it (SavedStateSurvives), and a snapshot stands for one output*)
(* (SnapshotsAreSound).  The third part is about plans: one of restricted    *)
(* content that is returned is honest about its route                        *)
(* (ResolverRouting!RoutingIsHonest), for any plans, hosts and limits.       *)
(*****************************************************************************)
EXTENDS ResultPages, TaskSnapshots, ResolverRouting, InductionFacts, TLAPS

-----------------------------------------------------------------------------
(* The inductive invariant.                                                 *)

Page == [lease : Requests, shows : SUBSET Items, published : BOOLEAN, pending : SUBSET Requests]

Request == [pc : {"idle", "retained", "paged", "served", "failed"}, version : Nat,
            shows : SUBSET Items, registered : BOOLEAN]

TypeInv ==
    /\ version \in Nat
    /\ items \in SUBSET Items
    /\ pages \in [Stored -> Page]
    /\ req \in [Requests -> Request]
    /\ del \in [Items -> {"none", "tombstoned", "invalidated", "unlinked"}]

\* No request holds a version of the output that is still to come.
VersionInv == \A r \in Requests : req[r].version <= version

\* An item that is being deleted left the output before its pages left the
\* store, and a request that may still store a page shows the output as it is.
ShownInv ==
    /\ \A i \in items : del[i] = "none"
    /\ \A r \in Requests : req[r].pc = "retained" /\ Current(r) => req[r].shows \subseteq items
    /\ \A v \in Stored : \A i \in pages[v].shows : del[i] \in {"none", "tombstoned"}

\* A page is published or waits for requests that are about to publish it.
PendingInv ==
    \A v \in Stored :
        /\ pages[v].published \/ pages[v].pending # {}
        /\ \A r \in pages[v].pending :
              req[r].pc = "paged" /\ req[r].version = v /\ req[r].registered /\ ~pages[v].published

\* A lease that has not expired has an owner.
OwnedInv ==
    \A l \in leases \ old :
        (\E v \in Stored : pages[v].lease = l) \/ (l \in Requests /\ req[l].pc = "retained")

IInv == TypeInv /\ VersionInv /\ ShownInv /\ PendingInv /\ OwnedInv /\ Lists(order, Stored)

-----------------------------------------------------------------------------
(* What the operations of the page store return.                            *)

IsStore(s) ==
    /\ s = [pages |-> s.pages, order |-> s.order, released |-> s.released]
    /\ s.pages \in [DOMAIN s.pages -> Page]
    /\ Lists(s.order, DOMAIN s.pages)

\* Snapshots may have gone, and then their leases are to be released.
Shrinks(s, d) ==
    /\ IsStore(d)
    /\ DOMAIN d.pages \subseteq DOMAIN s.pages
    /\ \A v \in DOMAIN d.pages : d.pages[v] = s.pages[v]
    /\ \A v \in DOMAIN s.pages : v \in DOMAIN d.pages \/ s.pages[v].lease \in d.released
    /\ s.released \subseteq d.released

\* remove_snapshot: nothing but the snapshots goes.
LEMMA RemoveFacts ==
    ASSUME NEW s, IsStore(s), NEW V
    PROVE  /\ Shrinks(s, RemoveSnapshots(s, V))
           /\ DOMAIN RemoveSnapshots(s, V).pages = DOMAIN s.pages \ V
<1> DEFINE left == DOMAIN s.pages \ V
           p == [v \in left |-> s.pages[v]]
           o == Without(s.order, V)
           l == s.released \cup {s.pages[v].lease : v \in V \cap DOMAIN s.pages}
           d == [pages |-> p, order |-> o, released |-> l]
<1>1. RemoveSnapshots(s, V) = d
  BY DEF RemoveSnapshots
<1>2. DOMAIN p = left /\ (\A v \in left : p[v] = s.pages[v]) /\ p \in [left -> Page]
  BY DEF IsStore
<1>3. Lists(o, left)
  BY WithoutLists DEF IsStore
<1>4. \A v \in DOMAIN s.pages : v \in left \/ s.pages[v].lease \in l
  OBVIOUS
<1>5. s.released \subseteq l
  OBVIOUS
<1> HIDE DEF p, o, l
<1>6. d.pages = p /\ d.order = o /\ d.released = l
  OBVIOUS
<1> HIDE DEF d
<1>7. IsStore(d)
  BY <1>2, <1>3, <1>6 DEF IsStore, d
<1> QED BY <1>1, <1>2, <1>4, <1>5, <1>6, <1>7 DEF Shrinks

\* Two operations that only remove snapshots.
LEMMA ShrinksTwice ==
    ASSUME NEW s, NEW d, NEW e, Shrinks(s, d), Shrinks(d, e)
    PROVE  Shrinks(s, e)
BY DEF Shrinks

\* prune and evict_oldest_published_snapshot only remove snapshots.
LEMMA PruneEvictFacts ==
    ASSUME NEW s, IsStore(s)
    PROVE  Shrinks(s, Prune(s)) /\ Shrinks(s, Evict(s))
<1>1. Shrinks(s, Prune(s))
  <2> DEFINE V == {v \in DOMAIN s.pages : s.pages[v].lease \in old}
  <2>1. Prune(s) = RemoveSnapshots(s, V)
    BY DEF Prune
  <2> HIDE DEF V
  <2> QED BY <2>1, RemoveFacts
<1>2. Shrinks(s, s)
  BY DEF Shrinks
<1>3. Shrinks(s, RemoveSnapshots(s, {Oldest(s)}))
  BY RemoveFacts
<1>4. Evict(s) = s \/ Evict(s) = RemoveSnapshots(s, {Oldest(s)})
  BY DEF Evict
<1> QED BY <1>1, <1>2, <1>3, <1>4

\* A snapshot is stored under its version, at the end of the order.
LEMMA PutFacts ==
    ASSUME NEW s, IsStore(s), NEW v, NEW page \in Page
    PROVE  /\ IsStore(Put(s, v, page))
           /\ DOMAIN Put(s, v, page).pages = DOMAIN s.pages \cup {v}
           /\ Put(s, v, page).pages[v] = page
           /\ \A w \in DOMAIN s.pages : w # v => Put(s, v, page).pages[w] = s.pages[w]
           /\ Put(s, v, page).released = s.released
<1> DEFINE more == DOMAIN s.pages \cup {v}
           p == [w \in more |-> IF w = v THEN page ELSE s.pages[w]]
           q == Without(s.order, {v})
           o == Append(q, v)
           d == [pages |-> p, order |-> o, released |-> s.released]
<1>1. Put(s, v, page) = d
  <2>1. Put(s, v, page) = [s EXCEPT !.pages = p, !.order = o]
    BY DEF Put
  <2> HIDE DEF p, o
  <2> QED BY <2>1 DEF IsStore
<1>2. DOMAIN p = more /\ p[v] = page /\ p \in [more -> Page]
  BY DEF IsStore
<1>3. \A w \in DOMAIN s.pages : w # v => p[w] = s.pages[w]
  OBVIOUS
<1>4. Lists(o, more)
  <2> DEFINE S == DOMAIN s.pages \ {v}
  <2>1. Lists(q, S) /\ v \notin S /\ S \cup {v} = more
    BY WithoutLists DEF IsStore
  <2> HIDE DEF q, S, more
  <2>2. Lists(Append(q, v), S \cup {v})
    BY <2>1, AppendLists
  <2> QED BY <2>1, <2>2
<1> HIDE DEF p, o
<1>5. d.pages = p /\ d.order = o /\ d.released = s.released
  OBVIOUS
<1> HIDE DEF d
<1>6. IsStore(d)
  BY <1>2, <1>4, <1>5 DEF IsStore, d
<1> QED BY <1>1, <1>2, <1>3, <1>5, <1>6

\* A request stores the output it retained, or takes over the snapshot of it.
Inserted(p, v, r, s) ==
    /\ IsStore(s)
    /\ v \in DOMAIN s.pages /\ DOMAIN s.pages \subseteq DOMAIN p.pages \cup {v}
    /\ \A w \in DOMAIN s.pages : w # v => w \in DOMAIN p.pages /\ s.pages[w] = p.pages[w]
    /\ s.pages[v].lease = r
    /\ IF v \in DOMAIN p.pages
       THEN /\ s.pages[v].shows = p.pages[v].shows
            /\ s.pages[v].published = p.pages[v].published
            /\ s.pages[v].pending = p.pages[v].pending
       ELSE s.pages[v].shows = req[r].shows /\ ~s.pages[v].published /\ s.pages[v].pending = {}
    /\ \A w \in DOMAIN p.pages : (w \in DOMAIN s.pages /\ w # v) \/ p.pages[w].lease \in s.released
    /\ p.released \subseteq s.released

\* insert.
LEMMA InsertFacts ==
    ASSUME NEW p, IsStore(p), NEW v, NEW r \in Requests, req \in [Requests -> Request]
    PROVE  Inserted(p, v, r, Insert(p, v, r))
<1>1. CASE v \in DOMAIN p.pages
  <2> DEFINE page == [p.pages[v] EXCEPT !.lease = r]
             l == p.pages[v].lease
             put == Put(p, v, page)
             rel == put.released \cup {l}
             s == [put EXCEPT !.released = rel]
  <2>1. /\ page \in Page /\ page.lease = r /\ page.shows = p.pages[v].shows
        /\ page.published = p.pages[v].published /\ page.pending = p.pages[v].pending
    BY <1>1 DEF IsStore, Page
  <2>2. Insert(p, v, r) = s
    BY <1>1 DEF Insert
  <2> HIDE DEF page
  <2>3. /\ IsStore(put) /\ DOMAIN put.pages = DOMAIN p.pages \cup {v} /\ put.pages[v] = page
        /\ \A w \in DOMAIN p.pages : w # v => put.pages[w] = p.pages[w]
        /\ put.released = p.released
    BY <2>1, PutFacts
  <2> HIDE DEF put, l
  <2>4. /\ s = [pages |-> s.pages, order |-> s.order, released |-> s.released]
        /\ s.pages = put.pages /\ s.order = put.order /\ s.released = rel
    <3>1. put = [pages |-> put.pages, order |-> put.order, released |-> put.released]
      BY <2>3 DEF IsStore
    <3> HIDE DEF rel
    <3> QED BY <3>1
  <2>5. l \in s.released /\ p.released \subseteq s.released
    BY <2>3, <2>4
  <2> HIDE DEF s
  <2>6. IsStore(s)
    BY <2>3, <2>4 DEF IsStore
  <2>7. \A w \in DOMAIN p.pages : (w \in DOMAIN s.pages /\ w # v) \/ p.pages[w].lease \in s.released
    BY <2>3, <2>4, <2>5 DEF l
  <2>8. Inserted(p, v, r, s)
    BY <1>1, <2>1, <2>3, <2>4, <2>5, <2>6, <2>7 DEF Inserted
  <2> QED BY <2>2, <2>8
<1>2. CASE v \notin DOMAIN p.pages
  <2> DEFINE page == [lease |-> r, shows |-> req[r].shows, published |-> FALSE, pending |-> {}]
             e == Evict(p)
             s == Put(e, v, page)
  <2>1. /\ page \in Page /\ page.lease = r /\ page.shows = req[r].shows
        /\ ~page.published /\ page.pending = {}
    BY DEF Page, Request
  <2>2. Insert(p, v, r) = s
    BY <1>2 DEF Insert
  <2> HIDE DEF page, e
  <2>3. Shrinks(p, e)
    BY PruneEvictFacts DEF e
  <2>4. /\ IsStore(s) /\ DOMAIN s.pages = DOMAIN e.pages \cup {v} /\ s.pages[v] = page
        /\ \A w \in DOMAIN e.pages : w # v => s.pages[w] = e.pages[w]
        /\ s.released = e.released
    BY <2>1, <2>3, PutFacts DEF Shrinks
  <2> HIDE DEF s
  <2>5. Inserted(p, v, r, s)
    BY <1>2, <2>1, <2>3, <2>4 DEF Inserted, Shrinks
  <2> QED BY <2>2, <2>5
<1> QED BY <1>1, <1>2

\* Only who waits for the publication of v changes, and that by the set N.
Rewaits(s, v, N, t) ==
    /\ IsStore(t) /\ DOMAIN t.pages = DOMAIN s.pages /\ t.released = s.released
    /\ \A w \in DOMAIN s.pages :
          /\ t.pages[w].lease = s.pages[w].lease /\ t.pages[w].shows = s.pages[w].shows
          /\ t.pages[w].published = s.pages[w].published
          /\ t.pages[w].pending = IF w = v THEN N ELSE s.pages[w].pending

\* An update of the pending registrations.
LEMMA RewaitFacts ==
    ASSUME NEW s, IsStore(s), NEW v \in DOMAIN s.pages, NEW N \in SUBSET Requests
    PROVE  Rewaits(s, v, N, [s EXCEPT !.pages[v].pending = N])
<1> DEFINE page == [s.pages[v] EXCEPT !.pending = N]
           p == [s.pages EXCEPT ![v] = page]
           t == [s EXCEPT !.pages = p]
<1>1. [s EXCEPT !.pages[v].pending = N] = t
  OBVIOUS
<1>2. /\ page \in Page /\ page.lease = s.pages[v].lease /\ page.shows = s.pages[v].shows
      /\ page.published = s.pages[v].published /\ page.pending = N
  BY DEF IsStore, Page
<1> HIDE DEF page
<1>3. /\ p \in [DOMAIN s.pages -> Page] /\ DOMAIN p = DOMAIN s.pages
      /\ p[v] = page /\ \A w \in DOMAIN s.pages : w # v => p[w] = s.pages[w]
  BY <1>2 DEF IsStore
<1> HIDE DEF p
<1>4. /\ t = [pages |-> t.pages, order |-> t.order, released |-> t.released]
      /\ t.pages = p /\ t.order = s.order /\ t.released = s.released
  BY DEF IsStore
<1> HIDE DEF t
<1>5. IsStore(t)
  BY <1>3, <1>4 DEF IsStore
<1>6. Rewaits(s, v, N, t)
  BY <1>2, <1>3, <1>4, <1>5 DEF Rewaits
<1> QED BY <1>1, <1>6

\* register_first_page.
LEMMA RegisterFacts ==
    ASSUME NEW s, IsStore(s), NEW v \in DOMAIN s.pages, NEW r \in Requests
    PROVE  Rewaits(s, v, IF s.pages[v].published THEN s.pages[v].pending ELSE s.pages[v].pending \cup {r},
                   Register(s, v, r))
<1>1. CASE s.pages[v].published
  <2>1. Register(s, v, r) = s
    BY <1>1 DEF Register
  <2> QED BY <1>1, <2>1 DEF Rewaits
<1>2. CASE ~s.pages[v].published
  <2> DEFINE N == s.pages[v].pending \cup {r}
  <2>1. Register(s, v, r) = [s EXCEPT !.pages[v].pending = N]
    BY <1>2 DEF Register
  <2>2. N \in SUBSET Requests
    BY DEF IsStore, Page
  <2> HIDE DEF N
  <2>3. Rewaits(s, v, N, [s EXCEPT !.pages[v].pending = N])
    BY <2>2, RewaitFacts
  <2> QED BY <1>2, <2>1, <2>3 DEF N
<1> QED BY <1>1, <1>2

\* A registration is taken back, the last one with its snapshot.
LEMMA CancelFacts ==
    ASSUME NEW s, IsStore(s), NEW v \in DOMAIN s.pages, NEW r \in Requests
    PROVE  LET page == s.pages[v]
               c    == CancelFirstPage(s, v, r)
           IN  IF page.published THEN c = s
               ELSE IF page.pending = {r} THEN Shrinks(s, c) /\ DOMAIN c.pages = DOMAIN s.pages \ {v}
               ELSE Rewaits(s, v, page.pending \ {r}, c)
<1> DEFINE page == s.pages[v]
           c == CancelFirstPage(s, v, r)
<1>1. CASE page.published
  BY <1>1 DEF CancelFirstPage
<1>2. CASE ~page.published /\ page.pending = {r}
  <2>1. c = RemoveSnapshots(s, {v})
    BY <1>2 DEF CancelFirstPage
  <2> QED BY <1>2, <2>1, RemoveFacts
<1>3. CASE ~page.published /\ page.pending # {r} /\ r \in page.pending
  <2> DEFINE N == page.pending \ {r}
  <2>1. c = [s EXCEPT !.pages[v].pending = N]
    BY <1>3 DEF CancelFirstPage
  <2>2. N \in SUBSET Requests
    BY DEF IsStore, Page
  <2> HIDE DEF N
  <2>3. Rewaits(s, v, N, [s EXCEPT !.pages[v].pending = N])
    BY <2>2, RewaitFacts
  <2> QED BY <1>3, <2>1, <2>3 DEF N
<1>4. CASE ~page.published /\ page.pending # {r} /\ r \notin page.pending
  <2>1. c = s /\ page.pending \ {r} = page.pending
    BY <1>4 DEF CancelFirstPage
  <2>2. Rewaits(s, v, page.pending \ {r}, s)
    BY <2>1 DEF Rewaits
  <2>3. Rewaits(s, v, page.pending \ {r}, c)
    BY ONLY <2>1, <2>2
  <2> HIDE DEF c
  <2> QED BY <1>4, <2>3 DEF c
<1> QED BY <1>1, <1>2, <1>3, <1>4

-----------------------------------------------------------------------------
(* The steps.                                                               *)

\* The store of a state, as the operations take it.
LEMMA StoreFacts ==
    ASSUME IInv
    PROVE  IsStore(Store) /\ Store.pages = pages /\ Store.order = order /\ Store.released = {}
BY DEF IInv, TypeInv, IsStore, Store, Stored

\* No lease is forgotten when every snapshot that goes or changes its lease
\* releases the lease it had, and a request that enters the store gives its own.
LEMMA OwnedKept ==
    ASSUME IInv, NEW d, NEW X, SetStore(d, X), old' = old,
           \A v \in Stored : \/ v \in DOMAIN d.pages /\ d.pages[v].lease = pages[v].lease
                             \/ pages[v].lease \in d.released,
           \A r \in Requests : req[r].pc = "retained" =>
               \/ req'[r].pc = "retained" \/ r \in X \/ r \in d.released
               \/ \E v \in DOMAIN d.pages : d.pages[v].lease = r
    PROVE  OwnedInv'
<1>1. pages' = d.pages /\ leases' = (leases \ d.released) \ X
  BY DEF SetStore
<1>2. ASSUME NEW l \in leases' \ old'
      PROVE  (\E v \in DOMAIN pages' : pages'[v].lease = l) \/ (l \in Requests /\ req'[l].pc = "retained")
  <2>1. l \in leases \ old /\ l \notin d.released /\ l \notin X
    BY <1>1, <1>2
  <2>2. CASE \E v \in Stored : pages[v].lease = l
    <3>1. PICK v \in Stored : pages[v].lease = l
      BY <2>2
    <3> QED BY <1>1, <2>1, <3>1
  <2>3. CASE l \in Requests /\ req[l].pc = "retained"
    BY <1>1, <2>1, <2>3
  <2> QED BY <2>1, <2>2, <2>3 DEF IInv, OwnedInv
<1> QED BY <1>2 DEF OwnedInv, Stored

\* The answer to a request.
LEMMA AnswerFacts ==
    ASSUME TypeInv, NEW r \in Requests, NEW result \in {"served", "failed"}, Answer(r, result)
    PROVE  /\ req' \in [Requests -> Request]
           /\ req'[r].pc = result /\ req'[r].version = req[r].version /\ req'[r].shows = req[r].shows
           /\ \A q \in Requests : q # r => req'[q] = req[q]
BY DEF TypeInv, Answer, Request

\* Snapshots that expired or must not be used any more leave the store, and a
\* request that cannot be served gives its lease back.
LEMMA ShrinkKeeps ==
    ASSUME IInv, NEW d, NEW X, Shrinks(Store, d), SetStore(d, X), UNCHANGED <<version, items, old>>,
           \/ req' = req
           \/ \E r \in Requests \cap X : req[r].pc = "retained" /\ Answer(r, "failed"),
           del' \in [Items -> {"none", "tombstoned", "invalidated", "unlinked"}],
           \A i \in Items : del'[i] = del[i] \/ (del[i] # "none" /\ DOMAIN d.pages = {})
    PROVE  IInv'
<1>1. /\ IsStore(d) /\ pages' = d.pages /\ order' = d.order
      /\ DOMAIN pages' \subseteq Stored /\ \A v \in DOMAIN pages' : pages'[v] = pages[v]
      /\ \A v \in Stored : v \in DOMAIN d.pages \/ pages[v].lease \in d.released
  BY StoreFacts DEF Shrinks, SetStore, Stored
<1>2. /\ req' \in [Requests -> Request]
      /\ \A r \in Requests : /\ req'[r].version = req[r].version /\ req'[r].shows = req[r].shows
                             /\ req'[r] = req[r] \/ (req[r].pc = "retained" /\ r \in X /\ req'[r].pc = "failed")
  <2>1. CASE req' = req
    BY <2>1 DEF IInv, TypeInv
  <2>2. CASE \E r \in Requests \cap X : req[r].pc = "retained" /\ Answer(r, "failed")
    <3>1. PICK r \in Requests \cap X : req[r].pc = "retained" /\ Answer(r, "failed")
      BY <2>2
    <3> QED BY <3>1, AnswerFacts DEF IInv
  <2> QED BY <2>1, <2>2
<1>3. TypeInv'
  BY <1>1, <1>2 DEF IInv, TypeInv, IsStore, Stored
<1>4. VersionInv'
  BY <1>2 DEF IInv, VersionInv
<1>5. ShownInv'
  <2>1. \A i \in items' : del'[i] = "none"
    BY DEF IInv, TypeInv, ShownInv
  <2>2. \A r \in Requests : req'[r].pc = "retained" /\ req'[r].version = version' => req'[r].shows \subseteq items'
    BY <1>2 DEF IInv, ShownInv, Current
  <2>3. \A v \in DOMAIN pages' : \A i \in pages'[v].shows : del'[i] \in {"none", "tombstoned"}
    BY <1>1 DEF IInv, TypeInv, ShownInv, Page
  <2> QED BY <2>1, <2>2, <2>3 DEF ShownInv, Current, Stored
<1>6. PendingInv'
  <2>1. ASSUME NEW v \in DOMAIN pages', NEW r \in pages[v].pending
        PROVE  req'[r].pc = "paged" /\ req'[r].version = v /\ req'[r].registered /\ ~pages'[v].published
    <3>1. v \in Stored /\ r \in Requests /\ pages'[v] = pages[v]
      BY <1>1, <2>1 DEF IInv, TypeInv, Page
    <3>2. req[r].pc = "paged" /\ req[r].version = v /\ req[r].registered /\ ~pages[v].published
      BY <3>1 DEF IInv, PendingInv
    <3> QED BY <1>2, <3>1, <3>2
  <2> QED BY <1>1, <2>1 DEF IInv, PendingInv, Stored
<1>7. OwnedInv'
  <2>1. \A v \in Stored : \/ v \in DOMAIN d.pages /\ d.pages[v].lease = pages[v].lease
                          \/ pages[v].lease \in d.released
    BY <1>1
  <2>2. \A r \in Requests : req[r].pc = "retained" =>
            \/ req'[r].pc = "retained" \/ r \in X \/ r \in d.released
            \/ \E v \in DOMAIN d.pages : d.pages[v].lease = r
    BY <1>2
  <2> QED BY <2>1, <2>2, OwnedKept
<1>8. Lists(order', DOMAIN pages')
  BY <1>1 DEF IsStore
<1> QED BY <1>3, <1>4, <1>5, <1>6, <1>7, <1>8 DEF IInv, Stored

\* Refused requests, a busy store, the reaper and an invalidation.
LEMMA RemovalsKeep ==
    ASSUME IInv
    PROVE  /\ \A r \in Requests : Refused(r) \/ StoreBusy(r) => IInv'
           /\ Reap => IInv'
           /\ \A i \in Items : Invalidate(i) => IInv'
<1>1. /\ IsStore(Store) /\ Store.pages = pages /\ Store.order = order /\ Store.released = {}
      /\ Shrinks(Store, Store) /\ Shrinks(Store, Prune(Store))
      /\ del \in [Items -> {"none", "tombstoned", "invalidated", "unlinked"}]
  BY StoreFacts, PruneEvictFacts DEF Shrinks, IInv, TypeInv
<1>2. ASSUME NEW r \in Requests, Refused(r) PROVE IInv'
  <2>1. SetStore(Store, {r})
    BY <1>1, <1>2 DEF Refused, SetStore
  <2>2. /\ UNCHANGED <<version, items, old, del>> /\ r \in Requests \cap {r}
        /\ req[r].pc = "retained" /\ Answer(r, "failed")
    BY <1>2 DEF Refused
  <2> QED BY <1>1, <2>1, <2>2, ShrinkKeeps
<1>3. ASSUME NEW r \in Requests, StoreBusy(r) PROVE IInv'
  <2>1. SetStore(Prune(Store), {r})
    BY <1>3 DEF StoreBusy
  <2>2. /\ UNCHANGED <<version, items, old, del>> /\ r \in Requests \cap {r}
        /\ req[r].pc = "retained" /\ Answer(r, "failed")
    BY <1>3 DEF StoreBusy
  <2> QED BY <1>1, <2>1, <2>2, ShrinkKeeps
<1>4. ASSUME Reap PROVE IInv'
  <2>1. SetStore(Prune(Store), {}) /\ UNCHANGED <<version, items, old, req, del>>
    BY <1>4 DEF Reap
  <2> QED BY <1>1, <2>1, ShrinkKeeps
<1>5. ASSUME NEW i \in Items, Invalidate(i) PROVE IInv'
  <2> DEFINE d == RemoveSnapshots(Store, Stored)
  <2>1. SetStore(d, {}) /\ UNCHANGED <<version, items, old, req>> /\ del[i] = "tombstoned"
        /\ del' = [del EXCEPT ![i] = "invalidated"]
    BY <1>5 DEF Invalidate, Invalidated
  <2>2. Shrinks(Store, d) /\ DOMAIN d.pages = {}
    BY <1>1, RemoveFacts DEF Stored
  <2>3. /\ del' \in [Items -> {"none", "tombstoned", "invalidated", "unlinked"}]
        /\ \A j \in Items : del'[j] = del[j] \/ del[j] # "none"
    BY <1>1, <2>1
  <2> HIDE DEF d
  <2> QED BY <2>1, <2>2, <2>3, ShrinkKeeps
<1> QED BY <1>2, <1>3, <1>4, <1>5

\* A request retains the output as it is.
LEMMA RetainKeeps ==
    ASSUME IInv, NEW r \in Requests, Retain(r)
    PROVE  IInv'
<1> DEFINE now == [pc |-> "retained", version |-> version, shows |-> items, registered |-> FALSE]
<1>1. /\ UNCHANGED <<version, items, old, pages, order, del>> /\ leases' = (leases \ old) \cup {r}
      /\ req[r].pc = "idle" /\ req' = [req EXCEPT ![r] = now]
  BY DEF Retain
<1>2. /\ req' \in [Requests -> Request] /\ req'[r] = now
      /\ \A q \in Requests : q # r => req'[q] = req[q]
  BY <1>1 DEF IInv, TypeInv, Request
<1>3. TypeInv'
  BY <1>1, <1>2 DEF IInv, TypeInv, Stored
<1>4. VersionInv'
  BY <1>1, <1>2 DEF IInv, VersionInv, TypeInv
<1>5. ShownInv'
  BY <1>1, <1>2 DEF IInv, ShownInv, Current, Stored
<1>6. PendingInv'
  <2>1. ASSUME NEW v \in Stored, NEW q \in pages[v].pending PROVE q \in Requests /\ q # r
    BY <1>1 DEF IInv, TypeInv, PendingInv, Page
  <2> QED BY <1>1, <1>2, <2>1 DEF IInv, PendingInv, Stored
<1>7. OwnedInv'
  BY <1>1, <1>2 DEF IInv, OwnedInv, Stored
<1>8. Lists(order', DOMAIN pages')
  BY <1>1 DEF IInv, Stored
<1> QED BY <1>3, <1>4, <1>5, <1>6, <1>7, <1>8 DEF IInv, Stored

\* Steps that concern neither the page store nor a request that entered it.
LEMMA OthersKeep ==
    ASSUME IInv
    PROVE  /\ \A r \in Requests : Disconnect(r) \/ Expire(r) => IInv'
           /\ UpdateOutput => IInv'
           /\ \A i \in Items : Tombstone(i) \/ Unlink(i) => IInv'
<1>1. ASSUME UNCHANGED <<version, items, leases, pages, order, req, del>>, old \subseteq old'
      PROVE  IInv'
  BY <1>1 DEF IInv, TypeInv, VersionInv, ShownInv, PendingInv, OwnedInv, Current, Stored
<1>2. ASSUME NEW r \in Requests, Disconnect(r) \/ Expire(r) PROVE IInv'
  BY <1>1, <1>2 DEF Disconnect, Expire
<1>3. ASSUME version' = version + 1, items' \subseteq items,
             del' \in [Items -> {"none", "tombstoned", "invalidated", "unlinked"}],
             \A j \in Items : del'[j] = del[j] \/ (del'[j] = "tombstoned" /\ j \notin items'),
             UNCHANGED <<leases, old, pages, order, req>>
      PROVE  IInv'
  <2>1. TypeInv' /\ VersionInv'
    BY <1>3 DEF IInv, TypeInv, VersionInv, Stored, Request
  <2>2. ShownInv'
    <3>1. \A r \in Requests : req[r].version # version'
      BY <1>3 DEF IInv, TypeInv, VersionInv, Request
    <3>2. \A v \in Stored : \A j \in pages[v].shows : j \in Items
      BY DEF IInv, TypeInv, Page
    <3> QED BY <1>3, <3>1, <3>2 DEF IInv, ShownInv, TypeInv, Current, Stored
  <2>3. PendingInv' /\ OwnedInv' /\ Lists(order', DOMAIN pages')
    BY <1>3 DEF IInv, PendingInv, OwnedInv, Stored
  <2> QED BY <2>1, <2>2, <2>3 DEF IInv, Stored
<1>4. ASSUME UpdateOutput PROVE IInv'
  <2>1. del \in [Items -> {"none", "tombstoned", "invalidated", "unlinked"}]
    BY DEF IInv, TypeInv
  <2> QED BY <1>3, <1>4, <2>1 DEF UpdateOutput
<1>5. ASSUME NEW i \in Items, Tombstone(i) PROVE IInv'
  <2>1. /\ del' = [del EXCEPT ![i] = "tombstoned"] /\ items' = items \ {i} /\ version' = version + 1
        /\ UNCHANGED <<leases, old, pages, order, req>>
        /\ del \in [Items -> {"none", "tombstoned", "invalidated", "unlinked"}]
    BY <1>5 DEF Tombstone, IInv, TypeInv
  <2> QED BY <1>3, <2>1
<1>6. ASSUME NEW i \in Items, Unlink(i) PROVE IInv'
  <2>1. /\ del[i] = "invalidated" /\ del' = [del EXCEPT ![i] = "unlinked"]
        /\ UNCHANGED <<version, items, leases, old, pages, order, req>>
        /\ del \in [Items -> {"none", "tombstoned", "invalidated", "unlinked"}]
    BY <1>6 DEF Unlink, IInv, TypeInv
  <2>2. ShownInv'
    <3>1. \A v \in Stored : \A j \in pages[v].shows : j \in Items /\ j # i
      BY <2>1 DEF IInv, TypeInv, ShownInv, Page
    <3> QED BY <2>1, <3>1 DEF IInv, ShownInv, TypeInv, Current, Stored
  <2> QED BY <2>1, <2>2 DEF IInv, TypeInv, VersionInv, PendingInv, OwnedInv, Stored
<1> QED BY <1>2, <1>4, <1>5, <1>6

\* The store d once request r has its snapshot in it, or has taken back its
\* registration, seen from the store of the state.
Entered(d, v, r, waits) ==
    /\ IsStore(d)
    /\ DOMAIN d.pages \subseteq Stored \cup {v}
    /\ \A w \in Stored : (w \in DOMAIN d.pages /\ w # v) \/ pages[w].lease \in d.released
    /\ \A w \in DOMAIN d.pages : w # v =>
          /\ d.pages[w].lease = pages[w].lease /\ d.pages[w].shows = pages[w].shows
          /\ d.pages[w].published = pages[w].published /\ d.pages[w].pending = pages[w].pending
    /\ r \in d.released \/ (v \in DOMAIN d.pages /\ d.pages[v].lease = r)
    /\ v \in DOMAIN d.pages =>
          /\ IF v \in Stored THEN d.pages[v].shows \in {pages[v].shows, req[r].shows}
                             ELSE d.pages[v].shows = req[r].shows
          /\ \/ /\ d.pages[v].published /\ d.pages[v].pending = {}
             \/ /\ ~d.pages[v].published /\ d.pages[v].pending # {}
                /\ \A q \in d.pages[v].pending :
                      (waits /\ q = r) \/ (v \in Stored /\ q \in pages[v].pending)

\* A first page leaves a sound state, whether it fits or not.
LEMMA EnteredKeeps ==
    ASSUME IInv, NEW r \in Requests, req[r].pc = "retained", Current(r), NEW d,
           NEW waits \in BOOLEAN, Entered(d, req[r].version, r, waits), SetStore(d, {}),
           req' \in [Requests -> Request], \A q \in Requests : q # r => req'[q] = req[q],
           req'[r].pc \in {"paged", "failed"}, req'[r].version = req[r].version,
           waits => req'[r].pc = "paged" /\ req'[r].registered,
           UNCHANGED <<version, items, old, del>>
    PROVE  IInv'
<1> DEFINE v == req[r].version
<1>1. /\ pages' = d.pages /\ order' = d.order /\ IsStore(d) /\ DOMAIN d.pages \subseteq Stored \cup {v}
      /\ Entered(d, v, r, waits) /\ v \in Nat
  BY DEF SetStore, Entered, IInv, TypeInv, Request
<1> HIDE DEF v
<1>2. TypeInv'
  BY <1>1 DEF IInv, TypeInv, IsStore, Stored
<1>3. VersionInv'
  BY DEF IInv, VersionInv
<1>4. ShownInv'
  <2>1. \A q \in Requests : req'[q].pc = "retained" /\ req'[q].version = version' => req'[q].shows \subseteq items'
    BY DEF IInv, ShownInv, Current
  <2>2. ASSUME NEW w \in DOMAIN d.pages, NEW i \in d.pages[w].shows PROVE del[i] \in {"none", "tombstoned"}
    <3>1. (w \in Stored /\ d.pages[w].shows = pages[w].shows) \/ d.pages[w].shows = req[r].shows
      BY <1>1 DEF Entered, v
    <3>2. req[r].shows \subseteq items
      BY DEF IInv, ShownInv
    <3> QED BY <2>2, <3>1, <3>2 DEF IInv, ShownInv
  <2>3. \A i \in items' : del'[i] = "none"
    BY DEF IInv, ShownInv
  <2> QED BY <1>1, <2>1, <2>2, <2>3 DEF ShownInv, Current, Stored
<1>5. PendingInv'
  <2>1. ASSUME NEW w \in Stored, NEW q \in pages[w].pending
        PROVE  /\ q \in Requests /\ q # r /\ req'[q] = req[q] /\ req[q].pc = "paged"
               /\ req[q].version = w /\ req[q].registered /\ ~pages[w].published
    <3>1. q \in Requests /\ req[q].pc = "paged"
      BY DEF IInv, TypeInv, PendingInv, Page
    <3> QED BY <3>1 DEF IInv, PendingInv
  <2>2. ASSUME NEW w \in DOMAIN d.pages
        PROVE  /\ d.pages[w].published \/ d.pages[w].pending # {}
               /\ \A q \in d.pages[w].pending :
                     req'[q].pc = "paged" /\ req'[q].version = w /\ req'[q].registered /\ ~d.pages[w].published
    <3>1. CASE w # v
      <4>1. /\ w \in Stored /\ d.pages[w].pending = pages[w].pending
            /\ d.pages[w].published = pages[w].published
        BY <1>1, <2>2, <3>1 DEF Entered
      <4>2. pages[w].published \/ pages[w].pending # {}
        BY <4>1 DEF IInv, PendingInv
      <4> QED BY <2>1, <4>1, <4>2
    <3>2. CASE w = v
      <4>1. CASE d.pages[v].published /\ d.pages[v].pending = {}
        BY <3>2, <4>1
      <4>2. CASE ~d.pages[v].published /\ d.pages[v].pending # {}
        <5>1. ASSUME NEW q \in d.pages[v].pending
              PROVE  req'[q].pc = "paged" /\ req'[q].version = v /\ req'[q].registered
          <6>1. (waits /\ q = r) \/ (v \in Stored /\ q \in pages[v].pending)
            BY <1>1, <2>2, <3>2, <4>2, <5>1 DEF Entered
          <6> QED BY <2>1, <6>1 DEF v
        <5> QED BY <3>2, <4>2, <5>1
      <4> QED BY <1>1, <2>2, <3>2, <4>1, <4>2 DEF Entered
    <3> QED BY <3>1, <3>2
  <2> QED BY <1>1, <2>2 DEF PendingInv, Stored
<1>6. OwnedInv'
  <2>1. \A w \in Stored : \/ w \in DOMAIN d.pages /\ d.pages[w].lease = pages[w].lease
                          \/ pages[w].lease \in d.released
    BY <1>1 DEF Entered
  <2>2. \A q \in Requests : req[q].pc = "retained" =>
            \/ req'[q].pc = "retained" \/ q \in {} \/ q \in d.released
            \/ \E w \in DOMAIN d.pages : d.pages[w].lease = q
    BY <1>1 DEF Entered
  <2> QED BY <2>1, <2>2, OwnedKept
<1>7. Lists(order', DOMAIN pages')
  BY <1>1 DEF IsStore
<1> QED BY <1>2, <1>3, <1>4, <1>5, <1>6, <1>7 DEF IInv, Stored

\* first_page.
LEMMA FirstPageKeeps ==
    ASSUME IInv, NEW r \in Requests, FirstPage(r)
    PROVE  IInv'
<1> DEFINE v == req[r].version
           p == Prune(Store)
           s == Insert(p, v, r)
           t == Register(s, v, r)
           c == CancelFirstPage(t, v, r)
           N == IF s.pages[v].published THEN s.pages[v].pending ELSE s.pages[v].pending \cup {r}
<1>1. /\ req[r].pc = "retained" /\ Current(r) /\ UNCHANGED <<version, items, old, del>>
      /\ \/ /\ SetStore(t, {})
            /\ req' = [req EXCEPT ![r].pc = "paged", ![r].registered = ~s.pages[v].published]
         \/ SetStore(c, {}) /\ Answer(r, "failed")
  BY DEF FirstPage
<1>2. /\ Shrinks(Store, p) /\ Store.pages = pages /\ IsStore(p)
      /\ DOMAIN p.pages \subseteq Stored /\ DOMAIN pages = Stored
  BY StoreFacts, PruneEvictFacts DEF Shrinks, Stored
<1> HIDE DEF p
<1>3. Inserted(p, v, r, s)
  BY <1>2, InsertFacts DEF IInv, TypeInv
<1> HIDE DEF s
<1>4. IsStore(s) /\ v \in DOMAIN s.pages /\ Rewaits(s, v, N, t)
  BY <1>3, RegisterFacts DEF Inserted
<1> HIDE DEF t, v
<1>5. r \notin s.pages[v].pending /\ (s.pages[v].published => s.pages[v].pending = {})
  <2>1. ASSUME v \in DOMAIN p.pages
        PROVE  /\ v \in Stored /\ s.pages[v].pending = pages[v].pending
               /\ s.pages[v].published = pages[v].published
    BY <1>2, <1>3, <2>1 DEF Inserted, Shrinks
  <2>2. v \notin DOMAIN p.pages => s.pages[v].pending = {}
    BY <1>3 DEF Inserted
  <2> QED BY <1>1, <2>1, <2>2 DEF IInv, PendingInv
<1>6. /\ DOMAIN s.pages \subseteq Stored \cup {v}
      /\ \A w \in Stored : (w \in DOMAIN s.pages /\ w # v) \/ pages[w].lease \in s.released
      /\ \A w \in DOMAIN s.pages : w # v => w \in Stored /\ s.pages[w] = pages[w]
      /\ s.pages[v].lease = r
      /\ IF v \in DOMAIN p.pages
         THEN /\ v \in Stored /\ s.pages[v].shows = pages[v].shows
              /\ s.pages[v].published = pages[v].published /\ s.pages[v].pending = pages[v].pending
         ELSE s.pages[v].shows = req[r].shows /\ ~s.pages[v].published /\ s.pages[v].pending = {}
  BY <1>2, <1>3 DEF Inserted, Shrinks
<1>7. \A q \in s.pages[v].pending : v \in Stored /\ q \in pages[v].pending
  BY <1>6
<1>8. /\ IsStore(t) /\ DOMAIN t.pages = DOMAIN s.pages /\ t.released = s.released
      /\ \A w \in DOMAIN s.pages :
            /\ t.pages[w].lease = s.pages[w].lease /\ t.pages[w].shows = s.pages[w].shows
            /\ t.pages[w].published = s.pages[w].published
            /\ t.pages[w].pending = IF w = v THEN N ELSE s.pages[w].pending
      /\ s.pages[v].published \in BOOLEAN
  BY <1>4 DEF Rewaits, IsStore, Page
<1>9. IF t.pages[v].published THEN c = t
      ELSE IF t.pages[v].pending = {r} THEN Shrinks(t, c) /\ DOMAIN c.pages = DOMAIN t.pages \ {v}
      ELSE Rewaits(t, v, t.pages[v].pending \ {r}, c)
  <2>1. IsStore(t) /\ v \in DOMAIN t.pages
    BY <1>4, <1>8
  <2> QED BY <2>1, CancelFacts
<1>10. CASE SetStore(t, {}) /\ req' = [req EXCEPT ![r].pc = "paged", ![r].registered = ~s.pages[v].published]
  <2> DEFINE waits == ~s.pages[v].published
  <2>1. Entered(t, v, r, waits)
    BY <1>4, <1>5, <1>6, <1>7, <1>8 DEF Entered
  <2>2. /\ req' \in [Requests -> Request] /\ \A q \in Requests : q # r => req'[q] = req[q]
        /\ req'[r].pc = "paged" /\ req'[r].version = req[r].version /\ waits \in BOOLEAN
        /\ waits => req'[r].registered
    <3>1. waits \in BOOLEAN /\ req \in [Requests -> Request]
      BY <1>8 DEF IInv, TypeInv
    <3>2. req' = [req EXCEPT ![r].pc = "paged", ![r].registered = waits]
      BY <1>10
    <3> HIDE DEF waits
    <3> QED BY <3>1, <3>2 DEF Request
  <2> HIDE DEF waits
  <2> QED BY <1>1, <1>10, <2>1, <2>2, EnteredKeeps DEF v
<1>11. CASE SetStore(c, {}) /\ Answer(r, "failed")
  <2>1. Entered(c, v, r, FALSE)
    <3>1. CASE s.pages[v].published
      <4>1. c = t
        BY <1>4, <1>9, <1>8, <3>1
      <4>2. Entered(t, v, r, FALSE)
        BY <1>4, <1>5, <1>6, <1>7, <1>8, <3>1 DEF Entered
      <4> QED BY <4>1, <4>2
    <3>2. CASE ~s.pages[v].published /\ s.pages[v].pending = {}
      <4>1. ~t.pages[v].published /\ t.pages[v].pending = {r} /\ t.pages[v].lease = r
        BY <1>4, <1>6, <1>8, <3>2
      <4>2. Shrinks(t, c) /\ DOMAIN c.pages = DOMAIN t.pages \ {v}
        BY <1>9, <4>1
      <4> HIDE DEF c
      <4> QED BY <1>4, <1>6, <1>8, <4>1, <4>2 DEF Entered, Shrinks
    <3>3. CASE ~s.pages[v].published /\ s.pages[v].pending # {}
      <4>1. ~t.pages[v].published /\ t.pages[v].pending # {r} /\ t.pages[v].pending \ {r} = s.pages[v].pending
        BY <1>4, <1>5, <1>8, <3>3
      <4>2. Rewaits(t, v, s.pages[v].pending, c)
        BY <1>9, <4>1
      <4> HIDE DEF c
      <4> QED BY <1>4, <1>6, <1>7, <1>8, <3>3, <4>2 DEF Entered, Rewaits
    <3> QED BY <3>1, <3>2, <3>3
  <2> HIDE DEF c
  <2>2. /\ req' \in [Requests -> Request] /\ \A q \in Requests : q # r => req'[q] = req[q]
        /\ req'[r].pc = "failed" /\ req'[r].version = req[r].version
    BY <1>11, AnswerFacts DEF IInv
  <2> QED BY <1>1, <1>11, <2>1, <2>2, EnteredKeeps DEF v
<1> QED BY <1>1, <1>10, <1>11

\* A request that has its page is answered: the pages stay, but for who waits.
LEMMA AnswerKeeps ==
    ASSUME IInv, NEW r \in Requests, NEW result \in {"served", "failed"}, Answer(r, result),
           req[r].pc = "paged", UNCHANGED <<version, items, old, del>>,
           pages' \in [DOMAIN pages' -> Page], Lists(order', DOMAIN pages'), DOMAIN pages' \subseteq Stored,
           \A v \in DOMAIN pages' :
              /\ pages'[v].lease = pages[v].lease /\ pages'[v].shows = pages[v].shows
              /\ pages'[v].published \/ pages'[v].pending # {}
              /\ pages'[v].pending \subseteq pages[v].pending \ {r}
              /\ pages'[v].published = pages[v].published \/ pages'[v].pending = {},
           \A l \in leases' \ old : l \in leases /\ \A v \in Stored : pages[v].lease = l => v \in DOMAIN pages'
    PROVE  IInv'
<1>1. /\ req' \in [Requests -> Request] /\ \A q \in Requests : q # r => req'[q] = req[q]
      /\ req'[r].pc = result /\ req'[r].version = req[r].version
  BY AnswerFacts DEF IInv
<1>2. TypeInv'
  BY <1>1 DEF IInv, TypeInv, Stored
<1>3. VersionInv'
  BY <1>1 DEF IInv, VersionInv
<1>4. ShownInv'
  <2>1. \A q \in Requests : req'[q].pc = "retained" /\ req'[q].version = version' => req'[q].shows \subseteq items'
    BY <1>1 DEF IInv, ShownInv, Current
  <2>2. \A v \in DOMAIN pages' : \A i \in pages'[v].shows : del'[i] \in {"none", "tombstoned"}
    BY DEF IInv, ShownInv
  <2>3. \A i \in items' : del'[i] = "none"
    BY DEF IInv, ShownInv
  <2> QED BY <2>1, <2>2, <2>3 DEF ShownInv, Current, Stored
<1>5. PendingInv'
  <2>1. ASSUME NEW v \in DOMAIN pages', NEW q \in pages'[v].pending
        PROVE  req'[q].pc = "paged" /\ req'[q].version = v /\ req'[q].registered /\ ~pages'[v].published
    <3>1. v \in Stored /\ q \in pages[v].pending /\ q # r /\ q \in Requests
          /\ pages'[v].published = pages[v].published
      BY <2>1 DEF IInv, TypeInv, Page
    <3>2. req[q].pc = "paged" /\ req[q].version = v /\ req[q].registered /\ ~pages[v].published
      BY <3>1 DEF IInv, PendingInv
    <3> QED BY <1>1, <3>1, <3>2
  <2> QED BY <2>1 DEF PendingInv, Stored
<1>6. OwnedInv'
  <2>1. ASSUME NEW l \in leases' \ old'
        PROVE  (\E v \in DOMAIN pages' : pages'[v].lease = l) \/ (l \in Requests /\ req'[l].pc = "retained")
    <3>1. l \in leases \ old
      BY <2>1
    <3>2. CASE \E v \in Stored : pages[v].lease = l
      BY <2>1, <3>2
    <3>3. CASE l \in Requests /\ req[l].pc = "retained"
      BY <1>1, <3>3
    <3> QED BY <3>1, <3>2, <3>3 DEF IInv, OwnedInv
  <2> QED BY <2>1 DEF OwnedInv, Stored
<1> QED BY <1>2, <1>3, <1>4, <1>5, <1>6 DEF IInv, Stored

\* publish_first_page.
LEMMA PublishKeeps ==
    ASSUME IInv, NEW r \in Requests, PublishFirstPage(r)
    PROVE  IInv'
<1> DEFINE v == req[r].version
<1>1. /\ req[r].pc = "paged" /\ Answer(r, "served") /\ UNCHANGED <<version, items, leases, old, order, del>>
      /\ req[r].registered => v \in Stored
      /\ pages' = IF req[r].registered THEN [pages EXCEPT ![v].published = TRUE, ![v].pending = {}] ELSE pages
  BY DEF PublishFirstPage
<1>2. \A w \in Stored : \A q \in pages[w].pending : req[q].version = w /\ req[q].registered
  BY DEF IInv, PendingInv
<1>3. pages \in [Stored -> Page] /\ Lists(order, Stored) /\ DOMAIN pages = Stored
  BY DEF IInv, TypeInv
<1>4. /\ DOMAIN pages' = Stored /\ pages' \in [Stored -> Page]
      /\ \A w \in Stored :
            /\ pages'[w].lease = pages[w].lease /\ pages'[w].shows = pages[w].shows
            /\ pages'[w].published \/ pages'[w].pending # {}
            /\ pages'[w].pending \subseteq pages[w].pending \ {r}
            /\ pages'[w].published = pages[w].published \/ pages'[w].pending = {}
  <2>0. \A w \in Stored : pages[w].published \/ pages[w].pending # {}
    BY DEF IInv, PendingInv
  <2>1. CASE req[r].registered
    <3> DEFINE page == [pages[v] EXCEPT !.published = TRUE, !.pending = {}]
    <3>1. v \in Stored /\ pages' = [pages EXCEPT ![v] = page]
      BY <1>1, <2>1
    <3>2. /\ page \in Page /\ page.lease = pages[v].lease /\ page.shows = pages[v].shows
          /\ page.published /\ page.pending = {}
      BY <1>3, <3>1 DEF Page
    <3> HIDE DEF page, v
    <3>3. /\ DOMAIN pages' = Stored /\ pages' \in [Stored -> Page] /\ pages'[v] = page
          /\ \A w \in Stored : w # v => pages'[w] = pages[w]
      BY <1>3, <3>1, <3>2
    <3>4. \A w \in Stored : w # v => r \notin pages[w].pending
      BY <1>2 DEF v
    <3> QED BY <2>0, <3>1, <3>2, <3>3, <3>4
  <2>2. CASE ~req[r].registered
    <3>1. pages' = pages /\ \A w \in Stored : r \notin pages[w].pending
      BY <1>1, <1>2, <2>2
    <3> QED BY <1>3, <2>0, <3>1
  <2> QED BY <2>1, <2>2
<1> HIDE DEF v
<1> QED BY <1>1, <1>3, <1>4, AnswerKeeps

\* The guard of a page that cannot be published takes its registration back.
LEMMA AbortKeeps ==
    ASSUME IInv, NEW r \in Requests, Abort(r)
    PROVE  IInv'
<1> DEFINE v == req[r].version
           c == IF req[r].registered THEN CancelFirstPage(Store, v, r) ELSE Store
<1>1. /\ req[r].pc = "paged" /\ Answer(r, "failed") /\ UNCHANGED <<version, items, old, del>>
      /\ SetStore(c, {})
  BY DEF Abort
<1>2. IsStore(Store) /\ Store.pages = pages /\ Store.released = {} /\ DOMAIN pages = Stored
  BY StoreFacts DEF Stored
<1>3. \A w \in Stored :
          /\ \A q \in pages[w].pending : req[q].version = w /\ req[q].registered /\ ~pages[w].published
          /\ pages[w].published \/ pages[w].pending # {}
  BY DEF IInv, PendingInv
<1>4. /\ IsStore(c) /\ DOMAIN c.pages \subseteq Stored
      /\ \A w \in Stored : w \in DOMAIN c.pages \/ pages[w].lease \in c.released
      /\ \A w \in DOMAIN c.pages :
            /\ c.pages[w].lease = pages[w].lease /\ c.pages[w].shows = pages[w].shows
            /\ c.pages[w].published \/ c.pages[w].pending # {}
            /\ c.pages[w].pending \subseteq pages[w].pending \ {r}
            /\ c.pages[w].published = pages[w].published
  <2>1. CASE c = Store /\ \A w \in Stored : r \notin pages[w].pending
    <3> HIDE DEF c
    <3> QED BY <1>2, <1>3, <2>1
  <2>2. CASE req[r].registered /\ v \in Stored /\ r \in pages[v].pending
    <3>1. c = CancelFirstPage(Store, v, r) /\ v \in DOMAIN Store.pages /\ ~pages[v].published
      BY <1>2, <1>3, <2>2
    <3> HIDE DEF c, v
    <3>2. IF pages[v].pending = {r} THEN Shrinks(Store, c) /\ DOMAIN c.pages = Stored \ {v}
          ELSE Rewaits(Store, v, pages[v].pending \ {r}, c)
      BY <1>2, <3>1, CancelFacts
    <3>3. \A w \in Stored : w # v => r \notin pages[w].pending
      BY <1>3 DEF v
    <3>4. CASE pages[v].pending = {r}
      BY <1>2, <1>3, <3>2, <3>3, <3>4 DEF Shrinks
    <3>5. CASE pages[v].pending # {r}
      <4>1. Rewaits(Store, v, pages[v].pending \ {r}, c) /\ pages[v].pending \ {r} # {}
        BY <2>2, <3>2, <3>5
      <4> QED BY <1>2, <1>3, <3>3, <4>1 DEF Rewaits
    <3> QED BY <3>4, <3>5
  <2>3. CASE ~(req[r].registered /\ v \in Stored /\ r \in pages[v].pending)
    <3>1. \A w \in Stored : r \notin pages[w].pending
      BY <1>3, <2>3
    <3>2. c = Store
      BY <1>2, <2>3 DEF CancelFirstPage
    <3> QED BY <2>1, <3>1, <3>2
  <2> QED BY <2>2, <2>3
<1> HIDE DEF c, v
<1>5. pages' = c.pages /\ order' = c.order /\ leases' = leases \ c.released
  BY <1>1 DEF SetStore
<1>6. /\ pages' \in [DOMAIN pages' -> Page] /\ Lists(order', DOMAIN pages')
      /\ \A l \in leases' \ old : l \in leases /\ \A w \in Stored : pages[w].lease = l => w \in DOMAIN pages'
  BY <1>4, <1>5 DEF IsStore
<1> QED BY <1>1, <1>4, <1>5, <1>6, AnswerKeeps

-----------------------------------------------------------------------------
(* The theorems.                                                            *)

\* The invariant is inductive.
LEMMA Invariance == PagesInit /\ [][PagesNext]_pagesVars => []IInv
<1>1. PagesInit => IInv
  <2> SUFFICES ASSUME PagesInit PROVE IInv
    OBVIOUS
  <2>1. DOMAIN pages = {} /\ pages \in [{} -> Page]
    BY DEF PagesInit
  <2>2. Lists(order, {})
    BY DEF PagesInit, Lists
  <2>3. TypeInv
    BY <2>1 DEF PagesInit, TypeInv, Request, Stored
  <2>4. VersionInv /\ ShownInv /\ PendingInv /\ OwnedInv
    BY <2>1 DEF PagesInit, VersionInv, ShownInv, PendingInv, OwnedInv, Stored
  <2> QED BY <2>1, <2>2, <2>3, <2>4 DEF IInv, Stored
<1>2. IInv /\ [PagesNext]_pagesVars => IInv'
  <2> SUFFICES ASSUME IInv, [PagesNext]_pagesVars PROVE IInv'
    OBVIOUS
  <2>1. CASE UNCHANGED pagesVars
    BY <2>1 DEF pagesVars, IInv, TypeInv, VersionInv, ShownInv, PendingInv, OwnedInv, Current, Stored
  <2>2. CASE PagesNext
    BY <2>2, RetainKeeps, RemovalsKeep, FirstPageKeeps, PublishKeeps, AbortKeeps, OthersKeep DEF PagesNext
  <2> QED BY <2>1, <2>2
<1> QED BY <1>1, <1>2, PTL

\* Once the pages of a deleted item have been invalidated, no page that shows it
\* is stored again; every lease that is still valid and every place of the store
\* has an owner; and the order of eviction lists the stored pages, each once.
THEOREM PagesStayCurrent == PagesSpec => []PagesAreCurrent
<1>1. IInv => PagesAreCurrent
  <2> SUFFICES ASSUME IInv PROVE PagesAreCurrent
    OBVIOUS
  <2>1. PagesHonourDeletion
    BY DEF IInv, ShownInv, PagesHonourDeletion
  <2>2. leases \ old \subseteq {pages[v].lease : v \in Stored} \cup {r \in Requests : req[r].pc = "retained"}
    BY DEF IInv, OwnedInv
  <2>3. \A v \in Stored : pages[v].published \/
            \E r \in pages[v].pending : req[r].pc = "paged" /\ req[r].version = v
    BY DEF IInv, PendingInv
  <2>4. {order[k] : k \in DOMAIN order} = Stored /\ Len(order) = Cardinality(Stored)
    BY ListsAll DEF IInv
  <2> QED BY <2>1, <2>2, <2>3, <2>4 DEF PagesAreCurrent, LeasesAreOwned
<1> QED BY <1>1, Invariance, PTL DEF PagesSpec
-----------------------------------------------------------------------------
\* An output as this version keeps it.
GoodOutput(out) ==
    /\ out \in OutputRecord
    /\ Valid(out.results, out.resources)
    /\ out.primary \in Ids(out.results)
    /\ \A r \in out.resources : r.bound

\* An output that still stands for the items of its task.
FollowsItems(out, parts) ==
    out.legacy => /\ out.results = LegacyResults(parts)
                  /\ out.primary = LegacyPrimary(parts, out.results)
                  /\ out.resources = {}

\* A task as this version keeps it.
GoodTask(task) ==
    /\ task \in TaskRecord /\ HasItems(task)
    /\ Executable(Schema, task) /\ Aligned(task)
    /\ GoodOutput(task.out) /\ FollowsItems(task.out, task.items)

\* A file of an older version, or one that this version encoded.
GoodFile(file) ==
    /\ file \in FileRecord
    /\ \/ file \in Legacy
       \/ \E task \in TaskRecord \cup {Absent}, pend \in IntentSet :
             (Present(task) => GoodTask(task)) /\ file = Encoded(task, pend)

\* ... with no more than n snapshots made so far.
Known(file, n) == Present(file) => GoodFile(file) /\ (Present(file.task) => file.task.out.snap <= n)

TaskInv ==
    /\ rec \in TaskRecord \cup {Absent} /\ intents \in IntentSet /\ snaps \in Nat
    /\ store = "loading" => rec = Absent
    /\ Present(rec) => GoodTask(rec) /\ rec.out.snap <= snaps

FilesInv ==
    /\ vol = Disk(vol.made, vol.file) /\ dur = Disk(dur.made, dur.file)
    /\ vol.made \in BOOLEAN /\ dur.made \in BOOLEAN
    /\ Known(vol.file, snaps) /\ Known(dur.file, snaps)

\* What is not pending is durable.
SyncInv ==
    /\ pending \subseteq {"dir", "parent"}
    /\ "dir" \notin pending => dur.file = vol.file
    /\ "parent" \notin pending => dur.made = vol.made
    /\ store \in {"saving", "renamed"} => "dir" \in pending /\ vol.made
    /\ store = "renamed" => vol.file = Encoded(rec, intents)

\* What was reported as durable, or was saved since, is what the files stand for.
AckedInv ==
    acked # {} => /\ vol.made /\ dur.made
                  /\ Present(vol.file) /\ Present(dur.file)
                  /\ vol.file.of \in acked /\ dur.file.of \in acked

SnapshotsInv == TaskInv /\ FilesInv /\ SyncInv /\ AckedInv
-----------------------------------------------------------------------------
(* Outputs.                                                                 *)

\* The primary result is one of the results.
LEMMA InferredIsAResult ==
    ASSUME NEW results \in Seq(ResultRecord), results # << >>
    PROVE  InferredPrimary(results) \in Ids(results)
<1> DEFINE good == {i \in DOMAIN results : Successful(results[i])}
           i == IF good = {} THEN 1 ELSE CHOOSE k \in good : \A j \in good : k <= j
<1>1. 1 \in DOMAIN results /\ good \subseteq DOMAIN results /\ DOMAIN results \subseteq Nat
  OBVIOUS
<1>2. good # {} => \E k \in good : \A j \in good : k <= j
  <2> HIDE DEF good
  <2> QED BY <1>1, HasLeast
<1>3. i \in DOMAIN results
  <2> HIDE DEF good
  <2> QED BY <1>1, <1>2
<1>4. InferredPrimary(results) = results[i].id
  BY DEF InferredPrimary
<1> HIDE DEF i
<1> QED BY <1>3, <1>4 DEF Ids

\* The results that stand for the items of a task.
LEMMA LegacyIsValid ==
    ASSUME NEW parts \in Seq(ItemRecord), parts # << >>,
           Cardinality({parts[i].id : i \in DOMAIN parts}) = Len(parts)
    PROVE  /\ LegacyResults(parts) \in Seq(ResultRecord) /\ LegacyResults(parts) # << >>
           /\ Valid(LegacyResults(parts), {})
           /\ LegacyPrimary(parts, LegacyResults(parts)) \in Ids(LegacyResults(parts))
<1> DEFINE results == LegacyResults(parts)
<1>1. /\ results \in Seq(ResultRecord) /\ Len(results) = Len(parts) /\ DOMAIN results = DOMAIN parts
      /\ \A i \in DOMAIN parts : /\ results[i].id = parts[i].id
                               /\ results[i].art = "none" /\ results[i].back = "none"
  <2> DEFINE n == Len(parts)
             one(i) == Result(parts[i].id, parts[i].st, "none", "none")
  <2>1. n \in Nat /\ DOMAIN parts = 1..n /\ \A i \in 1..n : parts[i] \in ItemRecord
    OBVIOUS
  <2>2. ASSUME NEW i \in 1..n
        PROVE  /\ one(i) \in ResultRecord /\ one(i).id = parts[i].id
               /\ one(i).art = "none" /\ one(i).back = "none"
    <3>1. parts[i].id \in Names /\ parts[i].st \in {"run", "ok", "fail"}
      BY <2>1 DEF ItemRecord
    <3> QED BY <3>1 DEF Result, ResultRecord
  <2>3. results = [i \in 1..n |-> one(i)]
    BY <2>1 DEF LegacyResults
  <2> HIDE DEF n, one, results
  <2>4. results \in [1..n -> ResultRecord] /\ \A i \in 1..n : results[i] = one(i)
    BY <2>2, <2>3
  <2>5. results \in Seq(ResultRecord) /\ Len(results) = n /\ DOMAIN results = 1..n
    BY <2>1, <2>4, RowIsSeq
  <2> QED BY <2>1, <2>2, <2>4, <2>5 DEF n
<1> HIDE DEF results
<1>2. Ids(results) = {parts[i].id : i \in DOMAIN parts}
  BY <1>1 DEF Ids
<1>3. results # << >>
  BY <1>1
<1>4. Referenced(results) = {}
  BY <1>1 DEF Referenced
<1>5. Valid(results, {})
  BY <1>1, <1>2, <1>4 DEF Valid
<1>6. LegacyPrimary(parts, results) \in Ids(results)
  <2> DEFINE played == {i \in DOMAIN parts : parts[i].played}
  <2>1. CASE played # {}
    <3>1. LegacyPrimary(parts, results) = parts[CHOOSE i \in played : TRUE].id
      BY <2>1 DEF LegacyPrimary
    <3>2. (CHOOSE i \in played : TRUE) \in DOMAIN parts
      BY <2>1
    <3> HIDE DEF played
    <3> QED BY <1>2, <3>1, <3>2
  <2>2. CASE played = {}
    <3>1. LegacyPrimary(parts, results) = InferredPrimary(results)
      BY <2>2 DEF LegacyPrimary
    <3> QED BY <1>1, <1>3, <3>1, InferredIsAResult
  <2> QED BY <2>1, <2>2
<1> QED BY <1>1, <1>3, <1>5, <1>6 DEF results

\* What a change of an output may do to its snapshot id and revision.
NextSnapshot(was, out, fresh) ==
    out = was \/ (out.snap = fresh /\ out.rev = was.rev + 1)

\* The fields of a new output.
LEMMA NewOutputType ==
    ASSUME NEW snap \in Nat, NEW rev \in Nat, NEW primary \in Names \cup {"none"},
           NEW results \in Seq(ResultRecord), NEW resources \in ResourceSet,
           NEW legacy \in BOOLEAN
    PROVE  /\ NewOutput(snap, rev, primary, results, resources, legacy) \in OutputRecord
           /\ NewOutput(snap, rev, primary, results, resources, legacy).snap = snap
           /\ NewOutput(snap, rev, primary, results, resources, legacy).rev = rev
           /\ NewOutput(snap, rev, primary, results, resources, legacy).primary = primary
           /\ NewOutput(snap, rev, primary, results, resources, legacy).results = results
           /\ NewOutput(snap, rev, primary, results, resources, legacy).resources = resources
           /\ NewOutput(snap, rev, primary, results, resources, legacy).legacy = legacy
<1> DEFINE out == [snap |-> snap, rev |-> rev, primary |-> primary, results |-> results,
                   resources |-> resources, legacy |-> legacy]
<1>1. out \in OutputRecord
  BY DEF OutputRecord
<1> QED BY <1>1 DEF NewOutput

\* What is in an output record, and that it is nothing else.
LEMMA OutputFields ==
    ASSUME NEW out \in OutputRecord
    PROVE  /\ out.snap \in Nat /\ out.rev \in Nat /\ out.primary \in Names \cup {"none"}
           /\ out.results \in Seq(ResultRecord) /\ out.legacy \in BOOLEAN
           /\ out.resources \in ResourceSet
           /\ out = NewOutput(out.snap, out.rev, out.primary, out.results, out.resources, out.legacy)
  BY DEF OutputRecord, NewOutput

\* The names of results are names.
LEMMA IdsAreNames ==
    ASSUME NEW results \in Seq(ResultRecord)
    PROVE  Ids(results) \subseteq Names
<1>1. \A i \in DOMAIN results : results[i] \in ResultRecord
  OBVIOUS
<1>2. \A i \in DOMAIN results : results[i].id \in Names
  BY <1>1 DEF ResultRecord
<1> QED BY <1>2 DEF Ids

\* Reconciling an output with its items.
LEMMA ReconciledIsGood ==
    ASSUME NEW out \in OutputRecord, NEW parts \in Seq(ItemRecord), parts # << >>,
           Cardinality({parts[i].id : i \in DOMAIN parts}) = Len(parts), NEW fresh \in Nat,
           out.legacy => out.resources = {},
           ~out.legacy => Valid(out.results, out.resources) /\ out.primary \in Ids(out.results),
           NEW new, new = Reconciled(out, parts, fresh)
    PROVE  /\ new \in OutputRecord /\ Valid(new.results, new.resources)
           /\ new.primary \in Ids(new.results) /\ new.resources = out.resources
           /\ FollowsItems(new, parts) /\ NextSnapshot(out, new, fresh)
<1> DEFINE results == LegacyResults(parts)
           primary == LegacyPrimary(parts, results)
           made == NewOutput(fresh, out.rev + 1, primary, results, out.resources, TRUE)
<1>1. /\ results \in Seq(ResultRecord) /\ Valid(results, {}) /\ primary \in Ids(results)
      /\ primary \in Names
  BY LegacyIsValid, IdsAreNames
<1>2. /\ out.rev + 1 \in Nat /\ out.resources \in ResourceSet
      /\ out.legacy \in BOOLEAN
  BY OutputFields
<1>3. new = IF ~out.legacy \/ (out.results = results /\ out.primary = primary) THEN out ELSE made
  BY DEF Reconciled
<1>4. \A o : FollowsItems(o, parts) <=> (o.legacy => /\ o.results = results
                                                    /\ o.primary = LegacyPrimary(parts, o.results)
                                                    /\ o.resources = {})
  BY DEF FollowsItems
<1>5. primary = LegacyPrimary(parts, results)
  OBVIOUS
<1>a. made = NewOutput(fresh, out.rev + 1, primary, results, out.resources, TRUE)
  OBVIOUS
<1> HIDE DEF results, primary, made
<1>6. /\ made \in OutputRecord /\ made.snap = fresh /\ made.rev = out.rev + 1 /\ made.primary = primary
      /\ made.results = results /\ made.resources = out.resources /\ made.legacy
  <2> DEFINE rev == out.rev + 1
             resources == out.resources
             yes == TRUE
  <2>1. /\ rev \in Nat /\ primary \in Names \cup {"none"} /\ yes \in BOOLEAN /\ resources \in ResourceSet
        /\ made = NewOutput(fresh, rev, primary, results, resources, yes)
    BY <1>1, <1>2, <1>a
  <2> HIDE DEF rev, resources, yes
  <2>2. /\ made \in OutputRecord /\ made.snap = fresh /\ made.rev = rev /\ made.primary = primary
        /\ made.results = results /\ made.resources = resources /\ made.legacy = yes
    BY <1>1, <2>1, NewOutputType
  <2> QED BY <2>2 DEF rev, resources, yes
<1>7. CASE ~out.legacy
  BY <1>3, <1>4, <1>7 DEF NextSnapshot
<1>8. CASE out.legacy /\ out.results = results /\ out.primary = primary
  BY <1>1, <1>3, <1>4, <1>5, <1>8 DEF NextSnapshot
<1>9. CASE out.legacy /\ ~(out.results = results /\ out.primary = primary)
  <2>1. new = made /\ out.resources = {}
    BY <1>3, <1>9
  <2>2. FollowsItems(new, parts)
    BY <1>4, <1>5, <1>6, <2>1
  <2>3. NextSnapshot(out, new, fresh)
    BY <1>6, <2>1 DEF NextSnapshot
  <2> QED BY <1>1, <1>6, <2>1, <2>2, <2>3
<1> QED BY <1>2, <1>7, <1>8, <1>9

\* The results of an output, each replaced by one of the same name that is
\* backed by what the other was, or by nothing.
LEMMA MappedResults ==
    ASSUME NEW results \in Seq(ResultRecord), NEW resources, Valid(results, resources),
           NEW f \in [DOMAIN results -> ResultRecord],
           \A i \in DOMAIN results :
              /\ f[i].id = results[i].id
              /\ f[i].back \in {results[i].back, "none"}
              /\ f[i].art = "avail" => f[i].back # "none"
    PROVE  /\ f \in Seq(ResultRecord) /\ DOMAIN f = DOMAIN results
           /\ Ids(f) = Ids(results)
           /\ Valid(f, {r \in resources : r.id \in Referenced(f)})
<1> DEFINE kept == {r \in resources : r.id \in Referenced(f)}
<1>1. f \in Seq(ResultRecord) /\ Len(f) = Len(results) /\ DOMAIN f = DOMAIN results
  BY RowIsSeq, LenProperties
<1>2. Ids(f) = Ids(results)
  BY <1>1 DEF Ids
<1>3. Referenced(f) \subseteq Referenced(results)
  BY <1>1 DEF Referenced
<1>4. Referenced(f) = {r.id : r \in kept}
  <2>1. Referenced(results) = {r.id : r \in resources}
    BY DEF Valid
  <2>2. ASSUME NEW b \in Referenced(f) PROVE \E r \in kept : b = r.id
    BY <1>3, <2>1
  <2>3. \A r \in kept : r.id \in Referenced(f)
    OBVIOUS
  <2> HIDE DEF kept
  <2> QED BY <2>2, <2>3
<1>5. \A r, s \in kept : r.id = s.id => r = s
  BY DEF Valid
<1>6. Cardinality(Ids(f)) = Len(f)
  BY <1>1, <1>2 DEF Valid
<1>7. \A i \in DOMAIN f : f[i].art = "avail" => f[i].back # "none"
  BY <1>1
<1> HIDE DEF kept
<1>8. Valid(f, kept)
  BY <1>4, <1>5, <1>6, <1>7 DEF Valid
<1> QED BY <1>1, <1>2, <1>8 DEF kept

\* An output that does not follow the items of its task.
LEMMA PublishedIsGood ==
    ASSUME NEW snap \in Nat, NEW rev \in Nat, NEW results \in Seq(ResultRecord),
           NEW primary \in Ids(results), NEW resources \in ResourceSet,
           Valid(results, resources), \A r \in resources : r.bound,
           NEW legacy \in BOOLEAN, ~legacy,
           NEW new, new = NewOutput(snap, rev, primary, results, resources, legacy)
    PROVE  /\ GoodOutput(new) /\ ~new.legacy
           /\ new.snap = snap /\ new.rev = rev /\ new.resources = resources
<1>2. primary \in Names \cup {"none"}
  BY IdsAreNames
<1>3. /\ new \in OutputRecord /\ new.snap = snap /\ new.rev = rev /\ new.primary = primary
      /\ new.results = results /\ new.resources = resources /\ new.legacy = legacy
  BY <1>2, NewOutputType
<1>4. GoodOutput(new)
  BY <1>3 DEF GoodOutput
<1>5. ~new.legacy
  BY <1>3
<1> QED BY <1>3, <1>4, <1>5

\* A published output: the old one, or a new snapshot.
LEMMA ReplacedIsGood ==
    ASSUME NEW was, GoodOutput(was), NEW results \in Seq(ResultRecord), results # << >>,
           NEW resources \in ResourceSet, Valid(results, resources), \A r \in resources : r.bound,
           NEW preferred \in Ids(results) \cup {"none"}, NEW fresh \in Nat,
           NEW new, new = Replaced(was, results, resources, preferred, fresh)
    PROVE  GoodOutput(new) /\ ~new.legacy /\ NextSnapshot(was, new, fresh)
<1> DEFINE primary == IF preferred = "none" THEN KeptPrimary(was, results) ELSE preferred
           same    == Unchanged(was, primary, results, resources)
           no      == FALSE
<1>1. KeptPrimary(was, results) \in Ids(results)
  <2>1. InferredPrimary(results) \in Ids(results)
    BY InferredIsAResult
  <2>2. \/ KeptPrimary(was, results) = InferredPrimary(results)
        \/ \E i \in DOMAIN results : KeptPrimary(was, results) = results[i].id
    BY DEF KeptPrimary
  <2> QED BY <2>1, <2>2 DEF Ids
<1>2. primary \in Ids(results)
  BY <1>1
<1>3. new = NewOutput(IF same THEN was.snap ELSE fresh, IF same THEN was.rev ELSE was.rev + 1,
                      primary, results, resources, no)
  BY DEF Replaced
<1>4. same => /\ was.results = results /\ was.resources = resources /\ was.primary = primary
              /\ ~was.legacy
  BY DEF Unchanged
<1>n. no \in BOOLEAN /\ ~no
  OBVIOUS
<1> HIDE DEF primary, same, no
<1>5. was \in OutputRecord
  BY DEF GoodOutput
<1>6. CASE same
  <2>1. new = NewOutput(was.snap, was.rev, primary, results, resources, no)
    BY <1>3, <1>6
  <2>2. was.legacy \in BOOLEAN
    BY <1>5, OutputFields
  <2>3. was.legacy = no
    BY <1>4, <1>6, <2>2 DEF no
  <2>4. new = was
    BY <1>4, <1>5, <1>6, <2>1, <2>3, OutputFields
  <2> QED BY <1>4, <1>6, <2>4 DEF NextSnapshot
<1>7. CASE ~same
  <2> DEFINE rev == was.rev + 1
  <2>1. rev \in Nat /\ new = NewOutput(fresh, rev, primary, results, resources, no)
    BY <1>3, <1>5, <1>7, OutputFields
  <2> HIDE DEF rev
  <2>2. GoodOutput(new) /\ ~new.legacy /\ new.snap = fresh /\ new.rev = rev
    BY <1>2, <1>n, <2>1, PublishedIsGood
  <2> QED BY <2>2 DEF NextSnapshot, rev
<1> QED BY <1>6, <1>7

\* The output once its expired resources are retired.
LEMMA RetiredIsGood ==
    ASSUME NEW was, GoodOutput(was), NEW parts, FollowsItems(was, parts), NEW fresh \in Nat,
           NEW new, new = Retired(was, fresh)
    PROVE  GoodOutput(new) /\ FollowsItems(new, parts) /\ NextSnapshot(was, new, fresh)
<1> DEFINE drop(r) == IF r.back = "r" THEN [r EXCEPT !.back = "none", !.art = IF @ = "avail" THEN "gone" ELSE @] ELSE r
           f == [i \in DOMAIN was.results |-> drop(was.results[i])]
           rev == was.rev + 1
           none == {}
<1>1. /\ was \in OutputRecord /\ Valid(was.results, was.resources) /\ was.primary \in Ids(was.results)
      /\ was.results \in Seq(ResultRecord) /\ was.legacy \in BOOLEAN /\ was.rev \in Nat
  BY OutputFields DEF GoodOutput
<1>2. CASE was.resources = {}
  <2>1. new = was
    BY <1>2 DEF Retired
  <2> QED BY <2>1 DEF NextSnapshot
<1>3. CASE was.resources # {}
  <2>1. new = NewOutput(fresh, rev, was.primary, f, none, was.legacy)
    BY <1>3 DEF Retired
  <2>2. ~was.legacy
    BY <1>3 DEF FollowsItems
  <2>3. ASSUME NEW i \in DOMAIN was.results
        PROVE  /\ f[i] \in ResultRecord /\ f[i].id = was.results[i].id
               /\ f[i].back \in {was.results[i].back, "none"} /\ f[i].back # "r"
               /\ f[i].art = "avail" => f[i].back # "none"
    <3>1. was.results[i] \in ResultRecord /\ (was.results[i].art = "avail" => was.results[i].back # "none")
      BY <1>1 DEF Valid
    <3> DEFINE r == was.results[i]
    <3> HIDE DEF r
    <3>2. r \in ResultRecord /\ (r.art = "avail" => r.back # "none")
      BY <3>1 DEF r
    <3>3. /\ drop(r) \in ResultRecord /\ drop(r).id = r.id /\ drop(r).back \in {r.back, "none"}
          /\ drop(r).back # "r" /\ (drop(r).art = "avail" => drop(r).back # "none")
      BY <3>2 DEF ResultRecord
    <3>4. f[i] = drop(r)
      BY DEF r
    <3> HIDE DEF f, drop
    <3> QED BY <3>3, <3>4 DEF r
  <2>4. f \in [DOMAIN was.results -> ResultRecord]
    <3>1. \A i \in DOMAIN was.results : drop(was.results[i]) \in ResultRecord
      BY <2>3
    <3> HIDE DEF drop
    <3> QED BY <3>1
  <2>5. rev \in Nat /\ none \in ResourceSet
    BY <1>1 DEF ResourceSet
  <2> HIDE DEF f, drop, rev
  <2>6. /\ f \in Seq(ResultRecord) /\ DOMAIN f = DOMAIN was.results /\ Ids(f) = Ids(was.results)
        /\ Valid(f, {r \in was.resources : r.id \in Referenced(f)})
    BY <1>1, <2>3, <2>4, MappedResults
  <2>7. {r \in was.resources : r.id \in Referenced(f)} = none
    <3>1. "r" \notin Referenced(f)
      BY <2>3, <2>6 DEF Referenced
    <3>2. \A r \in was.resources : r.id = "r"
      BY <1>1, OutputFields DEF ResourceSet
    <3> QED BY <3>1, <3>2
  <2>8. GoodOutput(new) /\ ~new.legacy /\ new.snap = fresh /\ new.rev = rev
    <3>1. \A r \in none : r.bound
      OBVIOUS
    <3> HIDE DEF none
    <3>2. /\ f \in Seq(ResultRecord) /\ Valid(f, none) /\ was.primary \in Ids(f)
      BY <1>1, <2>6, <2>7
    <3> QED BY <1>1, <2>1, <2>2, <2>5, <3>1, <3>2, PublishedIsGood
  <2> QED BY <2>8 DEF FollowsItems, NextSnapshot, rev
<1> QED BY <1>2, <1>3

\* The output once some of its media was deleted.
LEMMA DeletedIsGood ==
    ASSUME NEW was, GoodOutput(was), NEW parts, FollowsItems(was, parts), NEW fresh \in Nat,
           NEW how, NEW id, NEW new, new = Deleted(was, how, id, fresh)
    PROVE  GoodOutput(new) /\ FollowsItems(new, parts) /\ NextSnapshot(was, new, fresh)
<1> DEFINE hit == {i \in DOMAIN was.results : Deletes(was.results[i], how, id)}
           f == [i \in DOMAIN was.results |->
                   IF i \in hit THEN DeletedResult(was.results[i], how) ELSE was.results[i]]
           primary == IF how = "library" /\ \E i \in hit : was.results[i].id = was.primary
                      THEN InferredPrimary(f) ELSE was.primary
           kept == {r \in was.resources : r.id \in Referenced(f)}
           rev == was.rev + 1
           no == FALSE
<1>1. /\ was \in OutputRecord /\ Valid(was.results, was.resources) /\ was.primary \in Ids(was.results)
      /\ was.results \in Seq(ResultRecord) /\ was.rev \in Nat /\ was.resources \in ResourceSet
      /\ \A r \in was.resources : r.bound
  BY OutputFields DEF GoodOutput
<1>2. new = IF was.legacy \/ hit = {} THEN was ELSE NewOutput(fresh, rev, primary, f, kept, no)
  BY DEF Deleted
<1>n. no \in BOOLEAN /\ ~no
  OBVIOUS
<1> HIDE DEF no
<1>3. CASE was.legacy \/ hit = {}
  <2>1. new = was
    BY <1>2, <1>3
  <2> QED BY <2>1 DEF NextSnapshot
<1>4. CASE ~(was.legacy \/ hit = {})
  <2>1. new = NewOutput(fresh, rev, primary, f, kept, no)
    BY <1>2, <1>4
  <2>2. ASSUME NEW r \in ResultRecord, r.art = "avail" => r.back # "none",
               NEW q, q = DeletedResult(r, how)
        PROVE  /\ q \in ResultRecord /\ q.id = r.id /\ q.back \in {r.back, "none"}
               /\ q.art = "avail" => q.back # "none"
    BY <2>2 DEF DeletedResult, ResultRecord
  <2>3. ASSUME NEW i \in DOMAIN was.results
        PROVE  /\ f[i] \in ResultRecord /\ f[i].id = was.results[i].id
               /\ f[i].back \in {was.results[i].back, "none"}
               /\ f[i].art = "avail" => f[i].back # "none"
    <3>1. was.results[i] \in ResultRecord /\ (was.results[i].art = "avail" => was.results[i].back # "none")
      BY <1>1 DEF Valid
    <3>2. f[i] = DeletedResult(was.results[i], how) \/ f[i] = was.results[i]
      OBVIOUS
    <3> HIDE DEF f
    <3> QED BY <2>2, <3>1, <3>2
  <2>4. f \in [DOMAIN was.results -> ResultRecord]
    <3>1. DOMAIN f = DOMAIN was.results /\ f = [i \in DOMAIN f |-> f[i]]
      OBVIOUS
    <3> HIDE DEF f
    <3> QED BY <2>3, <3>1
  <2>5. hit # {} /\ hit \subseteq DOMAIN was.results
    BY <1>4
  <2> HIDE DEF f, hit
  <2>6. /\ f \in Seq(ResultRecord) /\ DOMAIN f = DOMAIN was.results /\ Ids(f) = Ids(was.results)
        /\ Valid(f, kept)
    BY <1>1, <2>3, <2>4, MappedResults
  <2>7. primary \in Ids(f)
    <3>1. f # << >>
      BY <2>5, <2>6
    <3> QED BY <1>1, <2>6, <3>1, InferredIsAResult
  <2>8. rev \in Nat /\ kept \in ResourceSet /\ \A r \in kept : r.bound
    BY <1>1 DEF ResourceSet
  <2> HIDE DEF rev, kept, primary
  <2>9. GoodOutput(new) /\ ~new.legacy /\ new.snap = fresh /\ new.rev = rev
    BY <1>n, <2>1, <2>6, <2>7, <2>8, PublishedIsGood
  <2> QED BY <2>9 DEF FollowsItems, NextSnapshot, rev
<1> QED BY <1>3, <1>4
-----------------------------------------------------------------------------
(* Encoding and decoding.                                                   *)

\* A task with another output.
Having(task, out) == [task EXCEPT !.out = out]

\* What is in a task record, and what replacing its output makes of it.
LEMMA TaskFields ==
    ASSUME NEW task \in TaskRecord, NEW out \in OutputRecord, NEW new, new = Having(task, out)
    PROVE  /\ task.cands \in Seq(Names) /\ task.active \in BOOLEAN /\ task.frozen \in BOOLEAN
           /\ task.items \in Seq(ItemRecord) /\ task.out \in OutputRecord
           /\ new \in TaskRecord /\ new.out = out /\ new.cands = task.cands
           /\ new.active = task.active /\ new.frozen = task.frozen /\ new.items = task.items
           /\ Having(new, task.out) = task
<1>1. /\ task.cands \in Seq(Names) /\ task.active \in BOOLEAN /\ task.frozen \in BOOLEAN
      /\ task.items \in Seq(ItemRecord) /\ task.out \in OutputRecord
  BY DEF TaskRecord
<1>2. /\ new.out = out /\ new.cands = task.cands
      /\ new.active = task.active /\ new.frozen = task.frozen /\ new.items = task.items
      /\ new \in TaskRecord
  BY DEF TaskRecord, Having
<1>3. Having(new, task.out) = task
  BY DEF TaskRecord, Having
<1> QED BY <1>1, <1>2, <1>3

\* The resources of an output, bound.
Bound(resources) == {[r EXCEPT !.bound = TRUE] : r \in resources}

\* Binding the resources of an output.
LEMMA BoundResources ==
    ASSUME NEW resources \in ResourceSet, \A r, s \in resources : r.id = s.id => r = s,
           NEW B, B = Bound(resources)
    PROVE  /\ B \in ResourceSet /\ \A r \in B : r.bound
           /\ {r.id : r \in B} = {r.id : r \in resources}
           /\ \A r, s \in B : r.id = s.id => r = s
           /\ (\A r \in resources : r.bound) => B = resources
<1> DEFINE one == [id |-> "r", bound |-> TRUE]
<1>1. ASSUME NEW r \in resources
      PROVE  /\ r.id = "r" /\ r.bound \in BOOLEAN /\ [r EXCEPT !.bound = TRUE] = one
             /\ r.bound => r = one
  <2>1. r \in [id : {"r"}, bound : BOOLEAN]
    BY DEF ResourceSet
  <2>2. r.id = "r" /\ r.bound \in BOOLEAN /\ [r EXCEPT !.bound = TRUE] = one
    <3>1. r.id = "r" /\ r.bound \in BOOLEAN
      BY <2>1
    <3>2. [r EXCEPT !.bound = TRUE] = one
      <4> DEFINE yes == TRUE
      <4>1. r = [id |-> "r", bound |-> r.bound]
        BY <2>1
      <4> HIDE DEF yes
      <4>2. [r EXCEPT !.bound = yes] = [id |-> "r", bound |-> yes]
        BY <4>1
      <4> QED BY <4>2 DEF yes
    <3> QED BY <3>1, <3>2
  <2>3. r.bound => r.bound = TRUE
    BY <2>2
  <2>4. r.bound = TRUE => r = one
    BY <2>1
  <2> QED BY <2>2, <2>3, <2>4
<1>2. one.id = "r" /\ one.bound /\ one \in [id : {"r"}, bound : BOOLEAN]
  OBVIOUS
<1> HIDE DEF one
<1>3. \A r \in B : r = one
  BY <1>1 DEF Bound
<1>4. (resources # {} => one \in B) /\ (B # {} => resources # {})
  BY <1>1 DEF Bound
<1>5. B \in ResourceSet /\ \A r \in B : r.bound
  BY <1>2, <1>3 DEF ResourceSet
<1>6. {r.id : r \in B} = {r.id : r \in resources}
  <2>1. \A r \in B : \E s \in resources : r.id = s.id
    BY <1>1, <1>2, <1>3, <1>4
  <2>2. \A s \in resources : \E r \in B : r.id = s.id
    BY <1>1, <1>2, <1>4
  <2>3. ASSUME NEW x \in {r.id : r \in B} PROVE x \in {r.id : r \in resources}
    <3>1. PICK r \in B : x = r.id
      OBVIOUS
    <3> QED BY <2>1, <3>1
  <2>4. ASSUME NEW x \in {r.id : r \in resources} PROVE x \in {r.id : r \in B}
    <3>1. PICK r \in resources : x = r.id
      OBVIOUS
    <3> QED BY <2>2, <3>1
  <2> QED BY <2>3, <2>4
<1>7. (\A r \in resources : r.bound) => B = resources
  <2> SUFFICES ASSUME \A r \in resources : r.bound PROVE B = resources
    OBVIOUS
  <2>1. \A r \in resources : r = one
    BY <1>1
  <2> QED BY <1>3, <1>4, <2>1
<1> QED BY <1>3, <1>5, <1>6, <1>7

\* An output whose resources are bound is not changed by binding them.
LEMMA GoodIsBound ==
    ASSUME NEW out, GoodOutput(out)
    PROVE  Bind(out) = out
<1>1. out \in OutputRecord /\ out.resources \in ResourceSet
      /\ (\A r, s \in out.resources : r.id = s.id => r = s) /\ \A r \in out.resources : r.bound
  BY OutputFields DEF GoodOutput, Valid
<1>2. Bound(out.resources) = out.resources
  <2> DEFINE R == out.resources
             B == Bound(R)
  <2>1. /\ R \in ResourceSet /\ (\A r, s \in R : r.id = s.id => r = s) /\ \A r \in R : r.bound
    BY <1>1
  <2>2. B = Bound(R)
    OBVIOUS
  <2> HIDE DEF R, B
  <2>3. B = R
    BY <2>1, <2>2, BoundResources
  <2> QED BY <2>3 DEF B, R
<1>3. Bind(out) = [out EXCEPT !.resources = out.resources]
  BY <1>2 DEF Bind, Bound
<1> QED BY <1>1, <1>3 DEF OutputRecord

\* What this version writes of a task, and makes of it again.
LEMMA EncodedTask ==
    ASSUME NEW task, GoodTask(task), NEW enc, enc = Having(task, EncodedOutput(task.out)),
           NEW fresh
    PROVE  /\ enc \in TaskRecord /\ enc.out.snap = task.out.snap
           /\ enc.cands = task.cands /\ enc.active = task.active /\ enc.frozen = task.frozen /\ enc.items = task.items
           /\ enc.out.legacy = task.out.legacy /\ enc.out.resources = task.out.resources
           /\ RestoredOutput(Schema, enc, fresh) = task.out
           /\ Having(enc, task.out) = task
<1> DEFINE out == task.out
           coded == EncodedOutput(out)
<1>1. /\ task \in TaskRecord /\ out \in OutputRecord /\ FollowsItems(out, task.items)
      /\ out.primary \in Ids(out.results) /\ out.results \in Seq(ResultRecord)
  BY OutputFields DEF GoodTask, GoodOutput
<1>2. Schema \in Nat /\ Schema # 1
  BY OlderVersions
<1>3. out.primary # "none"
  BY <1>1, IdsAreNames DEF Names
<1>4. /\ coded.snap = out.snap /\ coded.rev = out.rev /\ coded.primary = out.primary
      /\ coded.resources = out.resources /\ coded.legacy = out.legacy
      /\ (~out.legacy => coded.results = out.results)
      /\ coded \in OutputRecord
  <2>1. << >> \in Seq(ResultRecord)
    OBVIOUS
  <2> DEFINE q == IF out.legacy THEN << >> ELSE out.results
  <2>2. q \in Seq(ResultRecord) /\ (~out.legacy => q = out.results)
    BY <1>1, <2>1
  <2>3. coded = [out EXCEPT !.results = q]
    BY DEF EncodedOutput
  <2> HIDE DEF q, coded, out
  <2>4. /\ coded.snap = out.snap /\ coded.rev = out.rev /\ coded.primary = out.primary
        /\ coded.resources = out.resources /\ coded.legacy = out.legacy /\ coded.results = q
    BY <1>1, <2>3 DEF OutputRecord
  <2>5. coded \in OutputRecord
    BY <1>1, <2>2, <2>3 DEF OutputRecord
  <2> QED BY <2>2, <2>4, <2>5
<1> HIDE DEF coded
<1>5. enc = Having(task, coded)
  BY DEF coded
<1>6. /\ enc \in TaskRecord /\ enc.out = coded /\ enc.cands = task.cands
      /\ enc.active = task.active /\ enc.frozen = task.frozen /\ enc.items = task.items
      /\ Having(enc, task.out) = task
  BY <1>1, <1>4, <1>5, TaskFields
<1>7. RestoredOutput(Schema, enc, fresh) = out
  <2> DEFINE results == IF Schema = 1 \/ enc.out.legacy THEN LegacyResults(enc.items) ELSE enc.out.results
             primary == IF Schema = 1 \/ enc.out.primary = "none" THEN InferredPrimary(results) ELSE enc.out.primary
             legacy == (Schema = 1 \/ enc.out.legacy)
  <2>1. results = out.results
    <3>1. out.legacy => LegacyResults(enc.items) = out.results
      BY <1>1, <1>6 DEF FollowsItems
    <3> HIDE DEF out
    <3> QED BY <1>2, <1>4, <1>6, <3>1
  <2>2. primary = out.primary
    BY <1>2, <1>3, <1>4, <1>6
  <2>3. legacy = out.legacy
    <3>1. out.legacy \in BOOLEAN
      BY <1>1, OutputFields
    <3>2. legacy <=> out.legacy
      BY <1>2, <1>4, <1>6
    <3> QED BY <3>1, <3>2
  <2>4. RestoredOutput(Schema, enc, fresh) =
          NewOutput(IF Schema = 1 THEN fresh ELSE enc.out.snap, IF Schema = 1 THEN 1 ELSE enc.out.rev,
                    primary, results, IF Schema = 1 THEN {} ELSE enc.out.resources, legacy)
    BY DEF RestoredOutput
  <2> HIDE DEF results, primary, legacy, out
  <2>5. RestoredOutput(Schema, enc, fresh) =
          NewOutput(out.snap, out.rev, out.primary, out.results, out.resources, out.legacy)
    BY <1>2, <1>4, <1>6, <2>1, <2>2, <2>3, <2>4
  <2> QED BY <1>1, <2>5, OutputFields
<1> QED BY <1>4, <1>6, <1>7

\* A file of this version, and what is in it.
LEMMA EncodedFile ==
    ASSUME NEW task, Present(task) => GoodTask(task), NEW pend \in IntentSet, task \in TaskRecord \cup {Absent},
           NEW file, file = Encoded(task, pend)
    PROVE  /\ file \in FileRecord /\ Present(file)
           /\ file.schema = Schema /\ file.pend = pend /\ file.root = (pend # {})
           /\ file.tombs = Tombstones(task, pend)
           /\ file.of.rec = task /\ file.of.intents = pend
           /\ ~Present(task) => file.task = Absent
           /\ Present(task) => file.task = Having(task, EncodedOutput(task.out))
           /\ Present(task) => Present(file.task) /\ file.task \in TaskRecord /\ file.task.out.snap = task.out.snap
           /\ Tombstones(file.task, pend) = Tombstones(task, pend)
<1> DEFINE coded == IF Present(task) THEN Having(task, EncodedOutput(task.out)) ELSE Absent
           of == [rec |-> task, intents |-> pend]
           root == (pend # {})
           tombs == Tombstones(task, pend)
<1>1. file = [schema |-> Schema, pend |-> pend, root |-> root, tombs |-> tombs, task |-> coded, of |-> of]
  BY DEF Encoded, Having
<1>2. /\ Absent \notin TaskRecord /\ Absent \notin FileRecord
      /\ Schema \in Nat
  BY OlderVersions
<1>3. Present(task) => /\ coded \in TaskRecord /\ coded.out.snap = task.out.snap
                      /\ coded = Having(task, EncodedOutput(task.out)) /\ Present(coded)
  BY <1>2, EncodedTask DEF Present
<1>4. ~Present(task) => coded = Absent
  OBVIOUS
<1>5. of \in StateRecord
  BY DEF StateRecord
<1>6. tombs \in SUBSET {"task"} /\ root \in BOOLEAN /\ coded \in TaskRecord \cup {Absent}
  BY <1>3, <1>4 DEF Tombstones
<1>7. Tombstones(coded, pend) = tombs
  BY <1>3, <1>4 DEF Tombstones, Present
<1> HIDE DEF coded, of, root, tombs
<1>8. /\ file.schema = Schema /\ file.pend = pend /\ file.root = root /\ file.tombs = tombs
      /\ file.task = coded /\ file.of = of
  BY <1>1
<1>9. file \in FileRecord
  BY <1>1, <1>2, <1>5, <1>6 DEF FileRecord
<1>10. file.of.rec = task /\ file.of.intents = pend
  BY <1>8 DEF of
<1> QED BY <1>2, <1>3, <1>4, <1>7, <1>8, <1>9, <1>10 DEF Present, of, root, tombs

\* A file of this version loads, and gives back what was encoded.
LEMMA EncodedLoads ==
    ASSUME NEW task \in TaskRecord \cup {Absent}, Present(task) => GoodTask(task), NEW pend \in IntentSet,
           NEW file, file = Encoded(task, pend), NEW fresh
    PROVE  Loads(file) /\ Restored(file, fresh) = task
<1> DEFINE was == file.task
<1>1. /\ file.schema = Schema /\ file.pend = pend /\ file.root = (pend # {})
      /\ file.tombs = Tombstones(task, pend) /\ Tombstones(was, pend) = Tombstones(task, pend)
      /\ ~Present(task) => was = Absent
      /\ Present(task) => was = Having(task, EncodedOutput(task.out)) /\ Present(was)
  BY EncodedFile
<1>2. Schema \in Nat /\ Schema \in 1..Schema /\ Schema > 7
  BY OlderVersions
<1>3. ASSUME Present(task)
      PROVE  /\ was \in TaskRecord /\ RestoredOutput(Schema, was, 0) = task.out
             /\ RestoredOutput(Schema, was, fresh) = task.out
             /\ was.cands = task.cands /\ was.active = task.active /\ was.frozen = task.frozen
             /\ was.items = task.items /\ Having(was, task.out) = task
             /\ was.out.legacy = task.out.legacy /\ was.out.resources = task.out.resources
             /\ Migrated(Schema, was) = was
  <2> HIDE DEF was
  <2>1. GoodTask(task) /\ was = Having(task, EncodedOutput(task.out))
    BY <1>1, <1>3
  <2>2. Migrated(Schema, was) = was
    <3>1. ~(Schema < 4)
      BY <1>2
    <3> QED BY <3>1 DEF Migrated
  <2> QED BY <2>1, <2>2, EncodedTask
<1> HIDE DEF was
<1>4. ASSUME Present(task) PROVE TaskLoads(Schema, was)
  <2>1. GoodTask(task) /\ GoodOutput(task.out) /\ FollowsItems(task.out, task.items)
    BY <1>4 DEF GoodTask
  <2>2. Executable(Schema, Migrated(Schema, was)) /\ Aligned(was)
    BY <1>3, <1>4, <2>1, ZenonT(60) DEF GoodTask, Executable, Aligned
  <2>3. was.out.legacy => was.out.resources = {}
    BY <1>3, <1>4, <2>1 DEF FollowsItems
  <2>4. \A r \in was.out.resources : r.bound \/ Schema < 6
    BY <1>3, <1>4, <2>1 DEF GoodOutput
  <2>5. Valid(task.out.results, task.out.resources) /\ task.out.primary \in Ids(task.out.results) \cup {"none"}
    BY <2>1 DEF GoodOutput
  <2> DEFINE out == RestoredOutput(Schema, was, 0)
  <2>6. out = task.out
    BY <1>3, <1>4
  <2> HIDE DEF out
  <2>7. Valid(out.results, out.resources) /\ out.primary \in Ids(out.results) \cup {"none"}
    BY <2>5, <2>6
  <2>8. ~(Schema < 3) /\ ~(Schema < 4)
    BY <1>2
  <2> QED BY <2>2, <2>3, <2>4, <2>7, <2>8 DEF TaskLoads, out
<1>5. Loads(file)
  <2>1. ~(Schema < 8) /\ ~(Schema < 7)
    BY <1>2
  <2>2. Present(was) => TaskLoads(Schema, was)
    BY <1>1, <1>4 DEF Present
  <2> QED BY <1>1, <1>2, <2>1, <2>2 DEF Loads, was
<1>6. Restored(file, fresh) = task
  <2>1. CASE ~Present(task)
    BY <1>1, <2>1 DEF Restored, Present, was
  <2>2. CASE Present(task)
    <3>1. GoodOutput(task.out) /\ FollowsItems(task.out, task.items)
      BY <2>2 DEF GoodTask
    <3>2. Reconciled(task.out, was.items, fresh) = task.out
      BY <1>3, <2>2, <3>1 DEF Reconciled, FollowsItems
    <3>3. Bind(task.out) = task.out
      BY <3>1, GoodIsBound
    <3>4. Restored(file, fresh) = Having(was, Bind(Reconciled(task.out, was.items, fresh)))
      BY <1>1, <1>3, <2>2 DEF Restored, Having, was
    <3> QED BY <1>3, <2>2, <3>2, <3>3, <3>4
  <2> QED BY <2>1, <2>2
<1> QED BY <1>5, <1>6

\* An output that is good but for resources that are not bound yet.
LEMMA BoundIsGood ==
    ASSUME NEW out \in OutputRecord, Valid(out.results, out.resources), out.primary \in Ids(out.results),
           NEW parts, FollowsItems(out, parts)
    PROVE  GoodOutput(Bind(out)) /\ FollowsItems(Bind(out), parts) /\ Bind(out).snap = out.snap
<1> DEFINE R == out.resources
           B == Bound(R)
           new == Bind(out)
<1>1. new = [out EXCEPT !.resources = B]
  BY DEF Bind, Bound
<1>2. B = Bound(R) /\ R \in ResourceSet /\ \A r, s \in R : r.id = s.id => r = s
  BY OutputFields DEF Valid
<1>3. R = {} => B = {}
  BY DEF Bound
<1> HIDE DEF R, B, new
<1>4. /\ B \in ResourceSet /\ \A r \in B : r.bound
      /\ {r.id : r \in B} = {r.id : r \in R}
      /\ \A r, s \in B : r.id = s.id => r = s
  <2>1. B \in ResourceSet /\ (\A r \in B : r.bound) /\ \A r, s \in B : r.id = s.id => r = s
    BY <1>2, BoundResources
  <2>2. {r.id : r \in B} = {r.id : r \in R}
    BY <1>2, BoundResources
  <2> QED BY <2>1, <2>2
<1>5. /\ new \in OutputRecord /\ new.results = out.results /\ new.resources = B
      /\ new.primary = out.primary /\ new.legacy = out.legacy /\ new.snap = out.snap
  <2>1. new \in OutputRecord
    BY <1>1, <1>4 DEF OutputRecord
  <2>2. /\ new.results = out.results /\ new.resources = B
        /\ new.primary = out.primary /\ new.legacy = out.legacy /\ new.snap = out.snap
    BY <1>1 DEF OutputRecord
  <2> QED BY <2>1, <2>2
<1>6. Valid(new.results, new.resources)
  BY <1>4, <1>5 DEF Valid, R
<1>7. FollowsItems(new, parts)
  BY <1>3, <1>5 DEF FollowsItems, R
<1> QED BY <1>4, <1>5, <1>6, <1>7 DEF GoodOutput, new

\* What a file of an older version is migrated to.
LEMMA MigratedTask ==
    ASSUME NEW task \in TaskRecord, NEW schema \in 1..Schema, NEW new, new = Migrated(schema, task),
           Executable(schema, new)
    PROVE  /\ new \in TaskRecord /\ new.out = task.out /\ new.items = task.items
           /\ new.cands = task.cands /\ new.active = task.active
           /\ Executable(Schema, new)
<1>1. new = task \/ new = [task EXCEPT !.frozen = TRUE]
  BY DEF Migrated
<1>2. /\ new \in TaskRecord /\ new.out = task.out /\ new.items = task.items
      /\ new.cands = task.cands /\ new.active = task.active
  BY <1>1 DEF TaskRecord
<1>3. Executable(Schema, new)
  <2>1. CASE schema >= 4
    BY <2>1 DEF Executable
  <2>2. CASE ~(schema >= 4)
    <3>1. schema < 4
      BY <2>2
    <3>2. new.cands # << >> /\ new.active => new = [task EXCEPT !.frozen = TRUE]
      BY <1>2, <3>1 DEF Migrated
    <3>3. [task EXCEPT !.frozen = TRUE].frozen
      BY DEF TaskRecord
    <3> QED BY <3>2, <3>3 DEF Executable
  <2> QED BY <2>1, <2>2
<1> QED BY <1>2, <1>3

\* A task whose output is replaced by a good one.
LEMMA WithGoodOutput ==
    ASSUME NEW task \in TaskRecord, HasItems(task), Executable(Schema, task), Aligned(task),
           NEW out, GoodOutput(out), FollowsItems(out, task.items)
    PROVE  GoodTask(Having(task, out)) /\ Having(task, out).out = out
<1> DEFINE new == Having(task, out)
<1> HIDE DEF new
<1>1. new = Having(task, out) /\ out \in OutputRecord
  BY DEF new, GoodOutput
<1>2. /\ new \in TaskRecord /\ new.out = out /\ new.cands = task.cands
      /\ new.active = task.active /\ new.frozen = task.frozen /\ new.items = task.items
  BY <1>1, TaskFields
<1>3. HasItems(new) /\ Executable(Schema, new) /\ Aligned(new)
  BY <1>2 DEF HasItems, Executable, Aligned
<1>4. GoodTask(new)
  BY <1>2, <1>3 DEF GoodTask
<1> QED BY <1>2, <1>4 DEF new

\* What an older version left and this one accepts is a task as it keeps it.
LEMMA LegacyLoads ==
    ASSUME NEW file \in Legacy, Loads(file), Present(file.task), NEW fresh \in Nat
    PROVE  /\ GoodTask(Restored(file, fresh))
           /\ Restored(file, fresh).out.snap = 0 \/ Restored(file, fresh).out.snap = fresh
<1> DEFINE schema == file.schema
           was == file.task
           task == Migrated(schema, was)
           first == (schema = 1)
           results == IF first \/ was.out.legacy THEN LegacyResults(was.items) ELSE was.out.results
           primary == IF first \/ was.out.primary = "none" THEN InferredPrimary(results) ELSE was.out.primary
           resources == IF first THEN {} ELSE was.out.resources
           legacy == (first \/ was.out.legacy)
           snap == IF first THEN fresh ELSE was.out.snap
           rev == IF first THEN 1 ELSE was.out.rev
           out == NewOutput(snap, rev, primary, results, resources, legacy)
           new == Reconciled(out, was.items, fresh)
<1>1. /\ file \in FileRecord /\ schema \in 1..Schema
      /\ HasItems(was) /\ was.out.snap = 0 /\ (was.out.legacy \/ was.out.results # << >>)
  BY OlderVersions DEF Loads, Present
<1>2. was \in TaskRecord /\ TaskLoads(schema, was)
  BY <1>1, OlderVersions DEF Loads, FileRecord, Present
<1>3. /\ was.items \in Seq(ItemRecord) /\ was.out \in OutputRecord
      /\ was.items # << >> /\ Cardinality({was.items[i].id : i \in DOMAIN was.items}) = Len(was.items)
  BY <1>1, <1>2 DEF TaskRecord, HasItems
<1>4. Executable(schema, task) /\ Aligned(was)
  BY <1>2 DEF TaskLoads
<1> HIDE DEF task
<1>5. /\ task \in TaskRecord /\ task.out = was.out /\ task.items = was.items
      /\ task.cands = was.cands /\ task.active = was.active /\ Executable(Schema, task)
  BY <1>1, <1>2, <1>4, MigratedTask DEF task
<1>6. HasItems(task) /\ Aligned(task)
  BY <1>1, <1>4, <1>5 DEF HasItems, Aligned
<1>7. RestoredOutput(schema, task, fresh) = out
  BY <1>5 DEF RestoredOutput
<1>8. /\ Valid(results, resources) /\ primary \in Ids(results) \cup {"none"}
      /\ first \/ (was.out.legacy => was.out.resources = {})
  <2> DEFINE loaded == RestoredOutput(schema, was, 0)
  <2>1. /\ Valid(loaded.results, loaded.resources) /\ loaded.primary \in Ids(loaded.results) \cup {"none"}
        /\ schema > 1 => (was.out.legacy => was.out.resources = {})
    BY <1>2 DEF TaskLoads
  <2>2. loaded.results = results /\ loaded.resources = resources /\ loaded.primary = primary
    BY DEF RestoredOutput, NewOutput
  <2>3. first \/ schema > 1
    BY <1>1
  <2> HIDE DEF loaded, results, resources, primary
  <2> QED BY <2>1, <2>2, <2>3
<1>9. results \in Seq(ResultRecord) /\ results # << >>
  BY <1>1, <1>3, LegacyIsValid, OutputFields
<1>10. primary \in Ids(results)
  <2>1. CASE first \/ was.out.primary = "none"
    BY <1>9, <2>1, InferredIsAResult
  <2>2. CASE ~(first \/ was.out.primary = "none")
    BY <1>8, <2>2
  <2> QED BY <2>1, <2>2
<1>11. /\ snap \in Nat /\ rev \in Nat /\ resources \in ResourceSet /\ legacy \in BOOLEAN
       /\ primary \in Names \cup {"none"} /\ (snap = 0 \/ snap = fresh)
  <2>1. was.out.rev \in Nat /\ was.out.resources \in ResourceSet /\ was.out.legacy \in BOOLEAN
    BY <1>3, OutputFields
  <2>2. {} \in ResourceSet
    BY DEF ResourceSet
  <2>3. primary \in Names
    BY <1>9, <1>10, IdsAreNames
  <2> QED BY <1>1, <2>1, <2>2, <2>3
<1>12. legacy => resources = {}
  BY <1>8
<1>b. out = NewOutput(snap, rev, primary, results, resources, legacy)
  OBVIOUS
<1> HIDE DEF snap, rev, resources, legacy, primary, results, first, out
<1>13. /\ out \in OutputRecord /\ out.results = results /\ out.resources = resources
       /\ out.primary = primary /\ out.legacy = legacy /\ out.snap = snap
  <2>1. /\ snap \in Nat /\ rev \in Nat /\ primary \in Names \cup {"none"}
        /\ results \in Seq(ResultRecord) /\ resources \in ResourceSet /\ legacy \in BOOLEAN
    BY <1>9, <1>11
  <2> QED BY <2>1, <1>b, NewOutputType
<1>14. /\ new \in OutputRecord /\ Valid(new.results, new.resources) /\ new.primary \in Ids(new.results)
       /\ new.resources = out.resources /\ FollowsItems(new, was.items) /\ NextSnapshot(out, new, fresh)
  BY <1>3, <1>8, <1>10, <1>12, <1>13, ReconciledIsGood
<1> HIDE DEF new
<1>15. /\ GoodOutput(Bind(new)) /\ FollowsItems(Bind(new), was.items) /\ Bind(new).snap = new.snap
  BY <1>14, BoundIsGood
<1>16. Restored(file, fresh) = Having(task, Bind(new))
  BY <1>5, <1>7 DEF Restored, Having, task, new
<1>17. GoodTask(Having(task, Bind(new))) /\ Having(task, Bind(new)).out = Bind(new)
  BY <1>5, <1>6, <1>15, WithGoodOutput
<1>18. new.snap = 0 \/ new.snap = fresh
  BY <1>11, <1>13, <1>14 DEF NextSnapshot
<1> QED BY <1>15, <1>16, <1>17, <1>18
-----------------------------------------------------------------------------
(* The invariant.                                                           *)

\* The fields of a directory.
LEMMA DiskFields ==
    ASSUME NEW made, NEW file
    PROVE  /\ Disk(made, file).made = made /\ Disk(made, file).file = file
           /\ Disk(made, file) = Disk(Disk(made, file).made, Disk(made, file).file)
  BY DEF Disk

\* The state before the first load.
LEMMA InitHolds ==
    SnapshotsInit => SnapshotsInv
<1> SUFFICES ASSUME SnapshotsInit PROVE SnapshotsInv
  OBVIOUS
<1>1. PICK made \in BOOLEAN, file \in Legacy \cup {Absent} : vol = Disk(made, file) /\ dur = vol
  BY DEF SnapshotsInit
<1>2. vol.made = made /\ vol.file = file /\ vol = Disk(vol.made, vol.file)
  BY <1>1, DiskFields
<1>3. Known(file, snaps)
  <2>1. CASE file = Absent
    BY <2>1 DEF Known, Present
  <2>2. CASE file \in Legacy
    <3>1. GoodFile(file)
      BY <2>2, OlderVersions DEF GoodFile
    <3>2. Present(file.task) => file.task.out.snap <= snaps
      BY <2>2, OlderVersions DEF Present, SnapshotsInit
    <3> QED BY <3>1, <3>2 DEF Known
  <2> QED BY <2>1, <2>2
<1>4. TaskInv
  BY DEF SnapshotsInit, TaskInv, IntentSet, Present
<1>5. FilesInv
  BY <1>1, <1>2, <1>3 DEF FilesInv
<1>6. SyncInv
  BY <1>1 DEF SnapshotsInit, SyncInv
<1>7. AckedInv
  BY DEF SnapshotsInit, AckedInv
<1> QED BY <1>4, <1>5, <1>6, <1>7 DEF SnapshotsInv

\* Files stay known as more snapshots are made.
LEMMA FilesStayKnown ==
    ASSUME NEW file, NEW m \in Nat, NEW n \in Nat, m <= n, Known(file, m)
    PROVE  Known(file, n)
<1> SUFFICES ASSUME Present(file), Present(file.task) PROVE file.task.out.snap <= n
  BY DEF Known
<1>1. file.task.out.snap <= m /\ file \in FileRecord
  BY DEF Known, GoodFile
<1>2. file.task.out.snap \in Nat
  BY <1>1, OutputFields DEF FileRecord, TaskRecord, Present
<1> QED BY <1>1, <1>2

\* A change of the task keeps the invariant.
LEMMA ChangeKeeps ==
    ASSUME SnapshotsInv, NEW task \in TaskRecord \cup {Absent}, NEW pend \in IntentSet,
           Present(task) => GoodTask(task) /\ task.out.snap <= snaps + 1,
           Change(task, pend)
    PROVE  SnapshotsInv'
<1>1. /\ snaps \in Nat /\ rec' = task /\ intents' = pend /\ store' = "dirty"
      /\ snaps' = IF Present(task) /\ task.out.snap > snaps THEN snaps + 1 ELSE snaps
      /\ UNCHANGED <<pending, vol, dur, acked>>
  BY DEF Change, Same, SnapshotsInv, TaskInv
<1>2. snaps' \in Nat /\ snaps <= snaps'
  BY <1>1
<1>3. TaskInv'
  <2>1. Present(task) => task.out.snap <= snaps'
    <3>1. Present(task) => task.out.snap \in Nat
      BY OutputFields DEF GoodTask, GoodOutput
    <3> QED BY <1>1, <3>1
  <2> QED BY <1>1, <1>2, <2>1 DEF TaskInv
<1>4. FilesInv'
  <2>1. Known(vol.file, snaps') /\ Known(dur.file, snaps')
    BY <1>1, <1>2, FilesStayKnown DEF SnapshotsInv, FilesInv
  <2> QED BY <1>1, <2>1 DEF SnapshotsInv, FilesInv
<1>5. SyncInv'
  BY <1>1 DEF SnapshotsInv, SyncInv
<1>6. AckedInv'
  BY <1>1 DEF SnapshotsInv, AckedInv
<1> QED BY <1>3, <1>4, <1>5, <1>6 DEF SnapshotsInv

\* A change of its output keeps the invariant, and is another snapshot.
LEMMA OutputKeeps ==
    ASSUME SnapshotsInv, Present(rec), NEW out, WithOutput(out),
           GoodOutput(out), FollowsItems(out, rec.items), NextSnapshot(rec.out, out, snaps + 1)
    PROVE  SnapshotsInv' /\ SnapshotStep
<1> DEFINE task == Having(rec, out)
<1>1. /\ GoodTask(rec) /\ rec \in TaskRecord /\ HasItems(rec) /\ Executable(Schema, rec) /\ Aligned(rec)
      /\ rec.out.snap <= snaps /\ snaps \in Nat /\ intents \in IntentSet
  BY DEF SnapshotsInv, TaskInv, GoodTask
<1>2. GoodTask(task) /\ task.out = out
  BY <1>1, WithGoodOutput
<1>3. Change(task, intents)
  BY DEF WithOutput, Having
<1>4. rec' = task /\ Present(task)
  BY <1>2, <1>3, OlderVersions DEF Change, Present, GoodTask
<1> HIDE DEF task
<1>5. rec.out.snap \in Nat /\ rec.out.rev \in Nat
  BY <1>1, OutputFields DEF GoodTask, GoodOutput
<1>6. task.out.snap <= snaps + 1
  BY <1>1, <1>2, <1>5 DEF NextSnapshot
<1>7. SnapshotsInv'
  BY <1>1, <1>2, <1>3, <1>6, ChangeKeeps DEF GoodTask
<1>8. SnapshotStep
  <2>1. CASE out = rec.out
    BY <1>2, <1>4, <2>1 DEF SnapshotStep
  <2>2. CASE out.snap = snaps + 1 /\ out.rev = rec.out.rev + 1
    BY <1>1, <1>2, <1>4, <1>5, <2>2 DEF SnapshotStep
  <2> QED BY <2>1, <2>2 DEF NextSnapshot
<1> QED BY <1>7, <1>8

\* Two names are two elements.
LEMMA PairCardinality == Cardinality({"a", "b"}) = 2
<1>1. {"a", "b"} = {"a"} \cup {"b"} /\ "b" \notin {"a"}
  OBVIOUS
<1>2. IsFiniteSet({"a"}) /\ Cardinality({"a"}) = 1
  BY FS_Singleton
<1>3. Cardinality({"a"} \cup {"b"}) = 2
  BY <1>1, <1>2, FS_AddElement
<1> QED BY <1>1, <1>3

\* The items of a new task.
LEMMA NewItems ==
    ASSUME NEW parts \in TaskItems
    PROVE  /\ parts \in Seq(ItemRecord) /\ parts # << >>
           /\ Cardinality({parts[i].id : i \in DOMAIN parts}) = Len(parts)
           /\ \E i \in DOMAIN parts : parts[i].st = "run"
<1> DEFINE one(x) == [id |-> x, st |-> "run", played |-> FALSE]
<1>1. one("a") \in ItemRecord /\ one("b") \in ItemRecord
  BY DEF ItemRecord, Names
<1>2. /\ one("a").id = "a" /\ one("b").id = "b" /\ one("a").st = "run"
  OBVIOUS
<1>3. parts = <<one("a")>> \/ parts = <<one("a"), one("b")>>
  BY DEF TaskItems
<1>6. Len(<< >>) = 0 /\ 1 # 0 /\ 2 # 0
  OBVIOUS
<1> HIDE DEF one
<1>4. CASE parts = <<one("a")>>
  <2>1. /\ parts \in Seq(ItemRecord) /\ Len(parts) = 1 /\ DOMAIN parts = {1} /\ parts[1] = one("a")
    BY <1>1, <1>4
  <2>2. {parts[i].id : i \in DOMAIN parts} = {"a"}
    BY <1>2, <2>1
  <2>3. Cardinality({parts[i].id : i \in DOMAIN parts}) = Len(parts)
    BY <2>1, <2>2, FS_Singleton
  <2>4. parts[1].st = "run" /\ 1 \in DOMAIN parts
    BY <1>2, <2>1
  <2>5. parts # << >>
    BY <1>6, <2>1, Zenon
  <2> QED BY <2>1, <2>3, <2>4, <2>5
<1>5. CASE parts = <<one("a"), one("b")>>
  <2>1. /\ parts \in Seq(ItemRecord) /\ Len(parts) = 2 /\ DOMAIN parts = {1, 2}
        /\ parts[1] = one("a") /\ parts[2] = one("b")
    BY <1>1, <1>5
  <2>2. {parts[i].id : i \in DOMAIN parts} = {"a", "b"}
    BY <1>2, <2>1
  <2>3. Cardinality({parts[i].id : i \in DOMAIN parts}) = Len(parts)
    BY <2>1, <2>2, PairCardinality
  <2>4. parts[1].st = "run" /\ 1 \in DOMAIN parts
    BY <1>2, <2>1
  <2>5. parts # << >>
    BY <1>6, <2>1, Zenon
  <2> QED BY <2>1, <2>3, <2>4, <2>5
<1> QED BY <1>3, <1>4, <1>5

\* The names of the items of a task.
Candidates(parts) == [i \in DOMAIN parts |-> parts[i].id]

\* A new task.
LEMMA CreateKeeps ==
    ASSUME SnapshotsInv, NEW v2 \in BOOLEAN, NEW parts \in TaskItems, Create(v2, parts)
    PROVE  SnapshotsInv' /\ SnapshotStep
<1> DEFINE results == LegacyResults(parts)
           primary == LegacyPrimary(parts, results)
           cands == IF v2 THEN Candidates(parts) ELSE << >>
           fresh == snaps + 1
           yes == TRUE
           rev == 1
           none == {}
           out == NewOutput(fresh, rev, primary, results, none, yes)
           task == [cands |-> cands, active |-> yes, frozen |-> v2, items |-> parts, out |-> out]
<1>1. Change(task, none) /\ ~Present(rec)
  BY DEF Create, Candidates
<1>2. /\ parts \in Seq(ItemRecord) /\ parts # << >>
      /\ Cardinality({parts[i].id : i \in DOMAIN parts}) = Len(parts)
      /\ \E i \in DOMAIN parts : parts[i].st = "run"
  BY NewItems
<1>3. /\ results \in Seq(ResultRecord) /\ Valid(results, none) /\ primary \in Ids(results)
  BY <1>2, LegacyIsValid
<1>4. primary \in Names \cup {"none"}
  BY <1>3, IdsAreNames
<1>5. /\ fresh \in Nat /\ rev \in Nat /\ none \in ResourceSet /\ yes \in BOOLEAN /\ snaps \in Nat
      /\ none \in IntentSet
  BY DEF ResourceSet, SnapshotsInv, TaskInv, IntentSet
<1>6. cands \in Seq(Names) /\ (cands # << >> => v2 /\ cands = Candidates(parts))
  <2>1. CASE v2
    <3>1. Len(parts) \in Nat /\ DOMAIN parts = 1..Len(parts) /\ \A i \in 1..Len(parts) : parts[i] \in ItemRecord
      BY <1>2
    <3>2. \A i \in 1..Len(parts) : parts[i].id \in Names
      BY <3>1 DEF ItemRecord
    <3>3. Candidates(parts) \in [1..Len(parts) -> Names]
      BY <3>1, <3>2 DEF Candidates
    <3>4. Candidates(parts) \in Seq(Names)
      BY <3>1, <3>3, RowIsSeq
    <3> QED BY <2>1, <3>4
  <2>2. CASE ~v2
    BY <2>2
  <2> QED BY <2>1, <2>2
<1>7. out = NewOutput(fresh, rev, primary, results, none, yes)
  OBVIOUS
<1>8. task = [cands |-> cands, active |-> yes, frozen |-> v2, items |-> parts, out |-> out]
  OBVIOUS
<1>9. results = LegacyResults(parts) /\ primary = LegacyPrimary(parts, results) /\ (none = {})
      /\ \A r \in none : r.bound
  OBVIOUS
<1>a. yes
  OBVIOUS
<1> HIDE DEF cands, fresh, yes, rev, none, out, primary, results, task
<1>10. /\ out \in OutputRecord /\ out.snap = fresh /\ out.primary = primary
       /\ out.results = results /\ out.resources = none /\ out.legacy = yes
  <2>1. /\ fresh \in Nat /\ rev \in Nat /\ primary \in Names \cup {"none"}
        /\ results \in Seq(ResultRecord) /\ none \in ResourceSet /\ yes \in BOOLEAN
    BY <1>3, <1>4, <1>5
  <2>2. out = [snap |-> fresh, rev |-> rev, primary |-> primary, results |-> results,
               resources |-> none, legacy |-> yes]
    BY <1>7 DEF NewOutput
  <2>3. out \in OutputRecord
    BY <2>1, <2>2 DEF OutputRecord
  <2> QED BY <2>2, <2>3
<1>11. GoodOutput(out) /\ FollowsItems(out, parts)
  BY <1>3, <1>9, <1>10 DEF GoodOutput, FollowsItems
<1>12. /\ task \in TaskRecord /\ task.cands = cands /\ task.active = yes /\ task.frozen = v2
       /\ task.items = parts /\ task.out = out
  <2>1. task \in TaskRecord
    BY <1>2, <1>5, <1>6, <1>8, <1>10 DEF TaskRecord
  <2> QED BY <1>8, <2>1
<1>13. HasItems(task)
  BY <1>2, <1>a, <1>12 DEF HasItems
<1>14. Executable(Schema, task)
  BY <1>6, <1>12, OlderVersions DEF Executable
<1>15. Aligned(task)
  <2> SUFFICES ASSUME cands # << >> PROVE Aligned(task)
    BY <1>12 DEF Aligned
  <2>1. cands = Candidates(parts)
    BY <1>6
  <2>2. DOMAIN cands = DOMAIN parts /\ \A i \in DOMAIN parts : cands[i] = parts[i].id
    BY <2>1 DEF Candidates
  <2>3. Len(cands) = Len(parts)
    BY <1>2, <1>6, <2>2, LenProperties
  <2>4. {cands[i] : i \in DOMAIN cands} = {parts[i].id : i \in DOMAIN parts}
    BY <2>2
  <2>5. Cardinality({cands[i] : i \in DOMAIN cands}) = Len(cands)
    BY <1>2, <2>3, <2>4
  <2> QED BY <1>12, <2>2, <2>3, <2>5 DEF Aligned
<1>16. GoodTask(task)
  BY <1>11, <1>12, <1>13, <1>14, <1>15 DEF GoodTask
<1>17. SnapshotsInv'
  BY <1>1, <1>5, <1>10, <1>12, <1>16, ChangeKeeps DEF fresh
<1> QED BY <1>1, <1>17 DEF SnapshotStep

\* An item makes progress.
LEMMA ProgressKeeps ==
    ASSUME SnapshotsInv, NEW i, NEW st \in {"ok", "fail"}, ItemProgress(i, st)
    PROVE  SnapshotsInv' /\ SnapshotStep
<1> DEFINE parts == [rec.items EXCEPT ![i].st = st, ![i].played = st = "ok"]
           active == \E k \in DOMAIN parts : parts[k].st = "run"
           fresh == snaps + 1
           out == Reconciled(rec.out, parts, fresh)
           task == [rec EXCEPT !.items = parts, !.active = active, !.out = out]
<1>1. /\ Present(rec) /\ i \in DOMAIN rec.items /\ Change(task, intents)
  BY DEF ItemProgress
<1>2. /\ GoodTask(rec) /\ rec \in TaskRecord /\ HasItems(rec) /\ Executable(Schema, rec) /\ Aligned(rec)
      /\ GoodOutput(rec.out) /\ FollowsItems(rec.out, rec.items)
      /\ rec.out.snap <= snaps /\ fresh \in Nat /\ snaps \in Nat /\ intents \in IntentSet
  BY <1>1 DEF SnapshotsInv, TaskInv, GoodTask
<1>3. rec.items \in Seq(ItemRecord) /\ rec.out \in OutputRecord
  BY <1>2 DEF TaskRecord
<1>4. /\ parts \in Seq(ItemRecord) /\ Len(parts) = Len(rec.items) /\ DOMAIN parts = DOMAIN rec.items
      /\ \A k \in DOMAIN parts : /\ parts[k].id = rec.items[k].id
                                 /\ k # i => parts[k] = rec.items[k]
      /\ parts[i].st = st
  <2> DEFINE n == Len(rec.items)
             item == [rec.items[i] EXCEPT !.st = st, !.played = st = "ok"]
  <2>1. n \in Nat /\ DOMAIN rec.items = 1..n /\ rec.items \in [1..n -> ItemRecord]
    BY <1>3, LenProperties
  <2>2. item \in ItemRecord /\ item.id = rec.items[i].id /\ item.st = st
    <3> DEFINE was == rec.items[i]
               played == (st = "ok")
    <3>1. was \in ItemRecord /\ played \in BOOLEAN
      BY <1>1, <2>1
    <3>2. item = [was EXCEPT !.st = st, !.played = played]
      OBVIOUS
    <3> HIDE DEF was, played, item
    <3>3. item \in ItemRecord /\ item.id = was.id /\ item.st = st
      BY <3>1, <3>2 DEF ItemRecord
    <3> QED BY <3>3 DEF was
  <2>3. parts = [rec.items EXCEPT ![i] = item]
    BY <1>1, <1>3
  <2> HIDE DEF n, item, parts
  <2>4. parts \in [1..n -> ItemRecord] /\ parts[i] = item /\ \A k \in 1..n : k # i => parts[k] = rec.items[k]
    BY <1>1, <2>1, <2>2, <2>3
  <2>5. parts \in Seq(ItemRecord) /\ Len(parts) = n /\ DOMAIN parts = 1..n
    BY <2>1, <2>4, RowIsSeq
  <2> QED BY <2>1, <2>2, <2>4, <2>5 DEF n
<1> HIDE DEF parts
<1>5. active = \E k \in DOMAIN parts : parts[k].st = "run"
  OBVIOUS
<1>6. active \in BOOLEAN /\ (active => rec.active)
  <2>1. active => \E k \in DOMAIN rec.items : rec.items[k].st = "run"
    BY <1>1, <1>4
  <2>2. rec.active = \E k \in DOMAIN rec.items : rec.items[k].st = "run"
    BY <1>2 DEF HasItems
  <2> QED BY <2>1, <2>2
<1> HIDE DEF active
<1>7. {parts[k].id : k \in DOMAIN parts} = {rec.items[k].id : k \in DOMAIN rec.items}
  BY <1>4
<1>8. parts # << >> /\ Cardinality({parts[k].id : k \in DOMAIN parts}) = Len(parts)
  <2>1. Cardinality({rec.items[k].id : k \in DOMAIN rec.items}) = Len(rec.items)
    BY <1>2 DEF HasItems
  <2>2. parts # << >>
    BY <1>1, <1>4
  <2> QED BY <1>4, <1>7, <2>1, <2>2
<1>9. /\ out \in OutputRecord /\ Valid(out.results, out.resources) /\ out.primary \in Ids(out.results)
      /\ out.resources = rec.out.resources /\ FollowsItems(out, parts) /\ NextSnapshot(rec.out, out, fresh)
  <2>1. /\ rec.out.legacy => rec.out.resources = {}
        /\ Valid(rec.out.results, rec.out.resources) /\ rec.out.primary \in Ids(rec.out.results)
    BY <1>2 DEF GoodOutput, FollowsItems
  <2> QED BY <1>2, <1>3, <1>4, <1>8, <2>1, ReconciledIsGood, SMTT(60)
<1>10. GoodOutput(out)
  BY <1>2, <1>9 DEF GoodOutput
<1> HIDE DEF out
<1>11. /\ task \in TaskRecord /\ task.items = parts /\ task.active = active /\ task.out = out
       /\ task.cands = rec.cands /\ task.frozen = rec.frozen
  <2>1. task \in TaskRecord
    BY <1>2, <1>4, <1>6, <1>9 DEF TaskRecord
  <2> QED BY <1>2, <2>1 DEF TaskRecord
<1> HIDE DEF task
<1>12. HasItems(task)
  BY <1>5, <1>8, <1>11 DEF HasItems
<1>13. Executable(Schema, task) /\ Aligned(task)
  <2>1. Executable(Schema, task)
    BY <1>2, <1>6, <1>11 DEF Executable
  <2>2. Aligned(task)
    BY <1>2, <1>4, <1>11 DEF Aligned
  <2> QED BY <2>1, <2>2
<1>14. GoodTask(task)
  BY <1>9, <1>10, <1>11, <1>12, <1>13 DEF GoodTask
<1>15. rec.out.snap \in Nat /\ rec.out.rev \in Nat
  BY <1>3, OutputFields
<1>16. task.out.snap <= fresh
  BY <1>2, <1>9, <1>11, <1>15 DEF NextSnapshot
<1>17. SnapshotsInv'
  BY <1>1, <1>2, <1>11, <1>14, <1>16, ChangeKeeps
<1>18. rec' = task
  BY <1>1 DEF Change
<1>19. SnapshotStep
  <2>1. CASE out = rec.out
    BY <1>11, <1>18, <2>1 DEF SnapshotStep
  <2>2. CASE out.snap = fresh /\ out.rev = rec.out.rev + 1
    BY <1>2, <1>11, <1>15, <1>18, <2>2 DEF SnapshotStep
  <2> QED BY <1>9, <2>1, <2>2 DEF NextSnapshot
<1> QED BY <1>17, <1>19

\* An output is published.
LEMMA OutputPublishKeeps ==
    ASSUME SnapshotsInv, NEW results \in PublishedResults, NEW preferred, PublishOutput(results, preferred)
    PROVE  SnapshotsInv' /\ SnapshotStep
<1> DEFINE resources == {[id |-> r, bound |-> TRUE] : r \in Referenced(results)}
           out == Replaced(rec.out, results, resources, preferred, snaps + 1)
<1>1. /\ Present(rec) /\ WithOutput(out) /\ Valid(results, resources)
      /\ preferred \in Ids(results) \cup {"none"}
  BY DEF PublishOutput
<1>2. /\ GoodOutput(rec.out) /\ snaps + 1 \in Nat
  BY <1>1 DEF SnapshotsInv, TaskInv, GoodTask
<1>3. results \in Seq(ResultRecord) /\ results # << >>
  <2>1. \A x \in Artifacts, id \in Names : Result(id, x[1], x[2], x[3]) \in ResultRecord
    BY DEF Artifacts, Result, ResultRecord
  <2>2. \/ \E r \in ResultRecord : results = <<r>>
        \/ \E r \in ResultRecord, s \in ResultRecord : results = <<r, s>>
    <3>1. "a" \in Names /\ "b" \in Names
      BY DEF Names
    <3>2. CASE \E x \in Artifacts : results = <<Result("a", x[1], x[2], x[3])>>
      BY <2>1, <3>1, <3>2
    <3>3. CASE \E x, y \in Artifacts : results = <<Result("a", x[1], x[2], x[3]), Result("b", y[1], y[2], y[3])>>
      <4>1. PICK x, y \in Artifacts : results = <<Result("a", x[1], x[2], x[3]), Result("b", y[1], y[2], y[3])>>
        BY <3>3
      <4>2. Result("a", x[1], x[2], x[3]) \in ResultRecord /\ Result("b", y[1], y[2], y[3]) \in ResultRecord
        BY <2>1, <3>1
      <4> QED BY <4>1, <4>2
    <3> QED BY <3>2, <3>3 DEF PublishedResults
  <2>3. CASE \E r \in ResultRecord : results = <<r>>
    BY <2>3
  <2>4. CASE \E r \in ResultRecord, s \in ResultRecord : results = <<r, s>>
    <3>1. PICK r \in ResultRecord, s \in ResultRecord : results = <<r, s>>
      BY <2>4
    <3> QED BY <3>1
  <2> QED BY <2>2, <2>3, <2>4
<1>4. resources \in ResourceSet /\ \A r \in resources : r.bound
  <2>1. \A i \in DOMAIN results : results[i].back \in {"none", "lib", "r"}
    <3>1. \A i \in DOMAIN results : results[i] \in ResultRecord
      BY <1>3
    <3> QED BY <3>1 DEF ResultRecord
  <2>2. Referenced(results) \subseteq {"r"}
    BY <2>1 DEF Referenced
  <2>3. \A r \in {"r"} : [id |-> r, bound |-> TRUE] \in [id : {"r"}, bound : BOOLEAN]
    OBVIOUS
  <2>4. \A x \in resources : \E r \in {"r"} : x = [id |-> r, bound |-> TRUE]
    BY <2>2
  <2>5. \A r \in {"r"} : [id |-> r, bound |-> TRUE].bound
    OBVIOUS
  <2> HIDE DEF resources
  <2> QED BY <2>3, <2>4, <2>5 DEF ResourceSet
<1> HIDE DEF resources
<1>5. GoodOutput(out) /\ ~out.legacy /\ NextSnapshot(rec.out, out, snaps + 1)
  <2> DEFINE fresh == snaps + 1
  <2> HIDE DEF fresh
  <2>1. fresh \in Nat /\ out = Replaced(rec.out, results, resources, preferred, fresh)
    BY <1>2 DEF fresh
  <2> HIDE DEF out
  <2>2. GoodOutput(out) /\ ~out.legacy /\ NextSnapshot(rec.out, out, fresh)
    BY <1>1, <1>2, <1>3, <1>4, <2>1, ReplacedIsGood
  <2> QED BY <2>2 DEF fresh
<1>6. FollowsItems(out, rec.items)
  BY <1>5 DEF FollowsItems
<1> QED BY <1>1, <1>5, <1>6, OutputKeeps

\* The output loses its expired resources, or media that was deleted.
LEMMA LossKeeps ==
    ASSUME SnapshotsInv, Retire \/ \E how, id : Delete(how, id)
    PROVE  SnapshotsInv' /\ SnapshotStep
<1> DEFINE fresh == snaps + 1
<1>1. Present(rec)
  BY DEF Retire, Delete
<1>2. /\ GoodOutput(rec.out) /\ FollowsItems(rec.out, rec.items) /\ fresh \in Nat
  BY <1>1 DEF SnapshotsInv, TaskInv, GoodTask
<1>3. CASE Retire
  <2> DEFINE out == Retired(rec.out, fresh)
  <2>1. WithOutput(out) /\ out = Retired(rec.out, fresh)
    BY <1>3 DEF Retire
  <2> HIDE DEF fresh, out
  <2>2. GoodOutput(out) /\ FollowsItems(out, rec.items) /\ NextSnapshot(rec.out, out, fresh)
    BY <1>2, <2>1, RetiredIsGood
  <2> QED BY <1>1, <2>1, <2>2, OutputKeeps DEF fresh
<1>4. CASE \E how, id : Delete(how, id)
  <2>1. PICK how, id : Delete(how, id)
    BY <1>4
  <2> DEFINE out == Deleted(rec.out, how, id, fresh)
  <2>2. WithOutput(out) /\ out = Deleted(rec.out, how, id, fresh)
    BY <2>1 DEF Delete
  <2> HIDE DEF fresh, out
  <2>3. GoodOutput(out) /\ FollowsItems(out, rec.items) /\ NextSnapshot(rec.out, out, fresh)
    BY <1>2, <2>2, DeletedIsGood
  <2> QED BY <1>1, <2>2, <2>3, OutputKeeps DEF fresh
<1> QED BY <1>3, <1>4

\* The task is removed, and its files are cleaned up.
LEMMA RemovalKeeps ==
    ASSUME SnapshotsInv,
           (\E own \in BOOLEAN : RemoveTask({<<"file", own>>})) \/ \E i : CleanedUp(i)
    PROVE  SnapshotsInv' /\ SnapshotStep
<1>1. /\ rec \in TaskRecord \cup {Absent} /\ intents \in IntentSet /\ snaps \in Nat
      /\ Present(rec) => GoodTask(rec) /\ rec.out.snap <= snaps
  BY DEF SnapshotsInv, TaskInv
<1>2. Present(rec) => rec.out.snap <= snaps + 1
  <2>1. Present(rec) => rec.out.snap \in Nat
    BY <1>1, OutputFields DEF GoodTask, GoodOutput
  <2> QED BY <1>1, <2>1
<1>3. CASE \E own \in BOOLEAN : RemoveTask({<<"file", own>>})
  <2>1. PICK own \in BOOLEAN : RemoveTask({<<"file", own>>})
    BY <1>3
  <2> DEFINE pend == intents \cup {<<"file", own>>}
  <2>2. Change(Absent, pend)
    BY <2>1 DEF RemoveTask
  <2>3. pend \in IntentSet /\ ~Present(Absent) /\ Absent \in TaskRecord \cup {Absent}
    BY <1>1 DEF IntentSet, Present
  <2> HIDE DEF pend
  <2>4. SnapshotsInv'
    BY <2>2, <2>3, ChangeKeeps
  <2>5. rec' = Absent
    BY <2>2 DEF Change
  <2> QED BY <2>4, <2>5 DEF SnapshotStep, Present
<1>4. CASE \E i : CleanedUp(i)
  <2>1. PICK i : CleanedUp(i)
    BY <1>4
  <2> DEFINE pend == intents \ {i}
  <2>2. Change(rec, pend)
    BY <2>1 DEF CleanedUp
  <2>3. pend \in IntentSet
    BY <1>1 DEF IntentSet
  <2> HIDE DEF pend
  <2>4. SnapshotsInv'
    BY <1>1, <1>2, <2>2, <2>3, ChangeKeeps
  <2>5. rec' = rec
    BY <2>2 DEF Change
  <2> QED BY <2>4, <2>5 DEF SnapshotStep
<1> QED BY <1>3, <1>4

\* A file that loads gives a task as this version keeps it.
LEMMA LoadedIsGood ==
    ASSUME NEW file, GoodFile(file), NEW m \in Nat, Known(file, m), Loads(file), NEW new, new = Restored(file, m + 1)
    PROVE  /\ new \in TaskRecord \cup {Absent} /\ file.pend \in IntentSet
           /\ Present(new) => GoodTask(new) /\ new.out.snap <= m + 1
<1> DEFINE fresh == m + 1
<1>1. file \in FileRecord /\ fresh \in Nat /\ Absent \notin FileRecord
  BY OlderVersions DEF GoodFile
<1>2. file.pend \in IntentSet /\ Present(file)
  BY <1>1 DEF FileRecord, Present
<1> HIDE DEF fresh
<1>3. CASE file \in Legacy
  <2>1. CASE Present(file.task)
    <3>1. GoodTask(new) /\ (new.out.snap = 0 \/ new.out.snap = fresh)
      BY <1>1, <1>3, <2>1, LegacyLoads DEF fresh
    <3> QED BY <1>2, <3>1 DEF GoodTask, fresh
  <2>2. CASE ~Present(file.task)
    <3>1. new = Absent
      BY <2>2 DEF Restored
    <3> QED BY <1>2, <3>1 DEF Present
  <2> QED BY <2>1, <2>2
<1>4. CASE file \notin Legacy
  <2>1. PICK task \in TaskRecord \cup {Absent}, pend \in IntentSet :
           (Present(task) => GoodTask(task)) /\ file = Encoded(task, pend)
    BY <1>4 DEF GoodFile
  <2>2. new = task
    BY <2>1, EncodedLoads
  <2>3. Present(task) => Present(file.task) /\ file.task.out.snap = task.out.snap
    BY <2>1, EncodedFile
  <2>4. Present(task) => task.out.snap <= m /\ task.out.snap \in Nat
    BY <1>2, <2>1, <2>3, OutputFields DEF Known, GoodTask, GoodOutput
  <2> QED BY <1>2, <2>1, <2>2, <2>4
<1> QED BY <1>3, <1>4

\* The state file is loaded.
LEMMA LoadKeeps ==
    ASSUME SnapshotsInv, Load
    PROVE  SnapshotsInv' /\ SnapshotStep
<1> DEFINE file == vol.file
           loads == Present(file) /\ Loads(file)
<1>1. /\ store = "loading" /\ rec = Absent /\ snaps \in Nat /\ Known(file, snaps)
      /\ UNCHANGED <<pending, vol, dur, acked>> /\ store' \in {"disabled", "dirty"}
  BY DEF Load, Same, SnapshotsInv, TaskInv, FilesInv
<1>2. ~loads => rec' = Absent /\ intents' = {} /\ snaps' = snaps
  BY DEF Load
<1>3. loads => /\ rec' = Restored(file, snaps + 1) /\ intents' = file.pend
              /\ snaps' = IF Present(rec') /\ rec'.out.snap > snaps THEN snaps + 1 ELSE snaps
  BY DEF Load
<1> HIDE DEF file
<1>4. TaskInv' /\ snaps' \in Nat /\ snaps <= snaps'
  <2>1. CASE ~loads
    <3>1. {} \in IntentSet
      BY DEF IntentSet
    <3> QED BY <1>1, <1>2, <2>1, <3>1 DEF TaskInv, Present
  <2>2. CASE loads
    <3>1. GoodFile(file)
      BY <1>1, <2>2 DEF Known
    <3>2. /\ rec' \in TaskRecord \cup {Absent} /\ file.pend \in IntentSet
          /\ Present(rec') => GoodTask(rec') /\ rec'.out.snap <= snaps + 1
      <4> DEFINE new == Restored(file, snaps + 1)
      <4>1. new = Restored(file, snaps + 1)
        OBVIOUS
      <4> HIDE DEF new
      <4>2. /\ new \in TaskRecord \cup {Absent} /\ file.pend \in IntentSet
            /\ Present(new) => GoodTask(new) /\ new.out.snap <= snaps + 1
        BY <1>1, <2>2, <3>1, <4>1, LoadedIsGood
      <4> QED BY <1>3, <2>2, <4>1, <4>2
    <3>3. Present(rec') => rec'.out.snap \in Nat
      BY <3>2, OutputFields DEF GoodTask, GoodOutput
    <3>4. snaps' \in Nat /\ snaps <= snaps' /\ (Present(rec') => rec'.out.snap <= snaps')
      BY <1>1, <1>3, <2>2, <3>2, <3>3
    <3> QED BY <1>1, <1>3, <2>2, <3>2, <3>4 DEF TaskInv, Present
  <2> QED BY <2>1, <2>2
<1>5. FilesInv'
  <2>1. Known(vol.file, snaps') /\ Known(dur.file, snaps')
    BY <1>1, <1>4, FilesStayKnown DEF SnapshotsInv, FilesInv
  <2> QED BY <1>1, <2>1 DEF SnapshotsInv, FilesInv
<1>6. SyncInv' /\ AckedInv'
  BY <1>1 DEF SnapshotsInv, SyncInv, AckedInv
<1>7. SnapshotStep
  BY <1>1 DEF SnapshotStep, Present
<1> QED BY <1>4, <1>5, <1>6, <1>7 DEF SnapshotsInv

\* What a crash leaves.
LEMMA CrashKeeps ==
    ASSUME SnapshotsInv, Crash
    PROVE  SnapshotsInv' /\ SnapshotStep
<1>1. PICK d \in AfterCrash : /\ vol' = d /\ dur' = d
                              /\ acked' = IF acked # {} /\ Present(d.file) THEN {d.file.of} ELSE acked
  BY DEF Crash
<1>2. PICK m \in {vol.made, dur.made}, f \in {vol.file, dur.file} : d = Disk(m, IF m THEN f ELSE Absent)
  BY <1>1 DEF AfterCrash
<1>3. d.made = m /\ d.file = (IF m THEN f ELSE Absent) /\ d = Disk(d.made, d.file)
  BY <1>2, DiskFields
<1>4. /\ rec' = Absent /\ intents' = {} /\ store' = "loading" /\ pending' = {"dir", "parent"}
      /\ snaps' = snaps /\ snaps \in Nat
  BY DEF Crash, SnapshotsInv, TaskInv
<1>5. TaskInv'
  BY <1>4 DEF TaskInv, IntentSet, Present
<1>6. FilesInv'
  <2>1. m \in BOOLEAN /\ Known(f, snaps) /\ Known(Absent, snaps)
    BY DEF SnapshotsInv, FilesInv, Known, Present
  <2> QED BY <1>1, <1>3, <1>4, <2>1 DEF FilesInv
<1>7. SyncInv'
  BY <1>1, <1>4 DEF SyncInv
<1>8. AckedInv'
  <2> SUFFICES ASSUME acked' # {} PROVE AckedInv'
    BY DEF AckedInv
  <2>1. acked # {}
    BY <1>1
  <2>2. m /\ Present(f)
    BY <2>1 DEF SnapshotsInv, AckedInv
  <2>3. d.file = f /\ d.made
    BY <1>3, <2>2
  <2> QED BY <1>1, <2>1, <2>2, <2>3 DEF AckedInv
<1>9. SnapshotStep
  BY <1>4 DEF SnapshotStep, Present
<1> QED BY <1>5, <1>6, <1>7, <1>8, <1>9 DEF SnapshotsInv

\* The state is saved: the directories, the file, and their syncs.
LEMMA SavesKeep ==
    ASSUME SnapshotsInv, SaveStarts \/ SaveRenames \/ \E done \in SUBSET {"dir", "parent"} : SaveSyncs(done)
    PROVE  SnapshotsInv' /\ SnapshotStep
<1> DEFINE file == Encoded(rec, intents)
<1>1. /\ UNCHANGED <<rec, intents, snaps>> /\ store' # "loading" /\ store # "loading"
      /\ snaps \in Nat /\ rec \in TaskRecord \cup {Absent} /\ intents \in IntentSet
      /\ Present(rec) => GoodTask(rec) /\ rec.out.snap <= snaps
  BY DEF SaveStarts, SaveRenames, SaveSyncs, SnapshotsInv, TaskInv
<1>2. TaskInv' /\ SnapshotStep
  BY <1>1 DEF SnapshotsInv, TaskInv, SnapshotStep
<1>3. /\ vol = Disk(vol.made, vol.file) /\ dur = Disk(dur.made, dur.file)
      /\ vol.made \in BOOLEAN /\ dur.made \in BOOLEAN
      /\ Known(vol.file, snaps) /\ Known(dur.file, snaps)
  BY DEF SnapshotsInv, FilesInv
<1>4. GoodFile(file) /\ Known(file, snaps) /\ Present(file)
  <2>1. /\ file \in FileRecord /\ Present(file)
        /\ ~Present(rec) => file.task = Absent
        /\ Present(rec) => file.task.out.snap = rec.out.snap
    BY <1>1, EncodedFile
  <2>2. GoodFile(file)
    BY <1>1, <2>1 DEF GoodFile
  <2> HIDE DEF file
  <2> QED BY <1>1, <2>1, <2>2 DEF Known, Present
<1> HIDE DEF file
<1>5. CASE SaveStarts
  <2>1. /\ store' = "saving" /\ pending' = pending \cup SyncChain /\ vol' = [vol EXCEPT !.made = TRUE]
        /\ UNCHANGED <<dur, acked>>
    BY <1>5 DEF SaveStarts, Remembered
  <2>2. vol'.made /\ vol'.made \in BOOLEAN /\ vol'.file = vol.file /\ vol' = Disk(vol'.made, vol'.file)
    BY <1>3, <2>1 DEF Disk
  <2>3. FilesInv'
    BY <1>1, <1>3, <2>1, <2>2 DEF FilesInv
  <2>4. SyncInv'
    <3>1. /\ "dir" \in SyncChain /\ SyncChain \subseteq {"dir", "parent"}
          /\ "parent" \notin SyncChain => vol.made
      BY DEF SyncChain
    <3>2. "parent" \notin pending' => dur'.made = vol'.made
      BY <1>3, <2>1, <2>2, <3>1 DEF SnapshotsInv, SyncInv
    <3> QED BY <2>1, <2>2, <3>1, <3>2 DEF SnapshotsInv, SyncInv
  <2>5. AckedInv'
    BY <2>1, <2>2 DEF SnapshotsInv, AckedInv
  <2> QED BY <1>2, <2>3, <2>4, <2>5 DEF SnapshotsInv
<1>6. CASE SaveRenames
  <2>1. /\ store = "saving" /\ store' = "renamed" /\ vol' = [vol EXCEPT !.file = file]
        /\ acked' = (IF acked = {} THEN {} ELSE acked \cup {file.of})
        /\ UNCHANGED <<pending, dur>>
    BY <1>6 DEF SaveRenames, file
  <2>2. vol'.made = vol.made /\ vol'.file = file /\ vol' = Disk(vol'.made, vol'.file)
    BY <1>3, <2>1 DEF Disk
  <2>3. FilesInv'
    BY <1>1, <1>3, <1>4, <2>1, <2>2 DEF FilesInv
  <2>4. SyncInv'
    <3>1. file = Encoded(rec', intents')
      BY <1>1 DEF file
    <3> QED BY <2>1, <2>2, <3>1 DEF SnapshotsInv, SyncInv
  <2>5. AckedInv'
    BY <1>4, <2>1, <2>2 DEF SnapshotsInv, AckedInv
  <2> QED BY <1>2, <2>3, <2>4, <2>5 DEF SnapshotsInv
<1>7. CASE \E done \in SUBSET {"dir", "parent"} : SaveSyncs(done)
  <2>1. PICK done \in SUBSET {"dir", "parent"} : SaveSyncs(done)
    BY <1>7
  <2>2. /\ store = "renamed" /\ store' = "ready" /\ UNCHANGED vol
        /\ vol.file = file /\ vol.made /\ "dir" \in pending /\ pending \subseteq {"dir", "parent"}
        /\ "parent" \notin pending => dur.made = vol.made
        /\ done \subseteq pending
    BY <2>1 DEF SaveSyncs, SnapshotsInv, SyncInv, file
  <2>3. /\ dur'.made = (IF "parent" \in done THEN vol.made ELSE dur.made)
        /\ dur'.file = (IF "dir" \in done THEN vol.file ELSE dur.file)
        /\ dur' = Disk(dur'.made, dur'.file)
    <3>1. /\ Synced(dur, "parent").made = vol.made
          /\ Synced(dur, "dir").file = vol.file
      BY <1>3 DEF Synced, Disk
    <3> QED BY <2>1, <3>1, DiskFields DEF SaveSyncs
  <2>4. \/ pending' = {} /\ acked' = {file.of} /\ done = pending
        \/ UNCHANGED <<pending, acked>>
    BY <2>1 DEF SaveSyncs, file
  <2>5. FilesInv'
    BY <1>1, <1>3, <2>2, <2>3 DEF FilesInv
  <2>6. SyncInv'
    BY <2>2, <2>3, <2>4 DEF SyncInv
  <2>7. AckedInv'
    <3>1. CASE acked' = {file.of} /\ done = pending
      <4>1. dur'.file = file /\ vol'.file = file /\ vol'.made
        BY <2>2, <2>3, <3>1
      <4>2. dur'.made
        BY <2>2, <2>3, <3>1
      <4> QED BY <1>4, <3>1, <4>1, <4>2 DEF AckedInv
    <3>2. CASE UNCHANGED acked
      <4>1. acked # {} => /\ dur.made /\ Present(dur.file) /\ vol.file.of \in acked /\ dur.file.of \in acked
        BY DEF SnapshotsInv, AckedInv
      <4>2. acked # {} => /\ dur'.made /\ Present(dur'.file) /\ dur'.file.of \in acked
        BY <1>4, <2>2, <2>3, <4>1
      <4> QED BY <1>4, <2>2, <3>2, <4>1, <4>2 DEF AckedInv
    <3> QED BY <2>4, <3>1, <3>2
  <2> QED BY <1>2, <2>5, <2>6, <2>7 DEF SnapshotsInv
<1> QED BY <1>5, <1>6, <1>7
-----------------------------------------------------------------------------
(* The theorems.                                                            *)

\* Every step keeps the invariant, and keeps what snapshots stand for.
LEMMA StepHolds ==
    ASSUME SnapshotsInv, [SnapshotsNext]_snapshotsVars
    PROVE  SnapshotsInv' /\ (SnapshotsNext => SnapshotStep)
<1>1. CASE UNCHANGED snapshotsVars
  <2>1. SnapshotsInv'
    BY <1>1 DEF snapshotsVars, SnapshotsInv, TaskInv, FilesInv, SyncInv, AckedInv
  <2>2. SnapshotStep
    BY <1>1 DEF snapshotsVars, SnapshotStep
  <2> QED BY <2>1, <2>2
<1>2. CASE SnapshotsNext
  <2>1. CASE Load
    BY <2>1, LoadKeeps
  <2>2. CASE Crash
    BY <2>2, CrashKeeps
  <2>3. CASE Retire \/ Delete("library", "lib") \/ \E id \in {"a", "b"} : Delete("playback", id)
    BY <2>3, LossKeeps
  <2>4. CASE SaveStarts \/ SaveRenames \/ \E done \in SUBSET {"dir", "parent"} : SaveSyncs(done)
    BY <2>4, SavesKeep
  <2>5. CASE \E v2 \in BOOLEAN, parts \in TaskItems : Create(v2, parts)
    BY <2>5, CreateKeeps
  <2>6. CASE \E i \in {1, 2}, st \in {"ok", "fail"} : ItemProgress(i, st)
    BY <2>6, ProgressKeeps
  <2>7. CASE \E results \in PublishedResults, preferred \in {"a", "b", "none"} : PublishOutput(results, preferred)
    BY <2>7, OutputPublishKeeps
  <2>8. CASE (\E own \in BOOLEAN : RemoveTask({<<"file", own>>})) \/ \E i \in intents : CleanedUp(i)
    BY <2>8, RemovalKeeps
  <2> QED BY <1>2, <2>1, <2>2, <2>3, <2>4, <2>5, <2>6, <2>7, <2>8 DEF SnapshotsNext
<1> QED BY <1>1, <1>2

\* What the invariant says of saved states and of outputs.
LEMMA SavedStates ==
    ASSUME SnapshotsInv
    PROVE  SavedStateSurvives
<1>1. OutputsAreSound
  BY DEF SnapshotsInv, TaskInv, GoodTask, GoodOutput, OutputsAreSound
<1>2. SavedIsRestored
  <2>1. Serializable(rec)
    BY DEF SnapshotsInv, TaskInv, GoodTask, Serializable
  <2>2. ASSUME Present(vol.file), vol.file.schema = Schema
        PROVE  /\ Loads(vol.file) /\ Restored(vol.file, 0) = vol.file.of.rec
               /\ vol.file.pend = vol.file.of.intents
    <3>1. vol.file \notin Legacy
      BY <2>2, OlderVersions
    <3>2. GoodFile(vol.file)
      BY <2>2 DEF SnapshotsInv, FilesInv, Known
    <3>3. PICK task \in TaskRecord \cup {Absent}, pend \in IntentSet :
             (Present(task) => GoodTask(task)) /\ vol.file = Encoded(task, pend)
      BY <3>1, <3>2 DEF GoodFile
    <3>4. Loads(vol.file) /\ Restored(vol.file, 0) = task
      BY <3>3, EncodedLoads
    <3>5. vol.file.pend = pend /\ vol.file.of.rec = task /\ vol.file.of.intents = pend
      BY <3>3, EncodedFile
    <3> QED BY <3>4, <3>5
  <2> QED BY <2>1, <2>2 DEF SavedIsRestored
<1>3. DurableSurvives
  <2> SUFFICES ASSUME acked # {}, NEW d \in AfterCrash PROVE Present(d.file) /\ d.file.of \in acked
    BY DEF DurableSurvives
  <2>1. PICK m \in {vol.made, dur.made}, f \in {vol.file, dur.file} : d = Disk(m, IF m THEN f ELSE Absent)
    BY DEF AfterCrash
  <2>2. m /\ Present(f) /\ f.of \in acked
    BY DEF SnapshotsInv, AckedInv
  <2>3. d.file = f
    BY <2>1, <2>2, DiskFields
  <2> QED BY <2>2, <2>3
<1> QED BY <1>1, <1>2, <1>3 DEF SavedStateSurvives

\* The invariant is inductive (the task registry's handlers, and its store).
THEOREM SnapshotsInvariant == SnapshotsSpec => []SnapshotsInv
<1>1. SnapshotsInv /\ [SnapshotsNext]_snapshotsVars => SnapshotsInv'
  BY StepHolds
<1> QED BY <1>1, InitHolds, PTL DEF SnapshotsSpec

\* What the server saved it can load and gets back as it was, from any file of
\* an older version on, and through any crash and any failing syncs; what it
\* reported as durable survives them (save_with_file_cleanup_intents).
THEOREM SavedStateHolds == SnapshotsSpec => []SavedStateSurvives
<1>1. SnapshotsInv => SavedStateSurvives
  BY SavedStates
<1> QED BY <1>1, SnapshotsInvariant, PTL

\* A snapshot id stands for one output of a task for as long as the task is
\* there, and every other output has a larger revision
\* (replace_with_primary_result, reconcile_task_output_locked).
THEOREM SnapshotsHold == SnapshotsSpec => SnapshotsAreSound
<1>1. SnapshotsInv /\ [SnapshotsNext]_snapshotsVars => [SnapshotStep]_snapshotsVars
  BY StepHolds
<1> QED BY <1>1, SnapshotsInvariant, PTL DEF SnapshotsSpec, SnapshotsAreSound

-----------------------------------------------------------------------------
(* Routing: the inductive invariant. *)

RouteResult ==
    [st : {"none", "err", "ok"}, route : Hosts \cup {"none", "official", "unrouted"},
     id : {"none"} \cup Answers]

PlanRecord ==
    [pc : {"idle", "config", "loading", "permit", "done"} \cup Routing,
     input : {"episode", "season"}, rev : Nat, hosts : SUBSET Hosts,
     off : {"pending"} \cup Answers, meta : BOOLEAN, area : {"cn", "hk"}, affine : BOOLEAN,
     list : Seq(Hosts), due : SUBSET Hosts, up : SUBSET Hosts,
     proxy : {"none", "pending", "same", "lost"}, result : RouteResult]

RouteRecord == [host : Hosts, area : {"cn", "hk"}]

RoutingTypes ==
    /\ settings \in [hosts : SUBSET Hosts, rev : Nat]
    /\ memory \in RouteRecord \cup {Unset} /\ remembered \in RouteRecord \cup {Unset}
    /\ plan \in [Plans -> PlanRecord]

\* What the routed part of a plan relies on: the hosts it may use are those of
\* its revision of the settings, its list is of hosts that serve its area and,
\* once the probes are done, that were found reachable; a proxy that trains the
\* route memory, or that is asked after the race, follows a restriction.
Probing == {"probe", "await", "race", "proxies", "train"}
Chosen == Probing \ {"probe"}

Serves(f) == {h \in f.hosts : h \in AllHosts \/ f.area = "hk"}

Sound(f, current) ==
    /\ f.rev <= current.rev
    /\ f.pc \in Routing \cup {"permit"} /\ f.rev = current.rev => f.hosts = current.hosts
    /\ f.pc = "probe" => \E T \in SUBSET Serves(f) : Lists(f.list, T)
    /\ f.pc \in Chosen => f.list \in Seq(Serves(f))
    /\ f.pc \in Chosen => f.list \in Seq(f.up)
    /\ f.pc \in {"race", "train"} => f.list # << >>
    /\ f.pc = "race" => f.proxy \in {"pending", "lost"}
    /\ f.pc \in {"proxies", "train"} => f.off = "region"

RoutingInv == RoutingTypes /\ \A p \in Plans : Sound(plan[p], settings)
-----------------------------------------------------------------------------
\* What probe_candidates lists are hosts that it may ask, each of them once.
LEMMA ListsHosts ==
    ASSUME HostNames, NEW S, IsFiniteSet(S), NEW s \in HostRankings(S), NEW h
    PROVE  \E T \in SUBSET S : Lists(Bounded(PreferredFirst(s, h)), T)
<1> DEFINE q == PreferredFirst(s, h)
           R == {s[i] : i \in DOMAIN s}
           n == IF Len(q) < MaxRouted THEN Len(q) ELSE MaxRouted
<1>1. s \in [1..Cardinality(S) -> S] /\ Cardinality(S) \in Nat
      /\ \A i, j \in 1..Cardinality(S) : i # j => s[i] # s[j]
  BY FS_CardinalityType DEF HostRankings, SetToSeqs
<1>2. DOMAIN s = 1..Cardinality(S) /\ Len(s) = Cardinality(S) /\ s \in Seq(S)
  <2> DEFINE c == Cardinality(S)
  <2>1. s \in [1..c -> S] /\ c \in Nat
    BY <1>1
  <2> HIDE DEF c
  <2>2. s \in Seq(S) /\ DOMAIN s = 1..c /\ Len(s) = c
    BY <2>1
  <2> QED BY <2>2 DEF c
<1>3. Lists(s, R) /\ R \in SUBSET S
  <2>1. s \in [1..Len(s) -> R]
    BY <1>1, <1>2
  <2>2. s \in Seq(R)
    BY <1>1, <1>2, <2>1
  <2>3. \A i, j \in 1..Len(s) : s[i] = s[j] => i = j
    BY <1>1, <1>2
  <2>4. \A t : t \in R <=> \E i \in 1..Len(s) : s[i] = t
    BY <1>2
  <2>5. R \in SUBSET S
    BY <1>1
  <2> HIDE DEF R
  <2> QED BY <2>2, <2>3, <2>4, <2>5 DEF Lists
<1> HIDE DEF R
<1>4. Lists(q, R)
  <2>1. CASE h \in Range(s)
    <3>1. h \in R
      BY <2>1 DEF Range, R
    <3>2. Lists(<<h>>, {h})
      BY DEF Lists
    <3>3. Lists(Without(s, {h}), R \ {h})
      BY <1>3, WithoutLists
    <3>4. Lists(<<h>> \o Without(s, {h}), {h} \cup (R \ {h}))
      BY <3>2, <3>3, ConcatLists
    <3>5. {h} \cup (R \ {h}) = R
      BY <3>1
    <3> QED BY <2>1, <3>4, <3>5 DEF PreferredFirst
  <2>2. CASE h \notin Range(s)
    BY <1>3, <2>2 DEF PreferredFirst
  <2> QED BY <2>1, <2>2
<1>5. q \in Seq(S) /\ Len(q) \in Nat /\ \A i, j \in 1..Len(q) : q[i] = q[j] => i = j
  BY <1>3, <1>4, SeqGrows DEF Lists
<1>6. n \in 0..Len(q) /\ 1 \in 1..(Len(q) + 1)
  BY <1>5 DEF HostNames
<1>7. Lists(SubSeq(q, 1, n), {q[i] : i \in 1..n})
  <2> HIDE DEF q, n
  <2> QED BY <1>5, <1>6, PartLists
<1>8. \A i \in 1..n : q[i] \in S
  <2> HIDE DEF q
  <2> QED BY <1>5, <1>6
<1>9. {q[i] : i \in 1..n} \in SUBSET S
  BY <1>8
<1> QED BY <1>7, <1>9 DEF Bounded

\* The entries that probes found reachable, in their order.
LEMMA KeptServes ==
    ASSUME NEW q, NEW S, NEW T \in SUBSET S, Lists(q, T), NEW K
    PROVE  Kept(q, K) \in Seq(S) /\ Kept(q, K) \in Seq(K)
<1>1. Kept(q, K) \in Seq(T \cap K)
  BY KeptLists DEF Lists
<1> QED BY <1>1, SeqGrows, T \cap K \subseteq S, T \cap K \subseteq K

\* What is left when the first proxy has been tried.
LEMMA TailServes ==
    ASSUME NEW S, NEW q \in Seq(S), q # << >>
    PROVE  Tail(q) \in Seq(S) /\ Head(q) \in S
  OBVIOUS
-----------------------------------------------------------------------------
(* The two kinds of step of a plan: it goes on, or it ends.                 *)

\* What a result of a plan must be.
Allowed(p, r) ==
    /\ r.route \in Hosts =>
          /\ r.route \in settings.hosts \cap plan[p].up
          /\ r.route \in AllHosts \/ plan[p].area = "hk"
          /\ r.id = "same"
    /\ r.route = "official" => r.id = "same" \/ (plan[p].input = "episode" /\ r.id = "epid")

\* A plan that changes and does not end well keeps the invariant.
LEMMA SetStep ==
    ASSUME RoutingInv, NEW p \in Plans, NEW f \in PlanRecord, Set(p, f), Sound(f, settings),
           plan[p].pc = "done" \/ f.pc # "done" \/ f.result.st # "ok",
           UNCHANGED <<settings, memory, remembered>>
    PROVE  RoutingInv' /\ HonestStep
<1>1. /\ plan' \in [Plans -> PlanRecord]
      /\ plan'[p] = f /\ \A q \in Plans : q # p => plan'[q] = plan[q]
  BY DEF Set, RoutingInv, RoutingTypes
<1>2. \A q \in Plans : Sound(plan'[q], settings)
  BY <1>1 DEF RoutingInv
<1>3. RoutingInv'
  BY <1>1, <1>2 DEF RoutingInv, RoutingTypes, Sound, Serves
<1>4. HonestStep
  BY <1>1 DEF HonestStep, Ends
<1> QED BY <1>3, <1>4

\* A plan that ends with a result that it may have, and trains the memory only
\* after a restriction, keeps the invariant and is honest.
LEMMA EndStep ==
    ASSUME RoutingInv, NEW p \in Plans, NEW r \in RouteResult, End(p, r), plan[p].pc # "done",
           StillWanted(p) /\ r.st = "ok" => Allowed(p, r), UNCHANGED settings,
           memory' = memory \/ plan[p].off = "region",
           memory' \in RouteRecord \cup {Unset}, remembered' \in RouteRecord \cup {Unset}
    PROVE  RoutingInv' /\ HonestStep
<1> DEFINE s == IF StillWanted(p) THEN r ELSE Failed
           f == [plan[p] EXCEPT !.pc = "done", !.result = s]
<1>1. plan[p] \in PlanRecord /\ s \in RouteResult
  BY DEF RoutingInv, RoutingTypes, Failed, NoResult, RouteResult
<1>2. f \in PlanRecord /\ f.rev = plan[p].rev /\ f.pc = "done" /\ f.result = s
  <2> HIDE DEF s
  <2> QED BY <1>1 DEF PlanRecord, Routing
<1>3. /\ plan' \in [Plans -> PlanRecord]
      /\ plan'[p] = f /\ \A q \in Plans : q # p => plan'[q] = plan[q]
  <2>1. plan' = [plan EXCEPT ![p] = f]
    BY DEF End, Set
  <2> HIDE DEF f
  <2> QED BY <1>2, <2>1 DEF RoutingInv, RoutingTypes
<1>4. RoutingInv'
  <2>1. Sound(f, settings)
    BY <1>2 DEF Sound, RoutingInv, Routing, Probing, Chosen
  <2> HIDE DEF f
  <2>2. \A q \in Plans : Sound(plan'[q], settings)
    BY <1>3, <2>1 DEF RoutingInv
  <2> QED BY <1>3, <2>2 DEF RoutingInv, RoutingTypes, Sound, Serves
<1>5. s.st = "ok" => s = r /\ p \notin cancelled /\ Allowed(p, r)
  BY DEF StillWanted, Failed, NoResult
<1>6. HonestStep
  <2>1. ASSUME NEW q \in Plans, Ends(q)
        PROVE  /\ q \notin cancelled /\ Allowed(q, plan'[q].result)
    <3>1. q = p
      BY <1>3, <2>1 DEF Ends
    <3>2. plan'[p].result = s
      <4> HIDE DEF f
      <4> QED BY <1>2, <1>3
    <3> HIDE DEF s
    <3> QED BY <1>5, <2>1, <3>1, <3>2 DEF Ends
  <2>2. plan'[p].pc = "done"
    <3> HIDE DEF f
    <3> QED BY <1>2, <1>3
  <2> QED BY <2>1, <2>2 DEF HonestStep, Allowed
<1> QED BY <1>4, <1>6

\* Nothing happens to the plans, or to one that ended.
LEMMA QuietStep ==
    ASSUME RoutingInv, UNCHANGED plan, memory' = Unset \/ memory' = memory
    PROVE  HonestStep
  BY DEF HonestStep, Ends
-----------------------------------------------------------------------------
(* Up to the route.                                                         *)

\* An update of the settings, and what happens to the health of the hosts, the
\* route memory and the cancellations.
LEMMA SettingsKeep ==
    ASSUME RoutingInv
    PROVE  /\ \A H \in SUBSET Hosts : UpdateSettings(H) => RoutingInv' /\ HonestStep
           /\ \A h \in Hosts : HealthAges(h) => RoutingInv' /\ HonestStep
           /\ ForgetRoute => RoutingInv' /\ HonestStep
           /\ \A p \in Plans : Cancel(p) => RoutingInv' /\ HonestStep
<1>1. ASSUME NEW H \in SUBSET Hosts, UpdateSettings(H) PROVE RoutingInv' /\ HonestStep
  <2>1. /\ settings' \in [hosts : SUBSET Hosts, rev : Nat] /\ settings'.rev > settings.rev
        /\ UNCHANGED <<plan, memory, remembered>>
    BY <1>1 DEF UpdateSettings, RoutingInv, RoutingTypes
  <2>2. ASSUME NEW p \in Plans PROVE Sound(plan[p], settings')
    <3>1. Sound(plan[p], settings) /\ plan[p].rev \in Nat /\ settings.rev \in Nat /\ settings'.rev \in Nat
      BY <2>1 DEF RoutingInv, RoutingTypes, PlanRecord
    <3> QED BY <2>1, <3>1 DEF Sound
  <2>3. RoutingInv'
    BY <2>1, <2>2 DEF RoutingInv, RoutingTypes
  <2> QED BY <2>1, <2>3, QuietStep
<1>2. ASSUME UNCHANGED <<plan, settings, remembered>>, memory' = Unset \/ memory' = memory
      PROVE RoutingInv' /\ HonestStep
  BY <1>2, QuietStep DEF RoutingInv, RoutingTypes, Sound, Serves
<1> QED BY <1>1, <1>2 DEF HealthAges, ForgetRoute, Cancel, shared

\* Plans that are gone.
LEMMA GonePlansKeep ==
    ASSUME RoutingInv
    PROVE  /\ \A p \in Plans : Return(p) => RoutingInv' /\ HonestStep
           /\ Restart => RoutingInv' /\ HonestStep
<1>1. NoPlan \in PlanRecord /\ NoPlan.pc = "idle" /\ Sound(NoPlan, settings)
  BY DEF NoPlan, PlanRecord, NoResult, RouteResult, Answers, Routing, Sound, RoutingInv, RoutingTypes,
         Probing, Chosen
<1>2. ASSUME NEW p \in Plans, Return(p) PROVE RoutingInv' /\ HonestStep
  BY <1>1, <1>2, SetStep DEF Return, Set, shared
<1>3. ASSUME Restart PROVE RoutingInv' /\ HonestStep
  <2>1. /\ UNCHANGED <<settings, remembered>> /\ memory' = remembered
        /\ plan' = [p \in Plans |-> NoPlan]
    BY <1>3 DEF Restart
  <2>2. \A p \in Plans : plan'[p] = NoPlan
    BY <2>1
  <2>3. \A p \in Plans : Sound(plan'[p], settings)
    BY <1>1, <2>2
  <2>4. RoutingInv'
    BY <1>1, <2>1, <2>3 DEF RoutingInv, RoutingTypes, Sound, Serves
  <2>5. HonestStep
    BY <1>1, <2>1, <2>2 DEF HonestStep, Ends
  <2> QED BY <2>4, <2>5
<1> QED BY <1>2, <1>3

\* Before the route: the plan is accepted, its credentials are loaded and it
\* gets its permit.
LEMMA BeginKeeps ==
    ASSUME RoutingInv, NEW p \in Plans,
           \/ \E input \in {"episode", "season"} : StartPlan(p, input)
           \/ LoadCredentials(p) \/ CredentialsBusy(p) \/ Loaded(p) \/ AcquireRoutePermit(p)
    PROVE  RoutingInv' /\ HonestStep
<1>1. /\ plan[p] \in PlanRecord /\ Sound(plan[p], settings)
      /\ settings \in [hosts : SUBSET Hosts, rev : Nat] /\ Failed \in RouteResult /\ Failed.st # "ok"
  BY DEF RoutingInv, RoutingTypes, Failed, NoResult, RouteResult
<1>2. ASSUME NEW f \in PlanRecord, Set(p, f), UNCHANGED shared, f.rev <= settings.rev,
             f.pc \in {"config", "loading", "done"} \/ (f.pc \in {"permit", "initial"} /\ Sound(f, settings)),
             f.pc = "done" => f.result.st # "ok"
      PROVE  RoutingInv' /\ HonestStep
  <2>1. Sound(f, settings)
    BY <1>2 DEF Sound, Routing, Probing, Chosen
  <2> QED BY <1>2, <2>1, SetStep DEF shared
<1>3. CASE \E input \in {"episode", "season"} : StartPlan(p, input)
  <2>1. PICK input \in {"episode", "season"} : StartPlan(p, input)
    BY <1>3
  <2> DEFINE f == [NoPlan EXCEPT !.pc = "config", !.input = input]
  <2>2. f \in PlanRecord /\ f.rev = 0 /\ f.pc = "config"
    <3>1. NoPlan \in PlanRecord /\ NoPlan.rev = 0
      BY DEF NoPlan, PlanRecord, NoResult, RouteResult, Answers
    <3> QED BY <3>1 DEF PlanRecord
  <2>3. Set(p, f) /\ UNCHANGED shared
    BY <2>1 DEF StartPlan
  <2> HIDE DEF f
  <2> QED BY <1>1, <1>2, <2>2, <2>3
<1>4. CASE LoadCredentials(p)
  <2> DEFINE f == [plan[p] EXCEPT !.pc = "loading"]
  <2>1. f \in PlanRecord /\ f.rev = plan[p].rev /\ f.pc = "loading"
    BY <1>1 DEF PlanRecord
  <2>2. Set(p, f) /\ UNCHANGED shared
    BY <1>4 DEF LoadCredentials
  <2> HIDE DEF f
  <2> QED BY <1>1, <1>2, <2>1, <2>2 DEF Sound
<1>5. CASE CredentialsBusy(p) \/ (Loaded(p) /\ Set(p, [plan[p] EXCEPT !.pc = "done", !.result = Failed]))
  <2> DEFINE f == [plan[p] EXCEPT !.pc = "done", !.result = Failed]
  <2>1. f \in PlanRecord /\ f.rev = plan[p].rev /\ f.pc = "done" /\ f.result = Failed
    BY <1>1 DEF PlanRecord
  <2>2. Set(p, f) /\ UNCHANGED shared
    BY <1>5 DEF CredentialsBusy, Loaded
  <2> HIDE DEF f
  <2> QED BY <1>1, <1>2, <2>1, <2>2 DEF Sound
<1>6. CASE Loaded(p) /\ UNCHANGED plan
  BY <1>6, SettingsKeep, QuietStep DEF Loaded, shared, RoutingInv, RoutingTypes, Sound, Serves
<1>7. CASE Loaded(p) /\ Set(p, [plan[p] EXCEPT !.pc = "permit", !.rev = settings.rev, !.hosts = settings.hosts])
  <2> DEFINE f == [plan[p] EXCEPT !.pc = "permit", !.rev = settings.rev, !.hosts = settings.hosts]
  <2>1. f \in PlanRecord /\ f.rev = settings.rev /\ f.pc = "permit" /\ f.hosts = settings.hosts
    BY <1>1 DEF PlanRecord
  <2>2. Set(p, f) /\ UNCHANGED shared
    BY <1>7 DEF Loaded
  <2> HIDE DEF f
  <2>3. Sound(f, settings)
    BY <1>1, <2>1 DEF Sound, Probing, Chosen
  <2> QED BY <1>1, <1>2, <2>1, <2>2, <2>3
<1>8. CASE AcquireRoutePermit(p)
  <2> DEFINE f == [plan[p] EXCEPT !.pc = "initial"]
  <2>1. f \in PlanRecord /\ f.rev = plan[p].rev /\ f.pc = "initial" /\ f.hosts = plan[p].hosts
    BY <1>1 DEF PlanRecord, Routing
  <2>2. Set(p, f) /\ UNCHANGED shared /\ plan[p].pc = "permit"
    BY <1>8 DEF AcquireRoutePermit
  <2> HIDE DEF f
  <2>3. Sound(f, settings)
    BY <1>1, <2>1, <2>2 DEF Sound, Probing, Chosen
  <2> QED BY <1>1, <1>2, <2>1, <2>2, <2>3 DEF Sound
<1> QED BY <1>3, <1>4, <1>5, <1>6, <1>7, <1>8 DEF Loaded
-----------------------------------------------------------------------------
(* The route.                                                               *)

\* The results there are.
LEMMA Results ==
    /\ Failed \in RouteResult /\ Failed.st = "err"
    /\ \A route \in Hosts \cup {"official", "unrouted"}, o \in Answers :
          /\ Planned(route, o) \in RouteResult
          /\ Planned(route, o).route = route /\ Planned(route, o).id = o
  BY DEF Failed, NoResult, Planned, RouteResult, Answers

\* A plan that fails.
LEMMA FailStep ==
    ASSUME RoutingInv, NEW p \in Plans, plan[p].pc # "done", End(p, Failed), UNCHANGED shared
    PROVE  RoutingInv' /\ HonestStep
<1>1. UNCHANGED <<settings, memory, remembered>>
  BY DEF shared
<1>2. memory' \in RouteRecord \cup {Unset} /\ remembered' \in RouteRecord \cup {Unset}
  BY <1>1 DEF RoutingInv, RoutingTypes
<1> QED BY <1>1, <1>2, Results, EndStep

\* A plan that ends with what the official route answered.
LEMMA OfficialStep ==
    ASSUME HostNames, RoutingInv, NEW p \in Plans, plan[p].pc # "done", UNCHANGED shared,
           NEW o \in Answers,
           \/ End(p, Planned("official", o)) /\ (o = "same" \/ Trusted(p, o))
           \/ End(p, Planned("unrouted", o))
    PROVE  RoutingInv' /\ HonestStep
<1>1. UNCHANGED <<settings, memory, remembered>>
  BY DEF shared
<1>2. memory' \in RouteRecord \cup {Unset} /\ remembered' \in RouteRecord \cup {Unset}
  BY <1>1 DEF RoutingInv, RoutingTypes
<1>3. CASE End(p, Planned("official", o)) /\ (o = "same" \/ Trusted(p, o))
  <2>1. Allowed(p, Planned("official", o))
    BY <1>3, Results DEF Allowed, Trusted, HostNames
  <2> QED BY <1>1, <1>2, <1>3, <2>1, Results, EndStep
<1>4. CASE End(p, Planned("unrouted", o))
  <2>1. Allowed(p, Planned("unrouted", o))
    BY Results DEF Allowed, HostNames
  <2> QED BY <1>1, <1>2, <1>4, <2>1, Results, EndStep
<1> QED BY <1>3, <1>4

\* A plan that goes on where its invariant holds already: the official answer
\* comes in, or a step is over that needs no more than the next one.
LEMMA GoOnStep ==
    ASSUME RoutingInv, NEW p \in Plans, NEW f \in PlanRecord, Set(p, f), UNCHANGED shared,
           plan[p].pc \in Routing,
           f.pc = "done" => f.result.st # "ok",
           f.rev = plan[p].rev, f.hosts = plan[p].hosts,
           f.pc # "done" =>
              /\ f.pc \in Routing
              /\ f.pc = "probe" => \E T \in SUBSET Serves(f) : Lists(f.list, T)
              /\ f.pc \in Chosen => f.list \in Seq(Serves(f)) /\ f.list \in Seq(f.up)
              /\ f.pc \in {"race", "train"} => f.list # << >>
              /\ f.pc = "race" => f.proxy \in {"pending", "lost"}
              /\ f.pc \in {"proxies", "train"} => f.off = "region"
    PROVE  RoutingInv' /\ HonestStep
<1>1. Sound(f, settings)
  BY DEF RoutingInv, Sound, Routing, Probing, Chosen
<1> QED BY <1>1, SetStep DEF shared, Routing

\* What there is to know of a plan on its route.
LEMMA PlanFacts ==
    ASSUME RoutingInv, NEW p \in Plans
    PROVE  /\ plan[p] \in PlanRecord
           /\ plan[p].pc \in Chosen =>
                 /\ plan[p].list \in Seq(Serves(plan[p])) /\ plan[p].list \in Seq(plan[p].up)
                 /\ plan[p].list \in Seq(Hosts)
           /\ plan[p].pc \in {"race", "train"} => plan[p].list # << >>
           /\ plan[p].pc = "race" => plan[p].proxy \in {"pending", "lost"}
           /\ plan[p].pc \in {"proxies", "train"} => plan[p].off = "region"
  BY DEF RoutingInv, RoutingTypes, Sound, PlanRecord

\* The race of the official route against the first proxy, when one answered.
LEMMA RaceStep ==
    ASSUME RoutingInv, NEW p \in Plans, plan[p].pc = "race", UNCHANGED shared,
           NEW off \in {"pending"} \cup Answers, NEW proxy \in {"pending", "lost"},
           Set(p, RaceOver(p, off, proxy))
    PROVE  RoutingInv' /\ HonestStep
<1>1. /\ plan[p] \in PlanRecord /\ plan[p].list # << >>
      /\ plan[p].list \in Seq(Serves(plan[p])) /\ plan[p].list \in Seq(plan[p].up)
      /\ plan[p].list \in Seq(Hosts)
  BY PlanFacts DEF Chosen, Probing
<1>2. /\ Tail(plan[p].list) \in Seq(Serves(plan[p])) /\ Tail(plan[p].list) \in Seq(plan[p].up)
      /\ Tail(plan[p].list) \in Seq(Hosts)
  BY <1>1, TailServes
<1>3. CASE off = "pending" \/ proxy = "pending"
  <2> DEFINE f == [plan[p] EXCEPT !.off = off, !.proxy = proxy]
  <2>1. /\ f \in PlanRecord /\ f.pc = "race" /\ f.rev = plan[p].rev /\ f.hosts = plan[p].hosts
        /\ f.area = plan[p].area /\ f.list = plan[p].list /\ f.up = plan[p].up
        /\ f.proxy = proxy
    BY <1>1 DEF PlanRecord
  <2>2. Set(p, f)
    BY <1>3 DEF RaceOver
  <2> HIDE DEF f
  <2> QED BY <1>1, <2>1, <2>2, GoOnStep DEF Routing, Serves
<1>4. CASE ~(off = "pending" \/ proxy = "pending") /\ off = "region"
  <2> DEFINE f == [plan[p] EXCEPT !.pc = "proxies", !.off = off, !.list = Tail(@), !.proxy = proxy]
  <2>1. /\ f \in PlanRecord /\ f.pc = "proxies" /\ f.rev = plan[p].rev /\ f.hosts = plan[p].hosts
        /\ f.area = plan[p].area /\ f.list = Tail(plan[p].list) /\ f.up = plan[p].up /\ f.off = "region"
    BY <1>1, <1>2, <1>4 DEF PlanRecord, Routing
  <2>2. Set(p, f)
    BY <1>4 DEF RaceOver
  <2> HIDE DEF f
  <2> QED BY <1>2, <2>1, <2>2, GoOnStep DEF Routing, Serves
<1>5. CASE ~(off = "pending" \/ proxy = "pending") /\ off # "region"
  <2> DEFINE f == [plan[p] EXCEPT !.pc = "done", !.off = off, !.result = Failed]
  <2>1. /\ f \in PlanRecord /\ f.pc = "done" /\ f.rev = plan[p].rev /\ f.hosts = plan[p].hosts
        /\ f.result = Failed
    BY <1>1, Results DEF PlanRecord
  <2>2. Set(p, f)
    BY <1>5 DEF RaceOver
  <2> HIDE DEF f
  <2> QED BY <2>1, <2>2, Results, GoOnStep DEF Routing
<1> QED BY <1>3, <1>4, <1>5

\* Every answer of the official route.
LEMMA OfficialAnswersKeep ==
    ASSUME HostNames, RoutingInv, NEW p \in Plans, NEW o \in Answers, OfficialAnswers(p, o)
    PROVE  RoutingInv' /\ HonestStep
<1>1. plan[p] \in PlanRecord /\ plan[p].off = "pending" /\ UNCHANGED shared
  BY PlanFacts DEF OfficialAnswers
<1>2. \A c \in {"region"} \cup Answers : LET f == [plan[p] EXCEPT !.off = c] IN
         /\ f \in PlanRecord /\ f.pc = plan[p].pc /\ f.rev = plan[p].rev /\ f.hosts = plan[p].hosts
         /\ f.area = plan[p].area /\ f.list = plan[p].list /\ f.up = plan[p].up
  BY <1>1 DEF PlanRecord, Answers
<1>3. ASSUME NEW c \in Answers, plan[p].pc \in {"initial", "probe"}, Set(p, [plan[p] EXCEPT !.off = c])
      PROVE  RoutingInv' /\ HonestStep
  <2> DEFINE f == [plan[p] EXCEPT !.off = c]
  <2>1. /\ f \in PlanRecord /\ f.pc = plan[p].pc /\ f.rev = plan[p].rev /\ f.hosts = plan[p].hosts
        /\ f.area = plan[p].area /\ f.list = plan[p].list /\ f.up = plan[p].up /\ Set(p, f)
    BY <1>2, <1>3
  <2>2. Serves(f) = Serves(plan[p])
    BY <2>1 DEF Serves
  <2>3. plan[p].pc = "probe" => \E T \in SUBSET Serves(plan[p]) : Lists(plan[p].list, T)
    BY DEF RoutingInv, Sound
  <2> HIDE DEF f
  <2> QED BY <1>1, <1>3, <2>1, <2>2, <2>3, GoOnStep DEF Routing, Chosen, Probing
<1>4. CASE plan[p].pc = "initial"
  <2>1. CASE Trusted(p, o) /\ End(p, Planned("official", o))
    BY <1>1, <1>4, <2>1, OfficialStep
  <2>2. CASE Set(p, [plan[p] EXCEPT !.off = o])
    BY <1>3, <1>4, <2>2
  <2> QED BY <1>4, <2>1, <2>2 DEF OfficialAnswers
<1>5. CASE plan[p].pc = "probe"
  <2>1. CASE o = "same" /\ End(p, Planned("official", o))
    BY <1>1, <1>5, <2>1, OfficialStep
  <2>2. CASE End(p, Failed)
    BY <1>1, <1>5, <2>2, FailStep
  <2>3. CASE Set(p, [plan[p] EXCEPT !.off = Checked(o)])
    BY <1>3, <1>5, <2>3 DEF Checked, Answers
  <2> QED BY <1>5, <2>1, <2>2, <2>3 DEF OfficialAnswers
<1>6. CASE plan[p].pc = "await"
  <2>1. CASE o = "same" /\ End(p, Planned("official", o))
    BY <1>1, <1>6, <2>1, OfficialStep
  <2>2. CASE End(p, Failed)
    BY <1>1, <1>6, <2>2, FailStep
  <2>3. CASE o = "region" /\ Set(p, [plan[p] EXCEPT !.off = o, !.pc = "proxies"])
    <3> DEFINE f == [plan[p] EXCEPT !.off = o, !.pc = "proxies"]
    <3>1. /\ f \in PlanRecord /\ f.pc = "proxies" /\ f.rev = plan[p].rev /\ f.hosts = plan[p].hosts
          /\ f.area = plan[p].area /\ f.list = plan[p].list /\ f.up = plan[p].up /\ f.off = "region"
      BY <1>1, <2>3 DEF PlanRecord, Routing
    <3>2. plan[p].list \in Seq(Serves(plan[p])) /\ plan[p].list \in Seq(plan[p].up)
      BY <1>6, PlanFacts DEF Chosen, Probing
    <3>3. Serves(f) = Serves(plan[p])
      BY <3>1 DEF Serves
    <3>4. Set(p, f)
      BY <2>3
    <3> HIDE DEF f
    <3> QED BY <1>1, <1>6, <3>1, <3>2, <3>3, <3>4, GoOnStep DEF Routing
  <2> QED BY <1>6, <2>1, <2>2, <2>3 DEF OfficialAnswers
<1>7. CASE plan[p].pc = "race"
  <2>1. CASE o = "same" /\ End(p, Planned("official", o))
    BY <1>1, <1>7, <2>1, OfficialStep
  <2>2. CASE o # "same" /\ Set(p, RaceOver(p, o, plan[p].proxy))
    <3>1. plan[p].proxy \in {"pending", "lost"}
      BY <1>7, PlanFacts
    <3> QED BY <1>1, <1>7, <2>2, <3>1, RaceStep
  <2> QED BY <1>7, <2>1, <2>2 DEF OfficialAnswers
<1> QED BY <1>4, <1>5, <1>6, <1>7 DEF OfficialAnswers

\* The metadata, with the answers that decide when there is none.
LEMMA MetadataKeeps ==
    ASSUME HostNames, RoutingInv, NEW p \in Plans,
           \/ MetadataFails(p)
           \/ \E o \in Answers : OfficialDecides(p, o) \/ NoRoute(p, o)
    PROVE  RoutingInv' /\ HonestStep
<1>1. plan[p] \in PlanRecord /\ plan[p].pc = "initial" /\ UNCHANGED shared
  BY PlanFacts DEF MetadataFails, OfficialDecides, NoRoute
<1>2. CASE End(p, Failed)
  BY <1>1, <1>2, FailStep
<1>3. CASE \E o \in Answers : \/ Trusted(p, o) /\ End(p, Planned("official", o))
                              \/ End(p, Planned("unrouted", o))
  BY <1>1, <1>3, OfficialStep
<1>4. CASE Set(p, [plan[p] EXCEPT !.meta = TRUE])
  <2> DEFINE f == [plan[p] EXCEPT !.meta = TRUE]
  <2>1. f \in PlanRecord /\ f.pc = "initial" /\ f.rev = plan[p].rev /\ f.hosts = plan[p].hosts
    BY <1>1 DEF PlanRecord, Routing
  <2>2. Set(p, f)
    BY <1>4
  <2> HIDE DEF f
  <2> QED BY <1>1, <2>1, <2>2, GoOnStep DEF Routing, Chosen, Probing
<1> QED BY <1>2, <1>3, <1>4 DEF MetadataFails, OfficialDecides, NoRoute

\* The candidates of the area are listed.
LEMMA MetadataReadyKeeps ==
    ASSUME HostNames, RoutingInv, NEW p \in Plans, NEW hint \in {Unset, "hk"}, MetadataReady(p, hint)
    PROVE  RoutingInv' /\ HonestStep
<1> DEFINE area == TargetArea(hint)
           affine == hint # Unset \/ memory # Unset
           S == Eligible(p, area)
           front == IF memory # Unset THEN memory.host ELSE Unset
           Listed(s) == Bounded(PreferredFirst(s, front))
           Next1(s) == [plan[p] EXCEPT !.pc = "probe", !.off = Checked(@), !.area = area,
                           !.affine = affine, !.list = Listed(s),
                           !.up = {h \in Range(Listed(s)) : RecentlyHealthy(h)},
                           !.due = {h \in Range(Listed(s)) : ProbeDue(h)}]
<1>1. plan[p] \in PlanRecord /\ plan[p].pc = "initial" /\ UNCHANGED shared
  BY PlanFacts DEF MetadataReady
<1>2. \/ End(p, Planned("official", "same")) \/ End(p, Failed)
      \/ \E s \in HostRankings(S) : Set(p, Next1(s))
  BY DEF MetadataReady
<1>3. CASE End(p, Planned("official", "same"))
  BY <1>1, <1>3, OfficialStep, "same" \in Answers DEF Answers
<1>4. CASE End(p, Failed)
  BY <1>1, <1>4, FailStep
<1>5. CASE \E s \in HostRankings(S) : Set(p, Next1(s))
  <2>1. PICK s \in HostRankings(S) : Set(p, Next1(s))
    BY <1>5
  <2> DEFINE f == Next1(s)
  <2>2. S \in SUBSET Hosts /\ S = {h \in plan[p].hosts : h \in AllHosts \/ area = "hk"}
    BY <1>1 DEF PlanRecord, Eligible
  <2>3. IsFiniteSet(S)
    BY <2>2, FS_Subset DEF HostNames
  <2>4. PICK T \in SUBSET S : Lists(Listed(s), T)
    <3> HIDE DEF S, front
    <3> QED BY <2>3, ListsHosts
  <2>5. Listed(s) \in Seq(Hosts) /\ Range(Listed(s)) \subseteq Hosts
    <3> HIDE DEF Listed, S
    <3>1. Listed(s) \in Seq(T) /\ T \subseteq Hosts
      BY <2>2, <2>4 DEF Lists
    <3>2. Listed(s) \in Seq(Hosts)
      BY <3>1, SeqGrows
    <3> QED BY <3>2 DEF Range
  <2>6. area \in {"cn", "hk"} /\ affine \in BOOLEAN /\ Checked(plan[p].off) \in {"pending"} \cup Answers
    BY <1>1 DEF TargetArea, RoutingInv, RoutingTypes, RouteRecord, PlanRecord, Checked, Answers
  <2>7. /\ {h \in Range(Listed(s)) : RecentlyHealthy(h)} \in SUBSET Hosts
        /\ {h \in Range(Listed(s)) : ProbeDue(h)} \in SUBSET Hosts
    <3> HIDE DEF Listed
    <3> QED BY <2>5
  <2>8. /\ f \in PlanRecord /\ f.pc = "probe" /\ f.rev = plan[p].rev /\ f.hosts = plan[p].hosts
        /\ f.area = area /\ f.list = Listed(s)
    <3> HIDE DEF area, affine, Listed
    <3> QED BY <1>1, <2>5, <2>6, <2>7 DEF PlanRecord, Routing
  <2>9. Serves(f) = S
    <3> HIDE DEF f, area
    <3> QED BY <2>2, <2>8 DEF Serves
  <2>10. Set(p, f)
    BY <2>1
  <2> HIDE DEF f, S, Listed, Next1
  <2> QED BY <1>1, <2>4, <2>8, <2>9, <2>10, GoOnStep DEF Routing, Chosen, Probing
<1> HIDE DEF Next1, S
<1> QED BY <1>2, <1>3, <1>4, <1>5

\* A probe, and the end of the probes.
LEMMA ProbesKeep ==
    ASSUME RoutingInv, NEW p \in Plans
    PROVE  /\ \A h \in Hosts, o \in {"ready", "failure", "neutral"} : Probed(p, h, o) => RoutingInv' /\ HonestStep
           /\ ProbesDone(p) => RoutingInv' /\ HonestStep
<1>1. plan[p] \in PlanRecord /\ plan[p].up \subseteq Hosts
  BY PlanFacts DEF PlanRecord
<1>2. plan[p].pc = "probe" => \E T \in SUBSET Serves(plan[p]) : Lists(plan[p].list, T)
  BY DEF RoutingInv, Sound
<1>3. ASSUME NEW h \in Hosts, NEW o \in {"ready", "failure", "neutral"}, Probed(p, h, o)
      PROVE  RoutingInv' /\ HonestStep
  <2> DEFINE f == [plan[p] EXCEPT !.due = @ \ {h}, !.up = IF o = "ready" THEN @ \cup {h} ELSE @]
  <2>1. plan[p].pc = "probe" /\ Set(p, f) /\ UNCHANGED <<settings, memory, remembered>>
    BY <1>3 DEF Probed
  <2>2. /\ f \in PlanRecord /\ f.pc = "probe" /\ f.rev = plan[p].rev /\ f.hosts = plan[p].hosts
        /\ f.area = plan[p].area /\ f.list = plan[p].list
    <3> DEFINE d == plan[p].due \ {h}
               u == IF o = "ready" THEN plan[p].up \cup {h} ELSE plan[p].up
    <3>1. d \in SUBSET Hosts /\ u \in SUBSET Hosts
      BY <1>1 DEF PlanRecord
    <3>2. f = [plan[p] EXCEPT !.due = d, !.up = u]
      BY <1>1 DEF PlanRecord
    <3> HIDE DEF d, u, f
    <3> QED BY <1>1, <2>1, <3>1, <3>2 DEF PlanRecord
  <2> HIDE DEF f
  <2>3. Serves(f) = Serves(plan[p])
    BY <2>2 DEF Serves
  <2>4. Sound(f, settings)
    BY <1>2, <2>1, <2>2, <2>3 DEF RoutingInv, Sound, Routing, Chosen, Probing
  <2> QED BY <2>1, <2>2, <2>4, SetStep
<1>4. ASSUME ProbesDone(p)
      PROVE  RoutingInv' /\ HonestStep
  <2> DEFINE list == Kept(plan[p].list, plan[p].up)
  <2>1. plan[p].pc = "probe" /\ UNCHANGED shared
    BY <1>4 DEF ProbesDone
  <2>2. list \in Seq(Serves(plan[p])) /\ list \in Seq(plan[p].up) /\ list \in Seq(Hosts)
    <3>1. Serves(plan[p]) \subseteq Hosts
      BY <1>1 DEF Serves, PlanRecord
    <3>2. list \in Seq(Serves(plan[p])) /\ list \in Seq(plan[p].up)
      BY <1>2, <2>1, KeptServes
    <3> HIDE DEF list
    <3> QED BY <3>1, <3>2, SeqGrows
  <2> HIDE DEF list
  <2>3. ASSUME NEW f \in PlanRecord, Set(p, f), f.pc \in {"race", "await", "proxies"}, f.list = list,
               f.rev = plan[p].rev, f.hosts = plan[p].hosts, f.area = plan[p].area, f.up = plan[p].up,
               f.pc = "race" => list # << >> /\ f.proxy = "pending",
               f.pc = "proxies" => f.off = "region"
        PROVE  RoutingInv' /\ HonestStep
    <3>1. Serves(f) = Serves(plan[p])
      BY <2>3 DEF Serves
    <3> QED BY <2>1, <2>2, <2>3, <3>1, GoOnStep DEF Routing
  <2>4. CASE list # << >> /\ Set(p, [plan[p] EXCEPT !.pc = "race", !.list = list, !.proxy = "pending"])
    <3> DEFINE f == [plan[p] EXCEPT !.pc = "race", !.list = list, !.proxy = "pending"]
    <3>1. /\ f \in PlanRecord /\ f.pc = "race" /\ f.list = list /\ f.proxy = "pending"
          /\ f.rev = plan[p].rev /\ f.hosts = plan[p].hosts /\ f.area = plan[p].area /\ f.up = plan[p].up
      BY <1>1, <2>2 DEF PlanRecord, Routing
    <3>2. Set(p, f)
      BY <2>4
    <3> HIDE DEF f
    <3> QED BY <2>3, <2>4, <3>1, <3>2
  <2>5. CASE Set(p, [plan[p] EXCEPT !.pc = "await", !.list = list])
    <3> DEFINE f == [plan[p] EXCEPT !.pc = "await", !.list = list]
    <3>1. /\ f \in PlanRecord /\ f.pc = "await" /\ f.list = list
          /\ f.rev = plan[p].rev /\ f.hosts = plan[p].hosts /\ f.area = plan[p].area /\ f.up = plan[p].up
      BY <1>1, <2>2 DEF PlanRecord, Routing
    <3>2. Set(p, f)
      BY <2>5
    <3> HIDE DEF f
    <3> QED BY <2>3, <3>1, <3>2
  <2>6. CASE plan[p].off = "region" /\ Set(p, [plan[p] EXCEPT !.pc = "proxies", !.list = list])
    <3> DEFINE f == [plan[p] EXCEPT !.pc = "proxies", !.list = list]
    <3>1. /\ f \in PlanRecord /\ f.pc = "proxies" /\ f.list = list /\ f.off = plan[p].off
          /\ f.rev = plan[p].rev /\ f.hosts = plan[p].hosts /\ f.area = plan[p].area /\ f.up = plan[p].up
      BY <1>1, <2>2 DEF PlanRecord, Routing
    <3>2. Set(p, f)
      BY <2>6
    <3> HIDE DEF f
    <3> QED BY <2>3, <2>6, <3>1, <3>2
  <2>7. CASE End(p, Failed)
    BY <2>1, <2>7, FailStep
  <2> QED BY <1>4, <2>4, <2>5, <2>6, <2>7 DEF ProbesDone, list
<1> QED BY <1>3, <1>4
-----------------------------------------------------------------------------
(* The proxies, the ends and the theorem.                                   *)

\* A proxy of the list answered with the resolved episode.
LEMMA ProxyStep ==
    ASSUME HostNames, RoutingInv, NEW p \in Plans, plan[p].pc \in {"race", "proxies", "train"},
           plan[p].list # << >>, End(p, Planned(Head(plan[p].list), "same")), UNCHANGED settings,
           memory' = memory \/ plan[p].off = "region",
           memory' \in RouteRecord \cup {Unset}, remembered' \in RouteRecord \cup {Unset}
    PROVE  RoutingInv' /\ HonestStep
<1> DEFINE h == Head(plan[p].list)
           r == Planned(h, "same")
<1>1. h \in Serves(plan[p]) /\ h \in plan[p].up /\ h \in Hosts
  BY PlanFacts, TailServes DEF Chosen, Probing
<1>2. r \in RouteResult /\ r.route = h /\ r.id = "same"
  BY <1>1, Results, "same" \in Answers DEF Answers
<1>3. StillWanted(p) => plan[p].hosts = settings.hosts
  BY DEF StillWanted, IsCurrent, RoutingInv, Sound, Routing
<1>4. StillWanted(p) => Allowed(p, r)
  <2> HIDE DEF h, r
  <2> QED BY <1>1, <1>2, <1>3 DEF Allowed, Serves
<1>5. End(p, r) /\ plan[p].pc # "done"
  OBVIOUS
<1> HIDE DEF r
<1> QED BY <1>2, <1>4, <1>5, EndStep

\* The first proxy races, the others follow, and a route is learnt.
LEMMA ProxiesKeep ==
    ASSUME HostNames, RoutingInv, NEW p \in Plans,
           \/ \E o \in {"same", "lost"} : ProxyRaces(p, o) \/ ProxyAnswers(p, o)
           \/ NoProxyLeft(p) \/ Train(p)
    PROVE  RoutingInv' /\ HonestStep
<1>1. /\ plan[p] \in PlanRecord /\ plan[p].pc \in {"race", "proxies", "train"}
      /\ plan[p].pc = "race" => plan[p].list # << >>
      /\ plan[p].pc = "train" => plan[p].list # << >>
      /\ plan[p].list \in Seq(Serves(plan[p])) /\ plan[p].list \in Seq(plan[p].up)
      /\ plan[p].list \in Seq(Hosts)
      /\ plan[p].pc \in {"proxies", "train"} => plan[p].off = "region"
  BY PlanFacts DEF Chosen, Probing, ProxyRaces, ProxyAnswers, NoProxyLeft, Train
<1>2. ASSUME UNCHANGED shared
      PROVE  /\ UNCHANGED <<settings, memory, remembered>>
             /\ memory' \in RouteRecord \cup {Unset} /\ remembered' \in RouteRecord \cup {Unset}
  BY <1>2 DEF shared, RoutingInv, RoutingTypes
<1>3. ASSUME plan[p].list # << >>, End(p, Planned(Head(plan[p].list), "same")), UNCHANGED shared
      PROVE  RoutingInv' /\ HonestStep
  BY <1>1, <1>2, <1>3, ProxyStep
<1>4. ASSUME plan[p].list # << >>, plan[p].off = "region", UNCHANGED shared,
             NEW f \in PlanRecord, Set(p, f), f.pc = "train", f.list = plan[p].list, f.off = plan[p].off,
             f.rev = plan[p].rev, f.hosts = plan[p].hosts, f.area = plan[p].area, f.up = plan[p].up
      PROVE  RoutingInv' /\ HonestStep
  <2>1. Serves(f) = Serves(plan[p])
    BY <1>4 DEF Serves
  <2> QED BY <1>1, <1>4, <2>1, GoOnStep DEF Routing
<1>5. ASSUME NEW o \in {"same", "lost"}, ProxyRaces(p, o)
      PROVE  RoutingInv' /\ HonestStep
  <2>1. plan[p].pc = "race" /\ plan[p].list # << >> /\ UNCHANGED shared
    BY <1>1, <1>5 DEF ProxyRaces
  <2>2. CASE o = "same" /\ End(p, Planned(Head(plan[p].list), o))
    BY <1>3, <2>1, <2>2
  <2>3. CASE plan[p].off = "region" /\ Set(p, [plan[p] EXCEPT !.pc = "train", !.proxy = o])
    <3> DEFINE f == [plan[p] EXCEPT !.pc = "train", !.proxy = o]
    <3>1. /\ f \in PlanRecord /\ f.pc = "train" /\ f.list = plan[p].list /\ f.off = plan[p].off
          /\ f.rev = plan[p].rev /\ f.hosts = plan[p].hosts /\ f.area = plan[p].area /\ f.up = plan[p].up
      BY <1>1 DEF PlanRecord, Routing
    <3>2. Set(p, f)
      BY <2>3
    <3> HIDE DEF f
    <3> QED BY <1>4, <2>1, <2>3, <3>1, <3>2
  <2>4. CASE Set(p, RaceOver(p, plan[p].off, "lost"))
    BY <1>1, <2>1, <2>4, RaceStep DEF PlanRecord
  <2> QED BY <1>5, <2>2, <2>3, <2>4 DEF ProxyRaces, ShouldTrain
<1>6. ASSUME NEW o \in {"same", "lost"}, ProxyAnswers(p, o)
      PROVE  RoutingInv' /\ HonestStep
  <2>1. plan[p].pc = "proxies" /\ plan[p].list # << >> /\ plan[p].off = "region" /\ UNCHANGED shared
    BY <1>1, <1>6 DEF ProxyAnswers
  <2>2. CASE o = "same" /\ End(p, Planned(Head(plan[p].list), o))
    BY <1>3, <2>1, <2>2
  <2>3. CASE Set(p, [plan[p] EXCEPT !.pc = "train"])
    <3> DEFINE f == [plan[p] EXCEPT !.pc = "train"]
    <3>1. /\ f \in PlanRecord /\ f.pc = "train" /\ f.list = plan[p].list /\ f.off = plan[p].off
          /\ f.rev = plan[p].rev /\ f.hosts = plan[p].hosts /\ f.area = plan[p].area /\ f.up = plan[p].up
      BY <1>1 DEF PlanRecord, Routing
    <3>2. Set(p, f)
      BY <2>3
    <3> HIDE DEF f
    <3> QED BY <1>4, <2>1, <3>1, <3>2
  <2>4. CASE Set(p, [plan[p] EXCEPT !.list = Tail(@)])
    <3> DEFINE f == [plan[p] EXCEPT !.list = Tail(@)]
    <3>1. /\ Tail(plan[p].list) \in Seq(Serves(plan[p])) /\ Tail(plan[p].list) \in Seq(plan[p].up)
          /\ Tail(plan[p].list) \in Seq(Hosts)
      BY <1>1, <2>1, TailServes
    <3>2. /\ f \in PlanRecord /\ f.pc = "proxies" /\ f.list = Tail(plan[p].list) /\ f.off = "region"
          /\ f.rev = plan[p].rev /\ f.hosts = plan[p].hosts /\ f.area = plan[p].area /\ f.up = plan[p].up
      BY <1>1, <2>1, <3>1 DEF PlanRecord
    <3>3. Set(p, f)
      BY <2>4
    <3> HIDE DEF f
    <3>4. Serves(f) = Serves(plan[p])
      BY <3>2 DEF Serves
    <3> QED BY <2>1, <3>1, <3>2, <3>3, <3>4, GoOnStep DEF Routing
  <2> QED BY <1>6, <2>2, <2>3, <2>4 DEF ProxyAnswers
<1>7. CASE NoProxyLeft(p)
  BY <1>7, FailStep DEF NoProxyLeft
<1>8. CASE Train(p)
  <2> DEFINE route == [host |-> Head(plan[p].list), area |-> plan[p].area]
  <2>1. /\ plan[p].list # << >> /\ plan[p].off = "region" /\ UNCHANGED settings
        /\ memory' = route /\ remembered' \in {route, remembered}
        /\ End(p, Planned(Head(plan[p].list), "same"))
    BY <1>1, <1>8 DEF Train
  <2>2. route \in RouteRecord
    BY <1>1, <2>1, TailServes DEF RouteRecord, PlanRecord
  <2>3. memory' \in RouteRecord \cup {Unset} /\ remembered' \in RouteRecord \cup {Unset}
    BY <2>1, <2>2 DEF RoutingInv, RoutingTypes
  <2> QED BY <1>1, <2>1, <2>3, ProxyStep
<1> QED BY <1>5, <1>6, <1>7, <1>8

\* A poll that notices the cancellation, other settings or the deadline.
LEMMA InterruptKeeps ==
    ASSUME RoutingInv, NEW p \in Plans, Interrupt(p)
    PROVE  RoutingInv' /\ HonestStep
<1> DEFINE f == [plan[p] EXCEPT !.pc = "done", !.result = Failed]
<1>1. plan[p] \in PlanRecord /\ plan[p].rev <= settings.rev
  BY PlanFacts DEF RoutingInv, Sound
<1>2. f \in PlanRecord /\ f.pc = "done" /\ f.rev = plan[p].rev /\ f.result = Failed
  BY <1>1, Results DEF PlanRecord
<1>3. Set(p, f) /\ UNCHANGED <<settings, memory, remembered>>
  BY DEF Interrupt, shared
<1> HIDE DEF f
<1>4. Sound(f, settings)
  BY <1>1, <1>2 DEF Sound, Routing, Chosen, Probing
<1> QED BY <1>2, <1>3, <1>4, Results, SetStep

\* Initially there are no plans.
LEMMA RoutingStarts == RoutingInit => RoutingInv
<1>1. NoPlan \in PlanRecord /\ NoPlan.pc = "idle" /\ NoPlan.rev = 0
  BY DEF NoPlan, PlanRecord, NoResult, RouteResult, Answers
<1> SUFFICES ASSUME RoutingInit PROVE RoutingInv
  OBVIOUS
<1>2. /\ settings \in [hosts : SUBSET Hosts, rev : Nat] /\ settings.rev = 0
      /\ memory = Unset /\ remembered = Unset /\ plan = [p \in Plans |-> NoPlan]
  BY DEF RoutingInit
<1>3. Sound(NoPlan, settings)
  BY <1>1, <1>2 DEF Sound, Routing, Chosen, Probing
<1> QED BY <1>1, <1>2, <1>3 DEF RoutingInv, RoutingTypes

\* Every step keeps the invariant and is honest.
LEMMA RoutingSteps ==
    ASSUME HostNames, RoutingInv, RoutingNext
    PROVE  RoutingInv' /\ HonestStep
<1>1. CASE \E p \in Plans :
             \/ \E input \in {"episode", "season"} : StartPlan(p, input)
             \/ LoadCredentials(p) \/ CredentialsBusy(p) \/ Loaded(p) \/ AcquireRoutePermit(p)
  BY <1>1, BeginKeeps
<1>2. CASE \E p \in Plans, o \in Answers : OfficialAnswers(p, o)
  BY <1>2, OfficialAnswersKeep
<1>3. CASE \E p \in Plans : MetadataFails(p) \/ \E o \in Answers : OfficialDecides(p, o) \/ NoRoute(p, o)
  BY <1>3, MetadataKeeps
<1>4. CASE \E p \in Plans, hint \in {Unset, "hk"} : MetadataReady(p, hint)
  BY <1>4, MetadataReadyKeeps
<1>5. CASE \E p \in Plans : \/ \E h \in Hosts, o \in {"ready", "failure", "neutral"} : Probed(p, h, o)
                           \/ ProbesDone(p)
  BY <1>5, ProbesKeep
<1>6. CASE \E p \in Plans : \/ \E o \in {"same", "lost"} : ProxyRaces(p, o) \/ ProxyAnswers(p, o)
                           \/ NoProxyLeft(p) \/ Train(p)
  BY <1>6, ProxiesKeep
<1>7. CASE \E p \in Plans : Interrupt(p)
  BY <1>7, InterruptKeeps
<1>8. CASE \/ \E H \in SUBSET Hosts : UpdateSettings(H)
           \/ \E h \in Hosts : HealthAges(h)
           \/ ForgetRoute \/ \E p \in Plans : Cancel(p)
  BY <1>8, SettingsKeep
<1>9. CASE Restart \/ \E p \in Plans : Return(p)
  BY <1>9, GonePlansKeep
<1> QED BY <1>1, <1>2, <1>3, <1>4, <1>5, <1>6, <1>7, <1>8, <1>9 DEF RoutingNext

\* Whatever races, fails or changes meanwhile, a plan that is returned was made
\* by the official route or by a reachable host that the settings in force
\* enable for its area, and is the episode that was asked for; a route is learnt
\* only from a genuine restriction (plan_with_resolver_routing).
THEOREM PlansAreHonest == RoutingSpec => RoutingIsHonest
<1>1. RoutingInv /\ UNCHANGED routingVars => RoutingInv'
  BY ZenonT(60) DEF RoutingInv, RoutingTypes, Sound, Serves, routingVars
<1>2. RoutingInv /\ [RoutingNext]_routingVars => RoutingInv'
  BY <1>1, HostNames, RoutingSteps
<1>3. RoutingInv /\ [RoutingNext]_routingVars => [HonestStep]_routingVars
  BY HostNames, RoutingSteps
<1> QED BY <1>2, <1>3, RoutingStarts, PTL DEF RoutingSpec, RoutingIsHonest
=============================================================================
