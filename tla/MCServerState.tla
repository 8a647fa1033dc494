---------------------------- MODULE MCServerState ----------------------------
(***************************************************************************)
(* Small instances of parts of the server that keep their state behind a   *)
(* lock of their own and that theorems are about: the two halves of        *)
(* RangeState (admission and reservations, which share the lock and no     *)
(* data), the result pages, the resolver routes and the state file.  A     *)
(* behaviour is one of any part, one part at a time; admission has one     *)
(* session and one chunk.                                                  *)
(***************************************************************************)
EXTENDS HlsRangeAdmission, HlsRangeQuota, ResultPages, ResolverRouting, TaskSnapshots

CONSTANT s1

VARIABLE part

MCSessionOf == [k \in Chunks |-> s1]

\* What older servers left: a task without an output, an accepted download, an
\* output with a resource, and cleanup intents before and after they could be
\* replayed.
LegacyOutput == [snap |-> 0, rev |-> 3, primary |-> "a", results |-> << >>, resources |-> {}, legacy |-> TRUE]
LegacyResource ==
    [snap |-> 0, rev |-> 1, primary |-> "a", resources |-> {[id |-> "r", bound |-> FALSE]}, legacy |-> FALSE,
     results |-> <<[id |-> "a", st |-> "ok", art |-> "avail", back |-> "r"]>>]
LegacyTask(cands, queued, out) ==
    [cands |-> cands, active |-> queued, frozen |-> FALSE, out |-> out,
     items |-> <<[id |-> "a", st |-> IF queued THEN "run" ELSE "ok", played |-> FALSE]>>]
LegacyFile(schema, task, pend) ==
    [schema |-> schema, task |-> task, pend |-> pend, root |-> pend # {} /\ schema > 6, tombs |-> {}, of |-> Absent]

MCLegacy ==
    {LegacyFile(1, LegacyTask(<< >>, TRUE, LegacyOutput), {}),
     LegacyFile(3, LegacyTask(<<"a">>, TRUE, LegacyOutput), {}),
     LegacyFile(5, LegacyTask(<<"a">>, FALSE, LegacyResource), {}),
     LegacyFile(5, Absent, {<<"file", TRUE>>}), LegacyFile(7, Absent, {<<"file", TRUE>>})}

partVars == <<vars, quotaVars, pagesVars, routingVars, snapshotsVars>>

MCInit ==
    /\ part \in {"admission", "quota", "pages", "routes", "file"}
    /\ Init /\ QuotaInit /\ PagesInit /\ RoutingInit /\ SnapshotsInit
    /\ part # "file" => vol = Disk(FALSE, Absent)

MCNext ==
    /\ UNCHANGED part
    /\ \/ part = "admission" /\ Next /\ UNCHANGED <<quotaVars, pagesVars, routingVars, snapshotsVars>>
       \/ part = "quota" /\ QuotaNext /\ UNCHANGED <<vars, pagesVars, routingVars, snapshotsVars>>
       \/ part = "pages" /\ PagesNext /\ UNCHANGED <<vars, quotaVars, routingVars, snapshotsVars>>
       \/ part = "routes" /\ RoutingNext /\ UNCHANGED <<vars, quotaVars, pagesVars, snapshotsVars>>
       \/ part = "file" /\ SnapshotsNext /\ UNCHANGED <<vars, quotaVars, pagesVars, routingVars>>

MCSpec == MCInit /\ [][MCNext]_<<part, partVars>> /\ Fairness
=============================================================================
