------------------------------ MODULE ServerRun ------------------------------
(***************************************************************************)
(* A run of the server (lib.rs, run_with_state): the listen addresses of   *)
(* the control plane and of the media plane are bound one after the other, *)
(* a server is spawned for each listener, each of them makes sure that the *)
(* shared background workers run, and the first server that ends, or the   *)
(* interrupt, stops the fill worker and then the writer of the CDN         *)
(* history.  The servers run until run_with_state returns, so requests are *)
(* still answered while the workers stop.  A history whose file could not  *)
(* be read is not written, and nobody learns of a write that fails.        *)
(*                                                                         *)
(* HlsFillScheduler and CdnHistory have the fill worker and the writer;    *)
(* here each is what it has measured of the origins and what is written.   *)
(***************************************************************************)
EXTENDS Naturals, Sequences, FiniteSets, SequencesExt

CONSTANTS
    Grpc, Media,    \* the addresses of each plane, as sequences
    MaxEnds,        \* bound: background workers that end (by a panic)
    MaxSeen,        \* bound: measurements
    None

VARIABLES
    binds,    \* what the system answers for an address: "ok", "absent" (its
              \* family is unavailable) or "error"
    login,    \* credential maintenance is configured
    todo,     \* addresses still to bind, of both planes
    bound,    \* listeners
    server,   \* of an address: "no", "spawned", "serving" or "ended"
    pc,       \* "bind", "serve", "fills", "history", "return", "over"
    result,   \* None, "ok" or "error"
    worker,   \* background workers: [held, live] the one whose handle is kept
              \* ("no", "live" or "dead") and how many run
    ends,
    fills,    \* the fill worker: "live" or "stopped"
    seen,     \* measurements of [fills, serving]
    stored,   \* those that the last successful write of the history has
    file      \* of the history: "kept", "memory" (it has no path) or "failed"
              \* (the last write of the run did)

vars == <<binds, login, todo, bound, server, pc, result, worker, ends, fills, seen, stored, file>>

Addrs == ToSet(Grpc) \cup ToSet(Media)
Kinds == {"files", "credentials"}
Plane(a) == IF a \in ToSet(Grpc) THEN Grpc ELSE Media
Nothing == [fills |-> 0, serving |-> 0]

\* ensure_running, under the lock of the runtime: a worker is started only when
\* the one that is kept has ended.
EnsureRunning(w, k) ==
    IF w[k].held = "live" THEN w
    ELSE [w EXCEPT ![k] = [held |-> "live", live |-> @.live + 1]]
EnsureCredentials(w) == IF login THEN EnsureRunning(w, "credentials") ELSE w

Init ==
    /\ binds \in [Addrs -> {"ok", "absent", "error"}]
    /\ login \in BOOLEAN
    /\ todo = Grpc \o Media /\ bound = {}
    /\ server = [a \in Addrs |-> "no"]
    /\ pc = "bind" /\ result = None
    /\ worker = EnsureRunning([k \in Kinds |-> [held |-> "no", live |-> 0]], "files")
    /\ ends = 0
    /\ fills = "live" /\ seen = Nothing /\ stored = Nothing
    /\ file \in {"kept", "memory"}

Background == <<worker, ends, fills, seen, stored, file>>

----------------------------------------------------------------------------
(* Binding *)

\* An address of an unavailable family is passed over when its plane has
\* another one.
Skips(a) == binds[a] = "absent" /\ Len(Plane(a)) > 1
\* The addresses of a are done, and one of them is bound.
Served(a, b) == a = Last(Plane(a)) => \E x \in ToSet(Plane(a)) : x \in b

Bind ==
    /\ pc = "bind" /\ todo # <<>>
    /\ LET a == Head(todo)
           now == IF binds[a] = "ok" THEN bound \cup {a} ELSE bound
       IN IF (binds[a] = "ok" \/ Skips(a)) /\ Served(a, now)
          THEN bound' = now /\ todo' = Tail(todo) /\ UNCHANGED <<pc, result>>
          ELSE bound' = {} /\ todo' = <<>> /\ pc' = "over" /\ result' = "error"
    /\ UNCHANGED <<binds, login, server, Background>>

\* spawn_servers for both planes; the task worker ensures the file cleanup too.
Spawn ==
    /\ pc = "bind" /\ todo = <<>>
    /\ server' = [a \in Addrs |-> IF a \in bound THEN "spawned" ELSE "no"]
    /\ worker' = EnsureRunning(worker, "files")
    /\ pc' = "serve"
    /\ UNCHANGED <<binds, login, todo, bound, result, ends, fills, seen, stored, file>>

----------------------------------------------------------------------------
(* Servers and workers *)

\* run_grpc_listener or run_media_listener
Begin(a) ==
    /\ server[a] = "spawned" /\ pc # "over"
    /\ server' = [server EXCEPT ![a] = "serving"]
    /\ worker' = EnsureCredentials(EnsureRunning(worker, "files"))
    /\ UNCHANGED <<binds, login, todo, bound, pc, result, ends, fills, seen, stored, file>>

\* wait_for_server_result: the first server that ends decides the result.
End(a, r) ==
    /\ server[a] = "serving" /\ pc # "over"
    /\ server' = [server EXCEPT ![a] = "ended"]
    /\ IF pc = "serve" THEN pc' = "fills" /\ result' = r ELSE UNCHANGED <<pc, result>>
    /\ UNCHANGED <<binds, login, todo, bound, Background>>

Interrupt ==
    /\ pc = "serve" /\ pc' = "fills" /\ result' = "ok"
    /\ UNCHANGED <<binds, login, todo, bound, server, Background>>

WorkerEnds(k) ==
    /\ worker[k].held = "live" /\ ends < MaxEnds
    /\ worker' = [worker EXCEPT ![k] = [held |-> "dead", live |-> @.live - 1]]
    /\ ends' = ends + 1
    /\ UNCHANGED <<binds, login, todo, bound, server, pc, result, fills, seen, stored, file>>

\* A transfer of a fill, or of a request, tells how an origin did.
Measure(by) ==
    /\ IF by = "fills" THEN pc \in {"bind", "serve", "fills"} /\ fills = "live"
       ELSE pc # "over" /\ \E a \in Addrs : server[a] = "serving"
    /\ seen.fills + seen.serving < MaxSeen
    /\ seen' = [seen EXCEPT ![by] = @ + 1]
    /\ UNCHANGED <<binds, login, todo, bound, server, pc, result, worker, ends, fills, stored, file>>

\* The writer saves in the background until its admission is closed; a write
\* that fails leaves the file as it is, and the next measurement starts another.
Write ==
    /\ pc \in {"bind", "serve", "fills", "history"} /\ file = "kept" /\ stored # seen
    /\ stored' = seen
    /\ UNCHANGED <<binds, login, todo, bound, server, pc, result, worker, ends, fills, seen, file>>

----------------------------------------------------------------------------
(* The end of the run *)

\* shutdown_hls_fill_worker waits for the worker and the range writers.
StopFills ==
    /\ pc = "fills" /\ fills = "live"
    /\ fills' = "stopped" /\ pc' = "history"
    /\ UNCHANGED <<binds, login, todo, bound, server, result, worker, ends, seen, stored, file>>

LastWrite_OfTheWriter == UNCHANGED <<stored, file>>

\* What is known is written a last time; the result of this write is dropped.
LastWrite == \/ stored' = seen /\ UNCHANGED file
             \/ file' = "failed" /\ UNCHANGED stored

\* shutdown_cdn_history_writer: there is no last write without a path.
StopHistory ==
    /\ pc = "history" /\ pc' = "return"
    /\ IF file = "kept" THEN LastWrite ELSE UNCHANGED <<stored, file>>
    /\ UNCHANGED <<binds, login, todo, bound, server, result, worker, ends, fills, seen>>

\* Returning drops the servers.
Return ==
    /\ pc = "return" /\ pc' = "over"
    /\ server' = [a \in Addrs |-> IF server[a] = "no" THEN "no" ELSE "ended"]
    /\ UNCHANGED <<binds, login, todo, bound, result, Background>>

Over == pc = "over" /\ UNCHANGED vars

Next ==
    \/ Bind \/ Spawn \/ Interrupt \/ Write \/ StopFills \/ StopHistory \/ Return \/ Over
    \/ \E a \in Addrs : Begin(a) \/ End(a, "ok") \/ End(a, "error")
    \/ \E k \in Kinds : WorkerEnds(k)
    \/ \E by \in {"fills", "serving"} : Measure(by)

Spec == Init /\ [][Next]_vars

----------------------------------------------------------------------------
(* Properties *)

\* No server of a plane accepts before both planes have all the addresses that
\* can be bound, and no server starts when an address is refused.
PlanesStartTogether ==
    (\E a \in Addrs : server[a] \in {"spawned", "serving"}) =>
        /\ \A a \in Addrs : binds[a] = "ok" => a \in bound
        /\ \A a \in Addrs : binds[a] # "error"
        /\ \A plane \in {Grpc, Media} : ToSet(plane) \cap bound # {}

\* The servers of a run ensure the workers concurrently, and after a worker has
\* ended: there is never a second cleanup or maintenance worker.
WorkersAreSingle == \A k \in Kinds : worker[k].live <= 1

\* A run that has served returns with the fill worker stopped and with what its
\* fills have measured in the stored history, unless the history has no file or
\* the last write of it failed.
StopIsOrderly ==
    (pc = "over" /\ \E a \in Addrs : server[a] # "no") =>
        /\ fills = "stopped" /\ result # None
        /\ stored.fills = seen.fills \/ file \in {"memory", "failed"}
RunIsSound == PlanesStartTogether /\ WorkersAreSingle /\ StopIsOrderly
==============================================================================
