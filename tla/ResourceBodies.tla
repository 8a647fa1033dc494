--------------------------- MODULE ResourceBodies ---------------------------
(***************************************************************************)
(* The body of one task resource: copied from a file of the cache by a     *)
(* staged output (task_registry.rs), bound to its record by the identity   *)
(* of the file, opened by that identity, and served over HTTP (media.rs).  *)
(* Others may change the source and the directory of the body meanwhile.   *)
(*                                                                         *)
(* An object is a file: [data, ro, at], its bytes, whether it is read-only *)
(* and the second of its last change; "own" is the one that the stage      *)
(* creates, "other" is one that somebody else puts in its place.           *)
(***************************************************************************)
EXTENDS Integers, Sequences

CONSTANTS
    Sources,    \* files that a resource may be copied from
    Declared,   \* what its record says: [size, ranges, etag], None if unknown
    Requests,   \* requests of a client: [head, range, ifRange, ifNone, ifSince]
    MaxChanges, \* bound: changes that others make
    MaxRequests,\* bound: requests
    MaxTime,    \* bound: the clock, in seconds
    None

VARIABLES
    source,   \* the bytes of the source
    path,     \* the object at the path of the body, or None
    objs,     \* the objects
    stage,    \* the staged output: [pc, expected, own]
    record,   \* the committed record: None or [size, identity, expired]
    meta,     \* its declared metadata
    storage,  \* resource_storage_available, and whether the body is to be revalidated
    client,   \* [pc, req, fd, first, last, status, held]
    now, count, changes

vars == <<source, path, objs, stage, record, meta, storage, client, now, count, changes>>

NotHeld == [bytes |-> << >>, whole |-> FALSE, etag |-> None, at |-> 0]
NoClient == [pc |-> "idle", req |-> None, fd |-> None, first |-> 0, last |-> 0, status |-> None, held |-> NotHeld]

Init ==
    /\ source \in Sources /\ meta \in Declared
    /\ path = None /\ objs = [o \in {"own", "other"} |-> None]
    /\ stage = [pc |-> "open", expected |-> 0, own |-> None]
    /\ record = None /\ storage = [usable |-> TRUE, pending |-> FALSE]
    /\ client = NoClient /\ now = 0 /\ count = 0 /\ changes = 0

-----------------------------------------------------------------------------
(* The creation of the body.                                               *)

\* StagedResourceBodyIdentity::from_metadata
Identity(o) == [object |-> o, size |-> Len(objs[o].data), ro |-> objs[o].ro]

\* validate_resource_body_size
SizeFits(size) == meta.size \in {None, size}

\* copy_resource_body_from_open_cache_file_with_hooks: the source is opened.
OpenSource ==
    /\ stage.pc = "open"
    /\ stage' = [stage EXCEPT !.pc = "create", !.expected = Len(source)]
    /\ UNCHANGED <<source, path, objs, record, meta, storage, client, now, count, changes>>

\* create_resource_body_exclusive: a file that exists is left alone.
Create ==
    /\ stage.pc = "create"
    /\ IF path = None
       THEN /\ path' = "own" /\ objs' = [objs EXCEPT !["own"] = [data |-> << >>, ro |-> FALSE, at |-> now]]
            /\ stage' = [stage EXCEPT !.pc = "copy"]
       ELSE stage' = [stage EXCEPT !.pc = "failed"] /\ UNCHANGED <<path, objs>>
    /\ UNCHANGED <<source, record, meta, storage, client, now, count, changes>>

RemoveIfSame_Always == path' = None

\* remove_created_resource_body_if_same
RemoveIfSame == path' = IF path = "own" THEN None ELSE path
FailCopy == stage' = [stage EXCEPT !.pc = "failed"] /\ RemoveIfSame /\ UNCHANGED objs

\* A chunk is read and written, or the copy is cancelled.
Copied == objs["own"].data
Copy ==
    /\ stage.pc = "copy"
    /\ \/ /\ Len(Copied) < Len(source)
          /\ objs' = [objs EXCEPT !["own"].data = Append(@, source[Len(@) + 1]), !["own"].at = now]
          /\ UNCHANGED <<stage, path>>
       \/ FailCopy
       \/ /\ Len(Copied) >= Len(source)
          /\ IF Len(Copied) = stage.expected /\ SizeFits(Len(Copied))
             THEN stage' = [stage EXCEPT !.pc = "seal"] /\ UNCHANGED <<path, objs>>
             ELSE FailCopy
    /\ UNCHANGED <<source, record, meta, storage, client, now, count, changes>>

\* create_staged_resource_body: the file is made read-only and synchronized.
Seal ==
    /\ stage.pc = "seal"
    /\ objs' = [objs EXCEPT !["own"].ro = TRUE]
    /\ stage' = [stage EXCEPT !.pc = "commit", !.own = [Identity("own") EXCEPT !.ro = TRUE]]
    /\ UNCHANGED <<source, path, record, meta, storage, client, now, count, changes>>

\* validate_staged_resource_body_identity
Unchanged(identity) == path # None /\ (path # None => Identity(path) = identity /\ identity.ro)

\* commit_staged_task_output: the identities are validated and bound.
Commit ==
    /\ stage.pc = "commit" /\ storage.usable
    /\ IF Unchanged(stage.own)
       THEN /\ record' = [size |-> stage.own.size, identity |-> stage.own, expired |-> FALSE]
            /\ stage' = [stage EXCEPT !.pc = "committed"]
       ELSE stage' = [stage EXCEPT !.pc = "rejected"] /\ UNCHANGED record
    /\ UNCHANGED <<source, path, objs, meta, storage, client, now, count, changes>>

\* The output is replaced by one without the resource, or the resource expires.
Retire ==
    /\ record # None /\ (record # None => ~record.expired)
    /\ record' = [record EXCEPT !.expired = TRUE]
    /\ UNCHANGED <<source, path, objs, stage, meta, storage, client, now, count, changes>>

\* revalidate_pending_resource_storage_locked
Valid == record # None => record.expired \/ Unchanged(record.identity)
Revalidate ==
    /\ storage.pending /\ Valid
    /\ storage' = [usable |-> TRUE, pending |-> FALSE]
    /\ UNCHANGED <<source, path, objs, stage, record, meta, client, now, count, changes>>

-----------------------------------------------------------------------------
(* What others do.                                                         *)
Change ==
    /\ changes < MaxChanges /\ changes' = changes + 1
    /\ \/ source' = SubSeq(source, 1, Len(source) - 1) /\ UNCHANGED <<path, objs>>
       \/ source' = Append(source, 7) /\ UNCHANGED <<path, objs>>
       \/ /\ objs["other"] = None
          /\ objs' = [objs EXCEPT !["other"] = [data |-> [i \in DOMAIN source |-> 9], ro |-> TRUE, at |-> now]]
          /\ path' = "other" /\ UNCHANGED source
       \/ path = "own" /\ path' = None /\ UNCHANGED <<source, objs>>
       \/ /\ objs["own"] # None /\ objs' = [objs EXCEPT !["own"].ro = FALSE]
          /\ UNCHANGED <<source, path>>
    /\ UNCHANGED <<stage, record, meta, storage, client, now, count>>

Tick ==
    /\ now < MaxTime /\ now' = now + 1
    /\ UNCHANGED <<source, path, objs, stage, record, meta, storage, client, count, changes>>

-----------------------------------------------------------------------------
(* resource_response.                                                      *)

\* parse_range: the first and the last byte, or an error.
Smaller(a, b) == IF a <= b THEN a ELSE b
NoSpan == [first |-> 1, last |-> 0, ok |-> FALSE]
ParseRange(range, size) ==
    IF range.kind = "bad" \/ size = 0 THEN NoSpan
    ELSE IF range.kind = "suffix"
    THEN IF range.n = 0 THEN NoSpan ELSE [first |-> size - Smaller(range.n, size), last |-> size - 1, ok |-> TRUE]
    ELSE LET final == IF range.last = None THEN size - 1 ELSE Smaller(range.last, size - 1)
         IN  IF range.first >= size \/ final < range.first THEN NoSpan
             ELSE [first |-> range.first, last |-> final, ok |-> TRUE]

\* A validator of the client is what it got with the bytes it holds.
\* is_not_modified_since
NotModifiedSince(at, date) == date # None /\ (date # None => at <= date)
\* if_none_match_field_matches: tags are compared weakly.
TagMatches(tag) == tag.kind = "any" \/ (tag.kind \in {"strong", "weak"} /\ meta.etag # None /\ tag.etag = meta.etag)
\* resource_is_not_modified
NotModified(req, at) ==
    IF req.ifNone # None THEN TagMatches(req.ifNone) ELSE NotModifiedSince(at, req.ifSince)
\* range_validator_matches: an entity tag is compared strongly.
RangeIsValid(req, at) ==
    CASE req.ifRange = None -> TRUE
      [] req.ifRange # None ->
           IF req.ifRange.kind = "date" THEN NotModifiedSince(at, req.ifRange.at)
           ELSE req.ifRange.kind = "strong" /\ meta.etag # None /\ req.ifRange.etag = meta.etag

\* A client sends a request; "held" stands for the validators that it holds.
Held(validator) ==
    IF validator = None THEN None
    ELSE IF validator.kind \in {"strong", "weak"} THEN [validator EXCEPT !.etag = client.held.etag]
    ELSE IF validator.kind = "date" THEN [validator EXCEPT !.at = client.held.at]
    ELSE validator
Rest(range) ==
    IF range = None THEN None
    ELSE IF range.kind = "rest" THEN [range EXCEPT !.kind = "from", !.first = Len(client.held.bytes)]
    ELSE range
Ask ==
    /\ client.pc = "idle" /\ count < MaxRequests /\ count' = count + 1
    /\ \E r \in Requests :
          /\ r.resume = (client.held.bytes # << >>)
          /\ client' = [client EXCEPT !.pc = "asked", !.status = None,
                           !.req = [r EXCEPT !.range = Rest(@), !.ifRange = Held(@), !.ifNone = Held(@),
                                             !.ifSince = IF @ THEN client.held.at ELSE None]]
    /\ UNCHANGED <<source, path, objs, stage, record, meta, storage, now, changes>>

Done(status) == client' = [client EXCEPT !.pc = "idle", !.status = status]

\* open_task_resource: what is at the path is served if it is what was
\* committed; else the storage is to be revalidated.
Open ==
    /\ client.pc = "asked"
    /\ IF record = None THEN Done("missing") /\ UNCHANGED storage
       ELSE IF record.expired THEN Done("missing") /\ UNCHANGED storage
       ELSE IF ~Unchanged(record.identity)
       THEN Done("busy") /\ storage' = [usable |-> FALSE, pending |-> TRUE]
       ELSE /\ client' = [client EXCEPT !.pc = "respond", !.fd = path]
            /\ storage' = [storage EXCEPT !.pending = FALSE]
    /\ UNCHANGED <<source, path, objs, stage, record, meta, now, count, changes>>

\* build_file_response and the conditions before it.
Answered(status, span) ==
    client' = [client EXCEPT !.pc = IF client.req.head THEN "idle" ELSE "body", !.status = status,
                             !.first = span.first, !.last = span.last]
Respond ==
    /\ client.pc = "respond"
    /\ LET req == client.req
           file == objs[client.fd]
           size == Len(file.data)
           wanted == ~req.head /\ meta.ranges /\ RangeIsValid(req, file.at) /\ req.range # None
       IN  IF NotModified(req, file.at) THEN Done("unmodified")
           ELSE IF ~wanted THEN Answered("whole", [first |-> 0, last |-> size - 1])
           ELSE IF ParseRange(req.range, size).ok THEN Answered("partial", ParseRange(req.range, size))
           ELSE Done("unsatisfiable")
    /\ UNCHANGED <<source, path, objs, stage, record, meta, storage, now, count, changes>>

\* The client reads the body, or loses the connection on the way, and adds a
\* part that follows what it holds.
Read ==
    /\ client.pc = "body"
    /\ \E n \in 0..(client.last + 1 - client.first) :
          LET bytes == SubSeq(objs[client.fd].data, client.first + 1, client.first + n)
              whole == client.first + n = Len(objs[client.fd].data)
              new == [bytes |-> bytes, whole |-> whole, etag |-> meta.etag, at |-> objs[client.fd].at]
          IN  client' = [client EXCEPT !.pc = "idle", !.fd = None,
                 !.held = IF client.first = 0 THEN new
                          ELSE IF client.status = "partial" /\ client.first = Len(client.held.bytes)
                          THEN [new EXCEPT !.bytes = client.held.bytes \o bytes] ELSE client.held]
    /\ UNCHANGED <<source, path, objs, stage, record, meta, storage, now, count, changes>>

Next ==
    \/ OpenSource \/ Create \/ Copy \/ Seal \/ Commit \/ Retire \/ Revalidate
    \/ Change \/ Tick \/ Ask \/ Open \/ Respond \/ Read

Spec == Init /\ [][Next]_vars

-----------------------------------------------------------------------------
\* A copy that fails leaves no partial body, and no file of somebody else is
\* ever removed.
FailuresAreClean ==
    /\ stage.pc = "failed" => path # "own"
    /\ objs["other"] # None => path = "other"

\* What is committed is all of a source that had one length throughout, and has
\* the size that its record declares.
CommittedIsWhole ==
    record # None => /\ Len(objs["own"].data) = stage.expected
                     /\ meta.size \in {None, Len(objs["own"].data)}

\* What a client puts together from its responses, by ranges and after lost
\* connections, is the file that was copied.
RangesAssemble ==
    /\ client.held.bytes # << >> => client.held.bytes = SubSeq(objs["own"].data, 1, Len(client.held.bytes))
    /\ client.held.whole => client.held.bytes = objs["own"].data

\* A client that is told to use what it holds holds bytes of what would be served.
UnmodifiedIsTrue ==
    client.status = "unmodified" =>
        client.req.ifNone # None \/ client.held.at >= objs["own"].at

\* A part is exactly the bytes of the file that were asked for, and is refused
\* only if there are none.
Wants(range, p, size) ==
    CASE range.kind = "suffix" -> p + range.n >= size
      [] range.kind = "from" -> p >= range.first /\ (range.last # None => p <= range.last)
      [] OTHER -> FALSE
RangeIsExact ==
    client.status \in {"partial", "unsatisfiable"} =>
        LET size == Len(objs["own"].data)
            sent == IF client.status = "partial" THEN client.first..client.last ELSE {}
        IN  sent = {p \in 0..(size - 1) : Wants(client.req.range, p, size)}

BodiesAreSound ==
    FailuresAreClean /\ CommittedIsWhole /\ RangesAssemble /\ UnmodifiedIsTrue /\ RangeIsExact
=============================================================================
