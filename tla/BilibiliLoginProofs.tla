------------------------ MODULE BilibiliLoginProofs -------------------------
(***************************************************************************)
(* Proofs about the credentials of a profile, for any sets of operations,  *)
(* callbacks, credentials and accounts and any number of foreign writes.   *)
(*                                                                         *)
(* The sections of LoginState's lock are functions on it, so the parts of  *)
(* the invariant are stated of any login state s, operations p, callbacks  *)
(* q and binding b: a lemma about a section then speaks of the states      *)
(* between two sections of one step as well.                               *)
(***************************************************************************)
EXTENDS BilibiliLogin, TLAPS

-----------------------------------------------------------------------------
(* The inductive invariant.                                                 *)

\* Where an operation is inside maintain_web, with a cookie.
Asking == {"identity", "bind", "publish", "refresh", "renew", "recheck", "renewing", "rebind"}

\* Where it has the profile and no session yet.
Early == Asking \cup {"load", "maintained", "keycheck", "ticket", "session"}

\* Where a Web login waits for its answer, and where it is being saved.
Polled == {"poll", "polling", "signin"}
Saving == {"write", "bindweb", "certify"}

OpRecords == [pc : Pcs, cred : Credentials, bound : Bindings,
              fresh : Webs \cup {None}, web : Levels, failed : BOOLEAN]

\* What an operation o with the record x knows at each point.
Knows(x, o) ==
    /\ x.pc \in {"idle", "load"} \cup Asking => x.web = "missing" /\ ~x.failed
    /\ x.pc \in Asking => x.cred.web # None
    /\ x.pc \in {"bind", "publish"} /\ x.bound # None => x.bound.account = AccountOf[x.cred.web]
    /\ x.pc \in {"refresh", "renew", "recheck", "renewing", "rebind"} => x.bound # None
    /\ x.pc = "refresh" => x.bound = Bound(x.cred.web)
    /\ x.pc \in {"recheck", "renewing", "rebind", "signin"} \cup Saving => x.fresh # None
    /\ x.pc \in {"renewing", "rebind"} => x.bound.account = AccountOf[x.fresh]
    /\ x.pc \in Saving /\ x.bound # None => x.bound.account = AccountOf[x.fresh]
    /\ x.web # "checking"
    /\ x.failed => x.web \in {"unavailable", "loginRequired"}
    /\ x.pc \in {"maintained", "keycheck", "session"} /\ x.web = "ready" =>
          x.cred.web # None /\ x.bound = Bound(x.cred.web)
    /\ x.pc = "keycheck" /\ ~x.failed /\ o \in KeyStarts => x.bound # None
    /\ x.pc \in {"session", "waiting"} => o \in KeyStarts /\ x.bound # None
    /\ x.pc = "session" => ~x.failed
    /\ x.pc \in {"ticket", "verify", "probe"} \cup Polled \cup Saving => o \in Starts
    /\ x.pc = "probe" => x.cred.web # None /\ x.bound = Bound(x.cred.web)

\* What a callback with the record y knows.
Carries(y) ==
    /\ y.pc = "idle" => y = NewRequest
    /\ y.pc = "identity" => y.phase = "active" /\ y.worker = "none"
    /\ y.pc \in {"identity", "worker"} => y.op # None
    /\ y.worker \in {"claim", "write", "snapshot", "publish"} =>
          /\ y.op # None /\ y.key # None /\ y.bound # None
          /\ y.bound.account = AccountOf[y.key]
    /\ y.pc = "identity" => y.key # None /\ y.bound # None
    /\ y.worker = "claim" => y.phase \in {"active", "cancelled"}
    /\ y.worker \in {"write", "snapshot", "publish"} <=> y.phase = "committing"
    /\ y.phase = "active" => y.pc # "done"
    /\ y.phase = "active" /\ y.worker # "none" => y.pc = "worker"
    /\ y.phase = "cancelled" => y.pc = "done"
    /\ y.phase = "finished" => y.pc = "done" \/ y.settled

Base ==
    /\ TypeOK
    /\ \A o \in Ops : Knows(op[o], o)
    /\ \A k \in Requests : Carries(req[k])

\* How an operation o with the record x goes with its session and the reservation.
Placed(s, x, o) ==
    /\ x.pc \in {"idle"} \cup Early => s.sessions[o] = NoSession
    /\ x.pc \in Early => s.active = Login(o)
    /\ x.pc \in Saving => IsClaimed(s, o)
    /\ x.pc = "probe" <=> s.active = Verifier(o)
    /\ x.pc \in Polled => s.sessions[o].state \in {"none", "pending", "expired"}
    /\ s.sessions[o].state \notin {"none", "pending"} => s.sessions[o].done
    /\ s.sessions[o].done => s.active # Login(o)
    /\ o \in KeyStarts /\ s.active = Login(o) /\ IsPending(s, o) => x.pc = "waiting"

Control(s, p) == \A o \in Ops : Placed(s, p[o], o)

\* A callback that may still complete its session.
Live(y) == y.phase = "committing" \/ (y.phase = "active" /\ y.pc \in {"identity", "worker"})

\* Its claim stands, or the timer has overtaken it for good.
Stands(s, p, y) ==
    /\ s.sessions[y.op].finishing
    /\ IsClaimed(s, y.op) \/ s.sessions[y.op].state = "expired"
    /\ IsClaimed(s, y.op) => y.cred = p[y.op].cred /\ y.bound = p[y.op].bound

Claims(s, p, q) ==
    /\ \A k \in Requests : Live(q[k]) => Stands(s, p, q[k])
    /\ \A j, k \in Requests : Live(q[j]) /\ Live(q[k]) /\ q[j].op = q[k].op => j = k

\* The binding an operation looked up is still the one that is stored.
Tracks(x, b) ==
    x.pc \in Asking \/ (x.pc \in {"maintained", "keycheck", "session"} /\ ~x.failed) => x.bound = b

Synced(p, b) == \A o \in Ops : Tracks(p[o], b)

\* A record that claims no more than the binding supports.
Backed(r, b) ==
    /\ r.all => r.web = "unavailable" /\ r.key = "unavailable"
    /\ r.web = "ready" => r.cred.web # None /\ b = Bound(r.cred.web)
    /\ r.key = "ready" /\ r.web \in {"ready", "missing"} =>
          r.cred.key # None /\ (b # None => b.account = AccountOf[r.cred.key])

\* Nothing of it is being checked.
Quiet(r) == r.web # "checking" /\ r.key # "checking"

\* What is shown while an operation o with the record x holds the profile.
Shown(s, r, x, o) ==
    /\ x.pc \in Early \ {"load"} => r.web # "ready" /\ r.key # "ready"
    /\ s.active = Login(o) /\ IsPending(s, o) /\ o \in Starts =>
          r.web # "ready" /\ r.key \notin {"ready", "checking"}
    /\ s.active = Login(o) /\ IsPending(s, o) /\ o \in KeyStarts =>
          r.web # "checking" /\ r.cred = x.cred
    /\ s.active = Verifier(o) =>
          r.temp = Verifier(o) /\ r.web # "checking" /\ r.cred = x.cred

\* The Web level that a worker is about to publish again.
Carried(y, b) ==
    y.worker = "publish" =>
        /\ y.web # "checking"
        /\ y.web = "ready" => y.cred.web # None /\ b = Bound(y.cred.web)

\* What is shown to clients.
Honest(s, p, q, b) ==
    /\ s.readiness # None =>
          /\ Backed(s.readiness, b)
          /\ ~Quiet(s.readiness) => s.active # None
          /\ \A o \in Ops : Shown(s, s.readiness, p[o], o)
    /\ \A k \in Requests : Carried(q[k], b)

\* A session that the timer has overtaken.
Stuck(s, o) == o \in KeyStarts /\ s.sessions[o].state = "expired" /\ s.sessions[o].finishing

NoStuck(s) == \A o \in Ops : ~Stuck(s, o)

Sound(s, p, q, b) ==
    /\ Control(s, p) /\ Claims(s, p, q) /\ Synced(p, b)
    /\ NoStuck(s) => Honest(s, p, q, b)

IInv == Base /\ Sound(state, op, req, binding)

-----------------------------------------------------------------------------
(* Types: owners, credentials, bindings, and what the sections return.      *)

\* The identifiers that active_profiles can hold are all different.
LEMMA OwnersDiffer ==
    /\ \A o \in Ops : Login(o) \in Owners /\ Verifier(o) \in Owners
    /\ \A o, j \in Ops : Login(o) # Verifier(j)
    /\ \A o, j \in Ops : Login(o) = Login(j) => o = j
    /\ \A o, j \in Ops : Verifier(o) = Verifier(j) => o = j
BY DEF Login, Verifier, Owners

\* A free profile is not held by any of them.
LEMMA NoneIsNoOwner ==
    ASSUME NEW o \in Ops
    PROVE  Login(o) # None /\ Verifier(o) # None
<1>1. Login(o) \in Ops \X {"login", "verify"} /\ Verifier(o) \in Ops \X {"login", "verify"}
  BY DEF Login, Verifier
<1> QED
  BY <1>1, LoginAssumption

\* The binding of a cookie names it and its account.
LEMMA BoundType ==
    ASSUME NEW w \in Webs
    PROVE  /\ Bound(w) \in Bindings /\ Bound(w) # None /\ Bound(w).web = w
           /\ Bound(w).account = AccountOf[w] /\ AccountOf[w] \in Accounts
<1>1. AccountOf[w] \in Accounts
  BY LoginAssumption
<1>2. Bound(w) \in [web : Webs, account : Accounts]
  BY <1>1 DEF Bound
<1> QED
  BY <1>1, <1>2, LoginAssumption DEF Bound, Bindings

\* Replacing a cookie or a key in a profile gives a profile.
LEMMA CredentialTypes ==
    /\ NoCredentials \in Credentials
    /\ \A c \in Credentials : c.web \in Webs \cup {None} /\ c.key \in Keys \cup {None}
    /\ \A c \in Credentials, w \in Webs \cup {None} : [c EXCEPT !.web = w] \in Credentials
    /\ \A c \in Credentials, k \in Keys \cup {None} : [c EXCEPT !.key = k] \in Credentials
BY DEF Credentials, NoCredentials

\* maintain_access_key reports a key ready only if it is of the bound account.
LEMMA LevelTypes ==
    ASSUME NEW c \in Credentials, NEW b \in Bindings, NEW answer, NEW level \in Levels
    PROVE  /\ WebLevel(c, level) \in {"missing", level} /\ WebLevel(c, level) \in Levels
           /\ KeyLevel(c, level) \in {"missing", level} /\ KeyLevel(c, level) \in Levels
           /\ KeyVerdict(c, b, answer) \in Levels \ {"checking", "unknown"}
           /\ KeyVerdict(c, b, answer) = "ready" =>
                 c.key # None /\ (b # None => b.account = AccountOf[c.key])
<1>1. "missing" \in Levels
  BY DEF Levels
<1>2. WebLevel(c, level) \in {"missing", level} /\ KeyLevel(c, level) \in {"missing", level}
  BY DEF WebLevel, KeyLevel
<1>3. KeyVerdict(c, b, answer) \in {"missing", "ready", "unavailable", "loginRequired"}
  BY DEF KeyVerdict
<1>4. ASSUME KeyVerdict(c, b, answer) = "ready"
      PROVE  c.key # None /\ (b # None => b.account = AccountOf[c.key])
  BY <1>4 DEF KeyVerdict
<1>5. KeyVerdict(c, b, answer) \in Levels \ {"checking", "unknown"}
  BY <1>3 DEF Levels
<1> QED
  BY <1>1, <1>2, <1>4, <1>5

\* The fields of LoginState.
LEMMA StateTypes ==
    ASSUME NEW s \in LoginState
    PROVE  /\ s.active \in Owners
           /\ s.readiness # None => s.readiness \in ReadinessRecord
           /\ \A o \in Ops : s.sessions[o] \in Session
BY DEF LoginState

\* The three records a session is created with.
LEMMA SessionTypes ==
    /\ NoSession \in Session /\ NewSession \in Session /\ ReadySession \in Session
    /\ NoSession.state = "none" /\ ~NoSession.finishing /\ ~NoSession.done
    /\ NewSession.state = "pending" /\ ~NewSession.finishing /\ ~NewSession.done
    /\ ReadySession.state = "ready" /\ ~ReadySession.finishing /\ ReadySession.done
BY DEF NoSession, NewSession, ReadySession, Session

\* set_readiness replaces the record and nothing else.
LEMMA SetFacts ==
    ASSUME NEW s \in LoginState, NEW c \in Credentials, NEW web \in Levels, NEW key \in Levels
    PROVE  LET t == SetReadiness(s, c, web, key)
           IN /\ t \in LoginState
              /\ t.sessions = s.sessions /\ t.active = s.active
              /\ t.readiness # None /\ t.readiness \in ReadinessRecord
              /\ t.readiness.web = web /\ t.readiness.key = key /\ t.readiness.cred = c
              /\ ~t.readiness.all /\ t.readiness.temp = None
<1> DEFINE x == [web |-> web, key |-> key, cred |-> c, all |-> FALSE, temp |-> None]
<1>1. x \in ReadinessRecord
  BY DEF ReadinessRecord, Owners
<1>2. x # None
  BY <1>1, LoginAssumption
<1>3. SetReadiness(s, c, web, key) = [s EXCEPT !.readiness = x]
  BY DEF SetReadiness
<1>4. x.web = web /\ x.key = key /\ x.cred = c /\ x.all = FALSE /\ x.temp = None
  OBVIOUS
<1> HIDE DEF x
<1>5. LET t == [s EXCEPT !.readiness = x]
      IN t \in LoginState /\ t.sessions = s.sessions /\ t.active = s.active /\ t.readiness = x
  BY <1>1 DEF LoginState
<1> QED
  BY <1>1, <1>2, <1>3, <1>4, <1>5

\* set_unavailable_readiness replaces the record as well.
LEMMA UnavailableFacts ==
    ASSUME NEW s \in LoginState
    PROVE  LET t == SetUnavailable(s)
           IN /\ t \in LoginState
              /\ t.sessions = s.sessions /\ t.active = s.active
              /\ t.readiness # None /\ t.readiness \in ReadinessRecord
              /\ t.readiness.web = "unavailable" /\ t.readiness.key = "unavailable"
              /\ t.readiness.all /\ t.readiness.temp = None
<1> DEFINE x == [web |-> "unavailable", key |-> "unavailable",
                 cred |-> NoCredentials, all |-> TRUE, temp |-> None]
<1>1. x \in ReadinessRecord
  BY CredentialTypes DEF ReadinessRecord, Owners, Levels
<1>2. x # None
  BY <1>1, LoginAssumption
<1>3. SetUnavailable(s) = [s EXCEPT !.readiness = x]
  BY DEF SetUnavailable
<1>4. /\ x.web = "unavailable" /\ x.key = "unavailable" /\ x.cred = NoCredentials
      /\ x.all = TRUE /\ x.temp = None
  OBVIOUS
<1> HIDE DEF x
<1>5. LET t == [s EXCEPT !.readiness = x]
      IN t \in LoginState /\ t.sessions = s.sessions /\ t.active = s.active /\ t.readiness = x
  BY <1>1 DEF LoginState
<1> QED
  BY <1>1, <1>2, <1>3, <1>4, <1>5

\* What is shown is settled: other levels than "checking" stay.
Settled(r, t, web, key) ==
    /\ r = None => t = None
    /\ r # None =>
          /\ t # None /\ t.all = r.all /\ t.cred = r.cred /\ t.temp = r.temp
          /\ t.web = IF r.web = "checking" THEN web ELSE r.web
          /\ t.key = IF r.key = "checking" THEN key ELSE r.key

\* What a section settles is what Settled says: only "checking" goes.
LEMMA SettleFacts ==
    ASSUME NEW r \in {None} \cup ReadinessRecord, NEW web \in Levels, NEW key \in Levels
    PROVE  /\ Settle(r, web, key) \in {None} \cup ReadinessRecord
           /\ Settled(r, Settle(r, web, key), web, key)
<1>1. CASE r = None
  BY <1>1 DEF Settle, Settled
<1>2. CASE r # None
  <2> DEFINE x == [r EXCEPT !.web = IF r.web = "checking" THEN web ELSE r.web,
                            !.key = IF r.key = "checking" THEN key ELSE r.key]
  <2>1. Settle(r, web, key) = x
    BY <1>2 DEF Settle
  <2>2. r \in ReadinessRecord
    BY <1>2
  <2>3. /\ x \in ReadinessRecord /\ x.all = r.all /\ x.cred = r.cred /\ x.temp = r.temp
        /\ x.web = IF r.web = "checking" THEN web ELSE r.web
        /\ x.key = IF r.key = "checking" THEN key ELSE r.key
    BY <2>2 DEF ReadinessRecord
  <2>4. x # None
    BY <2>3, LoginAssumption
  <2> HIDE DEF x
  <2> QED
    BY <1>2, <2>1, <2>3, <2>4 DEF Settled
<1> QED
  BY <1>1, <1>2

\* release_profile gives back only the reservation it is asked about.
LEMMA ReleaseFacts ==
    ASSUME NEW s \in LoginState, NEW id
    PROVE  LET t == Release(s, id)
           IN /\ t \in LoginState /\ t.sessions = s.sessions /\ t.readiness = s.readiness
              /\ t.active = IF s.active = id THEN None ELSE s.active
BY DEF Release, LoginState, Owners

\* cancel_profile_operation settles, or drops, what is shown.
LEMMA CancelFacts ==
    ASSUME NEW s \in LoginState, NEW id, s.active = id
    PROVE  LET t == Cancel(s, id)
           IN /\ t \in LoginState /\ t.sessions = s.sessions /\ t.active = None
              /\ \/ t.readiness = None
                 \/ Settled(s.readiness, t.readiness, "unavailable", "unavailable")
<1> DEFINE y == Settle(s.readiness, "unavailable", "unavailable")
           x == IF s.readiness # None /\ s.readiness.temp = id THEN None ELSE y
<1>1. Cancel(s, id) = [s EXCEPT !.readiness = x, !.active = None]
  BY DEF Cancel
<1>2. s.readiness \in {None} \cup ReadinessRecord
  BY DEF LoginState
<1>3. "unavailable" \in Levels
  BY DEF Levels
<1>4. /\ y \in {None} \cup ReadinessRecord
      /\ Settled(s.readiness, y, "unavailable", "unavailable")
  BY <1>2, <1>3, SettleFacts
<1> HIDE DEF y
<1>5. x \in {None} \cup ReadinessRecord /\ x \in {None, y}
  BY <1>4
<1> HIDE DEF x
<1>6. LET t == [s EXCEPT !.readiness = x, !.active = None]
      IN t \in LoginState /\ t.sessions = s.sessions /\ t.active = None /\ t.readiness = x
  BY <1>5 DEF LoginState, Owners
<1> QED
  BY <1>1, <1>4, <1>5, <1>6

\* Only the session of o is different, and it is x.
Touches(s, t, o, x) ==
    /\ t.sessions[o] = x
    /\ \A j \in Ops \ {o} : t.sessions[j] = s.sessions[j]

Ended(x, result) == [x EXCEPT !.state = result, !.done = TRUE]

\* Writing one session leaves the others and the profile alone.
LEMMA SessionUpdate ==
    ASSUME NEW s \in LoginState, NEW o \in Ops, NEW x \in Session
    PROVE  LET t == [s EXCEPT !.sessions[o] = x]
           IN /\ t \in LoginState /\ t.active = s.active /\ t.readiness = s.readiness
              /\ Touches(s, t, o, x)
BY DEF LoginState, Touches

Results == {"pending", "ready", "expired", "error"}

\* Ending a session changes nothing else.
LEMMA FinishFacts ==
    ASSUME NEW s \in LoginState, NEW o \in Ops, NEW result \in Results
    PROVE  LET t == Finish(s, o, result)
               x == Ended(s.sessions[o], result)
           IN /\ t \in LoginState /\ t.active = s.active /\ t.readiness = s.readiness
              /\ Touches(s, t, o, x)
              /\ x \in Session /\ x.state = result /\ x.done
              /\ x.finishing = s.sessions[o].finishing
<1> DEFINE x == Ended(s.sessions[o], result)
<1>1. s.sessions[o] \in Session
  BY StateTypes
<1>2. /\ x \in Session /\ x.state = result /\ x.done
      /\ x.finishing = s.sessions[o].finishing
  BY <1>1 DEF Session, Ended, Results
<1>3. Finish(s, o, result) = [s EXCEPT !.sessions[o] = x]
  BY DEF Finish, Ended, LoginState
<1> HIDE DEF x
<1> QED
  BY <1>2, <1>3, SessionUpdate DEF x

\* The session of o ends with this result and the profile is free.
Closes(s, t, o, result) ==
    /\ t \in LoginState /\ t.active = None
    /\ t.sessions[o].state = result /\ t.sessions[o].done /\ ~t.sessions[o].finishing
    /\ \A j \in Ops \ {o} : t.sessions[j] = s.sessions[j]

Closed(s, o, result, r) ==
    [Finish(s, o, result) EXCEPT !.sessions[o].finishing = FALSE, !.readiness = r, !.active = None]

ClosedUnclaimed(s, o, result, r) ==
    [Finish(s, o, result) EXCEPT !.readiness = r, !.active = None]

\* A section that ends a session and frees the profile does exactly that.
LEMMA CloseFacts ==
    ASSUME NEW s \in LoginState, NEW o \in Ops, NEW result \in Results,
           NEW r \in {None} \cup ReadinessRecord
    PROVE  /\ Closes(s, Closed(s, o, result, r), o, result)
           /\ Closed(s, o, result, r).readiness = r
           /\ ~s.sessions[o].finishing =>
                 /\ Closes(s, ClosedUnclaimed(s, o, result, r), o, result)
                 /\ ClosedUnclaimed(s, o, result, r).readiness = r
<1> DEFINE f == Finish(s, o, result)
           x == [f.sessions[o] EXCEPT !.finishing = FALSE]
<1>1. /\ f \in LoginState /\ \A j \in Ops \ {o} : f.sessions[j] = s.sessions[j]
      /\ f.sessions[o] \in Session /\ f.sessions[o].state = result /\ f.sessions[o].done
      /\ f.sessions[o].finishing = s.sessions[o].finishing
  BY FinishFacts DEF Touches
<1> HIDE DEF f
<1>2. x \in Session /\ x.state = result /\ x.done /\ ~x.finishing
  BY <1>1 DEF Session
<1>3. None \in Owners
  BY DEF Owners
<1>4. [f EXCEPT !.sessions[o].finishing = FALSE, !.readiness = r, !.active = None]
         = [f EXCEPT !.sessions[o] = x, !.readiness = r, !.active = None]
  BY <1>1 DEF LoginState
<1>5. LET t == [f EXCEPT !.sessions[o] = x, !.readiness = r, !.active = None]
      IN Closes(s, t, o, result) /\ t.readiness = r
  <2> HIDE DEF x
  <2>1. LET t == [f EXCEPT !.sessions[o] = x, !.readiness = r, !.active = None]
        IN /\ t \in LoginState /\ t.active = None /\ t.readiness = r
           /\ Touches(f, t, o, x)
    BY <1>1, <1>2, <1>3 DEF LoginState, Touches
  <2> QED
    BY <1>1, <1>2, <2>1 DEF Closes, Touches
<1>6. LET t == [f EXCEPT !.readiness = r, !.active = None]
      IN t \in LoginState /\ t.active = None /\ t.readiness = r /\ t.sessions = f.sessions
  BY <1>1, <1>3 DEF LoginState
<1> HIDE DEF x
<1> QED
  BY <1>1, <1>4, <1>5, <1>6 DEF Closes, Closed, ClosedUnclaimed, f

\* complete_claimed_session.
LEMMA CompleteFacts ==
    ASSUME NEW s \in LoginState, NEW o \in Ops, NEW saved \in BOOLEAN
    PROVE  LET t == CompleteClaimed(s, o, saved)
           IN /\ t \in LoginState
              /\ ~IsClaimed(s, o) => t = s
              /\ IsClaimed(s, o) =>
                    /\ Closes(s, t, o, IF saved THEN "ready" ELSE "error")
                    /\ saved => t.readiness = s.readiness
                    /\ ~saved => Settled(s.readiness, t.readiness,
                                         IF o \in Starts THEN "unavailable" ELSE "checking",
                                         IF o \in Starts THEN "checking" ELSE "unavailable")
<1>1. CASE ~IsClaimed(s, o)
  BY <1>1 DEF CompleteClaimed
<1>2. CASE IsClaimed(s, o)
  <2> DEFINE result == IF saved THEN "ready" ELSE "error"
             web == IF o \in Starts THEN "unavailable" ELSE "checking"
             key == IF o \in Starts THEN "checking" ELSE "unavailable"
             y == Settle(s.readiness, web, key)
             r == IF saved THEN s.readiness ELSE y
  <2>1. result \in Results /\ web \in Levels /\ key \in Levels
    BY DEF Results, Levels
  <2>2. s.readiness \in {None} \cup ReadinessRecord
    BY DEF LoginState
  <2>3. y \in {None} \cup ReadinessRecord /\ Settled(s.readiness, y, web, key)
    <3> HIDE DEF web, key
    <3> QED
      BY <2>1, <2>2, SettleFacts
  <2>4. Finish(s, o, result).readiness = s.readiness
    <3> HIDE DEF result
    <3> QED
      BY <2>1, FinishFacts
  <2>5. CompleteClaimed(s, o, saved) = Closed(s, o, result, r)
    BY <1>2, <2>4 DEF CompleteClaimed, Closed
  <2> HIDE DEF y
  <2>6. r \in {None} \cup ReadinessRecord /\ (saved => r = s.readiness) /\ (~saved => r = y)
    BY <2>2, <2>3
  <2> HIDE DEF result, r
  <2>7. Closes(s, Closed(s, o, result, r), o, result) /\ Closed(s, o, result, r).readiness = r
    BY <2>1, <2>6, CloseFacts
  <2> QED
    BY <1>2, <2>3, <2>5, <2>6, <2>7 DEF Closes, result
<1> QED
  BY <1>1, <1>2

-----------------------------------------------------------------------------
(* expire_sessions and prune_terminal_sessions, which every look at the     *)
(* sessions begins with: sessions only end or go, a reservation only goes   *)
(* with the session that held it, and what is shown only settles.           *)

Older(x, y) ==
    \/ y = x
    \/ x.state = "pending" /\ ~x.finishing /\ y.state = "expired" /\ y.done /\ ~y.finishing
    \/ x.state # "none" /\ ~x.finishing /\ y = NoSession

Eased(r, t) ==
    /\ r = None <=> t = None
    /\ r # None =>
          /\ t.all = r.all /\ t.cred = r.cred /\ t.temp = r.temp
          /\ t.web = r.web \/ (r.web = "checking" /\ t.web = "loginRequired")
          /\ t.key = r.key \/ (r.key = "checking" /\ t.key = "loginRequired")

\* The session of j was holding the profile when it ended.
Lapsed(s, t, j) ==
    /\ s.active = Login(j) /\ IsPending(s, j) /\ ~s.sessions[j].finishing /\ ~IsPending(t, j)
    /\ t.readiness # None =>
          /\ j \in Starts => t.readiness.web # "checking"
          /\ j \in KeyStarts => t.readiness.key # "checking"

Tidied(s, t) ==
    /\ t \in LoginState
    /\ \A j \in Ops : Older(s.sessions[j], t.sessions[j])
    /\ \A j \in Ops : IsPending(s, j) /\ ~IsPending(t, j) => t.active # Login(j)
    /\ t.active # s.active =>
          t.active = None /\ \E j \in Starts \cup KeyStarts : Lapsed(s, t, j)
    /\ Eased(s.readiness, t.readiness)

\* expire_sessions only tidies, and leaves no session that is due and unclaimed.
LEMMA ExpireFacts ==
    ASSUME NEW s \in LoginState, late \subseteq Starts \cup KeyStarts
    PROVE  /\ Tidied(s, ExpireSessions(s))
           /\ \A o \in late : IsPending(ExpireSessions(s), o) => ExpireSessions(s).sessions[o].finishing
           /\ \A j \in Ops : ExpireSessions(s).sessions[j].finishing = s.sessions[j].finishing
<1> DEFINE due == {o \in late : IsPending(s, o) /\ ~s.sessions[o].finishing}
           e == ExpireSessions(s)
           web == IF due \cap Starts # {} THEN "loginRequired" ELSE "checking"
           key == IF due \cap KeyStarts # {} THEN "loginRequired" ELSE "checking"
           y == Settle(s.readiness, web, key)
           ss == [o \in Ops |-> IF o \in due THEN Ended(s.sessions[o], "expired") ELSE s.sessions[o]]
           a == IF \E o \in due : s.active = Login(o) THEN None ELSE s.active
<1>1. e = [sessions |-> ss, active |-> a, readiness |-> y]
  BY DEF ExpireSessions, Ended
<1>2. due \subseteq Ops /\ due \subseteq Starts \cup KeyStarts
  BY DEF Ops
<1>3. s.readiness \in {None} \cup ReadinessRecord /\ web \in Levels /\ key \in Levels
  BY DEF LoginState, Levels
<1>4. y \in {None} \cup ReadinessRecord /\ Settled(s.readiness, y, web, key)
  <2> HIDE DEF web, key
  <2> QED
    BY <1>3, SettleFacts
<1> HIDE DEF y
<1>5. \A j \in Ops : /\ s.sessions[j] \in Session
                     /\ Ended(s.sessions[j], "expired") \in Session
                     /\ Ended(s.sessions[j], "expired").state = "expired"
                     /\ Ended(s.sessions[j], "expired").done
                     /\ Ended(s.sessions[j], "expired").finishing = s.sessions[j].finishing
  BY FinishFacts, StateTypes DEF Results
<1>6. ss \in [Ops -> Session]
  BY <1>5
<1>7. a \in Owners
  BY DEF LoginState, Owners
<1>8. e \in LoginState /\ e.sessions = ss /\ e.active = a /\ e.readiness = y
  BY <1>1, <1>4, <1>6, <1>7 DEF LoginState
<1>9. \A j \in Ops : /\ j \in due => e.sessions[j] = Ended(s.sessions[j], "expired")
                     /\ j \notin due => e.sessions[j] = s.sessions[j]
  BY <1>8
<1>10. \A j \in due : IsPending(s, j) /\ ~s.sessions[j].finishing /\ ~IsPending(e, j)
  BY <1>2, <1>5, <1>9 DEF IsPending
<1>11. \A j \in Ops : /\ Older(s.sessions[j], e.sessions[j])
                      /\ e.sessions[j].finishing = s.sessions[j].finishing
                      /\ j \in due => e.sessions[j].state = "expired"
  BY <1>5, <1>9, <1>10 DEF Older, IsPending
<1>12. ASSUME NEW j \in Ops, IsPending(s, j), ~IsPending(e, j)
       PROVE  e.active # Login(j)
  <2>1. j \in due
    BY <1>9, <1>12 DEF IsPending
  <2>2. CASE s.active = Login(j)
    BY <1>8, <2>1, <2>2, NoneIsNoOwner
  <2>3. CASE s.active # Login(j)
    BY <1>8, <2>3, NoneIsNoOwner
  <2> QED
    BY <2>2, <2>3
<1>13. Eased(s.readiness, e.readiness)
  BY <1>4, <1>8 DEF Settled, Eased
<1>14. ASSUME e.active # s.active
       PROVE  e.active = None /\ \E j \in Starts \cup KeyStarts : Lapsed(s, e, j)
  <2>1. PICK j \in due : s.active = Login(j) /\ e.active = None
    BY <1>8, <1>14
  <2>2. j \in Starts => web = "loginRequired"
    BY <2>1
  <2>3. j \in KeyStarts => key = "loginRequired"
    BY <2>1
  <2> HIDE DEF web, key
  <2>4. e.readiness # None => /\ j \in Starts => e.readiness.web # "checking"
                              /\ j \in KeyStarts => e.readiness.key # "checking"
    BY <1>4, <1>8, <2>2, <2>3 DEF Settled
  <2>5. Lapsed(s, e, j)
    BY <1>10, <2>1, <2>4 DEF Lapsed
  <2> QED
    BY <1>2, <2>1, <2>5
<1>15. ASSUME NEW o \in late, IsPending(e, o)
       PROVE  e.sessions[o].finishing
  <2>1. o \in Ops
    BY DEF Ops
  <2>2. o \notin due
    BY <1>10, <1>15
  <2>3. IsPending(s, o) /\ e.sessions[o] = s.sessions[o]
    BY <1>9, <1>15, <2>1, <2>2 DEF IsPending
  <2> QED
    BY <2>2, <2>3
<1> HIDE DEF e
<1>16. Tidied(s, e)
  BY <1>8, <1>11, <1>12, <1>13, <1>14 DEF Tidied
<1> QED
  BY <1>11, <1>15, <1>16 DEF e

\* ... and so does prune_terminal_sessions after it.
LEMMA TidyFacts ==
    ASSUME NEW s \in LoginState, late \subseteq Starts \cup KeyStarts,
           NEW gone \in SUBSET Prunable(ExpireSessions(s))
    PROVE  Tidied(s, Forget(ExpireSessions(s), gone))
<1> DEFINE e == ExpireSessions(s)
           t == Forget(e, gone)
<1>1. Tidied(s, e)
  BY ExpireFacts
<1>2. \A j \in Ops : e.sessions[j].finishing = s.sessions[j].finishing
  BY ExpireFacts
<1>3. e \in LoginState
  BY <1>1 DEF Tidied
<1>4. \A j \in gone : j \in Ops /\ e.sessions[j].state \notin {"none", "pending"} /\ ~e.sessions[j].finishing
  BY DEF Prunable
<1> HIDE DEF e
<1> DEFINE ss == [j \in Ops |-> IF j \in gone THEN NoSession ELSE e.sessions[j]]
<1>5. t = [e EXCEPT !.sessions = ss]
  BY DEF Forget
<1>6. ss \in [Ops -> Session]
  BY <1>3, SessionTypes, StateTypes
<1>7. /\ t \in LoginState /\ t.active = e.active /\ t.readiness = e.readiness
      /\ t.sessions = ss
  BY <1>3, <1>5, <1>6 DEF LoginState
<1>8. \A j \in Ops : t.sessions[j] = IF j \in gone THEN NoSession ELSE e.sessions[j]
  BY <1>7
<1> HIDE DEF t, ss
<1>9. ASSUME NEW j \in Ops
      PROVE  Older(s.sessions[j], t.sessions[j])
  <2>1. CASE j \in gone
    <3>1. s.sessions[j].state # "none" /\ ~s.sessions[j].finishing
      BY <1>1, <1>2, <1>4, <2>1, SessionTypes DEF Tidied, Older
    <3> QED
      BY <1>8, <2>1, <3>1 DEF Older
  <2>2. CASE j \notin gone
    BY <1>1, <1>8, <2>2 DEF Tidied
  <2> QED
    BY <2>1, <2>2
<1>10. \A j \in Ops : IsPending(t, j) <=> IsPending(e, j)
  BY <1>4, <1>8, SessionTypes DEF IsPending
<1>11. \A j \in Ops : IsPending(s, j) /\ ~IsPending(t, j) => t.active # Login(j)
  BY <1>1, <1>7, <1>10 DEF Tidied
<1>12. \A j \in Starts \cup KeyStarts : Lapsed(s, e, j) => Lapsed(s, t, j)
  BY <1>7, <1>10 DEF Lapsed, Ops
<1>13. Tidied(s, t)
  BY <1>1, <1>7, <1>9, <1>11, <1>12 DEF Tidied
<1> QED
  BY <1>13 DEF t, e

\* expire_browser_completion, for a completion that is claimed and late.
LEMMA ExpireBrowserFacts ==
    ASSUME NEW s \in LoginState, NEW o \in Ops
    PROVE  LET t == ExpireBrowserCompletion(s, o)
           IN /\ Closes(s, t, o, "expired")
              /\ Settled(s.readiness, t.readiness, "checking", "loginRequired")
<1> DEFINE y == Settle(s.readiness, "checking", "loginRequired")
<1>1. "expired" \in Results /\ "checking" \in Levels /\ "loginRequired" \in Levels
  BY DEF Results, Levels
<1>2. s.readiness \in {None} \cup ReadinessRecord
  BY DEF LoginState
<1>3. y \in {None} \cup ReadinessRecord /\ Settled(s.readiness, y, "checking", "loginRequired")
  BY <1>1, <1>2, SettleFacts
<1>4. Finish(s, o, "expired").readiness = s.readiness
  BY <1>1, FinishFacts
<1>5. ExpireBrowserCompletion(s, o) = Closed(s, o, "expired", y)
  BY <1>4 DEF ExpireBrowserCompletion, Closed
<1> HIDE DEF y
<1> QED
  BY <1>1, <1>3, <1>5, CloseFacts

\* finish_without_store.
LEMMA FinishWithoutFacts ==
    ASSUME NEW s \in LoginState, NEW o \in Ops, NEW result \in {"expired", "error"},
           late \subseteq Starts \cup KeyStarts
    PROVE  LET e == ExpireSessions(s)
               t == FinishWithoutStore(s, o, result)
           IN \/ t = e
              \/ /\ e.active = Login(o) /\ IsPending(e, o) /\ ~e.sessions[o].finishing
                 /\ Closes(e, t, o, result)
                 /\ \E level \in {"loginRequired", "unavailable"} :
                       Settled(e.readiness, t.readiness, level, level)
<1> DEFINE e == ExpireSessions(s)
           level == IF result = "expired" THEN "loginRequired" ELSE "unavailable"
           y == Settle(e.readiness, level, level)
<1>1. result \in Results /\ level \in Levels /\ level \in {"loginRequired", "unavailable"}
  BY DEF Results, Levels
<1>2. e \in LoginState
  BY ExpireFacts DEF Tidied
<1>3. e.readiness \in {None} \cup ReadinessRecord
  BY <1>2 DEF LoginState
<1>4. Finish(e, o, result).readiness = e.readiness
  <2> HIDE DEF e
  <2> QED
    BY <1>1, <1>2, FinishFacts
<1>5. FinishWithoutStore(s, o, result) =
         IF e.active = Login(o) /\ IsPending(e, o) /\ ~e.sessions[o].finishing
         THEN ClosedUnclaimed(e, o, result, y) ELSE e
  BY <1>4 DEF FinishWithoutStore, ClosedUnclaimed
<1> HIDE DEF e, level
<1>6. y \in {None} \cup ReadinessRecord /\ Settled(e.readiness, y, level, level)
  BY <1>1, <1>3, SettleFacts
<1> HIDE DEF y
<1>7. ~e.sessions[o].finishing => /\ Closes(e, ClosedUnclaimed(e, o, result, y), o, result)
                                  /\ ClosedUnclaimed(e, o, result, y).readiness = y
  BY <1>1, <1>2, <1>6, CloseFacts
<1> QED
  BY <1>1, <1>5, <1>6, <1>7 DEF e

\* expire_session, the body of a browser session's timer.
LEMMA ExpireSessionFacts ==
    ASSUME NEW s \in LoginState, NEW o \in late, late \subseteq Starts \cup KeyStarts
    PROVE  LET e == ExpireSessions(s)
               t == ExpireSession(s, o)
           IN \/ t = e /\ ~IsPending(e, o)
              \/ /\ IsPending(e, o) /\ e.sessions[o].finishing
                 /\ t \in LoginState /\ t.readiness = e.readiness
                 /\ t.active = IF e.active = Login(o) THEN None ELSE e.active
                 /\ t.sessions[o].state = "expired" /\ t.sessions[o].done /\ t.sessions[o].finishing
                 /\ \A j \in Ops \ {o} : t.sessions[j] = e.sessions[j]
<1> DEFINE e == ExpireSessions(s)
           f == Finish(e, o, "expired")
<1>1. e \in LoginState /\ (IsPending(e, o) => e.sessions[o].finishing)
  BY ExpireFacts DEF Tidied
<1>2. ExpireSession(s, o) = IF IsPending(e, o) THEN Release(f, Login(o)) ELSE e
  BY DEF ExpireSession
<1> HIDE DEF e
<1>3. /\ f \in LoginState /\ f.active = e.active /\ f.readiness = e.readiness
      /\ f.sessions[o].state = "expired" /\ f.sessions[o].done
      /\ f.sessions[o].finishing = e.sessions[o].finishing
      /\ \A j \in Ops \ {o} : f.sessions[j] = e.sessions[j]
  <2>1. o \in Ops /\ "expired" \in Results
    BY DEF Ops, Results
  <2> QED
    BY <1>1, <2>1, FinishFacts DEF Touches
<1> HIDE DEF f
<1>4. LET t == Release(f, Login(o))
      IN /\ t \in LoginState /\ t.sessions = f.sessions /\ t.readiness = f.readiness
         /\ t.active = IF f.active = Login(o) THEN None ELSE f.active
  BY <1>3, ReleaseFacts
<1> QED
  BY <1>1, <1>2, <1>3, <1>4 DEF e

\* A code that was scanned: a session that has ended may look pending again.
LEMMA ConfirmFacts ==
    ASSUME NEW s \in LoginState, NEW o \in Ops
    PROVE  LET t == Confirm(s, o)
           IN /\ t \in LoginState /\ t.active = s.active /\ t.readiness = s.readiness
              /\ \A j \in Ops \ {o} : t.sessions[j] = s.sessions[j]
              /\ t.sessions[o].finishing = s.sessions[o].finishing
              /\ t.sessions[o].done = s.sessions[o].done
              /\ t.sessions[o].state = IF s.sessions[o].state = "none" THEN "none" ELSE "pending"
<1>1. s.sessions[o] \in Session
  BY StateTypes
<1>2. CASE s.sessions[o].state = "none"
  BY <1>2 DEF Confirm
<1>3. CASE s.sessions[o].state # "none"
  BY <1>1, <1>3 DEF Confirm, LoginState, Session
<1> QED
  BY <1>2, <1>3

-----------------------------------------------------------------------------
(* The records of an operation.                                             *)

\* What Base says of the variables, for the steps to cite.
LEMMA BaseTypes ==
    ASSUME Base
    PROVE  /\ store \in Credentials /\ binding \in Bindings /\ state \in LoginState
           /\ op \in [Ops -> OpRecords] /\ \A o \in Ops : op[o] \in OpRecords /\ Knows(op[o], o)
           /\ late \subseteq Starts \cup KeyStarts /\ edits \in 0..MaxEdits
BY DEF Base, TypeOK, OpRecords

\* An operation that is over knows nothing.
LEMMA OverFacts ==
    /\ Over \in OpRecords /\ Over.pc = "done"
    /\ \A o \in Ops : Knows(Over, o)
<1>1. /\ Over.pc = "done" /\ Over.cred = NoCredentials /\ Over.bound = None /\ Over.fresh = None
      /\ Over.web = "missing" /\ Over.failed = FALSE
  BY DEF Over, NewOp
<1>2. Over \in OpRecords
  BY CredentialTypes DEF Over, NewOp, OpRecords, Pcs, Bindings, Levels
<1> QED
  BY <1>1, <1>2 DEF Knows, Asking, Saving, Polled

\* The operation's record differs in its pc and in these fields only.
Becomes(o, x) == x \in OpRecords /\ op' = [op EXCEPT ![o] = x]

\* Moving on changes the pc of an operation only.
LEMMA GotoFacts ==
    ASSUME Base, NEW o \in Ops, NEW pc \in Pcs, Goto(o, pc)
    PROVE  \E x : /\ Becomes(o, x)
                  /\ x.pc = pc /\ x.cred = op[o].cred /\ x.bound = op[o].bound
                  /\ x.fresh = op[o].fresh /\ x.web = op[o].web /\ x.failed = op[o].failed
<1> DEFINE x == [op[o] EXCEPT !.pc = pc]
<1>1. op[o] \in OpRecords
  BY BaseTypes
<1>2. /\ x \in OpRecords
      /\ x.pc = pc /\ x.cred = op[o].cred /\ x.bound = op[o].bound
      /\ x.fresh = op[o].fresh /\ x.web = op[o].web /\ x.failed = op[o].failed
  BY <1>1 DEF OpRecords
<1>3. op' = [op EXCEPT ![o] = x]
  BY BaseTypes DEF Goto
<1> QED
  BY <1>2, <1>3 DEF Becomes

\* maintain_web's verdict changes pc, level and the flag of a failure only.
LEMMA MaintainedFacts ==
    ASSUME Base, NEW o \in Ops, NEW web \in Levels, NEW failed \in BOOLEAN,
           Maintained(o, web, failed)
    PROVE  \E x : /\ Becomes(o, x)
                  /\ x.pc = "maintained" /\ x.cred = op[o].cred /\ x.bound = op[o].bound
                  /\ x.fresh = op[o].fresh /\ x.web = web /\ x.failed = failed
<1> DEFINE x == [op[o] EXCEPT !.pc = "maintained", !.web = web, !.failed = failed]
<1>1. op[o] \in OpRecords
  BY BaseTypes
<1>2. /\ x \in OpRecords
      /\ x.pc = "maintained" /\ x.cred = op[o].cred /\ x.bound = op[o].bound
      /\ x.fresh = op[o].fresh /\ x.web = web /\ x.failed = failed
  BY <1>1 DEF OpRecords, Pcs
<1>3. op' = [op EXCEPT ![o] = x]
  BY BaseTypes DEF Maintained
<1> QED
  BY <1>2, <1>3 DEF Becomes

\* What must be said of the new record x of an operation o.
Proper(o, x) == Becomes(o, x) /\ Knows(x, o) /\ Tracks(x, binding')

\* A verdict on the Web credentials that claims nothing is always proper.
LEMMA NegativeVerdict ==
    ASSUME IInv, NEW o \in Ops, NEW web \in {"unavailable", "loginRequired"}, NEW failed \in BOOLEAN,
           Maintained(o, web, failed), op[o].pc \in Asking, binding' = binding
    PROVE  \E x : Proper(o, x) /\ x.pc = "maintained"
<1>1. web \in Levels
  BY DEF Levels
<1>2. PICK x : /\ Becomes(o, x)
               /\ x.pc = "maintained" /\ x.cred = op[o].cred /\ x.bound = op[o].bound
               /\ x.fresh = op[o].fresh /\ x.web = web /\ x.failed = failed
  BY <1>1, MaintainedFacts DEF IInv
<1>3. op[o].bound = binding
  BY DEF IInv, Sound, Synced, Tracks
<1>4. Knows(x, o)
  BY <1>2 DEF Knows, Asking, Saving, Polled
<1> QED
  BY <1>2, <1>3, <1>4 DEF Proper, Tracks, Asking

\* maintain_web may answer "ready" for a cookie whose binding was read.
LEMMA ReadyVerdict ==
    ASSUME IInv, NEW o \in Ops, Maintained(o, "ready", FALSE), op[o].pc \in Asking,
           op[o].bound = Bound(op[o].cred.web), binding' = binding
    PROVE  \E x : Proper(o, x) /\ x.pc = "maintained"
<1>1. "ready" \in Levels
  BY DEF Levels
<1>2. PICK x : /\ Becomes(o, x)
               /\ x.pc = "maintained" /\ x.cred = op[o].cred /\ x.bound = op[o].bound
               /\ x.fresh = op[o].fresh /\ x.web = "ready" /\ x.failed = FALSE
  BY <1>1, MaintainedFacts DEF IInv
<1>3. op[o].bound = binding /\ op[o].cred.web # None
  BY DEF IInv, Sound, Synced, Tracks, Base, Knows
<1>4. Knows(x, o)
  BY <1>2, <1>3 DEF Knows, Asking, Saving, Polled
<1> QED
  BY <1>2, <1>3, <1>4 DEF Proper, Tracks, Asking

\* Another question for the provider, or the next transaction.
LEMMA NextQuestion ==
    ASSUME IInv, NEW o \in Ops, NEW pc \in Asking, Goto(o, pc), op[o].pc \in Asking,
           binding' = binding,
           pc \in {"bind", "publish"} /\ op[o].bound # None =>
               op[o].bound.account = AccountOf[op[o].cred.web],
           pc \in {"refresh", "renew", "recheck", "renewing", "rebind"} => op[o].bound # None,
           pc = "refresh" => op[o].bound = Bound(op[o].cred.web),
           pc \in {"recheck", "renewing", "rebind"} => op[o].fresh # None,
           pc \in {"renewing", "rebind"} => op[o].bound.account = AccountOf[op[o].fresh]
    PROVE  \E x : Proper(o, x) /\ x.pc = pc
<1>1. pc \in Pcs
  BY DEF Pcs, Asking
<1>2. PICK x : /\ Becomes(o, x)
               /\ x.pc = pc /\ x.cred = op[o].cred /\ x.bound = op[o].bound
               /\ x.fresh = op[o].fresh /\ x.web = op[o].web /\ x.failed = op[o].failed
  BY <1>1, GotoFacts DEF IInv
<1>3. op[o].bound = binding
  BY DEF IInv, Sound, Synced, Tracks
<1>4. op[o].cred.web # None /\ op[o].web = "missing" /\ ~op[o].failed
  BY DEF IInv, Base, Knows
<1>5. Knows(x, o)
  BY <1>2, <1>4 DEF Knows, Asking, Saving, Polled
<1> QED
  BY <1>2, <1>3, <1>5 DEF Proper, Tracks, Asking

-----------------------------------------------------------------------------
(* The steps of maintain_web, and those that leave LoginState alone: the    *)
(* operation keeps the profile and has no session yet.                      *)

Inquires(o) ==
    /\ op[o].pc \in Early \ {"load"}
    /\ \E x : Proper(o, x) /\ x.pc \in Early \ {"load"}
    /\ store' \in Credentials /\ binding' \in Bindings
    /\ UNCHANGED <<state, req, late, edits>>

\* maintain_web works under the reservation and before there is a session.
LEMMA AskingIsEarly == \A pc \in Asking \cup {"maintained"} : pc \in Early \ {"load"}
BY DEF Asking, Early

\* An accepted cookie is renewed or ready (maintain_web).
LEMMA AskRefreshFacts ==
    ASSUME IInv, NEW o \in Ops, op[o].pc \in Asking, AskRefresh(o),
           op[o].bound = Bound(op[o].cred.web), binding' = binding
    PROVE  \E x : Proper(o, x) /\ x.pc \in Asking \cup {"maintained"}
<1>1. CASE op[o].cred.web \in Refreshable
  <2>1. Goto(o, "refresh") /\ "refresh" \in Asking
    BY <1>1 DEF AskRefresh, Asking
  <2>2. op[o].bound # None
    BY <1>1, BoundType, LoginAssumption
  <2> QED
    BY <2>1, <2>2, NextQuestion
<1>2. CASE op[o].cred.web \notin Refreshable
  BY <1>2, ReadyVerdict DEF AskRefresh
<1> QED
  BY <1>1, <1>2

\* account_identity's answer keeps the knowledge of the operation.
LEMMA IdentityMoves ==
    ASSUME IInv, NEW o \in Ops, Identity(o)
    PROVE  Inquires(o)
<1> USE DEF Identity
<1>1. op[o].pc \in Asking /\ binding' = binding
  BY DEF Asking
<1> DEFINE c == op[o].cred.web
           b == op[o].bound
<1>2. \/ \E web \in {"unavailable", "loginRequired"}, failed \in BOOLEAN : Maintained(o, web, failed)
      \/ b # None /\ Goto(o, "renew")
      \/ b = Bound(c) /\ AskRefresh(o)
      \/ (b # None => b.account = AccountOf[c]) /\ Goto(o, "bind")
  OBVIOUS
<1>3. \E x : Proper(o, x) /\ x.pc \in Asking \cup {"maintained"}
  <2>1. CASE \E web \in {"unavailable", "loginRequired"}, failed \in BOOLEAN : Maintained(o, web, failed)
    BY <1>1, <2>1, NegativeVerdict
  <2>2. CASE b # None /\ Goto(o, "renew")
    <3>1. "renew" \in Asking
      BY DEF Asking
    <3> QED
      BY <1>1, <2>2, <3>1, NextQuestion
  <2>3. CASE b = Bound(c) /\ AskRefresh(o)
    BY <1>1, <2>3, AskRefreshFacts
  <2>4. CASE (b # None => b.account = AccountOf[c]) /\ Goto(o, "bind")
    <3>1. "bind" \in Asking
      BY DEF Asking
    <3> QED
      BY <1>1, <2>4, <3>1, NextQuestion
  <2> QED
    BY <1>2, <2>1, <2>2, <2>3, <2>4
<1> QED
  BY <1>1, <1>3, AskingIsEarly, BaseTypes DEF Inquires, IInv

\* publish_verified_binding's look at the stored cookie does so too.
LEMMA CheckStoredMoves ==
    ASSUME IInv, NEW o \in Ops, CheckStored(o)
    PROVE  Inquires(o)
<1> USE DEF CheckStored
<1>1. op[o].pc \in Asking /\ binding' = binding /\ "publish" \in Asking
  BY DEF Asking
<1>2. op[o].bound # None => op[o].bound.account = AccountOf[op[o].cred.web]
  BY DEF IInv, Base, Knows
<1>3. \E x : Proper(o, x) /\ x.pc \in Asking \cup {"maintained"}
  <2>1. CASE Goto(o, "publish")
    BY <1>1, <1>2, <2>1, NextQuestion
  <2>2. CASE Maintained(o, "unavailable", TRUE)
    BY <1>1, <2>2, NegativeVerdict
  <2> QED
    BY <2>1, <2>2
<1> QED
  BY <1>1, <1>3, AskingIsEarly, BaseTypes DEF Inquires, IInv

\* publish_verified_binding writes a binding of the account it compared with.
LEMMA PublishBindingMoves ==
    ASSUME IInv, NEW o \in Ops, PublishBinding(o)
    PROVE  Inquires(o)
<1> USE DEF PublishBinding
<1>1. op[o].pc \in Asking
  BY DEF Asking
<1>2. CASE Maintained(o, "unavailable", TRUE) /\ UNCHANGED binding
  <2>1. \E x : Proper(o, x) /\ x.pc = "maintained"
    BY <1>1, <1>2, NegativeVerdict
  <2> QED
    BY <1>1, <1>2, <2>1, AskingIsEarly, BaseTypes DEF Inquires, IInv
<1>3. CASE binding' = Bound(op[o].cred.web) /\ ~(Maintained(o, "unavailable", TRUE) /\ UNCHANGED binding)
  <2> DEFINE w == op[o].cred.web
             x == IF w \in Refreshable THEN [op[o] EXCEPT !.bound = Bound(w), !.pc = "refresh"]
                  ELSE [op[o] EXCEPT !.bound = Bound(w), !.pc = "maintained", !.web = "ready"]
  <2>1. op[o] \in OpRecords /\ w \in Webs /\ op[o].web = "missing" /\ ~op[o].failed
    BY <1>1, BaseTypes DEF IInv, Base, Knows, OpRecords, Credentials
  <2>2. Bound(w) \in Bindings /\ Bound(w) # None
    BY <2>1, BoundType
  <2>3. op' = [op EXCEPT ![o] = x]
    BY <1>3, BaseTypes DEF IInv
  <2>4. /\ x \in OpRecords /\ x.bound = Bound(w) /\ x.cred = op[o].cred
        /\ \/ x.pc = "refresh" /\ x.web = "missing" /\ ~x.failed
           \/ x.pc = "maintained" /\ x.web = "ready" /\ ~x.failed
    <3> HIDE DEF w
    <3>1. CASE w \in Refreshable
      BY <2>1, <2>2, <3>1 DEF OpRecords, Pcs, Levels
    <3>2. CASE w \notin Refreshable
      BY <2>1, <2>2, <3>2 DEF OpRecords, Pcs, Levels
    <3> QED
      BY <3>1, <3>2
  <2>5. w # None
    BY <2>1, LoginAssumption
  <2> HIDE DEF x
  <2>6. Knows(x, o)
    BY <2>2, <2>4, <2>5 DEF Knows, Asking, Saving, Polled
  <2>7. Proper(o, x) /\ x.pc \in Early \ {"load"}
    BY <1>3, <2>3, <2>4, <2>6 DEF Proper, Becomes, Tracks, Early, Asking
  <2> QED
    BY <1>1, <1>3, <2>2, <2>7, AskingIsEarly, BaseTypes DEF Inquires, IInv
<1> QED
  BY <1>2, <1>3

\* refresh_web_cookie's answer: a fresh cookie of any account, or none.
LEMMA RefreshMoves ==
    ASSUME IInv, NEW o \in Ops, Refresh(o)
    PROVE  Inquires(o)
<1> USE DEF Refresh
<1>1. op[o].pc \in Asking /\ binding' = binding
  BY DEF Asking
<1>2. op[o].pc = "refresh" => op[o].bound = Bound(op[o].cred.web)
  BY DEF IInv, Base, Knows
<1>3. op[o].bound # None /\ op[o].bound = binding
  BY <1>1 DEF IInv, Base, Knows, Sound, Synced, Tracks
<1>4. \E x : Proper(o, x) /\ x.pc \in Asking \cup {"maintained"}
  <2>1. CASE \E w \in Refreshable : op' = [op EXCEPT ![o].pc = "recheck", ![o].fresh = w]
    <3>1. PICK w \in Refreshable : op' = [op EXCEPT ![o].pc = "recheck", ![o].fresh = w]
      BY <2>1
    <3>2. w \in Webs /\ w # None
      BY LoginAssumption
    <3> DEFINE x == [op[o] EXCEPT !.pc = "recheck", !.fresh = w]
    <3>3. op[o] \in OpRecords /\ op[o].web = "missing" /\ ~op[o].failed /\ op[o].cred.web # None
      BY <1>1, BaseTypes DEF IInv, Base, Knows
    <3>4. /\ x \in OpRecords /\ x.pc = "recheck" /\ x.fresh = w /\ x.bound = op[o].bound
          /\ x.cred = op[o].cred /\ x.web = op[o].web /\ x.failed = op[o].failed
      BY <3>2, <3>3 DEF OpRecords, Pcs
    <3>5. op' = [op EXCEPT ![o] = x]
      <4>1. op \in [Ops -> OpRecords]
        BY BaseTypes DEF IInv
      <4> HIDE DEF Refresh
      <4> QED
        BY ONLY <3>1, <4>1
    <3> HIDE DEF x
    <3>6. Knows(x, o)
      BY <1>3, <3>2, <3>3, <3>4 DEF Knows, Asking, Saving, Polled
    <3> QED
      BY <1>1, <1>3, <3>4, <3>5, <3>6 DEF Proper, Becomes, Tracks, Asking
  <2>2. CASE op[o].pc = "refresh" /\ Maintained(o, "ready", FALSE)
    BY <1>1, <1>2, <2>2, ReadyVerdict
  <2>3. CASE Maintained(o, "loginRequired", FALSE) \/ Maintained(o, "unavailable", TRUE)
    BY <1>1, <2>3, NegativeVerdict
  <2> QED
    BY <2>1, <2>2, <2>3
<1> QED
  BY <1>1, <1>4, AskingIsEarly, BaseTypes DEF Inquires, IInv

\* A fresh cookie goes on only if it is of the bound account.
LEMMA RecheckMoves ==
    ASSUME IInv, NEW o \in Ops, Recheck(o)
    PROVE  Inquires(o)
<1> USE DEF Recheck
<1>1. op[o].pc \in Asking /\ binding' = binding /\ "renewing" \in Asking
  BY DEF Asking
<1>2. op[o].bound # None /\ op[o].fresh # None
  BY DEF IInv, Base, Knows
<1>3. \/ AccountOf[op[o].fresh] = op[o].bound.account /\ Goto(o, "renewing")
      \/ \E web \in {"unavailable", "loginRequired"}, failed \in BOOLEAN : Maintained(o, web, failed)
  OBVIOUS
<1>4. \E x : Proper(o, x) /\ x.pc \in Asking \cup {"maintained"}
  <2>1. CASE AccountOf[op[o].fresh] = op[o].bound.account /\ Goto(o, "renewing")
    BY <1>1, <1>2, <2>1, NextQuestion
  <2>2. CASE \E web \in {"unavailable", "loginRequired"}, failed \in BOOLEAN : Maintained(o, web, failed)
    BY <1>1, <2>2, NegativeVerdict
  <2> QED
    BY <1>3, <2>1, <2>2
<1> QED
  BY <1>1, <1>4, AskingIsEarly, BaseTypes DEF Inquires, IInv

\* Storing the fresh cookie leaves binding and readiness alone.
LEMMA StoreRefreshedMoves ==
    ASSUME IInv, NEW o \in Ops, StoreRefreshed(o)
    PROVE  Inquires(o)
<1> USE DEF StoreRefreshed
<1>1. op[o].pc \in Asking /\ binding' = binding /\ "rebind" \in Asking
  BY DEF Asking
<1>2. /\ op[o].bound # None /\ op[o].fresh # None
      /\ op[o].bound.account = AccountOf[op[o].fresh]
  BY DEF IInv, Base, Knows
<1>3. op[o].fresh \in Webs \cup {None}
  BY BaseTypes DEF IInv, OpRecords
<1>4. store' \in Credentials
  BY <1>3, CredentialTypes, BaseTypes DEF IInv
<1>5. \E x : Proper(o, x) /\ x.pc \in Asking \cup {"maintained"}
  <2>1. CASE Goto(o, "rebind")
    BY <1>1, <1>2, <2>1, NextQuestion
  <2>2. CASE Maintained(o, "unavailable", TRUE)
    BY <1>1, <2>2, NegativeVerdict
  <2> QED
    BY <2>1, <2>2
<1> QED
  BY <1>1, <1>4, <1>5, AskingIsEarly, BaseTypes DEF Inquires, IInv

\* The fresh cookie's binding is of the account it was compared with.
LEMMA BindRefreshedMoves ==
    ASSUME IInv, NEW o \in Ops, BindRefreshed(o)
    PROVE  Inquires(o)
<1> USE DEF BindRefreshed
<1>1. op[o].pc \in Asking
  BY DEF Asking
<1>2. CASE Maintained(o, "unavailable", TRUE) /\ UNCHANGED binding
  <2>1. \E x : Proper(o, x) /\ x.pc = "maintained"
    BY <1>1, <1>2, NegativeVerdict
  <2> QED
    BY <1>1, <1>2, <2>1, AskingIsEarly, BaseTypes DEF Inquires, IInv
<1>3. CASE binding' = Bound(op[o].fresh) /\ ~(Maintained(o, "unavailable", TRUE) /\ UNCHANGED binding)
  <2> DEFINE w == op[o].fresh
             c == [op[o].cred EXCEPT !.web = w]
             x == [op[o] EXCEPT !.pc = "maintained", !.web = "ready", !.cred = c, !.bound = Bound(w)]
  <2>1. op[o] \in OpRecords /\ w \in Webs /\ ~op[o].failed /\ op[o].cred \in Credentials
    BY BaseTypes DEF IInv, Base, Knows, OpRecords, Asking
  <2>2. Bound(w) \in Bindings /\ Bound(w) # None /\ w # None
    BY <2>1, BoundType, LoginAssumption
  <2>3. op' = [op EXCEPT ![o] = x]
    <3>1. op' = [op EXCEPT ![o] = [@ EXCEPT !.pc = "maintained", !.web = "ready",
                                            !.cred.web = w, !.bound = Bound(w)]]
      BY <1>3
    <3>2. x = [op[o] EXCEPT !.pc = "maintained", !.web = "ready", !.cred.web = w, !.bound = Bound(w)]
      BY <2>1 DEF OpRecords
    <3>3. op \in [Ops -> OpRecords]
      BY BaseTypes DEF IInv
    <3> QED
      BY ONLY <3>1, <3>2, <3>3
  <2>4. c \in Credentials /\ c.web = w
    BY <2>1 DEF Credentials
  <2> HIDE DEF c, w
  <2>5. /\ x \in OpRecords /\ x.bound = Bound(w) /\ x.cred = c
        /\ x.pc = "maintained" /\ x.web = "ready" /\ ~x.failed
    BY <2>1, <2>2, <2>4 DEF OpRecords, Pcs, Levels
  <2> HIDE DEF x
  <2>6. Knows(x, o)
    BY <2>2, <2>4, <2>5 DEF Knows, Asking, Saving, Polled
  <2>7. Proper(o, x) /\ x.pc \in Early \ {"load"}
    BY <1>3, <2>3, <2>5, <2>6 DEF Proper, Becomes, Tracks, Early, Asking, w
  <2> QED
    BY <1>1, <1>3, <2>2, <2>7, AskingIsEarly, BaseTypes DEF Inquires, IInv, w
<1> QED
  BY <1>2, <1>3

-----------------------------------------------------------------------------
(* What the sections do to the invariant.                                   *)

ReqRecords == [pc : {"idle", "identity", "worker", "done"},
               worker : {"none", "claim", "write", "snapshot", "publish", "done"},
               phase : {"active", "cancelled", "committing", "finished"},
               op : KeyStarts \cup {None}, key : Keys \cup {None},
               cred : Credentials, bound : Bindings,
               web : Levels, settled : BOOLEAN]

Callbacks(q) == q \in [Requests -> ReqRecords] /\ \A k \in Requests : Carries(q[k])

\* A session that has ended does not complete nor take the profile again.
Keeps(s, t) ==
    \A o \in Ops : s.sessions[o].done =>
        /\ t.sessions[o].state \in {"none", s.sessions[o].state}
              \/ {s.sessions[o].state, t.sessions[o].state} = {"expired", "pending"}
        /\ t.active = Login(o) => s.active = Login(o)

\* A live callback or worker belongs to a browser session.
LEMMA LiveFacts ==
    ASSUME NEW q, Callbacks(q), NEW k \in Requests
    PROVE  /\ q[k] \in ReqRecords
           /\ Live(q[k]) => q[k].op \in KeyStarts /\ q[k].op \in Ops
           /\ q[k].worker = "publish" => Live(q[k])
<1>1. q[k] \in ReqRecords /\ Carries(q[k])
  BY DEF Callbacks
<1>2. q[k].op \in KeyStarts \cup {None}
  BY <1>1 DEF ReqRecords
<1>3. Live(q[k]) => q[k].op # None
  BY <1>1 DEF Live, Carries, ReqRecords
<1>4. q[k].worker = "publish" => Live(q[k])
  BY <1>1 DEF Live, Carries
<1> QED
  BY <1>1, <1>2, <1>3, <1>4 DEF Ops

\* Tidying keeps the invariant, also between two sections of one step.
LEMMA TidyKeeps ==
    ASSUME NEW s \in LoginState, NEW t, NEW p, NEW q, NEW b,
           Callbacks(q), Sound(s, p, q, b), Tidied(s, t)
    PROVE  Sound(t, p, q, b) /\ Keeps(s, t) /\ (NoStuck(t) <=> NoStuck(s))
<1>1. \A j \in Ops : /\ s.sessions[j] \in Session /\ t.sessions[j] \in Session
                     /\ Older(s.sessions[j], t.sessions[j])
  BY StateTypes DEF Tidied
<1>2. t.active = s.active \/ t.active = None
  BY DEF Tidied
<1>3. ASSUME NEW j \in Ops
      PROVE  /\ s.sessions[j].finishing \/ s.sessions[j].state = "none" => t.sessions[j] = s.sessions[j]
             /\ t.sessions[j].finishing => t.sessions[j] = s.sessions[j]
             /\ IsPending(t, j) => t.sessions[j] = s.sessions[j]
             /\ t.sessions[j].done => s.sessions[j].done \/ (IsPending(s, j) /\ ~IsPending(t, j))
             /\ t.sessions[j].state \in {"none", "expired", s.sessions[j].state}
             /\ t.sessions[j].state \notin {"none", "pending", "expired"} => t.sessions[j] = s.sessions[j]
             /\ t.sessions[j].state = "expired" => t.sessions[j] = s.sessions[j] \/ t.sessions[j].done
  BY <1>1, SessionTypes DEF Older, IsPending
<1>4. ASSUME NEW j \in Ops, s.active = Login(j),
             s.sessions[j].finishing \/ s.sessions[j].state = "none"
      PROVE  t.active = Login(j)
  BY <1>4, OwnersDiffer DEF Tidied, Lapsed, IsPending, Ops
<1>5. ASSUME NEW j \in Ops
      PROVE  s.active = Verifier(j) <=> t.active = Verifier(j)
  BY <1>2, OwnersDiffer, NoneIsNoOwner DEF Tidied, Lapsed, Ops
<1>6. \A j \in Ops : /\ IsClaimed(s, j) <=> IsClaimed(t, j)
                     /\ Stuck(s, j) <=> Stuck(t, j)
  BY <1>2, <1>3, <1>4, NoneIsNoOwner DEF IsClaimed, IsPending, Stuck
<1>7. Control(t, p)
  <2> SUFFICES ASSUME NEW o \in Ops PROVE Placed(t, p[o], o)
    BY DEF Control
  <2>1. Placed(s, p[o], o)
    BY DEF Sound, Control
  <2>2. t.active = Login(o) => s.active = Login(o)
    BY <1>2, NoneIsNoOwner
  <2>3. IsPending(s, o) /\ ~IsPending(t, o) => t.active # Login(o)
    BY DEF Tidied
  <2>4. p[o].pc \in {"idle"} \cup Early => t.sessions[o] = NoSession
    BY <1>3, <2>1, SessionTypes DEF Placed
  <2>5. p[o].pc \in Early => t.active = Login(o)
    BY <1>4, <2>1, SessionTypes DEF Placed
  <2>6. p[o].pc \in Saving => IsClaimed(t, o)
    BY <1>6, <2>1 DEF Placed
  <2>7. p[o].pc = "probe" <=> t.active = Verifier(o)
    BY <1>5, <2>1 DEF Placed
  <2>8. p[o].pc \in Polled => t.sessions[o].state \in {"none", "pending", "expired"}
    BY <1>3, <2>1 DEF Placed
  <2>9. t.sessions[o].state \notin {"none", "pending"} => t.sessions[o].done
    BY <1>3, <2>1 DEF Placed
  <2>10. t.sessions[o].done => t.active # Login(o)
    BY <1>3, <2>1, <2>2, <2>3 DEF Placed
  <2>11. o \in KeyStarts /\ t.active = Login(o) /\ IsPending(t, o) => p[o].pc = "waiting"
    BY <1>3, <2>1, <2>2 DEF IsPending, Placed
  <2> QED
    BY <2>4, <2>5, <2>6, <2>7, <2>8, <2>9, <2>10, <2>11 DEF Placed

<1>8. Claims(t, p, q)
  <2>1. ASSUME NEW k \in Requests, Live(q[k])
        PROVE  Stands(t, p, q[k])
    <3>1. q[k].op \in Ops /\ Stands(s, p, q[k])
      BY <2>1, LiveFacts DEF Sound, Claims
    <3>2. t.sessions[q[k].op] = s.sessions[q[k].op]
      BY <1>3, <3>1 DEF Stands
    <3> QED
      BY <1>6, <3>1, <3>2 DEF Stands
  <2> QED
    BY <2>1 DEF Sound, Claims
<1>9. ASSUME NoStuck(t)
      PROVE  Honest(t, p, q, b)
  <2>1. Honest(s, p, q, b)
    BY <1>6, <1>9 DEF Sound, NoStuck
  <2>2. ASSUME t.readiness # None
        PROVE  /\ Backed(t.readiness, b)
               /\ ~Quiet(t.readiness) => t.active # None
               /\ \A o \in Ops : Shown(t, t.readiness, p[o], o)
    <3> DEFINE r == s.readiness
               u == t.readiness
    <3>1. /\ r # None /\ u.all = r.all /\ u.cred = r.cred /\ u.temp = r.temp
          /\ u.web = r.web \/ (r.web = "checking" /\ u.web = "loginRequired")
          /\ u.key = r.key \/ (r.key = "checking" /\ u.key = "loginRequired")
      BY <2>2 DEF Tidied, Eased
    <3>2. Backed(r, b) /\ (~Quiet(r) => s.active # None) /\ \A o \in Ops : Shown(s, r, p[o], o)
      BY <2>1, <3>1 DEF Honest
    <3> HIDE DEF r, u
    <3>3. Backed(u, b)
      BY <3>1, <3>2 DEF Backed
    <3>4. ASSUME t.active = None
          PROVE  Quiet(u)
      <4>1. CASE s.active = None
        BY <3>1, <3>2, <4>1 DEF Quiet
      <4>2. CASE s.active # None
        <5>1. PICK j \in Starts \cup KeyStarts : Lapsed(s, t, j)
          BY <3>4, <4>2 DEF Tidied
        <5>2. j \in Ops /\ Shown(s, r, p[j], j)
          BY <3>2 DEF Ops
        <5>3. CASE j \in Starts
          BY <2>2, <3>1, <5>1, <5>2, <5>3 DEF Lapsed, Shown, Quiet, u
        <5>4. CASE j \in KeyStarts
          BY <2>2, <3>1, <5>1, <5>2, <5>4 DEF Lapsed, Shown, Quiet, u
        <5> QED
          BY <5>3, <5>4
      <4> QED
        BY <4>1, <4>2
    <3>5. ASSUME NEW o \in Ops
          PROVE  Shown(t, u, p[o], o)
      <4>1. Shown(s, r, p[o], o)
        BY <3>2
      <4>2. t.active = Login(o) => s.active = Login(o)
        BY <1>2, NoneIsNoOwner
      <4>3. IsPending(t, o) => IsPending(s, o)
        BY <1>3 DEF IsPending
      <4> QED
        BY <1>5, <3>1, <4>1, <4>2, <4>3 DEF Shown
    <3> QED
      BY <3>3, <3>4, <3>5 DEF u
  <2> QED
    BY <2>1, <2>2 DEF Honest
<1>10. Keeps(s, t)
  <2> SUFFICES ASSUME NEW o \in Ops, s.sessions[o].done
               PROVE  /\ \/ t.sessions[o].state \in {"none", s.sessions[o].state}
                         \/ {s.sessions[o].state, t.sessions[o].state} = {"expired", "pending"}
                      /\ t.active = Login(o) => s.active = Login(o)
    BY DEF Keeps
  <2>1. t.active = Login(o) => s.active = Login(o)
    BY <1>2, NoneIsNoOwner
  <2>2. \/ t.sessions[o].state \in {"none", s.sessions[o].state}
        \/ t.sessions[o].state = "expired" /\ s.sessions[o].state = "pending"
    BY <1>1, SessionTypes DEF Older
  <2> QED
    BY <2>1, <2>2
<1> QED
  BY <1>6, <1>7, <1>8, <1>9 , <1>10 DEF Sound, NoStuck

\* o gives the profile back: its session and its record may have changed, the
\* other sessions have at most been tidied, and the callbacks that still work
\* are those of other sessions.
Frees(s, t, o) ==
    /\ t \in LoginState /\ t.active = None
    /\ \A j \in Ops \ {o} : Older(s.sessions[j], t.sessions[j])
    /\ t.sessions[o].state \notin {"none", "pending"} => t.sessions[o].done
    /\ s.sessions[o].done => t.sessions[o] = s.sessions[o]

Leaves(p, u, o) ==
    /\ \A j \in Ops \ {o} : u[j] = p[j]
    /\ u[o].pc \in {"done", "verify", "waiting"}

\* The live callbacks are unchanged, and none is of o.
Spares(q, v, o) == \A k \in Requests : Live(v[k]) => v[k] = q[k] /\ q[k].op # o

Sayable(r, b) == r # None => Backed(r, b) /\ Quiet(r)

\* Giving the profile back with a settled record keeps the invariant.
LEMMA ReleaseKeeps ==
    ASSUME NEW s \in LoginState, NEW t, NEW p, NEW u, NEW q, NEW v, NEW b, NEW o \in Ops,
           Callbacks(q), Callbacks(v), Sound(s, p, q, b),
           s.active \in {None, Login(o), Verifier(o)}, ~Stuck(s, o),
           Frees(s, t, o), Leaves(p, u, o), Spares(q, v, o),
           NoStuck(s) => Sayable(t.readiness, b)
    PROVE  Sound(t, u, v, b) /\ Keeps(s, t)
<1>1. \A j \in Ops : s.sessions[j] \in Session /\ t.sessions[j] \in Session
  BY StateTypes DEF Frees
<1>2. ASSUME NEW j \in Ops, j # o
      PROVE  /\ Older(s.sessions[j], t.sessions[j]) /\ u[j] = p[j]
             /\ s.active # Login(j) /\ s.active # Verifier(j)
             /\ s.sessions[j].finishing => t.sessions[j] = s.sessions[j]
             /\ Placed(s, p[j], j)
  BY <1>2, OwnersDiffer, NoneIsNoOwner DEF Frees, Leaves, Older, Sound, Control
<1>3. \A j \in Ops : t.active # Login(j) /\ t.active # Verifier(j)
  BY NoneIsNoOwner DEF Frees
<1>4. Control(t, u)
  <2>1. Placed(t, u[o], o)
    BY <1>3 DEF Placed, Leaves, Frees, Early, Asking, Saving, Polled
  <2>2. ASSUME NEW j \in Ops, j # o
        PROVE  Placed(t, p[j], j)
    <3>1. p[j].pc \notin Early /\ p[j].pc \notin Saving /\ p[j].pc # "probe"
      BY <1>2, <2>2 DEF Placed, IsClaimed
    <3>2. p[j].pc \in {"idle"} => t.sessions[j] = NoSession
      BY <1>2, <2>2, SessionTypes DEF Placed, Older
    <3>3. p[j].pc \in Polled => t.sessions[j].state \in {"none", "pending", "expired"}
      BY <1>2, <2>2, SessionTypes DEF Placed, Older
    <3>4. t.sessions[j].state \notin {"none", "pending"} => t.sessions[j].done
      BY <1>2, <2>2, SessionTypes DEF Placed, Older
    <3> QED
      BY <1>3, <3>1, <3>2, <3>3, <3>4 DEF Placed
  <2> QED
    BY <1>2, <2>1, <2>2 DEF Control
<1>5. Claims(t, u, v)
  <2>1. ASSUME NEW k \in Requests, Live(v[k])
        PROVE  Live(q[k]) /\ v[k] = q[k] /\ Stands(t, u, v[k])
    <3>1. v[k] = q[k] /\ q[k].op # o /\ Live(q[k])
      BY <2>1 DEF Spares
    <3>2. q[k].op \in Ops /\ Stands(s, p, q[k])
      BY <3>1, LiveFacts DEF Sound, Claims
    <3>3. t.sessions[q[k].op] = s.sessions[q[k].op] /\ ~IsClaimed(s, q[k].op)
      BY <1>2, <3>1, <3>2 DEF Stands, IsClaimed
    <3>4. ~IsClaimed(t, q[k].op)
      BY <1>3, <3>2 DEF IsClaimed
    <3> QED
      BY <3>1, <3>2, <3>3, <3>4 DEF Stands
  <2> QED
    BY <2>1 DEF Sound, Claims
<1>6. Synced(u, b)
  <2>1. Tracks(u[o], b)
    BY DEF Leaves, Tracks, Asking
  <2> QED
    BY <1>2, <2>1 DEF Sound, Synced
<1>7. NoStuck(t) => NoStuck(s)
  <2>1. ASSUME NEW j \in Ops, j # o, Stuck(s, j)
        PROVE  Stuck(t, j)
    BY <1>2, <2>1 DEF Stuck
  <2> QED
    BY <2>1 DEF NoStuck
<1>8. ASSUME NoStuck(t)
      PROVE  Honest(t, u, v, b)
  <2>1. Honest(s, p, q, b) /\ Sayable(t.readiness, b)
    BY <1>7, <1>8 DEF Sound
  <2>2. \A k \in Requests : Carried(v[k], b)
    BY <2>1, LiveFacts DEF Honest, Carried, Spares
  <2>3. ASSUME NEW j \in Ops
        PROVE  Shown(t, t.readiness, u[j], j)
    <3>1. u[j].pc \notin Early
      BY <1>2, <1>3, <1>4 DEF Control, Placed
    <3> QED
      BY <1>3, <3>1 DEF Shown
  <2> QED
    BY <2>1, <2>2, <2>3 DEF Honest, Sayable
<1>9. Keeps(s, t)
  <2> SUFFICES ASSUME NEW j \in Ops, s.sessions[j].done
               PROVE  \/ t.sessions[j].state \in {"none", s.sessions[j].state}
                      \/ {s.sessions[j].state, t.sessions[j].state} = {"expired", "pending"}
    BY <1>3 DEF Keeps
  <2>1. CASE j = o
    BY <2>1 DEF Frees
  <2>2. CASE j # o
    <3>1. \/ t.sessions[j].state \in {"none", s.sessions[j].state}
          \/ t.sessions[j].state = "expired" /\ s.sessions[j].state = "pending"
      BY <1>2, <2>2, SessionTypes DEF Older
    <3> QED
      BY <3>1
  <2> QED
    BY <2>1, <2>2
<1> QED
  BY <1>4, <1>5, <1>6, <1>8, <1>9 DEF Sound

\* Only the record of o is another one.
Alters(p, u, o, x) == u[o] = x /\ \A j \in Ops \ {o} : u[j] = p[j]

\* reserve_profile.
LEMMA ReserveKeeps ==
    ASSUME NEW s \in LoginState, NEW t \in LoginState, NEW p, NEW u, NEW q, NEW b, NEW o \in Ops, NEW x,
           Callbacks(q), Sound(s, p, q, b),
           s.active = None, p[o].pc = "idle",
           t.active = Login(o), t.sessions = s.sessions, t.readiness = s.readiness,
           Alters(p, u, o, x), x.pc = "load"
    PROVE  Sound(t, u, q, b) /\ Keeps(s, t)
<1>1. s.sessions[o] = NoSession /\ \A j \in Ops : Placed(s, p[j], j)
  BY DEF Sound, Control, Placed
<1>2. \A j \in Ops : /\ s.active # Login(j) /\ s.active # Verifier(j) /\ t.active # Verifier(j)
                     /\ j # o => t.active # Login(j)
  BY OwnersDiffer, NoneIsNoOwner
<1>3. \A j \in Ops : ~IsClaimed(s, j) /\ ~IsClaimed(t, j)
  BY <1>1, <1>2, SessionTypes DEF IsClaimed, IsPending
<1>4. Control(t, u)
  <2>1. Placed(t, x, o)
    BY <1>1, <1>2, SessionTypes DEF Placed, IsPending, Early, Asking, Saving, Polled
  <2>2. \A j \in Ops \ {o} : Placed(t, p[j], j)
    BY <1>1, <1>2, <1>3 DEF Placed
  <2> QED
    BY <2>1, <2>2 DEF Control, Alters
<1>5. Claims(t, u, q)
  <2>1. ASSUME NEW k \in Requests, Live(q[k])
        PROVE  Stands(t, u, q[k])
    BY <1>3, <2>1, LiveFacts DEF Sound, Claims, Stands
  <2> QED
    BY <2>1 DEF Sound, Claims
<1>6. Synced(u, b)
  BY DEF Sound, Synced, Tracks, Alters, Asking
<1>7. ASSUME NoStuck(t)
      PROVE  Honest(t, u, q, b)
  <2>1. Honest(s, p, q, b)
    BY <1>7 DEF Sound, NoStuck, Stuck
  <2>2. ASSUME NEW j \in Ops, s.readiness # None
        PROVE  Shown(t, t.readiness, u[j], j)
    <3>1. CASE j = o
      BY <1>1, <1>2, <3>1, SessionTypes DEF Shown, IsPending, Alters, Early, Asking
    <3>2. CASE j # o
      <4>1. u[j].pc \notin Early
        BY <1>1, <1>2, <3>2 DEF Alters, Placed
      <4> QED
        BY <1>2, <3>2, <4>1 DEF Shown
    <3> QED
      BY <3>1, <3>2
  <2> QED
    BY <2>1, <2>2, NoneIsNoOwner DEF Honest
<1>8. Keeps(s, t)
  BY <1>1, <1>2, SessionTypes DEF Keeps
<1> QED
  BY <1>4, <1>5, <1>6, <1>7, <1>8 DEF Sound

\* Steps under the reservation before there is a session; the binding may change.
LEMMA EarlyKeeps ==
    ASSUME NEW s \in LoginState, NEW t \in LoginState, NEW p, NEW u, NEW q, NEW b, NEW c,
           NEW o \in Ops, NEW x,
           Callbacks(q), Sound(s, p, q, b),
           p[o].pc \in Early, Alters(p, u, o, x), x.pc \in Early \ {"load"}, Tracks(x, c),
           t.active = s.active, t.sessions = s.sessions,
           NoStuck(s) /\ t.readiness # None =>
              Backed(t.readiness, c) /\ t.readiness.web # "ready" /\ t.readiness.key # "ready"
    PROVE  Sound(t, u, q, c) /\ Keeps(s, t)
<1>1. /\ s.active = Login(o) /\ s.sessions[o] = NoSession
      /\ \A j \in Ops : Placed(s, p[j], j)
  BY DEF Sound, Control, Placed
<1>2. \A j \in Ops : s.active # Verifier(j) /\ (j # o => s.active # Login(j))
  BY <1>1, OwnersDiffer
<1>3. \A j \in Ops : ~IsClaimed(s, j) /\ ~IsClaimed(t, j)
  BY <1>1, <1>2, SessionTypes DEF IsClaimed, IsPending
<1>4. Control(t, u)
  <2>1. Placed(t, x, o)
    BY <1>1, <1>2, SessionTypes DEF Placed, IsPending, Early, Asking, Saving, Polled
  <2>2. \A j \in Ops \ {o} : Placed(t, p[j], j)
    BY <1>1, <1>3 DEF Placed, IsPending
  <2> QED
    BY <2>1, <2>2 DEF Control, Alters
<1>5. Claims(t, u, q)
  <2>1. ASSUME NEW k \in Requests, Live(q[k])
        PROVE  Stands(t, u, q[k])
    BY <1>3, <2>1, LiveFacts DEF Sound, Claims, Stands
  <2> QED
    BY <2>1 DEF Sound, Claims
<1>6. \A j \in Ops \ {o} : p[j].pc \notin Early
  BY <1>1, <1>2 DEF Placed
<1>7. Synced(u, c)
  BY <1>6 DEF Synced, Tracks, Alters, Early
<1>8. ASSUME NoStuck(t)
      PROVE  Honest(t, u, q, c)
  <2>1. NoStuck(s)
    BY <1>8 DEF NoStuck, Stuck
  <2>2. \A k \in Requests : Carried(q[k], c)
    <3> SUFFICES ASSUME NEW k \in Requests, q[k].worker = "publish" PROVE FALSE
      BY DEF Carried
    <3>1. q[k].op \in KeyStarts /\ q[k].op \in Ops /\ Stands(s, p, q[k])
      BY LiveFacts DEF Sound, Claims
    <3> QED
      BY <1>3, <2>1, <3>1 DEF Stands, NoStuck, Stuck
  <2>3. ASSUME NEW j \in Ops, t.readiness # None
        PROVE  Shown(t, t.readiness, u[j], j)
    <3>1. ~(t.active = Login(j) /\ IsPending(t, j)) /\ t.active # Verifier(j)
      BY <1>1, <1>2, SessionTypes DEF IsPending
    <3> QED
      BY <2>1, <2>3, <3>1 DEF Shown
  <2> QED
    BY <1>1, <2>1, <2>2, <2>3, NoneIsNoOwner DEF Honest
<1>9. Keeps(s, t)
  BY DEF Keeps
<1> QED
  BY <1>4, <1>5, <1>7, <1>8, <1>9 DEF Sound

\* The session opens, in the state e that expire_sessions has left.
LEMMA OpenKeeps ==
    ASSUME NEW s \in LoginState, NEW t \in LoginState, NEW p, NEW u, NEW q, NEW b, NEW o \in Ops, NEW x,
           Callbacks(q), Sound(s, p, q, b),
           p[o].pc \in Early, Alters(p, u, o, x),
           \/ o \in Starts /\ o \notin KeyStarts /\ x.pc = "poll"
           \/ o \in KeyStarts /\ o \notin Starts /\ x.pc = "waiting",
           t.active = s.active, Touches(s, t, o, NewSession), t.readiness # None,
           Backed(t.readiness, b),
           o \in Starts => t.readiness.web # "ready" /\ t.readiness.key \notin {"ready", "checking"},
           o \in KeyStarts => t.readiness.web # "checking" /\ t.readiness.cred = x.cred
    PROVE  Sound(t, u, q, b) /\ Keeps(s, t)
<1>1. /\ s.active = Login(o) /\ s.sessions[o] = NoSession
      /\ \A j \in Ops : Placed(s, p[j], j)
  BY DEF Sound, Control, Placed
<1>2. \A j \in Ops : s.active # Verifier(j) /\ (j # o => s.active # Login(j))
  BY <1>1, OwnersDiffer
<1>3. \A j \in Ops : /\ ~IsClaimed(s, j) /\ ~IsClaimed(t, j)
                     /\ j # o => t.sessions[j] = s.sessions[j]
  BY <1>1, <1>2, SessionTypes DEF IsClaimed, Touches
<1>4. \A j \in Ops \ {o} : p[j].pc \notin Early
  BY <1>1, <1>2 DEF Placed
<1>5. Control(t, u)
  <2>1. Placed(t, x, o)
    BY <1>1, <1>2, SessionTypes DEF Placed, IsPending, Early, Asking, Saving, Polled, Touches
  <2>2. \A j \in Ops \ {o} : Placed(t, p[j], j)
    BY <1>1, <1>2, <1>3 DEF Placed, IsPending
  <2> QED
    BY <2>1, <2>2 DEF Control, Alters
<1>6. Claims(t, u, q)
  <2>1. ASSUME NEW k \in Requests, Live(q[k])
        PROVE  Stands(t, u, q[k])
    <3>1. q[k].op \in Ops /\ Stands(s, p, q[k])
      BY <2>1, LiveFacts DEF Sound, Claims
    <3>2. q[k].op # o
      BY <1>1, <3>1, SessionTypes DEF Stands
    <3> QED
      BY <1>3, <3>1, <3>2 DEF Stands
  <2> QED
    BY <2>1 DEF Sound, Claims
<1>7. Synced(u, b)
  BY DEF Sound, Synced, Tracks, Alters, Asking
<1>8. ASSUME NoStuck(t)
      PROVE  Honest(t, u, q, b)
  <2>1. NoStuck(s)
    <3> SUFFICES ASSUME NEW j \in Ops, Stuck(s, j) PROVE FALSE
      BY DEF NoStuck
    <3>1. j # o
      BY <1>1, SessionTypes DEF Stuck
    <3> QED
      BY <1>3, <1>8, <3>1 DEF NoStuck, Stuck
  <2>2. \A k \in Requests : Carried(q[k], b)
    BY <2>1 DEF Sound, Honest
  <2>3. ASSUME NEW j \in Ops
        PROVE  Shown(t, t.readiness, u[j], j)
    <3>1. CASE j = o
      BY <1>2, <3>1 DEF Shown, Alters, Early, Asking
    <3>2. CASE j # o
      BY <1>2, <1>4, <3>2 DEF Shown, Alters
    <3> QED
      BY <3>1, <3>2
  <2> QED
    BY <1>1, <2>2, <2>3, NoneIsNoOwner DEF Honest
<1>9. Keeps(s, t)
  BY <1>1, <1>3, SessionTypes DEF Keeps
<1> QED
  BY <1>5, <1>6, <1>7, <1>8, <1>9 DEF Sound

\* Steps of a Web login that has claimed, or claims, its session; the binding
\* may change.
LEMMA SaveKeeps ==
    ASSUME NEW s \in LoginState, NEW t \in LoginState, NEW p, NEW u, NEW q, NEW b, NEW c,
           NEW o \in Starts, NEW x,
           Callbacks(q), Sound(s, p, q, b), o \notin KeyStarts, o \in Ops,
           p[o].pc \in Saving \cup {"signin"}, Alters(p, u, o, x), x.pc \in Saving,
           s.active = Login(o), IsPending(s, o),
           t.active = s.active, t.readiness = s.readiness,
           \A j \in Ops \ {o} : t.sessions[j] = s.sessions[j],
           IsPending(t, o), t.sessions[o].finishing, t.sessions[o].done = s.sessions[o].done
    PROVE  Sound(t, u, q, c) /\ Keeps(s, t)
<1>1. \A j \in Ops : Placed(s, p[j], j)
  BY DEF Sound, Control
<1>2. \A j \in Ops : s.active # Verifier(j) /\ (j # o => s.active # Login(j))
  BY OwnersDiffer
<1>3. \A j \in Ops : p[j].pc \notin Early
  BY <1>1, <1>2, SessionTypes DEF Placed, IsPending
<1>4. Control(t, u)
  <2>1. Placed(t, x, o)
    BY <1>1, <1>2 DEF Placed, IsClaimed, IsPending, Early, Asking, Saving, Polled
  <2>2. \A j \in Ops \ {o} : Placed(t, p[j], j)
    BY <1>1, <1>2 DEF Placed, IsPending, IsClaimed
  <2> QED
    BY <2>1, <2>2 DEF Control, Alters
<1>5. Claims(t, u, q)
  <2>1. ASSUME NEW k \in Requests, Live(q[k])
        PROVE  Stands(t, u, q[k])
    <3>1. q[k].op \in Ops /\ q[k].op # o /\ Stands(s, p, q[k])
      BY <2>1, LiveFacts DEF Sound, Claims
    <3> QED
      BY <3>1 DEF Stands, IsClaimed, IsPending, Alters
  <2> QED
    BY <2>1 DEF Sound, Claims
<1>6. Synced(u, c)
  BY <1>3 DEF Synced, Tracks, Alters, Early, Asking, Saving
<1>7. ASSUME NoStuck(t)
      PROVE  Honest(t, u, q, c)
  <2>1. NoStuck(s)
    <3> SUFFICES ASSUME NEW j \in Ops, Stuck(s, j) PROVE FALSE
      BY DEF NoStuck
    <3>1. j # o
      BY DEF Stuck
    <3> QED
      BY <1>7, <3>1 DEF NoStuck, Stuck
  <2>2. Honest(s, p, q, b)
    BY <2>1 DEF Sound
  <2>3. \A k \in Requests : Carried(q[k], c)
    <3> SUFFICES ASSUME NEW k \in Requests, q[k].worker = "publish" PROVE FALSE
      BY DEF Carried
    <3>1. q[k].op \in KeyStarts /\ q[k].op \in Ops /\ Stands(s, p, q[k])
      BY LiveFacts DEF Sound, Claims
    <3>2. IsClaimed(s, q[k].op)
      BY <2>1, <3>1 DEF Stands, NoStuck, Stuck
    <3> QED
      BY <1>2, <3>1, <3>2 DEF IsClaimed
  <2>4. ASSUME t.readiness # None
        PROVE  /\ Backed(t.readiness, c)
               /\ \A j \in Ops : Shown(t, t.readiness, u[j], j)
    <3>1. Backed(s.readiness, b) /\ \A j \in Ops : Shown(s, s.readiness, p[j], j)
      BY <2>2, <2>4 DEF Honest
    <3>2. s.readiness.web # "ready" /\ s.readiness.key \notin {"ready", "checking"}
      BY <3>1 DEF Shown
    <3>3. Backed(t.readiness, c)
      BY <3>1, <3>2 DEF Backed
    <3>4. ASSUME NEW j \in Ops
          PROVE  Shown(t, t.readiness, u[j], j)
      <4>1. u[j].pc \notin Early
        BY <1>3 DEF Alters, Early, Asking, Saving
      <4> QED
        BY <1>2, <3>2, <4>1 DEF Shown
    <3> QED
      BY <3>3, <3>4
  <2> QED
    BY <2>3, <2>4, NoneIsNoOwner DEF Honest
<1>8. Keeps(s, t)
  BY DEF Keeps, IsPending
<1> QED
  BY <1>4, <1>5, <1>6, <1>7, <1>8 DEF Sound

\* Steps of an operation that neither has nor gets the profile; the answer to a
\* poll may make an expired session look pending.
LEMMA IdleKeeps ==
    ASSUME NEW s \in LoginState, NEW t \in LoginState, NEW p, NEW u, NEW q, NEW b, NEW o \in Ops, NEW x,
           Callbacks(q), Sound(s, p, q, b),
           p[o].pc \in Polled \cup {"verify", "waiting", "idle"}, Alters(p, u, o, x),
           x.pc = "done" \/ (x.pc \in Polled /\ p[o].pc \in Polled),
           o \in KeyStarts => ~(s.active = Login(o) /\ IsPending(s, o)),
           t.active = s.active, t.readiness = s.readiness,
           \A j \in Ops \ {o} : t.sessions[j] = s.sessions[j],
           t.sessions[o].finishing = s.sessions[o].finishing,
           t.sessions[o].done = s.sessions[o].done,
           \/ t.sessions[o].state = s.sessions[o].state
           \/ /\ s.sessions[o].state = "expired" /\ t.sessions[o].state = "pending"
              /\ p[o].pc \in Polled /\ o \notin KeyStarts
    PROVE  Sound(t, u, q, b) /\ Keeps(s, t)
<1>1. \A j \in Ops : Placed(s, p[j], j)
  BY DEF Sound, Control
<1>2. p[o].pc \notin Early \cup Saving \cup {"probe"} /\ x.pc \notin Early \cup Saving \cup {"probe", "idle"}
  BY DEF Polled, Early, Asking, Saving
<1>3. s.active # Verifier(o)
  BY <1>1, <1>2 DEF Placed
<1>4. s.active = Login(o) => (IsPending(s, o) <=> IsPending(t, o))
  BY <1>1 DEF Placed, IsPending
<1>5. \A j \in Ops : /\ IsClaimed(s, j) <=> IsClaimed(t, j)
                     /\ s.active = Login(j) => (IsPending(s, j) <=> IsPending(t, j))
                     /\ Stuck(s, j) <=> Stuck(t, j)
                     /\ s.sessions[j].finishing <=> t.sessions[j].finishing
  BY <1>4 DEF IsClaimed, IsPending, Stuck
<1>6. Control(t, u)
  <2>1. Placed(t, x, o)
    <3>1. Placed(s, p[o], o)
      BY <1>1
    <3>2. x.pc \in Polled => t.sessions[o].state \in {"none", "pending", "expired"}
      BY <3>1 DEF Placed, Polled
    <3>3. t.sessions[o].state \notin {"none", "pending"} => t.sessions[o].done
      BY <3>1 DEF Placed
    <3>4. t.sessions[o].done => t.active # Login(o)
      BY <3>1 DEF Placed
    <3> QED
      BY <1>2, <1>3, <1>5, <3>2, <3>3, <3>4 DEF Placed
  <2>2. ASSUME NEW j \in Ops \ {o}
        PROVE  Placed(t, p[j], j)
    BY <1>1, <1>5 DEF Placed, IsPending
  <2> QED
    BY <2>1, <2>2 DEF Control, Alters
<1>7. Claims(t, u, q)
  <2>1. ASSUME NEW k \in Requests, Live(q[k])
        PROVE  Stands(t, u, q[k])
    <3>1. q[k].op \in KeyStarts /\ q[k].op \in Ops /\ Stands(s, p, q[k])
      BY <2>1, LiveFacts DEF Sound, Claims
    <3>2. CASE q[k].op = o
      <4>1. ~IsClaimed(s, o) /\ t.sessions[o].state = s.sessions[o].state
        BY <3>1, <3>2 DEF IsClaimed
      <4> QED
        BY <1>5, <3>1, <3>2, <4>1 DEF Stands
    <3>3. CASE q[k].op # o
      BY <1>5, <3>1, <3>3 DEF Stands, Alters
    <3> QED
      BY <3>2, <3>3
  <2> QED
    BY <2>1 DEF Sound, Claims
<1>8. Synced(u, b)
  <2>1. Tracks(x, b)
    BY DEF Tracks, Polled, Asking
  <2> QED
    BY <2>1 DEF Sound, Synced, Alters
<1>9. ASSUME NoStuck(t)
      PROVE  Honest(t, u, q, b)
  <2>1. Honest(s, p, q, b)
    BY <1>5, <1>9 DEF Sound, NoStuck
  <2>2. ASSUME NEW j \in Ops, t.readiness # None
        PROVE  Shown(t, t.readiness, u[j], j)
    <3>1. Shown(s, s.readiness, p[j], j)
      BY <2>1, <2>2 DEF Honest
    <3>2. CASE j = o
      BY <1>2, <1>3, <1>5, <3>1, <3>2 DEF Shown, Alters
    <3>3. CASE j # o
      BY <1>5, <3>1, <3>3 DEF Shown, Alters
    <3> QED
      BY <3>2, <3>3
  <2> QED
    BY <2>1, <2>2 DEF Honest
<1>10. Keeps(s, t)
  <2> SUFFICES ASSUME NEW j \in Ops, s.sessions[j].done
               PROVE  \/ t.sessions[j].state \in {"none", s.sessions[j].state}
                      \/ {s.sessions[j].state, t.sessions[j].state} = {"expired", "pending"}
    BY DEF Keeps
  <2> QED
    OBVIOUS
<1> QED
  BY <1>6, <1>7, <1>8, <1>9, <1>10 DEF Sound

\* begin_temporary_access_key_check.
LEMMA VerifyKeeps ==
    ASSUME NEW s \in LoginState, NEW t \in LoginState, NEW p, NEW u, NEW q, NEW b, NEW o \in Ops, NEW x,
           Callbacks(q), Sound(s, p, q, b), o \notin KeyStarts,
           s.active = None, p[o].pc = "verify", Alters(p, u, o, x), x.pc = "probe",
           t.active = Verifier(o), t.sessions = s.sessions,
           s.readiness # None, ~s.readiness.all, s.readiness.cred = x.cred,
           t.readiness # None, t.readiness.all = s.readiness.all, t.readiness.cred = s.readiness.cred,
           t.readiness.web = s.readiness.web, t.readiness.key = "checking", t.readiness.temp = Verifier(o)
    PROVE  Sound(t, u, q, b) /\ Keeps(s, t)
<1>1. \A j \in Ops : Placed(s, p[j], j)
  BY DEF Sound, Control
<1>2. \A j \in Ops : /\ s.active # Login(j) /\ s.active # Verifier(j) /\ t.active # Login(j)
                     /\ j # o => t.active # Verifier(j)
  BY OwnersDiffer, NoneIsNoOwner
<1>3. \A j \in Ops : ~IsClaimed(s, j) /\ ~IsClaimed(t, j)
  BY <1>2 DEF IsClaimed
<1>4. \A j \in Ops : p[j].pc \notin Early
  BY <1>1, <1>2 DEF Placed
<1>5. Control(t, u)
  <2>1. Placed(t, x, o)
    <3>1. Placed(s, p[o], o)
      BY <1>1
    <3>2. x.pc \notin Early \cup Saving \cup Polled \cup {"idle"}
      BY DEF Polled, Early, Asking, Saving
    <3> QED
      BY <1>2, <3>1, <3>2 DEF Placed
  <2>2. ASSUME NEW j \in Ops \ {o}
        PROVE  Placed(t, p[j], j)
    BY <1>1, <1>2, <1>3 DEF Placed, IsPending
  <2> QED
    BY <2>1, <2>2 DEF Control, Alters
<1>6. Claims(t, u, q)
  <2>1. ASSUME NEW k \in Requests, Live(q[k])
        PROVE  Stands(t, u, q[k])
    BY <1>3, <2>1, LiveFacts DEF Sound, Claims, Stands
  <2> QED
    BY <2>1 DEF Sound, Claims
<1>7. Synced(u, b)
  BY DEF Sound, Synced, Tracks, Alters, Asking
<1>8. ASSUME NoStuck(t)
      PROVE  Honest(t, u, q, b)
  <2>1. Honest(s, p, q, b)
    BY <1>8 DEF Sound, NoStuck, Stuck
  <2>2. Backed(s.readiness, b) /\ Quiet(s.readiness)
    BY <2>1 DEF Honest
  <2>3. Backed(t.readiness, b)
    BY <2>2 DEF Backed
  <2>4. ASSUME NEW j \in Ops
        PROVE  Shown(t, t.readiness, u[j], j)
    <3>1. u[j].pc \notin Early
      BY <1>4 DEF Alters, Early, Asking
    <3> QED
      BY <1>2, <2>2, <3>1 DEF Shown, Quiet, Alters
  <2> QED
    BY <2>1, <2>3, <2>4, NoneIsNoOwner DEF Honest
<1>9. Keeps(s, t)
  BY <1>2 DEF Keeps
<1> QED
  BY <1>5, <1>6, <1>7, <1>8, <1>9 DEF Sound

\* Only the callback k has another record.
Revises(q, v, k, y) == v[k] = y /\ \A j \in Requests \ {k} : v[j] = q[j]

\* Steps of a callback or its worker that leave LoginState alone.
LEMMA RequestKeeps ==
    ASSUME NEW s \in LoginState, NEW p, NEW q, NEW v, NEW b, NEW k \in Requests, NEW y,
           Callbacks(q), Callbacks(v), Sound(s, p, q, b), Revises(q, v, k, y),
           Live(y) => /\ Live(q[k]) /\ y.op = q[k].op
                      /\ IsClaimed(s, y.op) => y.cred = q[k].cred /\ y.bound = q[k].bound,
           NoStuck(s) => Carried(y, b)
    PROVE  Sound(s, p, v, b)
<1>1. ASSUME NEW j \in Requests, Live(v[j])
      PROVE  Live(q[j]) /\ v[j].op = q[j].op /\ Stands(s, p, v[j])
  <2>1. /\ Live(q[j]) /\ v[j].op = q[j].op
        /\ IsClaimed(s, v[j].op) => v[j].cred = q[j].cred /\ v[j].bound = q[j].bound
    BY <1>1 DEF Revises
  <2>2. Stands(s, p, q[j])
    BY <2>1 DEF Sound, Claims
  <2> QED
    BY <2>1, <2>2 DEF Stands
<1>2. Claims(s, p, v)
  BY <1>1 DEF Sound, Claims
<1>3. NoStuck(s) => Honest(s, p, v, b)
  BY DEF Sound, Honest, Revises
<1> QED
  BY <1>2, <1>3 DEF Sound

\* A callback claims its session.
LEMMA CallKeeps ==
    ASSUME NEW s \in LoginState, NEW t \in LoginState, NEW p, NEW q, NEW v, NEW b,
           NEW o \in KeyStarts, NEW k \in Requests, NEW y, o \in Ops, o \notin Starts,
           Callbacks(q), Callbacks(v), Sound(s, p, q, b), Revises(q, v, k, y),
           Live(y), y.op = o, y.cred = p[o].cred, y.bound = p[o].bound, y.worker = "none",
           s.active = Login(o), IsPending(s, o), ~s.sessions[o].finishing,
           t.active = s.active, t.readiness = s.readiness,
           \A j \in Ops \ {o} : t.sessions[j] = s.sessions[j],
           IsPending(t, o), t.sessions[o].finishing, t.sessions[o].done = s.sessions[o].done
    PROVE  Sound(t, p, v, b) /\ Keeps(s, t)
<1>1. \A j \in Ops : Placed(s, p[j], j)
  BY DEF Sound, Control
<1>2. \A j \in Ops : s.active # Verifier(j) /\ (j # o => s.active # Login(j))
  BY OwnersDiffer
<1>3. \A j \in Ops \ {o} : ~IsClaimed(s, j) /\ ~IsClaimed(t, j)
  BY <1>2 DEF IsClaimed
<1>4. IsClaimed(t, o)
  BY DEF IsClaimed
<1>5. p[o].pc = "waiting"
  BY <1>1 DEF Placed
<1>6. Control(t, p)
  <2>1. Placed(t, p[o], o)
    BY <1>1, <1>2, <1>5 DEF Placed, IsPending, Early, Asking, Saving, Polled
  <2>2. ASSUME NEW j \in Ops \ {o}
        PROVE  Placed(t, p[j], j)
    BY <1>1, <1>3 DEF Placed, IsPending
  <2> QED
    BY <2>1, <2>2 DEF Control
<1>7. ASSUME NEW j \in Requests, Live(q[j])
      PROVE  q[j].op \in Ops \ {o} /\ Stands(t, p, q[j])
  <2>1. q[j].op \in Ops /\ Stands(s, p, q[j])
    BY <1>7, LiveFacts DEF Sound, Claims
  <2>2. q[j].op # o
    BY <2>1 DEF Stands
  <2> QED
    BY <1>3, <2>1, <2>2 DEF Stands
<1>8. Stands(t, p, y)
  BY <1>4 DEF Stands
<1>9. Claims(t, p, v)
  <2>1. \A j \in Requests : Live(v[j]) => Stands(t, p, v[j])
    BY <1>7, <1>8 DEF Revises
  <2>2. ASSUME NEW i \in Requests, NEW j \in Requests, Live(v[i]), Live(v[j]), v[i].op = v[j].op
        PROVE  i = j
    <3>1. CASE i = k
      BY <1>7, <2>2, <3>1 DEF Revises
    <3>2. CASE j = k
      BY <1>7, <2>2, <3>2 DEF Revises
    <3>3. CASE i # k /\ j # k
      BY <2>2, <3>3 DEF Revises, Sound, Claims
    <3> QED
      BY <3>1, <3>2, <3>3
  <2> QED
    BY <2>1, <2>2 DEF Claims
<1>10. ASSUME NoStuck(t)
       PROVE  Honest(t, p, v, b)
  <2>1. NoStuck(s)
    BY <1>10 DEF NoStuck, Stuck, IsPending
  <2>2. Honest(s, p, q, b)
    BY <2>1 DEF Sound
  <2>3. \A j \in Requests : Carried(v[j], b)
    BY <2>2 DEF Honest, Carried, Revises
  <2>4. ASSUME NEW j \in Ops, t.readiness # None
        PROVE  Shown(t, t.readiness, p[j], j)
    <3>1. Shown(s, s.readiness, p[j], j)
      BY <2>2, <2>4 DEF Honest
    <3> QED
      BY <3>1 DEF Shown, IsPending
  <2> QED
    BY <2>2, <2>3, <2>4 DEF Honest
<1>11. Keeps(s, t)
  BY DEF Keeps, IsPending
<1> QED
  BY <1>6, <1>9, <1>10, <1>11 DEF Sound, Tracks

\* A callback that goes away gives its claim back.
LEMMA UnclaimKeeps ==
    ASSUME NEW s \in LoginState, NEW t \in LoginState, NEW p, NEW q, NEW v, NEW b,
           NEW k \in Requests, NEW y, NEW o \in Ops,
           Callbacks(q), Callbacks(v), Sound(s, p, q, b), Revises(q, v, k, y),
           Live(q[k]), q[k].op = o, ~Live(y), IsClaimed(s, o), o \in KeyStarts,
           t.active = s.active, t.readiness = s.readiness,
           \A j \in Ops \ {o} : t.sessions[j] = s.sessions[j],
           IsPending(t, o), ~t.sessions[o].finishing, t.sessions[o].done = s.sessions[o].done
    PROVE  Sound(t, p, v, b) /\ Keeps(s, t)
<1>1. \A j \in Ops : Placed(s, p[j], j)
  BY DEF Sound, Control
<1>2. s.active = Login(o) /\ IsPending(s, o)
  BY DEF IsClaimed
<1>3. \A j \in Ops \ {o} : ~IsClaimed(s, j) /\ ~IsClaimed(t, j)
  BY <1>2, OwnersDiffer DEF IsClaimed
<1>4. p[o].pc = "waiting"
  BY <1>1, <1>2 DEF Placed
<1>5. Control(t, p)
  <2>1. Placed(t, p[o], o)
    BY <1>1, <1>2, <1>4 DEF Placed, IsPending, Early, Asking, Saving, Polled
  <2>2. ASSUME NEW j \in Ops \ {o}
        PROVE  Placed(t, p[j], j)
    BY <1>1, <1>3 DEF Placed, IsPending
  <2> QED
    BY <2>1, <2>2 DEF Control
<1>6. ASSUME NEW j \in Requests, Live(v[j])
      PROVE  v[j] = q[j] /\ Stands(t, p, v[j])
  <2>1. j # k /\ v[j] = q[j]
    BY <1>6 DEF Revises
  <2>2. q[j].op \in Ops /\ Stands(s, p, q[j])
    BY <1>6, <2>1, LiveFacts DEF Sound, Claims
  <2>3. q[j].op # o
    BY <1>6, <2>1 DEF Sound, Claims
  <2> QED
    BY <1>3, <2>1, <2>2, <2>3 DEF Stands
<1>7. Claims(t, p, v)
  BY <1>6 DEF Sound, Claims
<1>8. ASSUME NoStuck(t)
      PROVE  Honest(t, p, v, b)
  <2>1. NoStuck(s)
    BY <1>2, <1>8 DEF NoStuck, Stuck, IsPending
  <2>2. Honest(s, p, q, b)
    BY <2>1 DEF Sound
  <2>3. \A j \in Requests : Carried(v[j], b)
    BY <1>6, <2>2, LiveFacts DEF Honest, Carried
  <2>4. ASSUME NEW j \in Ops, t.readiness # None
        PROVE  Shown(t, t.readiness, p[j], j)
    <3>1. Shown(s, s.readiness, p[j], j)
      BY <2>2, <2>4 DEF Honest
    <3> QED
      BY <1>2, <3>1 DEF Shown, IsPending
  <2> QED
    BY <2>2, <2>3, <2>4 DEF Honest
<1>9. Keeps(s, t)
  BY <1>2 DEF Keeps, IsPending
<1> QED
  BY <1>5, <1>7, <1>8, <1>9 DEF Sound

\* What is shown is not promised anything once a session is overtaken.
LEMMA StuckKeeps ==
    ASSUME NEW s \in LoginState, NEW t \in LoginState, NEW p, NEW q, NEW b, NEW o \in Ops,
           Sound(s, p, q, b), Stuck(s, o), t.active = s.active, t.sessions = s.sessions
    PROVE  Sound(t, p, q, b) /\ Keeps(s, t)
<1>1. Control(t, p) /\ Claims(t, p, q) /\ Synced(p, b)
  BY DEF Sound, Control, Placed, Claims, Stands, IsClaimed, IsPending
<1>2. ~NoStuck(t)
  BY DEF NoStuck, Stuck
<1>3. Keeps(s, t)
  BY DEF Keeps
<1> QED
  BY <1>1, <1>2, <1>3 DEF Sound

\* The timer overtakes the callback that finishes its session.
LEMMA TimerKeeps ==
    ASSUME NEW s \in LoginState, NEW t \in LoginState, NEW p, NEW u, NEW q, NEW b,
           NEW o \in KeyStarts, NEW x, o \in Ops,
           Callbacks(q), Sound(s, p, q, b),
           p[o].pc = "waiting", Alters(p, u, o, x), x.pc = "done",
           IsPending(s, o), s.sessions[o].finishing,
           t.active = IF s.active = Login(o) THEN None ELSE s.active,
           \A j \in Ops \ {o} : t.sessions[j] = s.sessions[j],
           t.sessions[o].state = "expired", t.sessions[o].done, t.sessions[o].finishing
    PROVE  Sound(t, u, q, b) /\ Keeps(s, t)
<1>1. \A j \in Ops : Placed(s, p[j], j)
  BY DEF Sound, Control
<1>2. /\ t.active # Login(o)
      /\ \A j \in Ops \ {o} : s.active = Login(j) <=> t.active = Login(j)
      /\ \A j \in Ops : s.active = Verifier(j) <=> t.active = Verifier(j)
  BY OwnersDiffer, NoneIsNoOwner
<1>3. Control(t, u)
  <2>1. Placed(t, x, o)
    BY <1>1, <1>2 DEF Placed, Early, Asking, Saving, Polled
  <2>2. ASSUME NEW j \in Ops \ {o}
        PROVE  Placed(t, p[j], j)
    BY <1>1, <1>2 DEF Placed, IsPending, IsClaimed
  <2> QED
    BY <2>1, <2>2 DEF Control, Alters
<1>4. Claims(t, u, q)
  <2>1. ASSUME NEW k \in Requests, Live(q[k])
        PROVE  Stands(t, u, q[k])
    <3>1. q[k].op \in Ops /\ Stands(s, p, q[k])
      BY <2>1, LiveFacts DEF Sound, Claims
    <3>2. CASE q[k].op = o
      BY <1>2, <3>2 DEF Stands, IsClaimed
    <3>3. CASE q[k].op # o
      BY <1>2, <3>1, <3>3 DEF Stands, IsClaimed, IsPending, Alters
    <3> QED
      BY <3>2, <3>3
  <2> QED
    BY <2>1 DEF Sound, Claims
<1>5. Synced(u, b)
  BY DEF Sound, Synced, Tracks, Alters, Asking
<1>6. ~NoStuck(t)
  BY DEF NoStuck, Stuck
<1>7. Keeps(s, t)
  <2> SUFFICES ASSUME NEW j \in Ops, s.sessions[j].done
               PROVE  \/ t.sessions[j].state \in {"none", s.sessions[j].state}
                      \/ {s.sessions[j].state, t.sessions[j].state} = {"expired", "pending"}
    BY <1>2 DEF Keeps
  <2> QED
    BY DEF IsPending
<1> QED
  BY <1>3, <1>4, <1>5, <1>6, <1>7 DEF Sound

-----------------------------------------------------------------------------
(* Every step keeps the invariant.                                          *)

Kept == IInv' /\ Keeps(state, state')

\* The callbacks of a state that satisfies Base.
LEMMA CallbacksHold ==
    ASSUME Base
    PROVE  Callbacks(req)
BY DEF Base, TypeOK, Callbacks, ReqRecords

\* Base survives a step of an operation that knows what it should.
LEMMA OpBase ==
    ASSUME IInv, NEW o \in Ops, NEW x, Becomes(o, x), Knows(x, o), req' = req,
           store' \in Credentials, binding' \in Bindings, state' \in LoginState,
           late' = late, edits' = edits
    PROVE  Base' /\ Alters(op, op', o, x)
<1>1. op \in [Ops -> OpRecords] /\ x \in OpRecords /\ op' = [op EXCEPT ![o] = x]
  BY BaseTypes DEF IInv, Becomes
<1>2. op' \in [Ops -> OpRecords] /\ Alters(op, op', o, x)
  BY <1>1 DEF Alters
<1>3. TypeOK'
  BY <1>2 DEF IInv, Base, TypeOK, OpRecords
<1>4. \A j \in Ops : Knows(op'[j], j)
  BY <1>2 DEF Alters, IInv, Base
<1>5. \A k \in Requests : Carries(req'[k])
  BY DEF IInv, Base
<1> QED
  BY <1>2, <1>3, <1>4, <1>5 DEF Base

\* A step inside maintain_web keeps the invariant.
LEMMA InquiresKept ==
    ASSUME IInv, NEW o \in Ops, Inquires(o)
    PROVE  Kept
<1>1. PICK x : Becomes(o, x) /\ Knows(x, o) /\ Tracks(x, binding') /\ x.pc \in Early \ {"load"}
  BY DEF Inquires, Proper
<1>2. state \in LoginState /\ Callbacks(req) /\ Sound(state, op, req, binding)
  BY BaseTypes, CallbacksHold DEF IInv
<1>3. Base' /\ Alters(op, op', o, x)
  BY <1>1, <1>2, OpBase DEF Inquires
<1>4. NoStuck(state) /\ state.readiness # None =>
         /\ Backed(state.readiness, binding')
         /\ state.readiness.web # "ready" /\ state.readiness.key # "ready"
  <2> SUFFICES ASSUME NoStuck(state), state.readiness # None
               PROVE  /\ Backed(state.readiness, binding')
                      /\ state.readiness.web # "ready" /\ state.readiness.key # "ready"
    OBVIOUS
  <2>1. Backed(state.readiness, binding) /\ Shown(state, state.readiness, op[o], o)
    BY <1>2 DEF Sound, Honest
  <2>2. state.readiness.web # "ready" /\ state.readiness.key # "ready"
    BY <2>1 DEF Shown, Inquires
  <2> QED
    BY <2>1, <2>2 DEF Backed
<1>5. op[o].pc \in Early /\ state' = state /\ req' = req
  BY DEF Inquires
<1>6. Sound(state, op', req, binding') /\ Keeps(state, state)
  BY <1>1, <1>2, <1>3, <1>4, <1>5, EarlyKeeps
<1> QED
  BY <1>3, <1>5, <1>6 DEF Kept, IInv

\* No callback can complete a session that does not exist or is a Web login's.
LEMMA NoCallbacks ==
    ASSUME IInv, NEW o \in Ops, op[o].pc \in Early \/ o \in Starts
    PROVE  Spares(req, req, o) /\ ~Stuck(state, o)
<1>1. ~Stuck(state, o)
  <2>1. CASE op[o].pc \in Early
    BY <2>1, SessionTypes DEF IInv, Sound, Control, Placed, Stuck
  <2>2. CASE o \in Starts
    BY <2>2, LoginAssumption DEF Stuck
  <2> QED
    BY <2>1, <2>2
<1>2. ASSUME NEW k \in Requests, Live(req[k])
      PROVE  req[k].op # o
  <2>1. req[k].op \in KeyStarts /\ req[k].op \in Ops
    BY <1>2, LiveFacts, CallbacksHold DEF IInv
  <2>2. CASE op[o].pc \in Early
    <3>1. state.sessions[req[k].op].finishing /\ state.sessions[o] = NoSession
      BY <1>2, <2>2 DEF IInv, Sound, Control, Placed, Claims, Stands
    <3> QED
      BY <3>1, SessionTypes
  <2>3. CASE o \in Starts
    BY <2>1, <2>3, LoginAssumption
  <2> QED
    BY <2>2, <2>3
<1> QED
  BY <1>1, <1>2 DEF Spares

\* An operation ends, or goes on without the profile.
LEMMA ReleaseKept ==
    ASSUME IInv, NEW o \in Ops, op[o].pc \in Early \/ o \in Starts,
           NEW x, Becomes(o, x), Knows(x, o), x.pc \in {"done", "verify"},
           state.active \in {None, Login(o), Verifier(o)},
           Frees(state, state', o), NoStuck(state) => Sayable(state'.readiness, binding),
           store' = store, binding' = binding, req' = req, late' = late, edits' = edits
    PROVE  Kept
<1>1. /\ state \in LoginState /\ Callbacks(req) /\ Sound(state, op, req, binding)
      /\ store' \in Credentials /\ binding' \in Bindings
  BY BaseTypes, CallbacksHold DEF IInv
<1>2. state' \in LoginState
  BY DEF Frees
<1>3. Base' /\ Alters(op, op', o, x)
  BY <1>1, <1>2, OpBase
<1>4. Spares(req, req, o) /\ ~Stuck(state, o)
  BY NoCallbacks
<1>5. Leaves(op, op', o)
  BY <1>3 DEF Alters, Leaves
<1>6. Sound(state', op', req, binding) /\ Keeps(state, state')
  BY <1>1, <1>4, <1>5, ReleaseKeeps
<1> QED
  BY <1>3, <1>6 DEF Kept, IInv

\* An operation that returns keeps nothing.
LEMMA ReturnFacts ==
    ASSUME NEW o \in Ops, Return(o)
    PROVE  Becomes(o, Over) /\ Knows(Over, o) /\ Over.pc = "done"
BY OverFacts DEF Return, Becomes

\* The reservation guard of an operation that ends before there is a session,
\* whatever the operation has shown last.
LEMMA CancelKept ==
    ASSUME IInv, NEW o \in Ops, op[o].pc \in Early,
           NEW s \in LoginState, s.sessions = state.sessions, s.active = state.active,
           NoStuck(state) /\ s.readiness # None => Backed(s.readiness, binding),
           state' = Cancel(s, Login(o)), Return(o),
           store' = store, binding' = binding, req' = req, late' = late, edits' = edits
    PROVE  Kept
<1>1. state.active = Login(o) /\ state.sessions[o] = NoSession
  BY DEF IInv, Sound, Control, Placed
<1>2. /\ state' \in LoginState /\ state'.sessions = s.sessions /\ state'.active = None
      /\ \/ state'.readiness = None
         \/ Settled(s.readiness, state'.readiness, "unavailable", "unavailable")
  BY <1>1, CancelFacts
<1>3. Frees(state, state', o)
  BY <1>1, <1>2, SessionTypes DEF Frees, Older
<1>4. NoStuck(state) => Sayable(state'.readiness, binding)
  BY <1>2 DEF Sayable, Settled, Backed, Quiet
<1> QED
  BY <1>1, <1>3, <1>4, ReleaseKept, ReturnFacts

\* ... and if it has shown nothing new.
LEMMA PlainCancelKept ==
    ASSUME IInv, NEW o \in Ops, op[o].pc \in Early, state' = Cancel(state, Login(o)), Return(o),
           store' = store, binding' = binding, req' = req, late' = late, edits' = edits
    PROVE  Kept
<1>1. state \in LoginState
  BY BaseTypes DEF IInv
<1>2. NoStuck(state) /\ state.readiness # None => Backed(state.readiness, binding)
  BY DEF IInv, Sound, Honest
<1> QED
  BY <1>1, <1>2, CancelKept

\* A session that has ended stays ended over two sections of one step.
LEMMA KeepsOn ==
    ASSUME NEW s, NEW t, NEW u, NEW o \in Ops, Keeps(s, t),
           \A j \in Ops \ {o} : /\ u.sessions[j] = t.sessions[j]
                                /\ u.active = Login(j) => t.active = Login(j),
           s.sessions[o].done =>
              /\ u.sessions[o].state = t.sessions[o].state
              /\ u.active = Login(o) => t.active = Login(o)
    PROVE  Keeps(s, u)
<1> SUFFICES ASSUME NEW j \in Ops, s.sessions[j].done
             PROVE  /\ \/ u.sessions[j].state \in {"none", s.sessions[j].state}
                       \/ {s.sessions[j].state, u.sessions[j].state} = {"expired", "pending"}
                    /\ u.active = Login(j) => s.active = Login(j)
  BY DEF Keeps
<1>1. u.sessions[j].state = t.sessions[j].state /\ (u.active = Login(j) => t.active = Login(j))
  OBVIOUS
<1>2. /\ \/ t.sessions[j].state \in {"none", s.sessions[j].state}
         \/ {s.sessions[j].state, t.sessions[j].state} = {"expired", "pending"}
      /\ t.active = Login(j) => s.active = Login(j)
  BY DEF Keeps
<1> QED
  BY <1>1, <1>2

\* The invariant after expire_sessions, with or without the pruning.
LEMMA Tidy ==
    ASSUME IInv
    PROVE  \A gone \in SUBSET Prunable(ExpireSessions(state)) :
              LET t == Forget(ExpireSessions(state), gone)
              IN /\ t \in LoginState /\ Tidied(state, t)
                 /\ Sound(t, op, req, binding) /\ Keeps(state, t)
<1> SUFFICES ASSUME NEW gone \in SUBSET Prunable(ExpireSessions(state))
             PROVE  LET t == Forget(ExpireSessions(state), gone)
                    IN /\ t \in LoginState /\ Tidied(state, t)
                       /\ Sound(t, op, req, binding) /\ Keeps(state, t)
  OBVIOUS
<1> DEFINE t == Forget(ExpireSessions(state), gone)
<1>1. /\ state \in LoginState /\ late \subseteq Starts \cup KeyStarts
      /\ Callbacks(req) /\ Sound(state, op, req, binding)
  BY BaseTypes, CallbacksHold DEF IInv
<1>2. Tidied(state, t)
  BY <1>1, TidyFacts
<1> HIDE DEF t
<1>3. Sound(t, op, req, binding) /\ Keeps(state, t) /\ t \in LoginState
  BY <1>1, <1>2, TidyKeeps DEF Tidied
<1> QED
  BY <1>2, <1>3 DEF t

\* The invariant after expire_sessions alone.
LEMMA Expire ==
    ASSUME IInv
    PROVE  LET t == ExpireSessions(state)
           IN /\ t \in LoginState /\ Tidied(state, t)
              /\ Sound(t, op, req, binding) /\ Keeps(state, t)
<1> DEFINE t == ExpireSessions(state)
<1>1. /\ state \in LoginState /\ late \subseteq Starts \cup KeyStarts
      /\ Callbacks(req) /\ Sound(state, op, req, binding)
  BY BaseTypes, CallbacksHold DEF IInv
<1>2. Tidied(state, t)
  BY <1>1, ExpireFacts
<1> HIDE DEF t
<1>3. Sound(t, op, req, binding) /\ Keeps(state, t) /\ t \in LoginState
  BY <1>1, <1>2, TidyKeeps DEF Tidied
<1> QED
  BY <1>2, <1>3 DEF t

\* What all steps of an operation that leave the files alone have in common.
LEMMA OpStep ==
    ASSUME IInv, NEW o \in Ops, NEW x, Becomes(o, x), Knows(x, o), state' \in LoginState,
           store' = store, binding' = binding, req' = req, late' = late, edits' = edits
    PROVE  /\ Base' /\ Alters(op, op', o, x)
           /\ Sound(state', op', req, binding) /\ Keeps(state, state') => Kept
<1>1. store' \in Credentials /\ binding' \in Bindings
  BY BaseTypes DEF IInv
<1>2. Base' /\ Alters(op, op', o, x)
  BY <1>1, OpBase
<1> QED
  BY <1>2 DEF Kept, IInv

\* reserve_profile takes a free profile after tidying, or refuses.
LEMMA ReserveKept ==
    ASSUME IInv, NEW o \in Ops, Reserve(o)
    PROVE  Kept
<1>1. op[o].pc = "idle" /\ UNCHANGED <<store, binding, req, late, edits>>
  BY DEF Reserve
<1>2. PICK gone \in SUBSET Prunable(ExpireSessions(state)) :
         LET s == Forget(ExpireSessions(state), gone)
         IN IF s.active # None
            THEN state' = s /\ Return(o)
            ELSE state' = [s EXCEPT !.active = Login(o)] /\ Goto(o, "load")
  BY DEF Reserve
<1> DEFINE s == Forget(ExpireSessions(state), gone)
<1>3. /\ s \in LoginState /\ Sound(s, op, req, binding) /\ Keeps(state, s)
      /\ state \in LoginState /\ Callbacks(req)
  BY Tidy, BaseTypes, CallbacksHold DEF IInv
<1>4. /\ s.active # None => state' = s /\ Return(o)
      /\ s.active = None => state' = [s EXCEPT !.active = Login(o)] /\ Goto(o, "load")
  BY <1>2
<1> HIDE DEF s
<1>5. s.sessions[o] = NoSession /\ state.sessions[o] = NoSession
  BY <1>1, <1>3 DEF IInv, Sound, Control, Placed
<1>6. CASE s.active # None
  <2>1. Becomes(o, Over) /\ Knows(Over, o) /\ Over.pc = "done"
    BY <1>4, <1>6, ReturnFacts
  <2>2. Base' /\ Alters(op, op', o, Over)
    BY <1>1, <1>3, <1>4, <1>6, <2>1, OpStep
  <2>3. Sound(s, op', req, binding)
    BY <1>1, <1>3, <1>5, <2>1, <2>2, SessionTypes, IdleKeeps DEF IsPending
  <2> QED
    BY <1>1, <1>3, <1>4, <1>6, <2>1, <2>3, OpStep
<1>7. CASE s.active = None
  <2>1. /\ state' \in LoginState /\ state'.active = Login(o)
        /\ state'.sessions = s.sessions /\ state'.readiness = s.readiness
    BY <1>3, <1>4, <1>7, OwnersDiffer DEF LoginState
  <2>2. "load" \in Pcs
    BY DEF Pcs
  <2>3. PICK x : /\ Becomes(o, x)
                 /\ x.pc = "load" /\ x.cred = op[o].cred /\ x.bound = op[o].bound
                 /\ x.fresh = op[o].fresh /\ x.web = op[o].web /\ x.failed = op[o].failed
    BY <1>4, <1>7, <2>2, GotoFacts DEF IInv
  <2>4. Knows(x, o)
    BY <1>1, <2>3 DEF IInv, Base, Knows, Asking, Saving, Polled
  <2>5. Base' /\ Alters(op, op', o, x)
    BY <1>1, <2>1, <2>3, <2>4, OpStep
  <2>6. Sound(state', op', req, binding) /\ Keeps(s, state')
    BY <1>1, <1>3, <1>7, <2>1, <2>3, <2>5, ReserveKeeps
  <2>7. Keeps(state, state')
    BY <1>3, <1>5, <2>1, SessionTypes, OwnersDiffer, KeepsOn
  <2> QED
    BY <1>1, <2>1, <2>3, <2>4, <2>6, <2>7, OpStep
<1> QED
  BY <1>6, <1>7

\* An operation whose credentials can not be read gives the profile back.
LEMMA LoadFailsKept ==
    ASSUME IInv, NEW o \in Ops, LoadFails(o)
    PROVE  Kept
<1>1. /\ op[o].pc \in Early /\ Return(o)
      /\ store' = store /\ binding' = binding /\ req' = req /\ late' = late /\ edits' = edits
      /\ state' = Cancel(IF o \in Upkeeps THEN SetUnavailable(state) ELSE state, Login(o))
  BY DEF LoadFails, Early
<1>2. CASE o \in Upkeeps
  <2> DEFINE s == SetUnavailable(state)
  <2>1. /\ s \in LoginState /\ s.sessions = state.sessions /\ s.active = state.active
        /\ Backed(s.readiness, binding)
    BY BaseTypes, UnavailableFacts DEF IInv, Backed
  <2>2. state' = Cancel(s, Login(o))
    BY <1>1, <1>2
  <2> HIDE DEF s
  <2> QED
    BY <1>1, <2>1, <2>2, CancelKept
<1>3. CASE o \notin Upkeeps
  BY <1>1, <1>3, PlainCancelKept
<1> QED
  BY <1>2, <1>3

\* start gives the profile back if no QR code can be had.
LEMMA TicketFailsKept ==
    ASSUME IInv, NEW o \in Ops, TicketFails(o)
    PROVE  Kept
<1>1. op[o].pc \in Early
  BY DEF TicketFails, Early
<1> QED
  BY <1>1, PlainCancelKept DEF TicketFails

\* A dropped call gives the profile back (ProfileReservationGuard::drop).
LEMMA DropKept ==
    ASSUME IInv, NEW o \in Ops, Drop(o)
    PROVE  Kept
<1>1. op[o].pc \in Early
  BY DEF Drop, Early, Asking
<1> QED
  BY <1>1, PlainCancelKept DEF Drop

\* Loading shows the credentials as being checked.
LEMMA LoadKept ==
    ASSUME IInv, NEW o \in Ops, Load(o)
    PROVE  Kept
<1> DEFINE web == WebLevel(store, "checking")
           key == KeyLevel(store, "checking")
           s == SetReadiness(state, store, web, key)
<1>1. /\ op[o].pc = "load" /\ state' = s
      /\ store' = store /\ binding' = binding /\ req' = req /\ late' = late /\ edits' = edits
  BY DEF Load
<1>2. /\ web \in {"missing", "checking"} /\ web \in Levels
      /\ key \in {"missing", "checking"} /\ key \in Levels
      /\ store \in Credentials /\ binding \in Bindings /\ state \in LoginState
  <2>1. "checking" \in Levels
    BY DEF Levels
  <2> QED
    BY <2>1, BaseTypes, LevelTypes DEF IInv
<1> HIDE DEF web, key
<1>3. /\ s \in LoginState /\ s.sessions = state.sessions /\ s.active = state.active
      /\ s.readiness.web = web /\ s.readiness.key = key /\ ~s.readiness.all
  BY <1>2, SetFacts
<1> HIDE DEF s
<1>4. /\ op[o] \in OpRecords /\ op \in [Ops -> OpRecords]
      /\ op[o].web = "missing" /\ ~op[o].failed
  BY <1>1, BaseTypes DEF IInv, Base, Knows
<1>5. \E x : Becomes(o, x) /\ Knows(x, o) /\ Tracks(x, binding) /\ x.pc \in Early \ {"load"}
  <2>1. CASE op' = [op EXCEPT ![o] = [@ EXCEPT !.pc = IF store.web = None THEN "maintained" ELSE "identity",
                                               !.cred = store, !.bound = binding]]
    <3> DEFINE x == [op[o] EXCEPT !.pc = IF store.web = None THEN "maintained" ELSE "identity",
                                  !.cred = store, !.bound = binding]
    <3>1. /\ x \in OpRecords /\ x.cred = store /\ x.bound = binding
          /\ x.pc = IF store.web = None THEN "maintained" ELSE "identity"
          /\ x.web = "missing" /\ ~x.failed
      BY <1>2, <1>4 DEF OpRecords, Pcs
    <3>2. op' = [op EXCEPT ![o] = x]
      BY <1>4, <2>1
    <3> HIDE DEF x
    <3>3. Knows(x, o) /\ Tracks(x, binding) /\ x.pc \in Early \ {"load"}
      BY <3>1 DEF Knows, Asking, Saving, Polled, Tracks, Early
    <3> QED
      BY <3>1, <3>2, <3>3 DEF Becomes
  <2>2. CASE op' = [op EXCEPT ![o] = [@ EXCEPT !.pc = "maintained", !.cred = store,
                                               !.web = "unavailable", !.failed = TRUE]]
    <3> DEFINE x == [op[o] EXCEPT !.pc = "maintained", !.cred = store,
                                  !.web = "unavailable", !.failed = TRUE]
    <3>1. /\ x \in OpRecords /\ x.pc = "maintained" /\ x.web = "unavailable" /\ x.failed
      BY <1>2, <1>4 DEF OpRecords, Pcs, Levels
    <3>2. op' = [op EXCEPT ![o] = x]
      BY <1>4, <2>2
    <3> HIDE DEF x
    <3>3. Knows(x, o) /\ Tracks(x, binding) /\ x.pc \in Early \ {"load"}
      BY <3>1 DEF Knows, Asking, Saving, Polled, Tracks, Early
    <3> QED
      BY <3>1, <3>2, <3>3 DEF Becomes
  <2> QED
    BY <2>1, <2>2 DEF Load
<1>6. PICK x : Becomes(o, x) /\ Knows(x, o) /\ Tracks(x, binding) /\ x.pc \in Early \ {"load"}
  BY <1>5
<1>7. Alters(op, op', o, x)
  BY <1>1, <1>3, <1>6, OpStep
<1>8. Callbacks(req) /\ Sound(state, op, req, binding) /\ op[o].pc \in Early
  BY <1>1, CallbacksHold DEF IInv, Early
<1>9. /\ Backed(s.readiness, binding)
      /\ s.readiness.web # "ready" /\ s.readiness.key # "ready"
  BY <1>2, <1>3 DEF Backed
<1>10. Sound(s, op', req, binding) /\ Keeps(state, s)
  BY <1>2, <1>3, <1>6, <1>7, <1>8, <1>9, EarlyKeeps
<1> QED
  BY <1>1, <1>3, <1>6, <1>10, OpStep

\* The operation ends with a session that is ready at once.
LEMMA EndReadyKept ==
    ASSUME IInv, NEW o \in Ops, op[o].pc \in Early,
           NEW s \in LoginState, s.sessions = state.sessions, s.active = state.active,
           s.readiness # None, Backed(s.readiness, binding), Quiet(s.readiness),
           NEW gone \in SUBSET Prunable(ExpireSessions(s)), state' = EndReady(s, o, gone), Return(o),
           store' = store, binding' = binding, req' = req, late' = late, edits' = edits
    PROVE  Kept
<1> DEFINE t == Forget(ExpireSessions(s), gone)
           f == Release(t, Login(o))
<1>1. state.active = Login(o) /\ state.sessions[o] = NoSession
  BY DEF IInv, Sound, Control, Placed
<1>2. Tidied(s, t)
  BY BaseTypes, TidyFacts DEF IInv
<1>3. state' = [f EXCEPT !.sessions[o] = ReadySession]
  BY DEF EndReady
<1> HIDE DEF t
<1>4. t \in LoginState /\ t.active \in {Login(o), None}
  BY <1>1, <1>2 DEF Tidied
<1>5. f \in LoginState /\ f.sessions = t.sessions /\ f.readiness = t.readiness /\ f.active = None
  BY <1>4, ReleaseFacts
<1> HIDE DEF f
<1>6. /\ state' \in LoginState /\ state'.active = None /\ state'.readiness = t.readiness
      /\ state'.sessions[o] = ReadySession
      /\ \A j \in Ops \ {o} : state'.sessions[j] = t.sessions[j]
  BY <1>3, <1>5, SessionTypes DEF LoginState
<1>7. Frees(state, state', o)
  BY <1>1, <1>2, <1>6, SessionTypes DEF Frees, Tidied
<1>8. Sayable(state'.readiness, binding)
  BY <1>2, <1>6 DEF Tidied, Eased, Sayable, Backed, Quiet
<1> QED
  BY <1>1, <1>7, <1>8, ReleaseKept, ReturnFacts

\* On to the login ticket, or to the check of the key.
LEMMA NextCheck ==
    ASSUME IInv, NEW o \in Ops, NEW pc \in {"ticket", "keycheck", "session"},
           op[o].pc \in {"maintained", "keycheck"}, Goto(o, pc), ~op[o].failed,
           pc = "ticket" => o \in Starts,
           pc \in {"keycheck", "session"} /\ o \in KeyStarts => op[o].bound # None,
           pc = "session" => o \in KeyStarts,
           store' = store, binding' = binding, state' = state, req' = req, late' = late, edits' = edits
    PROVE  Kept
<1>1. pc \in Pcs
  BY DEF Pcs
<1>2. PICK x : /\ Becomes(o, x)
               /\ x.pc = pc /\ x.cred = op[o].cred /\ x.bound = op[o].bound
               /\ x.fresh = op[o].fresh /\ x.web = op[o].web /\ x.failed = op[o].failed
  BY <1>1, GotoFacts DEF IInv
<1>3. op[o].bound = binding
  BY DEF IInv, Sound, Synced, Tracks
<1>4. /\ op[o].web # "checking"
      /\ op[o].web = "ready" => op[o].cred.web # None /\ op[o].bound = Bound(op[o].cred.web)
  BY DEF IInv, Base, Knows
<1>5. Knows(x, o)
  BY <1>2, <1>4 DEF Knows, Asking, Saving, Polled
<1>6. Proper(o, x) /\ x.pc \in Early \ {"load"}
  BY <1>2, <1>3, <1>5 DEF Proper, Tracks, Asking, Early
<1>7. Inquires(o)
  BY <1>6, BaseTypes DEF Inquires, IInv, Early
<1> QED
  BY <1>7, InquiresKept

\* start goes on to a QR code or returns with the settled record.
LEMMA AfterStartKept ==
    ASSUME IInv, NEW o \in Ops, AfterStart(o)
    PROVE  Kept
<1>1. /\ o \in Starts /\ op[o].pc = "maintained" /\ op[o].pc \in Early
      /\ store' = store /\ binding' = binding /\ req' = req /\ late' = late /\ edits' = edits
  BY DEF AfterStart, Early
<1>2. /\ state \in LoginState /\ store \in Credentials /\ op[o] \in OpRecords
      /\ op[o].cred \in Credentials /\ op[o].web \in Levels
  BY BaseTypes DEF IInv, OpRecords
<1>3. "unknown" \in Levels /\ "ready" \in Levels
  BY DEF Levels
<1>4. CASE ~op[o].failed /\ op[o].web # "ready" /\ Goto(o, "ticket") /\ UNCHANGED state
  BY <1>1, <1>4, LoginAssumption, NextCheck
<1>5. CASE /\ ~op[o].failed /\ op[o].web = "ready"
           /\ LET ready == SetReadiness(state, op[o].cred, "ready", KeyLevel(op[o].cred, "unknown"))
              IN \E gone \in SUBSET Prunable(ExpireSessions(ready)) : state' = EndReady(ready, o, gone)
           /\ Return(o)
  <2> DEFINE key == KeyLevel(op[o].cred, "unknown")
             s == SetReadiness(state, op[o].cred, "ready", key)
  <2>1. key \in {"missing", "unknown"} /\ key \in Levels
    BY <1>2, <1>3 DEF KeyLevel, Levels
  <2> HIDE DEF key
  <2>2. /\ s \in LoginState /\ s.sessions = state.sessions /\ s.active = state.active
        /\ s.readiness # None /\ s.readiness.web = "ready" /\ s.readiness.key = key
        /\ s.readiness.cred = op[o].cred /\ ~s.readiness.all
    <3> DEFINE c == op[o].cred
    <3>1. c \in Credentials
      BY <1>2
    <3> HIDE DEF c
    <3>2. LET u == SetReadiness(state, c, "ready", key)
          IN /\ u \in LoginState /\ u.sessions = state.sessions /\ u.active = state.active
             /\ u.readiness # None /\ u.readiness.web = "ready" /\ u.readiness.key = key
             /\ u.readiness.cred = c /\ ~u.readiness.all
      <4>1. "ready" \in Levels /\ state \in LoginState /\ key \in Levels
        BY <1>2, <1>3, <2>1
      <4> QED
        BY ONLY <3>1, <4>1, SetFacts
    <3> QED
      BY <3>2 DEF c
  <2>3. PICK gone \in SUBSET Prunable(ExpireSessions(s)) : state' = EndReady(s, o, gone)
    BY <1>5 DEF key
  <2> HIDE DEF s
  <2>4. op[o].cred.web # None /\ binding = Bound(op[o].cred.web)
    BY <1>1, <1>5 DEF IInv, Base, Knows, Sound, Synced, Tracks
  <2>5. Backed(s.readiness, binding) /\ Quiet(s.readiness)
    BY <2>1, <2>2, <2>4 DEF Backed, Quiet
  <2> QED
    BY <1>1, <1>5, <2>2, <2>3, <2>5, EndReadyKept
<1>6. CASE op[o].failed /\ state' = Cancel(state, Login(o)) /\ Return(o)
  BY <1>1, <1>6, PlainCancelKept
<1>7. CASE /\ op[o].failed
           /\ state' = Cancel(SetReadiness(state, store, op[o].web, KeyLevel(store, "unknown")), Login(o))
           /\ Return(o)
  <2> DEFINE key == KeyLevel(store, "unknown")
             s == SetReadiness(state, store, op[o].web, key)
  <2>1. key \in {"missing", "unknown"} /\ key \in Levels
    BY <1>2, <1>3 DEF KeyLevel, Levels
  <2>2. op[o].web \in {"unavailable", "loginRequired"}
    BY <1>7 DEF IInv, Base, Knows
  <2>3. state' = Cancel(s, Login(o))
    BY <1>7
  <2> HIDE DEF key
  <2>4. /\ s \in LoginState /\ s.sessions = state.sessions /\ s.active = state.active
        /\ s.readiness.web = op[o].web /\ s.readiness.key = key /\ ~s.readiness.all
    BY <1>2, <2>1, SetFacts
  <2> HIDE DEF s
  <2>5. Backed(s.readiness, binding)
    BY <2>1, <2>2, <2>4 DEF Backed
  <2> QED
    BY <1>1, <1>7, <2>3, <2>4, <2>5, CancelKept
<1> QED
  BY <1>4, <1>5, <1>6, <1>7 DEF AfterStart

\* start_access_key and maintain_profile check the saved key or return.
LEMMA AfterOthersKept ==
    ASSUME IInv, NEW o \in Ops, AfterOthers(o)
    PROVE  Kept
<1>1. /\ o \in KeyStarts \cup Upkeeps /\ op[o].pc = "maintained" /\ op[o].pc \in Early
      /\ store' = store /\ binding' = binding /\ req' = req /\ late' = late /\ edits' = edits
  BY DEF AfterOthers, Early
<1>2. /\ state \in LoginState /\ store \in Credentials /\ binding \in Bindings
      /\ op \in [Ops -> OpRecords] /\ op[o] \in OpRecords
      /\ op[o].cred \in Credentials /\ op[o].web \in Levels
  BY BaseTypes DEF IInv, OpRecords
<1>3. CASE /\ op[o].failed /\ UNCHANGED state
           /\ \E b \in {None, binding} : \E c \in Reloaded(o) : CheckAgain(o, c, b)
  <2>1. PICK b \in {None, binding}, c \in Reloaded(o) : CheckAgain(o, c, b)
    BY <1>3
  <2> DEFINE x == [op[o] EXCEPT !.pc = "keycheck", !.cred = c, !.bound = b]
  <2>2. b \in Bindings /\ c \in Credentials
    BY <1>2, CredentialTypes DEF Bindings, Reloaded
  <2>3. /\ x \in OpRecords /\ x.pc = "keycheck" /\ x.web = op[o].web /\ x.failed = op[o].failed
    BY <1>2, <2>2 DEF OpRecords, Pcs
  <2>4. op' = [op EXCEPT ![o] = x]
    BY <1>2, <2>1 DEF CheckAgain
  <2> HIDE DEF x
  <2>5. op[o].web \in {"unavailable", "loginRequired"}
    BY <1>3 DEF IInv, Base, Knows
  <2>6. Knows(x, o)
    BY <1>3, <2>3, <2>5 DEF Knows, Asking, Saving, Polled
  <2>7. Proper(o, x) /\ x.pc \in Early \ {"load"}
    BY <1>3, <2>3, <2>4, <2>6 DEF Proper, Becomes, Tracks, Asking, Early
  <2>8. Inquires(o)
    BY <1>1, <1>2, <1>3, <2>7 DEF Inquires
  <2> QED
    BY <2>8, InquiresKept
<1>4. CASE op[o].failed /\ o \in KeyStarts /\ state' = Cancel(SetUnavailable(state), Login(o)) /\ Return(o)
  <2> DEFINE s == SetUnavailable(state)
  <2>1. /\ s \in LoginState /\ s.sessions = state.sessions /\ s.active = state.active
        /\ Backed(s.readiness, binding)
    BY <1>2, UnavailableFacts DEF Backed
  <2>2. state' = Cancel(s, Login(o))
    BY <1>4
  <2> HIDE DEF s
  <2> QED
    BY <1>1, <1>4, <2>1, <2>2, CancelKept
<1>5. CASE ~op[o].failed /\ (o \in Upkeeps \/ op[o].bound # None) /\ Goto(o, "keycheck") /\ UNCHANGED state
  BY <1>1, <1>5, LoginAssumption, NextCheck
<1>6. CASE /\ ~op[o].failed /\ o \in KeyStarts /\ op[o].bound = None
           /\ state' = Cancel(SetReadiness(state, op[o].cred, op[o].web, "loginRequired"), Login(o))
           /\ Return(o)
  <2> DEFINE c == op[o].cred
             web == op[o].web
             s == SetReadiness(state, c, web, "loginRequired")
  <2>1. c \in Credentials /\ web \in Levels /\ "loginRequired" \in Levels /\ state \in LoginState
    BY <1>2 DEF Levels
  <2>2. state' = Cancel(s, Login(o))
    BY <1>6
  <2>3. web = "ready" => c.web # None /\ binding = Bound(c.web)
    BY <1>1, <1>6 DEF IInv, Base, Knows, Sound, Synced, Tracks
  <2> HIDE DEF c, web
  <2>4. /\ s \in LoginState /\ s.sessions = state.sessions /\ s.active = state.active
        /\ s.readiness.web = web /\ s.readiness.key = "loginRequired" /\ ~s.readiness.all
        /\ s.readiness.cred = c
    BY ONLY <2>1, SetFacts
  <2> HIDE DEF s
  <2>5. Backed(s.readiness, binding)
    BY <2>3, <2>4 DEF Backed
  <2> QED
    BY <1>1, <1>6, <2>2, <2>4, <2>5, CancelKept
<1> QED
  BY <1>3, <1>4, <1>5, <1>6 DEF AfterOthers

\* The saved key's verdict is published, or a browser session is opened for a new one.
LEMMA KeyCheckKept ==
    ASSUME IInv, NEW o \in Ops, KeyCheck(o)
    PROVE  Kept
<1>1. /\ op[o].pc = "keycheck" /\ op[o].pc \in Early
      /\ store' = store /\ binding' = binding /\ req' = req /\ late' = late /\ edits' = edits
  BY DEF KeyCheck, Early
<1> DEFINE c == op[o].cred
           b == op[o].bound
           web == op[o].web
           login == o \in KeyStarts /\ ~op[o].failed
<1>2. PICK answer \in Answers :
         LET v == KeyVerdict(c, b, answer)
             w == SetReadiness(state, c, web, v)
         IN \/ ~login /\ state' = Cancel(w, Login(o)) /\ Return(o)
            \/ /\ login /\ v = "ready"
               /\ \E gone \in SUBSET Prunable(ExpireSessions(w)) : state' = EndReady(w, o, gone)
               /\ Return(o)
            \/ login /\ (c.key = None \/ answer = "rejected") /\ Goto(o, "session") /\ UNCHANGED state
            \/ login /\ c.key # None /\ answer # "rejected" /\ v # "ready"
               /\ state' = Cancel(w, Login(o)) /\ Return(o)
  BY DEF KeyCheck
<1> DEFINE verdict == KeyVerdict(c, b, answer)
           s == SetReadiness(state, c, web, verdict)
<1>3. \/ (state' = Cancel(s, Login(o)) /\ Return(o))
      \/ (\E gone \in SUBSET Prunable(ExpireSessions(s)) : state' = EndReady(s, o, gone)) /\ Return(o)
      \/ login /\ Goto(o, "session") /\ UNCHANGED state
  BY <1>2
<1>4. state \in LoginState /\ c \in Credentials /\ web \in Levels /\ b \in Bindings
  BY BaseTypes DEF IInv, OpRecords
<1>5. /\ web # "checking"
      /\ web = "ready" => c.web # None /\ b = Bound(c.web)
      /\ web \in {"ready", "missing"} => ~op[o].failed
      /\ login => b # None
  BY <1>1 DEF IInv, Base, Knows
<1>6. ~op[o].failed => b = binding
  BY <1>1 DEF IInv, Sound, Synced, Tracks
<1> HIDE DEF c, b, web
<1>7. /\ verdict \in Levels \ {"checking", "unknown"}
      /\ verdict = "ready" => c.key # None /\ (b # None => b.account = AccountOf[c.key])
  <2>1. "ready" \in Levels
    BY DEF Levels
  <2> QED
    BY <1>4, <2>1, LevelTypes
<1> HIDE DEF verdict
<1>8. /\ s \in LoginState /\ s.sessions = state.sessions /\ s.active = state.active
      /\ s.readiness # None /\ s.readiness.web = web /\ s.readiness.key = verdict
      /\ ~s.readiness.all /\ s.readiness.cred = c
  <2>1. verdict \in Levels
    BY <1>7
  <2> QED
    BY ONLY <1>4, <2>1, SetFacts
<1> HIDE DEF s
<1>9. Backed(s.readiness, binding) /\ Quiet(s.readiness)
  BY <1>5, <1>6, <1>7, <1>8 DEF Backed, Quiet
<1>10. CASE state' = Cancel(s, Login(o)) /\ Return(o)
  BY <1>1, <1>8, <1>9, <1>10, CancelKept
<1>11. CASE (\E gone \in SUBSET Prunable(ExpireSessions(s)) : state' = EndReady(s, o, gone)) /\ Return(o)
  BY <1>1, <1>8, <1>9, <1>11, EndReadyKept
<1>12. CASE login /\ Goto(o, "session") /\ UNCHANGED state
  BY <1>1, <1>5, <1>12, NextCheck DEF b
<1> QED
  BY <1>3, <1>10, <1>11, <1>12

-----------------------------------------------------------------------------
(* Sessions: opening one, and the life of a Web login.                      *)

\* A session opens with a record in which nothing is ready too early.
LEMMA OpenSessionKept ==
    ASSUME IInv, NEW o \in Ops, op[o].pc \in {"ticket", "session"},
           NEW web \in Levels, NEW key \in Levels, NEW pc \in {"poll", "waiting"},
           OpenSession(o, web, key), Goto(o, pc),
           \/ o \in Starts /\ o \notin KeyStarts /\ pc = "poll" /\ op[o].pc = "ticket"
           \/ o \in KeyStarts /\ o \notin Starts /\ pc = "waiting" /\ op[o].pc = "session",
           o \in Starts => web # "ready" /\ key \notin {"ready", "checking"},
           o \in KeyStarts => web = op[o].web /\ key = "checking",
           store' = store, binding' = binding, req' = req, late' = late, edits' = edits
    PROVE  Kept
<1> DEFINE e == ExpireSessions(state)
           f == [e EXCEPT !.sessions[o] = NewSession]
           c == op[o].cred
           s == SetReadiness(f, c, web, key)
<1>1. /\ e \in LoginState /\ Sound(e, op, req, binding) /\ Keeps(state, e)
      /\ Callbacks(req) /\ state \in LoginState
  BY Expire, BaseTypes, CallbacksHold DEF IInv
<1>2. state' = s
  BY DEF OpenSession
<1> HIDE DEF e
<1>3. /\ f \in LoginState /\ f.active = e.active
      /\ f.sessions[o] = NewSession /\ \A j \in Ops \ {o} : f.sessions[j] = e.sessions[j]
  BY <1>1, SessionTypes DEF LoginState
<1> HIDE DEF f
<1>4. c \in Credentials /\ pc \in Pcs
  BY BaseTypes DEF IInv, OpRecords, Pcs
<1> HIDE DEF c
<1>5. /\ s \in LoginState /\ s.sessions = f.sessions /\ s.active = f.active
      /\ s.readiness # None /\ s.readiness.web = web /\ s.readiness.key = key
      /\ ~s.readiness.all /\ s.readiness.cred = c
  BY ONLY <1>3, <1>4, SetFacts, web \in Levels, key \in Levels
<1> HIDE DEF s
<1>6. PICK x : /\ Becomes(o, x)
               /\ x.pc = pc /\ x.cred = op[o].cred /\ x.bound = op[o].bound
               /\ x.fresh = op[o].fresh /\ x.web = op[o].web /\ x.failed = op[o].failed
  BY <1>4, GotoFacts DEF IInv
<1>7. Knows(op[o], o) /\ Tracks(op[o], binding)
  BY DEF IInv, Base, Sound, Synced
<1>8. Knows(x, o)
  BY <1>6, <1>7 DEF Knows, Asking, Saving, Polled
<1>9. op[o].pc \in Early /\ state.sessions[o] = NoSession
  BY DEF IInv, Sound, Control, Placed, Early
<1>10. Base' /\ Alters(op, op', o, x)
  BY <1>2, <1>5, <1>6, <1>8, OpStep
<1>11. Backed(s.readiness, binding) /\ (o \in KeyStarts => web # "checking")
  BY <1>5, <1>7 DEF Backed, Knows, Tracks, c
<1>12. Touches(e, s, o, NewSession) /\ s.active = e.active
  BY <1>3, <1>5 DEF Touches
<1>13. Sound(s, op', req, binding)
  BY <1>1, <1>5, <1>6, <1>9, <1>10, <1>11, <1>12, OpenKeeps DEF c
<1>14. Keeps(state, s)
  BY <1>1, <1>3, <1>5, <1>9, SessionTypes, KeepsOn
<1> QED
  BY <1>2, <1>5, <1>6, <1>8, <1>13, <1>14, OpStep

\* start_web_qr opens the session that run_session polls.
LEMMA StartWebQrKept ==
    ASSUME IInv, NEW o \in Ops, StartWebQr(o)
    PROVE  Kept
<1>1. /\ op[o].pc = "ticket" /\ Goto(o, "poll")
      /\ OpenSession(o, "checking", KeyLevel(op[o].cred, "unknown"))
      /\ store' = store /\ binding' = binding /\ req' = req /\ late' = late /\ edits' = edits
  BY DEF StartWebQr
<1>2. o \in Starts /\ o \notin KeyStarts
  BY <1>1, LoginAssumption DEF IInv, Base, Knows
<1> DEFINE key == KeyLevel(op[o].cred, "unknown")
<1>3. "checking" \in Levels /\ key \in Levels /\ key \in {"missing", "unknown"}
  BY DEF Levels, KeyLevel
<1>4. OpenSession(o, "checking", key)
  BY <1>1
<1> HIDE DEF key
<1> QED
  BY <1>1, <1>2, <1>3, <1>4, OpenSessionKept

\* start_access_key opens the session that a callback completes.
LEMMA StartBrowserLoginKept ==
    ASSUME IInv, NEW o \in Ops, StartBrowserLogin(o)
    PROVE  Kept
<1>1. /\ op[o].pc = "session" /\ Goto(o, "waiting") /\ OpenSession(o, op[o].web, "checking")
      /\ store' = store /\ binding' = binding /\ req' = req /\ late' = late /\ edits' = edits
  BY DEF StartBrowserLogin
<1>2. o \in KeyStarts /\ o \notin Starts
  BY <1>1, LoginAssumption DEF IInv, Base, Knows
<1>3. "checking" \in Levels /\ op[o].web \in Levels
  BY BaseTypes DEF IInv, OpRecords, Levels
<1> QED
  BY <1>1, <1>2, <1>3, OpenSessionKept

\* The head of run_session's loop: go on, time out, or find the session gone.
LEMMA PollNextKept ==
    ASSUME IInv, NEW o \in Ops, PollNext(o)
    PROVE  Kept
<1> DEFINE s == ExpireSessions(state)
<1>1. /\ op[o].pc = "poll" /\ state' = s
      /\ store' = store /\ binding' = binding /\ req' = req /\ late' = late /\ edits' = edits
      /\ Goto(o, "polling") \/ Return(o)
  BY DEF PollNext
<1>2. /\ s \in LoginState /\ Sound(s, op, req, binding) /\ Keeps(state, s) /\ Callbacks(req)
  BY Expire, CallbacksHold DEF IInv
<1> HIDE DEF s
<1>3. "polling" \in Pcs
  BY DEF Pcs
<1>4. o \in Starts /\ o \notin KeyStarts /\ op[o].pc \in Polled
  BY <1>1, LoginAssumption DEF IInv, Base, Knows, Polled
<1>5. \E x : Becomes(o, x) /\ Knows(x, o) /\ x.pc \in {"done", "polling"}
  <2>1. CASE Goto(o, "polling")
    <3>1. PICK x : /\ Becomes(o, x)
                   /\ x.pc = "polling" /\ x.cred = op[o].cred /\ x.bound = op[o].bound
                   /\ x.fresh = op[o].fresh /\ x.web = op[o].web /\ x.failed = op[o].failed
      BY <1>3, <2>1, GotoFacts DEF IInv
    <3>2. Knows(x, o)
      BY <1>4, <3>1 DEF IInv, Base, Knows, Asking, Saving, Polled
    <3> QED
      BY <3>1, <3>2
  <2>2. CASE Return(o)
    BY <2>2, ReturnFacts
  <2> QED
    BY <1>1, <2>1, <2>2
<1>6. PICK x : Becomes(o, x) /\ Knows(x, o) /\ x.pc \in {"done", "polling"}
  BY <1>5
<1>7. Alters(op, op', o, x)
  BY <1>1, <1>2, <1>6, OpStep
<1>8. Sound(s, op', req, binding)
  BY <1>1, <1>2, <1>4, <1>6, <1>7, IdleKeeps DEF Polled
<1> QED
  BY <1>1, <1>2, <1>6, <1>8, OpStep

\* finish_without_store, if the login comes to nothing.
LEMMA FinishWithoutKept ==
    ASSUME IInv, NEW o \in Ops, op[o].pc \in Polled, NEW result \in {"expired", "error"},
           state' = FinishWithoutStore(state, o, result), Return(o),
           store' = store, binding' = binding, req' = req, late' = late, edits' = edits
    PROVE  Kept
<1> DEFINE e == ExpireSessions(state)
<1>1. /\ e \in LoginState /\ Tidied(state, e) /\ Sound(e, op, req, binding) /\ Keeps(state, e)
      /\ Callbacks(req) /\ state \in LoginState /\ late \subseteq Starts \cup KeyStarts
  BY Expire, BaseTypes, CallbacksHold DEF IInv
<1>2. \/ state' = e
      \/ /\ e.active = Login(o) /\ IsPending(e, o) /\ ~e.sessions[o].finishing
         /\ Closes(e, state', o, result)
         /\ \E level \in {"loginRequired", "unavailable"} :
               Settled(e.readiness, state'.readiness, level, level)
  BY <1>1, FinishWithoutFacts
<1> HIDE DEF e
<1>3. o \in Starts /\ o \notin KeyStarts
  BY LoginAssumption DEF IInv, Base, Knows
<1>4. Becomes(o, Over) /\ Knows(Over, o) /\ Over.pc = "done"
  BY ReturnFacts
<1>5. CASE state' = e
  <2>1. Alters(op, op', o, Over)
    BY <1>1, <1>4, <1>5, OpStep
  <2>2. Sound(e, op', req, binding)
    BY <1>1, <1>3, <1>4, <2>1, IdleKeeps
  <2> QED
    BY <1>1, <1>4, <1>5, <2>2, OpStep
<1>6. CASE /\ e.active = Login(o) /\ IsPending(e, o) /\ ~e.sessions[o].finishing
           /\ Closes(e, state', o, result)
           /\ \E level \in {"loginRequired", "unavailable"} :
                 Settled(e.readiness, state'.readiness, level, level)
  <2>1. state.active = Login(o)
    BY <1>1, <1>6, NoneIsNoOwner DEF Tidied
  <2>2. ~state.sessions[o].done
    BY <2>1 DEF IInv, Sound, Control, Placed
  <2>3. Frees(state, state', o)
    BY <1>1, <1>6, <2>2 DEF Frees, Closes, Tidied
  <2>4. ASSUME NoStuck(state)
        PROVE  Sayable(state'.readiness, binding)
    <3>1. NoStuck(e)
      BY <1>1, <2>4, TidyKeeps DEF IInv
    <3>2. e.readiness # None => Backed(e.readiness, binding)
      BY <1>1, <3>1 DEF Sound, Honest
    <3>3. PICK level \in {"loginRequired", "unavailable"} :
             Settled(e.readiness, state'.readiness, level, level)
      BY <1>6
    <3> QED
      BY <3>2, <3>3 DEF Sayable, Settled, Backed, Quiet
  <2> QED
    BY <1>3, <1>4, <2>1, <2>3, <2>4, ReleaseKept
<1> QED
  BY <1>2, <1>5, <1>6

\* A poll's answer, late or not, ends no session twice.
LEMMA PollAnswerKept ==
    ASSUME IInv, NEW o \in Ops, PollAnswer(o)
    PROVE  Kept
<1>1. /\ op[o].pc = "polling" /\ op[o].pc \in Polled
      /\ store' = store /\ binding' = binding /\ req' = req /\ late' = late /\ edits' = edits
  BY DEF PollAnswer, Polled
<1>2. /\ state \in LoginState /\ Sound(state, op, req, binding) /\ Callbacks(req)
      /\ op \in [Ops -> OpRecords] /\ op[o] \in OpRecords
  BY BaseTypes, CallbacksHold DEF IInv
<1>3. o \in Starts /\ o \notin KeyStarts
  BY <1>1, LoginAssumption DEF IInv, Base, Knows, Polled
<1>4. Keeps(state, state)
  BY DEF Keeps
<1>5. CASE Goto(o, "poll") /\ (state' = state \/ state' = Confirm(state, o))
  <2>1. "poll" \in Pcs
    BY DEF Pcs
  <2>2. PICK x : /\ Becomes(o, x)
                 /\ x.pc = "poll" /\ x.cred = op[o].cred /\ x.bound = op[o].bound
                 /\ x.fresh = op[o].fresh /\ x.web = op[o].web /\ x.failed = op[o].failed
    BY <1>5, <2>1, GotoFacts DEF IInv
  <2>3. Knows(x, o)
    BY <1>3, <1>1, <2>2 DEF IInv, Base, Knows, Asking, Saving, Polled
  <2>4. /\ state' \in LoginState /\ state'.active = state.active /\ state'.readiness = state.readiness
        /\ \A j \in Ops \ {o} : state'.sessions[j] = state.sessions[j]
        /\ state'.sessions[o].finishing = state.sessions[o].finishing
        /\ state'.sessions[o].done = state.sessions[o].done
        /\ \/ state'.sessions[o].state = state.sessions[o].state
           \/ state.sessions[o].state # "none" /\ state'.sessions[o].state = "pending"
    BY <1>2, <1>5, ConfirmFacts
  <2>5. state.sessions[o].state \in {"none", "pending", "expired"}
    BY <1>1 DEF IInv, Sound, Control, Placed
  <2>6. Alters(op, op', o, x)
    BY <1>1, <2>2, <2>3, <2>4, OpStep
  <2>7. Sound(state', op', req, binding) /\ Keeps(state, state')
    BY <1>1, <1>2, <1>3, <2>2, <2>4, <2>5, <2>6, IdleKeeps DEF Polled
  <2> QED
    BY <1>1, <2>2, <2>3, <2>4, <2>7, OpStep
<1>6. CASE \E result \in {"expired", "error"} :
              Return(o) /\ state' = FinishWithoutStore(state, o, result)
  BY <1>1, <1>6, FinishWithoutKept
<1>7. CASE \E w \in Webs : op' = [op EXCEPT ![o].pc = "signin", ![o].fresh = w] /\ UNCHANGED state
  <2>1. PICK w \in Webs : op' = [op EXCEPT ![o].pc = "signin", ![o].fresh = w]
    BY <1>7
  <2> DEFINE x == [op[o] EXCEPT !.pc = "signin", !.fresh = w]
  <2>2. /\ x \in OpRecords /\ x.pc = "signin" /\ x.fresh = w /\ x.cred = op[o].cred
        /\ x.bound = op[o].bound /\ x.web = op[o].web /\ x.failed = op[o].failed
    BY <1>2 DEF OpRecords, Pcs
  <2>3. op' = [op EXCEPT ![o] = x]
    BY ONLY <1>2, <2>1
  <2>4. w # None
    BY LoginAssumption
  <2> HIDE DEF x
  <2>5. Knows(x, o)
    BY <1>1, <1>3, <2>2, <2>4 DEF IInv, Base, Knows, Asking, Saving, Polled
  <2>6. Becomes(o, x)
    BY <2>2, <2>3 DEF Becomes
  <2>7. Alters(op, op', o, x)
    BY <1>1, <1>2, <1>7, <2>5, <2>6, OpStep
  <2>8. Sound(state, op', req, binding)
    BY <1>1, <1>2, <1>3, <2>2, <2>7, IdleKeeps DEF Polled
  <2> QED
    BY <1>1, <1>2, <1>4, <1>7, <2>5, <2>6, <2>8, OpStep
<1> QED
  BY <1>5, <1>6, <1>7 DEF PollAnswer

\* A Web login that has claimed its session ends, in success or not, with the
\* record of s shown.
LEMMA SavedKept ==
    ASSUME IInv, NEW o \in Ops, op[o].pc \in Saving, NEW saved \in BOOLEAN,
           NEW s \in LoginState, s.sessions = state.sessions, s.active = state.active,
           NoStuck(state) => Sayable(s.readiness, binding),
           state' = ExpireSessions(CompleteClaimed(s, o, saved)),
           NEW x, Becomes(o, x), Knows(x, o), x.pc \in {"done", "verify"},
           store' = store, binding' = binding, req' = req, late' = late, edits' = edits
    PROVE  Kept
<1> DEFINE c == CompleteClaimed(s, o, saved)
           result == IF saved THEN "ready" ELSE "error"
<1>1. o \in Starts /\ IsClaimed(state, o) /\ state.active = Login(o) /\ ~state.sessions[o].done
  BY DEF IInv, Base, Knows, Sound, Control, Placed, IsClaimed
<1>2. IsClaimed(s, o)
  BY <1>1 DEF IsClaimed, IsPending
<1>3. /\ Closes(s, c, o, result)
      /\ \/ c.readiness = s.readiness
         \/ Settled(s.readiness, c.readiness, "unavailable", "checking")
  BY <1>1, <1>2, CompleteFacts
<1>4. c \in LoginState /\ c.active = None /\ c.sessions[o].done /\ c.sessions[o].state \in {"ready", "error"}
  BY <1>3 DEF Closes
<1>5. NoStuck(state) => Sayable(c.readiness, binding)
  BY <1>3 DEF Sayable, Settled, Backed, Quiet
<1>6. \A j \in Ops \ {o} : c.sessions[j] = state.sessions[j]
  BY <1>3 DEF Closes
<1> HIDE DEF c
<1>7. Tidied(c, state')
  BY <1>4, BaseTypes, ExpireFacts DEF IInv, c
<1>8. Frees(state, state', o)
  BY <1>1, <1>4, <1>6, <1>7, SessionTypes DEF Frees, Tidied, Older
<1>9. NoStuck(state) => Sayable(state'.readiness, binding)
  BY <1>5, <1>7 DEF Tidied, Eased, Sayable, Backed, Quiet
<1> QED
  BY <1>1, <1>8, <1>9, ReleaseKept

\* A Web login that can not be saved ends in error.
LEMMA GiveUpKept ==
    ASSUME IInv, NEW o \in Ops, op[o].pc \in Saving,
           NEW s \in LoginState, s.sessions = state.sessions, s.active = state.active,
           Sayable(s.readiness, binding), GiveUp(o, s),
           store' = store, binding' = binding, req' = req, late' = late, edits' = edits
    PROVE  Kept
<1>1. state' = ExpireSessions(CompleteClaimed(s, o, FALSE)) /\ Return(o)
  BY DEF GiveUp
<1> QED
  BY <1>1, ReturnFacts, SavedKept

\* The two records with which a failed save is answered.
LEMMA UnverifiedFacts ==
    ASSUME IInv
    PROVE  /\ LET s == PublishUnverified(state)
              IN /\ s \in LoginState /\ s.sessions = state.sessions /\ s.active = state.active
                 /\ Sayable(s.readiness, binding)
           /\ LET s == SetUnavailable(state)
              IN /\ s \in LoginState /\ s.sessions = state.sessions /\ s.active = state.active
                 /\ Sayable(s.readiness, binding)
<1> DEFINE web == WebLevel(store, "unknown")
           key == KeyLevel(store, "unknown")
           s == SetReadiness(state, store, web, key)
<1>1. /\ web \in {"missing", "unknown"} /\ web \in Levels
      /\ key \in {"missing", "unknown"} /\ key \in Levels
  BY DEF WebLevel, KeyLevel, Levels
<1>2. state \in LoginState /\ store \in Credentials
  BY BaseTypes DEF IInv
<1>3. PublishUnverified(state) = s
  BY DEF PublishUnverified
<1> HIDE DEF web, key
<1>4. /\ s \in LoginState /\ s.sessions = state.sessions /\ s.active = state.active
      /\ s.readiness.web = web /\ s.readiness.key = key /\ ~s.readiness.all
  BY ONLY <1>1, <1>2, SetFacts
<1> HIDE DEF s
<1>5. Sayable(s.readiness, binding)
  BY <1>1, <1>4 DEF Sayable, Backed, Quiet
<1>6. Sayable(SetUnavailable(state).readiness, binding)
  BY <1>2, UnavailableFacts DEF Sayable, Backed, Quiet
<1> QED
  BY <1>2, <1>3, <1>4, <1>5, <1>6, UnavailableFacts

\* A Web login goes on saving; it or its claim may write a file.
LEMMA SaveKept ==
    ASSUME IInv, NEW o \in Ops, op[o].pc \in Saving \cup {"signin"}, NEW pc \in Saving, Goto(o, pc),
           state.active = Login(o), IsPending(state, o),
           op[o].bound # None => op[o].bound.account = AccountOf[op[o].fresh],
           state' \in LoginState, state'.active = state.active, state'.readiness = state.readiness,
           \A j \in Ops \ {o} : state'.sessions[j] = state.sessions[j],
           IsPending(state', o), state'.sessions[o].finishing,
           state'.sessions[o].done = state.sessions[o].done,
           store' \in Credentials, binding' \in Bindings,
           req' = req, late' = late, edits' = edits
    PROVE  Kept
<1>1. pc \in Pcs
  BY DEF Pcs, Saving
<1>2. PICK x : /\ Becomes(o, x)
               /\ x.pc = pc /\ x.cred = op[o].cred /\ x.bound = op[o].bound
               /\ x.fresh = op[o].fresh /\ x.web = op[o].web /\ x.failed = op[o].failed
  BY <1>1, GotoFacts DEF IInv
<1>3. Knows(op[o], o) /\ o \in Starts /\ o \notin KeyStarts
  BY LoginAssumption DEF IInv, Base, Knows, Polled
<1>4. Knows(x, o)
  BY <1>2, <1>3 DEF Knows, Asking, Saving, Polled
<1>5. /\ state \in LoginState /\ Sound(state, op, req, binding) /\ Callbacks(req)
  BY BaseTypes, CallbacksHold DEF IInv
<1>6. Base' /\ Alters(op, op', o, x)
  BY <1>2, <1>4, OpBase
<1>7. Sound(state', op', req, binding') /\ Keeps(state, state')
  BY <1>2, <1>3, <1>5, <1>6, SaveKeeps
<1> QED
  BY <1>6, <1>7 DEF Kept, IInv

\* persist_credentials_before_revalidation claims the session or ends it.
LEMMA SignInKept ==
    ASSUME IInv, NEW o \in Ops, SignIn(o)
    PROVE  Kept
<1>1. /\ op[o].pc = "signin" /\ op[o].pc \in Polled
      /\ store' = store /\ binding' = binding /\ req' = req /\ late' = late /\ edits' = edits
      /\ \/ MayStore(o) /\ state' = [state EXCEPT !.sessions[o].finishing = TRUE] /\ Goto(o, "write")
         \/ state' = FinishWithoutStore(state, o, "error") /\ Return(o)
  BY DEF SignIn, Polled
<1>2. CASE state' = FinishWithoutStore(state, o, "error") /\ Return(o)
  BY <1>1, <1>2, FinishWithoutKept
<1>3. CASE MayStore(o) /\ state' = [state EXCEPT !.sessions[o].finishing = TRUE] /\ Goto(o, "write")
  <2>1. state \in LoginState /\ state.sessions[o] \in Session /\ store \in Credentials /\ binding \in Bindings
    BY BaseTypes, StateTypes DEF IInv
  <2>2. /\ state' \in LoginState /\ state'.active = state.active /\ state'.readiness = state.readiness
        /\ \A j \in Ops \ {o} : state'.sessions[j] = state.sessions[j]
        /\ state'.sessions[o].state = state.sessions[o].state
        /\ state'.sessions[o].finishing
        /\ state'.sessions[o].done = state.sessions[o].done
    BY <1>3, <2>1 DEF LoginState, Session
  <2>3. "write" \in Saving
    BY DEF Saving
  <2> QED
    BY <1>1, <1>3, <2>1, <2>2, <2>3, SaveKept DEF MayStore, IsPending
<1> QED
  BY <1>1, <1>2, <1>3

\* persist_web_login writes the cookie under the claim.
LEMMA StoreWebLoginKept ==
    ASSUME IInv, NEW o \in Ops, StoreWebLogin(o)
    PROVE  Kept
<1>1. /\ op[o].pc = "write" /\ op[o].pc \in Saving
      /\ binding' = binding /\ req' = req /\ late' = late /\ edits' = edits
      /\ \/ store' = [store EXCEPT !.web = op[o].fresh] /\ Goto(o, "bindweb") /\ UNCHANGED state
         \/ GiveUp(o, PublishUnverified(state)) /\ store' = store
         \/ GiveUp(o, SetUnavailable(state)) /\ store' = store
  BY DEF StoreWebLogin, Saving
<1>2. CASE store' = [store EXCEPT !.web = op[o].fresh] /\ Goto(o, "bindweb") /\ UNCHANGED state
  <2>1. state.active = Login(o) /\ IsPending(state, o) /\ state.sessions[o].finishing
    BY <1>1 DEF IInv, Sound, Control, Placed, IsClaimed
  <2>2. op[o].bound # None => op[o].bound.account = AccountOf[op[o].fresh]
    BY <1>1 DEF IInv, Base, Knows
  <2>3. store' \in Credentials /\ binding \in Bindings /\ state \in LoginState
    BY <1>2, CredentialTypes, BaseTypes DEF IInv, OpRecords
  <2>4. "bindweb" \in Saving
    BY DEF Saving
  <2> QED
    BY <1>1, <1>2, <2>1, <2>2, <2>3, <2>4, SaveKept
<1>3. CASE GiveUp(o, PublishUnverified(state)) /\ store' = store
  BY <1>1, <1>3, UnverifiedFacts, GiveUpKept
<1>4. CASE GiveUp(o, SetUnavailable(state)) /\ store' = store
  BY <1>1, <1>4, UnverifiedFacts, GiveUpKept
<1> QED
  BY <1>1, <1>2, <1>3, <1>4

\* persist_web_login writes the binding under the claim.
LEMMA BindWebLoginKept ==
    ASSUME IInv, NEW o \in Ops, BindWebLogin(o)
    PROVE  Kept
<1>1. /\ op[o].pc = "bindweb" /\ op[o].pc \in Saving
      /\ store' = store /\ req' = req /\ late' = late /\ edits' = edits
      /\ \/ binding' = Bound(op[o].fresh) /\ Goto(o, "certify") /\ UNCHANGED state
         \/ GiveUp(o, SetUnavailable(state)) /\ binding' = binding
         \/ GiveUp(o, PublishUnverified(state)) /\ binding' = binding
  BY DEF BindWebLogin, Saving
<1>2. CASE binding' = Bound(op[o].fresh) /\ Goto(o, "certify") /\ UNCHANGED state
  <2>1. state.active = Login(o) /\ IsPending(state, o) /\ state.sessions[o].finishing
    BY <1>1 DEF IInv, Sound, Control, Placed, IsClaimed
  <2>2. /\ op[o].bound # None => op[o].bound.account = AccountOf[op[o].fresh]
        /\ op[o].fresh # None
    BY <1>1 DEF IInv, Base, Knows
  <2>3. op[o].fresh \in Webs
    BY <2>2, BaseTypes DEF IInv, OpRecords
  <2>4. store \in Credentials /\ binding' \in Bindings /\ state \in LoginState
    BY <1>2, <2>3, BoundType, BaseTypes DEF IInv
  <2>5. "certify" \in Saving
    BY DEF Saving
  <2> QED
    BY <1>1, <1>2, <2>1, <2>2, <2>4, <2>5, SaveKept
<1>3. CASE GiveUp(o, PublishUnverified(state)) /\ binding' = binding
  BY <1>1, <1>3, UnverifiedFacts, GiveUpKept
<1>4. CASE GiveUp(o, SetUnavailable(state)) /\ binding' = binding
  BY <1>1, <1>4, UnverifiedFacts, GiveUpKept
<1> QED
  BY <1>1, <1>2, <1>3, <1>4

\* publish_committed_web_login_readiness certifies what is stored and bound.
LEMMA CertifyKept ==
    ASSUME IInv, NEW o \in Ops, Certify(o)
    PROVE  Kept
<1> DEFINE verified == store.web = op[o].fresh /\ binding = Bound(op[o].fresh)
           web == WebLevel(store, IF verified THEN "ready" ELSE "unknown")
           key == KeyLevel(store, "unknown")
           s == SetReadiness(state, store, web, key)
<1>1. /\ op[o].pc = "certify" /\ op[o].pc \in Saving
      /\ store' = store /\ binding' = binding /\ req' = req /\ late' = late /\ edits' = edits
      /\ \/ /\ state' = ExpireSessions(CompleteClaimed(s, o, TRUE))
            /\ op' = [op EXCEPT ![o] = IF IsClaimed(s, o) THEN [@ EXCEPT !.pc = "verify"] ELSE Over]
         \/ GiveUp(o, s)
         \/ GiveUp(o, SetUnavailable(state))
  BY DEF Certify, Saving
<1>2. /\ state \in LoginState /\ store \in Credentials
      /\ op \in [Ops -> OpRecords] /\ op[o] \in OpRecords
  BY BaseTypes DEF IInv
<1>3. /\ web \in {"missing", "unknown", "ready"} /\ web \in Levels
      /\ web = "ready" => store.web # None /\ binding = Bound(store.web)
      /\ key \in {"missing", "unknown"} /\ key \in Levels
  BY DEF WebLevel, KeyLevel, Levels
<1> HIDE DEF web, key
<1>4. /\ s \in LoginState /\ s.sessions = state.sessions /\ s.active = state.active
      /\ s.readiness.web = web /\ s.readiness.key = key /\ ~s.readiness.all
      /\ s.readiness.cred = store
  BY ONLY <1>2, <1>3, SetFacts
<1> HIDE DEF s
<1>5. Sayable(s.readiness, binding)
  BY <1>3, <1>4 DEF Sayable, Backed, Quiet
<1>6. CASE /\ state' = ExpireSessions(CompleteClaimed(s, o, TRUE))
           /\ op' = [op EXCEPT ![o] = IF IsClaimed(s, o) THEN [@ EXCEPT !.pc = "verify"] ELSE Over]
  <2> DEFINE x == [op[o] EXCEPT !.pc = "verify"]
  <2>1. IsClaimed(s, o)
    BY <1>1, <1>4 DEF IInv, Sound, Control, Placed, IsClaimed, IsPending
  <2>2. op' = [op EXCEPT ![o] = x]
    BY <1>2, <1>6, <2>1
  <2>3. /\ x \in OpRecords /\ x.pc = "verify" /\ x.fresh = op[o].fresh /\ x.cred = op[o].cred
        /\ x.bound = op[o].bound /\ x.web = op[o].web /\ x.failed = op[o].failed
    BY <1>2 DEF OpRecords, Pcs
  <2> HIDE DEF x
  <2>4. Knows(x, o)
    BY <1>1, <2>3 DEF IInv, Base, Knows, Asking, Saving, Polled
  <2>5. Becomes(o, x)
    BY <2>2, <2>3 DEF Becomes
  <2> QED
    BY <1>1, <1>4, <1>5, <1>6, <2>3, <2>4, <2>5, SavedKept
<1>7. CASE GiveUp(o, s)
  BY <1>1, <1>4, <1>5, <1>7, GiveUpKept
<1>8. CASE GiveUp(o, SetUnavailable(state))
  BY <1>1, <1>8, UnverifiedFacts, GiveUpKept
<1> QED
  BY <1>1, <1>6, <1>7, <1>8

\* The verification of the preserved key is given up before it began, in the
\* state s that tidying has left.
LEMMA VerifyEnds ==
    ASSUME IInv, NEW o \in Starts, o \in Ops,
           NEW s \in LoginState, Sound(s, op, req, binding), Keeps(state, s), s.active = None,
           state' \in LoginState, state'.sessions = s.sessions, state'.active = None,
           NoStuck(s) => Sayable(state'.readiness, binding), Return(o),
           store' = store, binding' = binding, req' = req, late' = late, edits' = edits
    PROVE  Kept
<1>1. Becomes(o, Over) /\ Knows(Over, o) /\ Over.pc = "done"
  BY ReturnFacts
<1>2. Alters(op, op', o, Over)
  BY <1>1, OpStep
<1>3. Leaves(op, op', o)
  BY <1>1, <1>2 DEF Alters, Leaves
<1>4. Spares(req, req, o) /\ Callbacks(req) /\ ~Stuck(s, o)
  BY NoCallbacks, CallbacksHold, LoginAssumption DEF IInv, Stuck
<1>5. \A j \in Ops : Placed(s, op[j], j)
  BY DEF Sound, Control
<1>6. Frees(s, state', o)
  BY <1>5 DEF Frees, Older, Placed
<1>7. Sound(state', op', req, binding)
  BY <1>3, <1>4, <1>6, ReleaseKeeps
<1>8. Keeps(state, state')
  BY NoneIsNoOwner, KeepsOn
<1> QED
  BY <1>1, <1>7, <1>8, OpStep

\* verify_preserved_access_key_after_web_login takes the free profile again.
LEMMA VerifyPreservedKept ==
    ASSUME IInv, NEW o \in Ops, VerifyPreserved(o)
    PROVE  Kept
<1>1. /\ op[o].pc = "verify"
      /\ store' = store /\ binding' = binding /\ req' = req /\ late' = late /\ edits' = edits
  BY DEF VerifyPreserved
<1>2. o \in Starts /\ o \notin KeyStarts
  BY <1>1, LoginAssumption DEF IInv, Base, Knows
<1>3. PICK gone \in SUBSET Prunable(ExpireSessions(state)) :
         VerifyFrom(o, Forget(ExpireSessions(state), gone))
  BY DEF VerifyPreserved
<1> DEFINE s == Forget(ExpireSessions(state), gone)
           begins == s.active = None /\ store.key # None /\ Replaceable(s.readiness)
<1>4. s \in LoginState /\ Sound(s, op, req, binding) /\ Keeps(state, s)
  BY Tidy
<1>5. \/ /\ begins /\ store.web # None /\ binding = Bound(store.web)
         /\ state' = [s EXCEPT !.active = Verifier(o),
                               !.readiness = [s.readiness EXCEPT !.key = "checking", !.temp = Verifier(o)]]
         /\ op' = [op EXCEPT ![o] = [@ EXCEPT !.pc = "probe", !.cred = store, !.bound = binding]]
      \/ begins /\ state' = [s EXCEPT !.readiness = None] /\ Return(o)
      \/ state' = s /\ Return(o)
      \/ /\ s.active = None
         /\ state' = Cancel([s EXCEPT !.active = Verifier(o)], Verifier(o))
         /\ Return(o)
  BY <1>3 DEF VerifyFrom
<1> HIDE DEF s
<1>6. /\ op \in [Ops -> OpRecords] /\ op[o] \in OpRecords /\ store \in Credentials
      /\ binding \in Bindings /\ Callbacks(req)
  BY BaseTypes, CallbacksHold DEF IInv
<1>7. CASE /\ begins /\ store.web # None /\ binding = Bound(store.web)
           /\ state' = [s EXCEPT !.active = Verifier(o),
                                 !.readiness = [s.readiness EXCEPT !.key = "checking", !.temp = Verifier(o)]]
           /\ op' = [op EXCEPT ![o] = [@ EXCEPT !.pc = "probe", !.cred = store, !.bound = binding]]
  <2> DEFINE x == [op[o] EXCEPT !.pc = "probe", !.cred = store, !.bound = binding]
             r == [s.readiness EXCEPT !.key = "checking", !.temp = Verifier(o)]
  <2>1. op' = [op EXCEPT ![o] = x]
    BY <1>6, <1>7
  <2>2. /\ x \in OpRecords /\ x.pc = "probe" /\ x.cred = store /\ x.bound = binding
        /\ x.fresh = op[o].fresh /\ x.web = op[o].web /\ x.failed = op[o].failed
    BY <1>6 DEF OpRecords, Pcs
  <2> HIDE DEF x
  <2>3. Knows(x, o)
    BY <1>1, <1>2, <1>7, <2>2 DEF IInv, Base, Knows, Asking, Saving, Polled
  <2>4. s.active = None /\ s.readiness # None /\ ~s.readiness.all /\ s.readiness.cred = store
    BY <1>7 DEF Replaceable
  <2>5. s.readiness \in ReadinessRecord
    BY <1>4, <2>4, StateTypes
  <2>6. Verifier(o) \in Owners
    BY OwnersDiffer
  <2>7. /\ r \in ReadinessRecord /\ r.all = s.readiness.all /\ r.cred = s.readiness.cred
        /\ r.web = s.readiness.web /\ r.key = "checking" /\ r.temp = Verifier(o)
    BY <2>5, <2>6 DEF ReadinessRecord, Levels
  <2>8. r # None
    BY <2>7, LoginAssumption
  <2> HIDE DEF r
  <2>9. /\ state' \in LoginState /\ state'.active = Verifier(o) /\ state'.sessions = s.sessions
        /\ state'.readiness = r
    BY <1>4, <1>7, <2>6, <2>7 DEF LoginState, r
  <2>10. Becomes(o, x)
    BY <2>1, <2>2 DEF Becomes
  <2>11. Alters(op, op', o, x)
    BY <1>1, <2>3, <2>9, <2>10, OpStep
  <2>12. Sound(state', op', req, binding)
    BY <1>1, <1>2, <1>4, <1>6, <2>2, <2>4, <2>7, <2>8, <2>9, <2>11, VerifyKeeps
  <2>13. Keeps(state, state')
    BY <1>4, <2>9, OwnersDiffer, KeepsOn
  <2> QED
    BY <1>1, <2>3, <2>9, <2>10, <2>12, <2>13, OpStep
<1>8. CASE begins /\ state' = [s EXCEPT !.readiness = None] /\ Return(o)
  <2>1. /\ state' \in LoginState /\ state'.sessions = s.sessions /\ state'.active = None
        /\ state'.readiness = None
    BY <1>4, <1>8 DEF LoginState
  <2> QED
    BY <1>1, <1>2, <1>4, <1>8, <2>1, VerifyEnds DEF Sayable
<1>9. CASE state' = s /\ Return(o)
  <2>1. Becomes(o, Over) /\ Knows(Over, o) /\ Over.pc = "done"
    BY <1>9, ReturnFacts
  <2>2. Alters(op, op', o, Over)
    BY <1>1, <1>4, <1>9, <2>1, OpStep
  <2>3. Sound(s, op', req, binding)
    BY <1>1, <1>2, <1>4, <1>6, <2>1, <2>2, IdleKeeps
  <2> QED
    BY <1>1, <1>4, <1>9, <2>1, <2>3, OpStep
<1>10. CASE /\ s.active = None
            /\ state' = Cancel([s EXCEPT !.active = Verifier(o)], Verifier(o))
            /\ Return(o)
  <2> DEFINE v == [s EXCEPT !.active = Verifier(o)]
  <2>1. Verifier(o) \in Owners
    BY OwnersDiffer
  <2>2. v \in LoginState /\ v.sessions = s.sessions /\ v.readiness = s.readiness /\ v.active = Verifier(o)
    BY <1>4, <2>1 DEF LoginState
  <2>3. state' = Cancel(v, Verifier(o))
    BY <1>10
  <2> HIDE DEF v
  <2>4. /\ state' \in LoginState /\ state'.sessions = s.sessions /\ state'.active = None
        /\ \/ state'.readiness = None
           \/ Settled(s.readiness, state'.readiness, "unavailable", "unavailable")
    BY <2>2, <2>3, CancelFacts
  <2>5. NoStuck(s) => Sayable(state'.readiness, binding)
    BY <1>4, <2>4 DEF Sound, Honest, Sayable, Settled, Backed, Quiet
  <2> QED
    BY <1>1, <1>2, <1>4, <1>10, <2>4, <2>5, VerifyEnds
<1> QED
  BY <1>5, <1>7, <1>8, <1>9, <1>10

\* publish_temporary_access_key_readiness and clear_temporary_readiness settle the record.
LEMMA ProbeKept ==
    ASSUME IInv, NEW o \in Ops, Probe(o)
    PROVE  Kept
<1> DEFINE r == state.readiness
           owns == state.active = Verifier(o) /\ r # None /\ r.temp = Verifier(o)
           same == store = op[o].cred /\ binding = op[o].bound
<1>1. /\ op[o].pc = "probe" /\ Return(o)
      /\ store' = store /\ binding' = binding /\ req' = req /\ late' = late /\ edits' = edits
      /\ \/ /\ same /\ owns
            /\ \E answer \in Answers :
                  state' = Release(SetReadiness(state, store, r.web,
                                      KeyVerdict(op[o].cred, op[o].bound, answer)), Verifier(o))
         \/ state' = Release(IF owns THEN [state EXCEPT !.readiness = None] ELSE state, Verifier(o))
  BY DEF Probe
<1>2. /\ state \in LoginState /\ store \in Credentials /\ binding \in Bindings
      /\ op[o] \in OpRecords
  BY BaseTypes DEF IInv
<1>3. o \in Starts /\ state.active = Verifier(o)
  BY <1>1 DEF IInv, Base, Knows, Sound, Control, Placed
<1>4. \A j \in Ops : state.sessions[j].state \notin {"none", "pending"} => state.sessions[j].done
  BY DEF IInv, Sound, Control, Placed
<1>5. NoStuck(state) /\ r # None =>
         Backed(r, binding) /\ r.temp = Verifier(o) /\ r.web # "checking" /\ r.cred = op[o].cred
  BY <1>3 DEF IInv, Sound, Honest, Shown
<1>6. ASSUME NEW s \in LoginState, s.sessions = state.sessions, s.active = state.active,
             state' = Release(s, Verifier(o)), NoStuck(state) => Sayable(s.readiness, binding)
      PROVE  Kept
  <2>1. /\ state' \in LoginState /\ state'.sessions = state.sessions
        /\ state'.readiness = s.readiness /\ state'.active = None
    BY <1>3, <1>6, ReleaseFacts
  <2>2. Frees(state, state', o)
    BY <1>4, <2>1 DEF Frees, Older
  <2> QED
    BY <1>1, <1>3, <1>6, <2>1, <2>2, ReleaseKept, ReturnFacts
<1>7. ASSUME same, owns, NEW answer \in Answers,
             state' = Release(SetReadiness(state, store, r.web,
                                 KeyVerdict(op[o].cred, op[o].bound, answer)), Verifier(o))
      PROVE  Kept
  <2> DEFINE key == KeyVerdict(op[o].cred, op[o].bound, answer)
             s == SetReadiness(state, store, r.web, key)
  <2>1. op[o].cred = store /\ op[o].bound = binding
    BY <1>7
  <2>2. /\ key \in Levels /\ key # "checking"
        /\ key = "ready" => store.key # None /\ (binding # None => binding.account = AccountOf[store.key])
    BY <1>2, <2>1, LevelTypes DEF Levels
  <2>3. r \in ReadinessRecord
    BY <1>2, <1>7, StateTypes
  <2>4. r.web \in Levels
    BY <2>3 DEF ReadinessRecord
  <2>5. state' = Release(s, Verifier(o))
    BY <1>7
  <2> HIDE DEF key
  <2>6. /\ s \in LoginState /\ s.sessions = state.sessions /\ s.active = state.active
        /\ s.readiness.web = r.web /\ s.readiness.key = key /\ s.readiness.cred = store
        /\ ~s.readiness.all
    BY ONLY <1>2, <2>2, <2>4, SetFacts
  <2> HIDE DEF s
  <2>7. NoStuck(state) => Sayable(s.readiness, binding)
    BY <1>5, <1>7, <2>1, <2>2, <2>6 DEF Sayable, Backed, Quiet
  <2> QED
    BY <1>6, <2>5, <2>6, <2>7
<1>8. CASE state' = Release(IF owns THEN [state EXCEPT !.readiness = None] ELSE state, Verifier(o))
  <2>1. CASE owns
    <3> DEFINE s == [state EXCEPT !.readiness = None]
    <3>1. s \in LoginState /\ s.sessions = state.sessions /\ s.active = state.active /\ s.readiness = None
      BY <1>2 DEF LoginState
    <3>2. state' = Release(s, Verifier(o))
      BY <1>8, <2>1
    <3> HIDE DEF s
    <3> QED
      BY <1>6, <3>1, <3>2 DEF Sayable
  <2>2. CASE ~owns
    <3>1. NoStuck(state) => Sayable(state.readiness, binding)
      BY <1>3, <1>5, <2>2 DEF Sayable
    <3>2. state' = Release(state, Verifier(o))
      BY <1>8, <2>2
    <3> QED
      BY <1>2, <1>6, <3>1, <3>2
  <2> QED
    BY <2>1, <2>2
<1> QED
  BY <1>1, <1>7, <1>8

\* expire_session ends the session, and overtakes a callback that has claimed it.
LEMMA TimerKept ==
    ASSUME IInv, NEW o \in Ops, Timer(o)
    PROVE  Kept
<1> DEFINE e == ExpireSessions(state)
<1>1. /\ op[o].pc = "waiting" /\ o \in late /\ state' = ExpireSession(state, o) /\ Return(o)
      /\ store' = store /\ binding' = binding /\ req' = req /\ late' = late /\ edits' = edits
  BY DEF Timer
<1>2. o \in KeyStarts
  BY <1>1 DEF IInv, Base, Knows
<1>3. /\ e \in LoginState /\ Sound(e, op, req, binding) /\ Keeps(state, e)
      /\ Callbacks(req) /\ state \in LoginState /\ late \subseteq Starts \cup KeyStarts
  BY Expire, BaseTypes, CallbacksHold DEF IInv
<1>4. \/ state' = e /\ ~IsPending(e, o)
      \/ /\ IsPending(e, o) /\ e.sessions[o].finishing
         /\ state' \in LoginState
         /\ state'.active = IF e.active = Login(o) THEN None ELSE e.active
         /\ state'.sessions[o].state = "expired" /\ state'.sessions[o].done
         /\ state'.sessions[o].finishing
         /\ \A j \in Ops \ {o} : state'.sessions[j] = e.sessions[j]
  BY <1>1, <1>3, ExpireSessionFacts
<1> HIDE DEF e
<1>5. Becomes(o, Over) /\ Knows(Over, o) /\ Over.pc = "done"
  BY <1>1, ReturnFacts
<1>6. state' \in LoginState
  BY <1>3, <1>4
<1>7. Alters(op, op', o, Over)
  BY <1>1, <1>5, <1>6, OpStep
<1>8. CASE state' = e /\ ~IsPending(e, o)
  <2>1. Sound(e, op', req, binding)
    BY <1>1, <1>3, <1>5, <1>7, <1>8, IdleKeeps
  <2> QED
    BY <1>1, <1>3, <1>5, <1>6, <1>8, <2>1, OpStep
<1>9. CASE /\ IsPending(e, o) /\ e.sessions[o].finishing
           /\ state' \in LoginState
           /\ state'.active = IF e.active = Login(o) THEN None ELSE e.active
           /\ state'.sessions[o].state = "expired" /\ state'.sessions[o].done
           /\ state'.sessions[o].finishing
           /\ \A j \in Ops \ {o} : state'.sessions[j] = e.sessions[j]
  <2>1. Sound(state', op', req, binding)
    BY <1>1, <1>2, <1>3, <1>5, <1>7, <1>9, TimerKeeps
  <2>2. /\ \A j \in Ops \ {o} : state'.active = Login(j) => e.active = Login(j)
        /\ state'.active = Login(o) => e.active = Login(o)
    BY <1>9, NoneIsNoOwner
  <2>3. ASSUME state.sessions[o].done
        PROVE  state.sessions[o].state \in {"expired", "pending"}
    <3>1. e.sessions[o].state = "pending"
      BY <1>9 DEF IsPending
    <3>2. \/ e.sessions[o].state \in {"none", state.sessions[o].state}
          \/ {state.sessions[o].state, e.sessions[o].state} = {"expired", "pending"}
      BY <1>3, <2>3 DEF Keeps
    <3> QED
      BY <3>1, <3>2
  <2>4. Keeps(state, state')
    <3> SUFFICES ASSUME NEW j \in Ops, state.sessions[j].done
                 PROVE  /\ \/ state'.sessions[j].state \in {"none", state.sessions[j].state}
                           \/ {state.sessions[j].state, state'.sessions[j].state} = {"expired", "pending"}
                        /\ state'.active = Login(j) => state.active = Login(j)
      BY DEF Keeps
    <3>1. /\ \/ e.sessions[j].state \in {"none", state.sessions[j].state}
             \/ {state.sessions[j].state, e.sessions[j].state} = {"expired", "pending"}
          /\ e.active = Login(j) => state.active = Login(j)
      BY <1>3 DEF Keeps
    <3>2. CASE j = o
      BY <1>9, <2>2, <2>3, <3>1, <3>2
    <3>3. CASE j # o
      BY <1>9, <2>2, <3>1, <3>3
    <3> QED
      BY <3>2, <3>3
  <2> QED
    BY <1>1, <1>5, <1>6, <2>1, <2>4, OpStep
<1> QED
  BY <1>4, <1>8, <1>9

\* What all steps of a callback or its worker have in common.
LEMMA CallbackStep ==
    ASSUME IInv, NEW k \in Requests, NEW y \in ReqRecords, Carries(y), req' = [req EXCEPT ![k] = y],
           state' \in LoginState, store' \in Credentials,
           binding' = binding, op' = op, late' = late, edits' = edits
    PROVE  /\ Revises(req, req', k, y) /\ Callbacks(req) /\ Callbacks(req')
           /\ Sound(state', op, req', binding) /\ Keeps(state, state') => Kept
<1>1. Callbacks(req)
  BY CallbacksHold DEF IInv
<1>2. Revises(req, req', k, y) /\ req' \in [Requests -> ReqRecords]
  BY <1>1 DEF Callbacks, Revises
<1>3. \A j \in Requests : Carries(req'[j])
  BY <1>1, <1>2 DEF Revises, Callbacks
<1>4. TypeOK'
  BY <1>2 DEF IInv, Base, TypeOK, ReqRecords
<1>5. \A j \in Ops : Knows(op'[j], j)
  BY DEF IInv, Base
<1> QED
  BY <1>1, <1>2, <1>3, <1>4, <1>5 DEF Base, Callbacks, Kept, IInv

\* A callback or worker that is not live any more leaves LoginState alone.
LEMMA QuietEnd ==
    ASSUME IInv, NEW k \in Requests, NEW y \in ReqRecords, Carries(y), req' = [req EXCEPT ![k] = y],
           ~Live(y), state' = state,
           store' = store, binding' = binding, op' = op, late' = late, edits' = edits
    PROVE  Kept
<1>1. state \in LoginState /\ store \in Credentials /\ Sound(state, op, req, binding)
  BY BaseTypes DEF IInv
<1>2. Revises(req, req', k, y) /\ Callbacks(req) /\ Callbacks(req')
  BY <1>1, CallbackStep
<1>3. y.worker # "publish"
  BY DEF Live, Carries
<1>4. Sound(state, op, req', binding)
  BY <1>1, <1>2, <1>3, RequestKeeps DEF Carried
<1>5. Keeps(state, state)
  BY DEF Keeps
<1> QED
  BY <1>1, <1>4, <1>5, CallbackStep

\* A callback or its worker ends the session it claimed.
LEMMA ClaimEnds ==
    ASSUME IInv, NEW k \in Requests, NEW y \in ReqRecords, Carries(y), req' = [req EXCEPT ![k] = y],
           Live(req[k]), ~Live(y), NEW o \in KeyStarts, o = req[k].op, IsClaimed(state, o),
           NEW s, s.sessions = state.sessions, NEW result \in {"ready", "error", "expired"},
           Closes(s, state', o, result), NoStuck(state) => Sayable(state'.readiness, binding),
           store' = store, binding' = binding, op' = op, late' = late, edits' = edits
    PROVE  Kept
<1>1. state \in LoginState /\ store \in Credentials /\ Sound(state, op, req, binding) /\ o \in Ops
  BY BaseTypes DEF IInv, Ops
<1>2. state' \in LoginState
  BY DEF Closes
<1>3. Revises(req, req', k, y) /\ Callbacks(req) /\ Callbacks(req')
  BY <1>1, <1>2, CallbackStep
<1>4. state.active = Login(o) /\ IsPending(state, o)
  BY DEF IsClaimed
<1>5. Placed(state, op[o], o) /\ o \notin Starts
  BY <1>1, LoginAssumption DEF Sound, Control
<1>6. op[o].pc = "waiting" /\ ~state.sessions[o].done
  BY <1>4, <1>5 DEF Placed
<1>7. Leaves(op, op, o)
  BY <1>6 DEF Leaves
<1>8. ~Stuck(state, o)
  BY <1>4 DEF Stuck, IsPending
<1>9. Spares(req, req', o)
  <2> SUFFICES ASSUME NEW j \in Requests, Live(req'[j]) PROVE req'[j] = req[j] /\ req[j].op # o
    BY DEF Spares
  <2>1. j # k /\ req'[j] = req[j]
    BY <1>3 DEF Revises
  <2> QED
    BY <1>1, <2>1 DEF Sound, Claims
<1>10. Frees(state, state', o)
  BY <1>6 DEF Frees, Closes, Older
<1>11. Sound(state', op, req', binding) /\ Keeps(state, state')
  BY <1>1, <1>3, <1>4, <1>7, <1>8, <1>9, <1>10, ReleaseKeeps
<1> QED
  BY <1>1, <1>2, <1>11, CallbackStep

\* complete_claimed_session by a callback or worker, with the record of s shown:
\* it ends the session, unless the timer has overtaken it.
LEMMA CompleteKept ==
    ASSUME IInv, NEW k \in Requests, NEW y \in ReqRecords, Carries(y), req' = [req EXCEPT ![k] = y],
           Live(req[k]), ~Live(y), NEW saved \in BOOLEAN,
           NEW s \in LoginState, s.sessions = state.sessions, s.active = state.active,
           NoStuck(state) /\ s.readiness # None =>
              /\ Backed(s.readiness, binding) /\ s.readiness.web # "checking"
              /\ saved => s.readiness.key # "checking",
           state' = CompleteClaimed(s, req[k].op, saved),
           store' = store, binding' = binding, op' = op, late' = late, edits' = edits
    PROVE  Kept
<1> DEFINE o == req[k].op
<1>1. /\ state \in LoginState /\ store \in Credentials /\ Sound(state, op, req, binding)
      /\ Callbacks(req)
  BY BaseTypes, CallbacksHold DEF IInv
<1>2. o \in KeyStarts /\ o \in Ops /\ o \notin Starts
  BY <1>1, LiveFacts, LoginAssumption
<1>3. IsClaimed(s, o) <=> IsClaimed(state, o)
  BY DEF IsClaimed, IsPending
<1>4. /\ ~IsClaimed(s, o) => state' = s
      /\ IsClaimed(s, o) =>
            /\ Closes(s, state', o, IF saved THEN "ready" ELSE "error")
            /\ saved => state'.readiness = s.readiness
            /\ ~saved => Settled(s.readiness, state'.readiness, "checking", "unavailable")
  BY <1>2, CompleteFacts
<1> HIDE DEF o
<1>5. CASE IsClaimed(state, o)
  <2> DEFINE result == IF saved THEN "ready" ELSE "error"
  <2>1. NoStuck(state) => Sayable(state'.readiness, binding)
    BY <1>3, <1>4, <1>5 DEF Sayable, Settled, Backed, Quiet
  <2>2. Closes(s, state', o, result) /\ result \in {"ready", "error", "expired"}
    BY <1>3, <1>4, <1>5
  <2> HIDE DEF result
  <2> QED
    BY <1>2, <1>5, <2>1, <2>2, ClaimEnds DEF o
<1>6. CASE ~IsClaimed(state, o)
  <2>1. state' = s
    BY <1>3, <1>4, <1>6
  <2>2. Stuck(state, o)
    BY <1>1, <1>2, <1>6 DEF Sound, Claims, Stands, Stuck, o
  <2>3. Sound(s, op, req, binding) /\ Keeps(state, s)
    BY <1>1, <1>2, <2>2, StuckKeeps
  <2>4. ~NoStuck(s)
    BY <1>2, <2>2 DEF NoStuck, Stuck
  <2>5. Revises(req, req', k, y) /\ Callbacks(req) /\ Callbacks(req')
    BY <1>1, <2>1, CallbackStep
  <2>6. Sound(s, op, req', binding)
    BY <2>3, <2>4, <2>5, RequestKeeps
  <2> QED
    BY <1>1, <2>1, <2>3, <2>6, CallbackStep
<1> QED
  BY <1>5, <1>6

\* What is shown while a browser session is being completed.
LEMMA ShownWhileClaimed ==
    ASSUME IInv, NoStuck(state), NEW k \in Requests, Live(req[k])
    PROVE  /\ IsClaimed(state, req[k].op) /\ Carried(req[k], binding)
           /\ state.readiness # None =>
                 /\ Backed(state.readiness, binding) /\ state.readiness.web # "checking"
                 /\ state.readiness.cred = req[k].cred
<1> DEFINE o == req[k].op
<1>1. o \in KeyStarts /\ o \in Ops
  BY CallbacksHold, LiveFacts DEF IInv
<1>2. Stands(state, op, req[k]) /\ ~Stuck(state, o) /\ Honest(state, op, req, binding)
  BY <1>1 DEF IInv, Sound, Claims, NoStuck
<1>3. IsClaimed(state, o) /\ op[o].cred = req[k].cred
  BY <1>1, <1>2 DEF Stands, Stuck
<1>4. state.readiness # None => Shown(state, state.readiness, op[o], o) /\ Backed(state.readiness, binding)
  BY <1>1, <1>2 DEF Honest
<1>5. state.active = Login(o) /\ IsPending(state, o)
  BY <1>3 DEF IsClaimed
<1> HIDE DEF o
<1>6. state.readiness # None => state.readiness.web # "checking" /\ state.readiness.cred = op[o].cred
  BY <1>1, <1>4, <1>5 DEF Shown
<1> QED
  BY <1>2, <1>3, <1>4, <1>6 DEF Honest, o

\* complete_browser_login claims a session that is pending, unclaimed and not due.
LEMMA CallbackKept ==
    ASSUME IInv, NEW k \in Requests, NEW o \in KeyStarts, Callback(k, o)
    PROVE  Kept
<1> DEFINE e == ExpireSessions(state)
<1>1. /\ req[k].pc = "idle"
      /\ store' = store /\ binding' = binding /\ op' = op /\ late' = late /\ edits' = edits
      /\ \/ /\ IsPending(e, o) /\ ~e.sessions[o].finishing /\ e.active = Login(o)
            /\ state' = [e EXCEPT !.sessions[o].finishing = TRUE]
            /\ \E key \in Keys : req' = [req EXCEPT ![k] = Asked(o, key)]
         \/ state' = e /\ req' = req
  BY DEF Callback
<1>2. /\ e \in LoginState /\ Tidied(state, e) /\ Sound(e, op, req, binding) /\ Keeps(state, e)
      /\ Callbacks(req) /\ state \in LoginState /\ store \in Credentials
  BY Expire, BaseTypes, CallbacksHold DEF IInv
<1> HIDE DEF e
<1>3. o \in Ops /\ o \notin Starts
  BY LoginAssumption DEF Ops
<1>4. CASE state' = e /\ req' = req
  <2>1. Base'
    BY <1>1, <1>2, <1>4 DEF IInv, Base, TypeOK
  <2> QED
    BY <1>1, <1>2, <1>4, <2>1 DEF Kept, IInv
<1>5. ASSUME IsPending(e, o), ~e.sessions[o].finishing, e.active = Login(o),
             state' = [e EXCEPT !.sessions[o].finishing = TRUE],
             NEW key \in Keys, req' = [req EXCEPT ![k] = Asked(o, key)]
      PROVE  Kept
  <2> DEFINE x == Asked(o, key)
  <2>1. op[o] \in OpRecords
    BY <1>3, BaseTypes DEF IInv
  <2>2. /\ x.pc = "identity" /\ x.op = o /\ x.key = key /\ x.cred = op[o].cred
        /\ x.bound = op[o].bound /\ x.worker = "none" /\ x.phase = "active"
    BY DEF Asked, NewRequest
  <2>3. x \in ReqRecords
    BY <2>1 DEF Asked, NewRequest, ReqRecords, OpRecords, Levels
  <2>4. req' = [req EXCEPT ![k] = x]
    BY <1>5
  <2> HIDE DEF x
  <2>5. /\ e.sessions[o].state = "pending" /\ e.active = Login(o)
        /\ state' = [e EXCEPT !.sessions[o].finishing = TRUE]
    BY <1>5 DEF IsPending
  <2>6. Placed(e, op[o], o)
    BY <1>2, <1>3 DEF Sound, Control
  <2>7. op[o].pc = "waiting"
    BY <2>5, <2>6 DEF Placed, IsPending
  <2>8. op[o].bound # None
    BY <1>3, <2>7 DEF IInv, Base, Knows
  <2>9. key # None
    BY LoginAssumption
  <2>10. Carries(x)
    BY <1>3, <2>2, <2>8, <2>9, LoginAssumption DEF Carries
  <2>11. Live(x) /\ x.worker = "none"
    BY <2>2 DEF Live
  <2>12. e.sessions[o] \in Session
    BY <1>2, <1>3, StateTypes
  <2>13. /\ state' \in LoginState /\ state'.active = e.active /\ state'.readiness = e.readiness
         /\ \A j \in Ops \ {o} : state'.sessions[j] = e.sessions[j]
         /\ state'.sessions[o].state = e.sessions[o].state
         /\ state'.sessions[o].finishing /\ state'.sessions[o].done = e.sessions[o].done
    BY <1>2, <1>3, <2>5, <2>12 DEF LoginState, Session
  <2>14. IsPending(state', o)
    BY <2>5, <2>13 DEF IsPending
  <2>15. Revises(req, req', k, x) /\ Callbacks(req')
    BY <1>1, <1>2, <2>3, <2>4, <2>10, <2>13, CallbackStep
  <2>16. IsPending(e, o) /\ ~e.sessions[o].finishing /\ e.active = Login(o)
    BY <1>5
  <2>17. Sound(state', op, req', binding)
    BY ONLY <1>2, <1>3, <2>2, <2>11, <2>13, <2>14, <2>15, <2>16, CallKeeps
  <2>18. Keeps(state, state')
    BY <1>2, <1>3, <2>13, KeepsOn, ZenonT(60)
  <2> QED
    BY <1>1, <1>2, <2>3, <2>4, <2>10, <2>13, <2>17, <2>18, CallbackStep
<1> QED
  BY <1>1, <1>4, <1>5

\* The records of callbacks and workers that are over.
LEMMA CallbackOverFacts ==
    ASSUME NEW k \in Requests, CallbackOver(k)
    PROVE  \E y \in ReqRecords : Carries(y) /\ ~Live(y) /\ req' = [req EXCEPT ![k] = y]
<1> DEFINE y == [NewRequest EXCEPT !.pc = "done", !.phase = "finished"]
<1>1. /\ y.pc = "done" /\ y.worker = "none" /\ y.phase = "finished" /\ y.op = None
      /\ y.key = None /\ y.bound = None /\ y.cred = NoCredentials /\ ~y.settled
  BY DEF NewRequest
<1>2. y \in ReqRecords
  BY CredentialTypes DEF NewRequest, ReqRecords, Levels, Bindings
<1>3. req' = [req EXCEPT ![k] = y]
  BY DEF CallbackOver
<1> HIDE DEF y
<1>4. Carries(y) /\ ~Live(y)
  BY <1>1 DEF Carries, Live
<1> QED
  BY <1>2, <1>3, <1>4

\* A worker is over for one of these reasons only (claim_browser_commit).
LEMMA WorkerOverFacts ==
    ASSUME Base, NEW k \in Requests, NEW phase \in {"active", "cancelled", "finished"},
           NEW settled \in BOOLEAN, WorkerOver(k, phase, settled),
           req[k].worker \notin {"none"},
           phase = "active" => req[k].phase = "active",
           phase = "cancelled" => req[k].phase = "cancelled",
           phase = "finished" => settled
    PROVE  \E y \in ReqRecords : /\ Carries(y) /\ req' = [req EXCEPT ![k] = y]
                                 /\ y.pc = req[k].pc /\ y.worker = "done" /\ y.op = req[k].op
                                 /\ phase # "active" => ~Live(y)
<1> DEFINE y == [NewRequest EXCEPT !.pc = req[k].pc, !.op = req[k].op, !.worker = "done",
                                   !.phase = phase, !.settled = settled]
<1>1. req[k] \in ReqRecords /\ Carries(req[k])
  BY CallbacksHold DEF Callbacks
<1>2. /\ y.pc = req[k].pc /\ y.worker = "done" /\ y.phase = phase /\ y.op = req[k].op
      /\ y.key = None /\ y.bound = None /\ y.settled = settled
  BY DEF NewRequest
<1>3. NewRequest \in ReqRecords /\ NewRequest.worker = "none"
  BY CredentialTypes DEF NewRequest, ReqRecords, Levels, Bindings
<1>4. y \in ReqRecords
  BY <1>1, <1>3 DEF ReqRecords
<1>5. req' = [req EXCEPT ![k] = y]
  BY DEF WorkerOver
<1> HIDE DEF y
<1>6. req[k].pc \in {"worker", "done"} /\ (req[k].pc = "worker" => req[k].op # None)
  BY <1>1, <1>3 DEF Carries, ReqRecords
<1>7. Carries(y)
  BY <1>1, <1>2, <1>6 DEF Carries
<1>8. phase # "active" => ~Live(y)
  BY <1>2 DEF Live
<1> QED
  BY <1>2, <1>4, <1>5, <1>7, <1>8

\* A live callback or worker goes on and leaves LoginState alone.
LEMMA GoesOn ==
    ASSUME IInv, NEW k \in Requests, NEW y \in ReqRecords, Carries(y), req' = [req EXCEPT ![k] = y],
           Live(req[k]), y.op = req[k].op, y.cred = req[k].cred, y.bound = req[k].bound,
           NoStuck(state) => Carried(y, binding), state' = state, store' \in Credentials,
           binding' = binding, op' = op, late' = late, edits' = edits
    PROVE  Kept
<1>1. state \in LoginState /\ Sound(state, op, req, binding)
  BY BaseTypes DEF IInv
<1>2. Revises(req, req', k, y) /\ Callbacks(req) /\ Callbacks(req')
  BY <1>1, CallbackStep
<1>3. Sound(state, op, req', binding)
  BY <1>1, <1>2, RequestKeeps
<1>4. Keeps(state, state)
  BY DEF Keeps
<1> QED
  BY <1>1, <1>3, <1>4, CallbackStep

\* The account behind the brought key is the bound one, or the session ends.
LEMMA CallbackAnswerKept ==
    ASSUME IInv, NEW k \in Requests, CallbackAnswer(k)
    PROVE  Kept
<1>1. /\ req[k].pc = "identity"
      /\ store' = store /\ binding' = binding /\ op' = op /\ late' = late /\ edits' = edits
      /\ \/ /\ AccountOf[req[k].key] = req[k].bound.account
            /\ req' = [req EXCEPT ![k].pc = "worker", ![k].worker = "claim"]
            /\ UNCHANGED state
         \/ state' = CompleteClaimed(state, req[k].op, FALSE) /\ CallbackOver(k)
  BY DEF CallbackAnswer
<1>2. /\ req \in [Requests -> ReqRecords] /\ req[k] \in ReqRecords /\ Carries(req[k])
      /\ state \in LoginState /\ store \in Credentials
  BY CallbacksHold, BaseTypes DEF IInv, Callbacks
<1>3. req[k].phase = "active" /\ Live(req[k])
  BY <1>1, <1>2 DEF Carries, Live
<1>4. CASE /\ AccountOf[req[k].key] = req[k].bound.account
           /\ req' = [req EXCEPT ![k].pc = "worker", ![k].worker = "claim"]
           /\ UNCHANGED state
  <2> DEFINE y == [req[k] EXCEPT !.pc = "worker", !.worker = "claim"]
  <2>1. req' = [req EXCEPT ![k] = y]
    BY ONLY <1>2, <1>4
  <2>2. /\ y \in ReqRecords /\ y.pc = "worker" /\ y.worker = "claim" /\ y.phase = req[k].phase
        /\ y.op = req[k].op /\ y.key = req[k].key /\ y.bound = req[k].bound
        /\ y.cred = req[k].cred
    BY <1>2 DEF ReqRecords
  <2> HIDE DEF y
  <2>3. Carries(y)
    BY <1>1, <1>2, <1>3, <1>4, <2>2 DEF Carries
  <2> QED
    BY <1>1, <1>2, <1>3, <1>4, <2>1, <2>2, <2>3, GoesOn DEF Carried
<1>5. CASE state' = CompleteClaimed(state, req[k].op, FALSE) /\ CallbackOver(k)
  <2>1. PICK y \in ReqRecords : Carries(y) /\ ~Live(y) /\ req' = [req EXCEPT ![k] = y]
    BY <1>5, CallbackOverFacts
  <2>2. NoStuck(state) /\ state.readiness # None =>
           Backed(state.readiness, binding) /\ state.readiness.web # "checking"
    BY <1>3, ShownWhileClaimed
  <2> QED
    BY <1>1, <1>2, <1>3, <1>5, <2>1, <2>2, CompleteKept
<1> QED
  BY <1>1, <1>4, <1>5

\* cancel_browser_completion frees the session only before the commit is claimed.
LEMMA CallbackDropKept ==
    ASSUME IInv, NEW k \in Requests, CallbackDrop(k)
    PROVE  Kept
<1> DEFINE o == req[k].op
           cancels == req[k].phase = "active"
           y == [req[k] EXCEPT !.pc = "done", !.phase = IF cancels THEN "cancelled" ELSE @]
<1>1. /\ req[k].pc \in {"identity", "worker"}
      /\ store' = store /\ binding' = binding /\ op' = op /\ late' = late /\ edits' = edits
      /\ req' = [req EXCEPT ![k].pc = "done", ![k].phase = IF cancels THEN "cancelled" ELSE @]
      /\ state' = IF ~cancels THEN state
                  ELSE IF ExpiresCompletion(state, o) THEN ExpireBrowserCompletion(state, o)
                  ELSE IF IsClaimed(state, o) THEN [state EXCEPT !.sessions[o].finishing = FALSE]
                  ELSE state
  BY DEF CallbackDrop
<1>2. /\ req \in [Requests -> ReqRecords] /\ req[k] \in ReqRecords /\ Carries(req[k])
      /\ state \in LoginState /\ store \in Credentials /\ Callbacks(req)
      /\ Sound(state, op, req, binding)
  BY CallbacksHold, BaseTypes DEF IInv, Callbacks
<1>3. req' = [req EXCEPT ![k] = y]
  BY ONLY <1>1, <1>2
<1>4. /\ y \in ReqRecords /\ y.pc = "done" /\ y.worker = req[k].worker
      /\ y.phase = IF cancels THEN "cancelled" ELSE req[k].phase
      /\ y.op = req[k].op /\ y.key = req[k].key /\ y.bound = req[k].bound
      /\ y.cred = req[k].cred /\ y.web = req[k].web /\ y.settled = req[k].settled
  BY <1>2 DEF ReqRecords
<1> HIDE DEF y
<1>5. Carries(y)
  BY <1>1, <1>2, <1>4 DEF Carries
<1>6. CASE ~cancels
  <2>1. CASE Live(y)
    <3>1. Live(req[k])
      BY <1>4, <1>6, <2>1 DEF Live
    <3>2. NoStuck(state) => Carried(y, binding)
      BY <1>4, <3>1, ShownWhileClaimed DEF Carried
    <3> QED
      BY <1>1, <1>2, <1>3, <1>4, <1>5, <1>6, <3>1, <3>2, GoesOn
  <2>2. CASE ~Live(y)
    BY <1>1, <1>3, <1>4, <1>5, <1>6, <2>2, QuietEnd
  <2> QED
    BY <2>1, <2>2
<1>7. CASE cancels
  <2>1. Live(req[k]) /\ ~Live(y)
    BY <1>1, <1>4, <1>7 DEF Live
  <2>2. o \in KeyStarts /\ o \in Ops
    BY <1>2, <2>1, LiveFacts
  <2> HIDE DEF o
  <2>3. CASE ExpiresCompletion(state, o)
    <3>1. IsClaimed(state, o) /\ state' = ExpireBrowserCompletion(state, o)
      BY <1>1, <1>7, <2>3 DEF ExpiresCompletion, o
    <3>2. /\ Closes(state, state', o, "expired")
          /\ Settled(state.readiness, state'.readiness, "checking", "loginRequired")
      BY <1>2, <2>2, <3>1, ExpireBrowserFacts
    <3>3. NoStuck(state) => Sayable(state'.readiness, binding)
      BY <2>1, <3>2, ShownWhileClaimed DEF Sayable, Settled, Backed, Quiet
    <3> QED
      BY <1>1, <1>3, <1>4, <1>5, <2>1, <2>2, <3>1, <3>2, <3>3, ClaimEnds DEF o
  <2>4. CASE ~ExpiresCompletion(state, o) /\ IsClaimed(state, o)
    <3>1. state' = [state EXCEPT !.sessions[o].finishing = FALSE]
      BY <1>1, <1>7, <2>4 DEF o
    <3>2. state.sessions[o] \in Session
      BY <1>2, <2>2, StateTypes
    <3>3. /\ state' \in LoginState /\ state'.active = state.active
          /\ state'.readiness = state.readiness
          /\ \A j \in Ops \ {o} : state'.sessions[j] = state.sessions[j]
          /\ state'.sessions[o].state = state.sessions[o].state
          /\ ~state'.sessions[o].finishing /\ state'.sessions[o].done = state.sessions[o].done
      BY <1>2, <2>2, <3>1, <3>2 DEF LoginState, Session
    <3>4. IsPending(state', o)
      BY <2>4, <3>3 DEF IsPending, IsClaimed
    <3>5. Revises(req, req', k, y) /\ Callbacks(req')
      BY <1>1, <1>2, <1>3, <1>4, <1>5, <3>3, CallbackStep
    <3>6. Sound(state', op, req', binding) /\ Keeps(state, state')
      BY <1>2, <2>1, <2>2, <2>4, <3>3, <3>4, <3>5, UnclaimKeeps DEF o
    <3> QED
      BY <1>1, <1>2, <1>3, <1>4, <1>5, <3>3, <3>6, CallbackStep
  <2>5. CASE ~ExpiresCompletion(state, o) /\ ~IsClaimed(state, o)
    <3>1. state' = state
      BY <1>1, <1>7, <2>5 DEF o
    <3> QED
      BY <1>1, <1>3, <1>4, <1>5, <2>1, <3>1, QuietEnd
  <2> QED
    BY <2>3, <2>4, <2>5
<1> QED
  BY <1>6, <1>7

\* The worker finds that the timer has taken its session, and leaves the rest
\* to its callback.
LEMMA WorkerDoneKept ==
    ASSUME IInv, NEW k \in Requests, NEW y \in ReqRecords, Carries(y), req' = [req EXCEPT ![k] = y],
           y.worker = "done", y.op = req[k].op,
           Live(req[k]), ~IsClaimed(state, req[k].op), state' = state,
           store' = store, binding' = binding, op' = op, late' = late, edits' = edits
    PROVE  Kept
<1>1. state \in LoginState /\ store \in Credentials /\ Sound(state, op, req, binding)
  BY BaseTypes DEF IInv
<1>2. Revises(req, req', k, y) /\ Callbacks(req) /\ Callbacks(req')
  BY <1>1, CallbackStep
<1>3. Sound(state, op, req', binding)
  BY <1>1, <1>2, RequestKeeps DEF Carried
<1>4. Keeps(state, state)
  BY DEF Keeps
<1> QED
  BY <1>1, <1>3, <1>4, CallbackStep

\* claim_browser_commit takes the session from its callback once and for all.
LEMMA ClaimCommitKept ==
    ASSUME IInv, NEW k \in Requests, ClaimCommit(k)
    PROVE  Kept
<1> DEFINE o == req[k].op
<1>1. /\ req[k].worker = "claim"
      /\ store' = store /\ binding' = binding /\ op' = op /\ late' = late /\ edits' = edits
      /\ \/ req[k].phase # "active" /\ WorkerOver(k, req[k].phase, FALSE) /\ state' = state
         \/ /\ req[k].phase = "active" /\ ExpiresCompletion(state, o)
            /\ state' = ExpireBrowserCompletion(state, o) /\ WorkerOver(k, "finished", TRUE)
         \/ /\ req[k].phase = "active" /\ IsClaimed(state, o)
            /\ req' = [req EXCEPT ![k].worker = "write", ![k].phase = "committing"]
            /\ state' = state
         \/ /\ req[k].phase = "active" /\ ~IsClaimed(state, o)
            /\ WorkerOver(k, "active", FALSE) /\ state' = state
  BY DEF ClaimCommit
<1>2. /\ req \in [Requests -> ReqRecords] /\ req[k] \in ReqRecords /\ Carries(req[k])
      /\ state \in LoginState /\ store \in Credentials /\ Callbacks(req) /\ Base
  BY CallbacksHold, BaseTypes DEF IInv, Callbacks
<1>3. req[k].phase \in {"active", "cancelled"} /\ req[k].worker # "none"
  BY <1>1, <1>2 DEF Carries
<1>4. ASSUME req[k].phase = "active"
      PROVE  Live(req[k]) /\ o \in KeyStarts /\ o \in Ops
  <2>1. Live(req[k])
    BY <1>2, <1>3, <1>4 DEF Carries, Live
  <2> QED
    BY <1>2, <2>1, LiveFacts
<1> HIDE DEF o
<1>5. CASE req[k].phase # "active" /\ WorkerOver(k, req[k].phase, FALSE) /\ state' = state
  <2>1. req[k].phase = "cancelled"
    BY <1>3, <1>5
  <2>2. WorkerOver(k, "cancelled", FALSE)
    BY <1>5, <2>1
  <2>3. PICK y \in ReqRecords : Carries(y) /\ req' = [req EXCEPT ![k] = y] /\ ~Live(y)
    BY <1>2, <1>3, <2>1, <2>2, WorkerOverFacts
  <2> QED
    BY <1>1, <1>5, <2>3, QuietEnd
<1>6. CASE /\ req[k].phase = "active" /\ ExpiresCompletion(state, o)
           /\ state' = ExpireBrowserCompletion(state, o) /\ WorkerOver(k, "finished", TRUE)
  <2>1. PICK y \in ReqRecords : Carries(y) /\ req' = [req EXCEPT ![k] = y] /\ ~Live(y)
    BY <1>2, <1>3, <1>6, WorkerOverFacts
  <2>2. IsClaimed(state, o)
    BY <1>6 DEF ExpiresCompletion
  <2>3. /\ Closes(state, state', o, "expired")
        /\ Settled(state.readiness, state'.readiness, "checking", "loginRequired")
    BY <1>2, <1>4, <1>6, ExpireBrowserFacts
  <2>4. NoStuck(state) => Sayable(state'.readiness, binding)
    BY <1>4, <1>6, <2>3, ShownWhileClaimed DEF Sayable, Settled, Backed, Quiet
  <2> QED
    BY <1>1, <1>4, <1>6, <2>1, <2>2, <2>3, <2>4, ClaimEnds DEF o
<1>7. CASE /\ req[k].phase = "active" /\ IsClaimed(state, o)
           /\ req' = [req EXCEPT ![k].worker = "write", ![k].phase = "committing"]
           /\ state' = state
  <2> DEFINE y == [req[k] EXCEPT !.worker = "write", !.phase = "committing"]
  <2>1. req' = [req EXCEPT ![k] = y]
    BY ONLY <1>2, <1>7
  <2>2. /\ y \in ReqRecords /\ y.pc = req[k].pc /\ y.worker = "write" /\ y.phase = "committing"
        /\ y.op = req[k].op /\ y.key = req[k].key /\ y.bound = req[k].bound
        /\ y.cred = req[k].cred
    BY <1>2 DEF ReqRecords
  <2> HIDE DEF y
  <2>3. req[k].pc = "worker"
    BY <1>2, <1>3, <1>7 DEF Carries
  <2>4. Carries(y)
    BY <1>1, <1>2, <2>2, <2>3 DEF Carries
  <2>5. Carried(y, binding)
    BY <2>2 DEF Carried
  <2>6. state' = state /\ Live(req[k])
    BY <1>4, <1>7
  <2> QED
    BY ONLY IInv, k \in Requests, <1>1, <1>2, <2>1, <2>2, <2>4, <2>5, <2>6, GoesOn
<1>8. CASE /\ req[k].phase = "active" /\ ~IsClaimed(state, o)
           /\ WorkerOver(k, "active", FALSE) /\ state' = state
  <2>1. PICK y \in ReqRecords :
           Carries(y) /\ req' = [req EXCEPT ![k] = y] /\ y.worker = "done" /\ y.op = req[k].op
    <3>1. req[k].phase = "active" /\ WorkerOver(k, "active", FALSE)
      BY <1>8
    <3>2. "active" \in {"active", "cancelled", "finished"} /\ FALSE \in BOOLEAN
      OBVIOUS
    <3>3. "active" # "cancelled" /\ "active" # "finished"
      OBVIOUS
    <3>4. \E y \in ReqRecords : /\ Carries(y) /\ req' = [req EXCEPT ![k] = y]
                                /\ y.pc = req[k].pc /\ y.worker = "done" /\ y.op = req[k].op
                                /\ "active" # "active" => ~Live(y)
      BY ONLY <1>2, <1>3, k \in Requests, <3>1, <3>2, <3>3, WorkerOverFacts, Zenon
    <3> QED
      BY ONLY <3>4
  <2>2. Live(req[k]) /\ ~IsClaimed(state, req[k].op) /\ state' = state
    BY <1>4, <1>8 DEF o
  <2> QED
    BY ONLY IInv, k \in Requests, <1>1, <2>1, <2>2, WorkerDoneKept
<1> QED
  BY <1>1, <1>5, <1>6, <1>7, <1>8

\* persist_access_key writes the key, or the session ends in error.
LEMMA StoreAccessKeyKept ==
    ASSUME IInv, NEW k \in Requests, StoreAccessKey(k)
    PROVE  Kept
<1>1. /\ req[k].worker = "write"
      /\ binding' = binding /\ op' = op /\ late' = late /\ edits' = edits
      /\ \/ /\ store' = [store EXCEPT !.key = req[k].key]
            /\ req' = [req EXCEPT ![k].worker = "snapshot"]
            /\ state' = state
         \/ WorkerFinish(k, state, FALSE) /\ store' = store
  BY DEF StoreAccessKey
<1>2. /\ req \in [Requests -> ReqRecords] /\ req[k] \in ReqRecords /\ Carries(req[k])
      /\ state \in LoginState /\ store \in Credentials /\ Callbacks(req) /\ Base
  BY CallbacksHold, BaseTypes DEF IInv, Callbacks
<1>3. req[k].phase = "committing" /\ Live(req[k]) /\ req[k].worker # "none"
  BY <1>1, <1>2 DEF Carries, Live
<1>4. CASE /\ store' = [store EXCEPT !.key = req[k].key]
           /\ req' = [req EXCEPT ![k].worker = "snapshot"]
           /\ state' = state
  <2> DEFINE y == [req[k] EXCEPT !.worker = "snapshot"]
  <2>1. req' = [req EXCEPT ![k] = y]
    BY ONLY <1>2, <1>4
  <2>2. /\ y \in ReqRecords /\ y.pc = req[k].pc /\ y.worker = "snapshot" /\ y.phase = req[k].phase
        /\ y.op = req[k].op /\ y.key = req[k].key /\ y.bound = req[k].bound
        /\ y.cred = req[k].cred /\ y.settled = req[k].settled
    BY <1>2 DEF ReqRecords
  <2> HIDE DEF y
  <2>3. Carries(y)
    BY <1>1, <1>2, <1>3, <2>2 DEF Carries, NewRequest
  <2>4. Carried(y, binding)
    BY <2>2 DEF Carried
  <2>5. req[k].key \in Keys \cup {None}
    BY <1>2 DEF ReqRecords
  <2>6. store' \in Credentials
    BY <1>2, <1>4, <2>5, CredentialTypes
  <2>7. state' = state
    BY <1>4
  <2> QED
    BY ONLY IInv, k \in Requests, <1>1, <1>2, <1>3, <2>1, <2>2, <2>3, <2>4, <2>6, <2>7, GoesOn
<1>5. CASE WorkerFinish(k, state, FALSE) /\ store' = store
  <2>1. WorkerOver(k, "finished", TRUE) /\ state' = CompleteClaimed(state, req[k].op, FALSE)
    BY <1>5 DEF WorkerFinish
  <2>2. PICK y \in ReqRecords : Carries(y) /\ req' = [req EXCEPT ![k] = y] /\ ~Live(y)
    BY <1>2, <1>3, <2>1, WorkerOverFacts
  <2>3. NoStuck(state) /\ state.readiness # None =>
           Backed(state.readiness, binding) /\ state.readiness.web # "checking"
    BY <1>3, ShownWhileClaimed
  <2> QED
    BY <1>1, <1>2, <1>3, <1>5, <2>1, <2>2, <2>3, CompleteKept
<1> QED
  BY <1>1, <1>4, <1>5

\* The Web level a worker reads is settled, and true of its cookie.
LEMMA SnapshotWebKept ==
    ASSUME IInv, NEW k \in Requests, SnapshotWeb(k)
    PROVE  Kept
<1> DEFINE web == IF state.readiness = None THEN "unknown" ELSE state.readiness.web
           y == [req[k] EXCEPT !.worker = "publish", !.web = web]
<1>1. /\ req[k].worker = "snapshot"
      /\ store' = store /\ binding' = binding /\ op' = op /\ late' = late /\ edits' = edits
      /\ state' = state
      /\ req' = [req EXCEPT ![k].worker = "publish", ![k].web = web]
  BY DEF SnapshotWeb
<1>2. /\ req \in [Requests -> ReqRecords] /\ req[k] \in ReqRecords /\ Carries(req[k])
      /\ state \in LoginState /\ store \in Credentials
  BY CallbacksHold, BaseTypes DEF IInv, Callbacks
<1>3. req[k].phase = "committing" /\ Live(req[k])
  BY <1>1, <1>2 DEF Carries, Live
<1>4. state.readiness # None => state.readiness \in ReadinessRecord
  BY <1>2, StateTypes
<1>5. web \in Levels
  BY <1>4 DEF ReadinessRecord, Levels
<1>6. NoStuck(state) =>
         /\ web # "checking"
         /\ web = "ready" => req[k].cred.web # None /\ binding = Bound(req[k].cred.web)
  BY <1>3, ShownWhileClaimed DEF Backed
<1> HIDE DEF web
<1>7. req' = [req EXCEPT ![k] = y]
  BY ONLY <1>1, <1>2
<1>8. /\ y \in ReqRecords /\ y.pc = req[k].pc /\ y.worker = "publish" /\ y.phase = req[k].phase
      /\ y.op = req[k].op /\ y.key = req[k].key /\ y.bound = req[k].bound
      /\ y.cred = req[k].cred /\ y.settled = req[k].settled /\ y.web = web
  BY <1>2, <1>5 DEF ReqRecords
<1> HIDE DEF y
<1>9. Carries(y)
  BY <1>1, <1>2, <1>3, <1>8 DEF Carries, NewRequest
<1>10. NoStuck(state) => Carried(y, binding)
  BY <1>6, <1>8 DEF Carried
<1> QED
  BY <1>1, <1>2, <1>3, <1>7, <1>8, <1>9, <1>10, GoesOn

\* publish_committed_access_key_readiness publishes what is still true.
LEMMA PublishAccessKeyKept ==
    ASSUME IInv, NEW k \in Requests, PublishAccessKey(k)
    PROVE  Kept
<1> DEFINE webSame == store.web = req[k].cred.web /\ binding = req[k].bound
           same == webSame /\ store.key = req[k].key
           web == IF webSame THEN req[k].web ELSE WebLevel(store, "unknown")
           key == IF same THEN "ready" ELSE KeyLevel(store, "unknown")
           published == SetReadiness(state, store, web, key)
<1>1. /\ req[k].worker = "publish"
      /\ store' = store /\ binding' = binding /\ op' = op /\ late' = late /\ edits' = edits
      /\ \E s \in {published, SetUnavailable(state)} : WorkerFinish(k, s, TRUE)
  BY DEF PublishAccessKey
<1>2. /\ req \in [Requests -> ReqRecords] /\ req[k] \in ReqRecords /\ Carries(req[k])
      /\ state \in LoginState /\ store \in Credentials /\ Callbacks(req) /\ Base
  BY CallbacksHold, BaseTypes DEF IInv, Callbacks
<1>3. req[k].phase = "committing" /\ Live(req[k]) /\ req[k].worker # "none"
  BY <1>1, <1>2 DEF Carries, Live
<1>4. req[k].key # None /\ req[k].bound # None /\ req[k].bound.account = AccountOf[req[k].key]
  BY <1>1, <1>2 DEF Carries
<1>5. NoStuck(state) => Carried(req[k], binding)
  BY <1>3, ShownWhileClaimed
<1>6. /\ web \in Levels
      /\ NoStuck(state) => /\ web # "checking"
                           /\ web = "ready" => store.web # None /\ binding = Bound(store.web)
  <2>1. /\ WebLevel(store, "unknown") \in {"missing", "unknown"}
        /\ {"missing", "unknown"} \subseteq Levels /\ req[k].web \in Levels
    BY <1>2 DEF WebLevel, Levels, ReqRecords
  <2> QED
    BY <1>1, <1>5, <2>1 DEF Carried
<1>7. /\ key \in {"ready", "missing", "unknown"} /\ key \in Levels
      /\ key = "ready" => store.key # None /\ binding.account = AccountOf[store.key]
  BY <1>4 DEF KeyLevel, Levels
<1> HIDE DEF web, key
<1>8. /\ published \in LoginState /\ published.sessions = state.sessions
      /\ published.active = state.active
      /\ published.readiness.web = web /\ published.readiness.key = key
      /\ published.readiness.cred = store /\ ~published.readiness.all
  BY ONLY <1>2, <1>6, <1>7, SetFacts
<1> HIDE DEF published
<1>9. NoStuck(state) => Sayable(published.readiness, binding)
  BY <1>6, <1>7, <1>8 DEF Sayable, Backed, Quiet
<1>10. ASSUME NEW s \in LoginState, s.sessions = state.sessions, s.active = state.active,
              NoStuck(state) => Sayable(s.readiness, binding), WorkerFinish(k, s, TRUE)
       PROVE  Kept
  <2>1. WorkerOver(k, "finished", TRUE) /\ state' = CompleteClaimed(s, req[k].op, TRUE)
    BY <1>10 DEF WorkerFinish
  <2>2. PICK y \in ReqRecords : Carries(y) /\ req' = [req EXCEPT ![k] = y] /\ ~Live(y)
    BY <1>2, <1>3, <2>1, WorkerOverFacts
  <2>3. NoStuck(state) /\ s.readiness # None =>
           Backed(s.readiness, binding) /\ s.readiness.web # "checking" /\ s.readiness.key # "checking"
    BY <1>10 DEF Sayable, Quiet
  <2> QED
    BY <1>1, <1>3, <1>10, <2>1, <2>2, <2>3, CompleteKept
<1>11. CASE WorkerFinish(k, published, TRUE)
  BY <1>8, <1>9, <1>10, <1>11
<1>12. CASE WorkerFinish(k, SetUnavailable(state), TRUE)
  BY <1>10, <1>12, UnverifiedFacts
<1> QED
  BY <1>1, <1>11, <1>12

\* A callback whose worker left the session open ends it.
LEMMA CallbackReturnKept ==
    ASSUME IInv, NEW k \in Requests, CallbackReturn(k)
    PROVE  Kept
<1>1. /\ req[k].pc = "worker" /\ req[k].worker = "done" /\ CallbackOver(k)
      /\ store' = store /\ binding' = binding /\ op' = op /\ late' = late /\ edits' = edits
      /\ state' = IF req[k].settled THEN state ELSE CompleteClaimed(state, req[k].op, FALSE)
  BY DEF CallbackReturn
<1>2. /\ req[k] \in ReqRecords /\ Carries(req[k]) /\ state \in LoginState
  BY CallbacksHold, BaseTypes DEF IInv, Callbacks
<1>3. PICK y \in ReqRecords : Carries(y) /\ ~Live(y) /\ req' = [req EXCEPT ![k] = y]
  BY <1>1, CallbackOverFacts
<1>4. CASE req[k].settled
  BY <1>1, <1>3, <1>4, QuietEnd
<1>5. CASE ~req[k].settled
  <2>1. req[k].phase = "active"
    BY <1>1, <1>2, <1>5 DEF Carries, ReqRecords
  <2>2. Live(req[k])
    BY <1>1, <2>1 DEF Live
  <2>3. NoStuck(state) /\ state.readiness # None =>
           Backed(state.readiness, binding) /\ state.readiness.web # "checking"
    BY <2>2, ShownWhileClaimed
  <2>4. state' = CompleteClaimed(state, req[k].op, FALSE)
    BY <1>1, <1>5
  <2> QED
    BY <1>1, <1>2, <1>3, <2>2, <2>3, <2>4, CompleteKept
<1> QED
  BY <1>4, <1>5

\* get and browser_page only tidy.
LEMMA GetKept ==
    ASSUME IInv, Get
    PROVE  Kept
<1>1. PICK gone \in SUBSET Prunable(ExpireSessions(state)) :
         state' = Forget(ExpireSessions(state), gone)
  BY DEF Get
<1>2. state' \in LoginState /\ Sound(state', op, req, binding) /\ Keeps(state, state')
  BY <1>1, Tidy
<1>3. UNCHANGED <<store, binding, op, req, late, edits>>
  BY DEF Get
<1>4. Base'
  BY <1>2, <1>3 DEF IInv, Base, TypeOK
<1> QED
  BY <1>2, <1>3, <1>4 DEF Kept, IInv

\* The clock and the other programs: nothing that the invariant is about.
LEMMA OutsideKept ==
    ASSUME IInv, UNCHANGED <<binding, state, op, req>>,
           store' \in Credentials, late' \subseteq Starts \cup KeyStarts, edits' \in 0..MaxEdits
    PROVE  Kept
<1>1. Base'
  BY DEF IInv, Base, TypeOK
<1>2. Keeps(state, state')
  BY DEF Keeps
<1> QED
  BY <1>1, <1>2 DEF Kept, IInv

\* A deadline that passes changes nothing by itself.
LEMMA DeadlineKept ==
    ASSUME IInv, NEW o \in Ops, Deadline(o)
    PROVE  Kept
<1>1. o \in Starts \cup KeyStarts
  BY DEF Deadline, IInv, Base, Knows, Polled, Saving
<1>2. /\ UNCHANGED <<store, binding, state, op, req, edits>> /\ late' = late \cup {o}
      /\ store \in Credentials /\ late \subseteq Starts \cup KeyStarts /\ edits \in 0..MaxEdits
  BY BaseTypes DEF Deadline, IInv
<1> QED
  BY <1>1, <1>2, OutsideKept

\* No other program's write to the store makes the invariant false.
LEMMA EditKept ==
    ASSUME IInv, Edit
    PROVE  Kept
<1>1. edits' \in 0..MaxEdits
  BY BaseTypes, LoginAssumption DEF Edit, IInv
<1>2. /\ UNCHANGED <<binding, state, op, req, late>> /\ store' \in Credentials
      /\ late \subseteq Starts \cup KeyStarts
  BY BaseTypes DEF Edit, IInv
<1> QED
  BY <1>1, <1>2, OutsideKept

\* The server starts with the invariant, whatever was left on disk.
LEMMA InitHolds ==
    ASSUME Init
    PROVE  IInv
<1>1. PICK found \in OnDisk : store = found.store /\ binding = found.binding
  BY DEF Init
<1>2. /\ state = [sessions |-> [o \in Ops |-> NoSession], active |-> None, readiness |-> None]
      /\ op = [o \in Ops |-> NewOp] /\ req = [r \in Requests |-> NewRequest]
      /\ late = {} /\ edits = 0
  BY DEF Init
<1>3. store \in Credentials /\ binding \in {None} \cup {Bound(w) : w \in Webs}
  BY <1>1, LoginAssumption
<1>4. binding \in Bindings
  BY <1>3, BoundType DEF Bindings
<1>5. state \in LoginState
  BY <1>2, SessionTypes DEF LoginState, Owners
<1>6. /\ NewOp \in OpRecords /\ NewOp.pc = "idle" /\ NewOp.web = "missing" /\ ~NewOp.failed
  BY CredentialTypes DEF NewOp, OpRecords, Pcs, Bindings, Levels
<1>7. NewRequest \in ReqRecords /\ Carries(NewRequest) /\ ~Live(NewRequest)
  BY CredentialTypes DEF NewRequest, ReqRecords, Levels, Bindings, Carries, Live
<1>8. TypeOK
  <2>1. op \in [Ops -> OpRecords] /\ req \in [Requests -> ReqRecords]
    BY <1>2, <1>6, <1>7
  <2>2. edits \in 0..MaxEdits /\ late \subseteq Starts \cup KeyStarts
    BY <1>2, LoginAssumption
  <2> QED
    BY <1>3, <1>4, <1>5, <2>1, <2>2 DEF TypeOK, OpRecords, ReqRecords
<1>9. Base
  <2>1. \A o \in Ops : Knows(op[o], o)
    BY <1>2, <1>6 DEF Knows, Asking, Saving, Polled
  <2>2. \A k \in Requests : Carries(req[k])
    BY <1>2, <1>7
  <2> QED
    BY <1>8, <2>1, <2>2 DEF Base
<1>10. /\ state.active = None /\ state.readiness = None
       /\ \A o \in Ops : state.sessions[o] = NoSession /\ op[o].pc = "idle"
       /\ \A k \in Requests : ~Live(req[k]) /\ req[k].worker = "none"
  BY <1>2, <1>6, <1>7 DEF NewRequest
<1>11. Control(state, op)
  BY <1>10, NoneIsNoOwner, SessionTypes
     DEF Control, Placed, Early, Asking, Saving, Polled, IsPending
<1>12. Claims(state, op, req) /\ Synced(op, binding) /\ Honest(state, op, req, binding)
  BY <1>10 DEF Claims, Synced, Tracks, Asking, Honest, Carried
<1> QED
  BY <1>9, <1>11, <1>12 DEF IInv, Sound

\* Every step of an operation keeps the invariant.
LEMMA StepKept ==
    ASSUME IInv, NEW o \in Ops, Step(o)
    PROVE  Kept
<1>1. ASSUME \/ Identity(o) \/ CheckStored(o) \/ PublishBinding(o) \/ Refresh(o)
             \/ Recheck(o) \/ StoreRefreshed(o) \/ BindRefreshed(o)
      PROVE  Kept
  <2>1. Inquires(o)
    BY <1>1, IdentityMoves, CheckStoredMoves, PublishBindingMoves, RefreshMoves, RecheckMoves,
       StoreRefreshedMoves, BindRefreshedMoves
  <2> QED
    BY <2>1, InquiresKept
<1>2. CASE Reserve(o) \/ LoadFails(o) \/ Load(o)
  BY <1>2, ReserveKept, LoadFailsKept, LoadKept
<1>3. CASE AfterStart(o) \/ AfterOthers(o) \/ KeyCheck(o) \/ TicketFails(o)
  BY <1>3, AfterStartKept, AfterOthersKept, KeyCheckKept, TicketFailsKept
<1>4. CASE StartWebQr(o) \/ StartBrowserLogin(o)
  BY <1>4, StartWebQrKept, StartBrowserLoginKept
<1>5. CASE PollNext(o) \/ PollAnswer(o) \/ SignIn(o) \/ StoreWebLogin(o)
  BY <1>5, PollNextKept, PollAnswerKept, SignInKept, StoreWebLoginKept
<1>6. CASE BindWebLogin(o) \/ Certify(o) \/ VerifyPreserved(o) \/ Probe(o) \/ Timer(o)
  BY <1>6, BindWebLoginKept, CertifyKept, VerifyPreservedKept, ProbeKept, TimerKept
<1> QED
  BY <1>1, <1>2, <1>3, <1>4, <1>5, <1>6 DEF Step

\* Every step of a callback or its worker keeps the invariant.
LEMMA ServeKept ==
    ASSUME IInv, NEW k \in Requests, Serve(k)
    PROVE  Kept
BY CallbackAnswerKept, ClaimCommitKept, StoreAccessKeyKept, SnapshotWebKept,
   PublishAccessKeyKept, CallbackReturnKept DEF Serve

\* Every step keeps the invariant and the sessions that have ended.
LEMMA NextKept ==
    ASSUME IInv, [Next]_vars
    PROVE  Kept
<1>1. CASE \E o \in Ops : Step(o) \/ Drop(o) \/ Deadline(o)
  BY <1>1, StepKept, DropKept, DeadlineKept
<1>2. CASE \E k \in Requests : Serve(k) \/ CallbackDrop(k) \/ \E o \in KeyStarts : Callback(k, o)
  BY <1>2, ServeKept, CallbackDropKept, CallbackKept
<1>3. CASE Get \/ Edit
  BY <1>3, GetKept, EditKept
<1>4. CASE UNCHANGED vars
  <2>1. /\ UNCHANGED <<binding, state, op, req>> /\ store' = store /\ late' = late /\ edits' = edits
    BY <1>4 DEF vars
  <2>2. store \in Credentials /\ late \subseteq Starts \cup KeyStarts /\ edits \in 0..MaxEdits
    BY BaseTypes DEF IInv
  <2> QED
    BY <2>1, <2>2, OutsideKept
<1> QED
  BY <1>1, <1>2, <1>3, <1>4 DEF Next

\* The invariant holds throughout.
LEMMA Inductive == Spec => []IInv
<1>1. IInv /\ [Next]_vars => IInv'
  BY NextKept DEF Kept
<1> QED
  BY InitHolds, <1>1, PTL DEF Spec

-----------------------------------------------------------------------------
(* What follows for the clients of a profile.                               *)

\* The state and all records are of their types.
THEOREM LoginTypeCorrect == Spec => []TypeOK
<1>1. IInv => TypeOK
  BY DEF IInv, Base
<1> QED
  BY <1>1, Inductive, PTL

\* No session was overtaken by its timer, in the terms of the invariant.
LEMMA NobodyOvertaken ==
    ASSUME Overtaken = {}
    PROVE  NoStuck(state)
BY DEF Overtaken, NoStuck, Stuck

\* What clients read is what is recorded, or says nothing.
LEMMA ReadinessFacts ==
    ASSUME IInv
    PROVE  LET r == state.readiness
               shown == Readiness(store)
           IN \/ r # None /\ (r.all \/ r.cred = store) /\ shown.web = r.web /\ shown.key = r.key
              \/ /\ shown.web \in {"missing", "unknown", "checking"}
                 /\ shown.key \in {"missing", "unknown", "checking"}
                 /\ "checking" \in {shown.web, shown.key} => state.active # None
<1> DEFINE r == state.readiness
           level == IF r = None /\ state.active # None THEN "checking" ELSE "unknown"
<1>1. CASE r # None /\ (r.all \/ r.cred = store)
  BY <1>1 DEF Readiness
<1>2. CASE ~(r # None /\ (r.all \/ r.cred = store))
  <2>1. Readiness(store) = [web |-> WebLevel(store, level), key |-> KeyLevel(store, level)]
    BY <1>2 DEF Readiness
  <2>2. WebLevel(store, level) \in {"missing", level} /\ KeyLevel(store, level) \in {"missing", level}
    BY DEF WebLevel, KeyLevel
  <2> QED
    BY <2>1, <2>2
<1> QED
  BY <1>1, <1>2

\* Clients are told that credentials are being checked only while an operation
\* holds the profile, and the worker that saves a key works under its session's
\* reservation, unless the session's timer has overtaken it.
THEOREM LoginWorkIsReserved == Spec => []WorkIsReserved
<1>1. ASSUME IInv PROVE CheckingHasOwner
  <2> SUFFICES ASSUME "checking" \in {Readiness(store).web, Readiness(store).key}, Overtaken = {},
                      state.readiness # None,
                      Readiness(store).web = state.readiness.web,
                      Readiness(store).key = state.readiness.key
               PROVE  state.active # None
    BY <1>1, ReadinessFacts DEF CheckingHasOwner
  <2>1. ~Quiet(state.readiness)
    BY DEF Quiet
  <2> QED
    BY <1>1, <2>1, NobodyOvertaken DEF IInv, Sound, Honest
<1>2. ASSUME IInv PROVE WorkerOwnsProfile
  <2> SUFFICES ASSUME NEW k \in Requests, req[k].phase = "committing"
               PROVE  state.active = Login(req[k].op) \/ req[k].op \in Overtaken
    BY DEF WorkerOwnsProfile
  <2>1. Live(req[k])
    BY DEF Live
  <2>2. req[k].op \in KeyStarts /\ Stands(state, op, req[k])
    BY <1>2, <2>1, CallbacksHold, LiveFacts DEF IInv, Sound, Claims
  <2> QED
    BY <2>2 DEF Stands, IsClaimed, Overtaken
<1>3. IInv => WorkIsReserved
  BY <1>1, <1>2 DEF WorkIsReserved
<1> QED
  BY <1>3, Inductive, PTL

\* What clients are told is ready was verified: the Web credential is the one
\* the private binding is of, and the key is of the bound account.
THEOREM LoginReadyIsVerified == Spec => []ReadyIsVerified
<1>1. ASSUME IInv PROVE ReadyIsVerified
  <2> DEFINE r == state.readiness
             shown == Readiness(store)
  <2> SUFFICES ASSUME Overtaken = {}
               PROVE  /\ shown.web = "ready" => store.web # None /\ binding = Bound(store.web)
                      /\ shown.key = "ready" /\ shown.web \in {"ready", "missing"} =>
                            /\ store.key # None
                            /\ binding # None => binding.account = AccountOf[store.key]
    BY DEF ReadyIsVerified
  <2>1. r # None => Backed(r, binding)
    BY <1>1, NobodyOvertaken DEF IInv, Sound, Honest
  <2>2. \/ r # None /\ (r.all \/ r.cred = store) /\ shown.web = r.web /\ shown.key = r.key
        \/ shown.web # "ready" /\ shown.key # "ready"
    BY <1>1, ReadinessFacts
  <2> HIDE DEF r, shown
  <2> QED
    BY <2>1, <2>2 DEF Backed
<1> QED
  BY <1>1, Inductive, PTL

\* Of all steps only three write the binding.
LEMMA WritesBinding ==
    ASSUME IInv, [Next]_vars, binding' # binding
    PROVE  \E o \in Ops : PublishBinding(o) \/ BindRefreshed(o) \/ BindWebLogin(o)
<1>1. CASE \E o \in Ops : Step(o)
  <2>1. PICK o \in Ops : Step(o)
    BY <1>1
  <2>2. ~(Reserve(o) \/ LoadFails(o) \/ Load(o) \/ Identity(o) \/ CheckStored(o))
    BY DEF Reserve, LoadFails, Load, Identity, CheckStored
  <2>3. ~(Refresh(o) \/ Recheck(o) \/ StoreRefreshed(o))
    BY DEF Refresh, Recheck, StoreRefreshed
  <2>4. ~(AfterStart(o) \/ AfterOthers(o) \/ KeyCheck(o) \/ TicketFails(o))
    BY DEF AfterStart, AfterOthers, KeyCheck, TicketFails
  <2>5. ~(StartWebQr(o) \/ StartBrowserLogin(o) \/ PollNext(o) \/ PollAnswer(o))
    BY DEF StartWebQr, StartBrowserLogin, PollNext, PollAnswer
  <2>6. ~(SignIn(o) \/ StoreWebLogin(o) \/ Certify(o) \/ VerifyPreserved(o) \/ Probe(o) \/ Timer(o))
    BY DEF SignIn, StoreWebLogin, Certify, VerifyPreserved, Probe, Timer
  <2> QED
    BY <2>1, <2>2, <2>3, <2>4, <2>5, <2>6 DEF Step
<1>2. CASE \E o \in Ops : Drop(o) \/ Deadline(o)
  BY <1>2 DEF Drop, Deadline
<1>3. CASE \E k \in Requests : Serve(k) \/ CallbackDrop(k) \/ \E o \in KeyStarts : Callback(k, o)
  BY <1>3 DEF Serve, CallbackAnswer, ClaimCommit, StoreAccessKey, SnapshotWeb,
     PublishAccessKey, CallbackReturn, CallbackDrop, Callback
<1>4. CASE Get \/ Edit \/ UNCHANGED vars
  BY <1>4 DEF Get, Edit, vars
<1> QED
  BY <1>1, <1>2, <1>3, <1>4 DEF Next

\* The account of a profile, once verified, never changes, and a session that
\* has ended neither completes (again) nor gets the profile back.
THEOREM LoginOutcomesAreKept == Spec => OutcomesAreKept
<1>1. ASSUME IInv, [Next]_vars, binding # None
      PROVE  binding' # None /\ binding'.account = binding.account
  <2>1. CASE binding' = binding
    BY <1>1, <2>1
  <2>2. CASE binding' # binding
    <3>1. PICK o \in Ops : PublishBinding(o) \/ BindRefreshed(o) \/ BindWebLogin(o)
      BY <1>1, <2>2, WritesBinding
    <3>2. op[o] \in OpRecords /\ Knows(op[o], o)
      BY <1>1, BaseTypes DEF IInv
    <3>3. CASE PublishBinding(o)
      <4>1. binding = op[o].bound /\ binding' = Bound(op[o].cred.web) /\ op[o].pc = "publish"
        BY <2>2, <3>3 DEF PublishBinding
      <4>2. op[o].cred.web \in Webs /\ op[o].bound.account = AccountOf[op[o].cred.web]
        BY <1>1, <3>2, <4>1 DEF Knows, Asking, OpRecords, Credentials
      <4> QED
        BY <4>1, <4>2, BoundType
    <3>4. CASE BindRefreshed(o) \/ BindWebLogin(o)
      <4>1. binding = op[o].bound /\ binding' = Bound(op[o].fresh) /\ op[o].pc \in {"rebind", "bindweb"}
        BY <2>2, <3>4 DEF BindRefreshed, BindWebLogin
      <4>2. op[o].fresh \in Webs /\ op[o].bound.account = AccountOf[op[o].fresh]
        BY <1>1, <3>2, <4>1 DEF Knows, Saving, OpRecords
      <4> QED
        BY <4>1, <4>2, BoundType
    <3> QED
      BY <3>1, <3>3, <3>4
  <2> QED
    BY <2>1, <2>2
<1>2. ASSUME IInv, [Next]_vars
      PROVE  Keeps(state, state')
  BY <1>2, NextKept DEF Kept
<1>3. Spec => AccountIsKept
  BY <1>1, Inductive, PTL DEF Spec, AccountIsKept
<1>4. Spec => EndedStaysEnded
  <2>1. IInv /\ [Next]_vars =>
           [\A o \in Ops : state.sessions[o].done =>
              /\ state'.sessions[o].state \in {"none", state.sessions[o].state}
                    \/ {state.sessions[o].state, state'.sessions[o].state} = {"expired", "pending"}
              /\ state'.active = Login(o) => state.active = Login(o)]_vars
    BY <1>2 DEF Keeps
  <2> QED
    BY <2>1, Inductive, PTL DEF Spec, EndedStaysEnded
<1> QED
  BY <1>3, <1>4 DEF OutcomesAreKept
=============================================================================
