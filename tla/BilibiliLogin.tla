---------------------------- MODULE BilibiliLogin ----------------------------
(***************************************************************************)
(* Bilibili credentials of one profile: BilibiliLoginManager of             *)
(* bilibili_login.rs, the credential store it shares with other programs    *)
(* and the private file of verified account bindings                        *)
(* (bilibili_credential_bindings.rs).                                       *)
(*                                                                         *)
(* An operation is a call of start (Web QR login), start_access_key         *)
(* (browser login for a generic key) or maintain_profile.  It reserves the  *)
(* profile, loads the stored credentials, asks the provider about them, and *)
(* either settles the profile's readiness or opens a login session that     *)
(* outlives the call.  A pc that names a provider call is a point where the *)
(* operation waits for its answer.  Every file transaction and every locked *)
(* section of `state' is a step, together with the locked sections that     *)
(* follow it at once under the same reservation of the profile.             *)
(***************************************************************************)
EXTENDS Naturals, FiniteSets

CONSTANTS
    Starts,        \* calls of start
    KeyStarts,     \* calls of start_access_key
    Upkeeps,       \* calls of maintain_profile
    Requests,      \* browser callbacks (complete_browser_login)
    Webs,          \* Web credentials: a cookie with its refresh token, if any
    Keys,          \* generic access keys with their secrets
    Refreshable,   \* the Web credentials that have a refresh token
    Accounts,
    AccountOf,     \* the account the provider knows a credential by
    OnDisk,        \* what the server may find on disk when it starts
    MaxEdits,      \* bound on the writes of other programs to the store
    None

Ops == Starts \cup KeyStarts \cup Upkeeps

Credentials == [web : Webs \cup {None}, key : Keys \cup {None}]
NoCredentials == [web |-> None, key |-> None]
Bindings == {None} \cup [web : Webs, account : Accounts]
Bound(w) == [web |-> w, account |-> AccountOf[w]]

Levels == {"missing", "unknown", "checking", "ready", "loginRequired", "unavailable"}

\* The identifiers active_profiles holds: a login or maintenance operation, or
\* the verification of a preserved key that follows a Web login.
Login(o) == <<o, "login">>
Verifier(o) == <<o, "verify">>
Owners == {None} \cup (Ops \X {"login", "verify"})

ReadinessRecord == [web : Levels, key : Levels, cred : Credentials,
                    all : BOOLEAN, temp : Owners]

ASSUME LoginAssumption ==
    /\ Starts \cap KeyStarts = {} /\ (Starts \cup KeyStarts) \cap Upkeeps = {}
    /\ Refreshable \subseteq Webs
    /\ AccountOf \in [Webs \cup Keys -> Accounts]
    /\ OnDisk \subseteq [store : Credentials, binding : {None} \cup {Bound(w) : w \in Webs}]
    /\ MaxEdits \in Nat
    /\ None \notin Ops \cup Webs \cup Keys \cup Accounts
    /\ None \notin [web : Webs, account : Accounts] \cup (Ops \X {"login", "verify"})
    /\ None \notin ReadinessRecord

VARIABLES
    store,     \* the profile in the credential store
    binding,   \* its verified binding, or None
    state,     \* LoginState: what the manager's mutex protects
    op,        \* what each operation does and holds
    req,       \* the browser callbacks and their blocking workers
    late,      \* operations whose session deadline has passed
    edits

vars == <<store, binding, state, op, req, late, edits>>

\* done stands for completed_at.
Session == [state : {"none", "pending", "ready", "expired", "error"},
            finishing : BOOLEAN, done : BOOLEAN]
NoSession == [state |-> "none", finishing |-> FALSE, done |-> FALSE]
NewSession == [state |-> "pending", finishing |-> FALSE, done |-> FALSE]
ReadySession == [state |-> "ready", finishing |-> FALSE, done |-> TRUE]

LoginState == [sessions : [Ops -> Session], active : Owners,
               readiness : {None} \cup ReadinessRecord]

Pcs == {"idle", "load", "identity", "bind", "publish", "refresh", "renew", "recheck",
        "renewing", "rebind", "maintained", "keycheck", "ticket", "session",
        "waiting", "poll", "polling", "signin", "write", "bindweb", "certify",
        "verify", "probe", "done"}

TypeOK ==
    /\ store \in Credentials
    /\ binding \in Bindings
    /\ state \in LoginState
    /\ op \in [Ops -> [pc : Pcs, cred : Credentials, bound : Bindings,
                       fresh : Webs \cup {None}, web : Levels, failed : BOOLEAN]]
    /\ req \in [Requests -> [pc : {"idle", "identity", "worker", "done"},
                             worker : {"none", "claim", "write", "snapshot", "publish", "done"},
                             phase : {"active", "cancelled", "committing", "finished"},
                             op : KeyStarts \cup {None}, key : Keys \cup {None},
                             cred : Credentials, bound : Bindings,
                             web : Levels, settled : BOOLEAN]]
    /\ late \subseteq Starts \cup KeyStarts
    /\ edits \in 0..MaxEdits

NewOp == [pc |-> "idle", cred |-> NoCredentials, bound |-> None, fresh |-> None,
          web |-> "missing", failed |-> FALSE]
NewRequest == [pc |-> "idle", worker |-> "none", phase |-> "active", op |-> None,
               key |-> None, cred |-> NoCredentials, bound |-> None,
               web |-> "unknown", settled |-> FALSE]

\* The server starts with whatever credentials and binding were left on disk.
Init ==
    /\ \E found \in OnDisk : store = found.store /\ binding = found.binding
    /\ state = [sessions |-> [o \in Ops |-> NoSession], active |-> None, readiness |-> None]
    /\ op = [o \in Ops |-> NewOp]
    /\ req = [r \in Requests |-> NewRequest]
    /\ late = {}
    /\ edits = 0

-----------------------------------------------------------------------------
(* The sections of LoginState's lock, as functions on it.                   *)

WebLevel(c, level) == IF c.web = None THEN "missing" ELSE level
KeyLevel(c, level) == IF c.key = None THEN "missing" ELSE level

SetReadiness(s, c, web, key) ==
    [s EXCEPT !.readiness = [web |-> web, key |-> key, cred |-> c, all |-> FALSE, temp |-> None]]

SetUnavailable(s) ==
    [s EXCEPT !.readiness = [web |-> "unavailable", key |-> "unavailable",
                             cred |-> NoCredentials, all |-> TRUE, temp |-> None]]

\* What is still being checked gets a final level ("checking" leaves it).
Settle(readiness, web, key) ==
    IF readiness = None THEN None
    ELSE [readiness EXCEPT !.web = IF @ = "checking" THEN web ELSE @,
                           !.key = IF @ = "checking" THEN key ELSE @]

Release(s, id) == [s EXCEPT !.active = IF @ = id THEN None ELSE @]

Cancel_LeavesChecking(s, id) == Release(s, id)

\* cancel_profile_operation: what the reservation guard of an operation does
\* when it is dropped armed.
Cancel(s, id) ==
    IF s.active # id THEN s
    ELSE LET r == s.readiness
             temporary == r # None /\ r.temp = id
         IN [s EXCEPT !.readiness = IF temporary THEN None ELSE Settle(r, "unavailable", "unavailable"),
                      !.active = None]

IsPending(s, o) == s.sessions[o].state = "pending"
Finish(s, o, result) == [s EXCEPT !.sessions[o].state = result, !.sessions[o].done = TRUE]

ExpireSessions(s) ==
    LET due == {o \in late : IsPending(s, o) /\ ~s.sessions[o].finishing}
    IN [sessions |-> [o \in Ops |-> IF o \in due
                                    THEN [s.sessions[o] EXCEPT !.state = "expired", !.done = TRUE]
                                    ELSE s.sessions[o]],
        active |-> IF \E o \in due : s.active = Login(o) THEN None ELSE s.active,
        readiness |-> Settle(s.readiness,
                             IF due \cap Starts # {} THEN "loginRequired" ELSE "checking",
                             IF due \cap KeyStarts # {} THEN "loginRequired" ELSE "checking")]

\* prune_terminal_sessions drops records of sessions that ended; which ones are
\* old enough is left open.  (The bound on the number of records, which is
\* shared by all profiles, is not modelled.)
Prunable(s) == {o \in Ops : /\ s.sessions[o].state \notin {"none", "pending"}
                            /\ ~s.sessions[o].finishing}
Forget(s, gone) ==
    [s EXCEPT !.sessions = [o \in Ops |-> IF o \in gone THEN NoSession ELSE @[o]]]

\* A session that owns the profile and has claimed its one completion.
IsClaimed(s, o) == s.active = Login(o) /\ IsPending(s, o) /\ s.sessions[o].finishing

CompleteClaimed(s, o, saved) ==
    IF ~IsClaimed(s, o) THEN s
    ELSE [Finish(s, o, IF saved THEN "ready" ELSE "error") EXCEPT
             !.sessions[o].finishing = FALSE,
             !.readiness = IF saved THEN @
                           ELSE Settle(@, IF o \in Starts THEN "unavailable" ELSE "checking",
                                          IF o \in Starts THEN "checking" ELSE "unavailable"),
             !.active = None]

FinishWithoutStore(s0, o, result) ==
    LET s == ExpireSessions(s0)
        level == IF result = "expired" THEN "loginRequired" ELSE "unavailable"
    IN IF s.active = Login(o) /\ IsPending(s, o) /\ ~s.sessions[o].finishing
       THEN [Finish(s, o, result) EXCEPT !.readiness = Settle(@, level, level), !.active = None]
       ELSE s

ExpiresCompletion(s, o) == IsClaimed(s, o) /\ o \in late
ExpireBrowserCompletion_KeepsProfile(s, o) ==
    [Finish(s, o, "expired") EXCEPT !.sessions[o].finishing = FALSE,
                                    !.readiness = Settle(@, "checking", "loginRequired")]

ExpireBrowserCompletion(s, o) ==
    [Finish(s, o, "expired") EXCEPT !.sessions[o].finishing = FALSE,
                                    !.readiness = Settle(@, "checking", "loginRequired"),
                                    !.active = None]

\* The body of the timer that start_access_key leaves behind.
ExpireSession(s0, o) ==
    LET s == ExpireSessions(s0)
    IN IF IsPending(s, o) THEN Release(Finish(s, o, "expired"), Login(o)) ELSE s

\* A poll answered that the code was scanned (set_state).
Confirm(s, o) ==
    IF s.sessions[o].state = "none" THEN s ELSE [s EXCEPT !.sessions[o].state = "pending"]

\* What a client reads as the profile's readiness, for the credentials c.
Readiness(c) ==
    LET guess(level) == [web |-> WebLevel(c, level), key |-> KeyLevel(c, level)]
        r == state.readiness
    IN IF r = None THEN guess(IF state.active # None THEN "checking" ELSE "unknown")
       ELSE IF r.all \/ r.cred = c THEN [web |-> r.web, key |-> r.key]
       ELSE guess("unknown")

-----------------------------------------------------------------------------
(* An operation: reservation, load, and the maintenance of the Web          *)
(* credentials (maintain_web) that all three kinds begin with.              *)

Answers == {"ok", "rejected", "unavailable"}   \* a timeout counts as unavailable

Goto(o, pc) == op' = [op EXCEPT ![o].pc = pc]

\* The operation is over and what it held is gone.
Over == [NewOp EXCEPT !.pc = "done"]
Return(o) == op' = [op EXCEPT ![o] = Over]

\* maintain_web returns with this verdict on the Web credentials.
Maintained(o, web, failed) ==
    op' = [op EXCEPT ![o].pc = "maintained", ![o].web = web, ![o].failed = failed]

\* reserve_profile.
Reserve(o) ==
    /\ op[o].pc = "idle"
    /\ \E gone \in SUBSET Prunable(ExpireSessions(state)) :
          LET s == Forget(ExpireSessions(state), gone)
          IN IF s.active # None
             THEN state' = s /\ Return(o)
             ELSE state' = [s EXCEPT !.active = Login(o)] /\ Goto(o, "load")
    /\ UNCHANGED <<store, binding, req, late, edits>>

LoadFails(o) ==
    /\ op[o].pc = "load"
    /\ state' = Cancel(IF o \in Upkeeps THEN SetUnavailable(state) ELSE state, Login(o))
    /\ Return(o)
    /\ UNCHANGED <<store, binding, req, late, edits>>

\* The credentials are loaded and shown as being checked, and their binding is
\* looked up; without a cookie there is nothing to ask the provider.
Load(o) ==
    /\ op[o].pc = "load"
    /\ state' = SetReadiness(state, store, WebLevel(store, "checking"), KeyLevel(store, "checking"))
    /\ \/ op' = [op EXCEPT ![o] = [@ EXCEPT !.pc = IF store.web = None THEN "maintained" ELSE "identity",
                                            !.cred = store, !.bound = binding]]
       \/ op' = [op EXCEPT ![o] = [@ EXCEPT !.pc = "maintained", !.cred = store,
                                            !.web = "unavailable", !.failed = TRUE]]
    /\ UNCHANGED <<store, binding, req, late, edits>>

\* With a refresh token the cookie is renewed; without one it is ready.
AskRefresh(o) ==
    IF op[o].cred.web \in Refreshable THEN Goto(o, "refresh") ELSE Maintained(o, "ready", FALSE)

\* account_identity of the stored cookie.
Identity(o) ==
    /\ op[o].pc = "identity"
    /\ \E answer \in Answers :
          LET c == op[o].cred.web
              b == op[o].bound
          IN \/ answer = "unavailable" /\ Maintained(o, "unavailable", TRUE)
             \/ answer = "rejected" /\ b = None /\ Maintained(o, "loginRequired", TRUE)
             \/ answer = "rejected" /\ b # None /\ c \in Refreshable /\ Goto(o, "renew")
             \/ answer = "rejected" /\ b # None /\ c \notin Refreshable
                /\ Maintained(o, "loginRequired", FALSE)
             \/ answer = "ok" /\ b # None /\ b.account # AccountOf[c]
                /\ Maintained(o, "loginRequired", TRUE)
             \/ answer = "ok" /\ b = Bound(c) /\ AskRefresh(o)
             \/ answer = "ok" /\ b # Bound(c) /\ (b # None => b.account = AccountOf[c])
                /\ Goto(o, "bind")
    /\ UNCHANGED <<store, binding, state, req, late, edits>>

\* publish_verified_binding looks whether the cookie is still stored and then
\* writes the binding; any failure of either leaves the cookie unverified.
CheckStored(o) ==
    /\ op[o].pc = "bind"
    /\ \/ store.web = op[o].cred.web /\ Goto(o, "publish")
       \/ Maintained(o, "unavailable", TRUE)
    /\ UNCHANGED <<store, binding, state, req, late, edits>>

PublishBinding(o) ==
    /\ op[o].pc = "publish"
    /\ \/ /\ binding = op[o].bound
          /\ binding' = Bound(op[o].cred.web)
          /\ LET b == Bound(op[o].cred.web)
             IN op' = [op EXCEPT ![o] =
                   IF op[o].cred.web \in Refreshable
                   THEN [@ EXCEPT !.bound = b, !.pc = "refresh"]
                   ELSE [@ EXCEPT !.bound = b, !.pc = "maintained", !.web = "ready"]]
       \/ Maintained(o, "unavailable", TRUE) /\ UNCHANGED binding
    /\ UNCHANGED <<store, state, req, late, edits>>

\* refresh_web_cookie, of an accepted ("refresh") or rejected ("renew") cookie;
\* a renewed cookie without a token of its own keeps the old one.
Refresh(o) ==
    /\ op[o].pc \in {"refresh", "renew"}
    /\ \/ \E w \in Refreshable : op' = [op EXCEPT ![o].pc = "recheck", ![o].fresh = w]
       \/ op[o].pc = "refresh" /\ Maintained(o, "ready", FALSE)       \* not refreshed
       \/ Maintained(o, "loginRequired", FALSE)                       \* rejected
       \/ Maintained(o, "unavailable", TRUE)
    /\ UNCHANGED <<store, binding, state, req, late, edits>>

\* account_identity of the renewed cookie.
Recheck(o) ==
    /\ op[o].pc = "recheck"
    /\ \E answer \in Answers :
          \/ answer = "ok" /\ AccountOf[op[o].fresh] = op[o].bound.account /\ Goto(o, "renewing")
          \/ answer = "ok" /\ AccountOf[op[o].fresh] # op[o].bound.account
             /\ Maintained(o, "loginRequired", TRUE)
          \/ answer = "rejected" /\ Maintained(o, "loginRequired", FALSE)
          \/ answer = "unavailable" /\ Maintained(o, "unavailable", TRUE)
    /\ UNCHANGED <<store, binding, state, req, late, edits>>

\* persist_refreshed_web: the cookie is replaced if it is still the one that
\* was renewed, then its binding.
StoreRefreshed(o) ==
    /\ op[o].pc = "renewing"
    /\ \/ /\ store.web = op[o].cred.web
          /\ store' = [store EXCEPT !.web = op[o].fresh]
          /\ Goto(o, "rebind")
       \/ Maintained(o, "unavailable", TRUE) /\ UNCHANGED store
    /\ UNCHANGED <<binding, state, req, late, edits>>

BindRefreshed(o) ==
    /\ op[o].pc = "rebind"
    /\ \/ /\ binding = op[o].bound
          /\ binding' = Bound(op[o].fresh)
          /\ op' = [op EXCEPT ![o] = [@ EXCEPT !.pc = "maintained", !.web = "ready",
                                               !.cred.web = op[o].fresh,
                                               !.bound = Bound(op[o].fresh)]]
       \/ Maintained(o, "unavailable", TRUE) /\ UNCHANGED binding
    /\ UNCHANGED <<store, state, req, late, edits>>

-----------------------------------------------------------------------------
(* What each kind of operation makes of the verdict.                        *)

\* insert_terminal_session, then the reservation is let go.
EndReady(s0, o, gone) ==
    [Release(Forget(ExpireSessions(s0), gone), Login(o)) EXCEPT !.sessions[o] = ReadySession]

\* start: a cookie that is ready needs no login, one that could not be judged
\* fails the call (and its guard gives the profile up).
AfterStart(o) ==
    /\ o \in Starts /\ op[o].pc = "maintained"
    /\ LET c == op[o].cred
           ready == SetReadiness(state, c, "ready", KeyLevel(c, "unknown"))
       IN \/ /\ ~op[o].failed /\ op[o].web # "ready"
             /\ Goto(o, "ticket") /\ UNCHANGED state
          \/ /\ ~op[o].failed /\ op[o].web = "ready"
             /\ \E gone \in SUBSET Prunable(ExpireSessions(ready)) : state' = EndReady(ready, o, gone)
             /\ Return(o)
          \/ /\ op[o].failed
             /\ \/ state' = Cancel(state, Login(o))        \* the reload failed
                \/ state' = Cancel(SetReadiness(state, store, op[o].web, KeyLevel(store, "unknown")),
                                   Login(o))
             /\ Return(o)
    /\ UNCHANGED <<store, binding, req, late, edits>>

\* After a failure the key that is stored now is checked; maintenance does with
\* no credentials at all if they can not be read.
Reloaded(o) == {store} \cup {c \in {NoCredentials} : o \in Upkeeps}
CheckAgain(o, c, b) ==
    op' = [op EXCEPT ![o] = [@ EXCEPT !.pc = "keycheck", !.cred = c, !.bound = b]]

\* start_access_key and maintain_profile: the key is checked next, after a
\* failure against what is stored now.  A browser login needs a verified
\* account.
AfterOthers(o) ==
    /\ o \in KeyStarts \cup Upkeeps /\ op[o].pc = "maintained"
    /\ \/ /\ op[o].failed
          /\ \E b \in {None, binding} : \E c \in Reloaded(o) : CheckAgain(o, c, b)
          /\ UNCHANGED state
       \/ /\ op[o].failed /\ o \in KeyStarts               \* the reload failed
          /\ state' = Cancel(SetUnavailable(state), Login(o)) /\ Return(o)
       \/ /\ ~op[o].failed /\ (o \in Upkeeps \/ op[o].bound # None)
          /\ Goto(o, "keycheck") /\ UNCHANGED state
       \/ /\ ~op[o].failed /\ o \in KeyStarts /\ op[o].bound = None
          /\ state' = Cancel(SetReadiness(state, op[o].cred, op[o].web, "loginRequired"), Login(o))
          /\ Return(o)
    /\ UNCHANGED <<store, binding, req, late, edits>>

\* maintain_access_key: a key is ready if its account is the verified one.
KeyVerdict(c, b, answer) ==
    IF c.key = None THEN "missing"
    ELSE IF answer = "ok" /\ (b = None \/ b.account = AccountOf[c.key]) THEN "ready"
    ELSE IF answer = "unavailable" THEN "unavailable"
    ELSE "loginRequired"

KeyCheck(o) ==
    /\ op[o].pc = "keycheck"
    /\ \E answer \in Answers :
          LET c == op[o].cred
              verdict == KeyVerdict(c, op[o].bound, answer)
              settled == SetReadiness(state, c, op[o].web, verdict)
              login == o \in KeyStarts /\ ~op[o].failed
          IN \/ /\ ~login
                /\ state' = Cancel(settled, Login(o)) /\ Return(o)
             \/ /\ login /\ verdict = "ready"
                /\ \E gone \in SUBSET Prunable(ExpireSessions(settled)) :
                      state' = EndReady(settled, o, gone)
                /\ Return(o)
             \/ /\ login /\ (c.key = None \/ answer = "rejected")
                /\ Goto(o, "session") /\ UNCHANGED state
             \/ /\ login /\ c.key # None /\ answer # "rejected" /\ verdict # "ready"
                /\ state' = Cancel(settled, Login(o)) /\ Return(o)
    /\ UNCHANGED <<store, binding, req, late, edits>>

\* The caller of start or start_access_key goes away while it waits for the
\* provider; maintenance is aborted likewise when the server drops it.
Drop(o) ==
    /\ op[o].pc \in {"identity", "refresh", "renew", "recheck", "keycheck", "ticket"}
    /\ op[o].pc = "keycheck" => op[o].cred.key # None
    /\ state' = Cancel(state, Login(o))
    /\ Return(o)
    /\ UNCHANGED <<store, binding, req, late, edits>>

OpenSession(o, web, key) ==
    state' = SetReadiness([ExpireSessions(state) EXCEPT !.sessions[o] = NewSession],
                          op[o].cred, web, key)

TicketFails(o) ==
    /\ op[o].pc \in {"ticket", "session"}
    /\ state' = Cancel(state, Login(o))
    /\ Return(o)
    /\ UNCHANGED <<store, binding, req, late, edits>>

\* start_web_qr opens the session and spawns run_session.
StartWebQr(o) ==
    /\ op[o].pc = "ticket"
    /\ OpenSession(o, "checking", KeyLevel(op[o].cred, "unknown"))
    /\ Goto(o, "poll")
    /\ UNCHANGED <<store, binding, req, late, edits>>

\* The end of start_access_key, which spawns the timer of the session.
StartBrowserLogin(o) ==
    /\ op[o].pc = "session"
    /\ OpenSession(o, op[o].web, "checking")
    /\ Goto(o, "waiting")
    /\ UNCHANGED <<store, binding, req, late, edits>>

-----------------------------------------------------------------------------
(* A Web QR session: run_session and persist_credentials.                   *)

\* The head of the polling loop.
PollNext(o) ==
    /\ op[o].pc = "poll"
    /\ LET s == ExpireSessions(state)
       IN /\ state' = s
          /\ IF IsPending(s, o) /\ ~s.sessions[o].finishing THEN Goto(o, "polling") ELSE Return(o)
    /\ UNCHANGED <<store, binding, req, late, edits>>

PollAnswer(o) ==
    /\ op[o].pc = "polling"
    /\ \/ Goto(o, "poll") /\ UNCHANGED state                            \* waiting
       \/ Goto(o, "poll") /\ state' = Confirm(state, o)                 \* scanned
       \/ \E result \in {"expired", "error"} :
             Return(o) /\ state' = FinishWithoutStore(state, o, result)
       \/ \E w \in Webs : op' = [op EXCEPT ![o].pc = "signin", ![o].fresh = w] /\ UNCHANGED state
    /\ UNCHANGED <<store, binding, req, late, edits>>

MayStore_AnyAccount(o) ==
    /\ state.active = Login(o) /\ IsPending(state, o) /\ ~state.sessions[o].finishing
    /\ o \notin late

\* The account of the new cookie is known: the session claims the store if it
\* still owns the profile, is not late, and the account is the expected one.
MayStore(o) ==
    /\ state.active = Login(o) /\ IsPending(state, o) /\ ~state.sessions[o].finishing
    /\ o \notin late
    /\ op[o].bound # None => op[o].bound.account = AccountOf[op[o].fresh]

SignIn(o) ==
    /\ op[o].pc = "signin"
    /\ \/ /\ MayStore(o)
          /\ state' = [state EXCEPT !.sessions[o].finishing = TRUE]
          /\ Goto(o, "write")
       \/ /\ state' = FinishWithoutStore(state, o, "error")
          /\ Return(o)
    /\ UNCHANGED <<store, binding, req, late, edits>>

\* publish_unverified_web_readiness: somebody else changed the credentials.
PublishUnverified(s) == SetReadiness(s, store, WebLevel(store, "unknown"), KeyLevel(store, "unknown"))

\* The login could not be saved; finish_without_store finds it completed.
GiveUp(o, s) ==
    /\ state' = ExpireSessions(CompleteClaimed(s, o, FALSE))
    /\ Return(o)

\* persist_web_login: the cookie, if the profile still has the material the
\* session started from, then the binding, if it is still the expected one.
StoreWebLogin(o) ==
    /\ op[o].pc = "write"
    /\ \/ /\ store.web = op[o].cred.web
          /\ store' = [store EXCEPT !.web = op[o].fresh]
          /\ Goto(o, "bindweb") /\ UNCHANGED state
       \/ store.web # op[o].cred.web /\ GiveUp(o, PublishUnverified(state)) /\ UNCHANGED store
       \/ GiveUp(o, SetUnavailable(state)) /\ UNCHANGED store
    /\ UNCHANGED <<binding, req, late, edits>>

BindWebLogin(o) ==
    /\ op[o].pc = "bindweb"
    /\ \/ /\ binding = op[o].bound
          /\ binding' = Bound(op[o].fresh)
          /\ Goto(o, "certify") /\ UNCHANGED state
       \/ /\ GiveUp(o, IF binding = op[o].bound THEN SetUnavailable(state) ELSE PublishUnverified(state))
          /\ UNCHANGED binding
    /\ UNCHANGED <<store, req, late, edits>>

Certify_Trusts(o) ==
    /\ op[o].pc = "certify"
    /\ LET s == SetReadiness(state, store, "ready", KeyLevel(store, "unknown"))
       IN /\ state' = ExpireSessions(CompleteClaimed(s, o, TRUE))
          /\ op' = [op EXCEPT ![o] = IF IsClaimed(s, o) THEN [@ EXCEPT !.pc = "verify"] ELSE Over]
    /\ UNCHANGED <<store, binding, req, late, edits>>

\* publish_committed_web_login_readiness: the login is certified only if what
\* is stored and bound now is what was written.
Certify(o) ==
    /\ op[o].pc = "certify"
    /\ LET verified == store.web = op[o].fresh /\ binding = Bound(op[o].fresh)
           web == WebLevel(store, IF verified THEN "ready" ELSE "unknown")
           s == SetReadiness(state, store, web, KeyLevel(store, "unknown"))
       IN \/ /\ verified
             /\ state' = ExpireSessions(CompleteClaimed(s, o, TRUE))
             /\ op' = [op EXCEPT ![o] = IF IsClaimed(s, o) THEN [@ EXCEPT !.pc = "verify"] ELSE Over]
          \/ ~verified /\ GiveUp(o, s)
          \/ GiveUp(o, SetUnavailable(state))
    /\ UNCHANGED <<store, binding, req, late, edits>>

\* begin_temporary_access_key_check: only a settled record of just these
\* credentials is replaced.
Replaceable(r) == r # None /\ ~r.all /\ r.cred = store /\ r.temp = None

\* verify_preserved_access_key_after_web_login reserves the profile again, in the
\* state s that pruning leaves, and puts a temporary record in place of the
\* readiness that Certify published.
VerifyFrom(o, s) ==
    LET r == s.readiness
        begins == s.active = None /\ store.key # None /\ Replaceable(r)
    IN \/ /\ begins /\ store.web # None /\ binding = Bound(store.web)
          /\ state' = [s EXCEPT !.active = Verifier(o),
                                !.readiness = [r EXCEPT !.key = "checking", !.temp = Verifier(o)]]
          /\ op' = [op EXCEPT ![o] = [@ EXCEPT !.pc = "probe", !.cred = store, !.bound = binding]]
       \/ /\ begins                       \* no matching binding: the record goes
          /\ state' = [s EXCEPT !.readiness = None]
          /\ Return(o)
       \/ /\ ~begins /\ state' = s
          /\ Return(o)
       \/ /\ s.active = None              \* the load failed
          /\ state' = Cancel([s EXCEPT !.active = Verifier(o)], Verifier(o))
          /\ Return(o)

VerifyPreserved(o) ==
    /\ op[o].pc = "verify"
    /\ \E gone \in SUBSET Prunable(ExpireSessions(state)) :
          VerifyFrom(o, Forget(ExpireSessions(state), gone))
    /\ UNCHANGED <<store, binding, req, late, edits>>

\* The answer about the preserved key counts only for the operation, the
\* credentials and the binding it was asked about.
Probe(o) ==
    /\ op[o].pc = "probe"
    /\ LET r == state.readiness
           owns == state.active = Verifier(o) /\ r # None /\ r.temp = Verifier(o)
           same == store = op[o].cred /\ binding = op[o].bound
       IN \/ /\ same /\ owns
             /\ \E answer \in Answers :
                   state' = Release(SetReadiness(state, store, r.web,
                                       KeyVerdict(op[o].cred, op[o].bound, answer)), Verifier(o))
          \/ state' = Release(IF owns THEN [state EXCEPT !.readiness = None] ELSE state, Verifier(o))
    /\ Return(o)
    /\ UNCHANGED <<store, binding, req, late, edits>>

-----------------------------------------------------------------------------
(* A browser session: its callbacks (complete_browser_login), each with the *)
(* blocking worker that saves the key, and the timer.                       *)

\* A callback that brought the key k and asks whose it is.
Asked(o, k) == [NewRequest EXCEPT !.pc = "identity", !.op = o, !.key = k,
                                  !.cred = op[o].cred, !.bound = op[o].bound]

\* An authorized callback claims the session; any other is refused and only
\* expires what is due.
Callback(r, o) ==
    /\ req[r].pc = "idle" /\ o \in KeyStarts
    /\ LET s == ExpireSessions(state)
           authorized == /\ IsPending(s, o) /\ ~s.sessions[o].finishing
                         /\ o \notin late /\ s.active = Login(o)
       IN \/ /\ authorized
             /\ state' = [s EXCEPT !.sessions[o].finishing = TRUE]
             /\ \E k \in Keys : req' = [req EXCEPT ![r] = Asked(o, k)]
          \/ state' = s /\ UNCHANGED req
    /\ UNCHANGED <<store, binding, op, late, edits>>

\* A callback, or a worker, is over and what it held is gone.
CallbackOver(r) == req' = [req EXCEPT ![r] = [NewRequest EXCEPT !.pc = "done", !.phase = "finished"]]
WorkerOver(r, phase, settled) ==
    req' = [req EXCEPT ![r] = [NewRequest EXCEPT !.pc = req[r].pc, !.op = req[r].op, !.worker = "done",
                                                 !.phase = phase, !.settled = settled]]

\* The provider's message is read and its account verified: the worker starts
\* if it is the expected one, otherwise the session ends in error.
CallbackAnswer(r) ==
    /\ req[r].pc = "identity"
    /\ LET o == req[r].op
       IN \/ /\ AccountOf[req[r].key] = req[r].bound.account
             /\ req' = [req EXCEPT ![r].pc = "worker", ![r].worker = "claim"]
             /\ UNCHANGED state
          \/ /\ state' = CompleteClaimed(state, o, FALSE)
             /\ CallbackOver(r)
    /\ UNCHANGED <<store, binding, op, late, edits>>

\* BrowserCompletionGuard::drop: the HTTP request disappears.  Unless the
\* worker has claimed the commit, the session can be completed again.
CallbackDrop(r) ==
    /\ req[r].pc \in {"identity", "worker"}
    /\ LET o == req[r].op
           cancels == req[r].phase = "active"
       IN /\ req' = [req EXCEPT ![r].pc = "done", ![r].phase = IF cancels THEN "cancelled" ELSE @]
          /\ state' = IF ~cancels THEN state
                      ELSE IF ExpiresCompletion(state, o) THEN ExpireBrowserCompletion(state, o)
                      ELSE IF IsClaimed(state, o) THEN [state EXCEPT !.sessions[o].finishing = FALSE]
                      ELSE state
    /\ UNCHANGED <<store, binding, op, late, edits>>

\* claim_browser_commit: from here on the worker can not be cancelled.
ClaimCommit(r) ==
    /\ req[r].worker = "claim"
    /\ LET o == req[r].op
       IN \/ req[r].phase # "active" /\ WorkerOver(r, req[r].phase, FALSE) /\ UNCHANGED state
          \/ /\ req[r].phase = "active" /\ ExpiresCompletion(state, o)
             /\ state' = ExpireBrowserCompletion(state, o) /\ WorkerOver(r, "finished", TRUE)
          \/ /\ req[r].phase = "active" /\ IsClaimed(state, o) /\ o \notin late
             /\ req' = [req EXCEPT ![r].worker = "write", ![r].phase = "committing"]
             /\ UNCHANGED state
          \/ req[r].phase = "active" /\ ~IsClaimed(state, o) /\ WorkerOver(r, "active", FALSE) /\ UNCHANGED state
    /\ UNCHANGED <<store, binding, op, late, edits>>

\* The worker completes the session and is done (BrowserCommitWorkerGuard).
WorkerFinish(r, s, saved) ==
    /\ state' = CompleteClaimed(s, req[r].op, saved)
    /\ WorkerOver(r, "finished", TRUE)

\* persist_access_key: one transaction, if credentials and binding are still
\* the ones the session started from.
StoreAccessKey(r) ==
    /\ req[r].worker = "write"
    /\ \/ /\ store = req[r].cred /\ binding = req[r].bound
          /\ store' = [store EXCEPT !.key = req[r].key]
          /\ req' = [req EXCEPT ![r].worker = "snapshot"]
          /\ UNCHANGED state
       \/ WorkerFinish(r, state, FALSE) /\ UNCHANGED store
    /\ UNCHANGED <<binding, op, late, edits>>

\* publish_committed_access_key_readiness reads the Web level first ...
SnapshotWeb(r) ==
    /\ req[r].worker = "snapshot"
    /\ req' = [req EXCEPT ![r].worker = "publish",
                          ![r].web = IF state.readiness = None THEN "unknown" ELSE state.readiness.web]
    /\ UNCHANGED <<store, binding, state, op, late, edits>>

\* ... and publishes it again if the Web material it was about is unchanged;
\* the key is ready only if everything is as it was committed.
PublishAccessKey(r) ==
    /\ req[r].worker = "publish"
    /\ LET webSame == store.web = req[r].cred.web /\ binding = req[r].bound
           same == webSame /\ store.key = req[r].key
           published == SetReadiness(state, store,
                            IF webSame THEN req[r].web ELSE WebLevel(store, "unknown"),
                            IF same THEN "ready" ELSE KeyLevel(store, "unknown"))
       IN \E s \in {published, SetUnavailable(state)} : WorkerFinish(r, s, TRUE)
    /\ UNCHANGED <<store, binding, op, late, edits>>

\* The callback that still waits for its worker returns; if the worker did not
\* settle the session, the callback does.
CallbackReturn(r) ==
    /\ req[r].pc = "worker" /\ req[r].worker = "done"
    /\ state' = IF req[r].settled THEN state ELSE CompleteClaimed(state, req[r].op, FALSE)
    /\ CallbackOver(r)
    /\ UNCHANGED <<store, binding, op, late, edits>>

\* The timer of start_access_key runs out, never before the deadline.
Timer(o) ==
    /\ op[o].pc = "waiting" /\ o \in late
    /\ state' = ExpireSession(state, o)
    /\ Return(o)
    /\ UNCHANGED <<store, binding, req, late, edits>>

-----------------------------------------------------------------------------
(* Clients, the clock and other programs.                                   *)

\* get and browser_page expire and prune before they read.
Get ==
    /\ \E gone \in SUBSET Prunable(ExpireSessions(state)) : state' = Forget(ExpireSessions(state), gone)
    /\ UNCHANGED <<store, binding, op, req, late, edits>>

\* A session's deadline passes.
Deadline(o) ==
    /\ op[o].pc \in {"waiting", "poll", "polling", "signin", "write", "bindweb", "certify"}
    /\ o \notin late
    /\ late' = late \cup {o}
    /\ UNCHANGED <<store, binding, state, op, req, edits>>

\* Another program, BBDown's own command line for one, rewrites the profile.
Edit ==
    /\ edits < MaxEdits /\ edits' = edits + 1
    /\ store' \in Credentials \ {store}
    /\ UNCHANGED <<binding, state, op, req, late>>

Step(o) ==
    \/ Reserve(o) \/ LoadFails(o) \/ Load(o) \/ Identity(o) \/ CheckStored(o) \/ PublishBinding(o)
    \/ Refresh(o) \/ Recheck(o) \/ StoreRefreshed(o) \/ BindRefreshed(o)
    \/ AfterStart(o) \/ AfterOthers(o) \/ KeyCheck(o) \/ TicketFails(o)
    \/ StartWebQr(o) \/ StartBrowserLogin(o)
    \/ PollNext(o) \/ PollAnswer(o) \/ SignIn(o) \/ StoreWebLogin(o)
    \/ BindWebLogin(o) \/ Certify(o) \/ VerifyPreserved(o) \/ Probe(o) \/ Timer(o)

Serve(r) ==
    \/ CallbackAnswer(r) \/ ClaimCommit(r) \/ StoreAccessKey(r) \/ SnapshotWeb(r)
    \/ PublishAccessKey(r) \/ CallbackReturn(r)

Next ==
    \/ \E o \in Ops : Step(o) \/ Drop(o) \/ Deadline(o)
    \/ \E r \in Requests : Serve(r) \/ CallbackDrop(r) \/ \E o \in KeyStarts : Callback(r, o)
    \/ Get \/ Edit

Spec == Init /\ [][Next]_vars

\* Provider calls time out and files answer, so an operation that has begun
\* keeps going, as does a callback and its worker; the clock runs.  Nothing
\* makes a client call, go away, or another program write.
Fairness ==
    /\ \A o \in Ops : WF_vars(op[o].pc # "idle" /\ Step(o)) /\ WF_vars(Deadline(o))
    /\ \A r \in Requests : WF_vars(Serve(r))

FairSpec == Spec /\ Fairness

-----------------------------------------------------------------------------
(* Properties.                                                              *)

\* The sessions whose timer expired them while a callback was finishing them:
\* expire_session, unlike expire_sessions, does not look at `finishing'.
Overtaken == {o \in KeyStarts : state.sessions[o].state = "expired" /\ state.sessions[o].finishing}

\* A client is told that credentials are being checked only while somebody
\* checks them, whichever way the operation ended; the only way to strand the
\* level is a session's timer overtaking its completion.
CheckingHasOwner ==
    /\ "checking" \in {Readiness(store).web, Readiness(store).key}
    /\ Overtaken = {}
    => state.active # None

\* What is reported ready was verified, although store and binding are two files
\* and other programs write the store: the private binding is of exactly the Web
\* credential, and beside a Web credential that is ready or missing the key is of
\* the bound account.  (After a Web check that failed the key is compared only if
\* the binding can be read: binding_from_path(..).ok().flatten().)
ReadyIsVerified ==
    LET shown == Readiness(store)
    IN Overtaken = {} =>
          /\ shown.web = "ready" => store.web # None /\ binding = Bound(store.web)
          /\ shown.key = "ready" /\ shown.web \in {"ready", "missing"} =>
                store.key # None /\ (binding # None => binding.account = AccountOf[store.key])

\* Once verified, the account of a profile never changes, whatever cookies are
\* stored, renewed or obtained by a new login.
AccountIsKept ==
    [][binding # None => binding' # None /\ binding'.account = binding.account]_vars

\* A session that ended never completes (again) nor gets the profile back, even
\* if a late answer makes it look pending.
EndedStaysEnded ==
    [][\A o \in Ops : state.sessions[o].done =>
          /\ state'.sessions[o].state \in {"none", state.sessions[o].state}
                \/ {state.sessions[o].state, state'.sessions[o].state} = {"expired", "pending"}
          /\ state'.active = Login(o) => state.active = Login(o)]_vars

\* Late answers change neither whose profile it is nor how a login ended.
OutcomesAreKept == AccountIsKept /\ EndedStaysEnded

\* The worker that saves a key works under its session's reservation until it
\* is done, unless the timer overtakes it.
WorkerOwnsProfile ==
    \A r \in Requests : req[r].phase = "committing" =>
        state.active = Login(req[r].op) \/ req[r].op \in Overtaken

\* Whoever works on the credentials of the profile holds its reservation.
WorkIsReserved == CheckingHasOwner /\ WorkerOwnsProfile

\* Every reservation is given back: no order of answers, failures, cancelled
\* calls and deadlines leaves the profile locked.
ReservationEnds == state.active # None ~> state.active = None

(* What the project's journal says and the code does not keep.              *)

\* "Once a bounded persistence operation has claimed ownership, it must finish
\* or fail and release the profile reservation": the reservation of a claimed
\* commit is not released before.
ClaimKeepsReservation ==
    \A r \in Requests : req[r].phase = "committing" => state.active = Login(req[r].op)
=============================================================================
