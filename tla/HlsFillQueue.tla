---------------------------- MODULE HlsFillQueue ----------------------------
(***************************************************************************)
(* What the fill scheduler promises to the rest of the server, without      *)
(* priorities, tokens, sequence numbers or wake-ups: sessions wait, at most *)
(* one is being filled, and a session that was withdrawn goes back to       *)
(* waiting only when somebody asks for it again.                            *)
(***************************************************************************)
CONSTANT Sessions

VARIABLES
    waiting,    \* the sessions that have a queued job
    filling,    \* the session of the job being run, a set of at most one
    withdrawn,  \* that job was cancelled
    open        \* requests are still accepted

vars == <<waiting, filling, withdrawn, open>>

Init ==
    /\ waiting = {} /\ filling = {}
    /\ withdrawn = FALSE
    /\ open = TRUE

\* A playback, a restored session or a promotion asks for s.
Request(s) ==
    /\ open
    /\ waiting' = waiting \cup {s}
    /\ UNCHANGED <<filling, withdrawn, open>>

\* s is filled next; a newer job of s may stay behind.
Take(s) ==
    /\ open
    /\ filling = {}
    /\ s \in waiting
    /\ filling' = {s}
    /\ waiting' \in {waiting, waiting \ {s}}
    /\ withdrawn' = FALSE
    /\ UNCHANGED open

\* Nothing of S waits any more, and a job of S that runs was told to stop.
Withdraw(S) ==
    /\ waiting' = waiting \ S
    /\ withdrawn' = (withdrawn \/ filling \cap S # {})
    /\ UNCHANGED <<filling, open>>

\* The job ends, is put back, or dies with its worker.
Finish(requeue) ==
    /\ filling # {}
    /\ requeue => open /\ ~withdrawn
    /\ waiting' = IF requeue THEN waiting \cup filling ELSE waiting
    /\ filling' = {}
    /\ withdrawn' = FALSE
    /\ UNCHANGED open

Close ==
    /\ open' = FALSE
    /\ waiting' = {}
    /\ UNCHANGED <<filling, withdrawn>>

Next ==
    \/ \E s \in Sessions : Request(s) \/ Take(s)
    \/ \E S \in SUBSET Sessions : Withdraw(S)
    \/ \E requeue \in BOOLEAN : Finish(requeue)
    \/ Close

Spec == Init /\ [][Next]_vars
=============================================================================
