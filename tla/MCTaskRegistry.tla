--------------------------- MODULE MCTaskRegistry ---------------------------
(* Small instances of TaskRegistry. *)
EXTENDS TaskRegistry

CONSTANTS d1, d2, d3, p1, k1, k2, w1

\* Keys of different requests: nothing is a duplicate.
KindKeys == [t \in Tasks |-> IF t = d1 THEN k1 ELSE k2]

\* Two submissions of one source and one of another.
PairKeys == [t \in Tasks |-> IF t = d3 THEN k2 ELSE k1]

Used == {t \in Tasks : {tasks[t], visible[t]} # {"absent"}} \cup deleted

\* Several instances in one run: one task, with a crash and a save that is
\* rejected for good; a v2 download beside a playback; two downloads of one source
\* with a crash; and two of different sources, for one slot.  Where there are two
\* downloads a cancelled one has no media.
Scenarios ==
    \/ Used \subseteq {p1} \/ Used \subseteq {d3}
    \/ Used = {d3, p1} /\ permanents + crashes = 0
    \/ /\ \A t \in Tasks : tasks[t] # "partial"
       /\ \/ Used \subseteq {d1, d2} /\ permanents = 0
          \/ Used \subseteq {d1, d3} /\ permanents + crashes = 0
=============================================================================
