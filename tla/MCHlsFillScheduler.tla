------------------------- MODULE MCHlsFillScheduler -------------------------
(***************************************************************************)
(* Two tasks of one session each.                                          *)
(***************************************************************************)
EXTENDS HlsFillScheduler

CONSTANTS s1, s2, t1, t2

MCSessions == {s1, s2}
MCTasks == {t1, t2}
MCTaskOf == [s \in Sessions |-> IF s = s1 THEN t1 ELSE t2]
=============================================================================
