-------------------------- MODULE MCHlsRangeStore ---------------------------
(* A resource of four units, the first of which is the startup chunk.      *)
EXTENDS HlsRangeStore

\* A request across both parents.
MCRequests == {<<2, 4>>}

\* Two instances in one run: origins that serve different bytes, with every
\* trouble; and mirrors of a resource of known length, whose validators may
\* change but nothing fails.
Scenarios == content = Foreign \/ (hurts = 0 /\ (disk.saved => man.total # 0))
=============================================================================
