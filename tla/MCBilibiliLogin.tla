--------------------------- MODULE MCBilibiliLogin ---------------------------
(* Model values for the runs of BilibiliLogin: w1 and w2, cookies that can   *)
(* be refreshed, and k1 are of one account, w3 is a cookie of another.       *)
EXTENDS BilibiliLogin, TLC

CONSTANTS w1, w2, w3, k1, a1, a2

MCTinyAccountOf == (w1 :> a1) @@ (k1 :> a1)
MCSmallAccountOf == (w1 :> a1) @@ (w2 :> a1) @@ (w3 :> a2) @@ (k1 :> a1)

Disk(w, k, b) == [store |-> [web |-> w, key |-> k], binding |-> IF b = None THEN None ELSE Bound(b)]

\* A verified profile with both credentials, or nothing yet.
MCOneDisk == {Disk(w1, k1, w1)}
MCOnDisk == {Disk(None, None, None), Disk(w1, k1, w1), Disk(w2, k1, w2)}
CookieSymmetry == Permutations({w1, w2})
=============================================================================
