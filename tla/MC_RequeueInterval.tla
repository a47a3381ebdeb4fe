------------------------- MODULE MC_RequeueInterval -------------------------
(***************************************************************************)
(* Durations of 10 bits with one unit per second: the defaults are 300    *)
(* (5m) and 10 (10s).  The edge values of an interval field: 0 (disabled), *)
(* 1 and 4 (a fifth truncates to 0, so no jitter), 5 (rand.Intn(1)),      *)
(* 9 and 10, the default 300, and 426, the largest base whose base plus    *)
(* 20% still fits in the width.                                            *)
(***************************************************************************)
EXTENDS RequeueInterval

MC_Intervals == {0, 1, 4, 5, 9, 10, 300, 426}
=============================================================================
