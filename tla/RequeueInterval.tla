--------------------------- MODULE RequeueInterval ---------------------------
(***************************************************************************)
(* The delay after which the Release controller reconciles a Release      *)
(* again when a pass ends without error (controller.go 133-146 and        *)
(* 472-516).  A time.Duration is a signed integer count of nanoseconds;   *)
(* here it is a W-bit two's-complement integer, so that the sum of a base *)
(* and its jitter wraps exactly as the 64-bit sum does at its own edge.   *)
(* rand.Intn is a nondeterministic choice over all the values it returns. *)
(***************************************************************************)
EXTENDS Integers

CONSTANTS
    W,                   \* width of a Duration in bits
    Nil,                 \* a nil *metav1.Duration in the Release spec
    DefaultStable,       \* 5 * time.Minute, in the model's unit
    DefaultProgressing,  \* 10 * time.Second, in the model's unit
    Intervals,           \* the values a user may write in the spec fields
    MaxEdits             \* bound on edits of the spec fields

MinDuration == -(2^(W-1))
MaxDuration == 2^(W-1) - 1

ASSUME /\ W \in Nat \ {0}
       /\ Intervals \subseteq MinDuration..MaxDuration
       /\ {DefaultStable, DefaultProgressing} \subseteq 1..MaxDuration

VARIABLES
    interval,             \* Release.Spec.Interval
    progressingInterval,  \* Release.Spec.ProgressingInterval
    transitioning,        \* hasTransitioningResources at the last pass
    requeueAfter,         \* ctrl.Result.RequeueAfter of the last pass
    edits

vars == <<interval, progressingInterval, transitioning, requeueAfter, edits>>

SpecValue == {Nil} \cup Intervals

\* int64 addition: the sum reduced to the Duration's width
Wrap(x) == ((x - MinDuration) % 2^W) + MinDuration

\* time.Duration(float64(d) * 0.2): the product truncated toward zero
FifthOfDuration(d) == IF d >= 0 THEN d \div 5 ELSE -((-d) \div 5)

\* addJitter: base plus rand.Intn(maxJitter), i.e. one of 0..maxJitter-1
addJitter(base, maxJitter) ==
    IF maxJitter <= 0 THEN {base}
    ELSE {Wrap(base + j) : j \in 0..(maxJitter - 1)}

\* the pattern of "unset or zero means the default", which the code avoids
RequeueIntervalZeroAsDefault(field, default) ==
    LET base == IF field = Nil \/ field = 0 THEN default ELSE field
    IN  addJitter(base, FifthOfDuration(base))

\* the configured base, or the default when the field is nil; a configured
\* 0 disables the periodic requeue
RequeueIntervalFromZero(field, default) ==
    LET base == IF field = Nil THEN default ELSE field
    IN  IF field # Nil /\ base = 0 THEN {0}
        ELSE addJitter(base, FifthOfDuration(base))

getStableRequeueInterval ==
    RequeueIntervalFromZero(interval, DefaultStable)

getProgressingRequeueInterval ==
    RequeueIntervalFromZero(progressingInterval, DefaultProgressing)

-----------------------------------------------------------------------------
Init ==
    /\ interval \in SpecValue
    /\ progressingInterval \in SpecValue
    /\ transitioning = FALSE
    /\ requeueAfter = Nil
    /\ edits = 0

\* the end of Reconcile after updateStatus reported nothing to persist
Requeue ==
    \E t \in BOOLEAN :
        /\ transitioning' = t
        /\ requeueAfter' \in IF t THEN getProgressingRequeueInterval
                                  ELSE getStableRequeueInterval
        /\ UNCHANGED <<interval, progressingInterval, edits>>

\* a user changes the intervals of the Release (a new generation); the
\* update event re-queues the Release at once, so the pending delay no
\* longer decides when the next pass runs
EditIntervals ==
    /\ edits < MaxEdits
    /\ interval' \in SpecValue
    /\ progressingInterval' \in SpecValue
    /\ requeueAfter' = Nil
    /\ edits' = edits + 1
    /\ UNCHANGED transitioning

Next == Requeue \/ EditIntervals

Spec == Init /\ [][Next]_vars

-----------------------------------------------------------------------------
\* The spec's rule for the next-reconcile delay (spec.md, Reconcile step
\* 9): the progressing interval when resources are transitioning, else the
\* stable one, each defaulted when unset; a configured zero disables the
\* periodic requeue; otherwise the delay is the base plus a jitter of at
\* most 20% of it.
SpecDelay(field, default, d) ==
    LET base == IF field = Nil THEN default ELSE field
    IN  IF base = 0 THEN d = 0 ELSE base <= d /\ 5 * (d - base) <= base

\* Every delay the controller returns after a successful pass is one the
\* spec allows for the interval fields the Release had at that pass: in
\* particular a Release with a non-zero interval is requeued (a delay that
\* is not positive means controller-runtime never requeues it).
RequeueMatchesSpec ==
    requeueAfter # Nil =>
        IF transitioning
        THEN SpecDelay(progressingInterval, DefaultProgressing, requeueAfter)
        ELSE SpecDelay(interval, DefaultStable, requeueAfter)
=============================================================================
