----------------------------- MODULE SlidingWindow -----------------------------
(***************************************************************************)
(* The weighted sliding-window counter                                     *)
(* (internal/limiter/slidingwindow.go): two counters, of the current and   *)
(* of the previous fixed window of Window ticks, the previous one weighted *)
(* by the share of it that the trailing window still covers.               *)
(*                                                                         *)
(* The comparison is made with both sides multiplied by Window, which      *)
(* makes it exact in integers.  admitEpsilon(limit) is then Eps * Limit,   *)
(* Eps / Window standing for admitEpsilonRel; from a limit of 1e9 on it is *)
(* worth a request or more.                                                *)
(***************************************************************************)
EXTENDS MutexPort

CONSTANTS
    Limit,   \* units per trailing window
    Window,  \* length of a window in ticks; NewSlidingWindow panics below 1
    Eps      \* admission slack per unit of the limit, in 1/Window units

ASSUME SlidingWindowAssumption ==
    /\ Limit \in Int
    /\ Window \in Nat \ {0}
    /\ Eps \in Nat

VARIABLES
    windowStart,  \* start of the current fixed window
    prevCount,    \* units admitted in the previous fixed window
    currCount     \* units admitted in the current fixed window

windowVars == <<windowStart, prevCount, currCount>>
vars == <<clock, pc, arg, inv, since, mu, now, windowStart, prevCount, currCount>>

(* Full windows that have passed by time t                                 *)
Passed(t) == (t - windowStart) \div Window

(* Mutant: idle windows are not noticed.                                   *)
PrevAtIgnoringIdle(t) == IF Passed(t) = 0 THEN prevCount ELSE currCount

(* The counters and the window start after rolling forward to time t       *)
PrevAt(t) == CASE Passed(t) = 0 -> prevCount
               [] Passed(t) = 1 -> currCount
               [] OTHER         -> 0

CurrAt(t) == IF Passed(t) = 0 THEN currCount ELSE 0

StartAt(t) == windowStart + Passed(t) * Window

(* Mutant: the previous window counts for nothing.                         *)
EstimateCurrentOnly(t) == Window * CurrAt(t)

(* Window times the estimated usage of the trailing window                 *)
Estimate(t) ==
    PrevAt(t) * (Window - (t - StartAt(t))) + Window * CurrAt(t)

AdmitEpsilon == Eps * Limit

Fits(p) ==
    Estimate(now[p]) + Window * arg[p] <= Window * Limit + AdmitEpsilon

Roll(t, n) ==
    /\ windowStart' = StartAt(t)
    /\ prevCount'   = PrevAt(t)
    /\ currCount'   = CurrAt(t) + n

Count(p) ==
    /\ pc[p] = "holding"
    /\ Fits(p)
    /\ Roll(now[p], arg[p])
    /\ Allow(p)

(* A denial keeps the rollover it made.                                    *)
Deny(p) ==
    /\ pc[p] = "holding"
    /\ ~Fits(p)
    /\ Roll(now[p], 0)
    /\ Refusal(p)

Init ==
    /\ MutexInit
    /\ windowStart = 0
    /\ prevCount   = 0
    /\ currCount   = 0

Next ==
    \/ Advance /\ UNCHANGED windowVars
    \/ \E p \in Procs :
        \/ Enter(p) /\ UNCHANGED windowVars
        \/ EnterNothing(p) /\ UNCHANGED windowVars
        \/ Acquire(p) /\ UNCHANGED windowVars
        \/ Count(p)
        \/ Deny(p)

Spec == Init /\ [][Next]_vars

--------------------------------------------------------------------------------
TypeOK ==
    /\ MutexTypeOK
    /\ windowStart \in Time
    /\ prevCount \in Nat
    /\ currCount \in Nat

(* Units admitted at or after time s; before the construction nothing was. *)
AdmittedSince(s) ==
    IF s < 0 THEN since[0] ELSE IF s > Horizon THEN 0 ELSE since[s]

(* The counters are rolled forward only when somebody calls, and are exact *)
(* all the same: they hold what was admitted in the current and in the     *)
(* previous fixed window, on a grid anchored at the construction           *)
(* (slidingwindow.go:82-95).                                               *)
LazyRolloverIsExact ==
    /\ windowStart % Window = 0
    /\ currCount = AdmittedSince(windowStart)
    /\ prevCount = AdmittedSince(windowStart - Window) - currCount

(* The elapsed time of a decision is not negative and the window it rolls  *)
(* to contains it, so the overlap is a fraction of one                     *)
(* (slidingwindow.go:94-99).                                               *)
OverlapIsFraction ==
    \A p \in Procs : pc[p] = "holding"
        => /\ windowStart <= now[p]
           /\ now[p] - StartAt(now[p]) \in 0 .. Window - 1

(* The share of a full previous window that the estimate may have dropped  *)
(* while a unit admitted at its last tick is still in the trailing window. *)
DroppedShare == IF Window > 1 THEN Window - 2 ELSE 0

(* Window times the limit with its slack, and the whole units one fixed    *)
(* window admits within it                                                 *)
Allowance == IF Limit > 0 THEN Window * Limit + AdmitEpsilon ELSE 0
Quota     == Allowance \div Window

(* What the O(1) approximation does guarantee: a trailing window           *)
(* (now - Window, now] admits the limit, the slack, and the dropped share  *)
(* of a full previous window (slidingwindow.go:19-23, 97-102).             *)
TrailingOvershootBounded ==
    \A s \in Time : s <= clock /\ clock < s + Window
        => Window * AdmittedSince(s) <= Allowance + Quota * DroppedShare
================================================================================
