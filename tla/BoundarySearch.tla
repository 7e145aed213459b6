--------------------------- MODULE BoundarySearch ---------------------------
(***************************************************************************)
(* The boundary search every venue runs on its quote function              *)
(* (src/trading_venue/bounds.rs): a coarse exponential search for a first   *)
(* usable amount and for a first unusable amount above it, then a binary    *)
(* refinement of both brackets.  One action is one probe of the quote       *)
(* function, that is one iteration of one of the four loops.                *)
(*                                                                          *)
(* The search is run on one curve, the quote function `f' of a venue that   *)
(* find_boundaries borrows immutably: f(c, x) is the answer of curve c to a  *)
(* quote of x.  Amounts are u64 in the code; MaxAmount stands for u64::MAX. *)
(***************************************************************************)
EXTENDS Integers

CONSTANTS
    MaxAmount,  \* u64::MAX
    Tolerance,  \* width at which the refinement loops stop: 100 in the code
    Curves,     \* the quote functions the search is run on
    f(_, _)     \* f(c, x): what curve c answers when x is quoted

Amount == 0 .. MaxAmount

\* Result<QuoteResult, TradingVenueError> as the search reads it.
QuoteOutcome ==
    [ok: BOOLEAN, not_enough_liquidity: BOOLEAN, expected_output: Nat]

ASSUME MaxAmountAssumption == MaxAmount \in Nat /\ MaxAmount >= 2
ASSUME ToleranceAssumption == Tolerance \in Nat /\ Tolerance >= 2
ASSUME CurvesAssumption ==
    \A c \in Curves, x \in Amount : f(c, x) \in QuoteOutcome

VARIABLES
    curve,                    \* the curve being searched
    pc,                       \* which loop the search is in
    lower_low, lower_high,    \* bracket of the first valid amount
    upper_low, upper_high,    \* bracket of the first invalid amount above
    outcome                   \* what find_boundaries returned

vars == <<curve, pc, lower_low, lower_high, upper_low, upper_high, outcome>>

Phases == {"expandLower", "expandUpper", "classify", "refineLower",
           "refineUpper", "done"}
Outcomes == {"pending", "Ok", "BoundarySearchFailed", "NoQuotableValue"}

-----------------------------------------------------------------------------
valid_quote(q) == ~(q.not_enough_liquidity \/ q.expected_output = 0)

\* Both loops treat an error as an invalid quote.
Valid(x) == f(curve, x).ok /\ valid_quote(f(curve, x))

\* Deliberate errors: the multiplication does not saturate; the factor is 4.
ScaleUnsaturated(x) == 2 * x
ScaleByFour(x) == IF 4 * x > MaxAmount THEN MaxAmount ELSE 4 * x

\* u64::saturating_mul(SCALING_FACTOR)
Scale(x) == IF 2 * x > MaxAmount THEN MaxAmount ELSE 2 * x

\* Both halves are rounded down, so that the sum cannot overflow.
Mid(low, high) == (high \div 2) + (low \div 2)

\* Deliberate errors: the refinement runs to the last atom, or stops early.
WideToTheAtom(low, high) == high - low > 1
WideTooCoarse(low, high) == high - low > 4 * Tolerance

Wide(low, high) == high - low > Tolerance

-----------------------------------------------------------------------------
Init ==
    /\ curve \in Curves
    /\ pc = "expandLower"
    /\ lower_low = 0
    /\ lower_high = 1
    /\ upper_low = 0
    /\ upper_high = 0
    /\ outcome = "pending"

\* The end of phase 1 and the set-up of phase 2: `low' is the lower_high that
\* phase 1 ended with.  A saturated bracket skips the second loop.
EnterUpper(low) ==
    /\ upper_low' = low
    /\ IF Scale(low) <= low
         THEN upper_high' = low        /\ pc' = "classify"
         ELSE upper_high' = Scale(low) /\ pc' = "expandUpper"

\* find_boundaries_coarse, phase 1: the probe of lower_high is usable.
LowerFound ==
    /\ pc = "expandLower"
    /\ Valid(lower_high)
    /\ EnterUpper(lower_high)
    /\ UNCHANGED <<curve, lower_low, lower_high, outcome>>

\* Phase 1: it is not, so the bracket doubles, or the search gives up at
\* u64::MAX.
LowerDouble ==
    /\ pc = "expandLower"
    /\ ~Valid(lower_high)
    /\ lower_low' = lower_high
    /\ LET next == Scale(lower_high)
       IN  IF next <= lower_high \/ next = MaxAmount
             THEN lower_high' = MaxAmount /\ EnterUpper(MaxAmount)
             ELSE /\ lower_high' = next
                  /\ UNCHANGED <<pc, upper_low, upper_high>>
    /\ UNCHANGED <<curve, outcome>>

\* Phase 2: the probe of upper_high is unusable or an error.
UpperFound ==
    /\ pc = "expandUpper"
    /\ ~Valid(upper_high)
    /\ pc' = "classify"
    /\ UNCHANGED <<curve, lower_low, lower_high, upper_low, upper_high, outcome>>

\* Phase 2: it is usable; u64::MAX itself is not probed after a doubling.
UpperDouble ==
    /\ pc = "expandUpper"
    /\ Valid(upper_high)
    /\ upper_low' = upper_high
    /\ LET next == Scale(upper_high)
       IN  IF next <= upper_high \/ next = MaxAmount
             THEN upper_high' = MaxAmount /\ pc' = "classify"
             ELSE upper_high' = next      /\ UNCHANGED pc
    /\ UNCHANGED <<curve, lower_low, lower_high, outcome>>

\* Deliberate error: an unusable pool goes on to the refinement.
CoarseOutcomeUnchecked ==
    IF lower_low = upper_high THEN "BoundarySearchFailed" ELSE "pending"

\* find_boundaries: the two error returns that follow the coarse search.
CoarseOutcome ==
    CASE lower_low = upper_high                             -> "BoundarySearchFailed"
      [] lower_low # upper_high /\ lower_high = MaxAmount   -> "NoQuotableValue"
      [] OTHER                                              -> "pending"

Classify ==
    /\ pc = "classify"
    /\ outcome' = CoarseOutcome
    /\ pc' = IF CoarseOutcome = "pending" THEN "refineLower" ELSE "done"
    /\ UNCHANGED <<curve, lower_low, lower_high, upper_low, upper_high>>

\* refine_lower: one iteration, or the exit that leaves the bound in lower_high.
RefineLower ==
    /\ pc = "refineLower"
    /\ LET mid == Mid(lower_low, lower_high)
       IN  \/ /\ ~Wide(lower_low, lower_high)
              /\ pc' = "refineUpper"
              /\ UNCHANGED <<lower_low, lower_high>>
           \/ /\ Wide(lower_low, lower_high)
              /\ \/ Valid(mid)  /\ lower_high' = mid /\ UNCHANGED lower_low
                 \/ ~Valid(mid) /\ lower_low' = mid  /\ UNCHANGED lower_high
              /\ UNCHANGED pc
    /\ UNCHANGED <<curve, upper_low, upper_high, outcome>>

\* refine_upper: one iteration, or the exit that leaves the bound in upper_low
\* and ends find_boundaries with Ok((lower_high, upper_low)).
RefineUpper ==
    /\ pc = "refineUpper"
    /\ LET mid == Mid(upper_low, upper_high)
       IN  \/ /\ ~Wide(upper_low, upper_high)
              /\ pc' = "done" /\ outcome' = "Ok"
              /\ UNCHANGED <<upper_low, upper_high>>
           \/ /\ Wide(upper_low, upper_high)
              /\ \/ Valid(mid)  /\ upper_low' = mid  /\ UNCHANGED upper_high
                 \/ ~Valid(mid) /\ upper_high' = mid /\ UNCHANGED upper_low
              /\ UNCHANGED <<pc, outcome>>
    /\ UNCHANGED <<curve, lower_low, lower_high>>

Next ==
    \/ LowerFound \/ LowerDouble
    \/ UpperFound \/ UpperDouble
    \/ Classify
    \/ RefineLower \/ RefineUpper

Spec == Init /\ [][Next]_vars

\* The search is a synchronous call on one thread: it keeps running.
FairSpec == Spec /\ WF_vars(Next)

-----------------------------------------------------------------------------
lower_bound == lower_high
upper_bound == upper_low

\* Every bracket end is a u64, also when a doubling would overflow.
TypeOK ==
    /\ curve \in Curves
    /\ pc \in Phases
    /\ lower_low \in Amount /\ lower_high \in Amount
    /\ upper_low \in Amount /\ upper_high \in Amount
    /\ outcome \in Outcomes

\* No unusable amount lies between two usable ones.
Contiguous ==
    \A z \in Amount : \/ Valid(z)
                      \/ \A x \in 0 .. z : ~Valid(x)
                      \/ \A y \in z .. MaxAmount : ~Valid(y)

\* The brackets handed to refine_lower and refine_upper are what those
\* functions' sanity checks log an error about (bounds.rs:140-161, 201-224),
\* and stay so while they are halved: the low end of the first and the high
\* end of the second are unusable (0 and u64::MAX are not probed), the other
\* two ends are usable.
SearchInvariant ==
    pc \in {"refineLower", "refineUpper", "done"} /\ outcome \in {"pending", "Ok"} =>
        /\ lower_low = 0 \/ ~Valid(lower_low)
        /\ Valid(lower_high)
        /\ Valid(upper_low)
        /\ upper_high = MaxAmount \/ ~Valid(upper_high)

\* Ok((lower_bound, upper_bound)) is a range whose two ends both quote.
BoundsQuote ==
    outcome = "Ok" =>
        Valid(lower_bound) /\ Valid(upper_bound) /\ lower_bound <= upper_bound

\* On a contiguous curve each bound misses the true end of the quotable range
\* by no more than the refinement tolerance, so that what routing loses is at
\* most 2 * Tolerance atoms.
BoundsTight ==
    outcome = "Ok" /\ Contiguous =>
        \A x \in Amount \ {0} : Valid(x) =>
            lower_bound - Tolerance <= x /\ x <= upper_bound + Tolerance

\* A contiguous quotable range whose largest amount is at least twice its
\* smallest one is never reported as an unusable pool.
WideRangeFound ==
    pc = "done" /\ Contiguous /\ outcome # "Ok" =>
        \A x, y \in Amount : 0 < x /\ 2 * x <= y => ~(Valid(x) /\ Valid(y))

\* The check "Search boundaries are all equal; search space collapsed"
\* (bounds.rs:264) never fires: an unusable pool ends in NoQuotableValue.
NeverCollapses == outcome # "BoundarySearchFailed"

\* Every iteration of a refinement loop makes its bracket strictly narrower,
\* although mid = high/2 + low/2 rounds down twice.
BracketNarrows ==
    [][/\ pc = "refineLower" /\ pc' = "refineLower"
            => lower_high' - lower_low' < lower_high - lower_low
       /\ pc = "refineUpper" /\ pc' = "refineUpper"
            => upper_high' - upper_low' < upper_high - upper_low]_vars

\* The search ends on every curve.
Terminates == <>(pc = "done")

-----------------------------------------------------------------------------
(* What the documentation of find_boundaries promises and the code does not  *)
(* keep.                                                                     *)

\* bounds.rs:257: "`NoQuotableValue` if no valid quote exists at any input
\* (pool unusable)".
DocNoQuotableValue ==
    outcome = "NoQuotableValue" => \A x \in Amount : ~Valid(x)

=============================================================================
