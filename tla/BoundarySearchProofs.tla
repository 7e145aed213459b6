------------------------ MODULE BoundarySearchProofs ------------------------
(***************************************************************************)
(* Proofs about the boundary search, for every width of the integers, every *)
(* tolerance of at least 2 and every quote function.                        *)
(***************************************************************************)
EXTENDS BoundarySearch, TLAPS

\* The coarse search probes 1, 2, 4, ... and everything it passed is unusable.
ExpandLowerInv ==
    pc = "expandLower" =>
        /\ outcome = "pending"
        /\ \/ lower_low = 0 /\ lower_high = 1
           \/ lower_high = 2 * lower_low /\ ~Valid(lower_low)
        /\ 0 < lower_high /\ lower_high < MaxAmount

\* From phase 2 on: the brackets are ordered, and phase 1 either gave up at
\* MaxAmount or left a lower bracket with a usable upper end.
BracketInv ==
    pc # "expandLower" =>
        /\ lower_low < lower_high
        /\ lower_high <= upper_low
        /\ upper_low <= upper_high
        /\ lower_low = 0 \/ ~Valid(lower_low)
        /\ lower_high # MaxAmount => Valid(lower_high) /\ Valid(upper_low)
        /\ lower_high = MaxAmount => pc = "classify" \/ outcome = "NoQuotableValue"

\* What each phase after the coarse search adds.
PhaseInv ==
    /\ pc = "expandUpper" => upper_low < upper_high
    /\ pc \in {"classify", "refineLower", "refineUpper", "done"} =>
           upper_high = MaxAmount \/ ~Valid(upper_high)
    /\ pc \in {"refineUpper", "done"} /\ outcome # "NoQuotableValue" =>
           ~Wide(lower_low, lower_high)
    /\ outcome = "Ok" => ~Wide(upper_low, upper_high)
    /\ outcome # "pending" <=> pc = "done"
    /\ outcome = "NoQuotableValue" => lower_high = MaxAmount
    /\ outcome # "BoundarySearchFailed"

IInv == TypeOK /\ ExpandLowerInv /\ BracketInv /\ PhaseInv

\* A usable pair a factor two apart, on a contiguous curve.
WidePair(x, y) ==
    /\ Contiguous
    /\ x \in Amount /\ y \in Amount
    /\ 0 < x /\ 2 * x <= y
    /\ Valid(x) /\ Valid(y)

\* Doubling cannot step over a wide range.
WideInv ==
    \A x, y : WidePair(x, y) =>
        /\ pc = "expandLower" => lower_low < x
        /\ pc # "expandLower" => lower_high # MaxAmount

-----------------------------------------------------------------------------
\* Between two usable amounts of a contiguous curve every amount is usable.
LEMMA Convexity ==
    ASSUME Contiguous, NEW x \in Amount, NEW y \in Amount, NEW z \in Amount,
           x <= z, z <= y, Valid(x), Valid(y), MaxAmount \in Nat
    PROVE  Valid(z)
  <1>1. x \in 0 .. z /\ y \in z .. MaxAmount
    BY DEF Amount
  <1> QED BY <1>1 DEF Contiguous

\* saturating_mul grows every amount that is neither 0 nor u64::MAX.
LEMMA ScaleGrows ==
    ASSUME NEW x \in Amount, 0 < x, x < MaxAmount
    PROVE  /\ Scale(x) \in Amount
           /\ x < Scale(x)
           /\ Scale(x) # MaxAmount => Scale(x) = 2 * x
           /\ Scale(x) <= 2 * x
           /\ 2 * x <= MaxAmount => Scale(x) = 2 * x
  BY MaxAmountAssumption DEF Scale, Amount

\* The midpoint of a bracket wider than the tolerance lies strictly inside it.
LEMMA MidInside ==
    ASSUME NEW low \in Amount, NEW high \in Amount, Wide(low, high)
    PROVE  /\ Mid(low, high) \in Amount
           /\ low < Mid(low, high) /\ Mid(low, high) < high
  BY MaxAmountAssumption, ToleranceAssumption DEF Mid, Wide, Amount

\* The search starts with its invariant.
LEMMA InitIInv == Init => IInv
  BY MaxAmountAssumption
  DEF Init, IInv, TypeOK, ExpandLowerInv, BracketInv, PhaseInv, Phases,
      Outcomes, Amount

\* Every probe, and stuttering, preserves the invariant.
LEMMA NextIInv == IInv /\ [Next]_vars => IInv'
  <1> SUFFICES ASSUME IInv, [Next]_vars PROVE IInv'
    OBVIOUS
  <1> USE MaxAmountAssumption DEF IInv, TypeOK, ExpandLowerInv, BracketInv, PhaseInv
  <1>1. CASE LowerFound
    <2>1. /\ Scale(lower_high) \in Amount /\ lower_high < Scale(lower_high)
      BY <1>1, ScaleGrows DEF LowerFound
    <2>2. /\ pc' = "expandUpper" /\ upper_low' = lower_high
          /\ upper_high' = Scale(lower_high)
      BY <1>1, <2>1 DEF LowerFound, EnterUpper, Amount
    <2> QED BY <1>1, <2>1, <2>2 DEF LowerFound, Valid, Phases, Outcomes, Amount, Wide
  <1>2. CASE LowerDouble
    <2>1. /\ Scale(lower_high) \in Amount /\ lower_high < Scale(lower_high)
          /\ Scale(lower_high) # MaxAmount => Scale(lower_high) = 2 * lower_high
      BY <1>2, ScaleGrows DEF LowerDouble
    <2>2. CASE Scale(lower_high) = MaxAmount
      <3>1. Scale(MaxAmount) = MaxAmount
        BY DEF Scale
      <3>2. /\ lower_low' = lower_high /\ lower_high' = MaxAmount
            /\ upper_low' = MaxAmount /\ upper_high' = MaxAmount
            /\ pc' = "classify" /\ curve' = curve /\ outcome' = outcome
        BY <1>2, <2>2, <3>1 DEF LowerDouble, EnterUpper
      <3> QED BY <1>2, <2>1, <3>2 DEF LowerDouble, Valid, Phases, Outcomes, Amount, Wide
    <2>3. CASE Scale(lower_high) # MaxAmount
      <3>1. /\ lower_low' = lower_high /\ lower_high' = 2 * lower_high
            /\ pc' = pc /\ upper_low' = upper_low /\ upper_high' = upper_high
            /\ curve' = curve /\ outcome' = outcome
        BY <1>2, <2>1, <2>3 DEF LowerDouble, Amount
      <3> QED BY <1>2, <2>1, <2>3, <3>1 DEF LowerDouble, Valid, Phases, Outcomes, Amount, Wide
    <2> QED BY <2>2, <2>3
  <1>3. CASE UpperFound
    BY <1>3 DEF UpperFound, Valid, Phases, Outcomes, Amount, Wide
  <1>4. CASE UpperDouble
    <2>1. CASE upper_high = MaxAmount
      BY <1>4, <2>1 DEF UpperDouble, Scale, Valid, Phases, Outcomes, Amount, Wide
    <2>2. CASE upper_high # MaxAmount
      <3>1. upper_high \in Amount /\ 0 < upper_high /\ upper_high < MaxAmount
        BY <1>4, <2>2 DEF UpperDouble, Amount
      <3>2. Scale(upper_high) \in Amount /\ upper_high < Scale(upper_high)
        BY <3>1, ScaleGrows
      <3> QED BY <1>4, <3>1, <3>2 DEF UpperDouble, Valid, Phases, Outcomes, Amount, Wide
    <2> QED BY <2>1, <2>2
  <1>5. CASE Classify
    <2>1. lower_low # upper_high
      BY <1>5 DEF Classify, Amount
    <2>2. CASE lower_high = MaxAmount
      <3>1. pc' = "done" /\ outcome' = "NoQuotableValue"
        BY <1>5, <2>1, <2>2 DEF Classify, CoarseOutcome
      <3> QED BY <1>5, <2>2, <3>1 DEF Classify, Valid, Phases, Outcomes, Amount, Wide
    <2>3. CASE lower_high # MaxAmount
      <3>1. pc' = "refineLower" /\ outcome' = "pending"
        BY <1>5, <2>1, <2>3 DEF Classify, CoarseOutcome
      <3> QED BY <1>5, <2>3, <3>1 DEF Classify, Valid, Phases, Outcomes, Amount, Wide
    <2> QED BY <2>2, <2>3
  <1>6. CASE RefineLower
    <2>1. CASE ~Wide(lower_low, lower_high)
      BY <1>6, <2>1 DEF RefineLower, Valid, Phases, Outcomes, Wide
    <2>2. CASE Wide(lower_low, lower_high)
      <3> DEFINE mid == Mid(lower_low, lower_high)
      <3>1. mid \in Amount /\ lower_low < mid /\ mid < lower_high
        BY <2>2, MidInside
      <3> HIDE DEF mid
      <3>2. /\ \/ Valid(mid) /\ lower_high' = mid /\ lower_low' = lower_low
               \/ ~Valid(mid) /\ lower_low' = mid /\ lower_high' = lower_high
            /\ pc' = pc /\ pc = "refineLower"
            /\ UNCHANGED <<curve, upper_low, upper_high, outcome>>
        BY <1>6, <2>2 DEF RefineLower, mid
      <3> QED BY <3>1, <3>2 DEF Valid, Phases, Outcomes, Amount, Wide
    <2> QED BY <2>1, <2>2
  <1>7. CASE RefineUpper
    <2>1. CASE ~Wide(upper_low, upper_high)
      BY <1>7, <2>1 DEF RefineUpper, Valid, Phases, Outcomes, Wide
    <2>2. CASE Wide(upper_low, upper_high)
      <3> DEFINE mid == Mid(upper_low, upper_high)
      <3>1. mid \in Amount /\ upper_low < mid /\ mid < upper_high
        BY <2>2, MidInside
      <3> HIDE DEF mid
      <3>2. /\ \/ Valid(mid) /\ upper_low' = mid /\ upper_high' = upper_high
               \/ ~Valid(mid) /\ upper_high' = mid /\ upper_low' = upper_low
            /\ pc' = pc /\ pc = "refineUpper"
            /\ UNCHANGED <<curve, lower_low, lower_high, outcome>>
        BY <1>7, <2>2 DEF RefineUpper, mid
      <3> QED BY <3>1, <3>2 DEF Valid, Phases, Outcomes, Amount, Wide
    <2> QED BY <2>1, <2>2
  <1>8. CASE UNCHANGED vars
    BY <1>8 DEF vars, Valid, Wide
  <1> QED BY <1>1, <1>2, <1>3, <1>4, <1>5, <1>6, <1>7, <1>8 DEF Next

-----------------------------------------------------------------------------
\* The inductive invariant holds throughout the search.
THEOREM SearchIInv == Spec => []IInv
  <1>1. Init => IInv
    BY InitIInv
  <1>2. IInv /\ [Next]_vars => IInv'
    BY NextIInv
  <1> QED BY <1>1, <1>2, PTL DEF Spec

\* Type correctness of the search state: no probe leaves the u64 range.
THEOREM TypeCorrect == Spec => []TypeOK
  <1>1. IInv => TypeOK
    BY DEF IInv
  <1> QED BY <1>1, SearchIInv, PTL

\* The sanity checks of refine_lower and refine_upper never log an error.
THEOREM SearchInvariantHolds == Spec => []SearchInvariant
  <1>1. IInv => SearchInvariant
    BY DEF IInv, TypeOK, BracketInv, PhaseInv, SearchInvariant
  <1> QED BY <1>1, SearchIInv, PTL

\* Whatever the quote function, an Ok result is an ordered pair of usable
\* amounts.
THEOREM BoundsQuoteHolds == Spec => []BoundsQuote
  <1>1. IInv => BoundsQuote
    BY DEF IInv, TypeOK, BracketInv, PhaseInv, BoundsQuote, lower_bound, upper_bound
  <1> QED BY <1>1, SearchIInv, PTL

\* The collapsed-search error is dead code.
THEOREM NeverCollapsesHolds == Spec => []NeverCollapses
  <1>1. IInv => NeverCollapses
    BY DEF IInv, PhaseInv, NeverCollapses
  <1> QED BY <1>1, SearchIInv, PTL

\* On a contiguous curve no usable amount is further than Tolerance outside
\* the returned bounds.
THEOREM BoundsTightHolds == Spec => []BoundsTight
  <1>1. IInv => BoundsTight
    <2> SUFFICES ASSUME IInv, outcome = "Ok", Contiguous,
                        NEW x \in Amount \ {0}, Valid(x)
                 PROVE  lower_high - Tolerance <= x /\ x <= upper_low + Tolerance
      BY DEF BoundsTight, lower_bound, upper_bound
    <2> USE MaxAmountAssumption, ToleranceAssumption
        DEF IInv, TypeOK, BracketInv, PhaseInv
    <2>1. lower_high - Tolerance <= x
      <3> SUFFICES ASSUME x < lower_high - Tolerance PROVE FALSE
        BY DEF Amount
      <3>1. x <= lower_low /\ lower_low <= lower_high /\ lower_low # 0
        BY DEF Wide, Amount
      <3>2. Valid(lower_low)
        BY <3>1, Convexity
      <3> QED BY <3>1, <3>2
    <2>2. x <= upper_low + Tolerance
      <3> SUFFICES ASSUME upper_low + Tolerance < x PROVE FALSE
        BY DEF Amount
      <3>1. /\ upper_high <= x /\ upper_low <= upper_high /\ upper_high # MaxAmount
            /\ Valid(upper_low) /\ x \in Amount
        BY DEF Wide, Amount
      <3>2. Valid(upper_high)
        BY <3>1, Convexity
      <3> QED BY <3>1, <3>2
    <2> QED BY <2>1, <2>2
  <1> QED BY <1>1, SearchIInv, PTL

\* Doubling never steps over a range that spans a factor of two.
LEMMA NextWideInv == IInv /\ WideInv /\ [Next]_vars => WideInv'
  <1> SUFFICES ASSUME IInv, WideInv, [Next]_vars,
                      NEW x, NEW y, WidePair(x, y)'
               PROVE  /\ pc' = "expandLower" => lower_low' < x
                      /\ pc' # "expandLower" => lower_high' # MaxAmount
    BY DEF WideInv
  <1> USE MaxAmountAssumption DEF IInv, TypeOK, ExpandLowerInv, BracketInv, PhaseInv
  <1>0. curve' = curve
    BY DEF Next, LowerFound, LowerDouble, UpperFound, UpperDouble, Classify,
           RefineLower, RefineUpper, vars
  <1>1. WidePair(x, y)
    BY <1>0 DEF WidePair, Contiguous, Valid
  <1>2. /\ pc = "expandLower" => lower_low < x
        /\ pc # "expandLower" => lower_high # MaxAmount
    BY <1>1 DEF WideInv
  <1>3. /\ x \in Amount /\ y \in Amount /\ 0 < x /\ 2 * x <= y
        /\ Valid(x) /\ Valid(y) /\ Contiguous
    BY <1>1 DEF WidePair
  <1>4. CASE LowerFound
    BY <1>4, <1>2 DEF LowerFound, EnterUpper, Amount
  <1>5. CASE LowerDouble
    <2>1. lower_high < x
      <3> SUFFICES ASSUME x <= lower_high PROVE FALSE
        BY <1>3 DEF Amount
      <3>1. lower_high <= y
        BY <1>5, <1>2, <1>3 DEF LowerDouble, Amount
      <3>2. Valid(lower_high)
        BY <1>3, <3>1, Convexity
      <3> QED BY <1>5, <3>2 DEF LowerDouble
    <2>2. 2 * lower_high < MaxAmount
      BY <1>3, <2>1 DEF Amount
    <2>3. /\ Scale(lower_high) = 2 * lower_high
          /\ ~(Scale(lower_high) <= lower_high \/ Scale(lower_high) = MaxAmount)
      BY <1>5, <2>2 DEF LowerDouble, Scale, Amount
    <2>4. lower_low' = lower_high /\ pc' = "expandLower"
      BY <1>5, <2>3 DEF LowerDouble
    <2> QED BY <2>1, <2>4
  <1>6. CASE UpperFound \/ UpperDouble \/ Classify \/ RefineUpper \/ UNCHANGED vars
    BY <1>6, <1>2 DEF UpperFound, UpperDouble, Classify, RefineUpper, vars
  <1>7. CASE RefineLower
    <2>1. CASE ~Wide(lower_low, lower_high)
      BY <1>7, <2>1, <1>2 DEF RefineLower
    <2>2. CASE Wide(lower_low, lower_high)
      <3>1. Mid(lower_low, lower_high) < lower_high
        BY <2>2, MidInside
      <3> QED BY <1>7, <2>2, <3>1, <1>2, MidInside DEF RefineLower, Amount
    <2> QED BY <2>1, <2>2
  <1> QED BY <1>4, <1>5, <1>6, <1>7 DEF Next

\* Doubling always hits a quotable range that spans a factor of two: such a
\* pool is never reported as unusable by find_boundaries.
THEOREM WideRangeFoundHolds == Spec => []WideRangeFound
  <1>1. Init => WideInv
    BY DEF Init, WideInv, WidePair
  <1>2. IInv /\ WideInv => WideRangeFound
    <2> SUFFICES ASSUME IInv, WideInv, pc = "done", Contiguous, outcome # "Ok",
                        NEW x \in Amount, NEW y \in Amount,
                        0 < x, 2 * x <= y, Valid(x), Valid(y)
                 PROVE  FALSE
      BY DEF WideRangeFound
    <2>1. WidePair(x, y)
      BY DEF WidePair
    <2>2. lower_high # MaxAmount
      BY <2>1 DEF WideInv
    <2> QED BY <2>2 DEF IInv, TypeOK, PhaseInv, Outcomes
  <1> QED BY <1>1, <1>2, NextWideInv, SearchIInv, PTL DEF Spec

\* Every iteration of the refinement loops narrows its bracket: with the
\* fairness of a running thread this is why the search ends.
THEOREM BracketNarrowsHolds == Spec => BracketNarrows
  <1>1. IInv /\ [Next]_vars =>
          [/\ pc = "refineLower" /\ pc' = "refineLower"
                => lower_high' - lower_low' < lower_high - lower_low
           /\ pc = "refineUpper" /\ pc' = "refineUpper"
                => upper_high' - upper_low' < upper_high - upper_low]_vars
    <2> SUFFICES ASSUME IInv, Next
                 PROVE  /\ pc = "refineLower" /\ pc' = "refineLower"
                            => lower_high' - lower_low' < lower_high - lower_low
                        /\ pc = "refineUpper" /\ pc' = "refineUpper"
                            => upper_high' - upper_low' < upper_high - upper_low
      OBVIOUS
    <2> USE MaxAmountAssumption DEF IInv, TypeOK
    <2>1. ASSUME pc = "refineLower", pc' = "refineLower"
          PROVE  lower_high' - lower_low' < lower_high - lower_low
      <3>1. RefineLower
        BY <2>1 DEF Next, LowerFound, LowerDouble, UpperFound, UpperDouble,
                    Classify, RefineUpper
      <3>2. Wide(lower_low, lower_high)
        BY <2>1, <3>1 DEF RefineLower
      <3> QED BY <3>1, <3>2, MidInside DEF RefineLower, Amount
    <2>2. ASSUME pc = "refineUpper", pc' = "refineUpper"
          PROVE  upper_high' - upper_low' < upper_high - upper_low
      <3>1. RefineUpper
        BY <2>2 DEF Next, LowerFound, LowerDouble, UpperFound, UpperDouble,
                    Classify, RefineLower
      <3>2. Wide(upper_low, upper_high)
        BY <2>2, <3>1 DEF RefineUpper
      <3> QED BY <3>1, <3>2, MidInside DEF RefineUpper, Amount
    <2> QED BY <2>1, <2>2
  <1> QED BY <1>1, SearchIInv, PTL DEF Spec, BracketNarrows
=============================================================================
