----------------------------- MODULE PriceParts -----------------------------
(***************************************************************************)
(* The price tables of a venue (src/your_venue/mod.rs): price_parts builds   *)
(* the table of one direction from the bounds and the quote function, and    *)
(* quote looks the price of an amount up in it.  One action is one iteration *)
(* of one of the three loops of price_parts.                                 *)
(*                                                                          *)
(* Prices are exact fractions [num, den], f64 in the code: the rounding of   *)
(* the division is left out.                                                *)
(***************************************************************************)
EXTENDS Integers, Sequences, SequencesExt

CONSTANTS
    Amounts,      \* amounts, 0 up to a largest; u64 in the code
    PRICE_FLOOR,  \* 100_000 in the code
    Curves        \* quote functions: amount -> output, or None

None == -1

ASSUME AmountsAssumption == Amounts \subseteq Nat /\ \A a \in Amounts : 0 .. a \subseteq Amounts
ASSUME FloorAssumption == PRICE_FLOOR \in Nat
ASSUME CurvesAssumption == \A q \in Curves : q \in [Amounts -> Nat \cup {None}]

VARIABLES
    quote,      \* the quote function of the direction
    lb, ub,     \* its bounds
    pc,         \* which loop
    c,          \* the halved amount
    edges,      \* the Vec of edges; sorted and deduplicated after the first loop
    w,          \* index of the current window
    parts,      \* the table: <<amount, price>> in ascending order of amount
    i           \* index of the smoothing loop, counting down

vars == <<quote, lb, ub, pc, c, edges, w, parts, i>>

-----------------------------------------------------------------------------
\* a < b for fractions with positive denominators
Less(p, r) == p.num * r.den < r.num * p.den
Zero == [num |-> 0, den |-> 1]

\* find_boundaries returns two amounts that quote, in order (BoundsQuote); a
\* direction without bounds has no table.
Bounds(q) == {b \in Amounts \X Amounts : b[1] <= b[2] /\ q[b[1]] > 0 /\ q[b[2]] > 0}

\* Some((lb, ub)) and the early return for ub <= lb.
Init ==
    /\ quote \in Curves
    /\ \E b \in Bounds(quote) :
          /\ lb = b[1] /\ ub = b[2]
          /\ c = ub
          /\ edges = <<ub>>
          /\ pc = IF ub <= lb THEN "done" ELSE "halve"
    /\ w = 1 /\ parts = <<>> /\ i = 0

\* edges.sort_unstable(); edges.dedup(): the same elements, in ascending order
\* and each of them once.
Ascending(s) == \A j, k \in DOMAIN s : j < k => s[j] < s[k]
Sorted(s) == CHOOSE t \in SeqOf(ToSet(s), Len(s)) : ToSet(t) = ToSet(s) /\ Ascending(t)

\* Deliberate errors: the loop runs below the lower bound; it waits at an
\* amount that does not quote.
HalveBelow ==
    /\ pc = "halve"
    /\ IF c \div 2 > PRICE_FLOOR
         THEN c' = c \div 2 /\ edges' = Append(edges, c \div 2) /\ UNCHANGED pc
         ELSE edges' = Sorted(Append(edges, lb)) /\ pc' = "windows" /\ UNCHANGED c
    /\ UNCHANGED <<quote, lb, ub, w, parts, i>>

HalveWaits ==
    /\ pc = "halve"
    /\ IF c \div 2 > PRICE_FLOOR /\ c \div 2 > lb
         THEN /\ c' = IF quote[c \div 2] = None THEN c ELSE c \div 2
              /\ edges' = IF c' = c THEN edges ELSE Append(edges, c')
              /\ UNCHANGED pc
         ELSE edges' = Sorted(Append(edges, lb)) /\ pc' = "windows" /\ UNCHANGED c
    /\ UNCHANGED <<quote, lb, ub, w, parts, i>>

\* One iteration of the first loop, or its end.
Halve ==
    /\ pc = "halve"
    /\ \/ /\ c \div 2 > PRICE_FLOOR /\ c \div 2 > lb
          /\ c' = c \div 2
          /\ edges' = Append(edges, c \div 2)
          /\ UNCHANGED pc
       \/ /\ ~(c \div 2 > PRICE_FLOOR /\ c \div 2 > lb)
          /\ edges' = Sorted(Append(edges, lb))
          /\ pc' = "windows"
          /\ UNCHANGED c
    /\ UNCHANGED <<quote, lb, ub, w, parts, i>>

Rising(a, b) == quote[a] # None /\ quote[b] # None /\ quote[b] > quote[a]
Slope(a, b) == [num |-> quote[b] - quote[a], den |-> b - a]

\* Deliberate error: windows in which the output does not rise are entered too.
WindowFlatToo ==
    /\ pc = "windows" /\ w < Len(edges)
    /\ parts' = Append(parts, [at |-> edges[w], price |-> Slope(edges[w], edges[w + 1])])
    /\ w' = w + 1
    /\ UNCHANGED <<quote, lb, ub, pc, c, edges, i>>

\* One window (a, b) of the sorted edges.
Window ==
    /\ pc = "windows" /\ w < Len(edges)
    /\ LET a == edges[w]
           b == edges[w + 1]
       IN  parts' = IF Rising(a, b)
                      THEN Append(parts, [at |-> a, price |-> Slope(a, b)])
                      ELSE parts
    /\ w' = w + 1
    /\ UNCHANGED <<quote, lb, ub, pc, c, edges, i>>

\* Deliberate error: the smoothing misses the last pair of parts.
StartSmoothLate ==
    /\ pc = "windows" /\ w = Len(edges)
    /\ pc' = "smooth"
    /\ i' = IF Len(parts) < 2 THEN 0 ELSE Len(parts) - 2
    /\ UNCHANGED <<quote, lb, ub, c, edges, w, parts>>

\* The smoothing loop starts at the last part but one.
StartSmooth ==
    /\ pc = "windows" /\ w = Len(edges)
    /\ pc' = "smooth"
    /\ i' = IF parts = <<>> THEN 0 ELSE Len(parts) - 1
    /\ UNCHANGED <<quote, lb, ub, c, edges, w, parts>>

\* A part never has a lower price than the next one.
Smooth ==
    /\ pc = "smooth" /\ i >= 1
    /\ LET next == parts[i + 1].price
       IN  parts' = IF Less(parts[i].price, next)
                      THEN [parts EXCEPT ![i].price = next] ELSE parts
    /\ i' = i - 1
    /\ UNCHANGED <<quote, lb, ub, pc, c, edges, w>>

Finish ==
    /\ pc = "smooth" /\ i = 0
    /\ pc' = "done"
    /\ UNCHANGED <<quote, lb, ub, c, edges, w, parts, i>>

Next == Halve \/ Window \/ StartSmooth \/ Smooth \/ Finish

Spec == Init /\ [][Next]_vars

\* A synchronous call: it keeps running.
FairSpec == Spec /\ WF_vars(Next)

-----------------------------------------------------------------------------
\* Deliberate errors: the first part is taken always; the part after the right
\* one is taken.
PriceFirstMatch(amount) == IF parts = <<>> THEN Zero ELSE parts[1].price
PriceNextPart(amount) ==
    LET above == {j \in 1 .. Len(parts) : parts[j].at > amount}
    IN  IF parts = <<>> THEN Zero
        ELSE IF above = {} THEN parts[Len(parts)].price
        ELSE parts[CHOOSE j \in above : \A k \in above : j <= k].price

\* quote(): the last part that starts at or below the amount, else the first
\* part, else 0.
Price(amount) ==
    LET below == {j \in 1 .. Len(parts) : parts[j].at <= amount}
    IN  IF parts = <<>> THEN Zero
        ELSE IF below = {} THEN parts[1].price
        ELSE parts[CHOOSE j \in below : \A k \in below : k <= j].price

Edges == ToSet(edges)

\* The curve quotes and does not fall from one edge to the next.
Monotone == \A x, y \in Edges : x <= y => quote[x] # None /\ quote[x] <= quote[y]

\* Over lb .. ub the curve quotes everywhere and is concave.
Concave ==
    /\ \A x \in lb .. ub : quote[x] # None
    /\ \A x \in lb + 1 .. ub - 1 : quote[x + 1] - quote[x] <= quote[x] - quote[x - 1]

-----------------------------------------------------------------------------
\* Edges stay between the bounds and parts start at edges; no slope divides by 0.
TypeOK ==
    /\ DOMAIN quote = Amounts /\ lb \in Amounts /\ ub \in Amounts
    /\ pc \in {"halve", "windows", "smooth", "done"}
    /\ c \in lb .. ub
    /\ Edges \subseteq lb .. ub
    /\ w \in 1 .. Len(edges) /\ i \in 0 .. Len(parts)
    /\ \A j \in 1 .. Len(parts) :
           parts[j].at \in Edges /\ parts[j].price \in [num: Nat, den: Nat \ {0}]

\* Whatever the quote function answers, with gaps and falls, the reported
\* price never rises with the amount; and a curve that rises between its bounds
\* has a positive price at every amount.
PriceShape ==
    pc = "done" =>
        /\ \A x, y \in Amounts : x <= y => ~Less(Price(x), Price(y))
        /\ Monotone /\ quote[lb] < quote[ub] => \A x \in Amounts : Less(Zero, Price(x))

\* The mean value requirement, from edge to edge.  The price at an edge is at
\* least the average rate from it to any larger edge: that half survives dropped
\* windows and smoothing.  On a concave curve that rises from edge to edge the
\* table also meets the other half: smoothing changes nothing.
PriceBracketsChords ==
    pc = "done" =>
        \A a, b \in Edges : a < b =>
            /\ Monotone => ~Less(Price(a), Slope(a, b))
            /\ Concave /\ (\A x, y \in Edges : x < y => Rising(x, y))
                 => ~Less(Slope(a, b), Price(b))

\* price_parts ends.
Terminates == <>(pc = "done")
=============================================================================
