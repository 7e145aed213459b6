-------------------------- MODULE PricePartsProofs --------------------------
(***************************************************************************)
(* For every quote function, bounds and floor: price_parts stays within the  *)
(* bounds and never divides by zero, the price it reports never rises with   *)
(* the amount, and at every edge it brackets the average rates to the other  *)
(* edges.                                                                    *)
(***************************************************************************)
EXTENDS PriceParts, WellFoundedInduction, TLAPS

-----------------------------------------------------------------------------
(* Numbers                                                                   *)

\* A non-empty set of natural numbers has a least element.
LEMMA Least ==
    ASSUME NEW T, T \subseteq Nat, T # {}
    PROVE  \E x \in T : \A y \in T : ~(y < x)
  <1> DEFINE R == {ss \in Nat \X Nat : ss[1] < ss[2]}
  <1>1. IsWellFoundedOn(R, Nat)
    BY NatLessThanWellFounded DEF OpToRel
  <1>2. PICK x \in T : \A y \in T : ~(<<y, x>> \in R)
    <2> HIDE DEF R
    <2> QED
      BY <1>1, WFMin
  <1> QED
    BY <1>2

\* A non-empty set of numbers up to n has a greatest element.
LEMMA Greatest ==
    ASSUME NEW n \in Nat, NEW T, T \subseteq 0 .. n, T # {}
    PROVE  \E x \in T : \A y \in T : y <= x
  <1> DEFINE M == {n - x : x \in T}
  <1>1. M \subseteq Nat /\ M # {}
    <2>1. \A x \in T : n - x \in Nat
      OBVIOUS
    <2>2. PICK x \in T : TRUE
      OBVIOUS
    <2>3. n - x \in M
      OBVIOUS
    <2> QED
      BY <2>1, <2>3
  <1>2. PICK m \in M : \A y \in M : ~(y < m)
    <2> HIDE DEF M
    <2> QED
      BY <1>1, Least
  <1>3. PICK x \in T : m = n - x
    OBVIOUS
  <1>4. \A y \in T : n - y \in M /\ y \in 0 .. n
    OBVIOUS
  <1>5. x \in 0 .. n
    OBVIOUS
  <1> HIDE DEF M
  <1>6. \A y \in T : ~(n - y < n - x)
    BY <1>2, <1>3, <1>4
  <1> QED
    BY <1>4, <1>5, <1>6

\* A set that holds m and, with every number below n, the next one, holds all
\* of m .. n.
LEMMA Climbing ==
    ASSUME NEW m \in Nat, NEW n \in Nat, NEW S, m \in S,
           \A t \in m .. n : t < n /\ t \in S => t + 1 \in S
    PROVE  \A t \in m .. n : t \in S
  <1> DEFINE T == {t \in m .. n : t \notin S}
  <1> SUFFICES ASSUME T # {} PROVE FALSE
    OBVIOUS
  <1>1. T \subseteq Nat
    OBVIOUS
  <1>2. PICK x \in T : \A y \in T : ~(y < x)
    <2> HIDE DEF T
    <2> QED
      BY <1>1, Least
  <1>3. x \in m .. n /\ x \notin S /\ x # m
    BY <1>2
  <1>4. x - 1 \in m .. n /\ x - 1 < n /\ x - 1 < x
    BY <1>3
  <1>5. x - 1 \in S
    BY <1>2, <1>4
  <1>6. x \in S
    <2>1. (x - 1) + 1 \in S
      BY <1>4, <1>5
    <2> QED
      BY <1>3, <2>1
  <1> QED
    BY <1>3, <1>6

\* Prices are compared as fractions: not being less is transitive, and of two
\* prices one is not less.
Fraction == [num : Nat, den : Nat \ {0}]

\* Not being less is transitive on them ...
LEMMA NotLessTrans ==
    ASSUME NEW p \in Fraction, NEW q \in Fraction, NEW r \in Fraction, ~Less(p, q), ~Less(q, r)
    PROVE  ~Less(p, r)
  <1> DEFINE a == p.num
             b == p.den
             e == q.num
             f == q.den
             g == r.num
             h == r.den
  <1>1. a \in Nat /\ e \in Nat /\ g \in Nat /\ b \in Nat \ {0} /\ f \in Nat \ {0} /\ h \in Nat \ {0}
    BY DEF Fraction
  <1>2. ~(a * f < e * b) /\ ~(e * h < g * f)
    BY DEF Less
  <1> SUFFICES ~(a * h < g * b)
    BY DEF Less
  <1> HIDE DEF a, b, e, f, g, h
  <1> SUFFICES ASSUME a * h < g * b PROVE FALSE
    OBVIOUS
  <1>3. (a * h) * f < (g * b) * f
    <2> DEFINE u == a * h
               v == g * b
    <2>1. u \in Int /\ v \in Int /\ u < v
      BY <1>1, SMT
    <2> HIDE DEF u, v
    <2>2. u * f < v * f
      BY <1>1, <2>1, SMT
    <2> QED
      BY <2>2 DEF u, v
  <1>4. (e * b) * h <= (a * f) * h
    <2> DEFINE u == e * b
               v == a * f
    <2>1. u \in Int /\ v \in Int
      BY <1>1, SMT
    <2>2. u <= v
      BY <1>2, <2>1
    <2> HIDE DEF u, v
    <2>3. u * h <= v * h
      BY <1>1, <2>1, <2>2, SMT
    <2> QED
      BY <2>3 DEF u, v
  <1>5. (g * f) * b <= (e * h) * b
    <2> DEFINE u == g * f
               v == e * h
    <2>1. u \in Int /\ v \in Int
      BY <1>1, SMT
    <2>2. u <= v
      BY <1>2, <2>1
    <2> HIDE DEF u, v
    <2>3. u * b <= v * b
      BY <1>1, <2>1, <2>2, SMT
    <2> QED
      BY <2>3 DEF u, v
  <1>6. /\ (a * h) * f = (a * f) * h /\ (g * b) * f = (g * f) * b /\ (e * b) * h = (e * h) * b
        /\ (a * f) * h \in Int /\ (g * f) * b \in Int /\ (e * h) * b \in Int
    BY <1>1, SMT
  <1> QED
    BY <1>3, <1>4, <1>5, <1>6

\* ... and of two prices one is not less.
LEMMA NotLessTotal ==
    ASSUME NEW p \in Fraction, NEW q \in Fraction
    PROVE  ~Less(p, p) /\ (Less(p, q) => ~Less(q, p))
  <1>1. /\ p.num * p.den \in Int /\ p.num * q.den \in Int /\ q.num * p.den \in Int
    BY SMT DEF Fraction
  <1> QED
    BY <1>1 DEF Less

-----------------------------------------------------------------------------
(* Sorting                                                                   *)

\* The edges were found in descending order: reversed they are sorted, so a
\* sorted sequence of the same elements exists.
LEMMA SortedFacts ==
    ASSUME NEW s \in Seq(Nat), \A j, k \in 1 .. Len(s) : j < k => s[k] < s[j]
    PROVE  /\ Sorted(s) \in Seq(Nat) /\ ToSet(Sorted(s)) = ToSet(s) /\ Ascending(Sorted(s))
  <1> DEFINE n == Len(s)
             r == [j \in 1 .. n |-> s[n + 1 - j]]
             Good(t) == ToSet(t) = ToSet(s) /\ Ascending(t)
  <1>1. n \in Nat /\ DOMAIN s = 1 .. n /\ \A j \in 1 .. n : s[j] \in Nat
    OBVIOUS
  <1>2. \A j \in 1 .. n : n + 1 - j \in 1 .. n /\ n + 1 - (n + 1 - j) = j
    BY <1>1
  <1>3. r \in [1 .. n -> ToSet(s)]
    BY <1>1, <1>2 DEF ToSet
  <1>4. r \in SeqOf(ToSet(s), Len(s))
    BY <1>1, <1>3 DEF SeqOf
  <1>5. ToSet(r) = ToSet(s)
    <2> HIDE DEF n
    <2>1. ASSUME NEW j \in 1 .. n PROVE \E k \in 1 .. n : s[j] = r[k]
      <3>1. n + 1 - j \in 1 .. n /\ r[n + 1 - j] = s[n + 1 - (n + 1 - j)]
        BY <1>2
      <3> QED
        BY <1>2, <3>1
    <2>2. DOMAIN r = 1 .. n /\ \A k \in 1 .. n : \E j \in 1 .. n : r[k] = s[j]
      BY <1>2
    <2> HIDE DEF r
    <2>3. ToSet(r) = {r[k] : k \in 1 .. n} /\ ToSet(s) = {s[k] : k \in 1 .. n}
      BY <1>1, <2>2 DEF ToSet
    <2>4. ASSUME NEW x \in ToSet(r) PROVE x \in ToSet(s)
      BY <2>2, <2>3
    <2>5. ASSUME NEW x \in ToSet(s) PROVE x \in ToSet(r)
      BY <2>1, <2>3
    <2> QED
      BY <2>4, <2>5
  <1>6. Ascending(r)
    <2> SUFFICES ASSUME NEW j \in 1 .. n, NEW k \in 1 .. n, j < k PROVE r[j] < r[k]
      BY DEF Ascending
    <2>1. n + 1 - k < n + 1 - j
      BY <1>1
    <2> QED
      BY <1>2, <2>1
  <1>7. \E t \in SeqOf(ToSet(s), Len(s)) : Good(t)
    BY <1>4, <1>5, <1>6
  <1>8. Sorted(s) = CHOOSE t \in SeqOf(ToSet(s), Len(s)) : Good(t)
    BY DEF Sorted
  <1> HIDE DEF Good
  <1>9. Sorted(s) \in SeqOf(ToSet(s), Len(s)) /\ Good(Sorted(s))
    BY <1>7, <1>8, Zenon
  <1>10. PICK m \in 0 .. Len(s) : Sorted(s) \in [1 .. m -> ToSet(s)]
    BY <1>9 DEF SeqOf
  <1>11. ToSet(s) \subseteq Nat
    BY <1>1 DEF ToSet
  <1>12. Sorted(s) \in Seq(Nat)
    BY <1>1, <1>10, <1>11
  <1> QED
    BY <1>9, <1>12 DEF Good

-----------------------------------------------------------------------------
(* Concave functions                                                         *)

\* A function whose increments do not grow has chords whose slopes do not grow.
LEMMA ConcaveChords ==
    ASSUME NEW lo \in Nat, NEW hi \in Nat, NEW f, \A t \in lo .. hi : f[t] \in Int,
           \A t \in lo + 1 .. hi - 1 : f[t + 1] - f[t] <= f[t] - f[t - 1],
           NEW x \in lo .. hi, NEW y \in lo .. hi, NEW z \in lo .. hi, x < y, y < z
    PROVE  (f[z] - f[y]) * (y - x) <= (f[y] - f[x]) * (z - y)
  <1> DEFINE D == f[y] - f[y - 1]
             U == {t \in Nat : f[t + 1] - f[t] <= D}
             V == {t \in Nat : f[t] - f[y] <= D * (t - y)}
             P == {u \in Nat : f[y - u] - f[y - u - 1] >= D}
             Q == {u \in Nat : f[y] - f[y - u] >= D * u}
  <1>1. y - 1 \in lo .. hi /\ D \in Int /\ f[y] \in Int /\ f[x] \in Int /\ f[z] \in Int
    <2>1. y - 1 \in lo .. hi
      OBVIOUS
    <2> QED
      BY <2>1
  <1>2. \A t \in y - 1 .. hi - 1 : t \in U
    <2>1. y - 1 \in U
      <3>1. f[(y - 1) + 1] = f[y]
        OBVIOUS
      <3> QED
        BY <1>1, <3>1
    <2>2. ASSUME NEW t \in y - 1 .. hi - 1, t < hi - 1, t \in U
          PROVE  t + 1 \in U
      <3>1. t + 1 \in lo + 1 .. hi - 1 /\ t \in lo .. hi /\ t + 1 \in lo .. hi /\ t + 2 \in lo .. hi
        BY <2>2
      <3>2. f[(t + 1) + 1] - f[t + 1] <= f[t + 1] - f[(t + 1) - 1]
        BY <3>1
      <3>3. f[(t + 1) + 1] = f[t + 2] /\ f[(t + 1) - 1] = f[t]
        BY <3>1
      <3>4. f[t] \in Int /\ f[t + 1] \in Int /\ f[t + 2] \in Int
        BY <3>1
      <3> HIDE DEF D
      <3> QED
        BY <1>1, <2>2, <3>1, <3>2, <3>3, <3>4
    <2>3. y - 1 \in Nat /\ hi - 1 \in Nat
      BY <1>1
    <2> HIDE DEF U
    <2> QED
      BY <2>1, <2>2, <2>3, Climbing
  <1>3. \A t \in y .. hi : t \in V
    <2> HIDE DEF D
    <2>1. y \in V
      <3>1. D * (y - y) = 0
        BY <1>1, SMT
      <3> QED
        BY <1>1, <3>1
    <2>2. ASSUME NEW t \in y .. hi, t < hi, t \in V
          PROVE  t + 1 \in V
      <3>1. f[t] \in Int /\ f[t + 1] \in Int
        BY <2>2
      <3>2. f[t + 1] - f[t] <= D
        BY <1>2, <2>2
      <3>3. D * (t + 1 - y) = D * (t - y) + D /\ D * (t - y) \in Int
        BY <1>1, SMT
      <3> QED
        BY <1>1, <2>2, <3>1, <3>2, <3>3
    <2> HIDE DEF V
    <2>3. y \in Nat
      OBVIOUS
    <2> QED
      BY <2>1, <2>2, <2>3, Climbing
  <1>4. \A u \in 0 .. y - 1 - lo : u \in P
    <2>1. 0 \in P
      <3>1. f[y - 0] = f[y] /\ f[y - 0 - 1] = f[y - 1]
        OBVIOUS
      <3> QED
        BY <1>1, <3>1
    <2>2. ASSUME NEW u \in 0 .. y - 1 - lo, u < y - 1 - lo, u \in P
          PROVE  u + 1 \in P
      <3> DEFINE t == y - u - 1
      <3>1. t \in lo + 1 .. hi - 1 /\ t - 1 \in lo .. hi /\ t \in lo .. hi /\ t + 1 \in lo .. hi
        BY <2>2
      <3>2. f[t + 1] - f[t] <= f[t] - f[t - 1] /\ f[t + 1] \in Int /\ f[t] \in Int /\ f[t - 1] \in Int
        BY <3>1
      <3>3. t + 1 = y - u /\ y - (u + 1) = t /\ y - (u + 1) - 1 = t - 1
        OBVIOUS
      <3> HIDE DEF D, t
      <3>4. f[t + 1] - f[t] >= D
        BY <2>2, <3>3 DEF t
      <3> QED
        BY <1>1, <3>2, <3>3, <3>4
    <2> HIDE DEF P
    <2>3. y - 1 - lo \in Nat
      BY <1>1
    <2> QED
      BY <2>1, <2>2, <2>3, Climbing
  <1>5. \A u \in 0 .. y - lo : u \in Q
    <2> HIDE DEF D
    <2>1. 0 \in Q
      <3>1. f[y - 0] = f[y] /\ D * 0 = 0
        BY <1>1, SMT
      <3> QED
        BY <1>1, <3>1
    <2>2. ASSUME NEW u \in 0 .. y - lo, u < y - lo, u \in Q
          PROVE  u + 1 \in Q
      <3>1. u \in 0 .. y - 1 - lo /\ y - u \in lo .. hi /\ y - u - 1 \in lo .. hi
        BY <2>2
      <3>2. f[y - u] - f[y - u - 1] >= D /\ f[y - u] \in Int /\ f[y - u - 1] \in Int
        BY <1>4, <3>1
      <3>3. D * (u + 1) = D * u + D /\ D * u \in Int /\ y - (u + 1) = y - u - 1
        BY <1>1, SMT
      <3> QED
        BY <1>1, <2>2, <3>2, <3>3
    <2> HIDE DEF Q
    <2>3. y - lo \in Nat
      BY <1>1
    <2> QED
      BY <2>1, <2>2, <2>3, Climbing
  <1> DEFINE d == y - x
             e == z - y
             F == f[z] - f[y]
             G == f[y] - f[x]
  <1>6. F <= D * e
    BY <1>3
  <1>7. G >= D * d
    <2>1. d \in Q /\ y - d = x
      BY <1>5
    <2> QED
      BY <2>1
  <1>8. d \in Nat /\ e \in Nat /\ F \in Int /\ G \in Int
    BY <1>1
  <1> HIDE DEF D, d, e, F, G
  <1>9. F * d <= (D * e) * d /\ (D * d) * e <= G * e
    <2> DEFINE v == D * e
               g == D * d
    <2>1. v \in Int /\ g \in Int
      BY <1>1, <1>8, SMT
    <2>2. F <= v /\ g <= G
      BY <1>6, <1>7, <1>8, <2>1
    <2> HIDE DEF v, g
    <2>3. F * d <= v * d /\ g * e <= G * e
      BY <1>8, <2>1, <2>2, SMT
    <2> QED
      BY <2>3 DEF v, g
  <1>10. (D * e) * d = (D * d) * e /\ (D * e) * d \in Int /\ F * d \in Int /\ G * e \in Int
    BY <1>1, <1>8, SMT
  <1>11. F * d <= G * e
    BY <1>9, <1>10
  <1> QED
    BY <1>11 DEF F, G, d, e

-----------------------------------------------------------------------------
(* The inductive invariant                                                   *)

Part == [at : Nat, price : Fraction]
Climb(m) == Rising(edges[m], edges[m + 1])
Chord(m) == Slope(edges[m], edges[m + 1])
AllRise == \A x, y \in Edges : x < y => Rising(x, y)

Framed ==
    /\ quote \in [Amounts -> Nat \cup {None}] /\ lb \in Amounts /\ ub \in Amounts /\ lb <= ub
    /\ pc \in {"halve", "windows", "smooth", "done"}
    /\ c \in lb .. ub
    /\ edges \in Seq(Nat) /\ Len(edges) > 0
    /\ \A j \in 1 .. Len(edges) : edges[j] \in lb .. ub
    /\ w \in 1 .. Len(edges)

\* The first loop finds the edges in descending order, all above lb.
Halving ==
    pc = "halve" =>
        /\ lb < c /\ edges[1] = ub /\ edges[Len(edges)] = c
        /\ \A j, k \in 1 .. Len(edges) : j < k => edges[k] < edges[j]
        /\ \A j \in 1 .. Len(edges) : lb < edges[j]
        /\ w = 1 /\ parts = <<>> /\ i = 0

\* Then they are sorted from lb to ub.
Ordered ==
    pc # "halve" => Ascending(edges) /\ edges[1] = lb /\ edges[Len(edges)] = ub

\* The parts start at edges, in order; a window that rises has one, whose price
\* is at least the window's slope.
Tabled ==
    /\ parts \in Seq(Part)
    /\ \A j \in 1 .. Len(parts) : /\ parts[j].price.num > 0
                                  /\ \E m \in 1 .. w - 1 : parts[j].at = edges[m]
    /\ \A j, k \in 1 .. Len(parts) : j < k => parts[j].at < parts[k].at
    /\ \A m \in 1 .. w - 1 : Climb(m) =>
          \E j \in 1 .. Len(parts) : parts[j].at = edges[m] /\ ~Less(parts[j].price, Chord(m))

\* Behind the smoothing loop prices do not rise.
Smoothed ==
    /\ i \in 0 .. Len(parts)
    /\ pc \in {"windows", "done"} => i = 0
    /\ pc \in {"smooth", "done"} =>
          /\ w = Len(edges)
          /\ i > 0 => i < Len(parts)
          /\ \A j, k \in i + 1 .. Len(parts) : j < k => ~Less(parts[j].price, parts[k].price)

\* If every window rises each has its part, and on a concave curve that part's
\* price is the window's slope.
Untouched ==
    AllRise /\ pc # "halve" =>
        /\ Len(parts) = w - 1
        /\ \A j \in 1 .. w - 1 : /\ parts[j].at = edges[j]
                                 /\ Concave => parts[j].price = Chord(j)

PInv == Framed /\ Halving /\ Ordered /\ Tabled /\ Smoothed /\ Untouched

-----------------------------------------------------------------------------
(* What the invariant says of windows                                        *)

\* Amounts between the bounds are amounts, and the curve answers them.
LEMMA Within ==
    ASSUME Framed, NEW x \in lb .. ub
    PROVE  x \in Amounts /\ x \in Nat /\ (quote[x] # None => quote[x] \in Nat)
  <1>1. ub \in Nat /\ lb \in Nat /\ 0 .. ub \subseteq Amounts
    BY AmountsAssumption DEF Framed
  <1>2. x \in Amounts
    BY <1>1
  <1> QED
    BY <1>1, <1>2 DEF Framed

\* The slope of a rise is a positive price.
LEMMA SlopeFraction ==
    ASSUME Framed, NEW x \in lb .. ub, NEW y \in lb .. ub, x < y
    PROVE  /\ Rising(x, y) => Slope(x, y) \in Fraction /\ Slope(x, y).num > 0
           /\ quote[x] # None /\ quote[y] # None /\ quote[x] <= quote[y] => Slope(x, y) \in Fraction
  <1>1. /\ x \in Nat /\ y \in Nat
        /\ quote[x] # None => quote[x] \in Nat
        /\ quote[y] # None => quote[y] \in Nat
    BY Within
  <1> QED
    BY <1>1 DEF Rising, Slope, Fraction

\* Neighbouring edges.
LEMMA Window1 ==
    ASSUME Framed, Ascending(edges), NEW m \in 1 .. Len(edges) - 1
    PROVE  /\ m \in 1 .. Len(edges) /\ m + 1 \in 1 .. Len(edges)
           /\ edges[m] \in lb .. ub /\ edges[m + 1] \in lb .. ub
           /\ edges[m] \in Nat /\ edges[m + 1] \in Nat
           /\ edges[m] < edges[m + 1]
           /\ edges[m] \in Edges /\ edges[m + 1] \in Edges
  <1>1. DOMAIN edges = 1 .. Len(edges) /\ Len(edges) \in Nat
    BY DEF Framed
  <1>2. m \in 1 .. Len(edges) /\ m + 1 \in 1 .. Len(edges) /\ m < m + 1
    BY <1>1
  <1>3. edges[m] < edges[m + 1]
    BY <1>1, <1>2 DEF Ascending
  <1> QED
    BY <1>1, <1>2, <1>3 DEF Framed, Edges, ToSet

\* On a concave curve the slopes of neighbouring windows do not rise.
LEMMA ChordsFall ==
    ASSUME Framed, Ascending(edges), Concave, NEW m \in 1 .. Len(edges) - 2
    PROVE  ~Less(Chord(m), Chord(m + 1))
  <1> DEFINE x == edges[m]
             y == edges[m + 1]
             z == edges[m + 2]
  <1>1. Len(edges) \in Nat /\ m \in 1 .. Len(edges) - 1 /\ m + 1 \in 1 .. Len(edges) - 1
    BY DEF Framed
  <1>2. x \in lb .. ub /\ y \in lb .. ub /\ x < y
    BY <1>1, Window1
  <1>3. y \in lb .. ub /\ z \in lb .. ub /\ y < z
    <2>1. (m + 1) + 1 = m + 2
      BY <1>1
    <2>2. edges[m + 1] \in lb .. ub /\ edges[(m + 1) + 1] \in lb .. ub /\ edges[m + 1] < edges[(m + 1) + 1]
      BY <1>1, Window1
    <2> QED
      BY <2>1, <2>2
  <1>4. lb \in Nat /\ ub \in Nat
    BY AmountsAssumption DEF Framed
  <1>5. \A t \in lb .. ub : quote[t] \in Int
    <2>1. ASSUME NEW t \in lb .. ub PROVE quote[t] \in Int
      <3>1. quote[t] # None
        BY DEF Concave
      <3> QED
        BY <3>1, Within
    <2> QED
      BY <2>1
  <1>6. \A t \in lb + 1 .. ub - 1 : quote[t + 1] - quote[t] <= quote[t] - quote[t - 1]
    BY DEF Concave
  <1>7. (quote[z] - quote[y]) * (y - x) <= (quote[y] - quote[x]) * (z - y)
    <2> HIDE DEF x, y, z
    <2> QED
      BY <1>2, <1>3, <1>4, <1>5, <1>6, ConcaveChords
  <1>8. Chord(m) = [num |-> quote[y] - quote[x], den |-> y - x]
    BY DEF Chord, Slope
  <1>9. Chord(m + 1) = [num |-> quote[z] - quote[y], den |-> z - y]
    <2>1. (m + 1) + 1 = m + 2
      BY <1>1
    <2> QED
      BY <2>1 DEF Chord, Slope
  <1>10. quote[x] \in Int /\ quote[y] \in Int /\ quote[z] \in Int /\ x \in Int /\ y \in Int /\ z \in Int
    BY <1>2, <1>3, <1>4, <1>5
  <1> HIDE DEF x, y, z
  <1>11. (quote[y] - quote[x]) * (z - y) \in Int /\ (quote[z] - quote[y]) * (y - x) \in Int
    BY <1>10, SMT
  <1> QED
    BY <1>7, <1>8, <1>9, <1>11 DEF Less

-----------------------------------------------------------------------------
(* The invariant holds                                                       *)

\* Before the first halving there are only the two bounds.
LEMMA PInvInit == Init => PInv
  <1> SUFFICES ASSUME Init PROVE PInv
    OBVIOUS
  <1>1. /\ quote \in [Amounts -> Nat \cup {None}]
        /\ lb \in Amounts /\ ub \in Amounts /\ lb \in Nat /\ ub \in Nat /\ lb <= ub
        /\ c = ub /\ edges = <<ub>> /\ w = 1 /\ parts = <<>> /\ i = 0
        /\ pc = IF ub <= lb THEN "done" ELSE "halve"
    BY CurvesAssumption, AmountsAssumption DEF Init, Bounds
  <1>2. edges \in Seq(Nat) /\ Len(edges) = 1 /\ edges[1] = ub /\ DOMAIN edges = {1}
    BY <1>1
  <1>3. Framed
    BY <1>1, <1>2 DEF Framed
  <1>4. Halving
    BY <1>1, <1>2 DEF Halving
  <1>5. Ordered
    BY <1>1, <1>2 DEF Ordered, Ascending
  <1>6. parts \in Seq(Part) /\ Len(parts) = 0
    BY <1>1
  <1>7. Tabled
    BY <1>1, <1>6 DEF Tabled
  <1>8. Smoothed
    BY <1>1, <1>2, <1>6 DEF Smoothed
  <1>9. Untouched
    BY <1>1, <1>6 DEF Untouched
  <1> QED
    BY <1>3, <1>4, <1>5, <1>7, <1>8, <1>9 DEF PInv

\* An edge is added by the first loop.
LEMMA HalveStep ==
    ASSUME PInv, pc = "halve", c \div 2 > lb, c' = c \div 2,
           edges' = Append(edges, c \div 2), UNCHANGED <<pc, quote, lb, ub, w, parts, i>>
    PROVE  PInv'
  <1> DEFINE n == Len(edges)
             h == c \div 2
  <1>1. /\ lb \in Nat /\ ub \in Nat /\ c \in lb .. ub /\ edges \in Seq(Nat) /\ n \in Nat \ {0}
        /\ \A j \in 1 .. n : edges[j] \in lb .. ub
    BY AmountsAssumption DEF PInv, Framed
  <1>2. h \in Nat /\ h < c /\ h > lb /\ h \in lb .. ub
    BY <1>1
  <1>3. /\ edges' \in Seq(Nat) /\ Len(edges') = n + 1 /\ edges'[n + 1] = h
        /\ \A j \in 1 .. n : edges'[j] = edges[j]
    BY <1>1, <1>2
  <1>4. \A j \in 1 .. n + 1 : edges'[j] = (IF j = n + 1 THEN h ELSE edges[j]) /\ (j # n + 1 => j \in 1 .. n)
    BY <1>1, <1>3
  <1>5. /\ edges[1] = ub /\ edges[n] = c
        /\ \A j, k \in 1 .. n : j < k => edges[k] < edges[j]
        /\ \A j \in 1 .. n : lb < edges[j]
        /\ w = 1 /\ parts = <<>> /\ i = 0
    BY DEF PInv, Halving
  <1>6. \A j \in 1 .. n : h < edges[j]
    <2>1. ASSUME NEW j \in 1 .. n PROVE c <= edges[j]
      <3>1. n \in 1 .. n /\ (j = n \/ j < n)
        BY <1>1
      <3> QED
        BY <1>1, <1>5, <3>1
    <2> QED
      BY <1>1, <1>2, <2>1
  <1> HIDE DEF h
  <1>7. Framed'
    <2>1. \A j \in 1 .. n + 1 : edges'[j] \in lb .. ub
      BY <1>1, <1>2, <1>4
    <2> QED
      BY <1>1, <1>2, <1>3, <1>5, <2>1 DEF PInv, Framed, h
  <1>8. Halving'
    <2>1. \A j, k \in 1 .. n + 1 : j < k => edges'[k] < edges'[j]
      <3> SUFFICES ASSUME NEW j \in 1 .. n + 1, NEW k \in 1 .. n + 1, j < k
                   PROVE  edges'[k] < edges'[j]
        OBVIOUS
      <3>1. j # n + 1 /\ j \in 1 .. n
        BY <1>1
      <3> QED
        BY <1>4, <1>5, <1>6, <3>1
    <2>2. \A j \in 1 .. n + 1 : lb < edges'[j]
      BY <1>2, <1>4, <1>5
    <2>3. edges'[1] = ub
      <3>1. 1 \in 1 .. n
        BY <1>1
      <3> QED
        BY <1>3, <1>5, <3>1
    <2> QED
      BY <1>2, <1>3, <1>5, <2>1, <2>2, <2>3 DEF Halving, h
  <1>9. Tabled' /\ Smoothed'
    <2>1. parts' = <<>> /\ Len(parts') = 0 /\ parts' \in Seq(Part) /\ w' = 1 /\ i' = 0
      BY <1>5
    <2> QED
      BY <2>1 DEF Tabled, Smoothed
  <1> QED
    BY <1>7, <1>8, <1>9 DEF PInv, Ordered, Untouched

\* The first loop ends: lb is added and the edges are sorted.
LEMMA SortStep ==
    ASSUME PInv, pc = "halve", edges' = Sorted(Append(edges, lb)), pc' = "windows",
           UNCHANGED <<c, quote, lb, ub, w, parts, i>>
    PROVE  PInv'
  <1> DEFINE n == Len(edges)
             s == Append(edges, lb)
  <1>1. /\ lb \in Nat /\ ub \in Nat /\ lb <= ub /\ edges \in Seq(Nat) /\ n \in Nat \ {0}
        /\ \A j \in 1 .. n : edges[j] \in lb .. ub
    BY AmountsAssumption DEF PInv, Framed
  <1>2. /\ edges[1] = ub
        /\ \A j, k \in 1 .. n : j < k => edges[k] < edges[j]
        /\ \A j \in 1 .. n : lb < edges[j]
        /\ w = 1 /\ parts = <<>> /\ i = 0
    BY DEF PInv, Halving
  <1>3. s \in Seq(Nat) /\ Len(s) = n + 1 /\ DOMAIN s = 1 .. n + 1
    BY <1>1
  <1>4. \A j \in 1 .. n + 1 : s[j] = (IF j = n + 1 THEN lb ELSE edges[j]) /\ (j # n + 1 => j \in 1 .. n)
    BY <1>1
  <1> HIDE DEF s
  <1>5. \A j, k \in 1 .. Len(s) : j < k => s[k] < s[j]
    <2> SUFFICES ASSUME NEW j \in 1 .. n + 1, NEW k \in 1 .. n + 1, j < k
                 PROVE  s[k] < s[j]
      BY <1>3
    <2>1. j # n + 1 /\ j \in 1 .. n
      BY <1>1
    <2> QED
      BY <1>2, <1>4, <2>1
  <1>6. edges' \in Seq(Nat) /\ ToSet(edges') = ToSet(s) /\ Ascending(edges')
    BY <1>3, <1>5, SortedFacts DEF s
  <1>7. ToSet(s) \subseteq lb .. ub
    <2>1. \A j \in 1 .. n + 1 : s[j] \in lb .. ub
      BY <1>1, <1>4
    <2> QED
      BY <1>3, <2>1 DEF ToSet
  <1>8. lb \in ToSet(s) /\ ub \in ToSet(s)
    <2>1. n + 1 \in 1 .. n + 1 /\ 1 \in 1 .. n + 1 /\ 1 # n + 1
      BY <1>1
    <2>2. s[n + 1] = lb /\ s[1] = ub
      BY <1>2, <1>4, <2>1
    <2> QED
      BY <1>3, <2>1, <2>2 DEF ToSet
  <1> DEFINE e == edges'
             l == Len(e)
  <1>9. l \in Nat /\ DOMAIN e = 1 .. l
    BY <1>6
  <1>10. \A j \in 1 .. l : e[j] \in lb .. ub
    BY <1>6, <1>7, <1>9 DEF ToSet
  <1>11. PICK a \in 1 .. l : e[a] = lb
    BY <1>6, <1>8, <1>9 DEF ToSet
  <1>12. PICK b \in 1 .. l : e[b] = ub
    BY <1>6, <1>8, <1>9 DEF ToSet
  <1>13. l > 0 /\ 1 \in 1 .. l /\ l \in 1 .. l
    BY <1>9, <1>11
  <1>14. \A j, k \in 1 .. l : j < k => e[j] < e[k]
    BY <1>6, <1>9 DEF Ascending
  <1> HIDE DEF e, l
  <1>15. e[1] = lb
    <2>1. a = 1 \/ 1 < a
      BY <1>9, <1>11
    <2>2. 1 < a => e[1] < lb
      BY <1>11, <1>13, <1>14
    <2> QED
      BY <1>1, <1>10, <1>11, <1>13, <2>1, <2>2
  <1>16. e[l] = ub
    <2>1. b = l \/ b < l
      BY <1>9, <1>12
    <2>2. b < l => ub < e[l]
      BY <1>12, <1>13, <1>14
    <2> QED
      BY <1>1, <1>10, <1>12, <1>13, <2>1, <2>2
  <1>17. Framed'
    BY <1>1, <1>2, <1>6, <1>10, <1>13 DEF PInv, Framed, e, l
  <1>18. Ordered'
    BY <1>6, <1>15, <1>16 DEF Ordered, e, l
  <1>19. parts' = <<>> /\ Len(parts') = 0 /\ parts' \in Seq(Part) /\ w' = 1 /\ i' = 0
    BY <1>2
  <1>20. Tabled' /\ Smoothed' /\ Untouched'
    BY <1>19 DEF Tabled, Smoothed, Untouched
  <1> QED
    BY <1>17, <1>18, <1>20 DEF PInv, Halving

\* The facts of the table that the windows loop has built so far.
LEMMA TableFacts ==
    ASSUME PInv, pc # "halve"
    PROVE  /\ Framed /\ Ascending(edges)
           /\ edges \in Seq(Nat) /\ Len(edges) \in Nat \ {0}
           /\ w \in 1 .. Len(edges) /\ parts \in Seq(Part) /\ Len(parts) \in Nat
  BY DEF PInv, Framed, Ordered, Tabled

\* A window is left out, or entered at the end of the table.
LEMMA WindowStep ==
    ASSUME PInv, Window
    PROVE  PInv'
  <1> DEFINE a == edges[w]
             b == edges[w + 1]
             n == Len(parts)
             new == [at |-> a, price |-> Slope(a, b)]
  <1>1. /\ pc = "windows" /\ w < Len(edges) /\ w' = w + 1
        /\ parts' = IF Rising(a, b) THEN Append(parts, new) ELSE parts
        /\ quote' = quote /\ lb' = lb /\ ub' = ub /\ pc' = pc /\ c' = c /\ edges' = edges /\ i' = i
    BY DEF Window
  <1>2. /\ Framed /\ Ascending(edges) /\ edges \in Seq(Nat) /\ Len(edges) \in Nat \ {0}
        /\ w \in 1 .. Len(edges) /\ parts \in Seq(Part) /\ n \in Nat
    BY <1>1, TableFacts
  <1>3. /\ a \in lb .. ub /\ b \in lb .. ub /\ a < b /\ a \in Edges /\ b \in Edges /\ a \in Nat
        /\ w \in 1 .. Len(edges) - 1
    <2>1. w \in 1 .. Len(edges) - 1
      BY <1>1, <1>2
    <2> QED
      BY <1>2, <2>1, Window1
  <1>4. Framed'
    BY <1>1, <1>2 DEF Framed
  <1>5. Ordered' /\ Halving'
    BY <1>1 DEF PInv, Ordered, Halving
  <1>6. Smoothed'
    <2>1. i = 0
      BY <1>1 DEF PInv, Smoothed
    <2>2. Len(parts') \in Nat
      BY <1>1, <1>2
    <2> QED
      BY <1>1, <2>1, <2>2 DEF Smoothed
  <1>7. \A m : Climb(m)' = Climb(m) /\ Chord(m)' = Chord(m)
    BY <1>1 DEF Climb, Chord, Rising, Slope
  <1>8. AllRise' = AllRise /\ Concave' = Concave
    BY <1>1 DEF AllRise, Concave, Edges, Rising
  <1>9. /\ \A j \in 1 .. n : /\ parts[j].price.num > 0
                             /\ \E m \in 1 .. w - 1 : parts[j].at = edges[m]
        /\ \A j, k \in 1 .. n : j < k => parts[j].at < parts[k].at
        /\ \A m \in 1 .. w - 1 : Climb(m) =>
              \E j \in 1 .. n : parts[j].at = edges[m] /\ ~Less(parts[j].price, Chord(m))
    BY DEF PInv, Tabled
  <1>10. AllRise => /\ n = w - 1
                    /\ \A j \in 1 .. w - 1 : /\ parts[j].at = edges[j]
                                             /\ Concave => parts[j].price = Chord(j)
    BY <1>1 DEF PInv, Untouched
  <1>11. Climb(w) <=> Rising(a, b)
    BY DEF Climb
  <1>12. w' - 1 = w /\ 1 .. w = (1 .. w - 1) \cup {w}
    BY <1>1, <1>2
  <1>13. CASE ~Rising(a, b)
    <2>1. parts' = parts
      BY <1>1, <1>13
    <2>2. Tabled'
      <3>1. \A j \in 1 .. n : \E m \in 1 .. w : parts[j].at = edges[m]
        BY <1>9, <1>12
      <3>2. \A m \in 1 .. w : Climb(m) =>
              \E j \in 1 .. n : parts[j].at = edges[m] /\ ~Less(parts[j].price, Chord(m))
        BY <1>9, <1>11, <1>12, <1>13
      <3>3. /\ \A j \in 1 .. Len(parts') : /\ parts'[j].price.num > 0
                                           /\ \E m \in 1 .. w' - 1 : parts'[j].at = edges'[m]
            /\ \A j, k \in 1 .. Len(parts') : j < k => parts'[j].at < parts'[k].at
        BY <1>1, <1>9, <1>12, <2>1, <3>1
      <3>4. \A m \in 1 .. w' - 1 : Climb(m)' =>
              \E j \in 1 .. Len(parts') : parts'[j].at = edges'[m] /\ ~Less(parts'[j].price, Chord(m)')
        BY <1>1, <1>7, <1>12, <2>1, <3>2
      <3> QED
        BY <1>2, <2>1, <3>3, <3>4 DEF Tabled, Less
    <2>3. Untouched'
      <3>1. ~AllRise
        BY <1>3, <1>13 DEF AllRise
      <3> QED
        BY <1>8, <3>1 DEF Untouched
    <2> QED
      BY <1>4, <1>5, <1>6, <2>2, <2>3 DEF PInv
  <1>14. CASE Rising(a, b)
    <2>1. parts' = Append(parts, new)
      BY <1>1, <1>14
    <2>2. Slope(a, b) \in Fraction /\ Slope(a, b).num > 0
      BY <1>2, <1>3, <1>14, SlopeFraction
    <2>3. new \in Part /\ new.at = a /\ new.price = Slope(a, b)
      BY <1>3, <2>2 DEF Part
    <2> HIDE DEF new
    <2>4. /\ parts' \in Seq(Part) /\ Len(parts') = n + 1
          /\ parts'[n + 1] = new /\ \A j \in 1 .. n : parts'[j] = parts[j]
      BY <1>2, <2>1, <2>3
    <2>5. 1 .. n + 1 = (1 .. n) \cup {n + 1} /\ n + 1 \notin 1 .. n
      BY <1>2
    <2>6. Chord(w) = Slope(a, b)
      BY DEF Chord
    <2>7. Tabled'
      <3>1. ASSUME NEW j \in 1 .. n + 1
            PROVE  /\ parts'[j].price.num > 0
                   /\ \E m \in 1 .. w : parts'[j].at = edges[m]
        <4>1. CASE j = n + 1
          BY <1>12, <2>2, <2>3, <2>4, <4>1
        <4>2. CASE j \in 1 .. n
          BY <1>9, <1>12, <2>4, <4>2
        <4> QED
          BY <2>5, <4>1, <4>2
      <3>2. ASSUME NEW j \in 1 .. n + 1, NEW k \in 1 .. n + 1, j < k
            PROVE  parts'[j].at < parts'[k].at
        <4>1. j \in 1 .. n
          BY <1>2, <3>2
        <4>2. CASE k \in 1 .. n
          BY <1>9, <2>4, <3>2, <4>1, <4>2
        <4>3. CASE k = n + 1
          <5>1. PICK m \in 1 .. w - 1 : parts[j].at = edges[m]
            BY <1>9, <4>1
          <5>2. m < w /\ m \in DOMAIN edges /\ w \in DOMAIN edges
            BY <1>2, <5>1
          <5>3. edges[m] < edges[w]
            BY <1>2, <5>2 DEF Ascending
          <5> QED
            BY <2>3, <2>4, <4>1, <4>3, <5>1, <5>3
        <4> QED
          BY <2>5, <4>2, <4>3
      <3>3. ASSUME NEW m \in 1 .. w, Climb(m)
            PROVE  \E j \in 1 .. n + 1 : parts'[j].at = edges[m] /\ ~Less(parts'[j].price, Chord(m))
        <4>1. CASE m = w
          <5>1. ~Less(Slope(a, b), Slope(a, b))
            BY <2>2, NotLessTotal
          <5>2. n + 1 \in 1 .. n + 1
            BY <2>5
          <5> QED
            BY <2>3, <2>4, <2>6, <4>1, <5>1, <5>2
        <4>2. CASE m \in 1 .. w - 1
          <5>1. PICK j \in 1 .. n : parts[j].at = edges[m] /\ ~Less(parts[j].price, Chord(m))
            BY <1>9, <3>3, <4>2
          <5> QED
            BY <2>4, <2>5, <5>1
        <4> QED
          BY <1>12, <4>1, <4>2
      <3>4. /\ \A j \in 1 .. Len(parts') : /\ parts'[j].price.num > 0
                                           /\ \E m \in 1 .. w' - 1 : parts'[j].at = edges'[m]
            /\ \A j, k \in 1 .. Len(parts') : j < k => parts'[j].at < parts'[k].at
        BY <1>1, <1>12, <2>4, <3>1, <3>2
      <3>5. \A m \in 1 .. w' - 1 : Climb(m)' =>
              \E j \in 1 .. Len(parts') : parts'[j].at = edges'[m] /\ ~Less(parts'[j].price, Chord(m)')
        BY <1>1, <1>7, <1>12, <2>4, <3>3
      <3> QED
        BY <2>4, <3>4, <3>5 DEF Tabled, Less
    <2>8. Untouched'
      <3> SUFFICES ASSUME AllRise
                   PROVE  /\ Len(parts') = w
                          /\ \A j \in 1 .. w : /\ parts'[j].at = edges[j]
                                               /\ Concave => parts'[j].price = Chord(j)
        BY <1>1, <1>7, <1>8, <1>12 DEF Untouched
      <3>1. n = w - 1 /\ n + 1 = w
        BY <1>2, <1>10
      <3>2. ASSUME NEW j \in 1 .. w
            PROVE  parts'[j].at = edges[j] /\ (Concave => parts'[j].price = Chord(j))
        <4>1. CASE j = w
          BY <2>3, <2>4, <2>6, <3>1, <4>1
        <4>2. CASE j \in 1 .. w - 1
          BY <1>10, <2>4, <3>1, <4>2
        <4> QED
          BY <1>12, <4>1, <4>2
      <3> QED
        BY <2>4, <3>1, <3>2
    <2> QED
      BY <1>4, <1>5, <1>6, <2>7, <2>8 DEF PInv
  <1> QED
    BY <1>13, <1>14

\* The table is complete and the smoothing loop starts.
LEMMA StartSmoothStep ==
    ASSUME PInv, StartSmooth
    PROVE  PInv'
  <1>1. /\ pc = "windows" /\ w = Len(edges) /\ pc' = "smooth"
        /\ i' = IF parts = <<>> THEN 0 ELSE Len(parts) - 1
        /\ quote' = quote /\ lb' = lb /\ ub' = ub /\ c' = c /\ edges' = edges /\ w' = w /\ parts' = parts
    BY DEF StartSmooth
  <1>2. parts \in Seq(Part) /\ Len(parts) \in Nat /\ Framed
    BY <1>1, TableFacts
  <1>3. i' \in 0 .. Len(parts) /\ (i' > 0 => i' < Len(parts)) /\ i' + 1 >= Len(parts)
    BY <1>1, <1>2
  <1>4. \A j, k \in i' + 1 .. Len(parts) : ~(j < k)
    <2> SUFFICES ASSUME NEW j \in i' + 1 .. Len(parts), NEW k \in i' + 1 .. Len(parts)
                 PROVE  ~(j < k)
      OBVIOUS
    <2> DEFINE n == Len(parts)
               s == i'
    <2>1. n \in Nat /\ s \in 0 .. n /\ s + 1 >= n /\ j \in s + 1 .. n /\ k \in s + 1 .. n
      BY <1>2, <1>3
    <2> HIDE DEF n, s
    <2> QED
      BY <2>1
  <1>5. Smoothed'
    BY <1>1, <1>3, <1>4 DEF Smoothed
  <1>6. \A m : Climb(m)' = Climb(m) /\ Chord(m)' = Chord(m)
    BY <1>1 DEF Climb, Chord, Rising, Slope
  <1>7. AllRise' = AllRise /\ Concave' = Concave
    BY <1>1 DEF AllRise, Concave, Edges, Rising
  <1>8. Framed' /\ Halving' /\ Ordered'
    BY <1>1 DEF PInv, Framed, Halving, Ordered
  <1>9. Tabled'
    BY <1>1, <1>6 DEF PInv, Tabled, Less
  <1>10. Untouched'
    BY <1>1, <1>6, <1>7 DEF PInv, Untouched
  <1> QED
    BY <1>5, <1>8, <1>9, <1>10 DEF PInv

\* The parts of a table.
LEMMA PartTypes ==
    ASSUME NEW s \in Seq(Part)
    PROVE  \A j \in 1 .. Len(s) : s[j] \in Part /\ s[j].price \in Fraction /\ s[j].at \in Nat
  <1>1. \A j \in 1 .. Len(s) : s[j] \in Part
    OBVIOUS
  <1>2. \A p \in Part : p.price \in Fraction /\ p.at \in Nat
    BY DEF Part
  <1> QED
    BY <1>1, <1>2

\* A part takes the price of the next one if its own is lower.
LEMMA Raised ==
    ASSUME NEW s \in Seq(Part), NEW m \in 1 .. Len(s), NEW p \in Fraction
    PROVE  LET t == [s EXCEPT ![m].price = p]
           IN  /\ t \in Seq(Part) /\ Len(t) = Len(s)
               /\ t[m].at = s[m].at /\ t[m].price = p
               /\ \A j \in 1 .. Len(s) : j # m => t[j] = s[j]
  <1> DEFINE v == [s[m] EXCEPT !.price = p]
             t == [s EXCEPT ![m] = v]
  <1>1. s[m] \in Part
    OBVIOUS
  <1>2. v \in Part /\ v.at = s[m].at /\ v.price = p
    BY <1>1 DEF Part
  <1> HIDE DEF v
  <1>3. /\ t \in Seq(Part) /\ Len(t) = Len(s) /\ t[m] = v
        /\ \A j \in 1 .. Len(s) : j # m => t[j] = s[j]
    BY <1>2
  <1>4. [s EXCEPT ![m].price = p] = t
    BY DEF v
  <1> QED
    BY <1>2, <1>3, <1>4

\* One step of the smoothing loop: no price falls, the prices behind the loop
\* do not rise, and on a concave curve nothing is changed.
LEMMA SmoothStep ==
    ASSUME PInv, Smooth
    PROVE  PInv'
  <1> DEFINE n == Len(parts)
             next == parts[i + 1].price
             low == Less(parts[i].price, next)
  <1>1. /\ pc = "smooth" /\ i >= 1 /\ i' = i - 1
        /\ parts' = IF low THEN [parts EXCEPT ![i].price = next] ELSE parts
        /\ quote' = quote /\ lb' = lb /\ ub' = ub /\ pc' = pc /\ c' = c /\ edges' = edges /\ w' = w
    BY DEF Smooth
  <1>2. /\ Framed /\ Ascending(edges) /\ Len(edges) \in Nat \ {0}
        /\ w \in 1 .. Len(edges) /\ parts \in Seq(Part) /\ n \in Nat
    BY <1>1, TableFacts
  <1>3. /\ i \in 0 .. n /\ w = Len(edges) /\ (i > 0 => i < n)
        /\ \A j, k \in i + 1 .. n : j < k => ~Less(parts[j].price, parts[k].price)
    BY <1>1 DEF PInv, Smoothed
  <1>4. i \in Nat /\ i \in 1 .. n /\ i + 1 \in 1 .. n /\ i' \in 0 .. n /\ i' + 1 = i
    BY <1>1, <1>2, <1>3
  <1>5. \A j \in 1 .. n : parts[j] \in Part /\ parts[j].price \in Fraction
    BY <1>2, PartTypes
  <1>6. next \in Fraction
    BY <1>4, <1>5
  <1>7. /\ \A j \in 1 .. n : /\ parts[j].price.num > 0
                             /\ \E m \in 1 .. w - 1 : parts[j].at = edges[m]
        /\ \A j, k \in 1 .. n : j < k => parts[j].at < parts[k].at
        /\ \A m \in 1 .. w - 1 : Climb(m) =>
              \E j \in 1 .. n : parts[j].at = edges[m] /\ ~Less(parts[j].price, Chord(m))
    BY DEF PInv, Tabled
  <1>8. AllRise => /\ n = w - 1
                   /\ \A j \in 1 .. w - 1 : /\ parts[j].at = edges[j]
                                            /\ Concave => parts[j].price = Chord(j)
    BY <1>1 DEF PInv, Untouched
  <1>9. \A m : Climb(m)' = Climb(m) /\ Chord(m)' = Chord(m)
    BY <1>1 DEF Climb, Chord, Rising, Slope
  <1>10. AllRise' = AllRise /\ Concave' = Concave
    BY <1>1 DEF AllRise, Concave, Edges, Rising
  <1>11. /\ parts' \in Seq(Part) /\ Len(parts') = n
         /\ \A j \in 1 .. n : parts'[j].at = parts[j].at
         /\ \A j \in 1 .. n : j # i => parts'[j].price = parts[j].price
         /\ parts'[i].price = IF low THEN next ELSE parts[i].price
    <2>1. CASE low
      <3>1. parts' = [parts EXCEPT ![i].price = next]
        BY <1>1, <2>1
      <3> HIDE DEF next
      <3> QED
        BY <1>2, <1>4, <1>6, <2>1, <3>1, Raised
    <2>2. CASE ~low
      BY <1>1, <1>2, <2>2
    <2> QED
      BY <2>1, <2>2
  <1>12. \A j \in 1 .. n : parts'[j] \in Part /\ parts'[j].price \in Fraction
    BY <1>11, PartTypes
  \* The price at i is now at least what it was, and at least the next one.
  <1>13. ~Less(parts'[i].price, parts[i].price) /\ ~Less(parts'[i].price, next)
    <2> HIDE DEF next
    <2>1. CASE low
      BY <1>4, <1>5, <1>6, <1>11, <2>1, NotLessTotal
    <2>2. CASE ~low
      BY <1>4, <1>5, <1>6, <1>11, <2>2, NotLessTotal
    <2> QED
      BY <2>1, <2>2
  <1>14. \A j \in 1 .. n : ~Less(parts'[j].price, parts[j].price)
    <2>1. ASSUME NEW j \in 1 .. n, j # i PROVE ~Less(parts'[j].price, parts[j].price)
      BY <1>5, <1>11, <2>1, NotLessTotal
    <2> QED
      BY <1>13, <2>1
  <1>15. Framed' /\ Halving' /\ Ordered'
    BY <1>1 DEF PInv, Framed, Halving, Ordered
  <1>16. Smoothed'
    <2>1. ASSUME NEW j \in i .. n, NEW k \in i .. n, j < k
          PROVE  ~Less(parts'[j].price, parts'[k].price)
      <3>1. j \in 1 .. n /\ k \in i + 1 .. n /\ k \in 1 .. n /\ k # i /\ (j = i \/ j \in i + 1 .. n)
        BY <1>2, <1>4, <2>1
      <3>2. parts'[k].price = parts[k].price
        BY <1>11, <3>1
      <3>3. CASE j \in i + 1 .. n
        <4>1. j # i
          BY <1>4, <3>3
        <4> QED
          BY <1>3, <1>11, <2>1, <3>1, <3>2, <3>3, <4>1
      <3>4. CASE j = i
        <4>1. ~Less(next, parts[k].price)
          <5>1. k = i + 1 \/ i + 1 < k
            BY <1>4, <3>1
          <5>2. CASE k = i + 1
            BY <1>6, <5>2, NotLessTotal
          <5>3. CASE i + 1 < k
            <6>1. i + 1 \in i + 1 .. n
              BY <1>2, <1>4
            <6> QED
              BY <1>3, <3>1, <5>3, <6>1
          <5> QED
            BY <5>1, <5>2, <5>3
        <4>2. parts[k].price \in Fraction /\ parts'[i].price \in Fraction
          BY <1>4, <1>5, <1>12, <3>1
        <4> HIDE DEF next
        <4> QED
          BY <1>6, <1>13, <3>2, <3>4, <4>1, <4>2, NotLessTrans
      <3> QED
        BY <3>1, <3>3, <3>4
    <2>2. \A j, k \in i' + 1 .. Len(parts') : j < k => ~Less(parts'[j].price, parts'[k].price)
      BY <1>4, <1>11, <2>1
    <2>3. i' > 0 => i' < n
      <3> DEFINE s == i'
      <3>1. s \in 0 .. n /\ s + 1 \in 1 .. n /\ n \in Nat
        BY <1>2, <1>4
      <3> HIDE DEF n, s
      <3>2. s < n
        BY <3>1
      <3> QED
        BY <3>2 DEF s
    <2> QED
      BY <1>1, <1>3, <1>4, <1>11, <2>2, <2>3 DEF Smoothed, Less
  <1>17. Tabled'
    <2>1. ASSUME NEW j \in 1 .. n PROVE parts'[j].price.num > 0
      BY <1>4, <1>7, <1>11, <2>1
    <2>2. ASSUME NEW m \in 1 .. w - 1, Climb(m)
          PROVE  \E j \in 1 .. n : parts'[j].at = edges[m] /\ ~Less(parts'[j].price, Chord(m))
      <3>1. PICK j \in 1 .. n : parts[j].at = edges[m] /\ ~Less(parts[j].price, Chord(m))
        BY <1>7, <2>2
      <3>2. Chord(m) \in Fraction
        <4>1. m \in 1 .. Len(edges) - 1
          BY <1>2
        <4>2. edges[m] \in lb .. ub /\ edges[m + 1] \in lb .. ub /\ edges[m] < edges[m + 1]
          BY <1>2, <4>1, Window1
        <4> QED
          BY <1>2, <2>2, <4>2, SlopeFraction DEF Climb, Chord
      <3>3. ~Less(parts'[j].price, Chord(m))
        BY <1>5, <1>12, <1>14, <3>1, <3>2, NotLessTrans
      <3> QED
        BY <1>11, <3>1, <3>3
    <2>3. /\ \A j \in 1 .. Len(parts') : /\ parts'[j].price.num > 0
                                         /\ \E m \in 1 .. w' - 1 : parts'[j].at = edges'[m]
          /\ \A j, k \in 1 .. Len(parts') : j < k => parts'[j].at < parts'[k].at
      BY <1>1, <1>7, <1>11, <2>1
    <2>4. \A m \in 1 .. w' - 1 : Climb(m)' =>
            \E j \in 1 .. Len(parts') : parts'[j].at = edges'[m] /\ ~Less(parts'[j].price, Chord(m)')
      BY <1>1, <1>9, <1>11, <2>2
    <2> QED
      BY <1>11, <2>3, <2>4 DEF Tabled, Less
  <1>18. Untouched'
    <2> SUFFICES ASSUME AllRise
                 PROVE  /\ Len(parts') = w - 1
                        /\ \A j \in 1 .. w - 1 : /\ parts'[j].at = edges[j]
                                                 /\ Concave => parts'[j].price = Chord(j)
      BY <1>1, <1>9, <1>10 DEF Untouched
    <2>1. n = w - 1
      BY <1>8
    <2>2. Concave => ~low
      <3> SUFFICES ASSUME Concave PROVE ~low
        OBVIOUS
      <3>1. i \in 1 .. w - 1 /\ i + 1 \in 1 .. w - 1 /\ i \in 1 .. Len(edges) - 2
        BY <1>2, <1>3, <1>4, <2>1
      <3>2. parts[i].price = Chord(i) /\ parts[i + 1].price = Chord(i + 1)
        BY <1>8, <3>1
      <3>3. ~Less(Chord(i), Chord(i + 1))
        BY <1>2, <3>1, ChordsFall
      <3> QED
        BY <3>2, <3>3
    <2>3. ASSUME NEW j \in 1 .. w - 1
          PROVE  parts'[j].at = edges[j] /\ (Concave => parts'[j].price = Chord(j))
      <3>1. Concave => parts'[j].price = parts[j].price
        BY <1>11, <2>1, <2>2, <2>3
      <3> QED
        BY <1>8, <1>11, <2>1, <2>3, <3>1
    <2> QED
      BY <1>11, <2>1, <2>3
  <1> QED
    BY <1>15, <1>16, <1>17, <1>18 DEF PInv

\* Each of the three loops keeps it, and so does leaving them.
LEMMA PInvStep == PInv /\ [Next]_vars => PInv'
  <1> SUFFICES ASSUME PInv, [Next]_vars PROVE PInv'
    OBVIOUS
  <1>1. CASE Halve
    <2>1. CASE c \div 2 > PRICE_FLOOR /\ c \div 2 > lb
      BY <1>1, <2>1, HalveStep DEF Halve
    <2>2. CASE ~(c \div 2 > PRICE_FLOOR /\ c \div 2 > lb)
      BY <1>1, <2>2, SortStep DEF Halve
    <2> QED
      BY <2>1, <2>2
  <1>2. CASE Window
    BY <1>2, WindowStep
  <1>3. CASE StartSmooth
    BY <1>3, StartSmoothStep
  <1>4. CASE Smooth
    BY <1>4, SmoothStep
  <1>5. CASE Finish
    <2>1. /\ pc = "smooth" /\ i = 0 /\ pc' = "done" /\ i' = i
          /\ quote' = quote /\ lb' = lb /\ ub' = ub /\ c' = c /\ edges' = edges /\ w' = w /\ parts' = parts
      BY <1>5 DEF Finish
    <2>2. \A m : Climb(m)' = Climb(m) /\ Chord(m)' = Chord(m)
      BY <2>1 DEF Climb, Chord, Rising, Slope
    <2>3. AllRise' = AllRise /\ Concave' = Concave
      BY <2>1 DEF AllRise, Concave, Edges, Rising
    <2>4. Framed' /\ Halving' /\ Ordered'
      BY <2>1 DEF PInv, Framed, Halving, Ordered
    <2>5. Tabled'
      BY <2>1, <2>2 DEF PInv, Tabled, Less
    <2>6. Untouched'
      BY <2>1, <2>2, <2>3 DEF PInv, Untouched
    <2>7. Smoothed'
      BY <2>1 DEF PInv, Smoothed, Less
    <2> QED
      BY <2>4, <2>5, <2>6, <2>7 DEF PInv
  <1>6. CASE UNCHANGED vars
    <2>1. /\ pc' = pc /\ i' = i /\ quote' = quote /\ lb' = lb /\ ub' = ub /\ c' = c
          /\ edges' = edges /\ w' = w /\ parts' = parts
      BY <1>6 DEF vars
    <2>2. \A m : Climb(m)' = Climb(m) /\ Chord(m)' = Chord(m)
      BY <2>1 DEF Climb, Chord, Rising, Slope
    <2>3. AllRise' = AllRise /\ Concave' = Concave
      BY <2>1 DEF AllRise, Concave, Edges, Rising
    <2>4. Framed' /\ Halving' /\ Ordered'
      BY <2>1 DEF PInv, Framed, Halving, Ordered
    <2>5. Tabled'
      BY <2>1, <2>2 DEF PInv, Tabled, Less
    <2>6. Untouched'
      BY <2>1, <2>2, <2>3 DEF PInv, Untouched
    <2>7. Smoothed'
      BY <2>1 DEF PInv, Smoothed, Less
    <2> QED
      BY <2>4, <2>5, <2>6, <2>7 DEF PInv
  <1> QED
    BY <1>1, <1>2, <1>3, <1>4, <1>5, <1>6 DEF Next

\* The invariant of price_parts, for every quote function.
THEOREM PInvHolds == Spec => []PInv
  BY PInvInit, PInvStep, PTL DEF Spec

\* Edges stay between the bounds, parts start at edges and no price has the
\* denominator 0, whatever the quote function answers.
THEOREM TypeCorrect == Spec => []TypeOK
  <1>1. PInv => TypeOK
    <2> SUFFICES ASSUME PInv PROVE TypeOK
      OBVIOUS
    <2>1. DOMAIN edges = 1 .. Len(edges) /\ Len(edges) \in Nat
      BY DEF PInv, Framed
    <2>2. Edges \subseteq lb .. ub
      BY <2>1 DEF PInv, Framed, Edges, ToSet
    <2>3. ASSUME NEW j \in 1 .. Len(parts)
          PROVE  parts[j].at \in Edges /\ parts[j].price \in [num : Nat, den : Nat \ {0}]
      <3>1. parts[j] \in Part
        BY DEF PInv, Tabled
      <3>2. PICK m \in 1 .. w - 1 : parts[j].at = edges[m]
        BY DEF PInv, Tabled
      <3>3. m \in DOMAIN edges
        BY <2>1 DEF PInv, Framed
      <3> QED
        BY <3>1, <3>2, <3>3 DEF Part, Fraction, Edges, ToSet
    <2> QED
      BY <2>2, <2>3 DEF PInv, Framed, Smoothed, TypeOK
  <1> QED
    BY <1>1, PInvHolds, PTL

-----------------------------------------------------------------------------
(* The finished table                                                        *)

\* What holds once price_parts has returned.
LEMMA DoneFacts ==
    ASSUME PInv, pc = "done"
    PROVE  /\ Framed /\ Ascending(edges) /\ edges[1] = lb /\ edges[Len(edges)] = ub
           /\ edges \in Seq(Nat) /\ Len(edges) \in Nat \ {0} /\ w = Len(edges)
           /\ parts \in Seq(Part) /\ Len(parts) \in Nat
           /\ \A j \in 1 .. Len(parts) :
                 /\ parts[j].price \in Fraction /\ parts[j].at \in Nat /\ parts[j].price.num > 0
           /\ \A j, k \in 1 .. Len(parts) : j < k => parts[j].at < parts[k].at
           /\ \A j, k \in 1 .. Len(parts) : j <= k => ~Less(parts[j].price, parts[k].price)
  <1>1. /\ Framed /\ Ascending(edges) /\ edges \in Seq(Nat) /\ Len(edges) \in Nat \ {0}
        /\ parts \in Seq(Part) /\ Len(parts) \in Nat
    BY TableFacts
  <1>2. \A j \in 1 .. Len(parts) : parts[j].price \in Fraction /\ parts[j].at \in Nat
    BY <1>1, PartTypes
  <1>3. /\ w = Len(edges) /\ i = 0
        /\ \A j, k \in i + 1 .. Len(parts) : j < k => ~Less(parts[j].price, parts[k].price)
    BY DEF PInv, Smoothed
  <1>4. ASSUME NEW j \in 1 .. Len(parts), NEW k \in 1 .. Len(parts), j <= k
        PROVE  ~Less(parts[j].price, parts[k].price)
    <2>1. CASE j = k
      BY <1>2, <2>1, NotLessTotal
    <2>2. CASE j < k
      <3>1. j \in i + 1 .. Len(parts) /\ k \in i + 1 .. Len(parts)
        BY <1>3
      <3> QED
        BY <1>3, <2>2, <3>1
    <2> QED
      BY <1>4, <2>1, <2>2
  <1>5. edges[1] = lb /\ edges[Len(edges)] = ub
    BY DEF PInv, Ordered
  <1>6. /\ \A j \in 1 .. Len(parts) : parts[j].price.num > 0
        /\ \A j, k \in 1 .. Len(parts) : j < k => parts[j].at < parts[k].at
    BY DEF PInv, Tabled
  <1> QED
    BY <1>1, <1>2, <1>3, <1>4, <1>5, <1>6

\* The part that an amount's price is looked up in.
LEMMA PriceFrom ==
    ASSUME PInv, pc = "done", parts # <<>>, NEW x \in Nat
    PROVE  \E j \in 1 .. Len(parts) :
              /\ Price(x) = parts[j].price
              /\ parts[j].at <= x \/ j = 1
              /\ \A k \in 1 .. Len(parts) : parts[k].at <= x => k <= j
  <1> DEFINE n == Len(parts)
             below == {j \in 1 .. n : parts[j].at <= x}
             Top(j) == \A k \in below : k <= j
  <1>1. n \in Nat /\ n # 0
    BY DoneFacts
  <1>2. Price(x) = IF below = {} THEN parts[1].price
                   ELSE parts[CHOOSE j \in below : Top(j)].price
    BY DEF Price
  <1>3. CASE below = {}
    <2>1. 1 \in 1 .. n
      BY <1>1
    <2> QED
      BY <1>2, <1>3, <2>1
  <1>4. CASE below # {}
    <2>1. below \subseteq 0 .. n
      BY <1>1
    <2>2. \E j \in below : Top(j)
      <3> HIDE DEF below, n
      <3> QED
        BY <1>1, <1>4, <2>1, Greatest
    <2> HIDE DEF Top
    <2>3. (CHOOSE j \in below : Top(j)) \in below /\ Top(CHOOSE j \in below : Top(j))
      BY <2>2, Zenon
    <2> USE DEF Top
    <2>4. PICK j \in below : Top(j) /\ Price(x) = parts[j].price
      BY <1>2, <1>4, <2>3
    <2> QED
      BY <2>4
  <1> QED
    BY <1>3, <1>4

\* If no window rises a curve that does not fall is flat.
LEMMA SomePart ==
    ASSUME PInv, pc = "done", Monotone, quote[lb] < quote[ub]
    PROVE  parts # <<>>
  <1> SUFFICES ASSUME parts = <<>> PROVE FALSE
    OBVIOUS
  <1> DEFINE n == Len(edges)
             S == {m \in Nat : quote[edges[m]] = quote[lb]}
  <1>1. /\ Framed /\ Ascending(edges) /\ edges[1] = lb /\ edges[n] = ub
        /\ n \in Nat \ {0} /\ w = n
    BY DoneFacts
  <1>2. \A m \in 1 .. n - 1 : ~Climb(m)
    <2>1. Len(parts) = 0
      OBVIOUS
    <2> QED
      BY <1>1, <2>1 DEF PInv, Tabled
  <1>3. ASSUME NEW m \in 1 .. n, m < n, m \in S
        PROVE  m + 1 \in S
    <2>1. m \in 1 .. n - 1 /\ m \in Nat /\ m + 1 \in Nat
      BY <1>1, <1>3
    <2>2. /\ edges[m] \in Edges /\ edges[m + 1] \in Edges /\ edges[m] <= edges[m + 1]
          /\ edges[m] \in lb .. ub /\ edges[m + 1] \in lb .. ub
      BY <1>1, <2>1, Window1
    <2>3. /\ quote[edges[m]] # None /\ quote[edges[m + 1]] # None
          /\ quote[edges[m]] <= quote[edges[m + 1]]
      <3>1. edges[m + 1] <= edges[m + 1]
        BY <1>1, <2>1, Window1
      <3> QED
        BY <2>2, <3>1 DEF Monotone
    <2>4. quote[edges[m]] \in Nat /\ quote[edges[m + 1]] \in Nat
      BY <1>1, <2>2, <2>3, Within
    <2>5. ~(quote[edges[m + 1]] > quote[edges[m]])
      BY <1>2, <2>1, <2>3 DEF Climb, Rising
    <2>6. quote[edges[m + 1]] = quote[edges[m]]
      BY <2>3, <2>4, <2>5
    <2> QED
      BY <1>3, <2>1, <2>6
  <1>4. 1 \in S
    BY <1>1
  <1>5. n \in S
    <2> HIDE DEF S, n
    <2>1. n \in 1 .. n
      BY <1>1
    <2> QED
      BY <1>1, <1>3, <1>4, <2>1, Climbing
  <1>6. quote[ub] = quote[lb]
    BY <1>1, <1>5
  <1>7. lb \in lb .. ub
    BY <1>1, AmountsAssumption DEF Framed
  <1>8. quote[lb] # None
    <2>1. lb \in Edges
      BY <1>1 DEF Edges, ToSet, Framed
    <2>2. lb <= lb
      BY <1>1, AmountsAssumption DEF Framed
    <2> QED
      BY <2>1, <2>2 DEF Monotone
  <1>9. quote[lb] \in Nat
    BY <1>1, <1>7, <1>8, Within
  <1> QED
    BY <1>6, <1>9

\* The smoothed table never rises, so neither does the price read from it.
LEMMA ShapeHolds == PInv => PriceShape
  <1> SUFFICES ASSUME PInv, pc = "done" PROVE PriceShape
    BY DEF PriceShape
  <1>1. \A x \in Amounts : x \in Nat
    BY AmountsAssumption
  <1>2. ASSUME NEW x \in Amounts, NEW y \in Amounts, x <= y
        PROVE  ~Less(Price(x), Price(y))
    <2>1. CASE parts = <<>>
      <3>1. Price(x) = Zero /\ Price(y) = Zero
        BY <2>1 DEF Price
      <3>2. Zero \in Fraction
        BY DEF Zero, Fraction
      <3> QED
        BY <3>1, <3>2, NotLessTotal
    <2>2. CASE parts # <<>>
      <3>1. PICK j \in 1 .. Len(parts) : /\ Price(x) = parts[j].price
                                         /\ parts[j].at <= x \/ j = 1
        BY <1>1, <2>2, PriceFrom
      <3>2. PICK k \in 1 .. Len(parts) : /\ Price(y) = parts[k].price
                                         /\ \A l \in 1 .. Len(parts) : parts[l].at <= y => l <= k
        BY <1>1, <2>2, PriceFrom
      <3>3. j <= k
        <4>1. CASE j = 1
          <5>1. Len(parts) \in Nat
            BY DoneFacts
          <5> QED
            BY <4>1, <5>1
        <4>2. CASE parts[j].at <= x
          <5>1. parts[j].at \in Nat /\ x \in Nat /\ y \in Nat
            BY <1>1, DoneFacts
          <5>2. parts[j].at <= y
            BY <1>2, <4>2, <5>1
          <5> QED
            BY <3>2, <5>2
        <4> QED
          BY <3>1, <4>1, <4>2
      <3> QED
        BY <3>1, <3>2, <3>3, DoneFacts
    <2> QED
      BY <2>1, <2>2
  <1>3. ASSUME Monotone, quote[lb] < quote[ub], NEW x \in Amounts
        PROVE  Less(Zero, Price(x))
    <2>1. parts # <<>>
      BY <1>3, SomePart
    <2>2. PICK j \in 1 .. Len(parts) : Price(x) = parts[j].price
      BY <1>1, <2>1, PriceFrom
    <2>3. parts[j].price \in Fraction /\ parts[j].price.num > 0
      BY DoneFacts
    <2>4. 0 * parts[j].price.den < parts[j].price.num * 1
      BY <2>3 DEF Fraction
    <2> QED
      BY <2>2, <2>4 DEF Less, Zero
  <1> QED
    BY <1>2, <1>3 DEF PriceShape

\* The reported price never rises with the amount, whatever the quote function
\* answers, and it is positive everywhere if the curve rises between its bounds.
THEOREM PriceShapeHolds == Spec => []PriceShape
  BY ShapeHolds, PInvHolds, PTL

\* Two steps make one.
LEMMA TwoSteps ==
    ASSUME NEW n \in Int, NEW x \in Int, NEW y \in Int, NEW z \in Int
    PROVE  /\ n * (z - x) = n * (y - x) + n * (z - y) /\ n * (z - y) \in Int
           /\ (z - x) * n = (y - x) * n + (z - y) * n /\ (z - y) * n \in Int
  BY SMT

\* A price that is at least the slope of every window between two edges is at
\* least the slope between them; and the same the other way round.
LEMMA Telescope ==
    ASSUME Framed, Ascending(edges), NEW m \in 1 .. Len(edges), NEW k \in 1 .. Len(edges), m < k,
           \A t \in m .. k : quote[edges[t]] # None, NEW p \in Fraction
    PROVE  /\ (\A t \in m .. k - 1 : ~Less(p, Chord(t))) => ~Less(p, Slope(edges[m], edges[k]))
           /\ (\A t \in m .. k - 1 : ~Less(Chord(t), p)) => ~Less(Slope(edges[m], edges[k]), p)
  <1> DEFINE N == p.num
             D == p.den
             e(t) == edges[t]
             v(t) == quote[edges[t]]
             A(t) == N * (e(t) - e(m))
             B(t) == (v(t) - v(m)) * D
  <1>1. N \in Nat /\ D \in Nat \ {0} /\ Len(edges) \in Nat /\ m \in Nat /\ k \in Nat
    BY DEF Fraction, Framed
  <1>2. \A t \in m .. k : t \in 1 .. Len(edges) /\ t \in Nat
    BY <1>1
  <1>3. ASSUME NEW t \in m .. k
        PROVE  e(t) \in Nat /\ v(t) \in Nat
    <2>1. edges[t] \in lb .. ub
      BY <1>2 DEF Framed
    <2> QED
      BY <2>1, Within
  <1>4. m \in m .. k /\ k \in m .. k
    BY <1>1
  <1>5. ASSUME NEW t \in m .. k
        PROVE  A(t) \in Int /\ B(t) \in Int
    BY <1>1, <1>3, <1>4, SMT
  <1>6. A(m) = 0 /\ B(m) = 0
    <2>1. e(m) - e(m) = 0 /\ v(m) - v(m) = 0
      BY <1>3, <1>4
    <2> HIDE DEF e, v
    <2> QED
      BY <1>1, <2>1, SMT
  <1>7. ASSUME NEW t \in m .. k, t < k
        PROVE  /\ t + 1 \in m .. k /\ t \in m .. k - 1
               /\ A(t + 1) = A(t) + N * (e(t + 1) - e(t))
               /\ B(t + 1) = B(t) + (v(t + 1) - v(t)) * D
               /\ N * (e(t + 1) - e(t)) \in Int /\ (v(t + 1) - v(t)) * D \in Int
    <2>1. t + 1 \in m .. k /\ t \in m .. k - 1
      BY <1>1, <1>7
    <2>2. /\ e(t) \in Int /\ e(t + 1) \in Int /\ e(m) \in Int
          /\ v(t) \in Int /\ v(t + 1) \in Int /\ v(m) \in Int
      BY <1>3, <1>4, <2>1
    <2> HIDE DEF e, v
    <2>3. /\ N * (e(t + 1) - e(m)) = N * (e(t) - e(m)) + N * (e(t + 1) - e(t))
          /\ (v(t + 1) - v(m)) * D = (v(t) - v(m)) * D + (v(t + 1) - v(t)) * D
          /\ N * (e(t + 1) - e(t)) \in Int /\ (v(t + 1) - v(t)) * D \in Int
      <3> DEFINE x == e(m)
                 y == e(t)
                 z == e(t + 1)
                 f == v(m)
                 g == v(t)
                 h == v(t + 1)
      <3>1. /\ N \in Int /\ D \in Int /\ x \in Int /\ y \in Int /\ z \in Int
            /\ f \in Int /\ g \in Int /\ h \in Int
        BY <1>1, <2>2
      <3> HIDE DEF N, D, x, y, z, f, g, h
      <3>2. N * (z - x) = N * (y - x) + N * (z - y) /\ N * (z - y) \in Int
        BY <3>1, TwoSteps
      <3>3. (h - f) * D = (g - f) * D + (h - g) * D /\ (h - g) * D \in Int
        BY <3>1, TwoSteps
      <3> QED
        BY <3>2, <3>3 DEF x, y, z, f, g, h
    <2> QED
      BY <2>1, <2>3
  <1>8. \A t : Chord(t) = [num |-> v(t + 1) - v(t), den |-> e(t + 1) - e(t)]
    BY DEF Chord, Slope
  <1>9. Slope(edges[m], edges[k]) = [num |-> v(k) - v(m), den |-> e(k) - e(m)]
    BY DEF Slope
  <1> HIDE DEF N, D, e, v
  <1>10. \A t : /\ Less(p, Chord(t)) <=> N * (e(t + 1) - e(t)) < (v(t + 1) - v(t)) * D
                /\ Less(Chord(t), p) <=> (v(t + 1) - v(t)) * D < N * (e(t + 1) - e(t))
    BY <1>8 DEF Less, N, D
  <1>11. /\ Less(p, Slope(edges[m], edges[k])) <=> A(k) < B(k)
         /\ Less(Slope(edges[m], edges[k]), p) <=> B(k) < A(k)
    BY <1>9 DEF Less, N, D
  <1> HIDE DEF A, B
  <1>12. ASSUME \A t \in m .. k - 1 : ~Less(p, Chord(t))
         PROVE  ~Less(p, Slope(edges[m], edges[k]))
    <2> DEFINE S == {t \in Nat : B(t) <= A(t)}
    <2>1. m \in S
      BY <1>1, <1>6
    <2>2. ASSUME NEW t \in m .. k, t < k, t \in S
          PROVE  t + 1 \in S
      <3>1. ~(N * (e(t + 1) - e(t)) < (v(t + 1) - v(t)) * D)
        BY <1>7, <1>10, <1>12, <2>2
      <3>2. /\ A(t + 1) = A(t) + N * (e(t + 1) - e(t))
            /\ B(t + 1) = B(t) + (v(t + 1) - v(t)) * D
            /\ N * (e(t + 1) - e(t)) \in Int /\ (v(t + 1) - v(t)) * D \in Int
            /\ A(t) \in Int /\ B(t) \in Int /\ t + 1 \in Nat
        BY <1>2, <1>5, <1>7, <2>2
      <3>3. B(t) <= A(t)
        BY <2>2
      <3>4. B(t + 1) <= A(t + 1)
        BY <3>1, <3>2, <3>3
      <3> QED
        BY <3>2, <3>4
    <2>3. k \in S
      <3> HIDE DEF S
      <3> QED
        BY <1>1, <1>4, <2>1, <2>2, Climbing
    <2> QED
      BY <1>4, <1>5, <1>11, <2>3
  <1>13. ASSUME \A t \in m .. k - 1 : ~Less(Chord(t), p)
         PROVE  ~Less(Slope(edges[m], edges[k]), p)
    <2> DEFINE S == {t \in Nat : A(t) <= B(t)}
    <2>1. m \in S
      BY <1>1, <1>6
    <2>2. ASSUME NEW t \in m .. k, t < k, t \in S
          PROVE  t + 1 \in S
      <3>1. ~((v(t + 1) - v(t)) * D < N * (e(t + 1) - e(t)))
        BY <1>7, <1>10, <1>13, <2>2
      <3>2. /\ A(t + 1) = A(t) + N * (e(t + 1) - e(t))
            /\ B(t + 1) = B(t) + (v(t + 1) - v(t)) * D
            /\ N * (e(t + 1) - e(t)) \in Int /\ (v(t + 1) - v(t)) * D \in Int
            /\ A(t) \in Int /\ B(t) \in Int /\ t + 1 \in Nat
        BY <1>2, <1>5, <1>7, <2>2
      <3>3. A(t) <= B(t)
        BY <2>2
      <3>4. A(t + 1) <= B(t + 1)
        BY <3>1, <3>2, <3>3
      <3> QED
        BY <3>2, <3>4
    <2>3. k \in S
      <3> HIDE DEF S
      <3> QED
        BY <1>1, <1>4, <2>1, <2>2, Climbing
    <2> QED
      BY <1>4, <1>5, <1>11, <2>3
  <1> QED
    BY <1>12, <1>13

\* The first half: the price at an edge is at least the slope of every window
\* from there on, whether the window has a part or was left out.
LEMMA AboveChords ==
    ASSUME PInv, pc = "done", Monotone, NEW m \in 1 .. Len(edges), NEW t \in 1 .. Len(edges) - 1, m <= t
    PROVE  Price(edges[m]) \in Fraction /\ ~Less(Price(edges[m]), Chord(t))
  <1> DEFINE a == edges[m]
  <1>1. /\ Framed /\ Ascending(edges) /\ Len(edges) \in Nat /\ w = Len(edges)
        /\ DOMAIN edges = 1 .. Len(edges) /\ edges \in Seq(Nat)
    BY DoneFacts
  <1>2. a \in Nat /\ edges[t] \in Nat /\ a <= edges[t]
    <2>1. t \in 1 .. Len(edges) /\ (m = t \/ m < t)
      BY <1>1
    <2>2. a \in Nat /\ edges[t] \in Nat
      BY <1>1, <2>1
    <2>3. m < t => a < edges[t]
      BY <1>1, <2>1 DEF Ascending
    <2> QED
      BY <2>1, <2>2, <2>3
  <1>3. Price(a) \in Fraction
    <2>1. CASE parts = <<>>
      BY <2>1 DEF Price, Zero, Fraction
    <2>2. CASE parts # <<>>
      BY <1>2, <2>2, PriceFrom, DoneFacts
    <2> QED
      BY <2>1, <2>2
  <1>4. /\ edges[t] \in lb .. ub /\ edges[t + 1] \in lb .. ub /\ edges[t] < edges[t + 1]
        /\ edges[t] \in Edges /\ edges[t + 1] \in Edges /\ edges[t] \in Nat /\ edges[t + 1] \in Nat
    BY <1>1, Window1
  <1>5. /\ quote[edges[t]] # None /\ quote[edges[t + 1]] # None
        /\ quote[edges[t]] <= quote[edges[t + 1]]
    <2>1. edges[t] <= edges[t + 1] /\ edges[t + 1] <= edges[t + 1]
      BY <1>4
    <2> QED
      BY <1>4, <2>1 DEF Monotone
  <1>6. Chord(t) \in Fraction
    BY <1>1, <1>4, <1>5, SlopeFraction DEF Chord
  <1>7. CASE Climb(t)
    <2>1. PICK j \in 1 .. Len(parts) : parts[j].at = edges[t] /\ ~Less(parts[j].price, Chord(t))
      BY <1>1, <1>7 DEF PInv, Tabled
    <2>2. parts # <<>>
      BY <2>1
    <2>3. PICK k \in 1 .. Len(parts) : /\ Price(a) = parts[k].price
                                       /\ parts[k].at <= a \/ k = 1
      BY <1>2, <2>2, PriceFrom
    <2>4. Len(parts) \in Nat /\ parts[k].price \in Fraction /\ parts[j].price \in Fraction /\ parts[k].at \in Nat
      BY DoneFacts
    <2>5. k <= j
      <3>1. CASE k = 1
        BY <2>4, <3>1
      <3>2. CASE parts[k].at <= a
        <4>1. parts[k].at <= parts[j].at
          BY <1>2, <2>1, <2>4, <3>2
        <4>2. j < k => parts[j].at < parts[k].at
          BY DoneFacts
        <4> QED
          BY <1>2, <2>1, <2>4, <4>1, <4>2
      <3> QED
        BY <2>3, <3>1, <3>2
    <2>6. ~Less(Price(a), parts[j].price)
      BY <2>3, <2>5, DoneFacts
    <2> QED
      BY <1>3, <1>6, <2>1, <2>4, <2>6, NotLessTrans
  <1>8. CASE ~Climb(t)
    <2>1. quote[edges[t]] \in Nat /\ quote[edges[t + 1]] \in Nat
      BY <1>1, <1>4, <1>5, Within
    <2>2. quote[edges[t + 1]] = quote[edges[t]]
      BY <1>5, <1>8, <2>1 DEF Climb, Rising
    <2>3. Chord(t).num = 0
      BY <2>1, <2>2 DEF Chord, Slope
    <2>4. /\ Price(a).num \in Nat /\ Price(a).den \in Nat /\ Chord(t).den \in Nat
          /\ Price(a).num * Chord(t).den \in Nat
      BY <1>3, <1>6, SMT DEF Fraction
    <2>5. Chord(t).num * Price(a).den = 0
      BY <2>3, <2>4
    <2> QED
      BY <1>3, <2>4, <2>5 DEF Less
  <1> QED
    BY <1>3, <1>7, <1>8

\* The second half: on a concave curve that rises everywhere the price at an
\* edge is at most the slope of every window before it.
LEMMA BelowChords ==
    ASSUME PInv, pc = "done", AllRise, Concave,
           NEW k \in 1 .. Len(edges), NEW t \in 1 .. Len(edges) - 1, t < k
    PROVE  Price(edges[k]) \in Fraction /\ ~Less(Chord(t), Price(edges[k]))
  <1> DEFINE b == edges[k]
  <1>1. /\ Framed /\ Ascending(edges) /\ Len(edges) \in Nat /\ w = Len(edges)
        /\ DOMAIN edges = 1 .. Len(edges) /\ edges \in Seq(Nat)
    BY DoneFacts
  <1>2. /\ Len(parts) = Len(edges) - 1
        /\ \A j \in 1 .. Len(edges) - 1 : parts[j].at = edges[j] /\ parts[j].price = Chord(j)
    BY <1>1 DEF PInv, Untouched
  <1>3. k - 1 \in 1 .. Len(edges) - 1 /\ k - 1 \in 1 .. Len(edges) /\ k - 1 < k /\ t <= k - 1
    BY <1>1
  <1>4. b \in Nat /\ edges[k - 1] < b /\ edges[k - 1] \in Nat
    BY <1>1, <1>3 DEF Ascending
  <1>5. parts # <<>>
    BY <1>2, <1>3
  <1>6. PICK j \in 1 .. Len(parts) :
            /\ Price(b) = parts[j].price
            /\ \A l \in 1 .. Len(parts) : parts[l].at <= b => l <= j
    BY <1>4, <1>5, PriceFrom
  <1>7. k - 1 <= j
    BY <1>2, <1>3, <1>4, <1>6
  <1>8. t \in 1 .. Len(parts) /\ t <= j
    BY <1>1, <1>2, <1>3, <1>7
  <1>9. ~Less(parts[t].price, parts[j].price) /\ parts[j].price \in Fraction
    BY <1>8, DoneFacts
  <1> QED
    BY <1>2, <1>6, <1>8, <1>9

\* A chord is a mean of the slopes between its ends, which the price at the
\* first end is not below and, on a concave curve, the price at the last not above.
LEMMA ChordsHold == PInv => PriceBracketsChords
  <1> SUFFICES ASSUME PInv, pc = "done", NEW a \in Edges, NEW b \in Edges, a < b
               PROVE  /\ Monotone => ~Less(Price(a), Slope(a, b))
                      /\ Concave /\ AllRise => ~Less(Slope(a, b), Price(b))
    BY DEF PriceBracketsChords, AllRise
  <1>1. /\ Framed /\ Ascending(edges) /\ Len(edges) \in Nat
        /\ DOMAIN edges = 1 .. Len(edges) /\ edges \in Seq(Nat)
    BY DoneFacts
  <1>2. PICK m \in 1 .. Len(edges) : a = edges[m]
    BY <1>1 DEF Edges, ToSet
  <1>3. PICK k \in 1 .. Len(edges) : b = edges[k]
    BY <1>1 DEF Edges, ToSet
  <1>4. a \in Nat /\ b \in Nat
    BY <1>1, <1>2, <1>3
  <1>5. m < k
    <2>1. k < m => b < a
      BY <1>1, <1>2, <1>3 DEF Ascending
    <2>2. k = m => b = a
      BY <1>2, <1>3
    <2> QED
      BY <1>1, <1>4, <2>1, <2>2
  <1>6. /\ \A t \in m .. k - 1 : t \in 1 .. Len(edges) - 1 /\ m <= t /\ t < k
        /\ \A t \in m .. k : edges[t] \in Edges /\ edges[t] \in lb .. ub
    <2>1. \A t \in m .. k : t \in 1 .. Len(edges)
      BY <1>1
    <2>2. \A t \in m .. k - 1 : t \in 1 .. Len(edges) - 1 /\ m <= t /\ t < k
      BY <1>1
    <2> QED
      BY <1>1, <2>1, <2>2 DEF Edges, ToSet, Framed
  <1>7. m \in m .. k - 1
    BY <1>1, <1>5
  <1>8. ASSUME Monotone PROVE ~Less(Price(a), Slope(a, b))
    <2>1. \A t \in m .. k : quote[edges[t]] # None
      <3>1. \A x \in Edges : x <= x
        BY <1>1 DEF Edges, ToSet
      <3> QED
        BY <1>6, <1>8, <3>1 DEF Monotone
    <2>2. \A t \in m .. k - 1 : ~Less(Price(a), Chord(t))
      BY <1>2, <1>6, <1>8, AboveChords
    <2>3. Price(a) \in Fraction
      BY <1>2, <1>6, <1>7, <1>8, AboveChords
    <2> QED
      BY <1>1, <1>2, <1>3, <1>5, <2>1, <2>2, <2>3, Telescope
  <1>9. ASSUME Concave, AllRise PROVE ~Less(Slope(a, b), Price(b))
    <2>1. \A t \in m .. k : quote[edges[t]] # None
      BY <1>6, <1>9 DEF Concave
    <2>2. \A t \in m .. k - 1 : ~Less(Chord(t), Price(b))
      BY <1>3, <1>6, <1>9, BelowChords
    <2>3. Price(b) \in Fraction
      BY <1>3, <1>6, <1>7, <1>9, BelowChords
    <2> QED
      BY <1>1, <1>2, <1>3, <1>5, <2>1, <2>2, <2>3, Telescope
  <1> QED
    BY <1>8, <1>9

\* The mean value requirement from edge to edge, for every quote function: the
\* price is never below the average rate to a larger edge, and on a concave
\* curve never above that from a smaller one.
THEOREM PriceBracketsChordsHolds == Spec => []PriceBracketsChords
  BY ChordsHold, PInvHolds, PTL
=============================================================================
