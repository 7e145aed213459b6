------------------------- MODULE RouteBuilderProofs -------------------------
(***************************************************************************)
(* What the off-chain builder assembles is what the venues get: for every    *)
(* plan of any number of legs whose instructions a byte can count, the       *)
(* program's running index is, at every leg, the length of what the builder  *)
(* had concatenated before it, so the slice it takes is that leg's own.      *)
(***************************************************************************)
EXTENDS RouteBuilder, SwapRouteV3Proofs, SequenceTheorems

\* A set that holds m and, with every number below n, the next one, holds all
\* of m .. n.
LEMMA UpTo ==
    ASSUME NEW m \in Nat, NEW n \in Nat, NEW S, m \in S,
           \A t \in m .. n : t < n /\ t \in S => t + 1 \in S
    PROVE  \A t \in m .. n : t \in S
<1> DEFINE T == {t \in m .. n : t \notin S}
<1> SUFFICES ASSUME T # {} PROVE FALSE
  OBVIOUS
<1>1. T \subseteq Nat
  OBVIOUS
<1>2. PICK x \in T : \A y \in T : ~(y < x)
  <2> HIDE DEF T
  <2> QED BY <1>1, Least
<1>3. x \in m .. n /\ x \notin S /\ x # m
  BY <1>2
<1>4. x - 1 \in m .. n /\ x - 1 < n /\ x - 1 < x
  BY <1>3
<1>5. x - 1 \in S
  BY <1>2, <1>4
<1>6. (x - 1) + 1 \in S
  BY <1>4, <1>5
<1> QED BY <1>3, <1>6

-----------------------------------------------------------------------------
(* One leg. *)

\* What the assumption on the plans says of one of their legs.
LEMMA PlanLeg ==
    ASSUME NEW plan \in Plans, NEW k \in 1 .. Len(plan.legs)
    PROVE  /\ plan.legs[k].ix \in Instruction
           /\ PlannedIx(plan.legs[k].ix)
<1>1. plan \in Plan
  BY PlansAssumption
<1>2. plan.legs \in Seq([from: Nat \ {0}, to: Nat \ {0}, weight: Nat, ix: Instruction])
  BY <1>1 DEF Plan
<1>3. plan.legs[k] \in [from: Nat \ {0}, to: Nat \ {0}, weight: Nat, ix: Instruction]
  BY <1>2, ElementOfSeq
<1> QED BY <1>3, PlansAssumption

\* assemble_leg_accounts keeps the order, clears the PDA's signature and adds
\* the program.
LEMMA Assembled ==
    ASSUME NEW ix \in Instruction
    PROVE  /\ Len(ix.accounts) \in Nat
           /\ assemble_leg_accounts(ix) \in Seq(AccountMeta)
           /\ Len(assemble_leg_accounts(ix)) = Len(ix.accounts) + 1
           /\ \A i \in 1 .. Len(ix.accounts) :
                 /\ ix.accounts[i] \in AccountMeta
                 /\ assemble_leg_accounts(ix)[i] =
                      IF ix.accounts[i].key = TitanPda THEN WithSigner(ix.accounts[i], FALSE)
                      ELSE ix.accounts[i]
           /\ assemble_leg_accounts(ix)[Len(ix.accounts) + 1] =
                [key |-> ix.program, signer |-> FALSE]
<1> DEFINE n == Len(ix.accounts)
<1> DEFINE e(i) == IF ix.accounts[i].key = TitanPda THEN WithSigner(ix.accounts[i], FALSE)
                   ELSE ix.accounts[i]
<1> DEFINE s == [i \in 1 .. n |-> e(i)]
<1> DEFINE p == [key |-> ix.program, signer |-> FALSE]
<1>1. ix.accounts \in Seq(AccountMeta) /\ ix.program \in Keys
  BY DEF Instruction
<1>2. n \in Nat
  BY <1>1, LenProperties
<1>3. \A i \in 1 .. n : ix.accounts[i] \in AccountMeta
  BY <1>1, ElementOfSeq
<1>4. \A i \in 1 .. n : e(i) \in AccountMeta
  BY <1>3 DEF AccountMeta, WithSigner
<1>5. s \in Seq(AccountMeta) /\ Len(s) = n
  <2> HIDE DEF e, n
  <2>1. s \in [1 .. n -> AccountMeta]
    BY <1>4
  <2>2. s \in Seq(AccountMeta)
    BY <2>1, <1>2, SeqDef
  <2> QED BY <2>1, <2>2, <1>2, LenProperties
<1>6. p \in AccountMeta
  BY <1>1 DEF AccountMeta
<1>7. assemble_leg_accounts(ix) = Append(s, p)
  BY DEF assemble_leg_accounts
<1>8. \A i \in 1 .. n : s[i] = e(i)
  OBVIOUS
<1> HIDE DEF s, p, e, n
<1>9. /\ Append(s, p) \in Seq(AccountMeta)
      /\ Len(Append(s, p)) = n + 1
      /\ \A i \in 1 .. n : Append(s, p)[i] = e(i)
      /\ Append(s, p)[n + 1] = p
  BY <1>5, <1>6, <1>8, AppendProperties
<1> QED BY <1>2, <1>3, <1>7, <1>9 DEF s, p, e, n

-----------------------------------------------------------------------------
(* The route. *)

\* The accounts of leg k, as the builder appends them.
LegMetas(plan, k) == build_swap_leg(plan.legs[k]).accounts

\* AllAccounts is defined: its recursive equation has a solution.
LEMMA AllAccountsDef ==
    ASSUME NEW plan, Len(plan.legs) \in Nat
    PROVE  AllAccounts(plan) =
             [k \in 0 .. Len(plan.legs) |->
                IF k = 0 THEN <<>> ELSE AllAccounts(plan)[k - 1] \o LegMetas(plan, k)]
<1> DEFINE n == Len(plan.legs)
<1> DEFINE A(k) == LegMetas(plan, k)
<1> DEFINE S == {m \in Nat : \E f : f = [k \in 0 .. m |-> IF k = 0 THEN <<>> ELSE f[k - 1] \o A(k)]}
<1> HIDE DEF A
<1>1. 0 \in S
  <2> DEFINE f == [k \in 0 .. 0 |-> <<>>]
  <2>1. f = [k \in 0 .. 0 |-> IF k = 0 THEN <<>> ELSE f[k - 1] \o A(k)]
    OBVIOUS
  <2> HIDE DEF f
  <2> QED BY <2>1
<1>2. ASSUME NEW t \in 0 .. n, t < n, t \in S PROVE t + 1 \in S
  <2>1. PICK f : f = [k \in 0 .. t |-> IF k = 0 THEN <<>> ELSE f[k - 1] \o A(k)]
    BY <1>2
  <2> DEFINE g == [k \in 0 .. t + 1 |-> IF k = t + 1 THEN f[t] \o A(t + 1) ELSE f[k]]
  <2>2. t \in Nat /\ t + 1 \in Nat
    OBVIOUS
  <2>3. \A k \in 0 .. t : f[k] = IF k = 0 THEN <<>> ELSE f[k - 1] \o A(k)
    BY <2>1
  <2>4. \A k \in 0 .. t : g[k] = f[k]
    BY <2>2
  <2>5. g[t + 1] = f[t] \o A(t + 1)
    <3>1. t + 1 \in 0 .. t + 1
      BY <2>2
    <3> QED BY <3>1, Zenon
  <2>6. DOMAIN g = 0 .. t + 1 /\ g = [k \in 0 .. t + 1 |-> g[k]]
    OBVIOUS
  <2> HIDE DEF g
  <2>7. ASSUME NEW k \in 0 .. t + 1
        PROVE  g[k] = IF k = 0 THEN <<>> ELSE g[k - 1] \o A(k)
    <3>1. CASE k = t + 1
      <4>1. k # 0 /\ k - 1 = t /\ t \in 0 .. t
        BY <3>1, <2>2
      <4> QED BY <4>1, <3>1, <2>4, <2>5
    <3>2. CASE k # t + 1
      <4>1. k \in 0 .. t /\ (k # 0 => k - 1 \in 0 .. t)
        BY <3>2, <2>2
      <4> QED BY <4>1, <2>3, <2>4
    <3> QED BY <3>1, <3>2
  <2>8. g = [k \in 0 .. t + 1 |-> IF k = 0 THEN <<>> ELSE g[k - 1] \o A(k)]
    BY <2>6, <2>7
  <2> QED BY <2>2, <2>8
<1>3. n \in S
  <2> HIDE DEF S, n
  <2>1. n \in Nat
    BY DEF n
  <2>2. \A t \in 0 .. n : t \in S
    BY <1>1, <1>2, <2>1, UpTo
  <2> QED BY <2>1, <2>2
<1> DEFINE Eq(f) == f = [k \in 0 .. n |-> IF k = 0 THEN <<>> ELSE f[k - 1] \o A(k)]
<1>4. \E f : Eq(f)
  BY <1>3
<1>5. AllAccounts(plan) = CHOOSE f : Eq(f)
  BY DEF AllAccounts, A, LegMetas
<1> HIDE DEF Eq
<1>6. Eq(AllAccounts(plan))
  BY <1>4, <1>5, Zenon
<1> QED BY <1>6 DEF Eq, A

\* A count below the modulus is kept by the cast.
LEMMA SmallMod == ASSUME NEW x \in Nat, NEW y \in Nat, x < y PROVE x % y = x
<1>1. x \div y \in Int /\ x % y \in Int /\ x = y * (x \div y) + (x % y) /\ 0 <= x % y /\ x % y < y
  OBVIOUS
<1> DEFINE q == x \div y
<1> DEFINE r == x % y
<1> HIDE DEF q, r
<1>2. q >= 1 => y * q >= y
  BY <1>1 DEF q
<1>3. q <= -1 => y * q <= -y
  BY <1>1 DEF q
<1> QED BY <1>1, <1>2, <1>3 DEF q,r

\* A plan that can be built, with legs a byte can count.
Sendable == {plan \in Plans : Buildable(plan) /\ Fits(plan)}

\* The leg built for instruction k of such a plan: n counts its accounts.
LEMMA BuiltLeg ==
    ASSUME NEW plan \in Sendable, NEW k \in 1 .. Len(plan.legs)
    PROVE  LET ix == plan.legs[k].ix
               built == build_swap_leg(plan.legs[k])
           IN  /\ ix \in Instruction /\ PlannedIx(ix)
               /\ protocol_to_venue(ix) # Failed
               /\ LegMetas(plan, k) = assemble_leg_accounts(ix)
               /\ built.spec.n = Len(ix.accounts) + 1
               /\ built.venue = protocol_to_venue(ix)
<1> DEFINE ix == plan.legs[k].ix
<1> DEFINE l == plan.legs[k]
<1>1. plan \in Plans /\ Buildable(plan) /\ Fits(plan)
  BY DEF Sendable
<1>2. ix \in Instruction /\ PlannedIx(ix)
  BY <1>1, PlanLeg
<1>3. Len(ix.accounts) \in Nat /\ Len(assemble_leg_accounts(ix)) = Len(ix.accounts) + 1
  BY <1>2, Assembled
<1>4. build_swap_leg(l) # Failed
  BY <1>1 DEF Buildable
<1>5. protocol_to_venue(ix) # Failed
  BY <1>4 DEF build_swap_leg
<1>6. build_swap_leg(l) =
        [spec |-> [from |-> l.from, to |-> l.to, weight |-> l.weight,
                   n |-> Len(assemble_leg_accounts(ix)) % U8],
         venue |-> protocol_to_venue(ix),
         accounts |-> assemble_leg_accounts(ix)]
  BY <1>5 DEF build_swap_leg
<1>7. (Len(ix.accounts) + 1) % U8 = Len(ix.accounts) + 1
  <2>1. Len(ix.accounts) + 1 < U8
    BY <1>1 DEF Fits
  <2> HIDE DEF ix
  <2>2. U8 \in Nat
    BY U8Assumption
  <2>3. Len(ix.accounts) + 1 \in Nat
    BY <1>3
  <2> QED BY <2>1, <2>2, <2>3, SmallMod
<1> HIDE DEF l, ix
<1>8. build_swap_leg(l).spec.n = Len(ix.accounts) + 1
  BY <1>3, <1>6, <1>7
<1>9. build_swap_leg(l).venue = protocol_to_venue(ix)
      /\ build_swap_leg(l).accounts = assemble_leg_accounts(ix)
  BY <1>6
<1> QED BY <1>2, <1>5, <1>8, <1>9 DEF l, ix, LegMetas

\* The recursion, unfolded, with its types: leg k adds its accounts at the end.
LEMMA AllStep ==
    ASSUME NEW plan \in Sendable
    PROVE  /\ Len(plan.legs) \in Nat
           /\ AllAccounts(plan)[0] = <<>>
           /\ \A k \in 1 .. Len(plan.legs) :
                 AllAccounts(plan)[k] = AllAccounts(plan)[k - 1] \o LegMetas(plan, k)
           /\ \A k \in 0 .. Len(plan.legs) : AllAccounts(plan)[k] \in Seq(AccountMeta)
<1> DEFINE n == Len(plan.legs)
<1> DEFINE all == AllAccounts(plan)
<1>1. n \in Nat
  <2>1. plan \in Plan
    BY PlansAssumption DEF Sendable
  <2>2. plan.legs \in Seq([from: Nat \ {0}, to: Nat \ {0}, weight: Nat, ix: Instruction])
    BY <2>1 DEF Plan
  <2> QED BY <2>2, LenProperties
<1>2. all = [k \in 0 .. n |-> IF k = 0 THEN <<>> ELSE all[k - 1] \o LegMetas(plan, k)]
  BY <1>1, AllAccountsDef
<1> HIDE DEF all, n
<1>3. all[0] = <<>>
  BY <1>1, <1>2
<1>4. ASSUME NEW k \in 1 .. n PROVE all[k] = all[k - 1] \o LegMetas(plan, k)
  <2>1. k \in 0 .. n /\ k # 0
    BY <1>1
  <2> QED BY <1>2, <2>1, Zenon
<1> DEFINE S == {k \in Nat : all[k] \in Seq(AccountMeta)}
<1>5. 0 \in S
  BY <1>3, EmptySeq
<1>6. ASSUME NEW t \in 0 .. n, t < n, t \in S PROVE t + 1 \in S
  <2>1. t + 1 \in 1 .. n /\ (t + 1) - 1 = t /\ t + 1 \in Nat
    BY <1>1, <1>6
  <2>2. all[t + 1] = all[t] \o LegMetas(plan, t + 1)
    BY <1>4, <2>1
  <2>3. LegMetas(plan, t + 1) \in Seq(AccountMeta)
    BY <2>1, BuiltLeg, Assembled DEF n
  <2>4. all[t] \in Seq(AccountMeta)
    BY <1>6
  <2>5. all[t] \o LegMetas(plan, t + 1) \in Seq(AccountMeta)
    BY <2>3, <2>4, ConcatProperties
  <2> QED BY <2>1, <2>2, <2>5
<1>7. \A k \in 0 .. n : k \in S
  <2> HIDE DEF S
  <2> QED BY <1>1, <1>5, <1>6, UpTo
<1> QED BY <1>1, <1>3, <1>4, <1>7 DEF all, n

\* What is concatenated up to leg k is a prefix of the whole, so the accounts of
\* leg k are found in the whole right after those of the legs before it.
LEMMA AllPrefix ==
    ASSUME NEW plan \in Sendable, NEW k \in 0 .. Len(plan.legs)
    PROVE  LET all == AllAccounts(plan)
               n == Len(plan.legs)
           IN  /\ Len(all[k]) \in Nat /\ Len(all[n]) \in Nat
               /\ Len(all[k]) <= Len(all[n])
               /\ \A i \in 1 .. Len(all[k]) : all[n][i] = all[k][i]
<1> DEFINE n == Len(plan.legs)
<1> DEFINE all == AllAccounts(plan)
<1>1. /\ n \in Nat
      /\ \A j \in 1 .. n : all[j] = all[j - 1] \o LegMetas(plan, j)
      /\ \A j \in 0 .. n : all[j] \in Seq(AccountMeta)
  BY AllStep
<1>2. \A j \in 0 .. n : Len(all[j]) \in Nat
  BY <1>1, LenProperties
<1>3. \A j \in 1 .. n : LegMetas(plan, j) \in Seq(AccountMeta)
  BY BuiltLeg, Assembled
<1> HIDE DEF all, n
<1> DEFINE S == {m \in Nat : /\ Len(all[k]) <= Len(all[m])
                             /\ \A i \in 1 .. Len(all[k]) : all[m][i] = all[k][i]}
<1>4. k \in Nat /\ k \in 0 .. n /\ n \in k .. n
  BY <1>1 DEF n
<1>5. k \in S
  BY <1>2, <1>4
<1>6. ASSUME NEW t \in k .. n, t < n, t \in S PROVE t + 1 \in S
  <2>1. t \in 0 .. n /\ t + 1 \in 1 .. n /\ t + 1 \in 0 .. n /\ (t + 1) - 1 = t /\ t + 1 \in Nat
    BY <1>1, <1>4, <1>6
  <2> DEFINE a == all[t]
  <2> DEFINE b == LegMetas(plan, t + 1)
  <2>2. a \in Seq(AccountMeta) /\ b \in Seq(AccountMeta) /\ all[t + 1] = a \o b
    BY <1>1, <1>3, <2>1
  <2>3. Len(a) \in Nat /\ Len(b) \in Nat
    BY <2>2, LenProperties
  <2>4. Len(all[k]) <= Len(a) /\ \A i \in 1 .. Len(all[k]) : a[i] = all[k][i]
    BY <1>6
  <2> HIDE DEF a, b
  <2>5. /\ Len(a \o b) = Len(a) + Len(b)
        /\ \A i \in 1 .. Len(a) + Len(b) : (a \o b)[i] = IF i <= Len(a) THEN a[i] ELSE b[i - Len(a)]
    BY <2>2, ConcatProperties
  <2>6. Len(all[k]) \in Nat
    BY <1>2, <1>4
  <2>7. ASSUME NEW i \in 1 .. Len(all[k]) PROVE (a \o b)[i] = all[k][i]
    <3>1. i \in 1 .. Len(a) + Len(b) /\ i <= Len(a)
      BY <2>3, <2>4, <2>6
    <3> QED BY <3>1, <2>4, <2>5
  <2>8. Len(all[k]) <= Len(a \o b)
    BY <2>3, <2>4, <2>5, <2>6
  <2> QED BY <2>1, <2>2, <2>7, <2>8
<1>7. n \in S
  <2> HIDE DEF S
  <2>1. \A t \in k .. n : t \in S
    BY <1>1, <1>4, <1>5, <1>6, UpTo
  <2> QED BY <1>4, <2>1
<1>8. Len(all[k]) \in Nat /\ Len(all[n]) \in Nat
  BY <1>1, <1>2, <1>4
<1> QED BY <1>7, <1>8 DEF all, n

\* The slice of leg k: after the k - 1 legs before it come its own accounts.
LEMMA LegSlice ==
    ASSUME NEW plan \in Sendable, NEW k \in 1 .. Len(plan.legs)
    PROVE  LET all == AllAccounts(plan)
               n == Len(plan.legs)
               own == assemble_leg_accounts(plan.legs[k].ix)
           IN  /\ Len(all[k - 1]) \in Nat /\ Len(own) \in Nat
               /\ Len(all[k]) = Len(all[k - 1]) + Len(own)
               /\ Len(all[n]) \in Nat /\ Len(all[k]) <= Len(all[n])
               /\ \A i \in 1 .. Len(own) : all[n][Len(all[k - 1]) + i] = own[i]
<1> DEFINE n == Len(plan.legs)
<1> DEFINE all == AllAccounts(plan)
<1> DEFINE own == assemble_leg_accounts(plan.legs[k].ix)
<1>1. /\ n \in Nat
      /\ all[k] = all[k - 1] \o LegMetas(plan, k)
      /\ \A j \in 0 .. n : all[j] \in Seq(AccountMeta)
  BY AllStep
<1>2. LegMetas(plan, k) = own /\ own \in Seq(AccountMeta)
  BY BuiltLeg, Assembled
<1>3. k \in 0 .. n /\ k - 1 \in 0 .. n
  BY <1>1
<1>4. /\ Len(all[n]) \in Nat /\ Len(all[k]) <= Len(all[n])
      /\ \A i \in 1 .. Len(all[k]) : all[n][i] = all[k][i]
  BY <1>3, AllPrefix
<1> HIDE DEF all, own, n
<1> DEFINE a == all[k - 1]
<1>5. a \in Seq(AccountMeta) /\ all[k] = a \o own
  BY <1>1, <1>2, <1>3
<1>6. Len(a) \in Nat /\ Len(own) \in Nat
  BY <1>2, <1>5, LenProperties
<1> HIDE DEF a
<1>7. /\ Len(a \o own) = Len(a) + Len(own)
      /\ \A i \in 1 .. Len(a) + Len(own) :
            (a \o own)[i] = IF i <= Len(a) THEN a[i] ELSE own[i - Len(a)]
  BY <1>2, <1>5, ConcatProperties
<1>8. ASSUME NEW i \in 1 .. Len(own) PROVE all[n][Len(a) + i] = own[i]
  <2>1. Len(a) + i \in 1 .. Len(a) + Len(own) /\ ~(Len(a) + i <= Len(a)) /\ (Len(a) + i) - Len(a) = i
    BY <1>6
  <2>2. (a \o own)[Len(a) + i] = own[i]
    BY <1>7, <2>1
  <2>3. all[n][Len(a) + i] = all[k][Len(a) + i]
    BY <1>4, <1>5, <1>7, <2>1
  <2> QED BY <1>5, <2>2, <2>3
<1> QED BY <1>4, <1>5, <1>6, <1>7, <1>8 DEF all, own, n, a

\* No account of a route asks for a signature: the PDA's own, which the venues'
\* instructions ask for, is cleared.
LEMMA NobodySigns ==
    ASSUME NEW plan \in Sendable, NEW key
    PROVE  ~SignsTransaction(AllAccounts(plan)[Len(plan.legs)], key)
<1> DEFINE n == Len(plan.legs)
<1> DEFINE all == AllAccounts(plan)
<1> DEFINE Quiet(s) == \A i \in 1 .. Len(s) : ~s[i].signer
<1> DEFINE S == {m \in Nat : Quiet(all[m])}
<1>1. /\ n \in Nat
      /\ all[0] = <<>>
      /\ \A j \in 1 .. n : all[j] = all[j - 1] \o LegMetas(plan, j)
      /\ \A j \in 0 .. n : all[j] \in Seq(AccountMeta)
  BY AllStep
<1>2. ASSUME NEW j \in 1 .. n
      PROVE  LegMetas(plan, j) \in Seq(AccountMeta) /\ Quiet(LegMetas(plan, j))
  <2> DEFINE ix == plan.legs[j].ix
  <2>1. ix \in Instruction /\ PlannedIx(ix) /\ LegMetas(plan, j) = assemble_leg_accounts(ix)
    BY BuiltLeg
  <2> HIDE DEF ix, all
  <2> DEFINE own == assemble_leg_accounts(ix)
  <2>2. /\ Len(ix.accounts) \in Nat
        /\ own \in Seq(AccountMeta)
        /\ Len(own) = Len(ix.accounts) + 1
        /\ \A i \in 1 .. Len(ix.accounts) :
              own[i] = IF ix.accounts[i].key = TitanPda THEN WithSigner(ix.accounts[i], FALSE)
                       ELSE ix.accounts[i]
        /\ own[Len(ix.accounts) + 1] = [key |-> ix.program, signer |-> FALSE]
    BY <2>1, Assembled
  <2> HIDE DEF own
  <2>3. ASSUME NEW i \in 1 .. Len(own) PROVE ~own[i].signer
    <3>1. CASE i = Len(ix.accounts) + 1
      BY <2>2, <3>1
    <3>2. CASE i # Len(ix.accounts) + 1
      <4>1. i \in 1 .. Len(ix.accounts)
        BY <2>2, <3>2
      <4>2. CASE ix.accounts[i].key = TitanPda
        <5>1. own[i] = [key |-> ix.accounts[i].key, signer |-> FALSE]
          BY <4>1, <4>2, <2>2 DEF WithSigner
        <5> QED BY <5>1
      <4>3. CASE ix.accounts[i].key # TitanPda
        <5>1. own[i] = ix.accounts[i]
          BY <4>1, <4>3, <2>2
        <5> QED BY <5>1, <4>1, <4>3, <2>1 DEF PlannedIx
      <4> QED BY <4>2, <4>3
    <3> QED BY <3>1, <3>2
  <2> QED BY <2>1, <2>2, <2>3 DEF own
<1>3. 0 \in S
  BY <1>1, EmptySeq
<1> HIDE DEF all, n
<1>4. ASSUME NEW t \in 0 .. n, t < n, t \in S PROVE t + 1 \in S
  <2>1. t + 1 \in 1 .. n /\ (t + 1) - 1 = t /\ t + 1 \in Nat
    BY <1>1, <1>4
  <2> DEFINE a == all[t]
  <2> DEFINE b == LegMetas(plan, t + 1)
  <2>2. /\ a \in Seq(AccountMeta) /\ b \in Seq(AccountMeta) /\ all[t + 1] = a \o b
        /\ Quiet(a) /\ Quiet(b)
    BY <1>1, <1>2, <1>4, <2>1
  <2>3. Len(a) \in Nat /\ Len(b) \in Nat
    BY <2>2, LenProperties
  <2> HIDE DEF a, b
  <2>4. /\ Len(a \o b) = Len(a) + Len(b)
        /\ \A i \in 1 .. Len(a) + Len(b) : (a \o b)[i] = IF i <= Len(a) THEN a[i] ELSE b[i - Len(a)]
    BY <2>2, ConcatProperties
  <2>5. ASSUME NEW i \in 1 .. Len(a) + Len(b)
        PROVE  ~(a \o b)[i].signer
    <3>1. i <= Len(a) => i \in 1 .. Len(a)
      BY <2>3
    <3>2. ~(i <= Len(a)) => i - Len(a) \in 1 .. Len(b)
      BY <2>3
    <3> QED BY <3>1, <3>2, <2>2, <2>4
  <2> QED BY <2>1, <2>2, <2>4, <2>5
<1>5. n \in S
  <2> HIDE DEF S
  <2>1. \A t \in 0 .. n : t \in S
    BY <1>1, <1>3, <1>4, UpTo
  <2> QED BY <1>1, <2>1
<1> QED BY <1>5 DEF SignsTransaction, all, n

\* What the program sees of a sent plan: as many legs, each with the count of
\* its own accounts, and all the accounts together.
LEMMA SentFacts ==
    ASSUME NEW plan \in Sendable
    PROVE  LET r == Sent(plan)
               n == Len(plan.legs)
           IN  /\ Len(r.legs) = n
               /\ \A k \in 1 .. n :
                     r.legs[k].n = Len(assemble_leg_accounts(plan.legs[k].ix))
               /\ r.accounts = Len(AllAccounts(plan)[n])
<1> DEFINE n == Len(plan.legs)
<1> DEFINE spec(k) == build_swap_leg(plan.legs[k]).spec
<1> DEFINE specs == [k \in 1 .. n |-> spec(k)]
<1>1. Sent(plan).legs = specs /\ Sent(plan).accounts = Len(AllAccounts(plan)[n])
  BY DEF Sent, BuildRoute
<1>2. n \in Nat
  BY AllStep
<1>3. \A k \in 1 .. n : spec(k).n = Len(assemble_leg_accounts(plan.legs[k].ix))
  <2> TAKE k \in 1 .. n
  <2>1. plan.legs[k].ix \in Instruction /\ spec(k).n = Len(plan.legs[k].ix.accounts) + 1
    BY BuiltLeg
  <2> QED BY <2>1, Assembled
<1>4. Len(specs) = n /\ \A k \in 1 .. n : specs[k] = spec(k)
  <2> HIDE DEF spec, n
  <2> DEFINE V == {spec(k) : k \in 1 .. n}
  <2>1. specs \in [1 .. n -> V]
    OBVIOUS
  <2> HIDE DEF V
  <2>2. specs \in Seq(V)
    BY <2>1, <1>2, SeqDef
  <2>3. DOMAIN specs = 1 .. n /\ DOMAIN specs = 1 .. Len(specs) /\ Len(specs) \in Nat
    BY <2>1, <2>2, LenProperties
  <2>4. Len(specs) = n
    <3> HIDE DEF specs
    <3> QED BY <2>3, <1>2
  <2> QED BY <2>4
<1> HIDE DEF specs, spec, n
<1> QED BY <1>1, <1>3, <1>4 DEF n

-----------------------------------------------------------------------------
(* The invariant. *)

\* The program's account index is the length of what was built for the legs
\* before this one, whichever of the plans the route was built from.
IndexFollowsBuilder ==
    /\ pc \in {"idle", "create", "snapshot", "fund"} => pos = 0
    /\ pc = "legs" =>
          \A plan \in Sendable :
              route = Sent(plan) => pos = Len(AllAccounts(plan)[leg - 1])

\* A leg that runs, or is skipped, moves the index past its own accounts.
LEMMA NextLegIndex ==
    ASSUME IInv, IndexFollowsBuilder, pc = "legs", NextLeg, UNCHANGED args
    PROVE  IndexFollowsBuilder'
<1>1. pc' \in {"settle", "legs"}
  BY DEF NextLeg
<1>2. ASSUME pc' = "legs", NEW plan \in Sendable, route' = Sent(plan)
      PROVE  pos' = Len(AllAccounts(plan)[leg' - 1])
  <2>1. route = Sent(plan) /\ pos = Len(AllAccounts(plan)[leg - 1])
    BY <1>2 DEF IndexFollowsBuilder, args
  <2>2. leg \in 1 .. Len(route.legs) /\ leg' = leg + 1 /\ pos' = pos + route.legs[leg].n
    BY <1>2 DEF IInv, NextLeg, Swap
  <2>3. /\ leg \in 1 .. Len(plan.legs)
        /\ route.legs[leg].n = Len(assemble_leg_accounts(plan.legs[leg].ix))
    BY <2>1, <2>2, SentFacts
  <2>4. Len(AllAccounts(plan)[leg]) =
          Len(AllAccounts(plan)[leg - 1]) + Len(assemble_leg_accounts(plan.legs[leg].ix))
    BY <2>3, LegSlice
  <2>5. leg' - 1 = leg
    BY <2>2
  <2> QED BY <2>1, <2>2, <2>3, <2>4, <2>5
<1> QED BY <1>1, <1>2 DEF IndexFollowsBuilder

\* Every step keeps it.
LEMMA NextIndex == IInv /\ IndexFollowsBuilder /\ [Next]_vars => IndexFollowsBuilder'
<1> SUFFICES ASSUME IInv, IndexFollowsBuilder, [Next]_vars
             PROVE  IndexFollowsBuilder'
  OBVIOUS
<1>1. CASE Submit
  BY <1>1 DEF IndexFollowsBuilder, Submit, progress
<1>2. CASE CreateAtas
  BY <1>2 DEF IndexFollowsBuilder, CreateAtas
<1>3. CASE Snapshot
  BY <1>3 DEF IndexFollowsBuilder, Snapshot
<1>4. CASE SnapshotError \/ FundError \/ LegError \/ CloseError \/ Check
  <2>1. pc' = "idle" /\ pos' = 0
    BY <1>4 DEF SnapshotError, FundError, LegError, CloseError, Check, End
  <2> QED BY <2>1 DEF IndexFollowsBuilder
<1>5. CASE Fund
  <2>1. pc' = "legs" /\ leg' = 1 /\ pos' = 0
    BY <1>5 DEF Fund, IInv, LegFirst, IndexFollowsBuilder, progress
  <2>2. \A plan \in Sendable : Len(AllAccounts(plan)[0]) = 0
    BY AllStep, EmptySeq
  <2>3. leg' - 1 = 0
    BY <2>1
  <2> QED BY <2>1, <2>2, <2>3 DEF IndexFollowsBuilder
<1>6. CASE SkipLeg \/ CpiSwap \/ CpiMisbehaves
  <2>1. pc = "legs" /\ NextLeg /\ UNCHANGED args
    BY <1>6 DEF SkipLeg, CpiSwap, CpiMisbehaves
  <2> QED BY <2>1, NextLegIndex
<1>7. CASE Settle
  BY <1>7 DEF IndexFollowsBuilder, Settle
<1>8. CASE UNCHANGED vars
  BY <1>8 DEF IndexFollowsBuilder, vars, progress, args
<1> QED BY <1>1, <1>2, <1>3, <1>4, <1>5, <1>6, <1>7, <1>8 DEF Next

\* It holds in every state.
THEOREM IndexFollowsBuilderHolds == Spec => []IndexFollowsBuilder
<1>1. Init => IndexFollowsBuilder
  BY DEF Init, IndexFollowsBuilder
<1>2. IInv /\ IndexFollowsBuilder /\ [Next]_vars => IndexFollowsBuilder'
  BY NextIndex
<1> QED BY <1>1, <1>2, RouteIInv, PTL DEF Spec

\* The instruction a venue gets through the program is the one it asked for.
LEMMA Delivered ==
    ASSUME IInv, IndexFollowsBuilder, pc = "legs",
           NEW plan \in Sendable, route = Sent(plan)
    PROVE  LET ix == plan.legs[leg].ix
               all == AllAccounts(plan)[Len(plan.legs)]
               venue == BuildRoute(plan).venues[leg]
           IN  /\ LegAccountsOk
               /\ account_metas(all) = ix.accounts
               /\ leg_accounts(all)[Swap.n].key = ix.program
               /\ ix.program = PROGRAM_ID[venue.venue]
               /\ ix.protocol = "Overpass" => venue.discriminator = ix.data
<1> DEFINE n == Len(plan.legs)
<1> DEFINE all == AllAccounts(plan)[n]
<1> DEFINE ix == plan.legs[leg].ix
<1> DEFINE own == assemble_leg_accounts(ix)
<1> DEFINE venue == BuildRoute(plan).venues[leg]
<1> DEFINE m == Len(ix.accounts)
<1>1. leg \in 1 .. n
  BY SentFacts DEF IInv
<1>2. Swap.n = Len(own) /\ route.accounts = Len(all)
  BY <1>1, SentFacts DEF Swap
<1>3. pos = Len(AllAccounts(plan)[leg - 1])
  BY DEF IndexFollowsBuilder
<1>4. /\ ix \in Instruction /\ PlannedIx(ix) /\ protocol_to_venue(ix) # Failed
      /\ build_swap_leg(plan.legs[leg]).venue = protocol_to_venue(ix)
  BY <1>1, BuiltLeg
<1>5. /\ m \in Nat /\ Len(own) = m + 1 /\ own \in Seq(AccountMeta)
      /\ \A i \in 1 .. m :
            /\ ix.accounts[i] \in AccountMeta
            /\ own[i] = IF ix.accounts[i].key = TitanPda THEN WithSigner(ix.accounts[i], FALSE)
                        ELSE ix.accounts[i]
      /\ own[m + 1] = [key |-> ix.program, signer |-> FALSE]
  BY <1>4, Assembled
<1>6. /\ pos \in Nat /\ Len(all) \in Nat /\ pos + Len(own) <= Len(all)
      /\ \A i \in 1 .. Len(own) : all[pos + i] = own[i]
  BY <1>1, <1>3, LegSlice
<1>7. \A key : ~SignsTransaction(all, key)
  BY NobodySigns
<1>8. venue = protocol_to_venue(ix)
  BY <1>1, <1>4 DEF BuildRoute
<1> HIDE DEF n, all, ix, own, venue, m
<1>9. LegAccountsOk
  BY <1>2, <1>5, <1>6 DEF LegAccountsOk
<1>10. /\ \A i \in 1 .. m + 1 : leg_accounts(all)[i] = own[i]
       /\ Swap.n = m + 1
  <2>1. Swap.n = m + 1
    BY <1>2, <1>5
  <2>2. \A i \in pos + 1 .. pos + (m + 1) : all[i] \in AccountMeta
    <3> TAKE i \in pos + 1 .. pos + (m + 1)
    <3>1. i - pos \in 1 .. Len(own) /\ pos + (i - pos) = i
      BY <1>5, <1>6
    <3>2. all[i] = own[i - pos]
      BY <1>6, <3>1
    <3> QED BY <3>1, <3>2, <1>5, ElementOfSeq
  <2>3. \A i \in 1 .. (pos + (m + 1)) - (pos + 1) + 1 :
           SubSeq(all, pos + 1, pos + (m + 1))[i] = all[(pos + 1) + i - 1]
    <3>1. pos + 1 \in Int /\ pos + (m + 1) \in Int
      BY <1>5, <1>6
    <3> QED BY <2>2, <3>1, SubSeqProperties
  <2>4. ASSUME NEW i \in 1 .. m + 1 PROVE leg_accounts(all)[i] = own[i]
    <3>1. i \in 1 .. (pos + (m + 1)) - (pos + 1) + 1 /\ (pos + 1) + i - 1 = pos + i
      BY <1>5, <1>6
    <3>2. SubSeq(all, pos + 1, pos + (m + 1))[i] = all[pos + i]
      BY <2>3, <3>1
    <3>3. i \in 1 .. Len(own)
      BY <1>5
    <3> QED BY <3>2, <3>3, <1>6, <2>1 DEF leg_accounts
  <2> QED BY <2>1, <2>4
<1>11. leg_accounts(all)[Swap.n].key = ix.program
  <2>1. m + 1 \in 1 .. m + 1
    BY <1>5
  <2> QED BY <2>1, <1>5, <1>10
<1>12. account_metas(all) = ix.accounts
  <2> DEFINE e(i) == WithSigner(leg_accounts(all)[i],
                       leg_accounts(all)[i].key = TitanPda
                       \/ SignsTransaction(all, leg_accounts(all)[i].key))
  <2>1. account_metas(all) = [i \in 1 .. Swap.n - 1 |-> e(i)]
    BY DEF account_metas
  <2>2. Swap.n - 1 = m
    BY <1>5, <1>10
  <2>3. ix.accounts \in [1 .. m -> AccountMeta]
    BY <1>4, LenProperties DEF Instruction, m
  <2>4. ASSUME NEW i \in 1 .. m PROVE e(i) = ix.accounts[i]
    <3>1. leg_accounts(all)[i] = own[i]
      BY <1>5, <1>10
    <3>2. ix.accounts[i] \in AccountMeta /\ own[i].key = ix.accounts[i].key
      <4>1. ix.accounts[i] \in AccountMeta
        BY <1>5
      <4>2. CASE ix.accounts[i].key = TitanPda
        <5>1. own[i] = [key |-> ix.accounts[i].key, signer |-> FALSE]
          BY <4>2, <1>5 DEF WithSigner
        <5> QED BY <4>1, <5>1
      <4>3. CASE ix.accounts[i].key # TitanPda
        BY <4>1, <4>3, <1>5
      <4> QED BY <4>2, <4>3
    <3>3. e(i) = [key |-> ix.accounts[i].key, signer |-> (ix.accounts[i].key = TitanPda)]
      BY <3>1, <3>2, <1>7 DEF WithSigner
    <3>4. ix.accounts[i].signer = (ix.accounts[i].key = TitanPda)
      BY <1>4, <3>2 DEF PlannedIx, AccountMeta, m
    <3> HIDE DEF e
    <3> QED BY <3>2, <3>3, <3>4 DEF AccountMeta
  <2> HIDE DEF e
  <2> QED BY <2>1, <2>2, <2>3, <2>4
<1>13. /\ ix.program = PROGRAM_ID[venue.venue]
       /\ ix.protocol = "Overpass" => venue.discriminator = ix.data
  <2>1. ix.protocol \in {"RaydiumAMM", "Overpass"} /\ ix.program = program_id[ix.protocol]
    BY <1>4 DEF Instruction, PlannedIx, program_id
  <2>2. CASE ix.protocol = "RaydiumAMM"
    <3>1. venue = [venue |-> "RaydiumAmm", discriminator |-> "swap_base_in_v2"]
      BY <2>2, <1>8 DEF protocol_to_venue
    <3> QED BY <2>1, <2>2, <3>1 DEF program_id, PROGRAM_ID
  <2>3. CASE ix.protocol = "Overpass"
    <3>1. venue = [venue |-> "Overpass", discriminator |-> ix.data]
      BY <2>3, <1>4, <1>8 DEF protocol_to_venue
    <3> QED BY <2>1, <2>3, <3>1 DEF program_id, PROGRAM_ID
  <2> QED BY <2>1, <2>2, <2>3
<1> QED BY <1>9, <1>11, <1>12, <1>13 DEF n, all, ix, venue

\* A built route reaches every venue as that venue's own instruction asked.
THEOREM BuiltRouteDeliveredHolds == Spec => []BuiltRouteDelivered
<1>1. IInv /\ IndexFollowsBuilder => BuiltRouteDelivered
  <2> SUFFICES ASSUME IInv, IndexFollowsBuilder, pc = "legs",
                      NEW b \in Built, b.route = route
               PROVE  LET ix == b.legs[leg].ix
                          venue == b.result.venues[leg]
                      IN  /\ LegAccountsOk
                          /\ ~SignsTransaction(b.result.all, TitanPda)
                          /\ account_metas(b.result.all) = ix.accounts
                          /\ leg_accounts(b.result.all)[Swap.n].key = PROGRAM_ID[venue.venue]
                          /\ ix.program = PROGRAM_ID[venue.venue]
                          /\ ix.protocol = "Overpass" => venue.discriminator = ix.data
    BY DEF BuiltRouteDelivered
  <2>1. PICK plan \in Sendable :
           b = [route |-> Sent(plan), legs |-> plan.legs, result |-> BuildRoute(plan)]
    BY DEF Built, Sendable
  <2>2. route = Sent(plan) /\ b.legs = plan.legs /\ b.result.venues = BuildRoute(plan).venues
        /\ b.result.all = AllAccounts(plan)[Len(plan.legs)]
    BY <2>1 DEF BuildRoute
  <2>3. ~SignsTransaction(b.result.all, TitanPda)
    BY <2>2, NobodySigns
  <2> QED BY <2>2, <2>3, Delivered
<1> QED BY <1>1, RouteIInv, IndexFollowsBuilderHolds, PTL
=============================================================================
